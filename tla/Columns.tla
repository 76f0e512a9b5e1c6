------------------------------- MODULE Columns -------------------------------
(***************************************************************************)
(* How values get into the columns of SQLite and back into maps: the       *)
(* parameters and rows of vek_db.c, bind_params and build_row_map of       *)
(* stdlib_db.c.  A column keeps what is bound to it: it has no declared    *)
(* type.                                                                   *)
(***************************************************************************)
EXTENDS Integers, Sequences, FiniteSetsExt

CONSTANT MAX_COLUMNS

NULL == [type |-> "NULL"]
bind_param(v) ==
    CASE v[1] = "int" -> [type |-> "INTEGER", cell |-> v[2]]
      [] v[1] = "float" -> [type |-> "FLOAT", cell |-> v[2]]
      [] v[1] = "bool" -> [type |-> "INTEGER", cell |-> IF v[2] THEN 1 ELSE 0]
      [] v[1] = "string" -> [type |-> "TEXT", cell |-> v[2]]
      [] OTHER -> NULL
read_column(c) ==
    CASE c.type = "INTEGER" -> <<"int", c.cell>>
      [] c.type = "FLOAT" -> <<"float", c.cell>>
      [] c.type = "TEXT" -> <<"string", c.cell>>
      [] c.type = "BLOB" -> IF c.cell = <<>> THEN <<"nil", 0>> ELSE <<"bytes", c.cell>>
      [] c.type = "NULL" -> <<"nil", 0>>

\* Rows have the same columns; of columns with one name the last one counts,
\* and those after MAX_COLUMNS are dropped.
ColumnCount(names) == IF Len(names) > MAX_COLUMNS THEN MAX_COLUMNS ELSE Len(names)
ColumnOf(names, name) == Max({i \in 1 .. ColumnCount(names) : names[i] = name})
build_row_map(names, row) ==
    [name \in {names[i] : i \in 1 .. ColumnCount(names)} |-> read_column(row[ColumnOf(names, name)])]
vek_db_query(names, rows) == [r \in DOMAIN rows |-> build_row_map(names, rows[r])]

-----------------------------------------------------------------------------
bind_params(values) == [i \in DOMAIN values |-> bind_param(values[i])]

\* Rows come back in their order with what was stored; the values of a row that
\* was read can be stored again, and are then the same.
RowsLaw(names, table) ==
    LET stored == [r \in DOMAIN table |-> bind_params(table[r])]
        read == vek_db_query(names, stored)
        again(r) == vek_db_query(names, <<bind_params([i \in 1 .. ColumnCount(names) |-> read[r][names[i]]])>>)
    IN  /\ Len(read) = Len(table)
        /\ \A r \in DOMAIN table :
              /\ again(r) = <<read[r]>>
              /\ \A i \in 1 .. ColumnCount(names) :
                    (\A j \in i + 1 .. ColumnCount(names) : names[j] # names[i]) =>
                        \/ read[r][names[i]] = table[r][i]
                        \/ table[r][i][1] = "bool" /\ read[r][names[i]] = <<"int", IF table[r][i][2] THEN 1 ELSE 0>>
                        \/ table[r][i][1] \notin {"bool", "int", "float", "string"} /\ read[r][names[i]] = <<"nil", 0>>
=============================================================================
