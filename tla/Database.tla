------------------------------ MODULE Database ------------------------------
(***************************************************************************)
(* Several workers on one file of SQLite: the connection of each worker's  *)
(* db package (vek_db.c, stdlib_db.c), and the one that its jobs package   *)
(* has of its own.  journal_mode is WAL and there is no busy timeout.      *)
(*                                                                         *)
(* SQLite is external: the file is a log of committed writes; a connection *)
(* reads a snapshot, a prefix of it, from its first statement in a         *)
(* transaction on, and its own writes after that; one that has written     *)
(* holds the lock, and is BUSY if another does or if its snapshot is old.  *)
(***************************************************************************)
EXTENDS Integers, Sequences, FiniteSets, SequencesExt

CONSTANTS DbWorkers, MaxWrites, MaxTransactions   \* the last two are bounds

ASSUME DatabaseLimits == {MaxWrites, MaxTransactions} \subseteq Nat

VARIABLES file,          \* the committed writes, in order
          conns,         \* [worker, package] to connections
          began, written, \* how many transactions and writes there have been
          txs,           \* history: of each db.transaction
          acknowledged, refused  \* history: writes by what exec returned

DatabaseVars == <<file, conns, began, written, txs, acknowledged, refused>>

Connections == DbWorkers \X {"db", "jobs"}
NoSnapshot == -1
Closed == [sqlite |-> FALSE, in_transaction |-> FALSE, snapshot |-> NoSnapshot, writes |-> <<>>, tx |-> 0]
Db(w) == <<w, "db">>
JobsOf(w) == <<w, "jobs">>

(* SQLite *)

HoldsLock(c) == conns[c].writes # <<>>
Current(c) == conns[c].snapshot \in {NoSnapshot, Len(file)}
MayWrite(c) == Current(c) /\ \A d \in Connections \ {c} : ~HoldsLock(d)
Rows(c) ==
    IF conns[c].sqlite /\ conns[c].snapshot # NoSnapshot
    THEN SubSeq(file, 1, conns[c].snapshot) \o conns[c].writes ELSE file

-----------------------------------------------------------------------------
(* vek_db.c                                                                *)

\* vek_db_exec, with the statement prepared, bound and finalized around it.
\* Outside a transaction the write is committed at once; BUSY changes nothing.
vek_db_exec(c) ==
    /\ written < MaxWrites /\ written' = written + 1
    /\ LET id == written + 1
           ok == MayWrite(c)
       IN  /\ acknowledged' = IF ok THEN acknowledged \cup {id} ELSE acknowledged
           /\ refused' = IF ok THEN refused ELSE refused \cup {id}
           /\ IF ok /\ conns[c].sqlite
              THEN /\ conns' = [conns EXCEPT ![c].writes = Append(@, id), ![c].snapshot = Len(file)]
                   /\ UNCHANGED file
              ELSE file' = (IF ok THEN Append(file, id) ELSE file) /\ UNCHANGED conns
           /\ txs' = IF conns[c].tx # 0 THEN [txs EXCEPT ![conns[c].tx].execs = @ \cup {id}] ELSE txs

\* vek_db_query steps to the end of the rows, or to a row whose step fails: what
\* it has by then it returns all the same, and only the history can tell.
vek_db_query(c) ==
    /\ conns' = IF conns[c].sqlite /\ conns[c].snapshot = NoSnapshot
                THEN [conns EXCEPT ![c].snapshot = Len(file)] ELSE conns
    /\ \E n \in 0 .. Len(Rows(c)) :
          txs' = IF conns[c].tx # 0
                 THEN [txs EXCEPT ![conns[c].tx].read = {SubSeq(Rows(c), 1, n)},
                                  ![conns[c].tx].whole = (n = Len(Rows(c)))]
                 ELSE txs

\* A mutant: only the flag is set.
BeginSql_none == FALSE
BeginSql == TRUE
Begun(c) == [Closed EXCEPT !.sqlite = BeginSql, !.in_transaction = TRUE, !.tx = began + 1]
\* SQLite refuses a BEGIN in a transaction, of which the flag may know nothing.
vek_db_begin(c) ==
    ~conns[c].in_transaction /\ ~conns[c].sqlite /\ conns' = [conns EXCEPT ![c] = Begun(c)]
\* A COMMIT of writes can fail: SQLite rolls back (the disk), or keeps its
\* transaction open (a deferred foreign key that is not met: foreign_keys is ON).
\* The flag is cleared in any case.
vek_db_commit(c, ok) ==
    IF ok THEN file' = file \o conns[c].writes /\ conns' = [conns EXCEPT ![c] = Closed]
    ELSE /\ conns[c].writes # <<>> /\ UNCHANGED file
         /\ \/ conns' = [conns EXCEPT ![c] = Closed]
            \/ conns' = [conns EXCEPT ![c].in_transaction = FALSE]
vek_db_rollback(c) == conns' = [conns EXCEPT ![c] = Closed] /\ UNCHANGED file

-----------------------------------------------------------------------------
(* stdlib_db.c: what one worker does at a time, in a callback or outside.   *)

native_db_query(w) ==
    /\ vek_db_query(Db(w))
    /\ UNCHANGED <<file, began, written, acknowledged, refused>>
native_db_exec(w) == vek_db_exec(Db(w)) /\ UNCHANGED began

native_db_transaction(w) ==
    /\ began < MaxTransactions
    /\ vek_db_begin(Db(w))
    /\ began' = began + 1
    /\ txs' = Append(txs, [execs |-> {}, read |-> {}, whole |-> TRUE, outcome |-> "open"])
    /\ UNCHANGED <<file, written, acknowledged, refused>>
InCallback(w) == conns[Db(w)].in_transaction
EndedAs(w, outcome) ==
    /\ txs' = [txs EXCEPT ![conns[Db(w)].tx].outcome = outcome]
    /\ UNCHANGED <<began, written, acknowledged, refused>>
\* After a COMMIT that failed vek_db_rollback does nothing: the flag is cleared.
callback_returns(w) ==
    /\ InCallback(w)
    /\ \E ok \in BOOLEAN :
          vek_db_commit(Db(w), ok) /\ EndedAs(w, IF ok THEN "returned" ELSE "nil")
callback_fails(w) == InCallback(w) /\ vek_db_rollback(Db(w)) /\ EndedAs(w, "nil")

\* jobs.enqueue has its own connection: inside a db.transaction that has
\* written it is refused.
native_jobs_insert(w) == vek_db_exec(JobsOf(w)) /\ UNCHANGED began

\* The worker dies and connects again: SQLite's transaction is gone.
worker_restarts(w) ==
    /\ conns[Db(w)].sqlite
    /\ conns' = [conns EXCEPT ![Db(w)] = Closed]
    /\ txs' = IF InCallback(w) THEN [txs EXCEPT ![conns[Db(w)].tx].outcome = "died"] ELSE txs
    /\ UNCHANGED <<file, began, written, acknowledged, refused>>

DatabaseInit ==
    /\ file = <<>> /\ conns = [c \in Connections |-> Closed]
    /\ began = 0 /\ written = 0 /\ txs = <<>> /\ acknowledged = {} /\ refused = {}
DatabaseNext ==
    \E w \in DbWorkers :
        \/ native_db_query(w) \/ native_db_exec(w)
        \/ native_db_transaction(w) \/ callback_returns(w) \/ callback_fails(w)
        \/ native_jobs_insert(w)
        \/ worker_restarts(w)
DatabaseSpec == DatabaseInit /\ [][DatabaseNext]_DatabaseVars

-----------------------------------------------------------------------------
(* Properties.                                                             *)

\* What SQLite took into a transaction: the writes of the callback, and after a
\* COMMIT that failed and left it open every later write of the connection.
InTx == UNION {txs[i].execs : i \in DOMAIN txs}
\* Where the file has the writes of a transaction.
Places(i) == {p \in DOMAIN file : file[p] \in txs[i].execs}

\* What db.exec and db.transaction return is true, whoever else writes, fails or
\* dies: a write that was refused is never stored; one that was acknowledged is
\* stored once, at once outside a transaction, and inside it when and only when
\* the callback has returned; the writes of one transaction stand together in
\* the file and in order. The exception is the code's: where a failed COMMIT has
\* left SQLite's transaction open, the connection's later writes are in it, are
\* acknowledged, and are never stored.
WritesAsTold ==
    /\ IsInjective(file) /\ ToSet(file) \cap refused = {}
    /\ acknowledged \ InTx \subseteq ToSet(file)
    /\ \A i \in DOMAIN txs :
          /\ txs[i].outcome = "returned" => txs[i].execs \cap acknowledged \subseteq ToSet(file)
          /\ txs[i].outcome # "returned" => Places(i) = {}
          /\ \A p, q \in Places(i) : p < q => p .. q \subseteq Places(i) /\ file[p] < file[q]

\* No lost update: what a transaction that has written has read last is a
\* beginning of the file, and if no step of the query failed it has all that
\* precedes its writes in the file, perhaps with writes of its own.
ReadsHold ==
    \A i \in DOMAIN txs :
        txs[i].outcome = "returned" /\ Places(i) # {} =>
            \E first \in Places(i) :
                /\ \A p \in Places(i) : first <= p
                /\ \A rows \in txs[i].read :
                      (txs[i].whole => first - 1 <= Len(rows)) /\ IsPrefix(rows, file)

\* The workers may as well have had the file one after the other.
TransactionsSerial == WritesAsTold /\ ReadsHold
=============================================================================
