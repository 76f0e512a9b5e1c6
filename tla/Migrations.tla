------------------------------ MODULE Migrations -----------------------------
(***************************************************************************)
(* vek migrate: migrate_apply of cmd_migrate.c, run by several processes   *)
(* on one database, any of which may be killed.                            *)
(*                                                                         *)
(* Migrations are numbered in the order of their names; those up to        *)
(* `files' exist.  `effects' counts how often what a script does is in the *)
(* database, and `recorded' is the table _migrations.  A transaction is    *)
(* open, has done the script (and holds SQLite's lock for writing), or has *)
(* recorded it besides.  Scripts write, and leave transactions alone.      *)
(***************************************************************************)
EXTENDS Integers

CONSTANTS Processes, MaxMigrations

ASSUME MigrationsConstants == MaxMigrations \in Nat

Scripts == 1 .. MaxMigrations

VARIABLES files, effects, recorded,
          at, count, index,     \* of each process: where, file_count, i
          tx,
          existed               \* history: files when the process looked

database == <<effects, recorded>>
MigrationVars == <<files, database, at, count, index, tx, existed>>

Goes(p, place) == at' = [at EXCEPT ![p] = place]
Tx(p, state) == tx' = [tx EXCEPT ![p] = state]
Same == UNCHANGED <<files, database, count, index, existed>>

\* Reading is possible all the time, writing for one transaction.
Writing(p) == tx[p] \in {"applied", "recorded"}
Locked(p) == \E q \in Processes \ {p} : Writing(q)
-----------------------------------------------------------------------------
\* migrate new: the number is the number of files, plus 1.
migrate_new ==
    /\ files < MaxMigrations /\ files' = files + 1
    /\ UNCHANGED <<database, at, count, index, tx, existed>>

\* open_database and scan_migrations.  A failure to open the database is one of
\* the command; if scan_migrations fails it returns no files, which ends the
\* command well.  The command may be given again.
migrate_apply(p) ==
    /\ at[p] \in {"idle", "succeeded", "failed"}
    /\ \/ Goes(p, "check") /\ count' = [count EXCEPT ![p] = files]
       \/ Goes(p, "succeeded") /\ count' = [count EXCEPT ![p] = 0]
       \/ Goes(p, "failed") /\ UNCHANGED count
    /\ index' = [index EXCEPT ![p] = 1]
    /\ existed' = [existed EXCEPT ![p] = files]
    /\ UNCHANGED <<files, database, tx>>

\* No for an answer also when the question fails.
is_migration_applied(p) ==
    /\ at[p] = "check" /\ index[p] <= count[p]
    /\ \/ /\ index[p] \in recorded
          /\ index' = [index EXCEPT ![p] = @ + 1] /\ UNCHANGED at
       \/ Goes(p, "begin") /\ UNCHANGED index
    /\ UNCHANGED <<files, database, count, tx, existed>>

migrate_done(p) ==
    /\ at[p] = "check" /\ index[p] > count[p]
    /\ Goes(p, "succeeded") /\ UNCHANGED tx /\ Same

begin(p) ==
    /\ at[p] = "begin"
    /\ Goes(p, "exec") /\ Tx(p, "open") /\ Same

\* Whatever fails: the transaction is rolled back, by ROLLBACK or by the end of
\* the connection, and so it is when the process is killed.
\* A mutant: the next migration is tried.
fail_or_crash_continuing(p) ==
    /\ at[p] \in {"check", "begin", "exec", "insert", "commit"}
    /\ Goes(p, "check") /\ Tx(p, "none")
    /\ index' = [index EXCEPT ![p] = @ + 1] /\ UNCHANGED <<files, database, count, existed>>
fail_or_crash(p) ==
    /\ at[p] \in {"check", "begin", "exec", "insert", "commit"}
    /\ Goes(p, "failed") /\ Tx(p, "none") /\ Same

exec_script(p) ==
    /\ at[p] = "exec" /\ ~Locked(p)
    /\ Goes(p, "insert") /\ Tx(p, "applied") /\ Same

\* filename is UNIQUE.
\* A mutant: it is not.
Unrecorded_any(p) == TRUE
Unrecorded(p) == index[p] \notin recorded
insert_record(p) ==
    /\ at[p] = "insert" /\ Unrecorded(p)
    /\ Goes(p, "commit") /\ Tx(p, "recorded") /\ Same

commit(p) ==
    /\ at[p] = "commit"
    /\ effects' = [effects EXCEPT ![index[p]] = @ + 1]
    /\ recorded' = recorded \cup {index[p]}
    /\ Goes(p, "check") /\ Tx(p, "none")
    /\ index' = [index EXCEPT ![p] = @ + 1]
    /\ UNCHANGED <<files, count, existed>>

-----------------------------------------------------------------------------
MigrationsInit ==
    /\ files \in 0 .. MaxMigrations
    /\ effects = [m \in Scripts |-> 0] /\ recorded = {}
    /\ at = [p \in Processes |-> "idle"]
    /\ count = [p \in Processes |-> 0] /\ index = [p \in Processes |-> 1]
    /\ tx = [p \in Processes |-> "none"] /\ existed = [p \in Processes |-> 0]

MigrationsNext ==
    \/ migrate_new
    \/ \E p \in Processes :
          \/ migrate_apply(p) \/ is_migration_applied(p) \/ migrate_done(p)
          \/ begin(p) \/ exec_script(p) \/ insert_record(p) \/ commit(p) \/ fail_or_crash(p)

MigrationsSpec == MigrationsInit /\ [][MigrationsNext]_MigrationVars

-----------------------------------------------------------------------------
(* Properties.                                                             *)

\* What a migration does is in the database once if the migration is recorded
\* and not at all otherwise, whenever processes are killed or fail and however
\* many apply migrations at once.
AppliedOnce == \A m \in Scripts : effects[m] = IF m \in recorded THEN 1 ELSE 0

\* Migrations are recorded in the order of their numbers without gaps.  A
\* process that ends well has seen all recorded that existed when it began, or
\* it has found none: migrate_apply takes a directory that scan_migrations could
\* not read for an empty one, and reports success.
AppliedInOrder ==
    /\ \A m \in recorded : \A n \in 1 .. m : n \in recorded
    /\ \A p \in Processes : at[p] = "succeeded" =>
          count[p] = 0 \/ \A m \in 1 .. existed[p] : m \in recorded
=============================================================================
