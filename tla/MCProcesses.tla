----------------------------- MODULE MCProcesses -----------------------------
(***************************************************************************)
(* The programs that are several processes, each on its own: the workers   *)
(* with a table of jobs, the supervisor of the workers, vek dev, vek       *)
(* migrate, and the workers with a database.  `live' says which of them a  *)
(* behaviour is about.                                                     *)
(***************************************************************************)
EXTENDS JobQueue, Supervisor, DevServer, Migrations, Database

VARIABLE live

allVars == <<live, vars, SupervisorVars, DevVars, MigrationVars, DatabaseVars>>

MCParent == [a |-> "r", b |-> "a", c |-> "r"]

ProcessesInit ==
    /\ live \in {"jobs", "supervisor", "dev", "migrate", "database"}
    /\ Init /\ SupervisorInit /\ DevInit /\ DatabaseInit
    /\ MigrationsInit /\ (live # "migrate" => files = 0)

ProcessesNext ==
    /\ UNCHANGED live
    /\ \/ live = "jobs" /\ Next /\ UNCHANGED <<SupervisorVars, DevVars, MigrationVars, DatabaseVars>>
       \/ live = "supervisor" /\ SupervisorNext /\ UNCHANGED <<vars, DevVars, MigrationVars, DatabaseVars>>
       \/ live = "dev" /\ DevNext /\ UNCHANGED <<vars, SupervisorVars, MigrationVars, DatabaseVars>>
       \/ live = "migrate" /\ MigrationsNext /\ UNCHANGED <<vars, SupervisorVars, DevVars, DatabaseVars>>
       \/ live = "database" /\ DatabaseNext /\ UNCHANGED <<vars, SupervisorVars, DevVars, MigrationVars>>

\* The fairness of FairSpec, SupervisorSpec and DevSpec.
Fairness ==
    /\ \A w \in Workers : WF_vars(live = "jobs" /\ native_jobs_run_one(w))
    /\ WF_SupervisorVars(live = "supervisor" /\ run_with_workers)
    /\ \A p \in Pids : WF_SupervisorVars(live = "supervisor" /\ p \in terminated /\ WorkerEnds(p))
    /\ WF_DevVars(live = "dev" /\ cmd_dev_run)

ProcessesSpec == ProcessesInit /\ [][ProcessesNext]_allVars /\ Fairness
=============================================================================
