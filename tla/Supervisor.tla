------------------------------ MODULE Supervisor -----------------------------
(***************************************************************************)
(* vek run --workers=N: run_with_workers of cli.c, the processes it forks  *)
(* and the pids the kernel gives them.                                     *)
(*                                                                         *)
(* A pid is free, or that of a running worker ("worker"), of a worker that *)
(* has ended and is not waited for yet ("ok", "failed": exit status 0, and *)
(* any other status or signal), or of a process that is none of ours       *)
(* ("other").  The kernel reuses free pids.  last_start_time and the clock *)
(* are what the code makes of them: `recent' has the slots whose worker    *)
(* was started no more than a second ago.                                  *)
(***************************************************************************)
EXTENDS Integers, Sequences

CONSTANTS N,            \* workers
          Pids,
          RapidLimit,   \* 5
          MaxForkFails  \* bound: how often fork fails

ASSUME SupervisorConstants ==
    /\ N \in Nat \ {0} /\ RapidLimit \in Nat \ {0} /\ MaxForkFails \in Nat
    /\ 0 \notin Pids

Slots == 1 .. N

VARIABLES procs, terminated,   \* the processes; those with SIGTERM
          pids, recent, rapid_restarts,
          doing, slot,         \* where run_with_workers is, and its index
          fork_fails, stale,   \* slots of which the restart has failed
          lives,               \* history: were the last lives short
          strays               \* history: slots whose SIGTERM another process got

kernel == <<procs, terminated>>
table == <<pids, recent, rapid_restarts>>
SupervisorVars == <<kernel, table, doing, slot, fork_fails, stale, lives, strays>>

Ended == {"ok", "failed"}
Short(i) == i \in recent
LastLives(s) == IF Len(s) > RapidLimit THEN Tail(s) ELSE s
-----------------------------------------------------------------------------
\* fork gives a pid that is free once those in `freed' are.
Fork(i, freed) ==
    \E p \in Pids :
        /\ procs[p] = "free" \/ p \in freed
        /\ procs' = [q \in Pids |-> CASE q = p -> "worker"
                                      [] q \in freed \ {p} -> "free"
                                      [] OTHER -> procs[q]]
        /\ terminated' = terminated \ freed
        /\ pids' = [pids EXCEPT ![i] = p]
        /\ recent' = recent \cup {i}
ForkFails == fork_fails < MaxForkFails /\ fork_fails' = fork_fails + 1

fork_worker ==
    /\ doing = "start"
    /\ Fork(slot, {})
    /\ doing' = IF slot = N THEN "wait" ELSE "start"
    /\ slot' = slot + 1
    /\ UNCHANGED <<rapid_restarts, fork_fails, stale, lives, strays>>

\* The first workers are left running.
fork_worker_fails ==
    /\ doing = "start" /\ ForkFails
    /\ doing' = "failed"
    /\ UNCHANGED <<kernel, table, slot, stale, lives, strays>>

-----------------------------------------------------------------------------
(* The loop around waitpid(-1).                                            *)

\* A mutant: cleaning up begins behind the slot that could not be restarted.
FirstSlot_next(i) == i + 1
FirstSlot(i) == 1
Breaks(i) == doing' = "cleanup" /\ slot' = FirstSlot(i)
\* The loop ends when no slot has a pid.
\* A mutant: it goes on for ever.
Continues_always(i) == UNCHANGED <<doing, slot>>
Continues(i) ==
    IF \A j \in Slots : pids'[j] = 0 THEN Breaks(i) ELSE UNCHANGED <<doing, slot>>
Reaped(p) == procs' = [procs EXCEPT ![p] = "free"] /\ terminated' = terminated \ {p}

Exited(i, p) == doing = "wait" /\ procs[p] \in Ended /\ pids[i] = p

worker_ends_normally(i, p) ==
    /\ Exited(i, p) /\ procs[p] = "ok"
    /\ Reaped(p)
    /\ pids' = [pids EXCEPT ![i] = 0] /\ UNCHANGED <<recent, rapid_restarts>>
    /\ Continues(i)
    /\ UNCHANGED <<fork_fails, stale, lives, strays>>

\* A mutant: a long life does not make up for earlier short ones.
Rapid_kept(i) == IF Short(i) THEN rapid_restarts[i] + 1 ELSE rapid_restarts[i]
Rapid(i) == IF Short(i) THEN rapid_restarts[i] + 1 ELSE 0
Crashed(i, p) ==
    /\ Exited(i, p) /\ procs[p] = "failed"
    /\ lives' = [lives EXCEPT ![i] = LastLives(Append(@, Short(i)))]
    /\ rapid_restarts' = [rapid_restarts EXCEPT ![i] = Rapid(i)]
    /\ UNCHANGED strays

\* A mutant: the slot keeps the pid.
Forgotten_kept(i) == pids' = pids
Forgotten(i) == pids' = [pids EXCEPT ![i] = 0]
worker_given_up(i, p) ==
    /\ Crashed(i, p) /\ Rapid(i) >= RapidLimit
    /\ Reaped(p) /\ Forgotten(i)
    /\ Continues(i)
    /\ UNCHANGED <<recent, fork_fails, stale>>

worker_restarted(i, p) ==
    /\ Crashed(i, p) /\ Rapid(i) < RapidLimit
    /\ Fork(i, {p})
    /\ UNCHANGED <<doing, slot, fork_fails, stale>>

\* The slot keeps the pid, which is free.
restart_fails(i, p) ==
    /\ Crashed(i, p) /\ Rapid(i) < RapidLimit /\ ForkFails
    /\ Reaped(p) /\ stale' = stale \cup {i}
    /\ Breaks(i)
    /\ UNCHANGED <<pids, recent>>

-----------------------------------------------------------------------------
(* The end: SIGTERM for each slot with a pid, and waitpid for its process. *)

kill_worker ==
    /\ doing = "cleanup" /\ slot <= N
    /\ IF pids[slot] = 0 THEN slot' = slot + 1 /\ UNCHANGED <<terminated, strays, doing>>
       ELSE /\ terminated' = terminated \cup {pids[slot]}
            /\ strays' = IF procs[pids[slot]] = "other" THEN strays \cup {slot} ELSE strays
            /\ doing' = "killed" /\ UNCHANGED slot
    /\ UNCHANGED <<procs, table, fork_fails, stale, lives>>

\* waitpid returns at once for what is not a child.
wait_for_killed ==
    LET p == pids[slot] IN
    /\ doing = "killed" /\ procs[p] # "worker"
    /\ IF procs[p] \in Ended THEN Reaped(p) ELSE UNCHANGED kernel
    /\ doing' = "cleanup" /\ slot' = slot + 1
    /\ UNCHANGED <<table, fork_fails, stale, lives, strays>>

supervisor_returns ==
    /\ doing = "cleanup" /\ slot > N
    /\ doing' = "returned"
    /\ UNCHANGED <<kernel, table, slot, fork_fails, stale, lives, strays>>

-----------------------------------------------------------------------------
(* The others.  The supervisor has no handlers: SIGINT or SIGTERM end it,  *)
(* and its workers go on.                                                  *)

Others == <<table, doing, slot, fork_fails, stale, lives, strays>>
Running == doing \notin {"returned", "failed", "interrupted"}

supervisor_interrupted ==
    /\ Running /\ doing' = "interrupted"
    /\ UNCHANGED <<kernel, table, slot, fork_fails, stale, lives, strays>>

\* A worker ends of itself, or by SIGTERM, for which it may have a handler.
WorkerEnds(p) ==
    /\ Running /\ procs[p] = "worker"
    /\ \E s \in Ended : procs' = [procs EXCEPT ![p] = s]
    /\ UNCHANGED <<terminated, Others>>
OtherStarts(p) ==
    /\ Running /\ procs[p] = "free" /\ procs' = [procs EXCEPT ![p] = "other"]
    /\ terminated' = terminated \ {p} /\ UNCHANGED Others
OtherEnds(p) ==
    /\ Running /\ procs[p] = "other" /\ procs' = [procs EXCEPT ![p] = "free"]
    /\ terminated' = terminated \ {p} /\ UNCHANGED Others
SecondPasses(i) ==
    /\ doing = "wait" /\ i \in recent /\ recent' = recent \ {i}
    /\ UNCHANGED <<kernel, pids, rapid_restarts, doing, slot, fork_fails, stale, lives, strays>>

-----------------------------------------------------------------------------
SupervisorInit ==
    /\ procs = [p \in Pids |-> "free"] /\ terminated = {}
    /\ pids = [i \in Slots |-> 0] /\ recent = {}
    /\ rapid_restarts = [i \in Slots |-> 0]
    /\ doing = "start" /\ slot = 1 /\ fork_fails = 0 /\ stale = {}
    /\ lives = [i \in Slots |-> <<>>] /\ strays = {}

run_with_workers ==
    \/ fork_worker \/ fork_worker_fails
    \/ \E i \in Slots, p \in Pids :
          \/ worker_ends_normally(i, p) \/ worker_given_up(i, p)
          \/ worker_restarted(i, p) \/ restart_fails(i, p)
    \/ kill_worker \/ wait_for_killed \/ supervisor_returns

SupervisorNext ==
    \/ run_with_workers \/ supervisor_interrupted
    \/ \E p \in Pids : WorkerEnds(p) \/ OtherStarts(p) \/ OtherEnds(p)
    \/ \E i \in Slots : SecondPasses(i)

\* The supervisor runs, and workers end after SIGTERM.
SupervisorFairness ==
    /\ WF_SupervisorVars(run_with_workers)
    /\ \A p \in Pids : WF_SupervisorVars(p \in terminated /\ WorkerEnds(p))

SupervisorSpec == SupervisorInit /\ [][SupervisorNext]_SupervisorVars /\ SupervisorFairness

-----------------------------------------------------------------------------
(* Properties.                                                             *)

\* Every worker process belongs to one slot of the table, so that its end is
\* noticed, and when run_with_workers has cleaned up none is left: also after a
\* fork that failed, whatever the kernel does with the pids that are free.
NoWorkerLeft ==
    /\ doing = "wait" =>
          \A p \in Pids : procs[p] \in Ended \cup {"worker"} =>
              \E i \in Slots : pids[i] = p /\ \A j \in Slots \ {i} : pids[j] # p
    /\ doing = "returned" => \A p \in Pids : procs[p] \notin Ended \cup {"worker"}

\* SIGTERM goes to no process but a worker, unless for a slot whose restart has
\* failed: also after workers were given up and the kernel reused their pids.
OnlyWorkersKilled == strays \subseteq stale

\* A slot is empty exactly when its worker has ended normally or has crashed
\* RapidLimit times in a row within a second of its start.
GaveUp(i) == Len(lives[i]) = RapidLimit /\ \A k \in DOMAIN lives[i] : lives[i][k]
RestartPolicy ==
    /\ [](doing = "wait" => \A i \in Slots : GaveUp(i) => pids[i] = 0)
    /\ [][\A i \in Slots : pids[i] # 0 /\ pids'[i] = 0 =>
             procs[pids[i]] = "ok" \/ GaveUp(i)']_SupervisorVars

\* When no worker is running one is started again or the command ends, and it
\* ends once a restart has failed.
SomeWorker == \E p \in Pids : procs[p] = "worker"
CommandEnds ==
    /\ (doing = "wait" /\ ~SomeWorker) ~> (SomeWorker \/ ~Running)
    /\ doing = "cleanup" ~> ~Running
=============================================================================
