--------------------------- MODULE CommandsProofs ----------------------------
(***************************************************************************)
(* Theorems about what processes share: the supervisor of workers, the dev *)
(* server, the migrations, the transactions of workers on a database and   *)
(* their jobs, for any processes, pids, directories, files and limits.     *)
(***************************************************************************)
EXTENDS Supervisor, DevServer, Migrations, Database, JobQueue, SequenceTheorems, TLAPS

(* The worker supervisor.                                                  *)

Child(p) == procs[p] \in Ended \cup {"worker"}
Watching == doing \in {"start", "wait"}
CleaningUp == doing \in {"cleanup", "killed"}

SupervisorTypes ==
    /\ procs \in [Pids -> {"free", "worker", "ok", "failed", "other"}]
    /\ terminated \subseteq Pids
    /\ pids \in [Slots -> Pids \cup {0}]
    /\ recent \subseteq Slots
    /\ doing \in {"start", "wait", "cleanup", "killed", "returned", "failed", "interrupted"}
    /\ slot \in 1 .. N + 1
    /\ stale \subseteq Slots /\ strays \subseteq Slots

\* While the first workers are forked, the slots still to come are empty.
Starting ==
    /\ doing = "start" => slot <= N /\ \A i \in Slots : i >= slot => pids[i] = 0
    /\ doing = "killed" => slot <= N /\ pids[slot] # 0

\* No two slots have the same pid.
OneSlot == \A i, j \in Slots : pids[i] = pids[j] /\ pids[i] # 0 => i = j

\* The pid of a slot is that of a worker, unless its restart has failed: then
\* it may be anybody's.
SlotsAreChildren ==
    /\ Watching => stale = {} /\ \A i \in Slots : pids[i] # 0 => Child(pids[i])
    /\ CleaningUp => \A i \in Slots \ stale : i >= slot /\ pids[i] # 0 => Child(pids[i])

\* A worker has a slot, and when cleaning up one that is still to come.
ChildrenHaveSlots ==
    \A p \in Pids : Child(p) =>
        /\ Watching => \E i \in Slots : pids[i] = p
        /\ CleaningUp => \E i \in Slots : i >= slot /\ pids[i] = p
        /\ doing # "returned"

SupervisorInv ==
    /\ SupervisorTypes /\ Starting /\ OneSlot /\ SlotsAreChildren /\ ChildrenHaveSlots
    /\ OnlyWorkersKilled

LEMMA InitiallyNoWorkers == SupervisorInit => SupervisorInv
BY SupervisorConstants
   DEF SupervisorInit, SupervisorInv, SupervisorTypes, Starting, OneSlot, SlotsAreChildren, ChildrenHaveSlots,
       OnlyWorkersKilled, Child, Watching, CleaningUp, Ended, Slots

\* A fork while the supervisor watches: the new pid is in no other slot.
LEMMA ForkStep ==
    ASSUME SupervisorInv, Watching, NEW i \in Slots, NEW freed \in SUBSET Pids,
           \A p \in freed : pids[i] = p /\ Child(p),
           pids[i] # 0 => pids[i] \in freed,
           Fork(i, freed)
    PROVE  /\ procs' \in [Pids -> {"free", "worker", "ok", "failed", "other"}]
           /\ pids' \in [Slots -> Pids \cup {0}]
           /\ terminated' \subseteq Pids /\ recent' \subseteq Slots
           /\ OneSlot'
           /\ \A j \in Slots : pids'[j] # 0 => Child(pids[j])'
           /\ \A p \in Pids : Child(p)' => \E j \in Slots : pids'[j] = p
           /\ \A j \in Slots \ {i} : pids'[j] = pids[j]
<1> USE SupervisorConstants DEF SupervisorInv, SupervisorTypes
<1>1. PICK p \in Pids :
          /\ procs[p] = "free" \/ p \in freed
          /\ procs' = [q \in Pids |-> CASE q = p -> "worker"
                                        [] q \in freed \ {p} -> "free"
                                        [] OTHER -> procs[q]]
          /\ pids' = [pids EXCEPT ![i] = p]
    BY DEF Fork
<1>2. /\ terminated' \subseteq Pids /\ recent' \subseteq Slots
    BY DEF Fork
<1>3. procs' \in [Pids -> {"free", "worker", "ok", "failed", "other"}] /\ pids' \in [Slots -> Pids \cup {0}]
    BY <1>1
<1>4. \A j \in Slots \ {i} : pids'[j] = pids[j] /\ pids[j] # p /\ pids[j] \notin freed
    BY <1>1 DEF OneSlot, SlotsAreChildren, Child, Ended
<1>5. OneSlot'
    BY <1>1, <1>4 DEF OneSlot
<1>6. \A j \in Slots : pids'[j] # 0 => Child(pids[j])'
    BY <1>1, <1>4 DEF SlotsAreChildren, Child, Ended
<1>7. \A q \in Pids : Child(q)' => \E j \in Slots : pids'[j] = q
    <2> SUFFICES ASSUME NEW q \in Pids, Child(q)' PROVE \E j \in Slots : pids'[j] = q
        OBVIOUS
    <2>1. CASE q = p
        BY <1>1, <2>1
    <2>2. CASE q # p
        <3>1. q \notin freed /\ Child(q)
            BY <1>1, <2>2 DEF Child, Ended
        <3>2. PICK j \in Slots : pids[j] = q
            BY <3>1 DEF ChildrenHaveSlots
        <3> QED
            BY <1>4, <3>1, <3>2
    <2> QED
        BY <2>1, <2>2
<1> QED
    BY <1>2, <1>3, <1>4, <1>5, <1>6, <1>7

\* A worker that has ended is waited for, and its slot emptied.
LEMMA EndedStep ==
    ASSUME SupervisorInv, NEW i \in Slots, NEW p \in Pids,
           Exited(i, p), Reaped(p), pids' = [pids EXCEPT ![i] = 0],
           Continues(i), recent' \subseteq Slots, UNCHANGED <<stale, strays>>
    PROVE  SupervisorInv'
<1> USE SupervisorConstants DEF SupervisorInv
<1>1. /\ Watching /\ doing = "wait" /\ pids[i] = p /\ Child(p) /\ stale = {}
      /\ \A j \in Slots \ {i} : pids'[j] = pids[j] /\ pids[j] # p
      /\ pids'[i] = 0
      /\ \A q \in Pids \ {p} : procs'[q] = procs[q]
      /\ procs'[p] = "free"
    BY DEF Exited, Reaped, Watching, Child, SlotsAreChildren, OneSlot, SupervisorTypes
<1>2. \/ doing' = "cleanup" /\ slot' = 1
      \/ doing' = "wait" /\ slot' = slot
    BY <1>1 DEF Continues, Breaks, FirstSlot
<1>3. SupervisorTypes'
    BY <1>2 DEF SupervisorTypes, Reaped, Slots
<1>4. Starting'
    BY <1>2 DEF Starting
<1>5. OneSlot'
    BY <1>1 DEF OneSlot
<1>6. SlotsAreChildren'
    BY <1>1, <1>2 DEF SlotsAreChildren, Child, Watching, CleaningUp, SupervisorTypes
<1>7. ChildrenHaveSlots'
    BY <1>1, <1>2 DEF ChildrenHaveSlots, Child, Watching, CleaningUp, Ended, Slots
<1>8. OnlyWorkersKilled'
    BY DEF OnlyWorkersKilled
<1> QED
    BY <1>3, <1>4, <1>5, <1>6, <1>7, <1>8

\* Where no slot changes, and a process stays a worker or none.
LEMMA OthersStep ==
    ASSUME SupervisorInv, procs' \in [Pids -> {"free", "worker", "ok", "failed", "other"}],
           \A p \in Pids : Child(p)' <=> Child(p),
           terminated' \subseteq Pids, recent' \subseteq Slots,
           UNCHANGED <<pids, doing, slot, stale, strays>>
    PROVE  SupervisorInv'
<1> USE DEF SupervisorInv
<1>1. SupervisorTypes' /\ Starting' /\ OneSlot' /\ OnlyWorkersKilled'
    BY DEF SupervisorTypes, Starting, OneSlot, OnlyWorkersKilled
<1>2. SlotsAreChildren'
    BY DEF SlotsAreChildren, Watching, CleaningUp, SupervisorTypes
<1>3. ChildrenHaveSlots'
    BY DEF ChildrenHaveSlots, Watching, CleaningUp
<1> QED
    BY <1>1, <1>2, <1>3

\* Cleaning up goes on to the next slot, when the process of this one is gone.
LEMMA NextSlotStep ==
    ASSUME SupervisorInv, CleaningUp, slot <= N, doing' = "cleanup", slot' = slot + 1,
           \A p \in Pids : Child(p)' => Child(p) /\ pids[slot] # p,
           \A p \in Pids \ {pids[slot]} : procs'[p] = procs[p],
           procs' \in [Pids -> {"free", "worker", "ok", "failed", "other"}],
           terminated' \subseteq Pids,
           UNCHANGED <<pids, recent, stale, strays>>
    PROVE  SupervisorInv'
<1> USE SupervisorConstants DEF SupervisorInv
<1>1. SupervisorTypes' /\ Starting' /\ OneSlot' /\ OnlyWorkersKilled'
    BY DEF SupervisorTypes, Starting, OneSlot, OnlyWorkersKilled
<1>2. SlotsAreChildren'
    <2> SUFFICES ASSUME NEW i \in Slots \ stale, i >= slot + 1, pids[i] # 0
                 PROVE  Child(pids[i])'
        BY DEF SlotsAreChildren, Watching, CleaningUp
    <2>1. pids[i] # pids[slot]
        BY DEF OneSlot, SupervisorTypes, Slots
    <2>2. Child(pids[i])
        BY DEF SlotsAreChildren, SupervisorTypes, Slots
    <2> QED
        BY <2>1, <2>2 DEF Child, SupervisorTypes
<1>3. ChildrenHaveSlots'
    BY DEF ChildrenHaveSlots, Watching, CleaningUp, SupervisorTypes, Slots
<1> QED
    BY <1>1, <1>2, <1>3

\* Every step of the command, its workers and other processes keeps the invariant.
LEMMA SupervisorStep == SupervisorInv /\ [SupervisorNext]_SupervisorVars => SupervisorInv'
<1> SUFFICES ASSUME SupervisorInv, [SupervisorNext]_SupervisorVars PROVE SupervisorInv'
    OBVIOUS
<1> USE SupervisorConstants
<1>1. CASE fork_worker
    <2>1. Watching /\ slot \in Slots /\ pids[slot] = 0 /\ stale = {}
        BY <1>1 DEF fork_worker, Watching, SupervisorInv, SupervisorTypes, Starting, SlotsAreChildren, Slots
    <2>2. /\ procs' \in [Pids -> {"free", "worker", "ok", "failed", "other"}]
          /\ pids' \in [Slots -> Pids \cup {0}]
          /\ terminated' \subseteq Pids /\ recent' \subseteq Slots
          /\ OneSlot'
          /\ \A j \in Slots : pids'[j] # 0 => Child(pids[j])'
          /\ \A p \in Pids : Child(p)' => \E j \in Slots : pids'[j] = p
          /\ \A j \in Slots \ {slot} : pids'[j] = pids[j]
        BY <1>1, <2>1, ForkStep DEF fork_worker
    <2>3. SupervisorTypes' /\ Starting'
        BY <1>1, <2>1, <2>2 DEF fork_worker, SupervisorInv, SupervisorTypes, Starting, Slots
    <2>4. SlotsAreChildren' /\ ChildrenHaveSlots'
        BY <1>1, <2>1, <2>2 DEF fork_worker, SlotsAreChildren, ChildrenHaveSlots, Watching, CleaningUp
    <2>5. OnlyWorkersKilled'
        BY <1>1 DEF fork_worker, SupervisorInv, OnlyWorkersKilled
    <2> QED
        BY <2>2, <2>3, <2>4, <2>5 DEF SupervisorInv
<1>2. CASE fork_worker_fails \/ supervisor_interrupted
    BY <1>2 DEF fork_worker_fails, supervisor_interrupted, SupervisorInv, SupervisorTypes, Starting, OneSlot,
                SlotsAreChildren, ChildrenHaveSlots, OnlyWorkersKilled, Child, Watching, CleaningUp, kernel, table
<1>3. ASSUME NEW i \in Slots, NEW p \in Pids, worker_ends_normally(i, p) PROVE SupervisorInv'
    BY <1>3, EndedStep DEF worker_ends_normally, SupervisorInv, SupervisorTypes
<1>4. ASSUME NEW i \in Slots, NEW p \in Pids, worker_given_up(i, p) PROVE SupervisorInv'
    BY <1>4, EndedStep DEF worker_given_up, Crashed, Forgotten, SupervisorInv, SupervisorTypes
<1>5. ASSUME NEW i \in Slots, NEW p \in Pids, worker_restarted(i, p) PROVE SupervisorInv'
    <2>1. /\ doing = "wait" /\ Watching /\ stale = {} /\ pids[i] = p /\ Child(p)
          /\ UNCHANGED <<doing, slot, stale, strays>>
        BY <1>5 DEF worker_restarted, Crashed, Exited, Watching, Child, SupervisorInv, SlotsAreChildren
    <2>2. /\ procs' \in [Pids -> {"free", "worker", "ok", "failed", "other"}]
          /\ pids' \in [Slots -> Pids \cup {0}]
          /\ terminated' \subseteq Pids /\ recent' \subseteq Slots
          /\ OneSlot'
          /\ \A j \in Slots : pids'[j] # 0 => Child(pids[j])'
          /\ \A q \in Pids : Child(q)' => \E j \in Slots : pids'[j] = q
        BY <1>5, <2>1, ForkStep DEF worker_restarted
    <2>3. SupervisorTypes' /\ Starting' /\ OnlyWorkersKilled'
        BY <2>1, <2>2 DEF SupervisorInv, SupervisorTypes, Starting, OnlyWorkersKilled
    <2>4. SlotsAreChildren' /\ ChildrenHaveSlots'
        BY <2>1, <2>2 DEF SlotsAreChildren, ChildrenHaveSlots, Watching, CleaningUp
    <2> QED
        BY <2>2, <2>3, <2>4 DEF SupervisorInv
<1>6. ASSUME NEW i \in Slots, NEW p \in Pids, restart_fails(i, p) PROVE SupervisorInv'
    <2>1. /\ doing = "wait" /\ Watching /\ stale = {} /\ pids[i] = p
          /\ doing' = "cleanup" /\ slot' = 1 /\ stale' = {i}
          /\ procs' = [procs EXCEPT ![p] = "free"]
          /\ UNCHANGED <<pids, recent, strays>>
        BY <1>6 DEF restart_fails, Crashed, Exited, Reaped, Breaks, FirstSlot, Watching, SupervisorInv, SlotsAreChildren
    <2>2. SupervisorTypes' /\ Starting' /\ OneSlot' /\ OnlyWorkersKilled'
        BY <1>6, <2>1 DEF restart_fails, Reaped, SupervisorInv, SupervisorTypes, Starting, OneSlot,
                          OnlyWorkersKilled, Slots
    <2>3. SlotsAreChildren'
        BY <2>1 DEF SupervisorInv, SupervisorTypes, OneSlot, SlotsAreChildren, Child, Watching, CleaningUp
    <2>4. ChildrenHaveSlots'
        BY <2>1 DEF SupervisorInv, SupervisorTypes, ChildrenHaveSlots, Child, Ended, Watching, CleaningUp, Slots
    <2> QED
        BY <2>2, <2>3, <2>4 DEF SupervisorInv
<1>7. CASE kill_worker
    <2>1. doing = "cleanup" /\ CleaningUp /\ slot \in Slots
        BY <1>7 DEF kill_worker, CleaningUp, SupervisorInv, SupervisorTypes, Slots
    <2>2. CASE pids[slot] = 0
        BY <1>7, <2>1, <2>2, NextSlotStep DEF kill_worker, table, SupervisorInv, SupervisorTypes, Child
    <2>3. CASE pids[slot] # 0
        <3>1. procs[pids[slot]] = "other" => slot \in stale
            BY <2>1, <2>3 DEF SupervisorInv, SupervisorTypes, SlotsAreChildren, Child, Ended, Slots
        <3>2. SupervisorTypes' /\ Starting' /\ OneSlot' /\ OnlyWorkersKilled'
            BY <1>7, <2>1, <2>3, <3>1, ZenonT(40) DEF kill_worker, table, SupervisorInv, SupervisorTypes, Starting, OneSlot,
                                          OnlyWorkersKilled, Slots
        <3>3. SlotsAreChildren' /\ ChildrenHaveSlots'
            BY <1>7, <2>1, <2>3 DEF kill_worker, table, SupervisorInv, SlotsAreChildren, ChildrenHaveSlots, Child,
                                    Watching, CleaningUp
        <3> QED
            BY <3>2, <3>3 DEF SupervisorInv
    <2> QED
        BY <2>2, <2>3
<1>8. CASE wait_for_killed
    <2>1. doing = "killed" /\ CleaningUp /\ slot \in Slots /\ pids[slot] \in Pids
        BY <1>8 DEF wait_for_killed, CleaningUp, SupervisorInv, SupervisorTypes, Starting, Slots
    <2>2. \A p \in Pids : Child(p)' => Child(p) /\ pids[slot] # p
        BY <1>8, <2>1 DEF wait_for_killed, Reaped, kernel, SupervisorInv, SupervisorTypes, Child, Ended
    <2> QED
        BY <1>8, <2>1, <2>2, NextSlotStep
           DEF wait_for_killed, Reaped, kernel, table, SupervisorInv, SupervisorTypes, Slots
<1>9. CASE supervisor_returns
    <2>1. \A p \in Pids : ~Child(p)
        BY <1>9 DEF supervisor_returns, SupervisorInv, SupervisorTypes, ChildrenHaveSlots, CleaningUp, Slots
    <2> QED
        BY <1>9, <2>1 DEF supervisor_returns, SupervisorInv, SupervisorTypes, Starting, OneSlot, SlotsAreChildren,
                          ChildrenHaveSlots, OnlyWorkersKilled, Child, Watching, CleaningUp, kernel, table
<1>10. ASSUME NEW p \in Pids, WorkerEnds(p) \/ OtherStarts(p) \/ OtherEnds(p) PROVE SupervisorInv'
    BY <1>10, OthersStep DEF WorkerEnds, OtherStarts, OtherEnds, Others, table, SupervisorInv, SupervisorTypes,
                             Child, Ended
<1>11. ASSUME NEW i \in Slots, SecondPasses(i) PROVE SupervisorInv'
    BY <1>11, OthersStep DEF SecondPasses, kernel, SupervisorInv, SupervisorTypes, Child
<1>12. CASE UNCHANGED SupervisorVars
    BY <1>12, OthersStep DEF SupervisorVars, kernel, table, SupervisorInv, SupervisorTypes, Child
<1> QED
    BY <1>1, <1>2, <1>3, <1>4, <1>5, <1>6, <1>7, <1>8, <1>9, <1>10, <1>11, <1>12
       DEF SupervisorNext, run_with_workers

LEMMA SupervisorAlways == SupervisorSpec => []SupervisorInv
BY InitiallyNoWorkers, SupervisorStep, PTL DEF SupervisorSpec

\* However many workers there are, whatever forks fail and pids the kernel gives
\* again: each worker belongs to one slot of the table, and when run_with_workers
\* has cleaned up there is none.
THEOREM NoWorkerEverLeft == SupervisorSpec => []NoWorkerLeft
<1>1. SupervisorInv => NoWorkerLeft
    BY SupervisorConstants
       DEF SupervisorInv, NoWorkerLeft, ChildrenHaveSlots, OneSlot, Child, Watching
<1> QED
    BY <1>1, SupervisorAlways, PTL

\* SIGTERM goes to no process but a worker, unless for a slot whose restart has
\* failed (run_with_workers).
THEOREM OnlyWorkersEverKilled == SupervisorSpec => []OnlyWorkersKilled
<1>1. SupervisorInv => OnlyWorkersKilled
    BY DEF SupervisorInv
<1> QED
    BY <1>1, SupervisorAlways, PTL

\* rapid_restarts counts the short lives at the end of `lives', and a slot whose
\* worker is there has had fewer than RapidLimit.
Counts(s, r) ==
    /\ Len(s) <= RapidLimit /\ r <= Len(s)
    /\ \A k \in DOMAIN s : k > Len(s) - r => s[k] = TRUE
    /\ r < Len(s) => s[Len(s) - r] = FALSE
LivesCounted ==
    /\ rapid_restarts \in [Slots -> Nat] /\ lives \in [Slots -> Seq(BOOLEAN)]
    /\ \A i \in Slots : Counts(lives[i], rapid_restarts[i])
    /\ doing = "start" => \A i \in Slots : rapid_restarts[i] = 0
    /\ Watching => \A i \in Slots : pids[i] # 0 => rapid_restarts[i] < RapidLimit

LEMMA OneMoreLife ==
    ASSUME NEW s \in Seq(BOOLEAN), NEW r \in Nat, NEW b \in BOOLEAN, Counts(s, r), r < RapidLimit
    PROVE  /\ LastLives(Append(s, b)) \in Seq(BOOLEAN)
           /\ Counts(LastLives(Append(s, b)), IF b THEN r + 1 ELSE 0)
<1>n. PICK n : n = Len(s)
    OBVIOUS
<1>t. PICK t : t = Append(s, b)
    OBVIOUS
<1>1. /\ n \in Nat /\ n = Len(s) /\ DOMAIN s = 1 .. n /\ RapidLimit \in Nat \ {0} /\ n <= RapidLimit /\ r <= n
      /\ \A k \in 1 .. n : k > n - r => s[k] = TRUE
      /\ r < n => s[n - r] = FALSE
    BY <1>n, SupervisorConstants DEF Counts
<1>2. /\ t \in Seq(BOOLEAN) /\ Len(t) = n + 1 /\ DOMAIN t = 1 .. (n + 1) /\ t[n + 1] = b
      /\ \A k \in 1 .. n : t[k] = s[k]
    BY <1>n, <1>t
<1>3. CASE n < RapidLimit
    <2>1. LastLives(t) = t
        BY <1>1, <1>2, <1>3 DEF LastLives
    <2>2. CASE b = TRUE
        <3>1. ASSUME NEW k \in DOMAIN t, k > Len(t) - (r + 1) PROVE t[k] = TRUE
            <4>1. CASE k = n + 1
                BY <1>2, <2>2, <4>1
            <4>2. CASE k # n + 1
                <5>1. k \in 1 .. n /\ k > n - r
                    BY <1>1, <1>2, <3>1, <4>2
                <5> QED
                    BY <1>1, <1>2, <5>1
            <4> QED
                BY <4>1, <4>2
        <3>2. r + 1 < Len(t) => t[Len(t) - (r + 1)] = FALSE
            BY <1>1, <1>2
        <3>3. Len(t) <= RapidLimit /\ r + 1 <= Len(t)
            BY <1>1, <1>2, <1>3
        <3> QED
            BY <1>t, <1>2, <2>1, <2>2, <3>1, <3>2, <3>3 DEF Counts
    <2>3. CASE b = FALSE
        <3>1. Counts(t, 0)
            BY <1>1, <1>2, <1>3, <2>3 DEF Counts
        <3> QED
            BY <1>t, <1>2, <2>1, <2>3, <3>1
    <2> QED
        BY <2>2, <2>3
<1>4. CASE n = RapidLimit
    <2>u. PICK u : u = Tail(t)
        OBVIOUS
    <2>1. LastLives(t) = u
        BY <1>1, <1>2, <1>4, <2>u DEF LastLives
    <2>2. /\ u \in Seq(BOOLEAN) /\ Len(u) = n /\ DOMAIN u = 1 .. n
          /\ \A k \in 1 .. n : u[k] = t[k + 1]
        BY <1>1, <1>2, <2>u
    <2>3. CASE b = TRUE
        <3>1. ASSUME NEW k \in 1 .. n, k > n - (r + 1) PROVE u[k] = TRUE
            <4>1. CASE k = n
                BY <1>2, <2>2, <2>3, <4>1
            <4>2. CASE k # n
                <5>1. k + 1 \in 1 .. n /\ k + 1 > n - r
                    BY <1>1, <3>1, <4>2
                <5> QED
                    BY <1>1, <1>2, <2>2, <5>1
            <4> QED
                BY <4>1, <4>2
        <3>2. r + 1 < n => u[n - (r + 1)] = FALSE
            <4> SUFFICES ASSUME r + 1 < n PROVE u[n - (r + 1)] = FALSE
                OBVIOUS
            <4>1. n - (r + 1) \in 1 .. n /\ n - (r + 1) + 1 = n - r /\ n - r \in 1 .. n /\ r < n
                BY <1>1
            <4> QED
                BY <1>1, <1>2, <2>2, <4>1
        <3>3. n <= RapidLimit /\ r + 1 <= n
            BY <1>1, <1>4
        <3>4. Counts(u, r + 1)
            BY <2>2, <3>1, <3>2, <3>3 DEF Counts
        <3> QED
            BY <1>t, <2>1, <2>2, <2>3, <3>4
    <2>4. CASE b = FALSE
        <3>1. n \in 1 .. n /\ u[n] = FALSE
            BY <1>1, <1>2, <1>4, <2>2, <2>4
        <3>2. Counts(u, 0)
            BY <1>1, <1>4, <2>2, <3>1 DEF Counts
        <3> QED
            BY <1>t, <2>1, <2>2, <2>4, <3>2
    <2> QED
        BY <2>3, <2>4
<1> QED
    BY <1>1, <1>3, <1>4

LEMMA GivenUpAtLimit ==
    ASSUME NEW s \in Seq(BOOLEAN), NEW r \in Nat, Counts(s, r)
    PROVE  (Len(s) = RapidLimit /\ \A k \in DOMAIN s : s[k]) <=> r = RapidLimit
<1>n. PICK n : n = Len(s)
    OBVIOUS
<1>1. /\ n \in Nat /\ DOMAIN s = 1 .. n /\ RapidLimit \in Nat \ {0} /\ n <= RapidLimit
      /\ r <= n
      /\ \A k \in 1 .. n : k > n - r => s[k] = TRUE
      /\ r < n => s[n - r] = FALSE
    BY <1>n, SupervisorConstants DEF Counts
<1>2. ASSUME r = RapidLimit PROVE Len(s) = RapidLimit /\ \A k \in DOMAIN s : s[k]
    <2>1. n = RapidLimit
        BY <1>1, <1>2
    <2>2. \A k \in 1 .. n : s[k] = TRUE
        BY <1>1, <1>2, <2>1
    <2> QED
        BY <1>n, <1>1, <2>1, <2>2
<1>3. ASSUME Len(s) = RapidLimit, \A k \in DOMAIN s : s[k], r # RapidLimit PROVE FALSE
    <2>1. n = RapidLimit /\ \A k \in 1 .. n : s[k]
        BY <1>n, <1>1, <1>3
    <2>2. r < n /\ n - r \in 1 .. n
        BY <1>1, <1>3, <2>1
    <2> QED
        BY <1>1, <2>1, <2>2
<1> QED
    BY <1>2, <1>3

\* What a step may do to the lives and the restarts.
LEMMA LivesKept ==
    ASSUME LivesCounted, UNCHANGED <<rapid_restarts, lives>>,
           doing' = "start" => doing = "start",
           Watching' => Watching,
           \A i \in Slots : pids'[i] # 0 => pids[i] # 0 \/ doing = "start"
    PROVE  LivesCounted'
<1>1. RapidLimit > 0
    BY SupervisorConstants
<1>2. Watching' => \A i \in Slots : pids'[i] # 0 => rapid_restarts[i] < RapidLimit
    BY <1>1 DEF LivesCounted
<1> QED
    BY <1>2 DEF LivesCounted

LEMMA CrashCounted ==
    ASSUME SupervisorTypes, LivesCounted, NEW i \in Slots, NEW p \in Pids, Crashed(i, p)
    PROVE  /\ rapid_restarts' \in [Slots -> Nat] /\ lives' \in [Slots -> Seq(BOOLEAN)]
           /\ \A j \in Slots : Counts(lives'[j], rapid_restarts'[j])
           /\ \A j \in Slots : j # i => rapid_restarts'[j] = rapid_restarts[j]
           /\ rapid_restarts'[i] = Rapid(i) /\ rapid_restarts[i] < RapidLimit /\ Rapid(i) \in Nat
           /\ Rapid(i) <= RapidLimit
<1> DEFINE b == Short(i)
<1>1. /\ doing = "wait" /\ pids[i] = p /\ p # 0 /\ b \in BOOLEAN
      /\ lives' = [lives EXCEPT ![i] = LastLives(Append(lives[i], b))]
      /\ rapid_restarts' = [rapid_restarts EXCEPT ![i] = Rapid(i)]
      /\ rapid_restarts \in [Slots -> Nat] /\ lives \in [Slots -> Seq(BOOLEAN)]
      /\ \A j \in Slots : Counts(lives[j], rapid_restarts[j])
    BY SupervisorConstants DEF Crashed, Exited, LivesCounted, Short
<1>2. rapid_restarts[i] < RapidLimit /\ rapid_restarts[i] \in Nat /\ lives[i] \in Seq(BOOLEAN)
    BY <1>1 DEF LivesCounted, Watching
<1>3. Rapid(i) = IF b THEN rapid_restarts[i] + 1 ELSE 0
    BY DEF Rapid
<1> HIDE DEF b
<1>4. /\ LastLives(Append(lives[i], b)) \in Seq(BOOLEAN)
      /\ Counts(LastLives(Append(lives[i], b)), Rapid(i))
    BY <1>1, <1>2, <1>3, OneMoreLife
<1>5. Rapid(i) \in Nat /\ Rapid(i) <= RapidLimit
    BY <1>2, <1>3, SupervisorConstants
<1> QED
    BY <1>1, <1>2, <1>4, <1>5

LEMMA LivesStep == SupervisorInv /\ LivesCounted /\ [SupervisorNext]_SupervisorVars => LivesCounted'
<1> SUFFICES ASSUME SupervisorInv, LivesCounted, [SupervisorNext]_SupervisorVars PROVE LivesCounted'
    OBVIOUS
<1>1. SupervisorTypes
    BY DEF SupervisorInv
<1>2. CASE fork_worker \/ fork_worker_fails
    BY <1>2, LivesKept DEF fork_worker, fork_worker_fails, table, Watching
<1>3. ASSUME NEW i \in Slots, NEW p \in Pids, worker_ends_normally(i, p) PROVE LivesCounted'
    <2>1. \A j \in Slots : pids'[j] # 0 => pids[j] # 0
        BY <1>1, <1>3 DEF worker_ends_normally, SupervisorTypes
    <2> QED
        BY <1>3, <2>1, LivesKept DEF worker_ends_normally, Exited, Continues, Breaks, Watching
<1>4. ASSUME NEW i \in Slots, NEW p \in Pids, worker_given_up(i, p) \/ worker_restarted(i, p) PROVE LivesCounted'
    <2>1. Crashed(i, p) /\ doing = "wait" /\ doing' # "start"
        BY <1>4 DEF worker_given_up, worker_restarted, Crashed, Exited, Continues, Breaks
    <2>2. \A j \in Slots : j # i => pids'[j] = pids[j]
        BY <1>1, <1>4 DEF worker_given_up, worker_restarted, Forgotten, Fork, SupervisorTypes
    <2>3. pids'[i] # 0 => Rapid(i) < RapidLimit
        BY <1>1, <1>4 DEF worker_given_up, worker_restarted, Forgotten, SupervisorTypes
    <2>4. \A j \in Slots : pids'[j] # 0 => rapid_restarts'[j] < RapidLimit
        BY <1>1, <2>1, <2>2, <2>3, CrashCounted DEF LivesCounted, Watching
    <2> QED
        BY <1>1, <2>1, <2>4, CrashCounted DEF LivesCounted
<1>5. ASSUME NEW i \in Slots, NEW p \in Pids, restart_fails(i, p) PROVE LivesCounted'
    <2>1. Crashed(i, p) /\ doing' = "cleanup"
        BY <1>5 DEF restart_fails, Breaks
    <2> QED
        BY <1>1, <2>1, CrashCounted DEF LivesCounted, Watching
<1>6. CASE \/ kill_worker \/ wait_for_killed \/ supervisor_returns \/ supervisor_interrupted
           \/ UNCHANGED SupervisorVars
    BY <1>6, LivesKept
       DEF kill_worker, wait_for_killed, supervisor_returns, supervisor_interrupted, table, SupervisorVars, Watching
<1>7. ASSUME NEW p \in Pids, WorkerEnds(p) \/ OtherStarts(p) \/ OtherEnds(p) PROVE LivesCounted'
    BY <1>7, LivesKept DEF WorkerEnds, OtherStarts, OtherEnds, Others, table, Watching
<1>8. ASSUME NEW i \in Slots, SecondPasses(i) PROVE LivesCounted'
    BY <1>8, LivesKept DEF SecondPasses, Watching
<1> QED
    BY <1>2, <1>3, <1>4, <1>5, <1>6, <1>7, <1>8 DEF SupervisorNext, run_with_workers

\* A slot becomes empty only as RestartPolicy says.
LEMMA EmptiedStep ==
    ASSUME SupervisorInv, LivesCounted, LivesCounted', [SupervisorNext]_SupervisorVars,
           NEW i \in Slots, pids[i] # 0, pids'[i] = 0
    PROVE  procs[pids[i]] = "ok" \/ GaveUp(i)'
<1>1. SupervisorTypes
    BY DEF SupervisorInv
<1>2. PICK j \in Slots, p \in Pids : worker_ends_normally(j, p) \/ worker_given_up(j, p)
    <2>1. CASE fork_worker
        <3>1. PICK p \in Pids : pids' = [pids EXCEPT ![slot] = p]
            BY <2>1 DEF fork_worker, Fork
        <3>2. p # 0
            BY SupervisorConstants
        <3> QED
            BY <1>1, <3>1, <3>2 DEF SupervisorTypes
    <2>2. ASSUME NEW j \in Slots, NEW p \in Pids, worker_restarted(j, p) PROVE FALSE
        <3>1. PICK q \in Pids : pids' = [pids EXCEPT ![j] = q]
            BY <2>2 DEF worker_restarted, Fork
        <3>2. q # 0
            BY SupervisorConstants
        <3> QED
            BY <1>1, <3>1, <3>2 DEF SupervisorTypes
    <2>3. CASE pids' = pids
        BY <2>3
    <2>4. ASSUME NEW j \in Slots, NEW p \in Pids, restart_fails(j, p) PROVE FALSE
        BY <2>4 DEF restart_fails
    <2> QED
        BY <2>1, <2>2, <2>3, <2>4
           DEF SupervisorNext, run_with_workers, SupervisorVars, fork_worker_fails, kill_worker, wait_for_killed,
               supervisor_returns, supervisor_interrupted, WorkerEnds, OtherStarts, OtherEnds, Others, SecondPasses,
               table
<1>3. CASE worker_ends_normally(j, p)
    <2>1. pids' = [pids EXCEPT ![j] = 0] /\ pids[j] = p /\ procs[p] = "ok"
        BY <1>3 DEF worker_ends_normally, Exited
    <2> QED
        BY <1>1, <2>1 DEF SupervisorTypes
<1>4. CASE worker_given_up(j, p)
    <2>1. Crashed(j, p) /\ pids' = [pids EXCEPT ![j] = 0] /\ RapidLimit <= Rapid(j)
        BY <1>4 DEF worker_given_up, Forgotten
    <2>2. j = i
        BY <1>1, <2>1 DEF SupervisorTypes
    <2>3. rapid_restarts'[i] = RapidLimit
        BY <1>1, <2>1, <2>2, CrashCounted, SupervisorConstants
    <2>4. lives'[i] \in Seq(BOOLEAN) /\ rapid_restarts'[i] \in Nat /\ Counts(lives'[i], rapid_restarts'[i])
        BY DEF LivesCounted
    <2>5. Len(lives'[i]) = RapidLimit /\ \A k \in DOMAIN lives'[i] : lives'[i][k]
        BY <2>3, <2>4, GivenUpAtLimit
    <2> QED
        BY <2>5 DEF GaveUp
<1> QED
    BY <1>2, <1>3, <1>4

LEMMA InitiallyNoLives == SupervisorInit => LivesCounted
<1> SUFFICES ASSUME SupervisorInit PROVE LivesCounted
    OBVIOUS
<1>1. <<>> \in Seq(BOOLEAN) /\ Len(<<>>) = 0 /\ DOMAIN <<>> = {} /\ RapidLimit \in Nat \ {0}
    BY SupervisorConstants
<1>2. Counts(<<>>, 0)
    BY <1>1 DEF Counts
<1> QED
    BY <1>1, <1>2 DEF SupervisorInit, LivesCounted

\* A slot becomes empty, and its worker is not restarted, just when the worker has
\* ended normally or has crashed RapidLimit times in a row within a second of
\* its start, for any limit and any number of workers (run_with_workers).
THEOREM RestartPolicyHolds == SupervisorSpec => RestartPolicy
<1> DEFINE Empty == doing = "wait" => \A i \in Slots : GaveUp(i) => pids[i] = 0
<1> DEFINE Emptied == \A i \in Slots : pids[i] # 0 /\ pids'[i] = 0 => procs[pids[i]] = "ok" \/ GaveUp(i)'
<1>1. LivesCounted => Empty
    <2> SUFFICES ASSUME LivesCounted, doing = "wait", NEW i \in Slots, GaveUp(i), pids[i] # 0 PROVE FALSE
        OBVIOUS
    <2>1. rapid_restarts[i] < RapidLimit /\ rapid_restarts[i] \in Nat /\ lives[i] \in Seq(BOOLEAN)
          /\ Counts(lives[i], rapid_restarts[i])
        BY DEF LivesCounted, Watching
    <2>2. rapid_restarts[i] = RapidLimit
        BY <2>1, GivenUpAtLimit DEF GaveUp
    <2> QED
        BY <2>1, <2>2, SupervisorConstants
<1>2. SupervisorInv /\ LivesCounted /\ LivesCounted' /\ [SupervisorNext]_SupervisorVars => [Emptied]_SupervisorVars
    BY EmptiedStep
<1>3. RestartPolicy <=> []Empty /\ [][Emptied]_SupervisorVars
    BY DEF RestartPolicy
<1> HIDE DEF Empty, Emptied
<1>4. SupervisorInit => SupervisorInv /\ LivesCounted
    BY InitiallyNoWorkers, InitiallyNoLives
<1>5. SupervisorInv /\ LivesCounted /\ [SupervisorNext]_SupervisorVars => (SupervisorInv /\ LivesCounted)'
    BY SupervisorStep, LivesStep
<1>6. SupervisorSpec => [](SupervisorInv /\ LivesCounted)
    BY <1>4, <1>5, PTL DEF SupervisorSpec
<1>7. SupervisorSpec => []Empty
    BY <1>1, <1>6, PTL
<1>8. SupervisorSpec => [][Emptied]_SupervisorVars
    BY <1>2, <1>6, PTL DEF SupervisorSpec
<1> QED
    BY <1>3, <1>7, <1>8

-----------------------------------------------------------------------------
(* The dev server.                                                         *)

\* Where a child is about to be started, another can be left over only if a
\* signal has interrupted stop_child.
DevInv ==
    /\ OneApp
    /\ running \cap zombies = {}
    /\ turn \in {"begin", "start"} =>
          /\ running \subseteq killed
          /\ ~g_should_exit => running \cup zombies = {}

LEMMA InitiallyNoApp == DevInit => DevInv
BY DEF DevInit, DevInv, OneApp

\* Files and events are no matter of the child, and a signal ends vek dev.
LEMMA ElsewhereStep ==
    ASSUME DevInv, UNCHANGED <<turn, g_child_pid, running, zombies, killed>>,
           g_should_exit' = g_should_exit \/ g_should_exit' = TRUE
    PROVE  DevInv'
BY DEF DevInv, OneApp

LEMMA DevStep == DevInv /\ [DevNext]_DevVars => DevInv'
<1> SUFFICES ASSUME DevInv, [DevNext]_DevVars PROVE DevInv'
    OBVIOUS
<1>1. CASE start_child
    BY <1>1 DEF start_child, DevInv, OneApp
<1>2. CASE dev_loop
    <2>1. /\ turn' \in {"drain", "loop"} /\ UNCHANGED <<running, killed, g_should_exit>>
          /\ ~g_should_exit
        BY <1>2 DEF dev_loop, Stay
    <2>2. CASE g_child_pid \in zombies
        <3>1. running = {} /\ zombies' = {}
            BY <1>2, <2>1, <2>2 DEF dev_loop, DevInv, OneApp
        <3> QED
            BY <2>1, <3>1 DEF DevInv, OneApp
    <2>3. CASE g_child_pid \notin zombies
        <3>1. UNCHANGED <<zombies, g_child_pid>>
            BY <1>2, <2>3 DEF dev_loop
        <3> QED
            BY <2>1, <3>1 DEF DevInv, OneApp
    <2> QED
        BY <2>2, <2>3
<1>3. CASE drain
    <2>1. /\ turn' \in {"drain", "stop"}
          /\ UNCHANGED <<running, zombies, killed, g_child_pid, g_should_exit>>
        BY <1>3 DEF drain, Stay, Drained
    <2> QED
        BY <2>1 DEF DevInv, OneApp
<1>4. CASE dev_exits
    BY <1>4 DEF dev_exits, Stay, DevInv, OneApp
<1>5. CASE stop_child
    <2>1. /\ running' \subseteq killed' /\ turn' \in {"start", "done"} /\ g_should_exit' = g_should_exit
          /\ ~g_should_exit => running' \cup zombies' = {}
          /\ running' \cap zombies' = {}
        BY <1>5 DEF stop_child, AfterStop, Ends, DevInv, OneApp
    <2> QED
        BY <2>1 DEF DevInv, OneApp
<1>6. CASE stop_child_interrupted
    BY <1>6 DEF stop_child_interrupted, AfterStop, DevInv, OneApp
<1>7. ASSUME NEW p \in Children, ChildEnds(p) PROVE DevInv'
    <2>1. /\ p \in running /\ running' = running \ {p} /\ zombies' = zombies \cup {p}
          /\ UNCHANGED <<turn, g_child_pid, g_should_exit, killed>>
        BY <1>7 DEF ChildEnds, Working
    <2>2. /\ running' \subseteq running /\ running' \cup zombies' = running \cup zombies
          /\ running' \cap zombies' = {}
        BY <2>1 DEF DevInv
    <2>3. turn \in {"begin", "start"} => g_should_exit
        BY <2>1 DEF DevInv
    <2> QED
        BY <2>1, <2>2, <2>3 DEF DevInv, OneApp
<1>8. CASE sigint_handler
    BY <1>8, ElsewhereStep DEF sigint_handler, Working
<1>9. ASSUME NEW d \in Dirs, UserSaves(d) \/ (d # Root /\ UserMakesDir(d)) PROVE DevInv'
    BY <1>9, ElsewhereStep DEF UserSaves, UserMakesDir, Working
<1>10. CASE UNCHANGED DevVars
    BY <1>10, ElsewhereStep DEF DevVars
<1> QED
    BY <1>1, <1>2, <1>3, <1>4, <1>5, <1>6, <1>7, <1>8, <1>9, <1>10 DEF DevNext, cmd_dev_run

\* However changes, signals, interrupted waits and the app's own end fall: an app
\* that vek dev has lost sight of has been sent SIGKILL, and unless the user ends
\* vek dev there is no second one (start_child, stop_child, cmd_dev_run).
THEOREM OneAppAlways == DevSpec => []OneApp
<1>1. DevInv => OneApp
    BY DEF DevInv
<1> QED
    BY <1>1, InitiallyNoApp, DevStep, PTL DEF DevSpec

-----------------------------------------------------------------------------
(* Migrations.                                                             *)

Phases == {"idle", "check", "begin", "exec", "insert", "commit", "succeeded", "failed"}
InTransaction == {"exec", "insert", "commit"}

MigrationTypes ==
    /\ files \in 0 .. MaxMigrations
    /\ effects \in [Scripts -> Nat] /\ recorded \subseteq Scripts
    /\ at \in [Processes -> Phases]
    /\ count \in [Processes -> 0 .. MaxMigrations]
    /\ index \in [Processes -> Nat \ {0}]
    /\ tx \in [Processes -> {"none", "open", "applied", "recorded"}]
    /\ existed \in [Processes -> 0 .. MaxMigrations]

\* No migration is recorded before those with lower numbers.
NoGaps == \A m \in recorded : \A n \in 1 .. m : n \in recorded

\* A process that is at a migration has seen all before it recorded, and goes
\* through all that existed, or none.
SeenRecorded ==
    \A p \in Processes :
        /\ at[p] \in {"check", "begin"} \cup InTransaction =>
              \A m \in 1 .. index[p] - 1 : m \in recorded
        /\ at[p] \in {"begin"} \cup InTransaction => index[p] <= count[p]
        /\ at[p] = "succeeded" => \A m \in 1 .. count[p] : m \in recorded
        /\ at[p] # "failed" => count[p] \in {0, existed[p]}

\* The transaction of a process is as far as the process is.
TxFollows ==
    \A p \in Processes :
        /\ at[p] = "insert" <=> tx[p] = "applied"
        /\ at[p] = "commit" <=> tx[p] = "recorded"

\* One process writes at a time, and what it is to commit nobody has recorded.
OneWriter ==
    /\ \A p, q \in Processes : Writing(p) /\ Writing(q) => p = q
    /\ \A p \in Processes : at[p] = "commit" => index[p] \notin recorded

MigrationInv ==
    MigrationTypes /\ AppliedOnce /\ NoGaps /\ SeenRecorded /\ TxFollows /\ OneWriter

LEMMA InitiallyNothing == MigrationsInit => MigrationInv
BY MigrationsConstants
   DEF MigrationsInit, MigrationInv, MigrationTypes, AppliedOnce, NoGaps, SeenRecorded, TxFollows,
       OneWriter, Writing, Scripts, Phases, InTransaction

\* Where only the place of one process changes, and its transaction.
LEMMA PlaceStep ==
    ASSUME MigrationInv, NEW p \in Processes, NEW place \in Phases, Goes(p, place), Same,
           NEW state \in {"none", "open", "applied", "recorded"},
           tx' = [tx EXCEPT ![p] = state],
           place = "insert" <=> state = "applied",
           place = "commit" <=> state = "recorded",
           state \in {"applied", "recorded"} => ~Locked(p),
           place \in {"check", "begin"} \cup InTransaction => at[p] \in {"check", "begin"} \cup InTransaction,
           place \in {"begin"} \cup InTransaction => index[p] <= count[p],
           place = "succeeded" => \A m \in 1 .. count[p] : m \in recorded,
           place = "commit" => index[p] \notin recorded,
           place # "failed" => at[p] # "failed"
    PROVE  MigrationInv'
<1> USE DEF MigrationInv, Goes, Same, database
<1>1. MigrationTypes'
    BY DEF MigrationTypes
<1>2. AppliedOnce' /\ NoGaps'
    BY DEF AppliedOnce, NoGaps
<1>3. SeenRecorded'
    BY DEF SeenRecorded, MigrationTypes
<1>4. TxFollows'
    BY DEF TxFollows, MigrationTypes
<1>5. OneWriter'
    BY DEF OneWriter, Writing, Locked, MigrationTypes
<1> QED
    BY <1>1, <1>2, <1>3, <1>4, <1>5

\* COMMIT: the effects of the script and its record at once.
LEMMA CommitStep ==
    ASSUME MigrationInv, NEW p \in Processes, commit(p)
    PROVE  MigrationInv'
<1> USE DEF MigrationInv, commit, Goes, Tx
<1>1. /\ at[p] = "commit" /\ index[p] \in Scripts /\ index[p] \notin recorded
      /\ \A m \in 1 .. index[p] - 1 : m \in recorded
    BY MigrationsConstants DEF MigrationTypes, SeenRecorded, OneWriter, InTransaction, Scripts
<1>2. MigrationTypes'
    BY <1>1 DEF MigrationTypes, Phases
<1>3. AppliedOnce'
    BY <1>1 DEF AppliedOnce, MigrationTypes
<1>4. NoGaps'
    BY <1>1, MigrationsConstants DEF NoGaps, MigrationTypes, Scripts
<1>5. SeenRecorded'
    <2> SUFFICES ASSUME NEW q \in Processes PROVE SeenRecorded!(q)'
        BY DEF SeenRecorded
    <2>1. CASE q = p
        BY <1>1, <2>1, MigrationsConstants DEF SeenRecorded, MigrationTypes, InTransaction, Scripts
    <2>2. CASE q # p
        BY <2>2 DEF SeenRecorded, MigrationTypes
    <2> QED
        BY <2>1, <2>2
<1>6. TxFollows'
    BY DEF TxFollows, MigrationTypes
<1>7. OneWriter'
    <2>1. \A q \in Processes \ {p} : at[q] # "commit"
        BY <1>1 DEF OneWriter, TxFollows, Writing
    <2> QED
        BY <2>1 DEF OneWriter, Writing, MigrationTypes
<1> QED
    BY <1>2, <1>3, <1>4, <1>5, <1>6, <1>7

\* Every step of vek migrate keeps the invariant.
LEMMA MigrationStep == MigrationInv /\ [MigrationsNext]_MigrationVars => MigrationInv'
<1> SUFFICES ASSUME MigrationInv, [MigrationsNext]_MigrationVars PROVE MigrationInv'
    OBVIOUS
<1> USE MigrationsConstants
<1>1. CASE migrate_new
    BY <1>1 DEF migrate_new, MigrationInv, MigrationTypes, AppliedOnce, NoGaps, SeenRecorded, TxFollows,
                OneWriter, Writing, database
<1>2. ASSUME NEW p \in Processes, migrate_apply(p) PROVE MigrationInv'
    <2> USE <1>2 DEF migrate_apply, MigrationInv, Goes, database
    <2>1. MigrationTypes'
        BY DEF MigrationTypes, Phases
    <2>2. SeenRecorded'
        BY DEF SeenRecorded, MigrationTypes, InTransaction
    <2>3. AppliedOnce' /\ NoGaps' /\ TxFollows' /\ OneWriter'
        BY DEF AppliedOnce, NoGaps, TxFollows, OneWriter, Writing, MigrationTypes
    <2> QED
        BY <2>1, <2>2, <2>3
<1>3. ASSUME NEW p \in Processes, is_migration_applied(p) PROVE MigrationInv'
    <2> USE <1>3 DEF is_migration_applied, MigrationInv, Goes, database
    <2>1. MigrationTypes'
        BY DEF MigrationTypes, Phases
    <2>2. SeenRecorded'
        BY DEF SeenRecorded, MigrationTypes, InTransaction
    <2>3. AppliedOnce' /\ NoGaps' /\ TxFollows' /\ OneWriter'
        BY DEF AppliedOnce, NoGaps, TxFollows, OneWriter, Writing, MigrationTypes
    <2> QED
        BY <2>1, <2>2, <2>3
<1>4. ASSUME NEW p \in Processes, migrate_done(p) PROVE MigrationInv'
    <2>1. \A m \in 1 .. count[p] : m \in recorded
        BY <1>4 DEF migrate_done, MigrationInv, MigrationTypes, SeenRecorded
    <2>2. tx' = [tx EXCEPT ![p] = tx[p]] /\ tx[p] \in {"none", "open"}
        BY <1>4 DEF migrate_done, MigrationInv, MigrationTypes, TxFollows
    <2> QED
        BY <1>4, <2>1, <2>2, PlaceStep DEF migrate_done, Phases, InTransaction
<1>5. ASSUME NEW p \in Processes, begin(p) PROVE MigrationInv'
    <2>1. index[p] <= count[p]
        BY <1>5 DEF begin, MigrationInv, SeenRecorded
    <2> QED
        BY <1>5, <2>1, PlaceStep DEF begin, Tx, Phases, InTransaction
<1>6. ASSUME NEW p \in Processes, exec_script(p) PROVE MigrationInv'
    <2>1. index[p] <= count[p]
        BY <1>6 DEF exec_script, MigrationInv, SeenRecorded, InTransaction
    <2> QED
        BY <1>6, <2>1, PlaceStep DEF exec_script, Tx, Phases, InTransaction
<1>7. ASSUME NEW p \in Processes, insert_record(p) PROVE MigrationInv'
    <2>1. index[p] <= count[p] /\ ~Locked(p)
        BY <1>7 DEF insert_record, MigrationInv, SeenRecorded, TxFollows, OneWriter, Writing, Locked, InTransaction
    <2> QED
        BY <1>7, <2>1, PlaceStep DEF insert_record, Unrecorded, Tx, Phases, InTransaction
<1>8. ASSUME NEW p \in Processes, commit(p) PROVE MigrationInv'
    BY <1>8, CommitStep
<1>9. ASSUME NEW p \in Processes, fail_or_crash(p) PROVE MigrationInv'
    BY <1>9, PlaceStep DEF fail_or_crash, Tx, Phases, InTransaction
<1>10. CASE UNCHANGED MigrationVars
    BY <1>10 DEF MigrationVars, database, MigrationInv, MigrationTypes, AppliedOnce, NoGaps, SeenRecorded,
                 TxFollows, OneWriter, Writing
<1> QED
    BY <1>1, <1>2, <1>3, <1>4, <1>5, <1>6, <1>7, <1>8, <1>9, <1>10 DEF MigrationsNext

LEMMA MigrationAlways == MigrationsSpec => []MigrationInv
BY InitiallyNothing, MigrationStep, PTL DEF MigrationsSpec

\* Whatever processes apply migrations at once, are killed or fail, what a
\* migration does is in the database once if it is recorded and not at all
\* otherwise (migrate_apply).
THEOREM MigrationsAppliedOnce == MigrationsSpec => []AppliedOnce
<1>1. MigrationInv => AppliedOnce
    BY DEF MigrationInv
<1> QED
    BY <1>1, MigrationAlways, PTL

\* Migrations are recorded without gaps, and a vek migrate that ends well has
\* seen all recorded that existed when it began, or could find none
\* (migrate_apply, scan_migrations).
THEOREM MigrationsInOrder == MigrationsSpec => []AppliedInOrder
<1>1. MigrationInv => AppliedInOrder
    BY DEF MigrationInv, NoGaps, SeenRecorded, AppliedInOrder
<1> QED
    BY <1>1, MigrationAlways, PTL

-----------------------------------------------------------------------------
(* The database.                                                           *)

Connection == [sqlite : BOOLEAN, in_transaction : BOOLEAN, snapshot : Int, writes : Seq(Nat), tx : Nat]
Outcomes == {"open", "returned", "nil", "died"}
Transaction == [execs : SUBSET Nat, read : SUBSET Seq(Nat), whole : BOOLEAN, outcome : Outcomes]

DbTypes ==
    /\ file \in Seq(Nat) /\ conns \in [Connections -> Connection] /\ txs \in Seq(Transaction)
    /\ written \in Nat /\ acknowledged \in SUBSET Nat /\ refused \in SUBSET Nat
    /\ began = Len(txs)

\* An id belongs to one write, which was answered in one way.
WritesKnown ==
    /\ \A id \in acknowledged \cup refused : id <= written
    /\ acknowledged \cap refused = {}
    /\ \A p \in DOMAIN file : file[p] \in acknowledged
    /\ \A i \in DOMAIN txs : txs[i].execs \subseteq acknowledged \cup refused
    /\ \A i, j \in DOMAIN txs : i # j => txs[i].execs \cap txs[j].execs = {}

\* A connection with a transaction is alone with it; the others are as when opened.
OneConnection ==
    /\ \A c \in Connections :
          IF conns[c].tx = 0 THEN conns[c] = Closed
          ELSE /\ conns[c].sqlite
               /\ conns[c].tx \in DOMAIN txs /\ txs[conns[c].tx].outcome # "returned"
    /\ \A c, d \in Connections : c # d /\ conns[c].tx = conns[d].tx => conns[c].tx = 0

\* What a transaction has written is on its connection, in order.
WritesHeld ==
    \A c \in Connections : conns[c].tx # 0 =>
        /\ \A q \in DOMAIN conns[c].writes :
              conns[c].writes[q] \in txs[conns[c].tx].execs \cap acknowledged
        /\ \A id \in txs[conns[c].tx].execs \cap acknowledged :
              \E q \in DOMAIN conns[c].writes : conns[c].writes[q] = id
        /\ \A p, q \in DOMAIN conns[c].writes : p < q => conns[c].writes[p] < conns[c].writes[q]

\* Who holds the lock is alone, and sees the file as it is.
LockHeld ==
    \A c \in Connections :
        /\ -1 <= conns[c].snapshot /\ conns[c].snapshot <= Len(file)
        /\ conns[c].writes # <<>> =>
              /\ conns[c].snapshot = Len(file)
              /\ \A d \in Connections \ {c} : conns[d].writes = <<>>

\* What a transaction has read is its snapshot and then its own writes.
ReadsOwn ==
    \A c \in Connections : conns[c].tx # 0 =>
        \A rows \in txs[conns[c].tx].read :
            /\ 0 <= conns[c].snapshot
            /\ txs[conns[c].tx].whole => conns[c].snapshot <= Len(rows)
            /\ Len(rows) <= conns[c].snapshot + Len(conns[c].writes)
            /\ \A q \in 1 .. Len(rows) :
                  rows[q] = IF q <= conns[c].snapshot THEN file[q]
                            ELSE conns[c].writes[q - conns[c].snapshot]

DbInv == DbTypes /\ WritesKnown /\ OneConnection /\ WritesHeld /\ LockHeld /\ ReadsOwn
         /\ WritesAsTold /\ ReadsHold

LEMMA DbInitially == DatabaseInit => DbInv
BY DEF DatabaseInit, DbInv, DbTypes, Connection, Connections, Transaction, Closed, NoSnapshot, WritesKnown,
       OneConnection, WritesHeld, LockHeld, ReadsOwn, WritesAsTold, ReadsHold, IsInjective, ToSet, InTx

\* What it is to be a prefix, by positions.
LEMMA PrefixByPosition ==
    ASSUME NEW s \in Seq(Nat), NEW t \in Seq(Nat)
    PROVE  IsPrefix(s, t) <=> Len(s) <= Len(t) /\ \A q \in 1 .. Len(s) : s[q] = t[q]
<1>1. SubSeq(s, 1, Len(s)) = s
    OBVIOUS
<1>2. ASSUME Len(s) <= Len(t)
      PROVE  s = SubSeq(t, 1, Len(s)) <=> \A q \in 1 .. Len(s) : s[q] = t[q]
    <2>1. /\ SubSeq(t, 1, Len(s)) \in Seq(Nat) /\ Len(SubSeq(t, 1, Len(s))) = Len(s)
          /\ \A q \in 1 .. Len(s) : SubSeq(t, 1, Len(s))[q] = t[q]
        BY <1>2
    <2> QED
        BY <2>1, SeqEqual
<1> QED
    BY <1>1, <1>2 DEF IsPrefix

LEMMA PrefixOfLonger ==
    ASSUME NEW s \in Seq(Nat), NEW t \in Seq(Nat), NEW u \in Seq(Nat), IsPrefix(s, t),
           Len(t) <= Len(u), \A p \in DOMAIN t : u[p] = t[p]
    PROVE  IsPrefix(s, u)
<1>1. Len(s) <= Len(t) /\ \A q \in 1 .. Len(s) : s[q] = t[q]
    BY PrefixByPosition
<1>2. /\ Len(s) \in Nat /\ Len(t) \in Nat /\ Len(u) \in Nat
      /\ 1 .. Len(s) \subseteq DOMAIN t
    BY <1>1
<1>3. Len(s) <= Len(u) /\ \A q \in 1 .. Len(s) : s[q] = u[q]
    BY <1>1, <1>2
<1> QED
    BY <1>3, PrefixByPosition

-----------------------------------------------------------------------------
(* A write: what is the same whether it is stored, held back or refused.   *)

\* The history of transactions after a write of c.
LEMMA ExecHistory ==
    ASSUME DbTypes, OneConnection, NEW c \in Connections, vek_db_exec(c)
    PROVE  /\ txs' \in Seq(Transaction) /\ Len(txs') = Len(txs) /\ DOMAIN txs' = DOMAIN txs
           /\ \A i \in DOMAIN txs :
                 /\ txs'[i].outcome = txs[i].outcome /\ txs'[i].read = txs[i].read
                 /\ txs'[i].whole = txs[i].whole
                 /\ txs'[i].execs = IF i = conns[c].tx THEN txs[i].execs \cup {written + 1}
                                    ELSE txs[i].execs
<1>1. CASE conns[c].tx = 0
    <2>1. txs' = txs /\ 0 \notin DOMAIN txs
        BY <1>1 DEF vek_db_exec, DbTypes
    <2> QED
        BY <1>1, <2>1 DEF DbTypes
<1>2. CASE conns[c].tx # 0
    <2> DEFINE i == conns[c].tx
    <2>1. i \in DOMAIN txs /\ txs' = [txs EXCEPT ![i].execs = @ \cup {written + 1}]
        BY <1>2 DEF vek_db_exec, OneConnection
    <2>2. txs[i] \in Transaction /\ written + 1 \in Nat
        BY <2>1 DEF DbTypes
    <2> DEFINE t == [txs[i] EXCEPT !.execs = @ \cup {written + 1}]
    <2>3. /\ t \in Transaction
          /\ t.execs = txs[i].execs \cup {written + 1} /\ t.read = txs[i].read /\ t.outcome = txs[i].outcome
          /\ t.whole = txs[i].whole
        BY <2>2 DEF Transaction
    <2>4. txs' = [txs EXCEPT ![i] = t]
        BY <2>1
    <2> HIDE DEF t
    <2>5. txs \in Seq(Transaction)
        BY DEF DbTypes
    <2>6. txs' \in Seq(Transaction) /\ Len(txs') = Len(txs) /\ DOMAIN txs' = DOMAIN txs
        BY <2>1, <2>3, <2>4, <2>5
    <2>7. \A j \in DOMAIN txs : txs'[j] = IF j = i THEN t ELSE txs[j]
        BY <2>1, <2>4, <2>5
    <2> QED
        BY <2>3, <2>6, <2>7
<1> QED
    BY <1>1, <1>2

LEMMA ExecFresh ==
    ASSUME DbTypes, WritesKnown, OneConnection, WritesHeld
    PROVE  LET id == written + 1 IN
           /\ id \in Nat /\ id \notin acknowledged \cup refused
           /\ \A p \in DOMAIN file : file[p] < id
           /\ \A i \in DOMAIN txs : id \notin txs[i].execs
           /\ \A c \in Connections : \A q \in DOMAIN conns[c].writes : conns[c].writes[q] < id
<1>0. written \in Nat
    BY DEF DbTypes
<1>1. \A id \in acknowledged \cup refused : id \in Nat /\ id <= written
    BY DEF DbTypes, WritesKnown
<1>2. \A p \in DOMAIN file : file[p] < written + 1
    BY <1>0, <1>1 DEF WritesKnown
<1>3. \A i \in DOMAIN txs : written + 1 \notin txs[i].execs
    BY <1>0, <1>1 DEF WritesKnown
<1>4. ASSUME NEW c \in Connections, NEW q \in DOMAIN conns[c].writes PROVE conns[c].writes[q] < written + 1
    <2>1. conns[c].tx # 0
        BY <1>4 DEF OneConnection, Closed
    <2>2. conns[c].writes[q] \in acknowledged
        BY <1>4, <2>1 DEF WritesHeld
    <2> QED
        BY <1>0, <1>1, <2>2
<1> QED
    BY <1>0, <1>1, <1>2, <1>3, <1>4

\* The three outcomes of a write.
LEMMA ExecOutcomes ==
    ASSUME DbTypes, OneConnection, NEW c \in Connections, vek_db_exec(c)
    PROVE  LET id == written + 1 IN
           /\ written' = id
           /\ \/ /\ acknowledged' = acknowledged /\ refused' = refused \cup {id}
                 /\ file' = file /\ conns' = conns
              \/ /\ acknowledged' = acknowledged \cup {id} /\ refused' = refused
                 /\ MayWrite(c) /\ conns[c].tx = 0 /\ file' = Append(file, id) /\ conns' = conns
              \/ /\ acknowledged' = acknowledged \cup {id} /\ refused' = refused
                 /\ MayWrite(c) /\ conns[c].tx # 0 /\ file' = file
                 /\ conns' = [conns EXCEPT ![c].writes = Append(@, id), ![c].snapshot = Len(file)]
<1>1. conns[c].sqlite <=> conns[c].tx # 0
    BY DEF OneConnection, Closed
<1> QED
    BY <1>1 DEF vek_db_exec

\* A write that is held back.
LEMMA ExecHeld ==
    ASSUME DbTypes, NEW c \in Connections, NEW id \in Nat,
           conns' = [conns EXCEPT ![c].writes = Append(@, id), ![c].snapshot = Len(file)]
    PROVE  /\ conns' \in [Connections -> Connection]
           /\ \A d \in Connections \ {c} : conns'[d] = conns[d]
           /\ conns'[c].writes = Append(conns[c].writes, id)
           /\ conns'[c].snapshot = Len(file)
           /\ conns'[c].tx = conns[c].tx
           /\ conns'[c].sqlite = conns[c].sqlite /\ conns'[c].in_transaction = conns[c].in_transaction
<1>1. conns \in [Connections -> Connection] /\ Len(file) \in Int
    BY DEF DbTypes
<1>2. conns[c] \in Connection
    BY <1>1
<1> DEFINE k == [conns[c] EXCEPT !.writes = Append(conns[c].writes, id), !.snapshot = Len(file)]
<1>3. Append(conns[c].writes, id) \in Seq(Nat)
    BY <1>2 DEF Connection
<1>4. /\ k \in Connection
      /\ k.writes = Append(conns[c].writes, id) /\ k.snapshot = Len(file) /\ k.tx = conns[c].tx
      /\ k.sqlite = conns[c].sqlite /\ k.in_transaction = conns[c].in_transaction
    BY <1>1, <1>2, <1>3 DEF Connection
<1>5. conns' = [conns EXCEPT ![c] = k]
    BY <1>1
<1> HIDE DEF k
<1> QED
    BY <1>1, <1>4, <1>5

LEMMA ExecTypes ==
    ASSUME DbTypes, OneConnection, NEW c \in Connections, vek_db_exec(c), UNCHANGED began
    PROVE  DbTypes'
<1> DEFINE id == written + 1
<1>1. id \in Nat
    BY DEF DbTypes
<1>2. file' \in Seq(Nat) /\ acknowledged' \in SUBSET Nat /\ refused' \in SUBSET Nat /\ written' \in Nat
    <2>1. /\ file' \in {file, Append(file, id)} /\ written' = id
          /\ acknowledged' \subseteq acknowledged \cup {id} /\ refused' \subseteq refused \cup {id}
        BY ExecOutcomes
    <2>2. file \in Seq(Nat) /\ acknowledged \in SUBSET Nat /\ refused \in SUBSET Nat
        BY DEF DbTypes
    <2> QED
        BY <1>1, <2>1, <2>2, SMTT(30)
<1>3. conns' \in [Connections -> Connection]
    BY <1>1, ExecOutcomes, ExecHeld DEF DbTypes
<1>4. txs' \in Seq(Transaction) /\ Len(txs') = Len(txs)
    BY ExecHistory
<1> QED
    BY <1>2, <1>3, <1>4 DEF DbTypes

\* What a write leaves of the file and of the connections, whatever its outcome.
LEMMA ExecFile ==
    ASSUME DbTypes, OneConnection, NEW c \in Connections, vek_db_exec(c)
    PROVE  /\ Len(file) \in Nat /\ Len(file') \in Nat /\ Len(file) <= Len(file')
           /\ DOMAIN file = 1 .. Len(file) /\ DOMAIN file' = 1 .. Len(file')
           /\ \A p \in DOMAIN file : file'[p] = file[p]
           /\ \A p \in DOMAIN file' \ DOMAIN file :
                 /\ p = Len(file) + 1 /\ file'[p] = written + 1
                 /\ conns[c].tx = 0 /\ MayWrite(c) /\ acknowledged' = acknowledged \cup {written + 1}
<1>1. file \in Seq(Nat) /\ written + 1 \in Nat
    BY DEF DbTypes
<1>2. CASE file' = file
    BY <1>1, <1>2
<1>3. CASE /\ conns[c].tx = 0 /\ MayWrite(c) /\ acknowledged' = acknowledged \cup {written + 1}
           /\ file' = Append(file, written + 1)
    BY <1>1, <1>3
<1> QED
    BY <1>2, <1>3, ExecOutcomes

LEMMA ExecConns ==
    ASSUME DbTypes, OneConnection, NEW c \in Connections, vek_db_exec(c), NEW d \in Connections
    PROVE  /\ conns'[d].tx = conns[d].tx
           /\ conns'[d].sqlite = conns[d].sqlite /\ conns'[d].in_transaction = conns[d].in_transaction
           /\ \/ conns'[d] = conns[d]
              \/ /\ d = c /\ conns[c].tx # 0 /\ MayWrite(c) /\ file' = file
                 /\ acknowledged' = acknowledged \cup {written + 1}
                 /\ conns'[c].writes = Append(conns[c].writes, written + 1)
                 /\ conns'[c].snapshot = Len(file)
<1>1. written + 1 \in Nat
    BY DEF DbTypes
<1>2. CASE conns' = conns
    BY <1>2
<1>3. CASE /\ conns[c].tx # 0 /\ MayWrite(c) /\ file' = file /\ acknowledged' = acknowledged \cup {written + 1}
           /\ conns' = [conns EXCEPT ![c].writes = Append(@, written + 1), ![c].snapshot = Len(file)]
    <2>1. CASE d = c
        BY <1>1, <1>3, <2>1, ExecHeld
    <2>2. CASE d # c
        BY <1>1, <1>3, <2>2, ExecHeld
    <2> QED
        BY <2>1, <2>2
<1> QED
    BY <1>2, <1>3, ExecOutcomes

LEMMA ExecKeepsKnown ==
    ASSUME DbTypes, WritesKnown, OneConnection, WritesHeld, NEW c \in Connections, vek_db_exec(c)
    PROVE  WritesKnown'
<1> DEFINE id == written + 1
<1>1. /\ id \in Nat /\ id \notin acknowledged \cup refused
      /\ \A i \in DOMAIN txs : id \notin txs[i].execs
    BY ExecFresh
<1>2. /\ written' = id
      /\ \/ acknowledged' = acknowledged /\ refused' = refused \cup {id}
         \/ acknowledged' = acknowledged \cup {id} /\ refused' = refused
    BY ExecOutcomes
<1>3. DOMAIN txs' = DOMAIN txs /\ \A i \in DOMAIN txs :
          txs'[i].execs = IF i = conns[c].tx THEN txs[i].execs \cup {id} ELSE txs[i].execs
    BY ExecHistory
<1>4. written \in Nat /\ acknowledged \cup refused \subseteq Nat
    BY DEF DbTypes
<1> HIDE DEF id
<1>5. \A x \in acknowledged' \cup refused' : x <= written'
    <2>1. id = written + 1
        BY DEF id
    <2> QED
        BY <1>2, <1>4, <2>1 DEF WritesKnown
<1>6. acknowledged' \cap refused' = {}
    BY <1>1, <1>2 DEF WritesKnown
<1>7. \A p \in DOMAIN file' : file'[p] \in acknowledged'
    <2>1. acknowledged \subseteq acknowledged'
        BY <1>2
    <2> QED
        BY <2>1, ExecFile DEF WritesKnown
<1>8. \A i \in DOMAIN txs' : txs'[i].execs \subseteq acknowledged' \cup refused'
    BY <1>2, <1>3 DEF WritesKnown
<1>9. \A i, j \in DOMAIN txs' : i # j => txs'[i].execs \cap txs'[j].execs = {}
    <2> SUFFICES ASSUME NEW i \in DOMAIN txs, NEW j \in DOMAIN txs, i # j,
                        NEW x \in txs'[i].execs, x \in txs'[j].execs
                 PROVE  FALSE
        BY <1>3
    <2>1. txs[i].execs \cap txs[j].execs = {} /\ id \notin txs[i].execs /\ id \notin txs[j].execs
        BY <1>1 DEF WritesKnown
    <2>2. x # id
        BY <1>3, <2>1
    <2> QED
        BY <1>3, <2>1, <2>2
<1> QED
    BY <1>5, <1>6, <1>7, <1>8, <1>9 DEF WritesKnown

LEMMA ExecKeepsConnections ==
    ASSUME DbTypes, OneConnection, NEW c \in Connections, vek_db_exec(c)
    PROVE  OneConnection'
<1>1. DOMAIN txs' = DOMAIN txs /\ \A i \in DOMAIN txs : txs'[i].outcome = txs[i].outcome
    BY ExecHistory
<1>2. ASSUME NEW d \in Connections
      PROVE  IF conns'[d].tx = 0 THEN conns'[d] = Closed
             ELSE /\ conns'[d].sqlite
                  /\ conns'[d].tx \in DOMAIN txs' /\ txs'[conns'[d].tx].outcome # "returned"
    BY <1>1, <1>2, ExecConns DEF OneConnection
<1>3. \A d, e \in Connections : d # e /\ conns'[d].tx = conns'[e].tx => conns'[d].tx = 0
    <2>1. \A d \in Connections : conns'[d].tx = conns[d].tx
        BY ExecConns
    <2> QED
        BY <2>1 DEF OneConnection
<1>4. Connections' = Connections /\ Closed' = Closed
    BY DEF Connections, Closed, NoSnapshot
<1> QED
    BY <1>2, <1>3, <1>4 DEF OneConnection

LEMMA ExecKeepsHeld ==
    ASSUME DbTypes, WritesKnown, OneConnection, WritesHeld, NEW c \in Connections, vek_db_exec(c)
    PROVE  WritesHeld'
<1> DEFINE id == written + 1
<1>1. /\ id \in Nat /\ id \notin acknowledged
      /\ \A d \in Connections : \A q \in DOMAIN conns[d].writes : conns[d].writes[q] < id
    BY ExecFresh
<1>2. acknowledged \subseteq acknowledged' /\ acknowledged' \subseteq acknowledged \cup {id}
    BY ExecOutcomes
<1>3. \A i \in DOMAIN txs : txs'[i].execs = IF i = conns[c].tx THEN txs[i].execs \cup {id} ELSE txs[i].execs
    BY ExecHistory
<1>4. Connections' = Connections
    BY DEF Connections
<1> SUFFICES ASSUME NEW d \in Connections, conns'[d].tx # 0
    PROVE /\ \A q \in DOMAIN conns'[d].writes :
              conns'[d].writes[q] \in txs'[conns'[d].tx].execs \cap acknowledged'
          /\ \A x \in txs'[conns'[d].tx].execs \cap acknowledged' :
                \E q \in DOMAIN conns'[d].writes : conns'[d].writes[q] = x
          /\ \A p, q \in DOMAIN conns'[d].writes : p < q => conns'[d].writes[p] < conns'[d].writes[q]
    BY <1>4 DEF WritesHeld
<1> DEFINE i == conns[d].tx
           old == conns[d].writes
<1>5. i # 0 /\ conns'[d].tx = i /\ i \in DOMAIN txs
    BY ExecConns DEF OneConnection
<1>6. /\ \A q \in DOMAIN old : old[q] \in txs[i].execs \cap acknowledged
      /\ \A x \in txs[i].execs \cap acknowledged : \E q \in DOMAIN old : old[q] = x
      /\ \A p, q \in DOMAIN old : p < q => old[p] < old[q]
    BY <1>5 DEF WritesHeld
<1>7. CASE d = c /\ id \in acknowledged'
    <2>1. conns' = [conns EXCEPT ![c].writes = Append(@, id), ![c].snapshot = Len(file)]
        BY <1>1, <1>5, <1>7, ExecOutcomes
    <2>2. conns'[d].writes = Append(old, id)
        BY <1>1, <1>7, <2>1, ExecHeld
    <2>3. old \in Seq(Nat)
        BY DEF DbTypes, Connection
    <2>4. /\ DOMAIN old = 1 .. Len(old) /\ DOMAIN conns'[d].writes = 1 .. Len(old) + 1 /\ Len(old) \in Nat
          /\ \A q \in 1 .. Len(old) : conns'[d].writes[q] = old[q]
          /\ conns'[d].writes[Len(old) + 1] = id
        BY <1>1, <2>2, <2>3
    <2> HIDE DEF id, old
    <2>5. \A q \in 1 .. Len(old) : old[q] < id
        BY <1>1, <2>4 DEF old
    <2>6. txs'[i].execs = txs[i].execs \cup {id} /\ acknowledged' = acknowledged \cup {id}
        BY <1>2, <1>3, <1>5, <1>7
    <2>7. \A q \in 1 .. Len(old) + 1 : conns'[d].writes[q] \in txs'[i].execs \cap acknowledged'
        <3>1. TAKE q \in 1 .. Len(old) + 1
        <3>2. CASE q \in 1 .. Len(old)
            BY <1>6, <2>4, <2>6, <3>2
        <3>3. CASE q = Len(old) + 1
            BY <2>4, <2>6, <3>3
        <3> QED
            BY <2>4, <3>2, <3>3
    <2>8. ASSUME NEW x \in txs'[i].execs \cap acknowledged'
          PROVE  \E q \in 1 .. Len(old) + 1 : conns'[d].writes[q] = x
        <3>1. CASE x = id
            BY <2>4, <3>1
        <3>2. CASE x # id
            <4>1. PICK q \in 1 .. Len(old) : old[q] = x
                BY <1>6, <2>4, <2>6, <3>2
            <4> QED
                BY <2>4, <4>1
        <3> QED
            BY <3>1, <3>2
    <2>9. ASSUME NEW p \in 1 .. Len(old) + 1, NEW q \in 1 .. Len(old) + 1, p < q
          PROVE  conns'[d].writes[p] < conns'[d].writes[q]
        <3>1. p \in 1 .. Len(old)
            BY <2>4, <2>9
        <3>2. CASE q \in 1 .. Len(old)
            BY <1>6, <2>4, <2>9, <3>1, <3>2
        <3>3. CASE q = Len(old) + 1
            BY <2>4, <2>5, <3>1, <3>3
        <3> QED
            BY <2>4, <3>2, <3>3
    <2> QED
        BY <1>5, <2>4, <2>7, <2>8, <2>9
<1>8. CASE ~(d = c /\ id \in acknowledged')
    <2>1. conns'[d] = conns[d]
        BY <1>8, ExecConns
    <2>2. txs'[i].execs \cap acknowledged' = txs[i].execs \cap acknowledged
        <3>1. \/ id \notin acknowledged'
              \/ i # conns[c].tx
            BY <1>5, <1>8 DEF OneConnection
        <3>2. id \notin txs[i].execs
            BY <1>5, ExecFresh
        <3> QED
            BY <1>1, <1>2, <1>3, <1>5, <3>1, <3>2, ZenonT(40)
    <2> QED
        BY <1>5, <1>6, <2>1, <2>2
<1> QED
    BY <1>7, <1>8

LEMMA ExecKeepsLock ==
    ASSUME DbTypes, OneConnection, LockHeld, NEW c \in Connections, vek_db_exec(c)
    PROVE  LockHeld'
<1>1. Connections' = Connections
    BY DEF Connections
<1>2. Len(file) \in Nat /\ Len(file') \in Nat /\ Len(file) <= Len(file')
    BY ExecFile
<1>3. \A d \in Connections : conns[d].snapshot \in Int /\ conns[d].writes \in Seq(Nat)
    BY DEF DbTypes, Connection
<1>4. MayWrite(c) => \A d \in Connections \ {c} : conns[d].writes = <<>>
    BY DEF MayWrite, HoldsLock
<1>5. conns[c].tx = 0 => conns[c].writes = <<>>
    BY DEF OneConnection, Closed
<1>6. ASSUME NEW d \in Connections
      PROVE  /\ -1 <= conns'[d].snapshot /\ conns'[d].snapshot <= Len(file')
             /\ conns'[d].writes # <<>> =>
                   /\ conns'[d].snapshot = Len(file')
                   /\ \A e \in Connections \ {d} : conns'[e].writes = <<>>
    <2>1. CASE file' = file /\ conns' = conns
        BY <2>1 DEF LockHeld
    <2>2. CASE conns[c].tx = 0 /\ MayWrite(c) /\ conns' = conns
        <3>1. \A e \in Connections : conns[e].writes = <<>>
            BY <1>4, <1>5, <2>2
        <3> QED
            BY <1>2, <1>3, <2>2, <3>1 DEF LockHeld
    <2>3. CASE /\ MayWrite(c) /\ file' = file
               /\ conns' = [conns EXCEPT ![c].writes = Append(@, written + 1), ![c].snapshot = Len(file)]
        <3>1. /\ \A e \in Connections \ {c} : conns'[e] = conns[e] /\ conns'[e].writes = <<>>
              /\ conns'[c].snapshot = Len(file)
            <4>1. written + 1 \in Nat
                BY DEF DbTypes
            <4> QED
                BY <1>4, <2>3, <4>1, ExecHeld
        <3>2. CASE d = c
            <4>1. conns'[d].snapshot = Len(file') /\ -1 <= Len(file') /\ Len(file') <= Len(file')
                BY <1>2, <2>3, <3>1, <3>2
            <4> QED
                BY <3>1, <3>2, <4>1
        <3>3. CASE d # c
            BY <1>2, <2>3, <3>1, <3>3 DEF LockHeld
        <3> QED
            BY <3>2, <3>3
    <2> QED
        BY <2>1, <2>2, <2>3, ExecOutcomes
<1> QED
    BY <1>1, <1>6 DEF LockHeld

LEMMA ExecKeepsReads ==
    ASSUME DbTypes, OneConnection, LockHeld, ReadsOwn, NEW c \in Connections, vek_db_exec(c)
    PROVE  ReadsOwn'
<1>1. Connections' = Connections
    BY DEF Connections
<1> SUFFICES ASSUME NEW d \in Connections, conns'[d].tx # 0, NEW rows \in txs'[conns'[d].tx].read
    PROVE  LET k == conns'[d] IN
           /\ 0 <= k.snapshot /\ (txs'[k.tx].whole => k.snapshot <= Len(rows))
           /\ Len(rows) <= k.snapshot + Len(k.writes)
           /\ \A q \in 1 .. Len(rows) :
                 rows[q] = IF q <= k.snapshot THEN file'[q] ELSE k.writes[q - k.snapshot]
    BY <1>1 DEF ReadsOwn
<1> DEFINE k == conns[d]
<1>2. /\ k.tx # 0 /\ k.tx \in DOMAIN txs /\ rows \in txs[k.tx].read /\ rows \in Seq(Nat)
      /\ conns'[d].tx = k.tx /\ txs'[k.tx].whole = txs[k.tx].whole
    <2>0. conns'[d].tx = k.tx
        BY ExecConns
    <2>1. /\ k.tx # 0 /\ k.tx \in DOMAIN txs /\ rows \in txs[k.tx].read
          /\ txs'[k.tx].whole = txs[k.tx].whole
        BY <2>0, ExecHistory DEF OneConnection
    <2>2. txs[k.tx] \in Transaction
        BY <2>1 DEF DbTypes
    <2> QED
        BY <2>0, <2>1, <2>2 DEF Transaction
<1>3. /\ 0 <= k.snapshot /\ (txs[k.tx].whole => k.snapshot <= Len(rows))
      /\ Len(rows) <= k.snapshot + Len(k.writes)
      /\ \A q \in 1 .. Len(rows) : rows[q] = IF q <= k.snapshot THEN file[q] ELSE k.writes[q - k.snapshot]
    BY <1>2 DEF ReadsOwn
<1>4. k.snapshot \in Int /\ k.writes \in Seq(Nat) /\ k.snapshot <= Len(file)
    BY DEF DbTypes, Connection, LockHeld
<1>5. \A q \in 1 .. Len(rows) : q <= k.snapshot => file'[q] = file[q]
    BY <1>2, <1>4, ExecFile
<1>6. CASE conns'[d] = conns[d]
    BY <1>2, <1>3, <1>5, <1>6
<1>7. CASE /\ d = c /\ MayWrite(c) /\ conns'[d].writes = Append(k.writes, written + 1)
           /\ conns'[d].snapshot = Len(file)
    <2>1. k.snapshot = Len(file)
        BY <1>3, <1>7 DEF MayWrite, Current, NoSnapshot
    <2>2. written + 1 \in Nat
        BY DEF DbTypes
    <2> DEFINE new == conns'[d].writes
    <2>3. /\ Len(new) = Len(k.writes) + 1 /\ Len(k.writes) \in Nat
          /\ \A q \in 1 .. Len(k.writes) : new[q] = k.writes[q]
        BY <1>4, <1>7, <2>2
    <2>4. conns'[d].snapshot = k.snapshot
        BY <1>7, <2>1
    <2>5. Len(rows) \in Nat
        BY <1>2
    <2> HIDE DEF new, k
    <2>6. ASSUME NEW q \in 1 .. Len(rows)
          PROVE  rows[q] = IF q <= k.snapshot THEN file'[q] ELSE new[q - k.snapshot]
        <3>1. CASE q <= k.snapshot
            BY <1>3, <1>5, <3>1
        <3>2. CASE ~(q <= k.snapshot)
            <4>1. q - k.snapshot \in 1 .. Len(k.writes)
                BY <1>3, <1>4, <2>3, <2>5, <3>2
            <4> QED
                BY <1>3, <2>3, <3>2, <4>1
        <3> QED
            BY <3>1, <3>2
    <2>7. Len(rows) <= k.snapshot + Len(new)
        BY <1>3, <1>4, <2>3, <2>5
    <2> QED
        BY <1>2, <1>3, <2>4, <2>6, <2>7 DEF new
<1> QED
    BY <1>6, <1>7, ExecConns

LEMMA ExecPlaces ==
    ASSUME DbTypes, WritesKnown, OneConnection, WritesHeld, NEW c \in Connections, vek_db_exec(c)
    PROVE  \A i \in DOMAIN txs : Places(i)' = Places(i)
<1> SUFFICES ASSUME NEW i \in DOMAIN txs PROVE Places(i)' = Places(i)
    OBVIOUS
<1> DEFINE id == written + 1
<1>1. /\ \A p \in DOMAIN file : file[p] # id
      /\ \A j \in DOMAIN txs : id \notin txs[j].execs
    <2>1. id \in Nat /\ \A p \in DOMAIN file : file[p] \in Nat /\ file[p] < id
        BY ExecFresh DEF DbTypes
    <2> QED
        BY <2>1, ExecFresh
<1>2. txs'[i].execs = IF i = conns[c].tx THEN txs[i].execs \cup {id} ELSE txs[i].execs
    BY ExecHistory
<1>3. ASSUME NEW p \in DOMAIN file PROVE p \in DOMAIN file' /\ (file'[p] \in txs'[i].execs <=> file[p] \in txs[i].execs)
    BY <1>1, <1>2, ExecFile
<1>4. ASSUME NEW p \in DOMAIN file' \ DOMAIN file PROVE file'[p] \notin txs'[i].execs
    <2>1. file'[p] = id /\ conns[c].tx = 0
        BY <1>4, ExecFile
    <2>2. i # 0
        BY DEF DbTypes
    <2> QED
        BY <1>1, <1>2, <2>1, <2>2
<1> QED
    BY <1>3, <1>4 DEF Places

LEMMA ExecKeepsReadsHold ==
    ASSUME DbTypes, DbTypes', WritesKnown, OneConnection, WritesHeld, ReadsHold,
           NEW c \in Connections, vek_db_exec(c)
    PROVE  ReadsHold'
<1> SUFFICES ASSUME NEW i \in DOMAIN txs', txs'[i].outcome = "returned", Places(i)' # {}
    PROVE  \E first \in Places(i)' :
               /\ \A p \in Places(i)' : first <= p
               /\ \A rows \in txs'[i].read : (txs'[i].whole => first - 1 <= Len(rows)) /\ IsPrefix(rows, file')
    BY DEF ReadsHold
<1>1. /\ i \in DOMAIN txs /\ txs'[i].outcome = txs[i].outcome /\ txs'[i].read = txs[i].read
      /\ txs'[i].whole = txs[i].whole
      /\ Places(i)' = Places(i)
    BY ExecHistory, ExecPlaces
<1>2. PICK first \in Places(i) :
               /\ \A p \in Places(i) : first <= p
               /\ \A rows \in txs[i].read : (txs[i].whole => first - 1 <= Len(rows)) /\ IsPrefix(rows, file)
    BY <1>1 DEF ReadsHold
<1>3. ASSUME NEW rows \in txs[i].read PROVE IsPrefix(rows, file')
    <2>1. txs[i] \in Transaction
        BY <1>1 DEF DbTypes
    <2>2. rows \in Seq(Nat)
        BY <2>1 DEF Transaction
    <2>3. file \in Seq(Nat) /\ file' \in Seq(Nat)
        BY DEF DbTypes
    <2> QED
        BY <1>2, <2>2, <2>3, ExecFile, PrefixOfLonger
<1> QED
    BY <1>1, <1>2, <1>3

LEMMA ExecKeepsTold ==
    ASSUME DbTypes, WritesKnown, OneConnection, WritesHeld, WritesAsTold,
           NEW c \in Connections, vek_db_exec(c)
    PROVE  WritesAsTold'
<1> DEFINE id == written + 1
<1>1. /\ id \notin acknowledged \cup refused
      /\ \A p \in DOMAIN file : file[p] \in acknowledged /\ file[p] # id
      /\ \A i \in DOMAIN txs : id \notin txs[i].execs
    BY ExecFresh DEF WritesKnown
<1>2. /\ DOMAIN txs' = DOMAIN txs
      /\ \A i \in DOMAIN txs :
            /\ txs'[i].outcome = txs[i].outcome
            /\ txs'[i].execs = IF i = conns[c].tx THEN txs[i].execs \cup {id} ELSE txs[i].execs
            /\ Places(i)' = Places(i)
    BY ExecHistory, ExecPlaces
<1>3. /\ DOMAIN file \subseteq DOMAIN file'
      /\ \A p \in DOMAIN file : file'[p] = file[p]
      /\ \A p \in DOMAIN file' \ DOMAIN file : p = Len(file) + 1 /\ file'[p] = id /\ refused' = refused
    <2>1. \A p \in DOMAIN file' \ DOMAIN file : refused' = refused
        BY <1>1, ExecFile, ExecOutcomes
    <2> QED
        BY <2>1, ExecFile
<1> HIDE DEF id
<1>4. ToSet(file) \subseteq ToSet(file')
    BY <1>3 DEF ToSet
<1>5. IsInjective(file)'
    <2> SUFFICES ASSUME NEW p \in DOMAIN file', NEW q \in DOMAIN file', file'[p] = file'[q] PROVE p = q
        BY DEF IsInjective
    <2> QED
        BY <1>1, <1>3 DEF WritesAsTold, IsInjective
<1>6. ToSet(file') \cap refused' = {}
    <2> SUFFICES ASSUME NEW p \in DOMAIN file', file'[p] \in refused' PROVE FALSE
        BY DEF ToSet
    <2>1. refused' \subseteq refused \cup {id}
        BY ExecOutcomes DEF id
    <2>2. \A q \in DOMAIN file : file[q] \notin refused
        BY DEF WritesAsTold, ToSet
    <2> QED
        BY <1>1, <1>3, <2>1, <2>2
<1>7. acknowledged' \ InTx' \subseteq ToSet(file')
    <2> SUFFICES ASSUME NEW x \in acknowledged', x \notin InTx' PROVE x \in ToSet(file')
        OBVIOUS
    <2>1. \A i \in DOMAIN txs : x \notin txs[i].execs
        BY <1>2 DEF InTx
    <2>2. CASE x \in acknowledged
        BY <1>4, <2>1, <2>2 DEF WritesAsTold, InTx
    <2>3. CASE x \notin acknowledged
        <3>1. x = id /\ id \in acknowledged'
            <4>1. acknowledged' \subseteq acknowledged \cup {id}
                BY ExecOutcomes DEF id
            <4> QED
                BY <2>3, <4>1
        <3>2. CASE conns[c].tx = 0
            <4>1. file' = Append(file, id)
                BY <1>1, <3>1, <3>2, ExecOutcomes DEF id
            <4>2. file \in Seq(Nat) /\ id \in Nat
                BY DEF DbTypes, id
            <4>3. Len(file) + 1 \in DOMAIN file' /\ file'[Len(file) + 1] = id
                BY <4>1, <4>2
            <4> QED
                BY <3>1, <4>3 DEF ToSet
        <3>3. CASE conns[c].tx # 0
            <4>1. conns[c].tx \in DOMAIN txs
                BY <3>3 DEF OneConnection
            <4>2. id \in txs'[conns[c].tx].execs
                BY <1>2, <4>1
            <4> QED
                BY <1>2, <3>1, <4>1, <4>2 DEF InTx
        <3> QED
            BY <3>2, <3>3
    <2> QED
        BY <2>2, <2>3
<1>8. ASSUME NEW i \in DOMAIN txs'
      PROVE  /\ txs'[i].outcome = "returned" => txs'[i].execs \cap acknowledged' \subseteq ToSet(file')
             /\ txs'[i].outcome # "returned" => Places(i)' = {}
             /\ \A p, q \in Places(i)' : p < q => p .. q \subseteq Places(i)' /\ file'[p] < file'[q]
    <2>1. i \in DOMAIN txs
        BY <1>2
    <2>2. txs'[i].outcome = "returned" => txs'[i].execs \cap acknowledged' \subseteq ToSet(file')
        <3> SUFFICES ASSUME txs'[i].outcome = "returned" PROVE txs'[i].execs \cap acknowledged' \subseteq ToSet(file')
            OBVIOUS
        <3>1. i # conns[c].tx
            <4>1. i # 0
                BY <2>1 DEF DbTypes
            <4>2. i = conns[c].tx => txs[i].outcome # "returned"
                BY <4>1 DEF OneConnection
            <4> QED
                BY <1>2, <2>1, <4>2
        <3>2. acknowledged' \subseteq acknowledged \cup {id}
            BY ExecOutcomes DEF id
        <3>3. txs[i].execs \cap acknowledged \subseteq ToSet(file)
            BY <1>2, <2>1 DEF WritesAsTold
        <3> QED
            BY <1>1, <1>2, <1>4, <2>1, <3>1, <3>2, <3>3
    <2>3. txs'[i].outcome # "returned" => Places(i)' = {}
        BY <1>2, <2>1 DEF WritesAsTold
    <2>4. \A p, q \in Places(i)' : p < q => p .. q \subseteq Places(i)' /\ file'[p] < file'[q]
        <3>1. \A p \in Places(i) : file'[p] = file[p]
            BY <1>3 DEF Places
        <3>2. \A p, q \in Places(i) : p < q => p .. q \subseteq Places(i) /\ file[p] < file[q]
            BY <2>1 DEF WritesAsTold
        <3>3. Places(i)' = Places(i)
            BY <1>2, <2>1
        <3> QED
            BY <3>1, <3>2, <3>3
    <2> QED
        BY <2>2, <2>3, <2>4
<1> QED
    BY <1>5, <1>6, <1>7, <1>8 DEF WritesAsTold

LEMMA ExecStep ==
    ASSUME DbInv, NEW c \in Connections, vek_db_exec(c), UNCHANGED began
    PROVE  DbInv'
<1>1. DbTypes'
    BY ExecTypes DEF DbInv
<1>2. WritesKnown' /\ OneConnection' /\ WritesHeld' /\ LockHeld' /\ ReadsOwn'
    BY ExecKeepsKnown, ExecKeepsConnections, ExecKeepsHeld, ExecKeepsLock, ExecKeepsReads DEF DbInv
<1>3. WritesAsTold' /\ ReadsHold'
    BY <1>1, ExecKeepsTold, ExecKeepsReadsHold DEF DbInv
<1> QED
    BY <1>1, <1>2, <1>3 DEF DbInv

-----------------------------------------------------------------------------
(* The other steps of a connection.                                        *)

LEMMA Typed ==
    ASSUME DbTypes
    PROVE  /\ file \in Seq(Nat) /\ Len(file) \in Nat /\ DOMAIN file = 1 .. Len(file)
           /\ txs \in Seq(Transaction) /\ Len(txs) \in Nat /\ DOMAIN txs = 1 .. Len(txs)
           /\ 0 \notin DOMAIN txs
           /\ \A i \in DOMAIN txs :
                 /\ txs[i] \in Transaction
                 /\ txs[i].execs \in SUBSET Nat /\ txs[i].read \in SUBSET Seq(Nat) /\ txs[i].outcome \in Outcomes
           /\ conns \in [Connections -> Connection]
           /\ \A c \in Connections :
                 /\ conns[c] \in Connection
                 /\ conns[c].writes \in Seq(Nat) /\ Len(conns[c].writes) \in Nat
                 /\ conns[c].snapshot \in Int /\ conns[c].tx \in Nat
<1>1. file \in Seq(Nat) /\ txs \in Seq(Transaction) /\ conns \in [Connections -> Connection]
    BY DEF DbTypes
<1>2. /\ Len(file) \in Nat /\ DOMAIN file = 1 .. Len(file)
      /\ Len(txs) \in Nat /\ DOMAIN txs = 1 .. Len(txs) /\ \A i \in DOMAIN txs : txs[i] \in Transaction
    BY <1>1
<1>3. \A t \in Transaction : t.execs \in SUBSET Nat /\ t.read \in SUBSET Seq(Nat) /\ t.outcome \in Outcomes
    BY DEF Transaction
<1>4. \A k \in Connection :
          k.writes \in Seq(Nat) /\ Len(k.writes) \in Nat /\ k.snapshot \in Int /\ k.tx \in Nat
    BY DEF Connection
<1> QED
    BY <1>1, <1>2, <1>3, <1>4

\* Of a query.
LEMMA QueryConns ==
    ASSUME DbTypes, NEW c \in Connections, vek_db_query(c)
    PROVE  /\ conns' \in [Connections -> Connection]
           /\ \A d \in Connections :
                 /\ conns'[d].tx = conns[d].tx /\ conns'[d].writes = conns[d].writes
                 /\ conns'[d].sqlite = conns[d].sqlite /\ conns'[d].in_transaction = conns[d].in_transaction
                 /\ \/ conns'[d] = conns[d]
                    \/ /\ d = c /\ conns[c].sqlite /\ conns[c].snapshot = -1
                       /\ conns'[c].snapshot = Len(file)
           /\ conns[c].sqlite /\ conns[c].snapshot = -1 => conns'[c].snapshot = Len(file)
<1>1. CASE conns' = conns /\ ~(conns[c].sqlite /\ conns[c].snapshot = -1)
    BY <1>1, Typed
<1>2. CASE conns[c].sqlite /\ conns[c].snapshot = -1 /\ conns' = [conns EXCEPT ![c].snapshot = Len(file)]
    <2> DEFINE k == [conns[c] EXCEPT !.snapshot = Len(file)]
    <2>1. conns[c] \in Connection /\ Len(file) \in Int
        BY Typed
    <2>2. /\ k \in Connection /\ k.tx = conns[c].tx /\ k.writes = conns[c].writes /\ k.sqlite = conns[c].sqlite
          /\ k.in_transaction = conns[c].in_transaction /\ k.snapshot = Len(file)
        BY <2>1 DEF Connection
    <2>3. conns' = [conns EXCEPT ![c] = k] /\ conns \in [Connections -> Connection]
        BY <1>2, Typed
    <2> HIDE DEF k
    <2> QED
        BY <1>2, <2>2, <2>3
<1> QED
    BY <1>1, <1>2 DEF vek_db_query, NoSnapshot

LEMMA RowsTyped ==
    ASSUME DbTypes, LockHeld, NEW c \in Connections
    PROVE  Rows(c) \in Seq(Nat)
<1>1. CASE conns[c].sqlite /\ conns[c].snapshot # NoSnapshot
    <2>1. conns[c].snapshot \in 0 .. Len(file)
        BY <1>1, Typed DEF LockHeld, NoSnapshot
    <2>2. SubSeq(file, 1, conns[c].snapshot) \in Seq(Nat)
        BY <2>1, Typed
    <2>3. SubSeq(file, 1, conns[c].snapshot) \o conns[c].writes \in Seq(Nat)
        BY <2>2, Typed
    <2> QED
        BY <1>1, <2>3 DEF Rows
<1>2. CASE ~(conns[c].sqlite /\ conns[c].snapshot # NoSnapshot)
    BY <1>2, Typed DEF Rows
<1> QED
    BY <1>1, <1>2

\* What a query with n of the rows leaves in the history.
LEMMA QueryHistory ==
    ASSUME DbTypes, OneConnection, LockHeld, NEW c \in Connections, vek_db_query(c)
    PROVE  /\ txs' \in Seq(Transaction) /\ Len(txs') = Len(txs) /\ DOMAIN txs' = DOMAIN txs
           /\ \A i \in DOMAIN txs :
                 /\ txs'[i].outcome = txs[i].outcome /\ txs'[i].execs = txs[i].execs
                 /\ i # conns[c].tx => txs'[i].read = txs[i].read /\ txs'[i].whole = txs[i].whole
                 /\ i = conns[c].tx => \E n \in 0 .. Len(Rows(c)) :
                       /\ txs'[i].read = {SubSeq(Rows(c), 1, n)}
                       /\ txs'[i].whole = (n = Len(Rows(c)))
<1>1. CASE conns[c].tx = 0
    <2>1. txs' = txs /\ 0 \notin DOMAIN txs
        BY <1>1, Typed DEF vek_db_query
    <2> QED
        BY <1>1, <2>1, Typed
<1>2. CASE conns[c].tx # 0
    <2> DEFINE i == conns[c].tx
    <2>1. PICK n \in 0 .. Len(Rows(c)) :
              txs' = [txs EXCEPT ![i].read = {SubSeq(Rows(c), 1, n)}, ![i].whole = (n = Len(Rows(c)))]
        BY <1>2 DEF vek_db_query
    <2> DEFINE r == SubSeq(Rows(c), 1, n)
               h == (n = Len(Rows(c)))
               t == [txs[i] EXCEPT !.read = {r}, !.whole = h]
    <2>2. i \in DOMAIN txs /\ txs[i] \in Transaction
        BY <1>2, Typed DEF OneConnection
    <2>3. {r} \in SUBSET Seq(Nat) /\ h \in BOOLEAN
        <3>1. Rows(c) \in Seq(Nat) /\ n \in 0 .. Len(Rows(c))
            BY RowsTyped, <2>1
        <3>2. r \in Seq(Nat)
            BY <3>1
        <3> QED
            BY <3>2
    <2>4. txs' = [txs EXCEPT ![i].read = {r}, ![i].whole = h]
        BY <2>1
    <2>5. r = SubSeq(Rows(c), 1, n) /\ h = (n = Len(Rows(c)))
        OBVIOUS
    <2> HIDE DEF r, h
    <2>6. /\ t \in Transaction
          /\ t.execs = txs[i].execs /\ t.read = {r} /\ t.whole = h /\ t.outcome = txs[i].outcome
        BY <2>2, <2>3 DEF Transaction
    <2>7. txs' = [txs EXCEPT ![i] = t] /\ txs \in Seq(Transaction)
        BY <2>2, <2>4, Typed
    <2> HIDE DEF t
    <2>8. txs' \in Seq(Transaction) /\ Len(txs') = Len(txs) /\ DOMAIN txs' = DOMAIN txs
        BY <2>2, <2>6, <2>7
    <2>9. \A j \in DOMAIN txs : txs'[j] = IF j = i THEN t ELSE txs[j]
        BY <2>2, <2>7
    <2>10. \E m \in 0 .. Len(Rows(c)) : t.read = {SubSeq(Rows(c), 1, m)} /\ t.whole = (m = Len(Rows(c)))
        BY <2>1, <2>5, <2>6
    <2> QED
        BY <2>6, <2>8, <2>9, <2>10
<1> QED
    BY <1>1, <1>2

\* What a transaction sees: its snapshot, then its own writes.
LEMMA RowsSeen ==
    ASSUME DbTypes, LockHeld, NEW c \in Connections, conns[c].sqlite, vek_db_query(c)
    PROVE  LET k == conns'[c] IN
           /\ 0 <= k.snapshot /\ k.snapshot \in Int /\ k.snapshot <= Len(Rows(c))
           /\ Rows(c) \in Seq(Nat) /\ Len(Rows(c)) = k.snapshot + Len(conns[c].writes)
           /\ \A q \in 1 .. Len(Rows(c)) :
                 Rows(c)[q] = IF q <= k.snapshot THEN file[q] ELSE conns[c].writes[q - k.snapshot]
<1> DEFINE k == conns[c]
<1>0. Rows(c) \in Seq(Nat) /\ k.writes \in Seq(Nat) /\ Len(k.writes) \in Nat
    BY RowsTyped, Typed
<1>1. CASE k.snapshot = -1
    <2>1. k.writes = <<>>
        BY <1>1, Typed DEF LockHeld
    <2>2. Rows(c) = file /\ conns'[c].snapshot = Len(file)
        BY <1>1, QueryConns DEF Rows, NoSnapshot
    <2> QED
        BY <1>0, <2>1, <2>2, Typed
<1>2. CASE k.snapshot # -1
    <2>1. conns'[c] = k
        BY <1>2, QueryConns
    <2>2. k.snapshot \in 0 .. Len(file)
        BY <1>2, Typed DEF LockHeld
    <2>3. Rows(c) = SubSeq(file, 1, k.snapshot) \o k.writes
        BY <1>2 DEF Rows, NoSnapshot
    <2> HIDE DEF k
    <2>4. /\ SubSeq(file, 1, k.snapshot) \in Seq(Nat) /\ Len(SubSeq(file, 1, k.snapshot)) = k.snapshot
          /\ \A q \in 1 .. k.snapshot : SubSeq(file, 1, k.snapshot)[q] = file[q]
        BY <2>2, Typed
    <2>5. /\ Len(Rows(c)) = k.snapshot + Len(k.writes)
          /\ \A q \in 1 .. Len(Rows(c)) :
                 Rows(c)[q] = IF q <= k.snapshot THEN file[q] ELSE k.writes[q - k.snapshot]
        <3> DEFINE old == SubSeq(file, 1, k.snapshot)
        <3>1. /\ Len(Rows(c)) = Len(old) + Len(k.writes)
              /\ \A q \in 1 .. Len(Rows(c)) :
                     Rows(c)[q] = IF q <= Len(old) THEN old[q] ELSE k.writes[q - Len(old)]
            BY <1>0, <2>3, <2>4, ConcatProperties
        <3>2. Len(old) = k.snapshot /\ \A q \in 1 .. k.snapshot : old[q] = file[q]
            BY <2>4
        <3> HIDE DEF old
        <3>3. Len(Rows(c)) = k.snapshot + Len(k.writes)
            BY <3>1, <3>2
        <3>4. ASSUME NEW q \in 1 .. Len(Rows(c))
              PROVE  Rows(c)[q] = IF q <= k.snapshot THEN file[q] ELSE k.writes[q - k.snapshot]
            <4>1. CASE q <= k.snapshot
                BY <2>2, <3>1, <3>2, <4>1
            <4>2. CASE ~(q <= k.snapshot)
                BY <3>1, <3>2, <4>2
            <4> QED
                BY <4>1, <4>2
        <3> QED
            BY <3>3, <3>4
    <2>6. 0 <= k.snapshot /\ k.snapshot \in Int /\ k.snapshot <= Len(Rows(c))
        BY <1>0, <2>2, <2>5
    <2> QED
        BY <1>0, <2>1, <2>5, <2>6 DEF k
<1> QED
    BY <1>1, <1>2

LEMMA QueryKeepsReads ==
    ASSUME DbTypes, OneConnection, LockHeld, ReadsOwn, NEW c \in Connections, vek_db_query(c), UNCHANGED file
    PROVE  ReadsOwn'
<1>1. Connections' = Connections
    BY DEF Connections
<1> SUFFICES ASSUME NEW d \in Connections, conns'[d].tx # 0, NEW rows \in txs'[conns'[d].tx].read
    PROVE  LET k == conns'[d] IN
           /\ 0 <= k.snapshot /\ (txs'[k.tx].whole => k.snapshot <= Len(rows))
           /\ Len(rows) <= k.snapshot + Len(k.writes)
           /\ \A q \in 1 .. Len(rows) :
                 rows[q] = IF q <= k.snapshot THEN file[q] ELSE k.writes[q - k.snapshot]
    BY <1>1 DEF ReadsOwn
<1> DEFINE i == conns[d].tx
<1>2. /\ conns'[d].tx = i /\ conns'[d].writes = conns[d].writes
      /\ i # 0 /\ i \in DOMAIN txs
    BY QueryConns DEF OneConnection
<1>3. CASE d # c
    <2>1. i # conns[c].tx /\ conns'[d] = conns[d]
        BY <1>2, <1>3, QueryConns DEF OneConnection
    <2>2. rows \in txs[i].read /\ txs'[i].whole = txs[i].whole
        BY <1>2, <2>1, QueryHistory
    <2> QED
        BY <1>2, <2>1, <2>2 DEF ReadsOwn
<1>4. CASE d = c
    <2> DEFINE all == Rows(c)
               snap == conns'[c].snapshot
               own == conns[c].writes
    <2>1. conns[c].sqlite
        BY <1>2, <1>4 DEF OneConnection
    <2>2. /\ 0 <= snap /\ snap \in Int /\ snap <= Len(all)
          /\ all \in Seq(Nat) /\ Len(all) = snap + Len(own)
          /\ \A q \in 1 .. Len(all) : all[q] = IF q <= snap THEN file[q] ELSE own[q - snap]
        BY <2>1, RowsSeen
    <2>3. PICK n \in 0 .. Len(all) : txs'[i].read = {SubSeq(all, 1, n)} /\ txs'[i].whole = (n = Len(all))
        BY <1>2, <1>4, QueryHistory
    <2>4. rows = SubSeq(all, 1, n)
        BY <1>2, <2>3
    <2> HIDE DEF all, snap, own
    <2>5. n \in Nat /\ n <= Len(all) /\ Len(all) \in Nat
        BY <2>2, <2>3
    <2>6. Len(rows) = n /\ \A q \in 1 .. n : rows[q] = all[q]
        BY <2>2, <2>4, <2>5
    <2>7. Len(rows) <= snap + Len(own)
        BY <2>2, <2>5, <2>6
    <2>8. \A q \in 1 .. Len(rows) : rows[q] = IF q <= snap THEN file[q] ELSE own[q - snap]
        BY <2>2, <2>5, <2>6
    <2>9. txs'[i].whole => snap <= Len(rows)
        BY <2>2, <2>3, <2>6
    <2> QED
        BY <1>2, <1>4, <2>2, <2>7, <2>8, <2>9 DEF snap, own
<1> QED
    BY <1>3, <1>4

LEMMA QueryStep ==
    ASSUME DbInv, NEW c \in Connections, vek_db_query(c),
           UNCHANGED <<file, began, written, acknowledged, refused>>
    PROVE  DbInv'
<1> USE DEF DbInv
<1>1. DbTypes'
    BY QueryConns, QueryHistory DEF DbTypes
<1>2. WritesKnown'
    BY QueryHistory, ZenonT(40) DEF WritesKnown
<1>3. OneConnection'
    <2>1. Connections' = Connections /\ Closed' = Closed
        BY DEF Connections, Closed, NoSnapshot
    <2>2. ASSUME NEW d \in Connections
          PROVE  IF conns'[d].tx = 0 THEN conns'[d] = Closed
                 ELSE /\ conns'[d].sqlite
                      /\ conns'[d].tx \in DOMAIN txs' /\ txs'[conns'[d].tx].outcome # "returned"
        <3>1. CASE conns[d].tx = 0
            <4>1. conns[d] = Closed
                BY <3>1 DEF OneConnection
            <4>2. ~conns[d].sqlite
                BY <4>1 DEF Closed
            <4> QED
                BY <3>1, <4>1, <4>2, QueryConns
        <3>2. CASE conns[d].tx # 0
            <4>1. /\ conns'[d].tx = conns[d].tx
                  /\ conns'[d].sqlite = conns[d].sqlite /\ conns'[d].in_transaction = conns[d].in_transaction
                BY QueryConns
            <4>2. /\ conns[d].sqlite
                  /\ conns[d].tx \in DOMAIN txs /\ txs[conns[d].tx].outcome # "returned"
                BY <3>2 DEF OneConnection
            <4>3. conns'[d].tx \in DOMAIN txs' /\ txs'[conns'[d].tx].outcome # "returned"
                BY <4>1, <4>2, QueryHistory
            <4>4. conns'[d].sqlite
                BY <4>1, <4>2
            <4> QED
                BY <3>2, <4>1, <4>3, <4>4
        <3> QED
            BY <3>1, <3>2
    <2>3. \A d \in Connections : conns'[d].tx = conns[d].tx
        BY QueryConns
    <2> QED
        BY <2>1, <2>2, <2>3 DEF OneConnection
<1>4. WritesHeld'
    <2>1. Connections' = Connections
        BY DEF Connections
    <2>2. ASSUME NEW d \in Connections, conns'[d].tx # 0
          PROVE  /\ conns[d].tx # 0 /\ conns'[d].writes = conns[d].writes
                 /\ txs'[conns'[d].tx].execs = txs[conns[d].tx].execs
        <3>1. conns'[d].tx = conns[d].tx /\ conns'[d].writes = conns[d].writes
            BY QueryConns
        <3> QED
            BY <2>2, <3>1, QueryHistory, ZenonT(40) DEF OneConnection
    <2> QED
        BY <2>1, <2>2 DEF WritesHeld
<1>5. LockHeld'
    <2>1. Connections' = Connections
        BY DEF Connections
    <2>2. \A d \in Connections : conns'[d].writes = conns[d].writes
        BY QueryConns
    <2>3. ASSUME NEW d \in Connections
          PROVE  /\ -1 <= conns'[d].snapshot /\ conns'[d].snapshot <= Len(file)
                 /\ conns[d].writes # <<>> => conns'[d].snapshot = Len(file)
        <3>1. CASE conns'[d] = conns[d]
            BY <3>1 DEF LockHeld
        <3>2. CASE conns'[d].snapshot = Len(file)
            BY <3>2, Typed
        <3> QED
            BY <3>1, <3>2, QueryConns
    <2> QED
        BY <2>1, <2>2, <2>3 DEF LockHeld
<1>6. ReadsOwn'
    BY QueryKeepsReads
<1>7. \A i \in DOMAIN txs : Places(i)' = Places(i)
    BY QueryHistory DEF Places
<1>8. /\ DOMAIN txs' = DOMAIN txs
      /\ \A i \in DOMAIN txs : txs'[i].outcome = txs[i].outcome /\ txs'[i].execs = txs[i].execs
    BY QueryHistory
<1>9. WritesAsTold'
    <2>1. InTx' = InTx
        BY <1>8 DEF InTx
    <2>2. /\ IsInjective(file)' /\ ToSet(file)' \cap refused' = {}
          /\ acknowledged' \ InTx' \subseteq ToSet(file)'
        BY <2>1 DEF WritesAsTold, IsInjective, ToSet
    <2>3. ASSUME NEW i \in DOMAIN txs'
          PROVE  /\ txs'[i].outcome = "returned" => txs'[i].execs \cap acknowledged' \subseteq ToSet(file)'
                 /\ txs'[i].outcome # "returned" => Places(i)' = {}
                 /\ \A p, q \in Places(i)' : p < q => p .. q \subseteq Places(i)' /\ file'[p] < file'[q]
        BY <1>7, <1>8 DEF WritesAsTold, ToSet
    <2> QED
        BY <2>2, <2>3 DEF WritesAsTold
<1>10. ReadsHold'
    <2>1. ASSUME NEW i \in DOMAIN txs', txs'[i].outcome = "returned", Places(i)' # {}
          PROVE  /\ txs[i].outcome = "returned" /\ Places(i) # {}
                 /\ txs'[i].read = txs[i].read /\ txs'[i].whole = txs[i].whole
        <3>1. i \in DOMAIN txs /\ txs[i].outcome = "returned"
            BY <2>1, QueryHistory
        <3>2. i # conns[c].tx
            <4>1. i # 0
                BY <3>1, Typed
            <4> QED
                BY <3>1, <4>1 DEF OneConnection
        <3> QED
            BY <1>7, <2>1, <3>1, <3>2, QueryHistory
    <2>2. ASSUME NEW i \in DOMAIN txs', txs'[i].outcome = "returned", Places(i)' # {}
          PROVE  \E first \in Places(i)' :
                    /\ \A p \in Places(i)' : first <= p
                    /\ \A rows \in txs'[i].read : (txs'[i].whole => first - 1 <= Len(rows)) /\ IsPrefix(rows, file')
        <3>1. /\ i \in DOMAIN txs /\ Places(i)' = Places(i)
              /\ txs'[i].read = txs[i].read /\ txs'[i].whole = txs[i].whole
            BY <1>7, <1>8, <2>1, <2>2
        <3> QED
            BY <2>1, <2>2, <3>1 DEF ReadsHold
    <2> QED
        BY <2>2 DEF ReadsHold
<1> QED
    BY <1>1, <1>2, <1>3, <1>4, <1>5, <1>6, <1>9, <1>10

Opened == [execs |-> {}, read |-> {}, whole |-> TRUE, outcome |-> "open"]

LEMMA BeginStep ==
    ASSUME DbInv, NEW c \in Connections, vek_db_begin(c), began' = began + 1, txs' = Append(txs, Opened),
           UNCHANGED <<file, written, acknowledged, refused>>
    PROVE  DbInv'
<1> USE DEF DbInv
<1> DEFINE n == Len(txs) + 1
<1>1. conns[c].tx = 0 /\ conns[c] = Closed
    BY DEF vek_db_begin, OneConnection
<1>2. began + 1 = n /\ n \in Nat /\ n # 0 /\ n \notin DOMAIN txs
    BY Typed DEF DbTypes
<1>3. /\ Begun(c) \in Connection
      /\ Begun(c).tx = n /\ Begun(c).sqlite = TRUE /\ Begun(c).in_transaction = TRUE
      /\ Begun(c).writes = <<>> /\ Begun(c).snapshot = -1
    <2>1. <<>> \in Seq(Nat)
        OBVIOUS
    <2>2. Closed \in Connection /\ Closed.writes = <<>> /\ Closed.snapshot = -1
        BY <2>1 DEF Closed, Connection, NoSnapshot
    <2>3. Begun(c) = [Closed EXCEPT !.sqlite = TRUE, !.in_transaction = TRUE, !.tx = n]
        BY <1>2 DEF Begun, BeginSql
    <2> QED
        BY <1>2, <2>2, <2>3 DEF Connection
<1>4. /\ conns' \in [Connections -> Connection] /\ conns'[c] = Begun(c)
      /\ \A d \in Connections \ {c} : conns'[d] = conns[d]
    BY <1>3, Typed DEF vek_db_begin
<1>5. /\ txs' \in Seq(Transaction) /\ Len(txs') = n /\ DOMAIN txs' = DOMAIN txs \cup {n}
      /\ \A i \in DOMAIN txs : txs'[i] = txs[i]
      /\ txs'[n] = Opened
    <2>1. Opened \in Transaction
        <3>1. {} \in SUBSET Nat /\ {} \in SUBSET Seq(Nat)
            OBVIOUS
        <3>2. "open" \in Outcomes
            BY DEF Outcomes
        <3> QED
            BY <3>1, <3>2 DEF Opened, Transaction
    <2> HIDE DEF DbInv
    <2> QED
        BY <2>1, Typed DEF DbInv
<1>6. Opened.execs = {} /\ Opened.read = {} /\ Opened.outcome # "returned"
    BY DEF Opened
<1>7. Connections' = Connections /\ Closed' = Closed
    BY DEF Connections, Closed, NoSnapshot
<1> HIDE DEF n, DbInv
<1>8. DbTypes'
    BY <1>2, <1>4, <1>5 DEF DbTypes, DbInv
<1>9. WritesKnown'
    <2>1. \A i \in DOMAIN txs' : txs'[i].execs \subseteq acknowledged \cup refused
        BY <1>5, <1>6 DEF DbInv, WritesKnown
    <2>2. \A i, j \in DOMAIN txs' : i # j => txs'[i].execs \cap txs'[j].execs = {}
        BY <1>5, <1>6 DEF DbInv, WritesKnown
    <2> QED
        BY <2>1, <2>2 DEF DbInv, WritesKnown
<1>10. OneConnection'
    <2>1. ASSUME NEW d \in Connections
          PROVE  IF conns'[d].tx = 0 THEN conns'[d] = Closed
                 ELSE /\ conns'[d].sqlite
                      /\ conns'[d].tx \in DOMAIN txs' /\ txs'[conns'[d].tx].outcome # "returned"
        <3>1. CASE d = c
            BY <1>2, <1>3, <1>4, <1>5, <1>6, <3>1
        <3>2. CASE d # c
            <4>1. conns'[d] = conns[d]
                BY <1>4, <3>2
            <4>2. IF conns[d].tx = 0 THEN conns[d] = Closed
                  ELSE /\ conns[d].sqlite
                       /\ conns[d].tx \in DOMAIN txs /\ txs[conns[d].tx].outcome # "returned"
                BY DEF DbInv, OneConnection
            <4> QED
                BY <1>5, <4>1, <4>2
        <3> QED
            BY <3>1, <3>2
    <2>2. \A d \in Connections : d # c => conns'[d].tx # n
        BY <1>2, <1>4 DEF DbInv, OneConnection
    <2>3. ASSUME NEW d \in Connections, NEW e \in Connections, d # e, conns'[d].tx = conns'[e].tx
          PROVE  conns'[d].tx = 0
        <3>1. d # c /\ e # c
            BY <1>3, <1>4, <2>2, <2>3
        <3> QED
            BY <1>4, <2>3, <3>1 DEF DbInv, OneConnection
    <2> QED
        BY <1>7, <2>1, <2>3 DEF OneConnection
<1>11. \A d \in Connections \ {c} : conns[d].tx # 0 => txs'[conns[d].tx] = txs[conns[d].tx]
    BY <1>5 DEF DbInv, OneConnection
<1>12. WritesHeld'
    <2> SUFFICES ASSUME NEW d \in Connections, conns'[d].tx # 0
        PROVE /\ \A q \in DOMAIN conns'[d].writes :
                  conns'[d].writes[q] \in txs'[conns'[d].tx].execs \cap acknowledged
              /\ \A x \in txs'[conns'[d].tx].execs \cap acknowledged :
                    \E q \in DOMAIN conns'[d].writes : conns'[d].writes[q] = x
              /\ \A p, q \in DOMAIN conns'[d].writes : p < q => conns'[d].writes[p] < conns'[d].writes[q]
        BY <1>7 DEF WritesHeld
    <2>1. CASE d = c
        BY <1>3, <1>4, <1>5, <1>6, <2>1
    <2>2. CASE d # c
        <3>1. conns'[d] = conns[d] /\ txs'[conns[d].tx] = txs[conns[d].tx]
            BY <1>4, <1>11, <2>2
        <3> QED
            BY <3>1 DEF DbInv, WritesHeld
    <2> QED
        BY <2>1, <2>2
<1>13. LockHeld'
    <2>1. \A d \in Connections : conns'[d].writes = conns[d].writes /\ conns'[d].snapshot = conns[d].snapshot
        BY <1>1, <1>3, <1>4 DEF Closed, NoSnapshot
    <2> QED
        BY <1>7, <2>1 DEF DbInv, LockHeld
<1>14. ReadsOwn'
    <2> SUFFICES ASSUME NEW d \in Connections, conns'[d].tx # 0, NEW rows \in txs'[conns'[d].tx].read
        PROVE  LET k == conns'[d] IN
               /\ 0 <= k.snapshot /\ (txs'[k.tx].whole => k.snapshot <= Len(rows))
               /\ Len(rows) <= k.snapshot + Len(k.writes)
               /\ \A q \in 1 .. Len(rows) :
                     rows[q] = IF q <= k.snapshot THEN file[q] ELSE k.writes[q - k.snapshot]
        BY <1>7, ZenonT(40) DEF ReadsOwn
    <2>1. d # c
        BY <1>3, <1>4, <1>5, <1>6
    <2>2. conns'[d] = conns[d] /\ txs'[conns[d].tx] = txs[conns[d].tx]
        BY <1>4, <1>11, <2>1
    <2> QED
        BY <2>2 DEF DbInv, ReadsOwn
<1>15. /\ \A i \in DOMAIN txs : Places(i)' = Places(i)
       /\ \A i : i = n => Places(i)' = {}
    <2>1. ASSUME NEW i \in DOMAIN txs PROVE Places(i)' = Places(i)
        BY <1>5 DEF Places
    <2>2. \A i : i = n => Places(i)' = {}
        BY <1>5, <1>6 DEF Places
    <2> QED
        BY <2>1, <2>2
<1>16. WritesAsTold'
    <2>1. InTx' = InTx
        BY <1>5, <1>6 DEF InTx
    <2>2. /\ IsInjective(file)' /\ ToSet(file)' \cap refused' = {}
          /\ acknowledged' \ InTx' \subseteq ToSet(file)'
        BY <2>1 DEF DbInv, WritesAsTold, IsInjective, ToSet
    <2>3. ASSUME NEW i \in DOMAIN txs'
          PROVE  /\ txs'[i].outcome = "returned" => txs'[i].execs \cap acknowledged' \subseteq ToSet(file)'
                 /\ txs'[i].outcome # "returned" => Places(i)' = {}
                 /\ \A p, q \in Places(i)' : p < q => p .. q \subseteq Places(i)' /\ file'[p] < file'[q]
        <3>1. CASE i \in DOMAIN txs
            <4>1. txs'[i] = txs[i] /\ Places(i)' = Places(i) /\ ToSet(file)' = ToSet(file)
                BY <1>5, <1>15, <3>1 DEF ToSet
            <4> QED
                BY <3>1, <4>1 DEF DbInv, WritesAsTold
        <3>2. CASE i = n
            BY <1>5, <1>6, <1>15, <3>2
        <3> QED
            BY <1>5, <3>1, <3>2
    <2> QED
        BY <2>2, <2>3 DEF WritesAsTold
<1>17. ReadsHold'
    <2>1. ASSUME NEW i \in DOMAIN txs', txs'[i].outcome = "returned", Places(i)' # {}
          PROVE  \E first \in Places(i)' :
                    /\ \A p \in Places(i)' : first <= p
                    /\ \A rows \in txs'[i].read : (txs'[i].whole => first - 1 <= Len(rows)) /\ IsPrefix(rows, file')
        <3>1. i \in DOMAIN txs /\ Places(i)' = Places(i) /\ txs'[i] = txs[i]
            BY <1>5, <1>6, <1>15, <2>1
        <3> QED
            BY <2>1, <3>1 DEF DbInv, ReadsHold
    <2> QED
        BY <2>1 DEF ReadsHold
<1> QED
    BY <1>8, <1>9, <1>10, <1>12, <1>13, <1>14, <1>16, <1>17 DEF DbInv

-----------------------------------------------------------------------------
(* The end of a transaction.                                               *)

\* The history after the end of the transaction of c, and who goes on.
LEMMA EndFrame ==
    ASSUME DbTypes, OneConnection, NEW c \in Connections, conns[c].tx # 0,
           NEW outcome \in Outcomes,
           conns' = [conns EXCEPT ![c] = Closed],
           txs' = [txs EXCEPT ![conns[c].tx].outcome = outcome]
    PROVE  /\ txs' \in Seq(Transaction) /\ Len(txs') = Len(txs) /\ DOMAIN txs' = DOMAIN txs
           /\ \A i \in DOMAIN txs :
                 /\ txs'[i].execs = txs[i].execs /\ txs'[i].read = txs[i].read
                 /\ txs'[i].whole = txs[i].whole
                 /\ i # conns[c].tx => txs'[i] = txs[i]
           /\ conns[c].tx \in DOMAIN txs /\ txs'[conns[c].tx].outcome = outcome
           /\ conns' \in [Connections -> Connection]
           /\ conns'[c].tx = 0 /\ conns'[c].writes = <<>> /\ conns'[c].snapshot = -1
           /\ conns'[c] = Closed
           /\ \A d \in Connections \ {c} :
                 /\ conns'[d] = conns[d]
                 /\ conns[d].tx # 0 => /\ conns[d].tx \in DOMAIN txs
                                      /\ conns[d].tx # conns[c].tx
                                      /\ txs'[conns[d].tx] = txs[conns[d].tx]
<1> DEFINE n == conns[c].tx
           t == [txs[n] EXCEPT !.outcome = outcome]
<1>1. n \in DOMAIN txs /\ txs[n] \in Transaction
    BY Typed DEF OneConnection
<1>2. t \in Transaction /\ t.execs = txs[n].execs /\ t.read = txs[n].read /\ t.whole = txs[n].whole
      /\ t.outcome = outcome
    BY <1>1 DEF Transaction
<1>3. txs' = [txs EXCEPT ![n] = t] /\ txs \in Seq(Transaction)
    BY <1>1, Typed
<1> HIDE DEF t
<1>4. /\ txs' \in Seq(Transaction) /\ Len(txs') = Len(txs) /\ DOMAIN txs' = DOMAIN txs
      /\ \A i \in DOMAIN txs : txs'[i] = IF i = n THEN t ELSE txs[i]
    BY <1>1, <1>2, <1>3
<1>5. Closed \in Connection /\ Closed.tx = 0 /\ Closed.writes = <<>> /\ Closed.snapshot = -1
    <2>1. <<>> \in Seq(Nat)
        OBVIOUS
    <2> QED
        BY <2>1 DEF Closed, Connection, NoSnapshot
<1>6. /\ conns' \in [Connections -> Connection] /\ conns'[c] = Closed
      /\ \A d \in Connections \ {c} : conns'[d] = conns[d]
    BY <1>5, Typed
<1>7. \A d \in Connections \ {c} : conns[d].tx # 0 => conns[d].tx \in DOMAIN txs /\ conns[d].tx # n
    BY DEF OneConnection
<1> HIDE DEF n
<1>8. \A i \in DOMAIN txs :
          txs'[i].execs = txs[i].execs /\ txs'[i].read = txs[i].read
          /\ txs'[i].whole = txs[i].whole /\ (i # n => txs'[i] = txs[i])
    BY <1>2, <1>4
<1>9. n \in DOMAIN txs /\ txs'[n].outcome = outcome
    BY <1>1, <1>2, <1>4
<1> QED
    BY <1>4, <1>5, <1>6, <1>7, <1>8, <1>9 DEF n

\* What the end of a transaction keeps, whatever becomes of its writes.
LEMMA EndKeeps ==
    ASSUME DbTypes, WritesKnown, OneConnection, WritesHeld, LockHeld, ReadsOwn,
           NEW c \in Connections, conns[c].tx # 0, NEW outcome \in Outcomes,
           conns' = [conns EXCEPT ![c] = Closed],
           txs' = [txs EXCEPT ![conns[c].tx].outcome = outcome],
           UNCHANGED <<began, written, acknowledged, refused>>,
           file' \in Seq(Nat), Len(file) <= Len(file'),
           \A p \in DOMAIN file : file'[p] = file[p],
           \A p \in DOMAIN file' : file'[p] \in acknowledged,
           \A d \in Connections \ {c} : conns[d].writes # <<>> => Len(file') = Len(file)
    PROVE  DbTypes' /\ WritesKnown' /\ OneConnection' /\ WritesHeld' /\ LockHeld' /\ ReadsOwn'
<1>1. DbTypes'
    BY EndFrame DEF DbTypes
<1>2. WritesKnown'
    <2>1. DOMAIN txs' = DOMAIN txs /\ \A i \in DOMAIN txs : txs'[i].execs = txs[i].execs
        BY EndFrame
    <2> QED
        BY <2>1 DEF WritesKnown
<1>3. Connections' = Connections /\ Closed' = Closed
    BY DEF Connections, Closed, NoSnapshot
<1>4. /\ conns'[c] = Closed /\ conns'[c].tx = 0 /\ conns'[c].writes = <<>> /\ conns'[c].snapshot = -1
      /\ \A d \in Connections \ {c} : conns'[d] = conns[d]
      /\ DOMAIN txs' = DOMAIN txs
      /\ \A d \in Connections \ {c} : conns[d].tx # 0 => txs'[conns[d].tx] = txs[conns[d].tx]
    BY EndFrame
<1>5. OneConnection'
    <2>1. ASSUME NEW d \in Connections
          PROVE  IF conns'[d].tx = 0 THEN conns'[d] = Closed
                 ELSE /\ conns'[d].sqlite
                      /\ conns'[d].tx \in DOMAIN txs' /\ txs'[conns'[d].tx].outcome # "returned"
        <3>1. CASE d = c
            BY <1>4, <3>1
        <3>2. CASE d # c
            <4>1. conns'[d] = conns[d]
                BY <1>4, <3>2
            <4>2. IF conns[d].tx = 0 THEN conns[d] = Closed
                  ELSE /\ conns[d].sqlite
                       /\ conns[d].tx \in DOMAIN txs /\ txs[conns[d].tx].outcome # "returned"
                BY DEF OneConnection
            <4> QED
                BY <1>4, <3>2, <4>1, <4>2
        <3> QED
            BY <3>1, <3>2
    <2>2. ASSUME NEW d \in Connections, NEW e \in Connections, d # e, conns'[d].tx = conns'[e].tx
          PROVE  conns'[d].tx = 0
        <3>1. CASE d = c \/ e = c
            BY <1>4, <2>2, <3>1
        <3>2. CASE d # c /\ e # c
            BY <1>4, <2>2, <3>2 DEF OneConnection
        <3> QED
            BY <3>1, <3>2
    <2> QED
        BY <1>3, <2>1, <2>2 DEF OneConnection
<1>6. WritesHeld'
    <2> SUFFICES ASSUME NEW d \in Connections, conns'[d].tx # 0
        PROVE /\ \A q \in DOMAIN conns'[d].writes :
                  conns'[d].writes[q] \in txs'[conns'[d].tx].execs \cap acknowledged
              /\ \A x \in txs'[conns'[d].tx].execs \cap acknowledged :
                    \E q \in DOMAIN conns'[d].writes : conns'[d].writes[q] = x
              /\ \A p, q \in DOMAIN conns'[d].writes : p < q => conns'[d].writes[p] < conns'[d].writes[q]
        BY <1>3 DEF WritesHeld
    <2>1. d # c
        BY <1>4
    <2>2. conns'[d] = conns[d] /\ conns[d].tx # 0 /\ txs'[conns[d].tx] = txs[conns[d].tx]
        BY <1>4, <2>1
    <2> QED
        BY <2>2 DEF WritesHeld
<1>7. LockHeld'
    <2>0. Len(file) \in Nat /\ Len(file') \in Nat
        BY Typed
    <2>1. ASSUME NEW d \in Connections
          PROVE  /\ -1 <= conns'[d].snapshot /\ conns'[d].snapshot <= Len(file')
                 /\ conns'[d].writes # <<>> =>
                       /\ conns'[d].snapshot = Len(file')
                       /\ \A e \in Connections \ {d} : conns'[e].writes = <<>>
        <3>1. CASE d = c
            BY <1>4, <2>0, <3>1
        <3>2. CASE d # c
            <4>1. conns'[d] = conns[d]
                BY <1>4, <3>2
            <4>2. conns[d].snapshot \in Int /\ -1 <= conns[d].snapshot /\ conns[d].snapshot <= Len(file)
                BY Typed DEF LockHeld
            <4>3. ASSUME conns[d].writes # <<>>
                  PROVE  /\ conns[d].snapshot = Len(file')
                         /\ \A e \in Connections \ {d} : conns'[e].writes = <<>>
                <5>1. /\ conns[d].snapshot = Len(file)
                      /\ \A e \in Connections \ {d} : conns[e].writes = <<>>
                    BY <4>3 DEF LockHeld
                <5>2. \A e \in Connections \ {d} : conns'[e].writes = <<>>
                    BY <1>4, <5>1
                <5> QED
                    BY <3>2, <4>3, <5>1, <5>2
            <4> QED
                BY <2>0, <4>1, <4>2, <4>3
        <3> QED
            BY <3>1, <3>2
    <2> QED
        BY <1>3, <2>1 DEF LockHeld
<1>8. ReadsOwn'
    <2> SUFFICES ASSUME NEW d \in Connections, conns'[d].tx # 0, NEW rows \in txs'[conns'[d].tx].read
        PROVE  LET k == conns'[d] IN
               /\ 0 <= k.snapshot /\ (txs'[k.tx].whole => k.snapshot <= Len(rows))
               /\ Len(rows) <= k.snapshot + Len(k.writes)
               /\ \A q \in 1 .. Len(rows) :
                     rows[q] = IF q <= k.snapshot THEN file'[q] ELSE k.writes[q - k.snapshot]
        BY <1>3 DEF ReadsOwn
    <2>1. d # c
        BY <1>4
    <2>2. conns'[d] = conns[d] /\ conns[d].tx # 0 /\ txs'[conns[d].tx] = txs[conns[d].tx]
        BY <1>4, <2>1
    <2>3. /\ 0 <= conns[d].snapshot /\ (txs[conns[d].tx].whole => conns[d].snapshot <= Len(rows))
          /\ Len(rows) <= conns[d].snapshot + Len(conns[d].writes)
          /\ \A q \in 1 .. Len(rows) :
                 rows[q] = IF q <= conns[d].snapshot THEN file[q] ELSE conns[d].writes[q - conns[d].snapshot]
        BY <2>2 DEF ReadsOwn
    <2>4. conns[d].snapshot \in Int /\ conns[d].snapshot <= Len(file) /\ DOMAIN file = 1 .. Len(file)
          /\ Len(file) \in Nat
        BY Typed DEF LockHeld
    <2>5. ASSUME NEW q \in 1 .. Len(rows), q <= conns[d].snapshot PROVE file'[q] = file[q]
        <3>1. q \in DOMAIN file
            BY <2>4, <2>5
        <3> QED
            BY <3>1
    <2> QED
        BY <2>2, <2>3, <2>5
<1> QED
    BY <1>1, <1>2, <1>5, <1>6, <1>7, <1>8

\* A transaction that is given up leaves the file as it was.
LEMMA DropStep ==
    ASSUME DbInv, NEW c \in Connections, conns[c].tx # 0, NEW outcome \in Outcomes \ {"returned"},
           conns' = [conns EXCEPT ![c] = Closed],
           txs' = [txs EXCEPT ![conns[c].tx].outcome = outcome],
           UNCHANGED <<file, began, written, acknowledged, refused>>
    PROVE  DbInv'
<1>0. outcome \in Outcomes /\ outcome # "returned"
    BY DEF Outcomes
<1>1. /\ DbTypes /\ WritesKnown /\ OneConnection /\ WritesHeld /\ LockHeld /\ ReadsOwn
      /\ WritesAsTold /\ ReadsHold
    BY DEF DbInv
<1>2. DbTypes' /\ WritesKnown' /\ OneConnection' /\ WritesHeld' /\ LockHeld' /\ ReadsOwn'
    <2>1. file' \in Seq(Nat) /\ Len(file) <= Len(file') /\ Len(file') = Len(file)
        BY <1>1, Typed
    <2>2. \A p \in DOMAIN file' : file'[p] \in acknowledged
        BY <1>1 DEF WritesKnown
    <2> QED
        BY <1>0, <1>1, <2>1, <2>2, EndKeeps
<1>3. /\ DOMAIN txs' = DOMAIN txs /\ txs'[conns[c].tx].outcome = outcome
      /\ conns[c].tx \in DOMAIN txs /\ txs[conns[c].tx].outcome # "returned"
      /\ \A i \in DOMAIN txs : /\ txs'[i].execs = txs[i].execs /\ txs'[i].read = txs[i].read
                              /\ i # conns[c].tx => txs'[i] = txs[i]
    BY <1>0, <1>1, EndFrame DEF OneConnection
<1>4. \A i \in DOMAIN txs : Places(i)' = Places(i)
    BY <1>3 DEF Places
<1>5. WritesAsTold'
    <2>1. InTx' = InTx
        BY <1>3 DEF InTx
    <2>2. /\ IsInjective(file)' /\ ToSet(file)' \cap refused' = {}
          /\ acknowledged' \ InTx' \subseteq ToSet(file)'
        BY <1>1, <2>1 DEF WritesAsTold, IsInjective, ToSet
    <2>3. ASSUME NEW i \in DOMAIN txs'
          PROVE  /\ txs'[i].outcome = "returned" => txs'[i].execs \cap acknowledged' \subseteq ToSet(file)'
                 /\ txs'[i].outcome # "returned" => Places(i)' = {}
                 /\ \A p, q \in Places(i)' : p < q => p .. q \subseteq Places(i)' /\ file'[p] < file'[q]
        <3>1. Places(i)' = Places(i) /\ ToSet(file)' = ToSet(file) /\ i \in DOMAIN txs
            BY <1>3, <1>4, <2>3 DEF ToSet
        <3>2. CASE i = conns[c].tx
            <4>1. Places(i) = {}
                BY <1>1, <1>3, <3>2 DEF WritesAsTold
            <4> QED
                BY <1>0, <1>3, <3>1, <3>2, <4>1
        <3>3. CASE i # conns[c].tx
            <4>1. txs'[i] = txs[i]
                BY <1>3, <3>1, <3>3
            <4>2. /\ txs[i].outcome = "returned" => txs[i].execs \cap acknowledged \subseteq ToSet(file)
                  /\ txs[i].outcome # "returned" => Places(i) = {}
                  /\ \A p, q \in Places(i) : p < q => p .. q \subseteq Places(i) /\ file[p] < file[q]
                BY <1>1, <3>1 DEF WritesAsTold
            <4>3. file' = file /\ acknowledged' = acknowledged
                OBVIOUS
            <4>4. txs'[i].outcome = "returned" => txs'[i].execs \cap acknowledged' \subseteq ToSet(file)'
                BY <3>1, <4>1, <4>2, <4>3
            <4>5. txs'[i].outcome # "returned" => Places(i)' = {}
                BY <3>1, <4>1, <4>2
            <4>6. \A p, q \in Places(i)' : p < q => p .. q \subseteq Places(i)' /\ file'[p] < file'[q]
                BY <3>1, <4>2, <4>3
            <4> QED
                BY <4>4, <4>5, <4>6
        <3> QED
            BY <3>2, <3>3
    <2> QED
        BY <2>2, <2>3 DEF WritesAsTold
<1>6. ReadsHold'
    <2>1. ASSUME NEW i \in DOMAIN txs', txs'[i].outcome = "returned", Places(i)' # {}
          PROVE  \E first \in Places(i)' :
                    /\ \A p \in Places(i)' : first <= p
                    /\ \A rows \in txs'[i].read : (txs'[i].whole => first - 1 <= Len(rows)) /\ IsPrefix(rows, file')
        <3>1. i \in DOMAIN txs /\ Places(i)' = Places(i) /\ txs'[i] = txs[i]
            BY <1>0, <1>3, <1>4, <2>1
        <3> QED
            BY <1>1, <2>1, <3>1 DEF ReadsHold
    <2> QED
        BY <2>1 DEF ReadsHold
<1> QED
    BY <1>2, <1>5, <1>6 DEF DbInv

\* A COMMIT that fails and leaves SQLite's transaction open: what it has written
\* stays on the connection.
LEMMA LeftOpenStep ==
    ASSUME DbInv, NEW c \in Connections, conns[c].tx # 0,
           conns' = [conns EXCEPT ![c].in_transaction = FALSE],
           txs' = [txs EXCEPT ![conns[c].tx].outcome = "nil"],
           UNCHANGED <<file, began, written, acknowledged, refused>>
    PROVE  DbInv'
<1> DEFINE n == conns[c].tx
<1>1. /\ DbTypes /\ WritesKnown /\ OneConnection /\ WritesHeld /\ LockHeld /\ ReadsOwn
      /\ WritesAsTold /\ ReadsHold
    BY DEF DbInv
<1>2. /\ conns' \in [Connections -> Connection]
      /\ \A d \in Connections :
            /\ conns'[d].tx = conns[d].tx /\ conns'[d].writes = conns[d].writes
            /\ conns'[d].sqlite = conns[d].sqlite /\ conns'[d].snapshot = conns[d].snapshot
            /\ conns[d].tx = 0 => conns'[d] = conns[d]
    <2> DEFINE k == [conns[c] EXCEPT !.in_transaction = FALSE]
    <2>1. conns[c] \in Connection /\ conns \in [Connections -> Connection]
        BY <1>1, Typed
    <2>2. /\ k \in Connection /\ k.tx = conns[c].tx /\ k.writes = conns[c].writes
          /\ k.sqlite = conns[c].sqlite /\ k.snapshot = conns[c].snapshot
        BY <2>1 DEF Connection
    <2>3. conns' = [conns EXCEPT ![c] = k]
        BY <2>1
    <2> HIDE DEF k
    <2> QED
        BY <2>1, <2>2, <2>3
<1>3. /\ txs' \in Seq(Transaction) /\ Len(txs') = Len(txs) /\ DOMAIN txs' = DOMAIN txs
      /\ n \in DOMAIN txs
      /\ \A i \in DOMAIN txs :
            /\ txs'[i].execs = txs[i].execs /\ txs'[i].read = txs[i].read /\ txs'[i].whole = txs[i].whole
            /\ txs'[i].outcome = IF i = n THEN "nil" ELSE txs[i].outcome
    <2> DEFINE t == [txs[n] EXCEPT !.outcome = "nil"]
    <2>1. n \in DOMAIN txs /\ txs[n] \in Transaction /\ txs \in Seq(Transaction)
        BY <1>1, Typed DEF OneConnection
    <2>2. /\ t \in Transaction /\ t.execs = txs[n].execs /\ t.read = txs[n].read
          /\ t.whole = txs[n].whole /\ t.outcome = "nil"
        BY <2>1 DEF Transaction, Outcomes
    <2>3. txs' = [txs EXCEPT ![n] = t]
        BY <2>1
    <2> HIDE DEF t
    <2>4. /\ txs' \in Seq(Transaction) /\ Len(txs') = Len(txs) /\ DOMAIN txs' = DOMAIN txs
          /\ \A i \in DOMAIN txs : txs'[i] = IF i = n THEN t ELSE txs[i]
        BY <2>1, <2>2, <2>3
    <2> QED
        BY <2>1, <2>2, <2>4
<1>4. txs[n].outcome # "returned" /\ Places(n) = {}
    BY <1>1, <1>3 DEF OneConnection, WritesAsTold
<1>5. Connections' = Connections /\ Closed' = Closed
    BY DEF Connections, Closed, NoSnapshot
<1> HIDE DEF n
<1>6. DbTypes'
    BY <1>1, <1>2, <1>3 DEF DbTypes
<1>7. WritesKnown'
    BY <1>1, <1>3, ZenonT(40) DEF WritesKnown
<1>8. OneConnection'
    <2>1. ASSUME NEW d \in Connections
          PROVE  IF conns'[d].tx = 0 THEN conns'[d] = Closed
                 ELSE /\ conns'[d].sqlite
                      /\ conns'[d].tx \in DOMAIN txs' /\ txs'[conns'[d].tx].outcome # "returned"
        <3>1. CASE conns[d].tx = 0
            BY <1>1, <1>2, <3>1 DEF OneConnection
        <3>2. CASE conns[d].tx # 0
            <4>1. /\ conns[d].sqlite /\ conns[d].tx \in DOMAIN txs
                  /\ txs[conns[d].tx].outcome # "returned"
                BY <1>1, <3>2 DEF OneConnection
            <4>2. txs'[conns[d].tx].outcome # "returned"
                BY <1>3, <4>1
            <4> QED
                BY <1>2, <1>3, <3>2, <4>1, <4>2
        <3> QED
            BY <3>1, <3>2
    <2>2. \A d, e \in Connections : d # e /\ conns'[d].tx = conns'[e].tx => conns'[d].tx = 0
        BY <1>1, <1>2 DEF OneConnection
    <2> QED
        BY <1>5, <2>1, <2>2 DEF OneConnection
<1>9. ASSUME NEW d \in Connections, conns'[d].tx # 0
      PROVE  /\ conns[d].tx # 0 /\ conns'[d].tx = conns[d].tx
             /\ conns'[d].writes = conns[d].writes /\ conns'[d].snapshot = conns[d].snapshot
             /\ txs'[conns'[d].tx].execs = txs[conns[d].tx].execs
             /\ txs'[conns'[d].tx].read = txs[conns[d].tx].read
             /\ txs'[conns'[d].tx].whole = txs[conns[d].tx].whole
    <2>1. conns[d].tx \in DOMAIN txs
        BY <1>1, <1>2, <1>9 DEF OneConnection
    <2> QED
        BY <1>2, <1>3, <1>9, <2>1
<1>10. WritesHeld'
    BY <1>1, <1>5, <1>9 DEF WritesHeld
<1>11. LockHeld'
    BY <1>1, <1>2, <1>5 DEF LockHeld
<1>12. ReadsOwn'
    <2> SUFFICES ASSUME NEW d \in Connections, conns'[d].tx # 0, NEW rows \in txs'[conns'[d].tx].read
        PROVE  LET k == conns'[d] IN
               /\ 0 <= k.snapshot /\ (txs'[k.tx].whole => k.snapshot <= Len(rows))
               /\ Len(rows) <= k.snapshot + Len(k.writes)
               /\ \A q \in 1 .. Len(rows) :
                     rows[q] = IF q <= k.snapshot THEN file[q] ELSE k.writes[q - k.snapshot]
        BY <1>5 DEF ReadsOwn
    <2> QED
        BY <1>1, <1>9 DEF ReadsOwn
<1>13. \A i \in DOMAIN txs : Places(i)' = Places(i)
    BY <1>3 DEF Places
<1>14. WritesAsTold'
    <2>1. InTx' = InTx
        BY <1>3 DEF InTx
    <2>2. /\ IsInjective(file)' /\ ToSet(file)' \cap refused' = {}
          /\ acknowledged' \ InTx' \subseteq ToSet(file)'
        BY <1>1, <2>1 DEF WritesAsTold, IsInjective, ToSet
    <2>3. ASSUME NEW i \in DOMAIN txs'
          PROVE  /\ txs'[i].outcome = "returned" => txs'[i].execs \cap acknowledged' \subseteq ToSet(file)'
                 /\ txs'[i].outcome # "returned" => Places(i)' = {}
                 /\ \A p, q \in Places(i)' : p < q => p .. q \subseteq Places(i)' /\ file'[p] < file'[q]
        <3>1. Places(i)' = Places(i) /\ ToSet(file)' = ToSet(file) /\ i \in DOMAIN txs
            BY <1>3, <1>13, <2>3 DEF ToSet
        <3>2. CASE i = n
            BY <1>3, <1>4, <3>1, <3>2
        <3>3. CASE i # n
            <4>1. txs'[i].execs = txs[i].execs /\ txs'[i].outcome = txs[i].outcome
                BY <1>3, <3>1, <3>3
            <4>2. /\ txs[i].outcome = "returned" => txs[i].execs \cap acknowledged \subseteq ToSet(file)
                  /\ txs[i].outcome # "returned" => Places(i) = {}
                  /\ \A p, q \in Places(i) : p < q => p .. q \subseteq Places(i) /\ file[p] < file[q]
                BY <1>1, <3>1 DEF WritesAsTold
            <4> QED
                BY <3>1, <4>1, <4>2, ZenonT(40)
        <3> QED
            BY <3>2, <3>3
    <2> QED
        BY <2>2, <2>3 DEF WritesAsTold
<1>15. ReadsHold'
    <2>1. ASSUME NEW i \in DOMAIN txs', txs'[i].outcome = "returned", Places(i)' # {}
          PROVE  \E first \in Places(i)' :
                    /\ \A p \in Places(i)' : first <= p
                    /\ \A rows \in txs'[i].read : (txs'[i].whole => first - 1 <= Len(rows)) /\ IsPrefix(rows, file')
        <3>1. /\ i \in DOMAIN txs /\ Places(i)' = Places(i) /\ txs[i].outcome = "returned"
              /\ txs'[i].read = txs[i].read /\ txs'[i].whole = txs[i].whole
            BY <1>3, <1>13, <2>1
        <3> QED
            BY <1>1, <2>1, <3>1 DEF ReadsHold
    <2> QED
        BY <2>1 DEF ReadsHold
<1> QED
    BY <1>6, <1>7, <1>8, <1>10, <1>11, <1>12, <1>14, <1>15 DEF DbInv

\* The file after a commit.
LEMMA CommitFile ==
    ASSUME DbInv, NEW c \in Connections, conns[c].tx # 0, file' = file \o conns[c].writes
    PROVE  LET n == conns[c].tx
               w == conns[c].writes
           IN  /\ file' \in Seq(Nat) /\ Len(file') = Len(file) + Len(w)
               /\ DOMAIN file' = 1 .. (Len(file) + Len(w))
               /\ \A p \in DOMAIN file : p \in DOMAIN file' /\ file'[p] = file[p]
               /\ \A q \in 1 .. Len(w) :
                     /\ Len(file) + q \in DOMAIN file' \ DOMAIN file /\ file'[Len(file) + q] = w[q]
                     /\ w[q] \in txs[n].execs \cap acknowledged
               /\ \A p \in DOMAIN file' \ DOMAIN file :
                     p - Len(file) \in 1 .. Len(w) /\ file'[p] = w[p - Len(file)]
               /\ \A p \in DOMAIN file : file[p] \notin txs[n].execs
<1> DEFINE n == conns[c].tx
           w == conns[c].writes
<1>1. DbTypes /\ OneConnection /\ WritesHeld /\ WritesAsTold
    BY DEF DbInv
<1>2. /\ file \in Seq(Nat) /\ Len(file) \in Nat /\ DOMAIN file = 1 .. Len(file)
      /\ w \in Seq(Nat) /\ Len(w) \in Nat /\ DOMAIN w = 1 .. Len(w)
    <2>1. file \in Seq(Nat) /\ w \in Seq(Nat)
        BY <1>1, Typed
    <2> QED
        BY <2>1
<1>3. \A q \in 1 .. Len(w) : w[q] \in txs[n].execs \cap acknowledged
    BY <1>1, <1>2 DEF WritesHeld
<1>4. \A p \in DOMAIN file : file[p] \notin txs[n].execs
    <2>1. n \in DOMAIN txs /\ txs[n].outcome # "returned"
        BY <1>1 DEF OneConnection
    <2>2. Places(n) = {}
        BY <1>1, <2>1 DEF WritesAsTold
    <2> QED
        BY <2>2 DEF Places
<1> HIDE DEF n, w
<1>5. file' = file \o w
    BY DEF w
<1>6. /\ file' \in Seq(Nat) /\ Len(file') = Len(file) + Len(w)
      /\ \A q \in 1 .. Len(file') : file'[q] = IF q <= Len(file) THEN file[q] ELSE w[q - Len(file)]
    BY <1>2, <1>5, ConcatProperties
<1>7. DOMAIN file' = 1 .. (Len(file) + Len(w))
    BY <1>6
<1>8. \A p \in DOMAIN file : p \in DOMAIN file' /\ file'[p] = file[p]
    BY <1>2, <1>6, <1>7
<1>9. \A p \in DOMAIN file' \ DOMAIN file : p - Len(file) \in 1 .. Len(w) /\ file'[p] = w[p - Len(file)]
    BY <1>2, <1>6, <1>7
<1>10. \A q \in 1 .. Len(w) : Len(file) + q \in DOMAIN file' \ DOMAIN file /\ file'[Len(file) + q] = w[q]
    <2>1. ASSUME NEW q \in 1 .. Len(w)
          PROVE  /\ Len(file) + q \in DOMAIN file' \ DOMAIN file
                 /\ (Len(file) + q) - Len(file) = q
        BY <1>2, <1>7, <2>1
    <2> QED
        BY <1>9, <2>1
<1> QED
    BY <1>3, <1>4, <1>6, <1>7, <1>8, <1>9, <1>10 DEF n, w

LEMMA DbCommitStep ==
    ASSUME DbInv, NEW c \in Connections, conns[c].tx # 0,
           file' = file \o conns[c].writes,
           conns' = [conns EXCEPT ![c] = Closed],
           txs' = [txs EXCEPT ![conns[c].tx].outcome = "returned"],
           UNCHANGED <<began, written, acknowledged, refused>>
    PROVE  DbInv'
<1> DEFINE n == conns[c].tx
           w == conns[c].writes
           L == Len(file)
<1>0. "returned" \in Outcomes
    BY DEF Outcomes
<1>1. /\ DbTypes /\ WritesKnown /\ OneConnection /\ WritesHeld /\ LockHeld /\ ReadsOwn
      /\ WritesAsTold /\ ReadsHold
    BY DEF DbInv
<1>2. /\ file \in Seq(Nat) /\ L \in Nat /\ DOMAIN file = 1 .. L
      /\ w \in Seq(Nat) /\ Len(w) \in Nat /\ DOMAIN w = 1 .. Len(w)
    <2>1. file \in Seq(Nat) /\ w \in Seq(Nat)
        BY <1>1, Typed
    <2> QED
        BY <2>1
<1>3. /\ file' \in Seq(Nat) /\ Len(file') = L + Len(w) /\ DOMAIN file' = 1 .. (L + Len(w))
      /\ \A p \in DOMAIN file : p \in DOMAIN file' /\ file'[p] = file[p]
      /\ \A q \in 1 .. Len(w) :
            /\ L + q \in DOMAIN file' \ DOMAIN file /\ file'[L + q] = w[q]
            /\ w[q] \in txs[n].execs \cap acknowledged
      /\ \A p \in DOMAIN file' \ DOMAIN file : p - L \in 1 .. Len(w) /\ file'[p] = w[p - L]
      /\ \A p \in DOMAIN file : file[p] \notin txs[n].execs
    BY CommitFile
<1>4. /\ DOMAIN txs' = DOMAIN txs /\ n \in DOMAIN txs
      /\ \A i \in DOMAIN txs : /\ txs'[i].execs = txs[i].execs /\ txs'[i].read = txs[i].read
                              /\ txs'[i].whole = txs[i].whole
                              /\ i # n => txs'[i] = txs[i]
    BY <1>0, <1>1, EndFrame
<1>5. /\ \A id \in txs[n].execs \cap acknowledged : \E q \in 1 .. Len(w) : w[q] = id
      /\ \A p, q \in 1 .. Len(w) : p < q => w[p] < w[q]
    BY <1>1, <1>2 DEF WritesHeld
<1>6. w # <<>> => conns[c].snapshot = L /\ \A d \in Connections \ {c} : conns[d].writes = <<>>
    BY <1>1 DEF LockHeld
<1>7. \A rows \in txs[n].read :
          /\ rows \in Seq(Nat)
          /\ txs[n].whole => conns[c].snapshot <= Len(rows)
          /\ Len(rows) <= conns[c].snapshot + Len(w)
          /\ \A q \in 1 .. Len(rows) :
                 rows[q] = IF q <= conns[c].snapshot THEN file[q] ELSE w[q - conns[c].snapshot]
    BY <1>1, <1>4, Typed DEF ReadsOwn
<1>8. DbTypes' /\ WritesKnown' /\ OneConnection' /\ WritesHeld' /\ LockHeld' /\ ReadsOwn'
    <2>1. \A p \in DOMAIN file' : file'[p] \in acknowledged
        BY <1>1, <1>3, SMTT(30) DEF WritesKnown
    <2>2. Len(file) <= Len(file')
        BY <1>2, <1>3
    <2>3. \A d \in Connections \ {c} : conns[d].writes # <<>> => Len(file') = Len(file)
        <3> SUFFICES ASSUME NEW d \in Connections \ {c}, conns[d].writes # <<>>
                     PROVE  Len(file') = Len(file)
            OBVIOUS
        <3>1. w = <<>>
            BY <1>6
        <3>2. Len(w) = 0
            BY <3>1
        <3>3. Len(file') = Len(file) + Len(w)
            BY <1>3
        <3>4. Len(file) + 0 = Len(file)
            BY <1>2
        <3> QED
            BY <3>2, <3>3, <3>4, Zenon
    <2> QED
        BY <1>0, <1>1, <1>3, <2>1, <2>2, <2>3, EndKeeps
<1>9. ToSet(file) \subseteq ToSet(file')
    BY <1>3 DEF ToSet
<1> HIDE DEF n, w, L
<1>10. \A i \in DOMAIN txs : i # n => Places(i)' = Places(i)
    <2> SUFFICES ASSUME NEW i \in DOMAIN txs, i # n PROVE Places(i)' = Places(i)
        OBVIOUS
    <2>1. txs'[i].execs = txs[i].execs
        BY <1>4
    <2>2. txs[i].execs \cap txs[n].execs = {}
        BY <1>1, <1>4 DEF WritesKnown
    <2>3. \A p \in DOMAIN file' \ DOMAIN file : file'[p] \notin txs[i].execs
        BY <1>3, <2>2
    <2>4. \A p : p \in Places(i)' <=> p \in DOMAIN file' /\ file'[p] \in txs[i].execs
        BY <2>1 DEF Places
    <2>5. \A p : p \in Places(i) <=> p \in DOMAIN file /\ file[p] \in txs[i].execs
        BY DEF Places
    <2>6. \A p : p \in Places(i)' <=> p \in Places(i)
        <3>1. ASSUME NEW p, p \in Places(i)' PROVE p \in Places(i)
            <4>1. p \in DOMAIN file' /\ file'[p] \in txs[i].execs
                BY <2>4, <3>1
            <4>2. p \in DOMAIN file
                BY <2>3, <4>1
            <4>3. file'[p] = file[p]
                BY <1>3, <4>2
            <4> QED
                BY <2>5, <4>1, <4>2, <4>3
        <3>2. ASSUME NEW p, p \in Places(i) PROVE p \in Places(i)'
            <4>1. p \in DOMAIN file /\ file[p] \in txs[i].execs
                BY <2>5, <3>2
            <4>2. p \in DOMAIN file' /\ file'[p] = file[p]
                BY <1>3, <4>1
            <4> QED
                BY <2>4, <4>1, <4>2
        <3> QED
            BY <3>1, <3>2
    <2>7. Places(i)' \subseteq Places(i) /\ Places(i) \subseteq Places(i)'
        BY <2>6
    <2> QED
        BY <2>7
<1>11. \A i : i = n => \A p : p \in Places(i)' <=> p \in (L + 1) .. (L + Len(w))
    <2> SUFFICES ASSUME NEW i, i = n, NEW p
                 PROVE  p \in Places(i)' <=> p \in (L + 1) .. (L + Len(w))
        OBVIOUS
    <2>1. p \in Places(i)' <=> p \in DOMAIN file' /\ file'[p] \in txs[n].execs
        BY <1>4 DEF Places
    <2>2. p \in DOMAIN file' /\ file'[p] \in txs[n].execs <=> p \in DOMAIN file' \ DOMAIN file
        BY <1>3
    <2>3. p \in DOMAIN file' \ DOMAIN file <=> p \in (L + 1) .. (L + Len(w))
        BY <1>2, <1>3
    <2> QED
        BY <2>1, <2>2, <2>3
<1>12. IsInjective(file')
    <2> SUFFICES ASSUME NEW p \in DOMAIN file', NEW q \in DOMAIN file', file'[p] = file'[q] PROVE p = q
        BY DEF IsInjective
    <2>1. CASE p \in DOMAIN file /\ q \in DOMAIN file
        BY <1>1, <1>3, <2>1 DEF WritesAsTold, IsInjective
    <2>2. CASE p \in DOMAIN file <=> q \notin DOMAIN file
        <3>1. \A r \in DOMAIN file : file'[r] \notin txs[n].execs
            BY <1>3
        <3>2. \A r \in DOMAIN file' \ DOMAIN file : file'[r] \in txs[n].execs
            BY <1>3
        <3> QED
            BY <2>2, <3>1, <3>2
    <2>3. CASE p \notin DOMAIN file /\ q \notin DOMAIN file
        <3>1. /\ p - L \in 1 .. Len(w) /\ q - L \in 1 .. Len(w) /\ w[p - L] = w[q - L]
            BY <1>3, <2>3
        <3>2. w[p - L] \in Nat /\ w[q - L] \in Nat
            BY <1>2, <3>1
        <3>3. ~(p - L < q - L) /\ ~(q - L < p - L)
            BY <1>5, <3>1, <3>2
        <3> QED
            BY <1>2, <1>3, <3>1, <3>3
    <2> QED
        BY <2>1, <2>2, <2>3
<1>13. WritesAsTold'
    <2>1. InTx' = InTx
        BY <1>4 DEF InTx
    <2>2. ToSet(file') \cap refused' = {}
        BY <1>8 DEF WritesKnown, ToSet
    <2>3. acknowledged' \ InTx' \subseteq ToSet(file')
        BY <1>1, <1>9, <2>1 DEF WritesAsTold
    <2>4. ASSUME NEW i \in DOMAIN txs'
          PROVE  /\ txs'[i].outcome = "returned" => txs'[i].execs \cap acknowledged' \subseteq ToSet(file')
                 /\ txs'[i].outcome # "returned" => Places(i)' = {}
                 /\ \A p, q \in Places(i)' : p < q => p .. q \subseteq Places(i)' /\ file'[p] < file'[q]
        <3>1. i \in DOMAIN txs
            BY <1>4, <2>4
        <3>2. CASE i = n
            <4>1. txs'[i].execs \cap acknowledged' \subseteq ToSet(file')
                <5> SUFFICES ASSUME NEW id \in txs[n].execs \cap acknowledged PROVE id \in ToSet(file')
                    BY <1>4, <3>2
                <5>1. PICK q \in 1 .. Len(w) : w[q] = id
                    BY <1>5
                <5>2. L + q \in DOMAIN file' /\ file'[L + q] = id
                    BY <1>3, <5>1
                <5> QED
                    BY <5>2 DEF ToSet
            <4>2. txs'[i].outcome = "returned"
                BY <1>0, <1>1, <3>2, EndFrame DEF n
            <4>3. ASSUME NEW p \in Places(i)', NEW q \in Places(i)', p < q
                  PROVE  p .. q \subseteq Places(i)' /\ file'[p] < file'[q]
                <5>1. p \in (L + 1) .. (L + Len(w)) /\ q \in (L + 1) .. (L + Len(w))
                    BY <1>11, <3>2, <4>3
                <5>2. \A r \in p .. q : r \in (L + 1) .. (L + Len(w))
                    BY <1>2, <5>1
                <5>3. p .. q \subseteq Places(i)'
                    BY <1>11, <3>2, <5>2
                <5>4. p \in DOMAIN file' \ DOMAIN file /\ q \in DOMAIN file' \ DOMAIN file
                    BY <1>2, <1>3, <5>1
                <5>5. /\ p - L \in 1 .. Len(w) /\ q - L \in 1 .. Len(w)
                      /\ file'[p] = w[p - L] /\ file'[q] = w[q - L]
                    BY <1>3, <5>4
                <5>6. p - L < q - L
                    BY <1>2, <4>3, <5>1
                <5> QED
                    BY <1>5, <5>3, <5>5, <5>6
            <4> QED
                BY <4>1, <4>2, <4>3
        <3>3. CASE i # n
            <4>1. Places(i)' = Places(i) /\ txs'[i] = txs[i]
                BY <1>4, <1>10, <3>1, <3>3
            <4>2. /\ txs[i].outcome = "returned" => txs[i].execs \cap acknowledged \subseteq ToSet(file)
                  /\ txs[i].outcome # "returned" => Places(i) = {}
                  /\ \A p, q \in Places(i) : p < q => p .. q \subseteq Places(i) /\ file[p] < file[q]
                BY <1>1, <3>1 DEF WritesAsTold
            <4>3. \A p \in Places(i) : file'[p] = file[p]
                BY <1>3 DEF Places
            <4> QED
                BY <1>9, <4>1, <4>2, <4>3, ZenonT(40)
        <3> QED
            BY <3>2, <3>3
    <2> QED
        BY <1>12, <2>2, <2>3, <2>4 DEF WritesAsTold
<1>14. ReadsHold'
    <2>1. ASSUME NEW i \in DOMAIN txs', txs'[i].outcome = "returned", Places(i)' # {}
          PROVE  \E first \in Places(i)' :
                    /\ \A p \in Places(i)' : first <= p
                    /\ \A rows \in txs'[i].read : (txs'[i].whole => first - 1 <= Len(rows)) /\ IsPrefix(rows, file')
        <3>1. i \in DOMAIN txs
            BY <1>4, <2>1
        <3>2. CASE i = n
            <4>1. w # <<>> /\ Len(w) # 0
                <5>1. \E p : p \in (L + 1) .. (L + Len(w))
                    BY <1>11, <2>1, <3>2
                <5>2. Len(w) # 0
                    BY <1>2, <5>1
                <5> QED
                    BY <5>2
            <4>2. L + 1 \in (L + 1) .. (L + Len(w))
                BY <1>2, <4>1
            <4>3. L + 1 \in Places(i)' /\ \A p \in Places(i)' : L + 1 <= p
                BY <1>2, <1>11, <3>2, <4>2
            <4>4. ASSUME NEW rows \in txs'[i].read
                  PROVE  (txs'[i].whole => (L + 1) - 1 <= Len(rows)) /\ IsPrefix(rows, file')
                <5>1. rows \in txs[n].read
                    BY <1>4, <3>2, <4>4
                <5>2. /\ rows \in Seq(Nat) /\ (txs'[i].whole => L <= Len(rows)) /\ Len(rows) <= L + Len(w)
                      /\ \A q \in 1 .. Len(rows) : rows[q] = IF q <= L THEN file[q] ELSE w[q - L]
                    BY <1>4, <1>6, <1>7, <3>2, <4>1, <5>1
                <5>3. Len(rows) \in Nat
                    BY <5>2
                <5>4. \A q \in 1 .. Len(rows) : rows[q] = file'[q]
                    <6> SUFFICES ASSUME NEW q \in 1 .. Len(rows) PROVE rows[q] = file'[q]
                        OBVIOUS
                    <6>1. q \in DOMAIN file'
                        BY <1>2, <1>3, <5>2, <5>3
                    <6>2. q \in DOMAIN file <=> q <= L
                        BY <1>2
                    <6> QED
                        BY <1>3, <5>2, <6>1, <6>2
                <5>5. Len(rows) <= Len(file')
                    BY <1>3, <5>2
                <5>6. IsPrefix(rows, file')
                    BY <1>3, <5>2, <5>4, <5>5, PrefixByPosition
                <5> QED
                    BY <1>2, <5>2, <5>3, <5>6
            <4> QED
                BY <4>3, <4>4
        <3>3. CASE i # n
            <4>1. Places(i)' = Places(i) /\ txs'[i] = txs[i]
                BY <1>4, <1>10, <3>1, <3>3
            <4>2. PICK first \in Places(i) :
                      /\ \A p \in Places(i) : first <= p
                      /\ \A rows \in txs[i].read : (txs[i].whole => first - 1 <= Len(rows)) /\ IsPrefix(rows, file)
                BY <1>1, <2>1, <3>1, <4>1 DEF ReadsHold
            <4>3. ASSUME NEW rows \in txs[i].read PROVE IsPrefix(rows, file')
                <5>1. rows \in Seq(Nat) /\ IsPrefix(rows, file)
                    BY <1>1, <3>1, <4>2, <4>3, Typed
                <5>2. Len(file) <= Len(file')
                    BY <1>2, <1>3 DEF L
                <5> QED
                    BY <1>2, <1>3, <5>1, <5>2, PrefixOfLonger, ZenonT(40)
            <4> QED
                BY <4>1, <4>2, <4>3
        <3> QED
            BY <3>2, <3>3
    <2> QED
        BY <2>1 DEF ReadsHold
<1> QED
    BY <1>8, <1>13, <1>14 DEF DbInv

-----------------------------------------------------------------------------
(* The theorem.                                                            *)

LEMMA DbStep == DbInv /\ [DatabaseNext]_DatabaseVars => DbInv'
<1> SUFFICES ASSUME DbInv, [DatabaseNext]_DatabaseVars PROVE DbInv'
    OBVIOUS
<1>1. ASSUME NEW w \in DbWorkers
      PROVE  /\ Db(w) \in Connections /\ JobsOf(w) \in Connections
             /\ InCallback(w) => conns[Db(w)].tx # 0
    <2>1. Db(w) \in Connections /\ JobsOf(w) \in Connections
        BY DEF Db, JobsOf, Connections
    <2>2. conns[Db(w)].tx = 0 => conns[Db(w)] = Closed
        BY <2>1 DEF DbInv, OneConnection
    <2>3. InCallback(w) => conns[Db(w)] # Closed
        BY DEF InCallback, Closed
    <2> QED
        BY <2>1, <2>2, <2>3
<1>2. CASE UNCHANGED DatabaseVars
    <2> USE <1>2 DEF DatabaseVars, DbInv
    <2>1. DbTypes'
        BY DEF DbTypes, Connection, Connections, Transaction, Outcomes
    <2>2. WritesKnown' /\ OneConnection' /\ WritesHeld'
        BY DEF WritesKnown, OneConnection, WritesHeld, Connections, Closed, NoSnapshot
    <2>3. LockHeld' /\ ReadsOwn'
        BY DEF LockHeld, ReadsOwn, Connections
    <2>4. \A i : Places(i)' = Places(i)
        BY DEF Places
    <2>5. WritesAsTold'
        BY <2>4 DEF WritesAsTold, InTx, ToSet, IsInjective
    <2>6. ReadsHold'
        BY <2>4 DEF ReadsHold
    <2> QED
        BY <2>1, <2>2, <2>3, <2>5, <2>6
<1>3. ASSUME NEW w \in DbWorkers, native_db_query(w) PROVE DbInv'
    BY <1>1, <1>3, QueryStep DEF native_db_query
<1>4. ASSUME NEW w \in DbWorkers, native_db_exec(w) PROVE DbInv'
    BY <1>1, <1>4, ExecStep DEF native_db_exec
<1>5. ASSUME NEW w \in DbWorkers, native_db_transaction(w) PROVE DbInv'
    <2>1. txs' = Append(txs, Opened)
        BY <1>5 DEF native_db_transaction, Opened
    <2> QED
        BY <1>1, <1>5, <2>1, BeginStep DEF native_db_transaction
<1>6. ASSUME NEW w \in DbWorkers, callback_returns(w) PROVE DbInv'
    <2>1. conns[Db(w)].tx # 0
        BY <1>1, <1>6 DEF callback_returns
    <2>2. UNCHANGED <<began, written, acknowledged, refused>>
        BY <1>6 DEF callback_returns, EndedAs
    <2>3. CASE vek_db_commit(Db(w), TRUE) /\ EndedAs(w, "returned")
        BY <1>1, <2>1, <2>2, <2>3, DbCommitStep DEF vek_db_commit, EndedAs
    <2>4. CASE vek_db_commit(Db(w), FALSE) /\ EndedAs(w, "nil")
        <3>1. UNCHANGED file /\ txs' = [txs EXCEPT ![conns[Db(w)].tx].outcome = "nil"]
            BY <2>4 DEF vek_db_commit, EndedAs
        <3>2. CASE conns' = [conns EXCEPT ![Db(w)] = Closed]
            <4>1. "nil" \in Outcomes \ {"returned"}
                BY DEF Outcomes
            <4> QED
                BY <1>1, <2>1, <2>2, <3>1, <3>2, <4>1, DropStep
        <3>3. CASE conns' = [conns EXCEPT ![Db(w)].in_transaction = FALSE]
            BY <1>1, <2>1, <2>2, <3>1, <3>3, LeftOpenStep
        <3> QED
            BY <2>4, <3>2, <3>3 DEF vek_db_commit
    <2> QED
        BY <1>6, <2>3, <2>4 DEF callback_returns
<1>7. ASSUME NEW w \in DbWorkers, callback_fails(w) PROVE DbInv'
    <2>1. "nil" \in Outcomes \ {"returned"}
        BY DEF Outcomes
    <2> QED
        BY <1>1, <1>7, <2>1, DropStep DEF callback_fails, vek_db_rollback, EndedAs
<1>8. ASSUME NEW w \in DbWorkers, native_jobs_insert(w) PROVE DbInv'
    BY <1>1, <1>8, ExecStep DEF native_jobs_insert
<1>9. ASSUME NEW w \in DbWorkers, worker_restarts(w) PROVE DbInv'
    <2> DEFINE n == conns[Db(w)].tx
    <2>1. /\ conns' = [conns EXCEPT ![Db(w)] = Closed]
          /\ UNCHANGED <<file, began, written, acknowledged, refused>>
        BY <1>9 DEF worker_restarts
    <2>2. n # 0 /\ n \in DOMAIN txs /\ txs[n].outcome # "returned"
        BY <1>1, <1>9 DEF worker_restarts, DbInv, OneConnection, Closed
    <2>3. txs \in Seq(Transaction) /\ txs[n] \in Transaction
        BY <2>2, Typed DEF DbInv
    <2>4. PICK outcome \in Outcomes \ {"returned"} : txs' = [txs EXCEPT ![n].outcome = outcome]
        <3>1. CASE txs' = [txs EXCEPT ![n].outcome = "died"]
            BY <3>1 DEF Outcomes
        <3>2. CASE txs' = txs
            <4>1. txs[n].outcome \in Outcomes \ {"returned"}
                BY <2>2, <2>3 DEF Transaction
            <4>2. txs[n] = [txs[n] EXCEPT !.outcome = txs[n].outcome]
                BY <2>3 DEF Transaction
            <4>3. txs = [txs EXCEPT ![n] = [txs[n] EXCEPT !.outcome = txs[n].outcome]]
                BY <2>2, <2>3, <4>2
            <4>4. txs' = [txs EXCEPT ![n].outcome = txs[n].outcome]
                BY <2>2, <2>3, <3>2, <4>3
            <4> QED
                BY <4>1, <4>4
        <3> QED
            BY <1>9, <3>1, <3>2 DEF worker_restarts
    <2> HIDE DEF n
    <2> QED
        BY <1>1, <2>1, <2>2, <2>4, DropStep DEF n
<1> QED
    BY <1>2, <1>3, <1>4, <1>5, <1>6, <1>7, <1>8, <1>9 DEF DatabaseNext

\* What db.exec and db.transaction return stays true, and no transaction loses
\* the update of another, with any number of workers that write, fail and die
\* in any order: vek_db_begin, vek_db_commit and vek_db_rollback on the one
\* file (vek_db.c), under native_db_transaction and jobs.enqueue.
THEOREM TransactionsAlwaysSerial == DatabaseSpec => []TransactionsSerial
<1>1. DatabaseInit => DbInv
    BY DbInitially
<1>2. DbInv /\ [DatabaseNext]_DatabaseVars => DbInv'
    BY DbStep
<1>3. DbInv => TransactionsSerial
    BY DEF DbInv, TransactionsSerial
<1> QED
    BY <1>1, <1>2, <1>3, PTL DEF DatabaseSpec

-----------------------------------------------------------------------------
(* JobQueue.                                                               *)

\* The steps of one worker.
LEMMA WorkerSteps ==
    ASSUME NEW w, native_jobs_run_one(w)
    PROVE  \/ select_job(w)
           \/ mark_running(w)
           \/ no_handler(w)
           \/ call_handler(w)
           \/ \E ok \in BOOLEAN : handler_returns(w, ok)
BY DEF native_jobs_run_one

\* An UPDATE, whether it takes effect or not, keeps the types.
LEMMA SetStatusTypes ==
    ASSUME TypeOK, NEW j \in Jobs,
           NEW s \in {"pending", "running", "completed", "failed"},
           SetStatus(j, s)
    PROVE  /\ status' \in [Jobs -> {"none", "pending", "running", "completed",
                                     "failed"}]
           /\ missed' \subseteq Jobs
           /\ faults' \in Nat
<1>1. CASE status' = IF status[j] = "none" THEN status
                                           ELSE [status EXCEPT ![j] = s]
    <2>1. status' \in [Jobs -> {"none", "pending", "running", "completed",
                                "failed"}]
        BY <1>1 DEF TypeOK
    <2> QED
        BY <2>1 DEF TypeOK, SetStatus
<1>2. CASE UNCHANGED status
    BY <1>2 DEF TypeOK, SetStatus
<1> QED
    BY <1>1, <1>2 DEF SetStatus

\* A worker within native_jobs_run_one has a job.
LEMMA HasJob ==
    ASSUME TypeOK, NEW w \in Workers, phase[w] # "idle"
    PROVE  job[w] \in Jobs
BY DEF TypeOK

\* A worker that leaves native_jobs_run_one has no job.
LEMMA LeavesTypes ==
    ASSUME TypeOK, NEW w \in Workers, Leaves(w)
    PROVE  /\ phase' \in [Workers -> {"idle", "selected", "marked", "handling"}]
           /\ job' \in [Workers -> Jobs \cup {Nil}]
           /\ now' \in [Workers -> Times]
           /\ \A v \in Workers : phase'[v] = "idle" <=> job'[v] = Nil
BY JobQueueAssumption DEF TypeOK, Leaves, Times

\* A step keeps the types of all variables.
LEMMA TypeStep == TypeOK /\ [Next]_vars => TypeOK'
<1> SUFFICES ASSUME TypeOK, [Next]_vars PROVE TypeOK'
    OBVIOUS
<1> USE JobQueueAssumption DEF TypeOK, Jobs, Times
<1>1. CASE \E n \in Names : native_jobs_enqueue(n)
    BY <1>1 DEF native_jobs_enqueue, workerVars, historyVars
<1>2. CASE native_jobs_clear
    BY <1>2 DEF native_jobs_clear, workerVars, historyVars
<1>3. ASSUME NEW w \in Workers, NEW n \in Names, native_jobs_process(w, n)
      PROVE  TypeOK'
    <2>1. /\ Append(handlers[w], n) \in Seq(Names)
          /\ Len(Append(handlers[w], n)) = Len(handlers[w]) + 1
          /\ Len(handlers[w]) \in Nat
        OBVIOUS
    <2>2. /\ Len(handlers[w]) < MaxHandlers
          /\ handlers' = [handlers EXCEPT ![w] = Append(handlers[w], n)]
          /\ UNCHANGED <<tableVars, clock, phase, job, now, historyVars>>
        BY <1>3 DEF native_jobs_process
    <2>3. /\ handlers' \in [Workers -> Seq(Names)]
          /\ \A v \in Workers : Len(handlers'[v]) <= MaxHandlers
        BY <2>1, <2>2
    <2> QED
        BY <2>2, <2>3 DEF tableVars, historyVars
<1>4. ASSUME NEW w \in Workers, native_jobs_run_one(w) PROVE TypeOK'
    <2>1. CASE select_job(w)
        <3>1. PICK j \in Due(clock) : Selects(w, j)
            BY <2>1 DEF select_job
        <3>2. j \in Jobs
            BY DEF Due
        <3>3. /\ job' \in [Workers -> Jobs \cup {Nil}]
              /\ now' \in [Workers -> Times]
              /\ phase' \in [Workers -> {"idle", "selected", "marked", "handling"}]
              /\ \A v \in Workers : phase'[v] = "idle" <=> job'[v] = Nil
            BY <3>1, <3>2 DEF Selects
        <3>4. raced' \subseteq Jobs
            BY <3>1, <3>2 DEF Selects
        <3> QED
            BY <3>1, <3>3, <3>4 DEF Selects, tableVars
    <2>2. CASE mark_running(w)
        <3>1. job[w] \in Jobs
            BY <2>2, HasJob DEF mark_running
        <3> QED
            BY <2>2, <3>1, SetStatusTypes DEF mark_running
    <2>3. CASE no_handler(w)
        <3>1. job[w] \in Jobs
            BY <2>3, HasJob DEF no_handler
        <3> QED
            BY <2>3, <3>1, SetStatusTypes, LeavesTypes DEF no_handler
    <2>4. CASE call_handler(w)
        <3>1. /\ job[w] \in Jobs
              /\ runs' = [runs EXCEPT ![job[w]][w] = IF @ = 0 THEN 1 ELSE 2]
              /\ phase' = [phase EXCEPT ![w] = "handling"]
              /\ UNCHANGED <<tableVars, clock, handlers, job, now, reverted, raced, won, missed,
                            faults, setbacks>>
            BY <2>4 DEF call_handler
        <3>2. runs' \in [Jobs -> [Workers -> 0..2]]
            BY <3>1
        <3>3. /\ phase' \in [Workers -> {"idle", "selected", "marked", "handling"}]
              /\ \A v \in Workers : phase'[v] = "idle" <=> job'[v] = Nil
            BY <3>1, JobQueueAssumption
        <3> QED
            BY <3>1, <3>2, <3>3 DEF tableVars
    <2>5. ASSUME NEW ok \in BOOLEAN, handler_returns(w, ok) PROVE TypeOK'
        <3>1. job[w] \in Jobs
            BY <2>5, HasJob DEF handler_returns
        <3> QED
            BY <2>5, <3>1, SetStatusTypes, LeavesTypes DEF handler_returns
    <2> QED
        BY <1>4, <2>1, <2>2, <2>3, <2>4, <2>5, WorkerSteps
<1>5. ASSUME NEW w \in Workers, crash(w) PROVE TypeOK'
    <2>1. <<>> \in Seq(Names) /\ Len(<<>>) = 0
        OBVIOUS
    <2>2. /\ phase' \in [Workers -> {"idle", "selected", "marked", "handling"}]
          /\ job' \in [Workers -> Jobs \cup {Nil}]
          /\ now' \in [Workers -> Times]
          /\ \A v \in Workers : phase'[v] = "idle" <=> job'[v] = Nil
        BY <1>5, LeavesTypes DEF crash
    <2>3. /\ handlers' \in [Workers -> Seq(Names)]
          /\ \A v \in Workers : Len(handlers'[v]) <= MaxHandlers
        BY <1>5, <2>1 DEF crash
    <2> QED
        BY <1>5, <2>1, <2>2, <2>3 DEF crash, tableVars
<1>6. CASE UNCHANGED vars
    BY <1>6 DEF vars, tableVars, workerVars, historyVars
<1>7. ASSUME NEW time \in Times, clock_advances(time) \/ clock_set_back(time)
      PROVE  TypeOK'
    <2>1. CASE clock_advances(time)
        BY <1>7, <2>1 DEF clock_advances, tableVars, workerVars, historyVars
    <2>2. CASE clock_set_back(time)
        BY <1>7, <2>2 DEF clock_set_back, tableVars, workerVars
    <2> QED
        BY <1>7, <2>1, <2>2
<1> QED
    BY <1>1, <1>2, <1>3, <1>4, <1>5, <1>6, <1>7 DEF Next

\* The variables of the job table and of the workers always have their
\* types (native_jobs_run_one and the other functions of stdlib_jobs.c).
THEOREM JobQueueTypes == Spec => []TypeOK
<1>1. Init => TypeOK
    BY JobQueueAssumption DEF Init, TypeOK, Jobs, Times
<1> QED
    BY <1>1, TypeStep, PTL DEF Spec

-----------------------------------------------------------------------------

\* Nothing is known of a row that has not been inserted.
FreshJobs ==
    \A j \in Jobs : j > last =>
        /\ status[j] = "none"
        /\ \A w \in Workers : runs[j][w] = 0 /\ job[w] # j

\* A job that a worker has marked is not pending, and stays so.  One that it
\* has called a handler for it cannot select again.
MarkedNotPending ==
    \A j \in Jobs \ (reverted \cup missed) : \A w \in Workers :
        /\ job[w] = j /\ phase[w] \in {"marked", "handling"}
              => status[j] # "pending"
        /\ runs[j][w] # 0 =>
              /\ runs[j][w] = 1
              /\ status[j] # "pending"
              /\ job[w] = j => phase[w] = "handling"

\* A worker that has selected a job or has called a handler for it is the only
\* one, unless the job was raced for.
Alone ==
    \A j \in Jobs \ (reverted \cup missed \cup raced) : \A v, w \in Workers :
        (runs[j][v] # 0 \/ job[v] = j) /\ (runs[j][w] # 0 \/ job[w] = j) => v = w

RunOnceInv == TypeOK /\ FreshJobs /\ MarkedNotPending /\ Alone

\* Only an insertion moves the last id.
LEMMA FreshStep == TypeOK /\ FreshJobs /\ [Next]_vars => FreshJobs'
<1> SUFFICES ASSUME TypeOK, FreshJobs, [Next]_vars PROVE FreshJobs'
    OBVIOUS
<1> USE JobQueueAssumption DEF TypeOK, Jobs, Times, FreshJobs
<1>1. CASE \E n \in Names : native_jobs_enqueue(n)
    BY <1>1 DEF native_jobs_enqueue, workerVars, historyVars
<1>2. CASE native_jobs_clear
    BY <1>2 DEF native_jobs_clear, workerVars, historyVars
<1>3. ASSUME NEW w \in Workers, NEW n \in Names, native_jobs_process(w, n)
      PROVE  FreshJobs'
    BY <1>3 DEF native_jobs_process, tableVars, historyVars
<1>4. ASSUME NEW w \in Workers, native_jobs_run_one(w) PROVE FreshJobs'
    <2>1. CASE select_job(w)
        BY <2>1 DEF select_job, Selects, Due, tableVars, historyVars
    <2>2. CASE mark_running(w)
        BY <2>2 DEF mark_running, SetStatus, tableVars, historyVars
    <2>3. CASE no_handler(w)
        <3>1. /\ job[w] \in Jobs
              /\ job' = [job EXCEPT ![w] = Nil]
              /\ UNCHANGED <<last, runs>>
            BY <2>3 DEF no_handler, Leaves
        <3>2. \A j \in Jobs : j # job[w] => status'[j] = status[j]
            BY <2>3, <3>1 DEF no_handler, SetStatus
        <3> QED
            BY <3>1, <3>2
    <2>4. CASE call_handler(w)
        BY <2>4 DEF call_handler, tableVars
    <2>5. ASSUME NEW ok \in BOOLEAN, handler_returns(w, ok) PROVE FreshJobs'
        <3>1. /\ job[w] \in Jobs
              /\ job' = [job EXCEPT ![w] = Nil]
              /\ UNCHANGED <<last, runs>>
            BY <2>5 DEF handler_returns, Leaves
        <3>2. \A j \in Jobs : j # job[w] => status'[j] = status[j]
            BY <2>5, <3>1 DEF handler_returns, SetStatus
        <3> QED
            BY <3>1, <3>2
    <2> QED
        BY <1>4, <2>1, <2>2, <2>3, <2>4, <2>5, WorkerSteps
<1>5. ASSUME NEW w \in Workers, crash(w) PROVE FreshJobs'
    BY <1>5 DEF crash, Leaves, tableVars
<1>6. CASE UNCHANGED vars
    BY <1>6 DEF vars, tableVars, workerVars, historyVars
<1>7. ASSUME NEW time \in Times, clock_advances(time) \/ clock_set_back(time)
      PROVE  FreshJobs'
    BY <1>7 DEF clock_advances, clock_set_back, tableVars, workerVars, historyVars
<1> QED
    BY <1>1, <1>2, <1>3, <1>4, <1>5, <1>6, <1>7 DEF Next

\* A worker that marks a job takes it out of the pending ones, and no step
\* but that of a worker without a handler puts it back.
LEMMA MarkedStep == RunOnceInv /\ [Next]_vars => MarkedNotPending'
<1> SUFFICES ASSUME RunOnceInv, [Next]_vars PROVE MarkedNotPending'
    OBVIOUS
<1> USE JobQueueAssumption DEF TypeOK, Jobs, Times, RunOnceInv, MarkedNotPending
<1>1. CASE \E n \in Names : native_jobs_enqueue(n)
    BY <1>1 DEF native_jobs_enqueue, FreshJobs, workerVars, historyVars
<1>2. CASE native_jobs_clear
    BY <1>2 DEF native_jobs_clear, workerVars, historyVars
<1>3. ASSUME NEW w \in Workers, NEW n \in Names, native_jobs_process(w, n)
      PROVE  MarkedNotPending'
    BY <1>3 DEF native_jobs_process, tableVars, historyVars
<1>4. ASSUME NEW w \in Workers, native_jobs_run_one(w)
      PROVE  MarkedNotPending'
    <2>1. CASE select_job(w)
        BY <2>1 DEF select_job, Selects, Due, tableVars, historyVars
    <2>2. CASE mark_running(w)
        <3>1. /\ job[w] \in Jobs /\ phase[w] = "selected"
              /\ phase' = [phase EXCEPT ![w] = "marked"]
              /\ UNCHANGED <<job, runs, reverted>>
            BY <2>2 DEF mark_running
        <3>2. /\ missed \subseteq missed'
              /\ \A j \in Jobs : status'[j] = "pending" => status[j] = "pending"
              /\ status'[job[w]] # "pending" \/ job[w] \in missed'
            BY <2>2, <3>1 DEF mark_running, SetStatus
        <3> QED
            BY <3>1, <3>2, JobQueueAssumption
    <2>3. CASE no_handler(w)
        <3>1. /\ job[w] \in Jobs
              /\ job' = [job EXCEPT ![w] = Nil]
              /\ phase' = [phase EXCEPT ![w] = "idle"]
              /\ reverted' = reverted \cup {job[w]}
              /\ UNCHANGED runs
            BY <2>3 DEF no_handler, Leaves
        <3>2. missed \subseteq missed' /\ \A j \in Jobs \ {job[w]} : status'[j] = status[j]
            BY <2>3, <3>1 DEF no_handler, SetStatus
        <3> QED
            BY <3>1, <3>2, JobQueueAssumption
    <2>4. CASE call_handler(w)
        BY <2>4 DEF call_handler, tableVars
    <2>5. ASSUME NEW ok \in BOOLEAN, handler_returns(w, ok)
          PROVE  MarkedNotPending'
        <3>1. /\ job[w] \in Jobs /\ phase[w] = "handling"
              /\ job' = [job EXCEPT ![w] = Nil]
              /\ phase' = [phase EXCEPT ![w] = "idle"]
              /\ UNCHANGED <<runs, reverted>>
            BY <2>5 DEF handler_returns, Leaves
        <3>2. missed \subseteq missed'
            BY <2>5 DEF handler_returns, SetStatus
        <3>3. ASSUME NEW j \in Jobs, status'[j] = "pending"
              PROVE  status[j] = "pending"
            <4>1. status' = status \/ \E t \in {"completed", "failed"} :
                                          status' = [status EXCEPT ![job[w]] = t]
                BY <2>5 DEF handler_returns, SetStatus
            <4> QED
                BY <3>1, <3>3, <4>1
        <3> QED
            BY <3>1, <3>2, <3>3, JobQueueAssumption
    <2> QED
        BY <1>4, <2>1, <2>2, <2>3, <2>4, <2>5, WorkerSteps
<1>5. ASSUME NEW w \in Workers, crash(w) PROVE MarkedNotPending'
    BY <1>5 DEF crash, Leaves, tableVars
<1>6. CASE UNCHANGED vars
    BY <1>6 DEF vars, tableVars, workerVars, historyVars
<1>7. ASSUME NEW time \in Times, clock_advances(time) \/ clock_set_back(time)
      PROVE  MarkedNotPending'
    BY <1>7 DEF clock_advances, clock_set_back, tableVars, workerVars, historyVars
<1> QED
    BY <1>1, <1>2, <1>3, <1>4, <1>5, <1>6, <1>7 DEF Next

\* A job that one worker is on or has run is not pending, or the next to select
\* it joins the race.
LEMMA AloneStep == RunOnceInv /\ [Next]_vars => Alone'
<1> SUFFICES ASSUME RunOnceInv, [Next]_vars PROVE Alone'
    OBVIOUS
<1> USE JobQueueAssumption DEF TypeOK, Jobs, Times, RunOnceInv, Alone
<1>1. CASE \E n \in Names : native_jobs_enqueue(n)
    BY <1>1 DEF native_jobs_enqueue, workerVars, historyVars
<1>2. CASE native_jobs_clear
    BY <1>2 DEF native_jobs_clear, workerVars, historyVars
<1>3. ASSUME NEW w \in Workers, NEW n \in Names, native_jobs_process(w, n)
      PROVE  Alone'
    BY <1>3 DEF native_jobs_process, tableVars, historyVars
<1>4. ASSUME NEW w \in Workers, native_jobs_run_one(w) PROVE Alone'
    <2>1. CASE select_job(w)
        <3>1. PICK j \in Due(clock) : Selects(w, j)
            BY <2>1 DEF select_job
        <3>2. j \in Jobs /\ status[j] = "pending"
            BY DEF Due
        <3>3. ASSUME NEW v \in Workers, j \notin reverted \cup missed, j \notin raced'
              PROVE  runs[j][v] = 0 /\ job[v] # j
            BY <3>1, <3>2, <3>3 DEF Selects, MarkedNotPending
        <3> QED
            BY <3>1, <3>2, <3>3 DEF Selects, tableVars
    <2>2. CASE mark_running(w)
        BY <2>2 DEF mark_running, SetStatus
    <2>3. CASE no_handler(w)
        <3>1. /\ job' = [job EXCEPT ![w] = Nil]
              /\ reverted \subseteq reverted'
              /\ UNCHANGED <<runs, raced>>
            BY <2>3 DEF no_handler, Leaves
        <3>2. missed \subseteq missed'
            BY <2>3 DEF no_handler, SetStatus
        <3> QED
            BY <3>1, <3>2, JobQueueAssumption
    <2>4. CASE call_handler(w)
        BY <2>4 DEF call_handler, tableVars
    <2>5. ASSUME NEW ok \in BOOLEAN, handler_returns(w, ok) PROVE Alone'
        <3>1. missed \subseteq missed'
            BY <2>5 DEF handler_returns, SetStatus
        <3>2. /\ job' = [job EXCEPT ![w] = Nil]
              /\ UNCHANGED <<runs, raced, reverted>>
            BY <2>5 DEF handler_returns, Leaves
        <3> QED
            BY <3>1, <3>2, JobQueueAssumption
    <2> QED
        BY <1>4, <2>1, <2>2, <2>3, <2>4, <2>5, WorkerSteps
<1>5. ASSUME NEW w \in Workers, crash(w) PROVE Alone'
    BY <1>5 DEF crash, Leaves, tableVars
<1>6. CASE UNCHANGED vars
    BY <1>6 DEF vars, tableVars, workerVars, historyVars
<1>7. ASSUME NEW time \in Times, clock_advances(time) \/ clock_set_back(time)
      PROVE  Alone'
    <2>1. CASE clock_advances(time)
        BY <1>7, <2>1 DEF clock_advances, tableVars, workerVars, historyVars
    <2>2. CASE clock_set_back(time)
        BY <1>7, <2>2 DEF clock_set_back, tableVars, workerVars
    <2> QED
        BY <1>7, <2>1, <2>2
<1> QED
    BY <1>1, <1>2, <1>3, <1>4, <1>5, <1>6, <1>7 DEF Next

LEMMA RunOnceInvariant == Spec => []RunOnceInv
<1>1. Init => RunOnceInv
    BY JobQueueAssumption
       DEF Init, RunOnceInv, TypeOK, FreshJobs, MarkedNotPending, Jobs, Times, Alone
<1>2. RunOnceInv /\ [Next]_vars => RunOnceInv'
    BY TypeStep, FreshStep, MarkedStep, AloneStep DEF RunOnceInv
<1> QED
    BY <1>1, <1>2, PTL DEF Spec

\* For any number of workers, crashes and failed statements: a worker calls a
\* handler at most once for a job that no worker has given back for want of a
\* handler and whose UPDATEs have not failed, and only one worker does, unless
\* another selected the job before it was marked (native_jobs_run_one).
THEOREM JobsRunOnce == Spec => []RunOnce
<1>1. RunOnceInv => RunOnce
    BY DEF RunOnceInv, TypeOK, MarkedNotPending, Alone, RunOnce
<1> QED
    BY <1>1, RunOnceInvariant, PTL

\* Only select_job gives a worker a job, the first of the pending ones; an
\* insertion comes after all jobs that workers have.
LEMMA InOrderStep == RunOnceInv /\ InOrder /\ [Next]_vars => InOrder'
<1> SUFFICES ASSUME RunOnceInv, InOrder, [Next]_vars PROVE InOrder'
    OBVIOUS
<1> USE JobQueueAssumption DEF TypeOK, Jobs, Times, RunOnceInv, InOrder
<1>1. CASE \E n \in Names : native_jobs_enqueue(n)
    BY <1>1 DEF native_jobs_enqueue, FreshJobs, workerVars, historyVars
<1>2. CASE native_jobs_clear
    BY <1>2 DEF native_jobs_clear, workerVars, historyVars
<1>3. ASSUME NEW w \in Workers, NEW n \in Names, native_jobs_process(w, n)
      PROVE  InOrder'
    BY <1>3 DEF native_jobs_process, tableVars, historyVars
<1>4. ASSUME NEW w \in Workers, native_jobs_run_one(w) PROVE InOrder'
    <2>1. CASE select_job(w)
        BY <2>1 DEF select_job, Selects, Due, tableVars, historyVars
    <2>2. CASE mark_running(w)
        BY <2>2 DEF mark_running, SetStatus, tableVars, historyVars
    <2>3. CASE no_handler(w)
        BY <2>3 DEF no_handler, Leaves, SetStatus
    <2>4. CASE call_handler(w)
        BY <2>4 DEF call_handler, tableVars
    <2>5. ASSUME NEW ok \in BOOLEAN, handler_returns(w, ok) PROVE InOrder'
        BY <2>5 DEF handler_returns, Leaves, SetStatus
    <2> QED
        BY <1>4, <2>1, <2>2, <2>3, <2>4, <2>5, WorkerSteps
<1>5. ASSUME NEW w \in Workers, crash(w) PROVE InOrder'
    BY <1>5 DEF crash, Leaves, tableVars
<1>6. CASE UNCHANGED vars
    BY <1>6 DEF vars, tableVars, workerVars, historyVars
<1>7. ASSUME NEW time \in Times, clock_advances(time) \/ clock_set_back(time)
      PROVE  InOrder'
    BY <1>7 DEF clock_advances, clock_set_back, tableVars, workerVars, historyVars
<1> QED
    BY <1>1, <1>2, <1>3, <1>4, <1>5, <1>6, <1>7 DEF Next

\* While a worker has a job, no job enqueued earlier and due when the worker read
\* the time waits to be selected, unless some worker has given it back
\* (native_jobs_run_one, "run_at <= ? ORDER BY id").
THEOREM JobsInOrder == Spec => []InOrder
<1>1. Init => InOrder
    BY DEF Init, InOrder
<1> QED
    BY <1>1, InOrderStep, RunOnceInvariant, PTL DEF Spec

-----------------------------------------------------------------------------

\* A step records a job as completed only when a call has succeeded.
LEMMA CompletedStep ==
    TypeOK /\ CompletedHasSucceeded /\ [Next]_vars => CompletedHasSucceeded'
<1> SUFFICES ASSUME TypeOK, CompletedHasSucceeded, [Next]_vars
             PROVE  CompletedHasSucceeded'
    OBVIOUS
<1> USE JobQueueAssumption DEF TypeOK, Jobs, Times, CompletedHasSucceeded
<1>1. CASE \E n \in Names : native_jobs_enqueue(n)
    BY <1>1 DEF native_jobs_enqueue, historyVars
<1>2. CASE native_jobs_clear
    BY <1>2 DEF native_jobs_clear, historyVars
<1>3. ASSUME NEW w \in Workers, NEW n \in Names, native_jobs_process(w, n)
      PROVE  CompletedHasSucceeded'
    BY <1>3 DEF native_jobs_process, tableVars, historyVars
<1>4. ASSUME NEW w \in Workers, native_jobs_run_one(w)
      PROVE  CompletedHasSucceeded'
    <2>1. CASE select_job(w)
        BY <2>1 DEF select_job, Selects, Due, tableVars, historyVars
    <2>2. CASE mark_running(w)
        BY <2>2 DEF mark_running, SetStatus, historyVars
    <2>3. CASE no_handler(w)
        BY <2>3 DEF no_handler, Leaves, SetStatus
    <2>4. CASE call_handler(w)
        BY <2>4 DEF call_handler, tableVars
    <2>5. ASSUME NEW ok \in BOOLEAN, handler_returns(w, ok)
          PROVE  CompletedHasSucceeded'
        BY <2>5 DEF handler_returns, Leaves, SetStatus
    <2> QED
        BY <1>4, <2>1, <2>2, <2>3, <2>4, <2>5, WorkerSteps
<1>5. ASSUME NEW w \in Workers, crash(w) PROVE CompletedHasSucceeded'
    BY <1>5 DEF crash, Leaves, tableVars
<1>6. CASE UNCHANGED vars
    BY <1>6 DEF vars, tableVars, historyVars
<1>7. ASSUME NEW time \in Times, clock_advances(time) \/ clock_set_back(time)
      PROVE  CompletedHasSucceeded'
    BY <1>7 DEF clock_advances, clock_set_back, tableVars, workerVars, historyVars
<1> QED
    BY <1>1, <1>2, <1>3, <1>4, <1>5, <1>6, <1>7 DEF Next

\* A job recorded as completed has had a successful call, even when workers
\* crash, share the job and have statements that fail unnoticed.
THEOREM CompletedJobsSucceeded == Spec => []CompletedHasSucceeded
<1>1. Init => CompletedHasSucceeded
    BY DEF Init, CompletedHasSucceeded
<1> QED
    BY <1>1, CompletedStep, JobQueueTypes, PTL DEF Spec
=============================================================================
