------------------------------ MODULE DevServer ------------------------------
(***************************************************************************)
(* vek dev: cmd_dev_run, with the watcher of file_watcher.c and the app    *)
(* that runs as its child.                                                 *)
(*                                                                         *)
(* A child is running, or has ended and is not waited for yet.  inotify is *)
(* the sequence of the events that have not been read; each is a change of *)
(* a .ve file in a directory, or a new directory in it.  A directory is    *)
(* reported only while it has a watch.  SIGINT, SIGTERM and SIGCHLD are    *)
(* handled without SA_RESTART: a signal ends a waitpid that waits.         *)
(***************************************************************************)
EXTENDS Integers, Sequences, FiniteSets, SequencesExt

CONSTANTS Dirs, Root, Parent,  \* the directories there may be, and their tree
          Children,            \* pids
          MAX_WATCHES,
          MaxChanges           \* bound: changes of files

ASSUME DevServerConstants ==
    /\ Root \in Dirs /\ Parent \in [Dirs \ {Root} -> Dirs]
    /\ MAX_WATCHES \in Nat \ {0} /\ MaxChanges \in Nat

VARIABLES existing, inotify, changes,  \* the files
          watches,                     \* the table, in order
          turn, g_child_pid, g_should_exit,
          running, zombies,
          killed,                      \* children that were sent SIGKILL and not waited for
          unseen                       \* history: a change no child was started after

disk == <<existing, inotify, changes>>
DevVars == <<disk, watches, turn, g_child_pid, g_should_exit, running, zombies, killed, unseen>>

Change(d) == [kind |-> "ve", dir |-> d]
NewDir(d) == [kind |-> "dir", dir |-> d]
Watched(d) == d \in Range(watches)
-----------------------------------------------------------------------------
(* The user, and the app.                                                  *)

Working == UNCHANGED <<watches, turn, g_child_pid, killed>>

UserSaves(d) ==
    /\ changes < MaxChanges /\ d \in existing
    /\ changes' = changes + 1
    /\ IF Watched(d) THEN inotify' = Append(inotify, Change(d)) /\ unseen' = TRUE
       ELSE UNCHANGED <<inotify, unseen>>
    /\ Working /\ UNCHANGED <<existing, g_should_exit, running, zombies>>

UserMakesDir(d) ==
    /\ d \notin existing /\ Parent[d] \in existing
    /\ existing' = existing \cup {d}
    /\ inotify' = IF Watched(Parent[d]) THEN Append(inotify, NewDir(d)) ELSE inotify
    /\ Working /\ UNCHANGED <<changes, g_should_exit, running, zombies, unseen>>

sigint_handler ==
    /\ g_should_exit' = TRUE
    /\ Working /\ UNCHANGED <<disk, running, zombies, unseen>>

ChildEnds(p) ==
    /\ p \in running
    /\ running' = running \ {p} /\ zombies' = zombies \cup {p}
    /\ Working /\ UNCHANGED <<disk, g_should_exit, unseen>>

-----------------------------------------------------------------------------
(* The watcher.                                                            *)

\* d and the directories below it as far as n levels, each before those in it.
Below(d) == SetToSeq({e \in existing \ {Root} : Parent[e] = d})
Trees[n \in Nat] ==
    [d \in Dirs |-> <<d>> \o (IF n = 0 THEN <<>>
                              ELSE FlattenSeq([i \in DOMAIN Below(d) |-> Trees[n - 1][Below(d)[i]]]))]
Tree(d) == Trees[Cardinality(Dirs)][d]

\* Each directory gets an entry, also one that has one, until the table is full.
file_watcher_add_dir(table, d) ==
    LET more == table \o Tree(d)
    IN  SubSeq(more, 1, IF Len(more) < MAX_WATCHES THEN Len(more) ELSE MAX_WATCHES)

\* What is read is looked at up to the first change of a .ve file: the rest is lost.
Looked == LET ve == {i \in DOMAIN inotify : inotify[i].kind = "ve"}
          IN  IF ve = {} THEN Len(inotify) ELSE Min(ve)
file_watcher_poll ==
    /\ watches' = FoldLeft(LAMBDA table, e : IF e.kind = "dir" THEN file_watcher_add_dir(table, e.dir)
                                             ELSE table,
                           watches, SubSeq(inotify, 1, Looked))
    /\ inotify' = <<>>
    /\ UNCHANGED <<existing, changes>>
Notices == \E i \in DOMAIN inotify : inotify[i].kind = "ve"

-----------------------------------------------------------------------------
(* cmd_dev_run.                                                            *)

\* A failure at the beginning ends the command, one later is only reported.
start_child ==
    /\ turn \in {"begin", "start"}
    /\ \/ /\ \E p \in Children \ (running \cup zombies) :
                running' = running \cup {p} /\ g_child_pid' = p
          /\ unseen' = FALSE /\ turn' = "loop"
       \/ /\ g_child_pid' = -1 /\ UNCHANGED <<running, unseen>>
          /\ turn' = IF turn = "begin" THEN "done" ELSE "loop"
    /\ UNCHANGED <<disk, watches, g_should_exit, zombies, killed>>

Stay(place) == turn' = place /\ UNCHANGED <<g_should_exit, running, killed, unseen>>

\* One turn of the loop.  check_child takes note of a child that has ended.
dev_loop ==
    /\ turn = "loop" /\ ~g_should_exit
    /\ inotify # <<>> \/ g_child_pid \in zombies
    /\ file_watcher_poll
    /\ zombies' = zombies \ {g_child_pid}
    /\ g_child_pid' = IF g_child_pid \in zombies THEN 0 ELSE g_child_pid
    /\ Stay(IF Notices THEN "drain" ELSE "loop")

\* A mutant: the child is not stopped while changes keep coming, and the loop
\* goes on when they have ended.
Drained_forgotten == IF Notices THEN "drain" ELSE "loop"
Drained == IF Notices THEN "drain" ELSE "stop"
drain ==
    /\ turn = "drain" /\ ~g_should_exit
    /\ file_watcher_poll
    /\ Stay(Drained)
    /\ UNCHANGED <<g_child_pid, zombies>>

dev_exits ==
    /\ turn \in {"loop", "drain"} /\ g_should_exit
    /\ Stay("shutdown")
    /\ UNCHANGED <<disk, watches, g_child_pid, zombies>>

\* SIGTERM, and after two seconds SIGKILL: the child has ended and is waited for.
\* A mutant: no SIGKILL.
Ends_perhaps == running' \in {running, running \ {g_child_pid}}
Ends == running' = running \ {g_child_pid}

AfterStop ==
    /\ g_child_pid' = 0
    /\ turn' = IF turn = "stop" THEN "start" ELSE "done"
    /\ UNCHANGED <<disk, watches, unseen>>

stop_child ==
    /\ turn \in {"stop", "shutdown"}
    /\ Ends /\ zombies' = zombies \ {g_child_pid}
    /\ AfterStop /\ UNCHANGED <<g_should_exit, killed>>

\* A SIGINT or SIGTERM arrives while waitpid waits for the child that was sent
\* SIGKILL: waitpid fails with EINTR, and nobody waits for the child any more.
stop_child_interrupted ==
    /\ turn \in {"stop", "shutdown"} /\ g_child_pid \in running
    /\ killed' = killed \cup {g_child_pid}
    /\ g_should_exit' = TRUE
    /\ AfterStop /\ UNCHANGED <<running, zombies>>

-----------------------------------------------------------------------------
DevInit ==
    /\ existing = {Root} /\ inotify = <<>> /\ changes = 0
    /\ watches = <<Root>>
    /\ turn = "begin" /\ g_child_pid = 0 /\ g_should_exit = FALSE
    /\ running = {} /\ zombies = {} /\ killed = {} /\ unseen = FALSE

cmd_dev_run == start_child \/ dev_loop \/ drain \/ dev_exits \/ stop_child \/ stop_child_interrupted
DevNext ==
    \/ cmd_dev_run \/ sigint_handler
    \/ \E d \in Dirs : UserSaves(d)
    \/ \E d \in Dirs \ {Root} : UserMakesDir(d)
    \/ \E p \in Children : ChildEnds(p)

DevSpec == DevInit /\ [][DevNext]_DevVars /\ WF_DevVars(cmd_dev_run)

-----------------------------------------------------------------------------
(* Properties.                                                             *)

\* Whatever changes, ends and is interrupted: an app that vek dev has lost sight
\* of has been sent SIGKILL (stop_child), and also when vek dev is done no other
\* one runs; until the user ends vek dev, an app is waited for before the next
\* is started.
OneApp ==
    /\ running \subseteq {g_child_pid} \cup killed
    /\ ~g_should_exit => running \cup zombies \subseteq {g_child_pid}
    /\ turn = "done" => running \subseteq killed

\* After each change in a directory that is watched the app is started again,
\* also after changes that came while it was stopped and started, unless fork
\* fails or vek dev ends.
ChangesRestart == unseen ~> ~unseen \/ g_child_pid = -1 \/ turn = "done"
=============================================================================
