------------------------------ MODULE MCProgram ------------------------------
(***************************************************************************)
(* What a running program rests on, each part on its own: the nesting of   *)
(* calls with pubsub and transactions, the heap, the packages that go by   *)
(* the clock, the sessions of visitors, and their flash messages, which    *)
(* nothing of a session depends on.  `live' says which of them a behaviour *)
(* is about.                                                               *)
(***************************************************************************)
EXTENDS Runtime, Heap, Services, Sessions

VARIABLE live

programVars == <<live, RuntimeVars, HeapVars, ServicesVars, SessionsVars>>

MCArity == [h |-> 1, t |-> 0]
MCHash == [s |-> 0, u |-> 0, v |-> 1]

ProgramInit ==
    /\ live \in {"calls", "heap", "services", "sessions", "messages"}
    /\ RuntimeInit /\ HeapInit /\ ServicesInit /\ SessionsInit

ProgramNext ==
    /\ UNCHANGED live
    /\ \/ live = "calls" /\ RuntimeNext /\ UNCHANGED <<HeapVars, ServicesVars, SessionsVars>>
       \/ live = "heap" /\ HeapNext /\ UNCHANGED <<RuntimeVars, ServicesVars, SessionsVars>>
       \/ live = "services" /\ ServicesNext /\ UNCHANGED <<RuntimeVars, HeapVars, SessionsVars>>
       \/ /\ live \in {"sessions", "messages"} /\ SessionsNext
          /\ IF live = "sessions" THEN UNCHANGED flashes ELSE UNCHANGED <<session_data, tokens>>
          /\ UNCHANGED <<RuntimeVars, HeapVars, ServicesVars>>

ProgramSpec == ProgramInit /\ [][ProgramNext]_programVars
=============================================================================
