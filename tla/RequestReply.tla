---------------------------- MODULE RequestReply ----------------------------
(***************************************************************************)
(* What the HTTP server promises to the clients of its connections, with   *)
(* no event loop, no buffers and no timers: requests of one connection are *)
(* answered one by one, in the order they were asked, each at most once,   *)
(* and a connection may be closed at any time.                             *)
(*                                                                         *)
(* HttpServer is shown to implement this specification.                    *)
(***************************************************************************)
EXTENDS Naturals, Sequences

CONSTANTS Conns,    \* connections that may exist at the same time
          Requests  \* kinds of requests

VARIABLES open,     \* the connections that exist
          asked,    \* asked[c]: the requests sent on c, oldest first
          answered  \* answered[c]: the requests of c that were answered

vars == <<open, asked, answered>>

Init ==
    /\ open = {}
    /\ asked = [c \in Conns |-> <<>>]
    /\ answered = [c \in Conns |-> <<>>]

Connect(c) ==
    /\ c \notin open
    /\ open' = open \cup {c}
    /\ UNCHANGED <<asked, answered>>

Ask(c, r) ==
    /\ c \in open
    /\ asked' = [asked EXCEPT ![c] = Append(@, r)]
    /\ UNCHANGED <<open, answered>>

Answer(c) ==
    /\ c \in open
    /\ Len(answered[c]) < Len(asked[c])
    /\ answered' = [answered EXCEPT ![c] = Append(@, asked[c][Len(@) + 1])]
    /\ UNCHANGED <<open, asked>>

\* A closed connection is forgotten, whatever was left unanswered on it.
Close(c) ==
    /\ c \in open
    /\ open' = open \ {c}
    /\ asked' = [asked EXCEPT ![c] = <<>>]
    /\ answered' = [answered EXCEPT ![c] = <<>>]

Next == \E c \in Conns :
    \/ Connect(c)
    \/ \E r \in Requests : Ask(c, r)
    \/ Answer(c)
    \/ Close(c)

Spec == Init /\ [][Next]_vars
=============================================================================
