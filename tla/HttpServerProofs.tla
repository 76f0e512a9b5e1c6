-------------------------- MODULE HttpServerProofs --------------------------
(***************************************************************************)
(* Theorems about HttpServer, for every number of connections, timers,     *)
(* events per batch and requests.                                          *)
(***************************************************************************)
EXTENDS HttpServer, NumberFacts, SequenceTheorems, FiniteSetTheorems

-----------------------------------------------------------------------------
(* What the operators on sequences return.                                 *)

\* The ready list stays a list of sources when an edge is added to it.
LEMMA WakeType ==
    ASSUME NEW list \in Seq(Sources), NEW x \in Sources
    PROVE  Wake(list, x) \in Seq(Sources)
BY AppendProperties DEF Wake

\* The ready list stays a list of sources when a descriptor is closed.
LEMMA ForgetType ==
    ASSUME NEW list \in Seq(Sources), NEW x
    PROVE  Forget(list, x) \in Seq(Sources)
<1>1. CASE x \notin Range(list)
    BY <1>1 DEF Forget
<1>2. CASE x \in Range(list)
    <2> DEFINE i == CHOOSE j \in DOMAIN list : list[j] = x
    <2>1. i \in 1..Len(list)
        <3>1. \E j \in DOMAIN list : list[j] = x
            BY <1>2 DEF Range
        <3> QED BY <3>1
    <2>2. SubSeq(list, 1, i - 1) \in Seq(Sources)
        <3> HIDE DEF i
        <3>1. \A j \in 1..(i - 1) : list[j] \in Sources
            BY <2>1
        <3> QED BY <2>1, <3>1, SubSeqProperties
    <2>3. SubSeq(list, i + 1, Len(list)) \in Seq(Sources)
        <3> HIDE DEF i
        <3>1. \A j \in (i + 1)..Len(list) : list[j] \in Sources
            BY <2>1
        <3> QED BY <2>1, <3>1, SubSeqProperties
    <2>4. Forget(list, x) = SubSeq(list, 1, i - 1) \o SubSeq(list, i + 1, Len(list))
        BY <1>2 DEF Forget, RemoveAt
    <2> QED BY <2>2, <2>3, <2>4, ConcatProperties
<1> QED BY <1>1, <1>2

\* Making events stale leaves a sequence of events.
LEMMA MakeStaleType ==
    ASSUME NEW evs \in Seq(Event), NEW F
    PROVE  MakeStale(evs, F) \in Seq(Event)
<1>1. \A i \in 1..Len(evs) : evs[i] \in Event
    OBVIOUS
<1>2. \A i \in 1..Len(evs) :
          (IF evs[i].src \in F THEN [evs[i] EXCEPT !.src = Stale] ELSE evs[i]) \in Event
    BY <1>1 DEF Event
<1>3. MakeStale(evs, F) \in [1..Len(evs) -> Event]
    BY <1>2 DEF MakeStale
<1> QED BY <1>3, SeqDef

\* epoll_wait reports events.
LEMMA EventOfType ==
    ASSUME TypeOK, NEW x \in Sources
    PROVE  EventOf(x) \in Event
<1> DEFINE from == IF Reports(x) THEN x ELSE Nil
           in == IF x \in Conns THEN Readable(x) ELSE TRUE
           out == IF x \in Conns THEN Writable(x) ELSE FALSE
           hup == IF x \in Conns THEN peer[x] = "gone" ELSE FALSE
<1>1. from \in Sources \cup {Stale, Nil}
    OBVIOUS
<1>2. in \in BOOLEAN
    BY Zenon DEF Readable
<1>3. x \in Conns => wantOut[x] \in BOOLEAN
    BY DEF TypeOK
<1>4. out \in BOOLEAN
    BY <1>3, Zenon DEF Writable
<1>5. hup \in BOOLEAN
    BY Zenon
<1>6. EventOf(x) = [src |-> from, in |-> in, out |-> out, hup |-> hup]
    BY Zenon DEF EventOf
<1> HIDE DEF from, in, out, hup
<1> QED BY <1>1, <1>2, <1>4, <1>5, <1>6 DEF Event

-----------------------------------------------------------------------------
(* What the parts of the actions do to the types of the variables.         *)

\* The rest of the batch is a sequence of events.
LEMMA DoneType ==
    ASSUME TypeOK, batch # <<>>, NEW F, Done(F)
    PROVE  batch' \in Seq(Event)
BY HeadTailProperties, MakeStaleType DEF TypeOK, Done

\* After handle_read the batch is a sequence of events.
LEMMA ReadDoneType ==
    ASSUME TypeOK, batch # <<>>, NEW F, ReadDone(F)
    PROVE  batch' \in Seq(Event)
<1>1. Head(batch) \in Event /\ Tail(batch) \in Seq(Event)
    BY HeadTailProperties DEF TypeOK
<1>2. [Head(batch) EXCEPT !.in = FALSE] \in Event
    BY <1>1 DEF Event
<1>3. <<[Head(batch) EXCEPT !.in = FALSE]>> \o Tail(batch) \in Seq(Event)
    BY <1>1, <1>2, ConcatProperties
<1> QED BY <1>1, <1>3, MakeStaleType DEF ReadDone

\* Uses of freed memory are of the known kinds, and none is forgotten.
LEMMA TouchesType ==
    ASSUME TypeOK, NEW U \in SUBSET {"tail", "event", "timeout"}, Touches(U)
    PROVE  /\ touched' \subseteq {"tail", "event", "timeout"}
           /\ touched \subseteq touched'
           /\ U \subseteq touched'
           /\ touched' = {} => Head(batch).src # Stale
BY DEF TypeOK, Touches

\* The timeout of a connection is a set of at most one timer.
LEMMA TimerSetType ==
    ASSUME TypeOK, NEW c \in Conns
    PROVE  TimerSet(c) \subseteq Timers
BY DEF TypeOK, TimerSet

\* event_loop_add_timer returns a timer or the null pointer.
LEMMA NewTimerType ==
    ASSUME NEW F \in SUBSET Timers, NEW t \in NewTimer(F)
    PROVE  t \in Timers \cup {Nil}
BY DEF NewTimer

\* Cancelling and adding timers keeps the types of the timer variables.
LEMMA SetTimersType ==
    ASSUME TypeOK, NEW F, NEW t, NEW c \in Conns \cup {Nil}, SetTimers(F, t, c)
    PROVE  /\ target' \in [Timers -> Conns \cup {Nil}]
           /\ fired' \subseteq Timers
BY DEF TypeOK, SetTimers

\* Closing a connection keeps the types of all that it resets.
LEMMA CloseType ==
    ASSUME TypeOK, NEW c \in Conns, event_loop_conn_close(c)
    PROVE  /\ live' \subseteq Conns
           /\ timerOf' \in [Conns -> Timers \cup {Nil}]
           /\ keep' \in [Conns -> BOOLEAN]
           /\ inbuf' \in [Conns -> Seq(Pieces)]
           /\ unsent' \in [Conns -> Nat]
           /\ wantOut' \in [Conns -> BOOLEAN]
           /\ rx' \in [Conns -> Seq(Pieces)]
           /\ blocked' \in [Conns -> BOOLEAN]
           /\ peer' \in [Conns -> {"up", "fin", "gone"}]
           /\ asked' \in [Conns -> Seq(Requests)]
           /\ answered' \in [Conns -> Seq(Requests)]
BY EmptySeq DEF TypeOK, event_loop_conn_close

\* Closing a connection with its timeout keeps all types.
LEMMA CloseWithTimeoutType ==
    ASSUME TypeOK, NEW c \in Conns, CloseWithTimeout(c),
           batch' \in Seq(Event),
           touched' \subseteq {"tail", "event", "timeout"},
           proc' \in {"running", "stopping", "dead"}
    PROVE  TypeOK'
<1>1. ready' \in Seq(Sources)
    BY ForgetType DEF TypeOK, CloseWithTimeout
<1>2. target' \in [Timers -> Conns \cup {Nil}] /\ fired' \subseteq Timers
    BY SetTimersType DEF CloseWithTimeout
<1> QED BY <1>1, <1>2, CloseType DEF TypeOK, CloseWithTimeout, acceptVars

\* Input and parser: a complete request is one of the kinds clients send, and
\* what remains of the buffer is a sequence of pieces.
LEMMA ParseType ==
    ASSUME TypeOK, NEW c \in Conns
    PROVE  /\ Input(c) \in Seq(Pieces)
           /\ http_parse_request(Input(c)) # "incomplete" =>
                 /\ http_parse_request(Input(c)) \in Requests
                 /\ Unconsumed(Input(c)) \in Seq(Pieces)
<1>1. Input(c) \in Seq(Pieces)
    BY ConcatProperties DEF TypeOK, Input
<1> DEFINE buf == Input(c)
           i == CHOOSE j \in EndOfRequest(buf) : TRUE
<1>2. ASSUME http_parse_request(buf) # "incomplete"
      PROVE  http_parse_request(buf) \in Requests /\ Unconsumed(buf) \in Seq(Pieces)
    <2>1. i \in EndOfRequest(buf) /\ http_parse_request(buf) = buf[i]
        BY <1>2 DEF http_parse_request
    <2>2. i \in 1..Len(buf) /\ buf[i] # "head"
        BY <1>1, <2>1 DEF EndOfRequest
    <2>3. buf[i] \in Pieces
        BY <1>1, <2>2
    <2>4. SubSeq(buf, i + 1, Len(buf)) \in Seq(Pieces)
        <3> HIDE DEF i, buf
        <3>1. \A j \in (i + 1)..Len(buf) : buf[j] \in Pieces
            BY <1>1, <2>2 DEF buf
        <3> QED BY <1>1, <2>2, <3>1, SubSeqProperties DEF buf
    <2> QED BY <2>1, <2>2, <2>3, <2>4 DEF Pieces, Unconsumed
<1> QED BY <1>1, <1>2

\* A request that is read keeps the types of the socket and of the history.
LEMMA ReadRequestType ==
    ASSUME TypeOK, NEW c \in Conns, NEW K \in SUBSET {"ka", "close", "bad"},
           ReadRequest(c, K)
    PROVE  /\ c \in live /\ batch # <<>>
           /\ http_parse_request(Input(c)) \in Requests \cap K
           /\ Unconsumed(Input(c)) \in Seq(Pieces)
           /\ Input(c) \in Seq(Pieces)
           /\ rx' \in [Conns -> Seq(Pieces)]
           /\ asked' \in [Conns -> Seq(Requests)]
           /\ answered' \in [Conns -> Seq(Requests)]
           /\ backlog' \in Nat
           /\ arrivals' \in Nat
<1>1. /\ http_parse_request(Input(c)) \in Requests
      /\ Unconsumed(Input(c)) \in Seq(Pieces)
      /\ Input(c) \in Seq(Pieces)
    BY ParseType DEF ReadRequest
<1>2. Append(answered[c], http_parse_request(Input(c))) \in Seq(Requests)
    BY <1>1, AppendProperties DEF TypeOK
<1> QED
    BY <1>1, <1>2, EmptySeq
    DEF TypeOK, ReadRequest, ReadEvent, Serves, acceptVars

\* The end of on_data_vek keeps the types of what it changes.
LEMMA NextRequestType ==
    ASSUME TypeOK, NEW c \in Conns, batch # <<>>, NextRequest(c),
           Unconsumed(Input(c)) \in Seq(Pieces)
    PROVE  /\ live' \subseteq Conns
           /\ keep' \in [Conns -> BOOLEAN]
           /\ inbuf' \in [Conns -> Seq(Pieces)]
           /\ timerOf' \in [Conns -> Timers \cup {Nil}]
           /\ target' \in [Timers -> Conns \cup {Nil}]
           /\ fired' \subseteq Timers
           /\ batch' \in Seq(Event)
<1>1. PICK t \in RearmedTimer(c) :
          /\ timerOf' = [timerOf EXCEPT ![c] = t]
          /\ SetTimers(TimerSet(c), t, c)
    BY DEF NextRequest
<1>2. t \in Timers \cup {Nil}
    BY <1>1, TimerSetType, NewTimerType DEF RearmedTimer
<1>3. target' \in [Timers -> Conns \cup {Nil}] /\ fired' \subseteq Timers
    BY <1>1, SetTimersType
<1>4. batch' \in Seq(Event)
    BY ReadDoneType DEF NextRequest
<1>5. KeepAlive(c) \in BOOLEAN
    BY DEF KeepAlive
<1> QED BY <1>1, <1>2, <1>3, <1>4, <1>5 DEF TypeOK, NextRequest

\* The 400 path of on_data_vek keeps the types of what it changes.
LEMMA BadRequestType ==
    ASSUME TypeOK, NEW c \in Conns, batch # <<>>, BadRequest(c),
           Input(c) \in Seq(Pieces)
    PROVE  /\ live' \subseteq Conns
           /\ keep' \in [Conns -> BOOLEAN]
           /\ inbuf' \in [Conns -> Seq(Pieces)]
           /\ timerOf' \in [Conns -> Timers \cup {Nil}]
           /\ target' \in [Timers -> Conns \cup {Nil}]
           /\ fired' \subseteq Timers
           /\ batch' \in Seq(Event)
           /\ touched' \subseteq {"tail", "event", "timeout"}
<1>1. target' \in [Timers -> Conns \cup {Nil}] /\ fired' \subseteq Timers
    BY SetTimersType DEF BadRequest
<1>2. batch' \in Seq(Event)
    BY ReadDoneType DEF BadRequest
<1>3. touched' \subseteq {"tail", "event", "timeout"}
    BY TouchesType DEF BadRequest
<1> QED BY <1>1, <1>2, <1>3 DEF TypeOK, BadRequest

\* Each outcome of event_loop_conn_write keeps the types of what it changes.
LEMMA WriteType ==
    ASSUME TypeOK, NEW c \in Conns,
           \/ WriteAll(c)
           \/ \E u \in 1..(unsent[c] + 1) : WritePart(c, u)
           \/ WriteFails(c)
    PROVE  /\ unsent' \in [Conns -> Nat]
           /\ wantOut' \in [Conns -> BOOLEAN]
           /\ blocked' \in [Conns -> BOOLEAN]
           /\ peer' \in [Conns -> {"up", "fin", "gone"}]
           /\ WriteFails(c) => proc' \in {"running", "stopping", "dead"}
<1>1. CASE WriteAll(c)
    BY <1>1 DEF TypeOK, WriteAll, WriteFails
<1>2. ASSUME NEW u \in 1..(unsent[c] + 1), WritePart(c, u)
      PROVE  /\ unsent' \in [Conns -> Nat]
             /\ wantOut' \in [Conns -> BOOLEAN]
             /\ blocked' \in [Conns -> BOOLEAN]
             /\ peer' \in [Conns -> {"up", "fin", "gone"}]
    BY <1>2 DEF TypeOK, WritePart
<1>3. CASE WriteFails(c)
    BY <1>3 DEF TypeOK, WriteFails
<1>4. WriteFails(c) => proc' \in {"running", "stopping", "dead"}
    BY DEF TypeOK, WriteFails
<1> QED BY <1>1, <1>2, <1>3, <1>4

-----------------------------------------------------------------------------
(* Type correctness.                                                       *)

\* No handler, and nothing that clients or kernel do, leaves the types.
LEMMA TypeOKStep == TypeOK /\ [Next]_vars => TypeOK'
<1> SUFFICES ASSUME TypeOK, [Next]_vars PROVE TypeOK'
    OBVIOUS
<1>1. CASE UNCHANGED vars
    BY <1>1 DEF TypeOK, vars
<1>2. CASE epoll_wait
    <2>1. PICK n \in 1..Len(ready) :
              /\ batch' = [i \in 1..n |-> EventOf(ready[i])]
              /\ ready' = SubSeq(ready, n + 1, Len(ready))
        BY <1>2 DEF epoll_wait
    <2>2. \A i \in 1..Len(ready) : ready[i] \in Sources
        BY DEF TypeOK
    <2>3. \A i \in 1..n : EventOf(ready[i]) \in Event
        BY <2>2, EventOfType
    <2>4. batch' \in Seq(Event)
        BY <2>1, <2>3, SeqDef
    <2>5. ready' \in Seq(Sources)
        BY <2>1, <2>2, SubSeqProperties DEF TypeOK
    <2> QED BY <1>2, <2>4, <2>5
            DEF TypeOK, epoll_wait, connVars, timerVars, acceptVars
<1>3. CASE no_event
    <2>1. batch' \in Seq(Event)
        BY <1>3, DoneType DEF no_event
    <2> QED BY <1>3, <2>1
            DEF TypeOK, no_event, connVars, timerVars, acceptVars
<1>4. CASE accept_over_limit
    <2>1. batch' \in Seq(Event)
        BY <1>4, DoneType DEF accept_over_limit, AcceptEvent, Serves
    <2> QED BY <1>4, <2>1 DEF TypeOK, accept_over_limit, connVars, timerVars
<1>5. ASSUME NEW c \in Conns, accept_connection(c) PROVE TypeOK'
    <2>1. PICK t \in NewTimer({}) :
              /\ timerOf' = [timerOf EXCEPT ![c] = t]
              /\ SetTimers({}, t, c)
        BY <1>5 DEF accept_connection
    <2>2. t \in Timers \cup {Nil}
        BY <2>1, NewTimerType
    <2>3. target' \in [Timers -> Conns \cup {Nil}] /\ fired' \subseteq Timers
        BY <2>1, SetTimersType
    <2> QED BY <1>5, <2>1, <2>2, <2>3 DEF TypeOK, accept_connection
<1>6. CASE accept_without_memory
    BY <1>6 DEF TypeOK, accept_without_memory, connVars, timerVars
<1>7. CASE accept_end
    <2>1. batch' \in Seq(Event)
        BY <1>7, DoneType DEF accept_end, AcceptEvent, Serves
    <2> QED BY <1>7, <2>1 DEF TypeOK, accept_end, connVars, timerVars, acceptVars
<1>8. ASSUME NEW c \in Conns, handle_read(c) PROVE TypeOK'
    <2>1. batch # <<>>
        BY <1>8 DEF handle_read, read_closed, read_incomplete, request_answered,
            request_pending, request_unwritten, request_answered_and_closed,
            bad_request_answered, bad_request_pending, bad_request_unwritten,
            bad_request_answered_and_closed, ReadRequest, ReadEvent, Serves
    <2>2. CASE read_closed(c)
        BY <2>1, <2>2, DoneType, TouchesType, CloseWithTimeoutType
        DEF TypeOK, read_closed
    <2>3. CASE read_incomplete(c)
        <3>1. Input(c) \in Seq(Pieces)
            BY ParseType
        <3>2. batch' \in Seq(Event)
            BY <2>1, <2>3, ReadDoneType DEF read_incomplete
        <3>3. touched' \subseteq {"tail", "event", "timeout"}
            BY <2>3, TouchesType DEF read_incomplete
        <3> QED BY <2>3, <3>1, <3>2, <3>3, EmptySeq
                DEF TypeOK, read_incomplete, timerVars, acceptVars
    <2>4. CASE request_answered(c)
        <3>1. ready' \in Seq(Sources)
            BY <2>4, ForgetType DEF TypeOK, request_answered
        <3>2. touched' \subseteq {"tail", "event", "timeout"}
            BY <2>4, TouchesType DEF request_answered
        <3>3. proc' \in {"running", "stopping", "dead"}
            BY <2>4 DEF TypeOK, request_answered
        <3> QED BY <2>1, <2>4, <3>1, <3>2, <3>3, ReadRequestType,
                   NextRequestType, WriteType DEF TypeOK, request_answered
    <2>5. CASE request_pending(c)
        <3>1. ready' \in Seq(Sources)
            BY <2>5, ForgetType DEF TypeOK, request_pending
        <3>2. touched' \subseteq {"tail", "event", "timeout"}
            BY <2>5, TouchesType DEF request_pending
        <3>3. proc' \in {"running", "stopping", "dead"}
            BY <2>5 DEF TypeOK, request_pending
        <3> QED BY <2>1, <2>5, <3>1, <3>2, <3>3, ReadRequestType,
                   NextRequestType, WriteType DEF TypeOK, request_pending
    <2>6. CASE request_unwritten(c)
        <3>1. ready' \in Seq(Sources)
            BY <2>6, ForgetType, WakeType DEF TypeOK, request_unwritten, Sources
        <3>2. touched' \subseteq {"tail", "event", "timeout"}
            BY <2>6, TouchesType DEF request_unwritten
        <3> QED BY <2>1, <2>6, <3>1, <3>2, ReadRequestType,
                   NextRequestType, WriteType DEF TypeOK, request_unwritten
    <2>7. CASE request_answered_and_closed(c)
        <3>1. PICK t \in NewTimer(TimerSet(c)) \cup {Nil} :
                  SetTimers(TimerSet(c), t, c)
            BY <2>7 DEF request_answered_and_closed
        <3>2. target' \in [Timers -> Conns \cup {Nil}] /\ fired' \subseteq Timers
            BY <3>1, SetTimersType
        <3>3. ready' \in Seq(Sources)
            BY <2>7, ForgetType DEF TypeOK, request_answered_and_closed
        <3>4. batch' \in Seq(Event)
            BY <2>1, <2>7, DoneType DEF request_answered_and_closed
        <3>5. touched' \subseteq {"tail", "event", "timeout"}
            BY <2>7, TouchesType DEF request_answered_and_closed
        <3> QED BY <2>7, <3>2, <3>3, <3>4, <3>5, CloseType
                DEF TypeOK, request_answered_and_closed, acceptVars
    <2>8. CASE bad_request_answered(c)
        <3>1. ready' \in Seq(Sources)
            BY <2>8, ForgetType DEF TypeOK, bad_request_answered
        <3>2. proc' \in {"running", "stopping", "dead"}
            BY <2>8 DEF TypeOK, bad_request_answered
        <3> QED BY <2>1, <2>8, <3>1, <3>2, ReadRequestType, BadRequestType,
                   WriteType DEF TypeOK, bad_request_answered
    <2>9. CASE bad_request_pending(c)
        <3>1. ready' \in Seq(Sources)
            BY <2>9, ForgetType DEF TypeOK, bad_request_pending
        <3>2. proc' \in {"running", "stopping", "dead"}
            BY <2>9 DEF TypeOK, bad_request_pending
        <3> QED BY <2>1, <2>9, <3>1, <3>2, ReadRequestType, BadRequestType,
                   WriteType DEF TypeOK, bad_request_pending
    <2>10. CASE bad_request_unwritten(c)
        <3>1. ready' \in Seq(Sources)
            BY <2>10, ForgetType, WakeType
            DEF TypeOK, bad_request_unwritten, Sources
        <3> QED BY <2>1, <2>10, <3>1, ReadRequestType, BadRequestType,
                   WriteType DEF TypeOK, bad_request_unwritten
    <2>11. CASE bad_request_answered_and_closed(c)
        BY <2>1, <2>11, DoneType, TouchesType, CloseWithTimeoutType
        DEF TypeOK, bad_request_answered_and_closed
    <2> QED BY <1>8, <2>2, <2>3, <2>4, <2>5, <2>6, <2>7, <2>8, <2>9, <2>10,
               <2>11 DEF handle_read
<1>9. ASSUME NEW c \in Conns, handle_write(c) PROVE TypeOK'
    <2>1. batch # <<>>
        BY <1>9 DEF handle_write, write_drained, write_drained_and_closed,
            write_part, write_failed, WriteEvent, Serves
    <2>2. CASE write_drained(c)
        <3>1. ready' \in Seq(Sources)
            BY <2>2, WakeType DEF TypeOK, write_drained, Sources
        <3>2. batch' \in Seq(Event)
            BY <2>1, <2>2, DoneType DEF write_drained
        <3>3. touched' \subseteq {"tail", "event", "timeout"}
            BY <2>2, TouchesType DEF write_drained
        <3> QED BY <2>2, <3>1, <3>2, <3>3
                DEF TypeOK, write_drained, timerVars, acceptVars
    <2>3. CASE write_drained_and_closed(c)
        BY <2>1, <2>3, DoneType, TouchesType, CloseWithTimeoutType
        DEF TypeOK, write_drained_and_closed
    <2>4. CASE write_part(c)
        <3>1. batch' \in Seq(Event)
            BY <2>1, <2>4, DoneType DEF write_part
        <3>2. touched' \subseteq {"tail", "event", "timeout"}
            BY <2>4, TouchesType DEF write_part
        <3> QED BY <2>4, <3>1, <3>2 DEF TypeOK, write_part, timerVars, acceptVars
    <2>5. CASE write_failed(c)
        BY <2>1, <2>5, DoneType, TouchesType, CloseWithTimeoutType
        DEF TypeOK, write_failed
    <2> QED BY <1>9, <2>2, <2>3, <2>4, <2>5 DEF handle_write
<1>10. ASSUME NEW c \in Conns, hangup(c) PROVE TypeOK'
    BY <1>10, DoneType, TouchesType, CloseWithTimeoutType
    DEF TypeOK, hangup, Serves
<1>11. ASSUME NEW t \in Timers, timeout_closes(t) PROVE TypeOK'
    <2>1. target[t] \in Conns
        BY <1>11 DEF TypeOK, timeout_closes
    <2>2. target' \in [Timers -> Conns \cup {Nil}] /\ fired' \subseteq Timers
        BY <1>11, <2>1, SetTimersType DEF timeout_closes
    <2>3. ready' \in Seq(Sources)
        BY <1>11, ForgetType DEF TypeOK, timeout_closes
    <2>4. batch' \in Seq(Event)
        BY <1>11, DoneType DEF timeout_closes, TimerEvent, Serves
    <2>5. touched' \subseteq {"tail", "event", "timeout"}
        BY <1>11, TouchesType DEF timeout_closes
    <2> QED BY <1>11, <2>1, <2>2, <2>3, <2>4, <2>5, CloseType
            DEF TypeOK, timeout_closes, acceptVars
<1>12. ASSUME NEW t \in Timers, timeout_of_freed(t) PROVE TypeOK'
    <2>1. target' \in [Timers -> Conns \cup {Nil}] /\ fired' \subseteq Timers
        BY <1>12, SetTimersType DEF timeout_of_freed
    <2>2. ready' \in Seq(Sources)
        BY <1>12, ForgetType DEF TypeOK, timeout_of_freed
    <2>3. batch' \in Seq(Event)
        BY <1>12, DoneType DEF timeout_of_freed, TimerEvent, Serves
    <2>4. touched' \subseteq {"tail", "event", "timeout"}
        BY <1>12, TouchesType DEF timeout_of_freed
    <2> QED BY <1>12, <2>1, <2>2, <2>3, <2>4
            DEF TypeOK, timeout_of_freed, connVars, acceptVars
<1>13. CASE stale_event
    <2>1. batch' \in Seq(Event)
        BY <1>13, DoneType DEF stale_event, Serves
    <2>2. touched' \subseteq {"tail", "event", "timeout"}
        BY <1>13, TouchesType DEF stale_event
    <2> QED BY <1>13, <2>1, <2>2
            DEF TypeOK, stale_event, connVars, timerVars, acceptVars
<1>14. CASE http_server_stop
    BY <1>14 DEF TypeOK, http_server_stop, connVars, timerVars, acceptVars
<1>15. CASE Connect
    <2>1. ready' \in Seq(Sources)
        BY <1>15, WakeType DEF TypeOK, Connect, Sources
    <2> QED BY <1>15, <2>1 DEF TypeOK, Connect, connVars, timerVars
<1>16. ASSUME NEW c \in Conns, NEW p \in Pieces, Send(c, p) PROVE TypeOK'
    <2>1. ready' \in Seq(Sources)
        BY <1>16, WakeType DEF TypeOK, Send, Sources
    <2>2. Append(rx[c], p) \in Seq(Pieces)
        BY AppendProperties DEF TypeOK
    <2>3. p # "head" => Append(asked[c], p) \in Seq(Requests)
        BY AppendProperties DEF TypeOK, Pieces
    <2> QED BY <1>16, <2>1, <2>2, <2>3 DEF TypeOK, Send, timerVars, acceptVars
<1>17. ASSUME NEW c \in Conns, NEW how \in {"fin", "gone"}, Leave(c, how)
       PROVE  TypeOK'
    <2>1. ready' \in Seq(Sources)
        BY <1>17, WakeType DEF TypeOK, Leave, Sources
    <2> QED BY <1>17, <2>1 DEF TypeOK, Leave, timerVars, acceptVars
<1>18. ASSUME NEW c \in Conns, Drain(c) PROVE TypeOK'
    <2>1. ready' \in Seq(Sources)
        BY <1>18, WakeType DEF TypeOK, Drain, Sources
    <2> QED BY <1>18, <2>1 DEF TypeOK, Drain, timerVars, acceptVars
<1>19. ASSUME NEW t \in Timers, Expire(t) PROVE TypeOK'
    <2>1. ready' \in Seq(Sources)
        BY <1>19, WakeType DEF TypeOK, Expire, Sources
    <2> QED BY <1>19, <2>1 DEF TypeOK, Expire, connVars, acceptVars
<1> QED
    BY <1>1, <1>2, <1>3, <1>4, <1>5, <1>6, <1>7, <1>8, <1>9, <1>10, <1>11,
       <1>12, <1>13, <1>14, <1>15, <1>16, <1>17, <1>18, <1>19
    DEF Next, event_loop_run, Environment, handle_accept, handle_timer

\* The event loop and its callbacks keep every variable in its type, for any
\* number of connections, timers and events per epoll_wait.
THEOREM TypeCorrect == Spec => []TypeOK
<1>1. Init => TypeOK
    BY EmptySeq DEF Init, TypeOK
<1> QED BY <1>1, TypeOKStep, PTL DEF Spec

-----------------------------------------------------------------------------
(* Every timer belongs to a live connection.                               *)

\* The null pointer is the address of no object.
LEMMA NilIsNoObject == Nil \notin Conns /\ Nil \notin Timers
BY AddressAssumption

\* The two directions of TimersBelong, without its condition.
TimersInverse ==
    /\ \A t \in Timers : target[t] # Nil =>
           target[t] \in live /\ timerOf[target[t]] = t
    /\ \A c \in Conns : timerOf[c] # Nil =>
           c \in live /\ target[timerOf[c]] = c

\* Closing a connection and cancelling its timeout leaves the other timers
\* with their connections.
LEMMA CloseKeepsInverse ==
    ASSUME TypeOK, TimersInverse, NEW c \in Conns, CloseWithTimeout(c)
    PROVE  TimersInverse'
<1>1. /\ live' = live \ {c}
      /\ timerOf' = [timerOf EXCEPT ![c] = Nil]
      /\ \A t \in Timers : target'[t] = IF t = timerOf[c] THEN Nil ELSE target[t]
    BY AddressAssumption
    DEF CloseWithTimeout, event_loop_conn_close, SetTimers, TimerSet
<1>2. ASSUME NEW t \in Timers, target'[t] # Nil
      PROVE  target'[t] \in live' /\ timerOf'[target'[t]] = t
    <2>1. t # timerOf[c] /\ target'[t] = target[t]
        BY <1>1, <1>2
    <2>2. target[t] \in live /\ timerOf[target[t]] = t /\ target[t] \in Conns
        BY <1>2, <2>1 DEF TypeOK, TimersInverse
    <2> QED BY <1>1, <2>1, <2>2 DEF TypeOK
<1>3. ASSUME NEW d \in Conns, timerOf'[d] # Nil
      PROVE  d \in live' /\ target'[timerOf'[d]] = d
    <2>1. d # c /\ timerOf'[d] = timerOf[d]
        BY <1>1, <1>3 DEF TypeOK
    <2>2. d \in live /\ target[timerOf[d]] = d /\ timerOf[d] \in Timers
        BY <1>3, <2>1 DEF TypeOK, TimersInverse
    <2>3. timerOf[d] # timerOf[c]
        BY <1>3, <2>1, <2>2 DEF TimersInverse
    <2> QED BY <1>1, <2>1, <2>2, <2>3
<1> QED BY <1>2, <1>3 DEF TimersInverse

\* Replacing the timeout of a live connection by a free timer, or by none,
\* leaves the other timers with their connections.
LEMMA SetTimersKeepsInverse ==
    ASSUME TypeOK, TimersInverse, NEW c \in live, live' = live,
           NEW t \in NewTimer(TimerSet(c)) \cup {Nil},
           timerOf' = [timerOf EXCEPT ![c] = t],
           SetTimers(TimerSet(c), t, c)
    PROVE  TimersInverse'
<1>1. c \in Conns /\ c # Nil /\ t \in Timers \cup {Nil}
    BY TimerSetType, NewTimerType, AddressAssumption DEF TypeOK
<1>2. t # Nil => t = timerOf[c] \/ target[t] = Nil
    BY DEF NewTimer, TimerSet
<1>3. \A u \in Timers : target'[u] = IF u = t THEN c
                                     ELSE IF u = timerOf[c] THEN Nil
                                     ELSE target[u]
    BY AddressAssumption DEF SetTimers, TimerSet
<1>4. ASSUME NEW u \in Timers, target'[u] # Nil
      PROVE  target'[u] \in live' /\ timerOf'[target'[u]] = u
    <2>1. CASE u = t
        BY <1>1, <1>3, <2>1 DEF TypeOK
    <2>2. CASE u # t
        <3>1. u # timerOf[c] /\ target'[u] = target[u]
            BY <1>3, <1>4, <2>2
        <3>2. target[u] \in live /\ timerOf[target[u]] = u /\ target[u] \in Conns
            BY <1>4, <3>1 DEF TypeOK, TimersInverse
        <3> QED BY <3>1, <3>2 DEF TypeOK
    <2> QED BY <2>1, <2>2
<1>5. ASSUME NEW d \in Conns, timerOf'[d] # Nil
      PROVE  d \in live' /\ target'[timerOf'[d]] = d
    <2>1. CASE d = c
        BY <1>1, <1>3, <1>5, <2>1 DEF TypeOK
    <2>2. CASE d # c
        <3>1. timerOf'[d] = timerOf[d] /\ timerOf[d] \in Timers
            BY <1>5, <2>2 DEF TypeOK
        <3>2. d \in live /\ target[timerOf[d]] = d
            BY <1>5, <3>1 DEF TimersInverse
        <3>3. timerOf[d] # timerOf[c]
            BY <1>1, <1>5, <2>2, <3>1, <3>2 DEF TimersInverse
        <3>4. d # Nil /\ timerOf[d] # Nil
            BY <3>1, NilIsNoObject
        <3>5. timerOf[d] # t
            BY <1>2, <3>2, <3>3, <3>4
        <3> QED BY <1>3, <3>1, <3>2, <3>3, <3>5
    <2> QED BY <2>1, <2>2
<1> QED BY <1>4, <1>5 DEF TimersInverse

\* A step that uses no freed memory keeps timers and connections together.
LEMMA TimersBelongStep ==
    TypeOK /\ TimersBelong /\ [Next]_vars => TimersBelong'
<1> SUFFICES ASSUME TypeOK, TimersBelong, [Next]_vars, touched' = {}
             PROVE  TimersInverse'
    BY DEF TimersBelong, TimersInverse
<1>1. ASSUME touched = {} PROVE TimersInverse
    BY <1>1 DEF TimersBelong, TimersInverse
<1>2. ASSUME touched = {}, UNCHANGED <<live, timerOf, target>>
      PROVE  TimersInverse'
    BY <1>1, <1>2 DEF TimersInverse
<1>3. ASSUME NEW U \in SUBSET {"tail", "event", "timeout"}, Touches(U)
      PROVE  touched = {} /\ U = {} /\ Head(batch).src # Stale
    BY <1>3, TouchesType
<1>4. ASSUME NEW c \in Conns, touched = {}, CloseWithTimeout(c)
      PROVE  TimersInverse'
    BY <1>1, <1>4, CloseKeepsInverse
<1>5. ASSUME NEW c \in Conns, touched = {}, c \in live, NextRequest(c)
      PROVE  TimersInverse'
    <2>1. PICK t \in RearmedTimer(c) :
              /\ timerOf' = [timerOf EXCEPT ![c] = t]
              /\ SetTimers(TimerSet(c), t, c)
        BY <1>5 DEF NextRequest
    <2>2. t \in NewTimer(TimerSet(c)) \cup {Nil}
        BY <2>1 DEF RearmedTimer
    <2> QED BY <1>1, <1>5, <2>1, <2>2, SetTimersKeepsInverse DEF NextRequest
<1>6. ASSUME NEW c \in Conns, c \in live, BadRequest(c)
      PROVE  TimersInverse'
    <2>1. touched = {}
        BY <1>3, <1>6 DEF BadRequest
    <2> QED BY <1>1, <1>6, <2>1, SetTimersKeepsInverse DEF BadRequest
<1>7. CASE UNCHANGED vars
    BY <1>2, <1>7 DEF vars
<1>8. CASE epoll_wait \/ no_event \/ http_server_stop \/ Connect
    BY <1>2, <1>8
    DEF epoll_wait, no_event, http_server_stop, Connect, timerVars
<1>9. CASE accept_over_limit \/ accept_without_memory \/ accept_end
    BY <1>2, <1>9
    DEF accept_over_limit, accept_without_memory, accept_end, timerVars
<1>10. ASSUME NEW c \in Conns, accept_connection(c) PROVE TimersInverse'
    <2>1. PICK t \in NewTimer({}) :
              /\ timerOf' = [timerOf EXCEPT ![c] = t]
              /\ SetTimers({}, t, c)
        BY <1>10 DEF accept_connection
    <2>2. /\ c \notin live /\ live' = live \cup {c} /\ TimersInverse
        BY <1>1, <1>10 DEF accept_connection
    <2>3. t \in Timers \cup {Nil} /\ (t # Nil => target[t] = Nil)
        BY <2>1 DEF NewTimer
    <2>4. \A u \in Timers : target'[u] = IF u = t THEN c ELSE target[u]
        BY <2>1 DEF SetTimers
    <2>5. timerOf[c] = Nil /\ c # Nil
        BY <2>2, AddressAssumption DEF TimersInverse
    <2>6. ASSUME NEW u \in Timers, target'[u] # Nil
          PROVE  target'[u] \in live' /\ timerOf'[target'[u]] = u
        BY <2>1, <2>2, <2>4, <2>5, <2>6 DEF TypeOK, TimersInverse
    <2>7. ASSUME NEW d \in Conns, timerOf'[d] # Nil
          PROVE  d \in live' /\ target'[timerOf'[d]] = d
        <3>1. CASE d = c
            BY <2>1, <2>2, <2>3, <2>4, <2>7, <3>1 DEF TypeOK
        <3>2. CASE d # c
            <4>1. timerOf'[d] = timerOf[d] /\ timerOf[d] \in Timers
                BY <2>1, <2>7, <3>2 DEF TypeOK
            <4>2. d \in live /\ target[timerOf[d]] = d
                BY <2>2, <2>7, <4>1 DEF TimersInverse
            <4>3. d # Nil /\ timerOf[d] # Nil
                BY <4>1, NilIsNoObject
            <4>4. timerOf[d] # t
                BY <2>3, <4>2, <4>3
            <4> QED BY <2>2, <2>4, <4>1, <4>2, <4>4
        <3> QED BY <3>1, <3>2
    <2> QED BY <2>6, <2>7 DEF TimersInverse
<1>11. ASSUME NEW c \in Conns, handle_read(c) PROVE TimersInverse'
    <2>1. CASE read_closed(c)
        BY <1>3, <1>4, <2>1 DEF read_closed
    <2>2. CASE read_incomplete(c)
        BY <1>2, <1>3, <2>2 DEF read_incomplete, timerVars
    <2>3. CASE request_answered(c) \/ request_pending(c) \/ request_unwritten(c)
        BY <1>3, <1>5, <2>3
        DEF request_answered, request_pending, request_unwritten, ReadRequest,
            ReadEvent
    <2>4. CASE request_answered_and_closed(c)
        BY <1>3, <2>4 DEF request_answered_and_closed
    <2>5. CASE bad_request_answered(c) \/ bad_request_pending(c)
               \/ bad_request_unwritten(c)
        BY <1>6, <2>5
        DEF bad_request_answered, bad_request_pending, bad_request_unwritten,
            ReadRequest, ReadEvent
    <2>6. CASE bad_request_answered_and_closed(c)
        BY <1>3, <2>6 DEF bad_request_answered_and_closed
    <2> QED BY <1>11, <2>1, <2>2, <2>3, <2>4, <2>5, <2>6 DEF handle_read
<1>12. ASSUME NEW c \in Conns, handle_write(c) PROVE TimersInverse'
    <2>1. CASE write_drained(c) \/ write_part(c)
        BY <1>2, <1>3, <2>1 DEF write_drained, write_part, timerVars
    <2>2. CASE write_drained_and_closed(c) \/ write_failed(c)
        BY <1>3, <1>4, <2>2 DEF write_drained_and_closed, write_failed
    <2> QED BY <1>12, <2>1, <2>2 DEF handle_write
<1>13. ASSUME NEW c \in Conns, hangup(c) PROVE TimersInverse'
    BY <1>3, <1>4, <1>13 DEF hangup
\* The timer that fires is the timeout of the connection it closes, so that
\* no other timer is left with a freed connection.
<1>14. ASSUME NEW t \in Timers, timeout_closes(t) PROVE TimersInverse'
    <2> DEFINE c == target[t]
    <2>1. c \in live /\ c \in Conns /\ touched = {} /\ TimersInverse
        BY <1>1, <1>3, <1>14 DEF TypeOK, timeout_closes
    <2>2. timerOf[c] = t
        BY <1>14, <2>1 DEF timeout_closes, TimerEvent, TimersInverse
    <2>3. CloseWithTimeout(c)
        BY <1>14, <2>1, <2>2, AddressAssumption
        DEF timeout_closes, CloseWithTimeout, SetTimers, TimerSet
    <2> QED BY <1>4, <2>1, <2>3
<1>15. ASSUME NEW t \in Timers, timeout_of_freed(t) PROVE TimersInverse'
    BY <1>3, <1>15 DEF timeout_of_freed
<1>16. CASE stale_event
    BY <1>3, <1>16 DEF stale_event, Serves
<1>17. ASSUME NEW c \in Conns, NEW p \in Pieces, Send(c, p)
       PROVE  TimersInverse'
    BY <1>2, <1>17 DEF Send, timerVars
<1>18. ASSUME NEW c \in Conns, NEW how \in {"fin", "gone"}, Leave(c, how)
       PROVE  TimersInverse'
    BY <1>2, <1>18 DEF Leave, timerVars
<1>19. ASSUME NEW c \in Conns, Drain(c) PROVE TimersInverse'
    BY <1>2, <1>19 DEF Drain, timerVars
<1>20. ASSUME NEW t \in Timers, Expire(t) PROVE TimersInverse'
    BY <1>2, <1>20 DEF Expire
<1> QED
    BY <1>7, <1>8, <1>9, <1>10, <1>11, <1>12, <1>13, <1>14, <1>15, <1>16,
       <1>17, <1>18, <1>19, <1>20
    DEF Next, event_loop_run, Environment, handle_accept, handle_timer

\* As long as no freed memory is used, the timer callbacks of
\* stdlib_http_server.c find the connection they were armed for, and every
\* connection that is freed takes its timeout with it.
THEOREM TimersAlwaysBelong == Spec => []TimersBelong
<1>1. Init => TimersBelong
    BY DEF Init, TimersBelong
<1>2. TypeOK /\ TimersBelong /\ [Next]_vars => TimersBelong'
    BY TimersBelongStep
<1> QED BY <1>1, <1>2, TypeCorrect, PTL DEF Spec

-----------------------------------------------------------------------------
(* Connections are closed by their own events.                             *)

\* A step that frees connection d dispatches an event of d or of its timeout.
LEMMA ClosedByOwnEventStep ==
    ASSUME TypeOK, TimersBelong, Next, touched' = {}, NEW d \in live \ live'
    PROVE  Head(batch).src \in {d, timerOf[d]}
<1>1. ASSUME NEW U \in SUBSET {"tail", "event", "timeout"}, Touches(U)
      PROVE  touched = {} /\ U = {} /\ Head(batch).src # Stale
    BY <1>1, TouchesType
<1>2. ASSUME NEW c \in Conns, event_loop_conn_close(c)
      PROVE  d = c
    BY <1>2 DEF event_loop_conn_close
<1>3. ASSUME NEW c \in Conns, Serves(c), Head(batch).src # Stale,
             CloseWithTimeout(c)
      PROVE  Head(batch).src \in {d, timerOf[d]}
    BY <1>2, <1>3 DEF CloseWithTimeout, Serves
<1>4. ASSUME NEW c \in Conns, handle_read(c)
      PROVE  Head(batch).src \in {d, timerOf[d]}
    <2>1. CASE read_closed(c) \/ bad_request_answered_and_closed(c)
        BY <1>1, <1>3, <2>1
        DEF read_closed, bad_request_answered_and_closed, ReadEvent
    <2>2. CASE request_answered_and_closed(c)
        BY <1>1, <2>2 DEF request_answered_and_closed
    <2> QED
        BY <1>4, <2>1, <2>2
        DEF handle_read, read_incomplete, request_answered, request_pending,
            request_unwritten, bad_request_answered, bad_request_pending,
            bad_request_unwritten, NextRequest, BadRequest
<1>5. ASSUME NEW c \in Conns, handle_write(c) \/ hangup(c)
      PROVE  Head(batch).src \in {d, timerOf[d]}
    BY <1>1, <1>3, <1>5
    DEF handle_write, write_drained, write_drained_and_closed, write_part,
        write_failed, hangup, WriteEvent
<1>6. ASSUME NEW t \in Timers, handle_timer(t)
      PROVE  Head(batch).src \in {d, timerOf[d]}
    <2>1. CASE timeout_closes(t)
        <3>1. target[t] \in Conns /\ d = target[t]
            BY <1>2, <2>1 DEF TypeOK, timeout_closes
        <3>2. touched = {} /\ Head(batch).src = t
            BY <1>1, <2>1 DEF timeout_closes, TimerEvent, Serves
        <3>3. timerOf[d] = t
            BY <2>1, <3>1, <3>2 DEF timeout_closes, TimerEvent, TimersBelong
        <3> QED BY <3>2, <3>3
    <2>2. CASE timeout_of_freed(t)
        BY <2>2 DEF timeout_of_freed
    <2> QED BY <1>6, <2>1, <2>2 DEF handle_timer
<1>7. CASE epoll_wait \/ no_event \/ handle_accept \/ stale_event
    BY <1>7
    DEF epoll_wait, no_event, stale_event, handle_accept, accept_over_limit,
        accept_connection, accept_without_memory, accept_end
<1>8. CASE Environment
    BY <1>8
    DEF Environment, http_server_stop, Connect, Send, Leave, Drain, Expire
<1> QED BY <1>4, <1>5, <1>6, <1>7, <1>8 DEF Next, event_loop_run

\* As long as no freed memory is used, what one client does never closes the
\* connection of another.
THEOREM ClosedOnlyByOwnEvent == Spec => ClosedByOwnEvent
<1> DEFINE Own == \A c \in live \ live' :
                      touched' = {} => Head(batch).src \in {c, timerOf[c]}
<1>1. TypeOK /\ TimersBelong /\ [Next]_vars => [Own]_vars
    BY ClosedByOwnEventStep
<1> QED
    BY <1>1, TypeCorrect, TimersAlwaysBelong, PTL DEF Spec, ClosedByOwnEvent

-----------------------------------------------------------------------------
(* The ready list holds allocated objects only.                            *)

\* An edge adds its source to the ready list, which stays without repetition.
LEMMA WakeRange ==
    ASSUME NEW list \in Seq(Sources), IsInjective(list), NEW x \in Sources
    PROVE  Range(Wake(list, x)) = Range(list) \cup {x}
           /\ IsInjective(Wake(list, x))
<1>1. CASE x \in Range(list)
    BY <1>1 DEF Wake
<1>2. CASE x \notin Range(list)
    <2> DEFINE new == Append(list, x)
    <2>1. /\ Wake(list, x) = new
          /\ DOMAIN list = 1..Len(list) /\ Len(list) \in Nat
          /\ DOMAIN new = 1..(Len(list) + 1)
          /\ \A i \in 1..Len(list) : new[i] = list[i]
          /\ new[Len(list) + 1] = x
        BY <1>2, AppendProperties DEF Wake
    <2>2. \A i \in 1..Len(list) : list[i] # x
        BY <1>2, <2>1 DEF Range
    <2> HIDE DEF new
    <2>3. Range(new) = Range(list) \cup {x}
        BY <2>1 DEF Range
    <2>4. IsInjective(new)
        BY <2>1, <2>2 DEF IsInjective
    <2> QED BY <2>1, <2>3, <2>4
<1> QED BY <1>1, <1>2

\* The end of a list without repetition.
LEMMA SubSeqRange ==
    ASSUME NEW list \in Seq(Sources), IsInjective(list), NEW n \in 1..Len(list)
    PROVE  LET rest == SubSeq(list, n + 1, Len(list))
           IN  Range(rest) \subseteq Range(list) /\ IsInjective(rest)
<1> DEFINE rest == SubSeq(list, n + 1, Len(list))
<1>1. /\ DOMAIN rest = 1..(Len(list) - n) /\ Len(list) \in Nat
      /\ DOMAIN list = 1..Len(list)
      /\ \A i \in 1..(Len(list) - n) : rest[i] = list[n + i]
    BY SubSeqProperties
<1> HIDE DEF rest
<1>2. Range(rest) \subseteq Range(list)
    BY <1>1 DEF Range
<1>3. ASSUME NEW i \in DOMAIN rest, NEW j \in DOMAIN rest, rest[i] = rest[j]
      PROVE  i = j
    <2>1. /\ n + i \in DOMAIN list /\ n + j \in DOMAIN list
          /\ list[n + i] = list[n + j]
        BY <1>1, <1>3
    <2>2. n + i = n + j
        BY <2>1 DEF IsInjective
    <2> QED BY <1>1, <2>2
<1>4. IsInjective(rest)
    BY <1>3 DEF IsInjective
<1> QED BY <1>2, <1>4 DEF rest

\* Closing a descriptor joins what is before and behind it in the ready list.
LEMMA ForgetAt ==
    ASSUME NEW list \in Seq(Sources), NEW x \in Range(list)
    PROVE  \E i \in 1..Len(list) :
               /\ list[i] = x
               /\ Forget(list, x) =
                      SubSeq(list, 1, i - 1) \o SubSeq(list, i + 1, Len(list))
<1> DEFINE i == CHOOSE j \in DOMAIN list : list[j] = x
<1>1. \E j \in DOMAIN list : list[j] = x
    BY DEF Range
<1>2. i \in 1..Len(list) /\ list[i] = x
    BY <1>1
<1>3. Forget(list, x) = SubSeq(list, 1, i - 1) \o SubSeq(list, i + 1, Len(list))
    BY DEF Forget, RemoveAt
<1> QED BY <1>2, <1>3

\* Joining what is before and behind position i.
LEMMA JoinProperties ==
    ASSUME NEW list \in Seq(Sources), NEW i \in 1..Len(list)
    PROVE  LET n == Len(list)
               new == SubSeq(list, 1, i - 1) \o SubSeq(list, i + 1, n)
           IN  /\ DOMAIN new = 1..(n - 1)
               /\ \A j \in 1..(n - 1) :
                      new[j] = IF j < i THEN list[j] ELSE list[j + 1]
<1> DEFINE n == Len(list)
           front == SubSeq(list, 1, i - 1)
           back == SubSeq(list, i + 1, n)
<1>1. n \in Nat /\ \A j \in 1..n : list[j] \in Sources
    OBVIOUS
<1>2. /\ front \in Seq(Sources) /\ Len(front) = i - 1
      /\ \A j \in 1..(i - 1) : front[j] = list[j]
    <2>1. \A j \in 1..(i - 1) : list[j] \in Sources
        BY <1>1
    <2> QED BY <2>1, SubSeqProperties
<1>3. /\ back \in Seq(Sources) /\ Len(back) = n - i
      /\ \A j \in 1..(n - i) : back[j] = list[i + j]
    <2>1. \A j \in (i + 1)..n : list[j] \in Sources
        BY <1>1
    <2>2. i + 1 \in Int /\ n \in Int
        BY <1>1
    <2> HIDE DEF n
    <2>3. /\ back \in Seq(Sources)
          /\ Len(back) = IF i + 1 <= n THEN n - (i + 1) + 1 ELSE 0
          /\ \A j \in 1..(n - (i + 1) + 1) : back[j] = list[(i + 1) + j - 1]
        BY <2>1, <2>2, SubSeqProperties
    <2> QED BY <2>2, <2>3 DEF n
<1> HIDE DEF n, front, back
<1>4. /\ front \o back \in Seq(Sources)
      /\ Len(front \o back) = Len(front) + Len(back)
      /\ \A j \in 1..(Len(front) + Len(back)) :
             (front \o back)[j] = IF j <= Len(front) THEN front[j]
                                  ELSE back[j - Len(front)]
    BY <1>2, <1>3, ConcatProperties
<1>5. i \in 1..n
    BY DEF n
<1>6. Len(front) + Len(back) = n - 1 /\ DOMAIN (front \o back) = 1..(n - 1)
    BY <1>1, <1>2, <1>3, <1>4, <1>5
<1>7. ASSUME NEW j \in 1..(n - 1)
      PROVE  (front \o back)[j] = IF j < i THEN list[j] ELSE list[j + 1]
    <2>1. CASE j < i
        BY <1>1, <1>2, <1>4, <1>5, <1>6, <2>1
    <2>2. CASE ~(j < i)
        <3>1. j - (i - 1) \in 1..(n - i) /\ i + (j - (i - 1)) = j + 1
            BY <1>1, <1>5, <2>2
        <3>2. (front \o back)[j] = back[j - (i - 1)]
            BY <1>1, <1>2, <1>4, <1>5, <1>6, <2>2
        <3> QED BY <1>3, <2>2, <3>1, <3>2
    <2> QED BY <2>1, <2>2
<1> QED BY <1>6, <1>7 DEF n, front, back

\* Closing a descriptor takes it out of the ready list, as it is there once.
LEMMA ForgetRange ==
    ASSUME NEW list \in Seq(Sources), IsInjective(list), NEW x
    PROVE  Range(Forget(list, x)) = Range(list) \ {x}
           /\ IsInjective(Forget(list, x))
<1>1. CASE x \notin Range(list)
    BY <1>1 DEF Forget
<1>2. CASE x \in Range(list)
    <2> DEFINE n == Len(list)
               new == Forget(list, x)
    <2>1. PICK i \in 1..n :
              /\ list[i] = x
              /\ DOMAIN new = 1..(n - 1)
              /\ \A j \in 1..(n - 1) :
                     new[j] = IF j < i THEN list[j] ELSE list[j + 1]
        <3>1. PICK i \in 1..n :
                  /\ list[i] = x
                  /\ new = SubSeq(list, 1, i - 1) \o SubSeq(list, i + 1, n)
            BY <1>2, ForgetAt
        <3> QED BY <3>1, JoinProperties
    <2>2. /\ n \in Nat /\ DOMAIN list = 1..n
          /\ \A j, k \in 1..n : list[j] = list[k] => j = k
        BY DEF IsInjective
    <2> HIDE DEF new, n
    <2>3. ASSUME NEW j \in 1..n, j # i
          PROVE  \E k \in 1..(n - 1) : new[k] = list[j]
        <3>1. CASE j < i
            <4>1. j \in 1..(n - 1) /\ new[j] = list[j]
                BY <2>1, <2>2, <3>1
            <4> QED BY <4>1
        <3>2. CASE j > i
            <4>1. j - 1 \in 1..(n - 1) /\ ~(j - 1 < i) /\ (j - 1) + 1 = j
                BY <2>2, <3>2
            <4>2. new[j - 1] = list[j]
                BY <2>1, <4>1
            <4> QED BY <4>1, <4>2
        <3> QED BY <2>2, <2>3, <3>1, <3>2
    <2>4. ASSUME NEW j \in 1..(n - 1)
          PROVE  \E k \in 1..n : k # i /\ new[j] = list[k]
        <3>1. CASE j < i
            <4>1. j \in 1..n /\ j # i /\ new[j] = list[j]
                BY <2>1, <2>2, <3>1
            <4> QED BY <4>1
        <3>2. CASE ~(j < i)
            <4>1. j + 1 \in 1..n /\ j + 1 # i /\ new[j] = list[j + 1]
                BY <2>1, <2>2, <3>2
            <4> QED BY <4>1
        <3> QED BY <3>1, <3>2
    <2>5. Range(new) = Range(list) \ {x}
        <3>1. Range(new) = {new[k] : k \in 1..(n - 1)}
            BY <2>1 DEF Range
        <3>2. Range(list) = {list[k] : k \in 1..n}
            BY <2>2 DEF Range
        <3>3. ASSUME NEW y \in Range(list), y # x PROVE y \in Range(new)
            BY <2>1, <2>3, <3>1, <3>2, <3>3
        <3>4. ASSUME NEW y \in Range(new) PROVE y \in Range(list) /\ y # x
            <4>1. PICK j \in 1..(n - 1) : y = new[j]
                BY <3>1
            <4>2. PICK k \in 1..n : k # i /\ new[j] = list[k]
                BY <2>4
            <4> QED BY <2>1, <2>2, <3>2, <4>1, <4>2
        <3> QED BY <3>3, <3>4
    <2>6. IsInjective(new)
        <3>1. ASSUME NEW j \in 1..(n - 1), NEW k \in 1..(n - 1), new[j] = new[k]
              PROVE  j = k
            BY <2>1, <2>2, <3>1
        <3> QED BY <2>1, <3>1 DEF IsInjective
    <2> QED BY <2>5, <2>6 DEF new
<1> QED BY <1>1, <1>2

\* The objects that epoll_wait may report.
Allocated == live \cup {t \in Timers : target[t] # Nil} \cup {Listener}

\* No source is in the ready list twice, so that Forget leaves none of it.
ReadyInv == IsInjective(ready) /\ Range(ready) \subseteq Allocated

\* Steps that leave the ready list alone and free nothing.
LEMMA ReadyUnchanged ==
    ASSUME ReadyInv, UNCHANGED ready, Allocated \subseteq Allocated'
    PROVE  ReadyInv'
BY DEF ReadyInv

\* Steps that add an edge of an allocated source.
LEMMA ReadyWoken ==
    ASSUME TypeOK, ReadyInv, NEW x \in Allocated, ready' = Wake(ready, x),
           Allocated \subseteq Allocated'
    PROVE  ReadyInv'
<1>1. x \in Sources /\ ready \in Seq(Sources)
    BY DEF TypeOK, Allocated, Sources
<1> QED BY <1>1, WakeRange DEF ReadyInv

\* Steps that close the descriptors x and y.
LEMMA ReadyForgotten ==
    ASSUME TypeOK, ReadyInv, NEW x, NEW y,
           ready' = Forget(Forget(ready, x), y),
           Allocated \ {x, y} \subseteq Allocated'
    PROVE  ReadyInv'
<1>1. ready \in Seq(Sources) /\ Forget(ready, x) \in Seq(Sources)
    BY ForgetType DEF TypeOK
<1>2. /\ Range(Forget(ready, x)) = Range(ready) \ {x}
      /\ IsInjective(Forget(ready, x))
    BY <1>1, ForgetRange DEF ReadyInv
<1>3. /\ Range(ready') = Range(ready) \ {x, y}
      /\ IsInjective(ready')
    BY <1>1, <1>2, ForgetRange
<1> QED BY <1>3 DEF ReadyInv

\* event_loop_conn_close after the timeout of the connection was cancelled.
LEMMA ReadyAfterClose ==
    ASSUME TypeOK, ReadyInv, NEW c \in Conns, CloseWithTimeout(c)
    PROVE  ReadyInv'
<1>1. live' = live \ {c} /\ ready' = Forget(Forget(ready, c), timerOf[c])
    BY DEF CloseWithTimeout, event_loop_conn_close
<1>2. \A t \in Timers : t # timerOf[c] => target'[t] = target[t]
    BY AddressAssumption DEF CloseWithTimeout, SetTimers, TimerSet
<1>3. Allocated \ {c, timerOf[c]} \subseteq Allocated'
    BY <1>1, <1>2 DEF Allocated
<1> QED BY <1>1, <1>3, ReadyForgotten

\* on_data_vek, when the connection stays: its timeout is cancelled, and a new
\* one may be armed, at the same address or another.
LEMMA ReadyAfterRequest ==
    ASSUME TypeOK, ReadyInv, NEW c \in live, NextRequest(c) \/ BadRequest(c),
           \/ ready' = Forget(ready, timerOf[c])
           \/ ready' = Wake(Forget(ready, timerOf[c]), c)
    PROVE  ReadyInv'
<1>1. c \in Conns /\ c # Nil
    BY AddressAssumption DEF TypeOK
<1>2. \E t \in Timers \cup {Nil} : SetTimers(TimerSet(c), t, c)
    BY <1>1, TimerSetType, NewTimerType DEF NextRequest, RearmedTimer, BadRequest
<1>3. live' = live
    BY DEF NextRequest, BadRequest
<1>4. \A t \in Timers : t # timerOf[c] => target'[t] \in {c, target[t]}
    BY <1>2, AddressAssumption DEF SetTimers, TimerSet
<1>5. Allocated \ {timerOf[c]} \subseteq Allocated'
    BY <1>1, <1>3, <1>4 DEF Allocated
<1>6. /\ Forget(ready, timerOf[c]) \in Seq(Sources)
      /\ IsInjective(Forget(ready, timerOf[c]))
      /\ Range(Forget(ready, timerOf[c])) \subseteq Allocated'
    <2>1. ready \in Seq(Sources)
        BY DEF TypeOK
    <2> QED BY <1>5, <2>1, ForgetType, ForgetRange DEF ReadyInv
<1>7. CASE ready' = Forget(ready, timerOf[c])
    BY <1>6, <1>7 DEF ReadyInv
<1>8. CASE ready' = Wake(Forget(ready, timerOf[c]), c)
    <2>1. c \in Sources /\ c \in Allocated'
        BY <1>1, <1>3 DEF Sources, Allocated
    <2>2. /\ Range(ready') = Range(Forget(ready, timerOf[c])) \cup {c}
          /\ IsInjective(ready')
        BY <1>6, <1>8, <2>1, WakeRange
    <2> QED BY <1>6, <2>1, <2>2 DEF ReadyInv
<1> QED BY <1>7, <1>8

\* A step leaves allocated objects only in the ready list.
LEMMA ReadyStep == TypeOK /\ ReadyInv /\ [Next]_vars => ReadyInv'
<1> SUFFICES ASSUME TypeOK, ReadyInv, [Next]_vars PROVE ReadyInv'
    OBVIOUS
<1>1. ASSUME UNCHANGED <<ready, live, target>> PROVE ReadyInv'
    BY <1>1, ReadyUnchanged DEF Allocated
<1>2. CASE UNCHANGED vars
    BY <1>1, <1>2 DEF vars
<1>3. CASE epoll_wait
    <2>1. PICK n \in 1..Len(ready) : ready' = SubSeq(ready, n + 1, Len(ready))
        BY <1>3 DEF epoll_wait
    <2>2. Range(ready') \subseteq Range(ready) /\ IsInjective(ready')
        BY <2>1, SubSeqRange DEF TypeOK, ReadyInv
    <2>3. Allocated' = Allocated
        BY <1>3 DEF epoll_wait, timerVars, Allocated
    <2> QED BY <2>2, <2>3 DEF ReadyInv
<1>4. CASE no_event \/ accept_over_limit \/ accept_without_memory
           \/ accept_end \/ stale_event \/ http_server_stop
    BY <1>1, <1>4
    DEF no_event, accept_over_limit, accept_without_memory, accept_end,
        stale_event, http_server_stop, timerVars
<1>5. ASSUME NEW c \in Conns, accept_connection(c) PROVE ReadyInv'
    <2>1. PICK t \in NewTimer({}) : SetTimers({}, t, c)
        BY <1>5 DEF accept_connection
    <2>2. \A u \in Timers : target[u] # Nil => target'[u] # Nil
        BY <2>1, AddressAssumption DEF SetTimers
    <2>3. live' = live \cup {c} /\ UNCHANGED ready
        BY <1>5 DEF accept_connection
    <2> QED BY <2>2, <2>3, ReadyUnchanged DEF Allocated
<1>6. ASSUME NEW c \in Conns, handle_read(c) PROVE ReadyInv'
    <2>1. CASE read_closed(c) \/ bad_request_answered_and_closed(c)
        BY <2>1, ReadyAfterClose
        DEF read_closed, bad_request_answered_and_closed
    <2>2. CASE read_incomplete(c)
        BY <1>1, <2>2 DEF read_incomplete, timerVars
    <2>3. CASE request_answered(c) \/ request_pending(c) \/ request_unwritten(c)
        BY <2>3, ReadyAfterRequest
        DEF request_answered, request_pending, request_unwritten, ReadRequest,
            ReadEvent
    <2>4. CASE request_answered_and_closed(c)
        <3>1. PICK t \in NewTimer(TimerSet(c)) \cup {Nil} :
                  SetTimers(TimerSet(c), t, c)
            BY <2>4 DEF request_answered_and_closed
        <3>2. /\ live' = live \ {c}
              /\ ready' = Forget(Forget(ready, c), timerOf[c])
            BY <2>4 DEF request_answered_and_closed, event_loop_conn_close
        <3>3. \A u \in Timers : u # timerOf[c] => target'[u] \in {c, target[u]}
            BY <3>1, AddressAssumption DEF SetTimers, TimerSet
        <3>4. Allocated \ {c, timerOf[c]} \subseteq Allocated'
            BY <3>2, <3>3, AddressAssumption DEF Allocated
        <3> QED BY <3>2, <3>4, ReadyForgotten
    <2>5. CASE bad_request_answered(c) \/ bad_request_pending(c)
               \/ bad_request_unwritten(c)
        BY <2>5, ReadyAfterRequest
        DEF bad_request_answered, bad_request_pending, bad_request_unwritten,
            ReadRequest, ReadEvent
    <2> QED BY <1>6, <2>1, <2>2, <2>3, <2>4, <2>5 DEF handle_read
<1>7. ASSUME NEW c \in Conns, handle_write(c) PROVE ReadyInv'
    <2>1. CASE write_drained(c)
        <3>1. c \in Allocated /\ Allocated' = Allocated
            BY <2>1 DEF write_drained, WriteEvent, timerVars, Allocated
        <3>2. CASE Readable(c)
            BY <2>1, <3>1, <3>2, ReadyWoken DEF write_drained
        <3>3. CASE ~Readable(c)
            BY <2>1, <3>1, <3>3, ReadyUnchanged DEF write_drained
        <3> QED BY <3>2, <3>3
    <2>2. CASE write_part(c)
        BY <1>1, <2>2 DEF write_part, timerVars
    <2>3. CASE write_drained_and_closed(c) \/ write_failed(c)
        BY <2>3, ReadyAfterClose DEF write_drained_and_closed, write_failed
    <2> QED BY <1>7, <2>1, <2>2, <2>3 DEF handle_write
<1>8. ASSUME NEW c \in Conns, hangup(c) PROVE ReadyInv'
    BY <1>8, ReadyAfterClose DEF hangup
<1>9. ASSUME NEW t \in Timers, timeout_closes(t) PROVE ReadyInv'
    <2> DEFINE c == target[t]
    <2>1. /\ live' = live \ {c}
          /\ ready' = Forget(Forget(ready, c), t)
          /\ SetTimers({t}, Nil, c)
        BY <1>9 DEF timeout_closes, event_loop_conn_close
    <2>2. \A u \in Timers : u # t => target'[u] = target[u]
        BY <2>1, AddressAssumption DEF SetTimers
    <2>3. Allocated \ {c, t} \subseteq Allocated'
        BY <2>1, <2>2 DEF Allocated
    <2> QED BY <2>1, <2>3, ReadyForgotten
<1>10. ASSUME NEW t \in Timers, timeout_of_freed(t) PROVE ReadyInv'
    <2>1. /\ live' = live
          /\ ready' = Forget(ready, t)
          /\ SetTimers({t}, Nil, Nil)
        BY <1>10 DEF timeout_of_freed
    <2>2. \A u \in Timers : u # t => target'[u] = target[u]
        BY <2>1, AddressAssumption DEF SetTimers
    <2>3. Range(ready') = Range(ready) \ {t} /\ IsInjective(ready')
        BY <2>1, ForgetRange DEF TypeOK, ReadyInv
    <2>4. Allocated \ {t} \subseteq Allocated'
        BY <2>1, <2>2 DEF Allocated
    <2> QED BY <2>3, <2>4 DEF ReadyInv
<1>11. CASE Connect
    <2>1. Listener \in Allocated /\ Allocated' = Allocated
        BY <1>11 DEF Connect, timerVars, Allocated
    <2> QED BY <1>11, <2>1, ReadyWoken DEF Connect
<1>12. ASSUME NEW c \in Conns,
              \/ \E p \in Pieces : Send(c, p)
              \/ \E how \in {"fin", "gone"} : Leave(c, how)
       PROVE  ReadyInv'
    <2>1. c \in live /\ ready' = Wake(ready, c) /\ UNCHANGED <<live, target>>
        <3>1. CASE \E p \in Pieces : Send(c, p)
            BY <3>1 DEF Send, timerVars
        <3>2. CASE \E how \in {"fin", "gone"} : Leave(c, how)
            BY <3>2 DEF Leave, timerVars
        <3> QED BY <1>12, <3>1, <3>2
    <2>2. c \in Allocated /\ Allocated' = Allocated
        BY <2>1 DEF Allocated
    <2> QED BY <2>1, <2>2, ReadyWoken
<1>13. ASSUME NEW c \in Conns, Drain(c) PROVE ReadyInv'
    <2>1. c \in Allocated /\ Allocated' = Allocated
        BY <1>13 DEF Drain, timerVars, Allocated
    <2>2. CASE wantOut[c]
        BY <1>13, <2>1, <2>2, ReadyWoken DEF Drain
    <2>3. CASE ~wantOut[c]
        BY <1>13, <2>1, <2>3, ReadyUnchanged DEF Drain
    <2> QED BY <2>2, <2>3
<1>14. ASSUME NEW t \in Timers, Expire(t) PROVE ReadyInv'
    <2>1. t \in Allocated /\ Allocated' = Allocated
        BY <1>14 DEF Expire, Allocated
    <2> QED BY <1>14, <2>1, ReadyWoken DEF Expire
<1> QED
    BY <1>2, <1>3, <1>4, <1>5, <1>6, <1>7, <1>8, <1>9, <1>10, <1>11, <1>12,
       <1>13, <1>14
    DEF Next, event_loop_run, Environment, handle_accept, handle_timer

\* Closing a descriptor in event_loop_conn_close and event_loop_cancel_timer
\* leaves no edge behind, even after freed memory was used: epoll_wait never
\* reports an object that is not allocated when it returns.
THEOREM ReadyAlwaysAllocated == Spec => []ReadySourcesAllocated
<1>1. Init => ReadyInv
    BY DEF Init, ReadyInv, IsInjective, Range
<1>2. TypeOK /\ ReadyInv /\ [Next]_vars => ReadyInv'
    BY ReadyStep
<1>3. ReadyInv => ReadySourcesAllocated
    BY DEF ReadyInv, Allocated, ReadySourcesAllocated
<1> QED BY <1>1, <1>2, <1>3, TypeCorrect, PTL DEF Spec

-----------------------------------------------------------------------------
(* No wakeup is lost.                                                      *)

\* What waits for source d before a step still waits for it afterwards.
EventsKept(d) ==
    \A i \in DOMAIN batch : batch[i].src = d =>
        \E j \in DOMAIN batch' : batch'[j] = batch[i]
EdgeKept(d) == d \in Range(ready) => d \in Range(ready')

\* The events behind the head of the batch.
LEMMA TailEvents ==
    ASSUME NEW evs \in Seq(Event), evs # <<>>
    PROVE  /\ DOMAIN evs = 1..Len(evs) /\ Len(evs) \in Nat \ {0}
           /\ Head(evs) = evs[1]
           /\ Tail(evs) \in Seq(Event) /\ Len(Tail(evs)) = Len(evs) - 1
           /\ DOMAIN Tail(evs) = 1..(Len(evs) - 1)
           /\ \A i \in 1..(Len(evs) - 1) : Tail(evs)[i] = evs[i + 1]
<1>1. Len(evs) \in Nat \ {0} /\ DOMAIN evs = 1..Len(evs)
    BY EmptySeq
<1>2. Tail(evs) \in Seq(Event) /\ Len(Tail(evs)) = Len(evs) - 1
    BY HeadTailProperties
<1>3. \A i \in 1..(Len(evs) - 1) : Tail(evs)[i] = evs[i + 1]
    BY <1>2, HeadTailProperties
<1> QED BY <1>1, <1>2, <1>3

\* The event of a source that is not freed is not made stale.
LEMMA MakeStaleKeeps ==
    ASSUME NEW evs \in Seq(Event), NEW F
    PROVE  /\ DOMAIN MakeStale(evs, F) = DOMAIN evs
           /\ \A i \in DOMAIN evs :
                  evs[i].src \notin F => MakeStale(evs, F)[i] = evs[i]
BY DEF MakeStale

\* An event that is done takes none behind it with it.
LEMMA DoneKeepsRest ==
    ASSUME TypeOK, batch # <<>>, NEW F, Done(F),
           NEW i \in DOMAIN batch, i # 1, batch[i].src \notin F
    PROVE  \E j \in DOMAIN batch' : batch'[j] = batch[i]
<1> DEFINE rest == Tail(batch)
<1>1. /\ DOMAIN batch = 1..Len(batch) /\ Len(batch) \in Nat \ {0}
      /\ Head(batch) = batch[1]
      /\ rest \in Seq(Event)
      /\ DOMAIN rest = 1..(Len(batch) - 1)
      /\ \A k \in 1..(Len(batch) - 1) : rest[k] = batch[k + 1]
    BY TailEvents DEF TypeOK
<1> HIDE DEF rest
<1>2. i - 1 \in 1..(Len(batch) - 1) /\ (i - 1) + 1 = i
    BY <1>1
<1>3. rest[i - 1] = batch[i] /\ i - 1 \in DOMAIN rest
    BY <1>1, <1>2
<1>4. batch' = MakeStale(rest, F)
    BY DEF Done, rest
<1>5. i - 1 \in DOMAIN batch' /\ batch'[i - 1] = batch[i]
    BY <1>1, <1>3, <1>4, MakeStaleKeeps
<1> QED BY <1>5

\* handle_read takes no event behind its own with it.
LEMMA ReadDoneKeepsRest ==
    ASSUME TypeOK, batch # <<>>, NEW F, ReadDone(F),
           NEW i \in DOMAIN batch, i # 1, batch[i].src \notin F
    PROVE  \E j \in DOMAIN batch' : batch'[j] = batch[i]
<1>1. CASE ~Head(batch).out
    <2>1. Done(F)
        BY <1>1 DEF ReadDone, Done
    <2> QED BY <2>1, DoneKeepsRest
<1>2. CASE Head(batch).out
    <2> DEFINE rest == Tail(batch)
               first == [Head(batch) EXCEPT !.in = FALSE]
               evs == <<first>> \o rest
    <2>1. /\ DOMAIN batch = 1..Len(batch) /\ Len(batch) \in Nat \ {0}
          /\ Head(batch) = batch[1]
          /\ rest \in Seq(Event) /\ Len(rest) = Len(batch) - 1
          /\ DOMAIN rest = 1..(Len(batch) - 1)
          /\ \A k \in 1..(Len(batch) - 1) : rest[k] = batch[k + 1]
        BY TailEvents DEF TypeOK
    <2>2. batch' = MakeStale(evs, F)
        BY <1>2 DEF ReadDone
    <2>3. batch[1] \in Event
        BY <2>1 DEF TypeOK
    <2>4. first \in Event
        BY <2>1, <2>3 DEF Event
    <2> HIDE DEF rest, first
    <2>5. /\ evs \in Seq(Event) /\ DOMAIN evs = 1..Len(batch)
          /\ \A k \in 2..Len(batch) : evs[k] = rest[k - 1]
        <3>1. <<first>> \in Seq(Event) /\ Len(<<first>>) = 1
            BY <2>4
        <3>2. Len(rest) = Len(batch) - 1
            BY <2>1
        <3>3. evs \in Seq(Event) /\ Len(evs) = Len(<<first>>) + Len(rest)
            BY <2>1, <3>1, ConcatProperties
        <3>4. \A k \in 1..(Len(<<first>>) + Len(rest)) :
                  evs[k] = IF k <= Len(<<first>>) THEN <<first>>[k]
                           ELSE rest[k - Len(<<first>>)]
            BY <2>1, <3>1, ConcatProperties
        <3>5. DOMAIN evs = 1..Len(evs)
            BY <3>3
        <3> HIDE DEF evs
        <3>6. Len(<<first>>) + Len(rest) = Len(batch)
            BY <2>1, <3>1, <3>2
        <3>7. ASSUME NEW k \in 2..Len(batch) PROVE evs[k] = rest[k - 1]
            <4>1. k \in 1..Len(batch) /\ ~(k <= Len(<<first>>))
                BY <2>1, <3>1
            <4> QED BY <3>1, <3>4, <3>6, <4>1
        <3> QED BY <3>3, <3>5, <3>6, <3>7
    <2> HIDE DEF evs
    <2>6. i \in 2..Len(batch)
        BY <2>1
    <2>7. i - 1 \in 1..(Len(batch) - 1) /\ (i - 1) + 1 = i
        BY <2>1, <2>6
    <2>8. evs[i] = batch[i]
        BY <2>1, <2>5, <2>6, <2>7
    <2>9. i \in DOMAIN batch' /\ batch'[i] = batch[i]
        BY <2>1, <2>2, <2>5, <2>8, MakeStaleKeeps
    <2> QED BY <2>9
<1> QED BY <1>1, <1>2

\* A handler takes no event of another source with it.
LEMMA OtherEventsKept ==
    ASSUME TypeOK, batch # <<>>, NEW F, Done(F) \/ ReadDone(F),
           NEW d, d \notin F, Head(batch).src # d
    PROVE  EventsKept(d)
<1>1. Head(batch) = batch[1]
    BY TailEvents DEF TypeOK
<1> SUFFICES ASSUME NEW i \in DOMAIN batch, batch[i].src = d
             PROVE  \E j \in DOMAIN batch' : batch'[j] = batch[i]
    BY DEF EventsKept
<1>2. i # 1 /\ batch[i].src \notin F
    BY <1>1
<1> QED BY <1>2, DoneKeepsRest, ReadDoneKeepsRest

\* After handle_read the same event is looked at for EPOLLOUT.
LEMMA ReadDoneOut ==
    ASSUME TypeOK, batch # <<>>, NEW F, ReadDone(F),
           Head(batch).src \notin F, Head(batch).out
    PROVE  \E j \in DOMAIN batch' : batch'[j].src = Head(batch).src /\ batch'[j].out
<1> DEFINE rest == Tail(batch)
           first == [Head(batch) EXCEPT !.in = FALSE]
           evs == <<first>> \o rest
<1>1. Head(batch) \in Event /\ rest \in Seq(Event)
    BY HeadTailProperties DEF TypeOK
<1>2. first \in Event /\ first.src = Head(batch).src /\ first.out
    BY <1>1 DEF Event
<1>3. batch' = MakeStale(evs, F)
    BY DEF ReadDone
<1> HIDE DEF rest, first
<1>4. evs \in Seq(Event) /\ 1 \in DOMAIN evs /\ evs[1] = first
    BY <1>1, <1>2, ConcatProperties
<1> HIDE DEF evs
<1>5. 1 \in DOMAIN batch' /\ batch'[1] = first
    BY <1>2, <1>3, <1>4, MakeStaleKeeps
<1> QED BY <1>2, <1>5

\* An edge takes no other off the ready list.
LEMMA WakeKeeps ==
    ASSUME TypeOK, ReadyInv, NEW x \in Sources, ready' = Wake(ready, x)
    PROVE  x \in Range(ready') /\ \A d : EdgeKept(d)
<1>1. Range(ready') = Range(ready) \cup {x}
    BY WakeRange DEF TypeOK, ReadyInv
<1> QED BY <1>1 DEF EdgeKept

\* Closing descriptors takes no edge of others off the ready list.
LEMMA ForgetKeeps ==
    ASSUME TypeOK, ReadyInv, NEW x, NEW y, NEW d, d # x, d # y,
           \/ ready' = Forget(ready, x)
           \/ ready' = Forget(Forget(ready, x), y)
    PROVE  EdgeKept(d)
<1>1. ready \in Seq(Sources) /\ Forget(ready, x) \in Seq(Sources)
    BY ForgetType DEF TypeOK
<1>2. /\ Range(Forget(ready, x)) = Range(ready) \ {x}
      /\ IsInjective(Forget(ready, x))
    BY <1>1, ForgetRange DEF ReadyInv
<1>3. Range(Forget(Forget(ready, x), y)) = Range(ready) \ {x, y}
    BY <1>1, <1>2, ForgetRange
<1> QED BY <1>2, <1>3 DEF EdgeKept

\* An event of c is to come that makes handle_read, or handle_write, run, or
\* that ends the connection.
InputShown(c) ==
    \/ c \in Range(ready)
    \/ \E i \in DOMAIN batch : batch[i].src = c /\ (batch[i].in \/ batch[i].hup)
RoomShown(c) ==
    \/ c \in Range(ready)
    \/ \E i \in DOMAIN batch : batch[i].src = c /\ (batch[i].out \/ batch[i].hup)

\* NoLostWakeup of a connection, with the flags that the event must have, and
\* with EPOLLOUT registered as long as the peer is there.
Awake(c) ==
    /\ Readable(c) => InputShown(c)
    /\ unsent[c] > 0 => (wantOut[c] /\ blocked[c]) \/ RoomShown(c)
    /\ unsent[c] > 0 => wantOut[c] \/ peer[c] = "gone"

\* What a new connection at this address starts with.
Fresh(c) == rx[c] = <<>> /\ peer[c] = "up" /\ unsent[c] = 0

Waits(c) == IF c \in live THEN Awake(c) ELSE Fresh(c)
WakeInv == \A c \in Conns : Waits(c)

\* The socket and the response of d are as they were.
SameSocket(d) ==
    /\ rx'[d] = rx[d] /\ peer'[d] = peer[d] /\ unsent'[d] = unsent[d]
    /\ wantOut'[d] = wantOut[d] /\ blocked'[d] = blocked[d]

\* Edges and events that are kept show what they did.
LEMMA ShownKept ==
    ASSUME NEW d, EdgeKept(d), EventsKept(d)
    PROVE  /\ InputShown(d) => InputShown(d)'
           /\ RoomShown(d) => RoomShown(d)'
<1>1. ASSUME NEW i \in DOMAIN batch, batch[i].src = d
      PROVE  \E j \in DOMAIN batch' : batch'[j] = batch[i]
    BY <1>1 DEF EventsKept
<1>2. InputShown(d) => InputShown(d)'
    BY <1>1 DEF EdgeKept, InputShown
<1>3. RoomShown(d) => RoomShown(d)'
    BY <1>1 DEF EdgeKept, RoomShown
<1> QED BY <1>2, <1>3

\* A connection that a step does not touch goes on waiting as it did.
LEMMA OtherWaits ==
    ASSUME NEW d, Waits(d), d \in live <=> d \in live',
           SameSocket(d), EdgeKept(d), EventsKept(d)
    PROVE  Waits(d)'
<1>1. CASE d \in live
    <2>1. Awake(d)
        BY <1>1 DEF Waits
    <2>2. Readable(d)' <=> Readable(d)
        BY DEF SameSocket, Readable
    <2>3. Readable(d)' => InputShown(d)'
        BY <2>1, <2>2, ShownKept DEF Awake
    <2>4. (unsent[d] > 0)' => ((wantOut[d] /\ blocked[d]) \/ RoomShown(d))'
        BY <2>1, ShownKept DEF Awake, SameSocket
    <2>5. (unsent[d] > 0)' => (wantOut[d] \/ peer[d] = "gone")'
        BY <2>1 DEF Awake, SameSocket
    <2>6. Awake(d)'
        BY <2>3, <2>4, <2>5 DEF Awake
    <2> QED BY <1>1, <2>6 DEF Waits
<1>2. CASE d \notin live
    BY <1>2 DEF Waits, Fresh, SameSocket
<1> QED BY <1>1, <1>2

\* Steps that touch the socket of no connection.
LEMMA AllWait ==
    ASSUME WakeInv, UNCHANGED <<live, rx, peer, unsent, wantOut, blocked>>,
           \A d \in Conns : EdgeKept(d) /\ EventsKept(d)
    PROVE  WakeInv'
<1> SUFFICES ASSUME NEW d \in Conns PROVE Waits(d)'
    BY DEF WakeInv
<1>1. SameSocket(d)
    BY DEF SameSocket
<1> QED BY <1>1, OtherWaits DEF WakeInv

\* Steps that touch the socket of c only.
LEMMA OthersWait ==
    ASSUME WakeInv, NEW c \in Conns, Waits(c)',
           \A d \in Conns \ {c} :
               (d \in live <=> d \in live') /\ SameSocket(d)
               /\ EdgeKept(d) /\ EventsKept(d)
    PROVE  WakeInv'
<1> SUFFICES ASSUME NEW d \in Conns, d # c PROVE Waits(d)'
    BY DEF WakeInv
<1> QED BY OtherWaits DEF WakeInv

\* A connection that is closed takes nothing of another with it.
LEMMA WaitsAfterClose ==
    ASSUME TypeOK, ReadyInv, WakeInv, NEW c \in Conns, event_loop_conn_close(c),
           batch # <<>>, Head(batch).src \notin Conns \ {c},
           NEW F, F \subseteq {c} \cup Timers, Done(F),
           NEW t \in Timers \cup {Nil},
           ready' = Forget(Forget(ready, c), t)
    PROVE  WakeInv'
<1>1. Waits(c)'
    BY DEF event_loop_conn_close, Waits, Fresh, TypeOK
<1>2. ASSUME NEW d \in Conns \ {c}
      PROVE  (d \in live <=> d \in live') /\ SameSocket(d)
    BY DEF event_loop_conn_close, SameSocket, TypeOK
<1>3. ASSUME NEW d \in Conns \ {c}
      PROVE  EdgeKept(d) /\ EventsKept(d)
    <2>1. d # c /\ d # t /\ d \notin F
        BY AddressAssumption
    <2> QED BY <2>1, ForgetKeeps, OtherEventsKept
<1> QED BY <1>1, <1>2, <1>3, OthersWait

\* The handlers of c get no event of another connection.
LEMMA ServesNoOther ==
    ASSUME NEW x, x \in Conns \/ x \notin Conns, Serves(x)
    PROVE  batch # <<>> /\ Head(batch).src \notin Conns \ {x}
BY AddressAssumption DEF Serves

\* Closing a connection with its timeout, in any of the handlers.
LEMMA WaitsAfterCloseWithTimeout ==
    ASSUME TypeOK, ReadyInv, WakeInv, NEW c \in Conns, CloseWithTimeout(c),
           Serves(c), Done({c} \cup TimerSet(c))
    PROVE  WakeInv'
<1>1. batch # <<>> /\ Head(batch).src \notin Conns \ {c}
    BY ServesNoOther
<1>2. {c} \cup TimerSet(c) \subseteq {c} \cup Timers
    BY TimerSetType
<1>3. /\ event_loop_conn_close(c)
      /\ ready' = Forget(Forget(ready, c), timerOf[c])
      /\ timerOf[c] \in Timers \cup {Nil}
    BY DEF CloseWithTimeout, TypeOK
<1> QED BY <1>1, <1>2, <1>3, WaitsAfterClose

\* epoll_wait reports what every source of its events waits for.
LEMMA WaitsAfterEpoll ==
    ASSUME TypeOK, WakeInv, epoll_wait
    PROVE  WakeInv'
<1> SUFFICES ASSUME NEW d \in Conns PROVE Waits(d)'
    BY DEF WakeInv
<1>1. PICK n \in 1..Len(ready) :
          /\ batch' = [i \in 1..n |-> EventOf(ready[i])]
          /\ ready' = SubSeq(ready, n + 1, Len(ready))
    BY DEF epoll_wait
<1>2. batch = <<>> /\ UNCHANGED <<live, rx, peer, unsent, wantOut, blocked>>
    BY DEF epoll_wait, connVars
<1>3. CASE d \notin live
    BY <1>2, <1>3 DEF WakeInv, Waits, Fresh
<1>4. CASE d \in live
    <2>1. Awake(d)
        BY <1>4 DEF WakeInv, Waits
    <2>2. \A i \in DOMAIN batch : FALSE
        BY <1>2
    <2>3. (InputShown(d) => d \in Range(ready)) /\ (RoomShown(d) => d \in Range(ready))
        BY <2>2 DEF InputShown, RoomShown
    <2>4. DOMAIN ready = 1..Len(ready) /\ Len(ready) \in Nat
          /\ \A i \in 1..Len(ready) : ready[i] \in Sources
        BY DEF TypeOK
    <2>5. \A i \in (n + 1)..Len(ready) : ready[i] \in Sources
        BY <2>4
    <2>6. /\ DOMAIN ready' = 1..(Len(ready) - n)
          /\ \A i \in 1..(Len(ready) - n) : ready'[i] = ready[n + i]
        BY <1>1, <2>4, <2>5, SubSeqProperties
    <2>7. DOMAIN batch' = 1..n /\ \A i \in 1..n : batch'[i] = EventOf(ready[i])
        BY <1>1
    <2>8. ASSUME d \in Range(ready)
          PROVE  d \in Range(ready') \/ \E i \in 1..n : ready[i] = d
        <3>1. PICK k \in 1..Len(ready) : ready[k] = d
            BY <2>4, <2>8 DEF Range
        <3>2. CASE k > n
            <4>1. k - n \in 1..(Len(ready) - n) /\ n + (k - n) = k
                BY <2>4, <3>2
            <4>2. k - n \in DOMAIN ready' /\ ready'[k - n] = d
                BY <2>6, <3>1, <4>1
            <4> QED BY <4>2 DEF Range
        <3>3. CASE ~(k > n)
            BY <2>4, <3>1, <3>3
        <3> QED BY <3>2, <3>3
    <2>9. ASSUME NEW i \in 1..n, ready[i] = d, Readable(d) \/ Writable(d)
          PROVE  /\ batch'[i].src = d
                 /\ batch'[i].in <=> Readable(d)
                 /\ batch'[i].out <=> Writable(d)
                 /\ batch'[i].hup <=> peer[d] = "gone"
        <3>1. batch'[i] = EventOf(d) /\ Reports(d)
            BY <2>7, <2>9 DEF Reports
        <3>2. /\ EventOf(d).src = IF Reports(d) THEN d ELSE Nil
              /\ EventOf(d).in = IF d \in Conns THEN Readable(d) ELSE TRUE
              /\ EventOf(d).out = IF d \in Conns THEN Writable(d) ELSE FALSE
              /\ EventOf(d).hup = IF d \in Conns THEN peer[d] = "gone" ELSE FALSE
            BY DEF EventOf
        <3> QED BY <3>1, <3>2, Zenon
    <2>10. Readable(d)' <=> Readable(d)
        BY <1>2 DEF Readable
    <2>11. ASSUME Readable(d) PROVE InputShown(d)'
        <3>1. d \in Range(ready)
            BY <2>1, <2>3, <2>11 DEF Awake
        <3>2. ASSUME NEW i \in 1..n, ready[i] = d PROVE InputShown(d)'
            <4>1. batch'[i].src = d /\ batch'[i].in
                BY <2>9, <2>11, <3>2
            <4> QED BY <2>7, <4>1 DEF InputShown
        <3>3. d \in Range(ready') => InputShown(d)'
            BY DEF InputShown
        <3> QED BY <2>8, <3>1, <3>2, <3>3
    <2>12. ASSUME unsent[d] > 0, ~(wantOut[d] /\ blocked[d]) PROVE RoomShown(d)'
        <3>1. d \in Range(ready)
            BY <2>1, <2>3, <2>12 DEF Awake
        <3>2. Writable(d) \/ peer[d] = "gone"
            BY <2>1, <2>12 DEF Awake, Writable
        <3>3. peer[d] = "gone" => Readable(d)
            BY DEF Readable
        <3>4. ASSUME NEW i \in 1..n, ready[i] = d PROVE RoomShown(d)'
            <4>1. batch'[i].src = d /\ (batch'[i].out \/ batch'[i].hup)
                BY <2>9, <3>2, <3>3, <3>4
            <4> QED BY <2>7, <4>1 DEF RoomShown
        <3>5. d \in Range(ready') => RoomShown(d)'
            BY DEF RoomShown
        <3> QED BY <2>8, <3>1, <3>4, <3>5
    <2>13. Awake(d)'
        <3>1. Readable(d)' => InputShown(d)'
            BY <2>10, <2>11
        <3>2. (unsent[d] > 0)' => ((wantOut[d] /\ blocked[d]) \/ RoomShown(d))'
            BY <1>2, <2>12
        <3>3. (unsent[d] > 0)' => (wantOut[d] \/ peer[d] = "gone")'
            BY <1>2, <2>1 DEF Awake
        <3> QED BY <3>1, <3>2, <3>3 DEF Awake
    <2> QED BY <1>2, <1>4, <2>13 DEF Waits
<1> QED BY <1>3, <1>4

\* on_data_vek, when the connection stays: what was received has been read, and
\* the response is out, or is waited for with EPOLLOUT, or has met a reset.
LEMMA WaitsAfterRequest ==
    ASSUME TypeOK, ReadyInv, WakeInv, NEW c \in Conns, NEW K, ReadRequest(c, K),
           NextRequest(c) \/ BadRequest(c),
           \/ WriteAll(c) /\ ready' = Forget(ready, timerOf[c])
           \/ /\ \E u \in 1..(unsent[c] + 1) : WritePart(c, u)
              /\ ready' = Forget(ready, timerOf[c])
           \/ WriteFails(c) /\ ready' = Wake(Forget(ready, timerOf[c]), c)
    PROVE  WakeInv'
<1>1. /\ c \in live /\ batch # <<>> /\ peer[c] = "up"
      /\ rx' = [rx EXCEPT ![c] = <<>>]
      /\ Head(batch).src \notin Conns \ {c}
    BY ServesNoOther DEF ReadRequest, ReadEvent, Serves
<1>2. live' = live /\ ReadDone(TimerSet(c))
    BY DEF NextRequest, BadRequest
<1>3. timerOf[c] \in Timers \cup {Nil} /\ TimerSet(c) \subseteq Timers
    BY TimerSetType DEF TypeOK
<1>4. ASSUME NEW d \in Conns \ {c} PROVE EventsKept(d)
    <2>1. d \notin TimerSet(c) /\ Head(batch).src # d
        BY <1>1, <1>3, AddressAssumption
    <2> QED BY <1>1, <1>2, <2>1, OtherEventsKept
<1>5. ASSUME NEW d \in Conns \ {c} PROVE SameSocket(d)
    <2>1. rx'[d] = rx[d]
        BY <1>1 DEF TypeOK
    <2>2. CASE WriteAll(c)
        BY <2>1, <2>2 DEF SameSocket, WriteAll, TypeOK
    <2>3. ASSUME NEW u \in 1..(unsent[c] + 1), WritePart(c, u) PROVE SameSocket(d)
        BY <2>1, <2>3 DEF SameSocket, WritePart, TypeOK
    <2>4. CASE WriteFails(c)
        BY <2>1, <2>4 DEF SameSocket, WriteFails, TypeOK
    <2> QED BY <2>2, <2>3, <2>4
<1>6. /\ ready \in Seq(Sources) /\ Forget(ready, timerOf[c]) \in Seq(Sources)
      /\ Range(Forget(ready, timerOf[c])) = Range(ready) \ {timerOf[c]}
      /\ IsInjective(Forget(ready, timerOf[c]))
    BY ForgetType, ForgetRange DEF TypeOK, ReadyInv
<1>7. Range(Wake(Forget(ready, timerOf[c]), c)) =
          Range(Forget(ready, timerOf[c])) \cup {c}
    BY <1>6, WakeRange DEF Sources
<1>8. ASSUME NEW d \in Conns \ {c} PROVE EdgeKept(d)
    <2>1. d # timerOf[c]
        BY <1>3, AddressAssumption
    <2> QED BY <1>6, <1>7, <2>1 DEF EdgeKept
<1>9. rx'[c] = <<>>
    BY <1>1 DEF TypeOK
<1>10. CASE WriteAll(c)
    <2>1. unsent'[c] = 0 /\ peer'[c] = "up"
        BY <1>1, <1>10 DEF WriteAll, TypeOK
    <2>2. Awake(c)'
        BY <1>9, <2>1 DEF Awake, Readable
    <2> QED BY <1>1, <1>2, <1>4, <1>5, <1>8, <2>2, OthersWait DEF Waits
<1>11. ASSUME NEW u \in 1..(unsent[c] + 1), WritePart(c, u) PROVE WakeInv'
    <2>1. wantOut'[c] /\ blocked'[c] /\ peer'[c] = "up"
        BY <1>1, <1>11 DEF WritePart, TypeOK
    <2>2. Awake(c)'
        BY <1>9, <2>1 DEF Awake, Readable
    <2> QED BY <1>1, <1>2, <1>4, <1>5, <1>8, <2>2, OthersWait DEF Waits
<1>12. CASE WriteFails(c) /\ ready' = Wake(Forget(ready, timerOf[c]), c)
    <2>1. c \in Range(ready') /\ peer'[c] = "gone"
        BY <1>7, <1>12 DEF WriteFails, TypeOK
    <2>2. Awake(c)'
        BY <2>1 DEF Awake, InputShown, RoomShown
    <2> QED BY <1>1, <1>2, <1>4, <1>5, <1>8, <2>2, OthersWait DEF Waits
<1> QED BY <1>10, <1>11, <1>12

\* A part of a request: what was received has been read, and handle_write
\* still gets its event.
LEMMA WaitsAfterIncomplete ==
    ASSUME TypeOK, ReadyInv, WakeInv, NEW c \in Conns, read_incomplete(c)
    PROVE  WakeInv'
<1>1. /\ c \in live /\ batch # <<>> /\ peer[c] = "up"
      /\ Head(batch).src \notin Conns \ {c} /\ ~Head(batch).hup
      /\ rx' = [rx EXCEPT ![c] = <<>>] /\ ReadDone({})
      /\ UNCHANGED <<live, ready, unsent, wantOut, blocked, peer>>
    BY ServesNoOther DEF read_incomplete, ReadEvent, Serves
<1>2. ASSUME NEW d \in Conns \ {c}
      PROVE  SameSocket(d) /\ EdgeKept(d) /\ EventsKept(d)
    <2>1. SameSocket(d)
        BY <1>1 DEF SameSocket, TypeOK
    <2>2. Head(batch).src # d
        BY <1>1
    <2> QED BY <1>1, <2>1, <2>2, OtherEventsKept DEF EdgeKept
<1>3. Awake(c)
    BY <1>1 DEF WakeInv, Waits
<1>4. ~Readable(c)'
    <2>1. rx'[c] = <<>> /\ peer'[c] = "up"
        BY <1>1 DEF TypeOK
    <2> QED BY <2>1 DEF Readable
<1>5. ASSUME RoomShown(c) PROVE RoomShown(c)'
    <2>1. CASE c \in Range(ready)
        BY <1>1, <2>1 DEF RoomShown
    <2>2. ASSUME NEW i \in DOMAIN batch, batch[i].src = c, batch[i].out \/ batch[i].hup
          PROVE  RoomShown(c)'
        <3>1. Head(batch) = batch[1]
            BY <1>1, TailEvents DEF TypeOK
        <3>2. CASE i = 1
            BY <1>1, <2>2, <3>1, <3>2, ReadDoneOut DEF RoomShown
        <3>3. CASE i # 1
            BY <1>1, <2>2, <3>3, ReadDoneKeepsRest DEF RoomShown
        <3> QED BY <3>2, <3>3
    <2> QED BY <1>5, <2>1, <2>2 DEF RoomShown
<1>6. Awake(c)'
    <2>1. Readable(c)' => InputShown(c)'
        BY <1>4
    <2>2. (unsent[c] > 0)' => ((wantOut[c] /\ blocked[c]) \/ RoomShown(c))'
        BY <1>1, <1>3, <1>5 DEF Awake
    <2>3. (unsent[c] > 0)' => (wantOut[c] \/ peer[c] = "gone")'
        BY <1>1, <1>3 DEF Awake
    <2> QED BY <2>1, <2>2, <2>3 DEF Awake
<1> QED BY <1>1, <1>2, <1>6, OthersWait DEF Waits

\* handle_write: the response is out, or the rest of it waits for EPOLLOUT.
LEMMA WaitsAfterWrite ==
    ASSUME TypeOK, ReadyInv, WakeInv, NEW c \in Conns,
           write_drained(c) \/ write_part(c)
    PROVE  WakeInv'
<1>1. /\ c \in live /\ live' = live /\ batch # <<>> /\ Done({})
      /\ Head(batch).src \notin Conns \ {c}
      /\ ~Head(batch).hup /\ ~Head(batch).in
      /\ UNCHANGED <<rx, peer>>
    BY ServesNoOther DEF write_drained, write_part, WriteEvent, Serves
<1>2. ASSUME NEW d \in Conns \ {c} PROVE EventsKept(d)
    <2>1. Head(batch).src # d
        BY <1>1
    <2> QED BY <1>1, <2>1, OtherEventsKept
<1>3. ASSUME NEW d \in Conns \ {c} PROVE SameSocket(d)
    <2>1. CASE write_drained(c)
        BY <2>1 DEF write_drained, SameSocket, TypeOK
    <2>2. CASE write_part(c)
        BY <2>2 DEF write_part, SameSocket, TypeOK
    <2> QED BY <2>1, <2>2
<1>4. Awake(c)
    BY <1>1 DEF WakeInv, Waits
<1>5. Readable(c)' <=> Readable(c)
    BY <1>1 DEF Readable
<1>6. CASE write_drained(c)
    <2>1. \A d : EdgeKept(d)
        BY <1>6, WakeKeeps DEF write_drained, EdgeKept, Sources
    <2>2. Readable(c) => c \in Range(ready')
        BY <1>6, WakeKeeps DEF write_drained, Sources
    <2>3. unsent'[c] = 0
        BY <1>6 DEF write_drained, TypeOK
    <2>4. Awake(c)'
        BY <1>5, <2>2, <2>3 DEF Awake, InputShown
    <2> QED BY <1>1, <1>2, <1>3, <2>1, <2>4, OthersWait DEF Waits
<1>7. CASE write_part(c)
    <2>1. \A d : EdgeKept(d)
        BY <1>7 DEF write_part, EdgeKept
    <2>2. PICK u \in 1..unsent[c] : unsent' = [unsent EXCEPT ![c] = u]
        BY <1>7 DEF write_part
    <2>3. unsent[c] \in Nat /\ unsent[c] > 0
        BY <2>2 DEF TypeOK
    <2>4. blocked'[c] /\ wantOut' = wantOut /\ peer[c] # "gone"
        BY <1>7 DEF write_part, TypeOK
    <2>5. wantOut[c]
        BY <1>4, <2>3, <2>4 DEF Awake
    <2>6. ASSUME InputShown(c) PROVE InputShown(c)'
        <3>1. CASE c \in Range(ready)
            BY <2>1, <3>1 DEF EdgeKept, InputShown
        <3>2. ASSUME NEW i \in DOMAIN batch, batch[i].src = c,
                     batch[i].in \/ batch[i].hup
              PROVE  InputShown(c)'
            <4>1. Head(batch) = batch[1]
                BY <1>1, TailEvents DEF TypeOK
            <4>2. i # 1
                BY <1>1, <3>2, <4>1
            <4> QED BY <1>1, <3>2, <4>2, DoneKeepsRest DEF InputShown
        <3> QED BY <2>6, <3>1, <3>2 DEF InputShown
    <2>7. Awake(c)'
        <3>1. Readable(c)' => InputShown(c)'
            BY <1>4, <1>5, <2>6 DEF Awake
        <3> QED BY <2>4, <2>5, <3>1 DEF Awake
    <2> QED BY <1>1, <1>2, <1>3, <2>1, <2>7, OthersWait DEF Waits
<1> QED BY <1>6, <1>7

\* No step leaves a connection waiting for an event that is not to come.
LEMMA WakeStep == TypeOK /\ ReadyInv /\ WakeInv /\ [Next]_vars => WakeInv'
<1> SUFFICES ASSUME TypeOK, ReadyInv, WakeInv, [Next]_vars PROVE WakeInv'
    OBVIOUS
<1>1. ASSUME UNCHANGED <<live, connVars, ready>>,
             batch' = batch \/ (/\ batch # <<>> /\ Done({})
                                /\ Head(batch).src \notin Conns)
      PROVE  WakeInv'
    <2>1. \A d \in Conns : EdgeKept(d)
        BY <1>1 DEF EdgeKept
    <2>2. ASSUME NEW d \in Conns PROVE EventsKept(d)
        <3>1. CASE batch' = batch
            BY <3>1 DEF EventsKept
        <3>2. CASE batch # <<>> /\ Done({}) /\ Head(batch).src \notin Conns
            BY <3>2, OtherEventsKept
        <3> QED BY <1>1, <3>1, <3>2
    <2> QED BY <1>1, <2>1, <2>2, AllWait DEF connVars
<1>2. ASSUME NEW x \in Sources, ready' = Wake(ready, x), UNCHANGED batch,
             UNCHANGED <<live, rx, peer, unsent, wantOut, blocked>>
      PROVE  WakeInv'
    <2>1. \A d \in Conns : EdgeKept(d)
        BY <1>2, WakeKeeps
    <2>2. \A d \in Conns : EventsKept(d)
        BY <1>2 DEF EventsKept
    <2> QED BY <1>2, <2>1, <2>2, AllWait
<1>3. CASE UNCHANGED vars
    BY <1>1, <1>3 DEF vars, connVars
<1>4. CASE epoll_wait
    BY <1>4, WaitsAfterEpoll
<1>5. CASE no_event
    <2>1. Head(batch).src \notin Conns
        BY <1>5, AddressAssumption DEF no_event
    <2> QED BY <1>1, <1>5, <2>1 DEF no_event
<1>6. CASE accept_over_limit \/ accept_end
    <2>1. batch # <<>> /\ Head(batch).src \notin Conns
        BY <1>6, AddressAssumption
        DEF accept_over_limit, accept_end, AcceptEvent, Serves
    <2> QED BY <1>1, <1>6, <2>1 DEF accept_over_limit, accept_end
<1>7. CASE accept_without_memory \/ http_server_stop
    BY <1>1, <1>7 DEF accept_without_memory, http_server_stop
<1>8. ASSUME NEW c \in Conns, accept_connection(c) PROVE WakeInv'
    <2>1. /\ c \notin live /\ live' = live \cup {c}
          /\ UNCHANGED <<rx, peer, unsent, wantOut, blocked, ready, batch>>
        BY <1>8 DEF accept_connection
    <2>2. Fresh(c)
        BY <2>1 DEF WakeInv, Waits
    <2>3. Awake(c)'
        BY <2>1, <2>2 DEF Fresh, Awake, Readable
    <2>4. \A d \in Conns \ {c} :
              (d \in live <=> d \in live') /\ SameSocket(d)
              /\ EdgeKept(d) /\ EventsKept(d)
        BY <2>1 DEF SameSocket, EdgeKept, EventsKept
    <2> QED BY <2>1, <2>3, <2>4, OthersWait DEF Waits
<1>9. ASSUME NEW c \in Conns, handle_read(c) PROVE WakeInv'
    <2>1. CASE read_closed(c) \/ bad_request_answered_and_closed(c)
        BY <2>1, WaitsAfterCloseWithTimeout
        DEF read_closed, bad_request_answered_and_closed, ReadEvent
    <2>2. CASE read_incomplete(c)
        BY <2>2, WaitsAfterIncomplete
    <2>3. CASE request_answered(c)
        BY <2>3, WaitsAfterRequest DEF request_answered
    <2>4. CASE request_pending(c)
        BY <2>4, WaitsAfterRequest DEF request_pending
    <2>5. CASE request_unwritten(c)
        BY <2>5, WaitsAfterRequest DEF request_unwritten
    <2>6. CASE request_answered_and_closed(c)
        <3>1. /\ event_loop_conn_close(c) /\ Serves(c)
              /\ ready' = Forget(Forget(ready, c), timerOf[c])
              /\ Done({c} \cup TimerSet(c))
            BY <2>6 DEF request_answered_and_closed, ReadEvent
        <3>2. batch # <<>> /\ Head(batch).src \notin Conns \ {c}
            BY <3>1, ServesNoOther
        <3>3. {c} \cup TimerSet(c) \subseteq {c} \cup Timers
              /\ timerOf[c] \in Timers \cup {Nil}
            BY TimerSetType DEF TypeOK
        <3> QED BY <3>1, <3>2, <3>3, WaitsAfterClose
    <2>7. CASE bad_request_answered(c)
        BY <2>7, WaitsAfterRequest DEF bad_request_answered
    <2>8. CASE bad_request_pending(c)
        BY <2>8, WaitsAfterRequest DEF bad_request_pending
    <2>9. CASE bad_request_unwritten(c)
        BY <2>9, WaitsAfterRequest DEF bad_request_unwritten
    <2> QED BY <1>9, <2>1, <2>2, <2>3, <2>4, <2>5, <2>6, <2>7, <2>8, <2>9
            DEF handle_read
<1>10. ASSUME NEW c \in Conns, handle_write(c) \/ hangup(c) PROVE WakeInv'
    <2>1. CASE write_drained(c) \/ write_part(c)
        BY <2>1, WaitsAfterWrite
    <2>2. CASE write_drained_and_closed(c) \/ write_failed(c) \/ hangup(c)
        BY <2>2, WaitsAfterCloseWithTimeout
        DEF write_drained_and_closed, write_failed, hangup, WriteEvent
    <2> QED BY <1>10, <2>1, <2>2 DEF handle_write
<1>11. ASSUME NEW t \in Timers, timeout_closes(t) PROVE WakeInv'
    <2>1. /\ target[t] \in Conns /\ event_loop_conn_close(target[t])
          /\ ready' = Forget(Forget(ready, target[t]), t)
          /\ Done({target[t], t}) /\ Serves(t)
        BY <1>11 DEF timeout_closes, TimerEvent, TypeOK
    <2>2. batch # <<>> /\ Head(batch).src \notin Conns
        BY <2>1, AddressAssumption DEF Serves
    <2>3. {target[t], t} \subseteq {target[t]} \cup Timers
        OBVIOUS
    <2> QED BY <2>1, <2>2, <2>3, WaitsAfterClose
<1>12. ASSUME NEW t \in Timers, timeout_of_freed(t) PROVE WakeInv'
    <2>1. /\ UNCHANGED <<live, rx, peer, unsent, wantOut, blocked>>
          /\ ready' = Forget(ready, t) /\ Done({t}) /\ Serves(t)
        BY <1>12 DEF timeout_of_freed, TimerEvent, connVars
    <2>2. batch # <<>> /\ Head(batch).src \notin Conns
        BY <2>1, AddressAssumption DEF Serves
    <2>3. ASSUME NEW d \in Conns PROVE EdgeKept(d) /\ EventsKept(d)
        <3>1. d # t /\ d \notin {t} /\ Head(batch).src # d
            BY <2>2, AddressAssumption
        <3> QED BY <2>1, <2>2, <3>1, ForgetKeeps, OtherEventsKept
    <2> QED BY <2>1, <2>3, AllWait
<1>13. CASE stale_event
    <2>1. batch # <<>> /\ Head(batch).src \notin Conns
        BY <1>13, AddressAssumption DEF stale_event, Serves
    <2> QED BY <1>1, <1>13, <2>1 DEF stale_event
<1>14. CASE Connect
    BY <1>2, <1>14 DEF Connect, connVars, Sources
<1>15. ASSUME NEW c \in Conns,
              \/ \E p \in Pieces : Send(c, p)
              \/ \E how \in {"fin", "gone"} : Leave(c, how)
       PROVE  WakeInv'
    <2>1. /\ c \in live /\ live' = live /\ batch' = batch
          /\ ready' = Wake(ready, c)
          /\ UNCHANGED <<unsent, wantOut, blocked>>
        BY <1>15 DEF Send, Leave
    <2>2. ASSUME NEW d \in Conns \ {c} PROVE SameSocket(d)
        BY <1>15, <2>1 DEF Send, Leave, SameSocket, TypeOK
    <2>3. c \in Range(ready') /\ \A d : EdgeKept(d)
        BY <2>1, WakeKeeps DEF Sources
    <2>4. \A d : EventsKept(d)
        BY <2>1 DEF EventsKept
    <2>5. peer[c] # "gone"
        BY <1>15 DEF Send, Leave
    <2>6. unsent[c] > 0 => wantOut[c]
        BY <2>1, <2>5 DEF WakeInv, Waits, Awake
    <2>7. Awake(c)'
        BY <2>1, <2>3, <2>6 DEF Awake, InputShown, RoomShown
    <2> QED BY <2>1, <2>2, <2>3, <2>4, <2>7, OthersWait DEF Waits
<1>16. ASSUME NEW c \in Conns, Drain(c) PROVE WakeInv'
    <2>1. /\ c \in live /\ live' = live /\ batch' = batch
          /\ blocked' = [blocked EXCEPT ![c] = FALSE]
          /\ ready' = IF wantOut[c] THEN Wake(ready, c) ELSE ready
          /\ UNCHANGED <<rx, peer, unsent, wantOut>>
        BY <1>16 DEF Drain
    <2>2. ASSUME NEW d \in Conns \ {c} PROVE SameSocket(d)
        BY <2>1 DEF SameSocket, TypeOK
    <2>3. (wantOut[c] => c \in Range(ready')) /\ \A d : EdgeKept(d)
        BY <2>1, WakeKeeps DEF Sources, EdgeKept
    <2>4. \A d : EventsKept(d)
        BY <2>1 DEF EventsKept
    <2>5. Awake(c) /\ (InputShown(c) => InputShown(c)')
          /\ (RoomShown(c) => RoomShown(c)')
        BY <2>1, <2>3, <2>4, ShownKept DEF WakeInv, Waits
    <2>6. Awake(c)'
        <3>1. Readable(c)' => InputShown(c)'
            BY <2>1, <2>5 DEF Awake, Readable
        <3>2. (unsent[c] > 0)' => RoomShown(c)'
            BY <2>1, <2>3, <2>5 DEF Awake, RoomShown
        <3>3. (unsent[c] > 0)' => (wantOut[c] \/ peer[c] = "gone")'
            BY <2>1, <2>5 DEF Awake
        <3> QED BY <3>1, <3>2, <3>3 DEF Awake
    <2> QED BY <2>1, <2>2, <2>3, <2>4, <2>6, OthersWait DEF Waits
<1>17. ASSUME NEW t \in Timers, Expire(t) PROVE WakeInv'
    BY <1>2, <1>17 DEF Expire, connVars, Sources
<1> QED
    BY <1>3, <1>4, <1>5, <1>6, <1>7, <1>8, <1>9, <1>10, <1>11, <1>12, <1>13,
       <1>14, <1>15, <1>16, <1>17
    DEF Next, event_loop_run, Environment, handle_accept, handle_timer

\* With edge-triggered epoll, event_loop.c never waits for an event that it has
\* already been given and left: input that is unread, and a response that is
\* not out, have an event to come, for any number of connections and whatever
\* freed memory was used.
THEOREM NoWakeupEverLost == Spec => []NoLostWakeup
<1>1. Init => ReadyInv /\ WakeInv
    BY DEF Init, ReadyInv, IsInjective, Range, WakeInv, Waits, Fresh
<1>2. TypeOK /\ ReadyInv /\ WakeInv /\ [Next]_vars => ReadyInv' /\ WakeInv'
    BY ReadyStep, WakeStep
<1>3. ASSUME TypeOK, WakeInv PROVE NoLostWakeup
    <2> SUFFICES ASSUME NEW c \in live
                 PROVE  /\ unsent[c] > 0 => (wantOut[c] /\ blocked[c]) \/ Pending(c)
                        /\ Readable(c) => Pending(c)
        BY DEF NoLostWakeup
    <2>1. Awake(c)
        BY <1>3 DEF TypeOK, WakeInv, Waits
    <2>2. (InputShown(c) => Pending(c)) /\ (RoomShown(c) => Pending(c))
        BY DEF InputShown, RoomShown, Pending
    <2> QED BY <2>1, <2>2 DEF Awake
<1> QED BY <1>1, <1>2, <1>3, TypeCorrect, PTL DEF Spec

-----------------------------------------------------------------------------
(* Which event may lose its EpollData.                                     *)

\* The events at the places behind the first that have lost their source.
Lost(i) ==
    /\ i \in 2..Len(batch)
    /\ batch[i].src \in Conns \cup Timers
    /\ batch[i].src # Head(batch).src
    /\ \A j \in DOMAIN batch' : batch'[j].src # batch[i].src

\* An event loses its source only to a handler that frees that source.
LEMMA LostIsFreed ==
    ASSUME TypeOK, NEW i, Lost(i)
    PROVE  /\ batch # <<>> /\ batch' # batch
           /\ \A F : Done(F) \/ ReadDone(F) => batch[i].src \in F
<1>1. batch \in Seq(Event) /\ Len(batch) \in Nat /\ i \in 2..Len(batch)
    BY DEF TypeOK, Lost
<1>2. batch # <<>> /\ i \in DOMAIN batch /\ i # 1
    BY <1>1
<1>3. batch' # batch
    BY <1>2 DEF Lost
<1>4. ASSUME NEW F, Done(F) \/ ReadDone(F) PROVE batch[i].src \in F
    <2> SUFFICES ASSUME batch[i].src \notin F PROVE FALSE
        OBVIOUS
    <2>1. PICK j \in DOMAIN batch' : batch'[j] = batch[i]
        BY <1>2, <1>4, DoneKeepsRest, ReadDoneKeepsRest
    <2> QED BY <2>1 DEF Lost
<1> QED BY <1>2, <1>3, <1>4

\* The lost event and the dispatched one are of a connection and its timeout.
LEMMA StaleOnlyByTimeoutStep ==
    ASSUME TypeOK, TimersBelong, Next, touched' = {}, NEW i, Lost(i)
    PROVE  \E c \in live : {batch[i].src, Head(batch).src} = {c, timerOf[c]}
<1> DEFINE x == batch[i].src
           y == Head(batch).src
           Pair == \E c \in live : {x, y} = {c, timerOf[c]}
<1>1. batch # <<>> /\ batch' # batch /\ x # y
    BY LostIsFreed DEF Lost
<1>2. \A F : Done(F) \/ ReadDone(F) => x \in F
    BY LostIsFreed
<1>3. x # Nil /\ x # Stale
    BY AddressAssumption DEF Lost
<1> HIDE DEF x, y
<1>4. ASSUME NEW U \in SUBSET {"tail", "event", "timeout"}, Touches(U)
      PROVE  touched = {} /\ U = {} /\ y # Stale
    BY <1>4, TouchesType DEF y
\* A handler of connection c that frees it with its timer, or its timer only.
<1>5. ASSUME NEW c \in live, Serves(c), y # Stale,
             Done({c} \cup TimerSet(c)) \/ ReadDone(TimerSet(c))
      PROVE  Pair
    <2>1. y = c
        BY <1>5 DEF Serves, y
    <2>2. x \in {c} \cup TimerSet(c)
        <3>1. CASE Done({c} \cup TimerSet(c))
            BY <1>2, <3>1
        <3>2. CASE ReadDone(TimerSet(c))
            <4>1. x \in TimerSet(c)
                BY <1>2, <3>2
            <4> QED BY <4>1
        <3> QED BY <1>5, <3>1, <3>2
    <2>3. x = timerOf[c]
        BY <1>1, <2>1, <2>2 DEF TimerSet
    <2> QED BY <2>1, <2>3
\* A handler that frees nothing.
<1>6. ASSUME Done({}) \/ ReadDone({}) PROVE FALSE
    BY <1>2, <1>6
<1>7. ASSUME UNCHANGED batch PROVE FALSE
    BY <1>1, <1>7
<1>8. CASE epoll_wait
    BY <1>1, <1>8 DEF epoll_wait
<1>9. CASE no_event \/ stale_event \/ handle_accept
    BY <1>6, <1>7, <1>9
    DEF no_event, stale_event, handle_accept, accept_over_limit,
        accept_connection, accept_without_memory, accept_end
<1>10. ASSUME NEW c \in Conns, handle_read(c) PROVE Pair
    <2>1. CASE read_closed(c) \/ bad_request_answered_and_closed(c)
        BY <1>4, <1>5, <2>1
        DEF read_closed, bad_request_answered_and_closed, ReadEvent
    <2>2. CASE read_incomplete(c)
        BY <1>6, <2>2 DEF read_incomplete
    <2>3. CASE request_answered(c) \/ request_pending(c) \/ request_unwritten(c)
        BY <1>4, <1>5, <2>3
        DEF request_answered, request_pending, request_unwritten, ReadRequest,
            ReadEvent, NextRequest
    <2>4. CASE request_answered_and_closed(c)
        BY <1>4, <2>4 DEF request_answered_and_closed
    <2>5. CASE bad_request_answered(c) \/ bad_request_pending(c)
               \/ bad_request_unwritten(c)
        BY <1>4, <1>5, <2>5
        DEF bad_request_answered, bad_request_pending, bad_request_unwritten,
            ReadRequest, ReadEvent, BadRequest
    <2> QED BY <1>10, <2>1, <2>2, <2>3, <2>4, <2>5 DEF handle_read
<1>11. ASSUME NEW c \in Conns, handle_write(c) \/ hangup(c) PROVE Pair
    <2>1. CASE write_drained(c) \/ write_part(c)
        BY <1>6, <2>1 DEF write_drained, write_part
    <2>2. CASE write_drained_and_closed(c) \/ write_failed(c) \/ hangup(c)
        BY <1>4, <1>5, <2>2
        DEF write_drained_and_closed, write_failed, hangup, WriteEvent
    <2> QED BY <1>11, <2>1, <2>2 DEF handle_write
<1>12. ASSUME NEW t \in Timers, handle_timer(t) PROVE Pair
    <2>1. CASE timeout_closes(t)
        <3>1. touched = {} /\ y = t /\ target[t] \in live
            BY <1>4, <2>1 DEF timeout_closes, TimerEvent, Serves, y
        <3>2. timerOf[target[t]] = t
            BY <2>1, <3>1 DEF timeout_closes, TimerEvent, TimersBelong
        <3>3. x \in {target[t], t}
            BY <1>2, <2>1 DEF timeout_closes
        <3> QED BY <1>1, <3>1, <3>2, <3>3
    <2>2. CASE timeout_of_freed(t)
        BY <1>4, <2>2 DEF timeout_of_freed
    <2> QED BY <1>12, <2>1, <2>2 DEF handle_timer
<1>13. CASE Environment
    BY <1>7, <1>13
    DEF Environment, http_server_stop, Connect, Send, Leave, Drain, Expire
<1> QED
    BY <1>8, <1>9, <1>10, <1>11, <1>12, <1>13 DEF Next, event_loop_run, x, y

\* Until the process uses freed memory, an event of the batch of
\* event_loop_run loses its EpollData only when it and the dispatched event are
\* those of one connection and of its own timeout, with timeouts and without,
\* for any number of connections and events.
THEOREM StaleOnlyByOwnTimeout == Spec => StaleOnlyByTimeout
<1> DEFINE Own ==
        touched' = {} =>
            \A i \in 2..Len(batch) :
                LET x == batch[i].src
                    y == Head(batch).src
                IN  x \in Conns \cup Timers /\ x # y
                    /\ (\A j \in DOMAIN batch' : batch'[j].src # x)
                        => \E c \in live : {x, y} = {c, timerOf[c]}
<1>1. TypeOK /\ TimersBelong /\ [Next]_vars => [Own]_vars
    <2> SUFFICES ASSUME TypeOK, TimersBelong, Next, touched' = {}
                 PROVE  Own
        OBVIOUS
    <2>1. \A i : Lost(i) => \E c \in live : {batch[i].src, Head(batch).src} = {c, timerOf[c]}
        BY StaleOnlyByTimeoutStep
    <2> QED BY <2>1 DEF Lost
<1> QED
    BY <1>1, TypeCorrect, TimersAlwaysBelong, PTL DEF Spec, StaleOnlyByTimeout

-----------------------------------------------------------------------------
(* The listening socket is not forgotten.                                  *)

\* Steps that neither serve the listening socket nor close it leave its event.
LEMMA ListenerKept ==
    ASSUME TypeOK, ReadyInv, Pending(Listener), NEW x, NEW y, NEW z \in Sources,
           x # Listener, y # Listener,
           \/ ready' = ready
           \/ ready' = Wake(ready, z)
           \/ ready' = Forget(ready, x)
           \/ ready' = Forget(Forget(ready, x), y)
           \/ ready' = Wake(Forget(ready, x), z),
           NEW F, Listener \notin F,
           \/ batch' = batch
           \/ batch # <<>> /\ Head(batch).src # Listener /\ (Done(F) \/ ReadDone(F))
    PROVE  Pending(Listener)'
<1>1. ready \in Seq(Sources) /\ Forget(ready, x) \in Seq(Sources)
    BY ForgetType DEF TypeOK
<1>2. /\ Range(Forget(ready, x)) = Range(ready) \ {x}
      /\ IsInjective(Forget(ready, x))
    BY <1>1, ForgetRange DEF ReadyInv
<1>3. Range(Wake(Forget(ready, x), z)) = Range(Forget(ready, x)) \cup {z}
    BY <1>1, <1>2, WakeRange
<1>4. EdgeKept(Listener)
    <2>1. CASE ready' = ready
        BY <2>1 DEF EdgeKept
    <2>2. CASE ready' = Wake(ready, z)
        BY <2>2, WakeKeeps
    <2>3. CASE ready' = Forget(ready, x) \/ ready' = Forget(Forget(ready, x), y)
        BY <2>3, ForgetKeeps
    <2>4. CASE ready' = Wake(Forget(ready, x), z)
        BY <1>2, <1>3, <2>4 DEF EdgeKept
    <2> QED BY <2>1, <2>2, <2>3, <2>4
<1>5. EventsKept(Listener)
    <2>1. CASE batch' = batch
        BY <2>1 DEF EventsKept
    <2>2. CASE batch # <<>> /\ Head(batch).src # Listener /\ (Done(F) \/ ReadDone(F))
        BY <2>2, OtherEventsKept
    <2> QED BY <2>1, <2>2
<1> QED BY <1>4, <1>5 DEF Pending, EdgeKept, EventsKept

\* epoll_wait reports the listening socket, or leaves it in the ready list.
LEMMA ListenerReported ==
    ASSUME TypeOK, Pending(Listener), epoll_wait
    PROVE  Pending(Listener)'
<1>1. PICK n \in 1..Len(ready) :
          /\ batch' = [i \in 1..n |-> EventOf(ready[i])]
          /\ ready' = SubSeq(ready, n + 1, Len(ready))
    BY DEF epoll_wait
<1>2. DOMAIN ready = 1..Len(ready) /\ Len(ready) \in Nat
      /\ \A i \in 1..Len(ready) : ready[i] \in Sources
    BY DEF TypeOK
<1>3. \A i \in (n + 1)..Len(ready) : ready[i] \in Sources
    BY <1>2
<1>4. /\ DOMAIN ready' = 1..(Len(ready) - n)
      /\ \A i \in 1..(Len(ready) - n) : ready'[i] = ready[n + i]
    BY <1>1, <1>2, <1>3, SubSeqProperties
<1>5. \A i \in DOMAIN batch : FALSE
    BY DEF epoll_wait
<1>6. PICK k \in 1..Len(ready) : ready[k] = Listener
    BY <1>2, <1>5 DEF Pending, Range
<1>7. CASE k > n
    <2>1. k - n \in 1..(Len(ready) - n) /\ n + (k - n) = k
        BY <1>2, <1>7
    <2>2. k - n \in DOMAIN ready' /\ ready'[k - n] = Listener
        BY <1>4, <1>6, <2>1
    <2> QED BY <2>2 DEF Pending, Range
<1>8. CASE ~(k > n)
    <2>1. k \in 1..n
        BY <1>2, <1>8
    <2>2. EventOf(Listener).src = Listener
        BY AddressAssumption DEF EventOf, Reports
    <2>3. k \in DOMAIN batch' /\ batch'[k].src = Listener
        BY <1>1, <1>6, <2>1, <2>2
    <2> QED BY <2>3 DEF Pending
<1> QED BY <1>7, <1>8

\* No step leaves a connection in the backlog of which the loop is not told.
LEMMA BacklogStep ==
    ASSUME TypeOK, ReadyInv, BacklogHasWakeup, Next,
           ~AtCapacity, live # Conns
    PROVE  BacklogHasWakeup'
<1>1. backlog \in Nat
    BY DEF TypeOK
<1>3. ASSUME UNCHANGED acceptVars, Pending(Listener) => Pending(Listener)'
      PROVE  BacklogHasWakeup'
    BY <1>3 DEF BacklogHasWakeup, acceptVars
<1>4. Nil \in {Nil} /\ Nil # Listener /\ Listener \notin Conns \cup Timers
      /\ Listener # Stale /\ Listener \in Sources /\ Listener \notin {}
    BY AddressAssumption DEF Sources
\* A handler of a connection or timer.
<1>5. ASSUME NEW x \in Conns \cup Timers \cup {Stale}, Serves(x)
      PROVE  batch # <<>> /\ Head(batch).src # Listener
    BY <1>4, <1>5 DEF Serves
<1>6. ASSUME NEW c \in Conns, CloseWithTimeout(c), Serves(c),
             Done({c} \cup TimerSet(c))
      PROVE  BacklogHasWakeup'
    <2>1. timerOf[c] # Listener /\ Listener \notin {c} \cup TimerSet(c) /\ c # Listener
        BY <1>4 DEF TypeOK, TimerSet
    <2>2. ready' = Forget(Forget(ready, c), timerOf[c])
        BY <1>6 DEF CloseWithTimeout
    <2>3. Pending(Listener) => Pending(Listener)'
        BY <1>4, <1>5, <1>6, <2>1, <2>2, ListenerKept
    <2> QED BY <1>3, <1>6, <2>3 DEF CloseWithTimeout
<1>7. ASSUME NEW c \in Conns, NEW K, ReadRequest(c, K), NextRequest(c) \/ BadRequest(c),
             \/ ready' = Forget(ready, timerOf[c])
             \/ ready' = Wake(Forget(ready, timerOf[c]), c)
      PROVE  BacklogHasWakeup'
    <2>1. timerOf[c] # Listener /\ Listener \notin TimerSet(c) /\ c \in Sources
        BY <1>4 DEF TypeOK, TimerSet, Sources
    <2>2. Serves(c) /\ ReadDone(TimerSet(c)) /\ UNCHANGED acceptVars
        BY <1>7 DEF ReadRequest, ReadEvent, NextRequest, BadRequest
    <2>3. Pending(Listener) => Pending(Listener)'
        BY <1>4, <1>5, <1>7, <2>1, <2>2, ListenerKept
    <2> QED BY <1>3, <2>2, <2>3
<1>8. ASSUME UNCHANGED acceptVars,
             \/ ready' = ready
             \/ \E z \in Sources : ready' = Wake(ready, z),
             \/ batch' = batch
             \/ /\ batch # <<>> /\ Head(batch).src # Listener
                /\ Done({}) \/ ReadDone({})
      PROVE  BacklogHasWakeup'
    <2>1. Pending(Listener) => Pending(Listener)'
        BY <1>4, <1>8, ListenerKept
    <2> QED BY <1>3, <1>8, <2>1
<1>10. CASE epoll_wait
    BY <1>3, <1>10, ListenerReported DEF epoll_wait
<1>11. CASE no_event
    BY <1>4, <1>8, <1>11 DEF no_event
<1>12. CASE accept_over_limit \/ accept_without_memory
    BY <1>12 DEF accept_over_limit, accept_without_memory
\* accept() is asked until it has no connection: EAGAIN ends the loop.
<1>13. CASE accept_end
    <2>1. backlog = 0 /\ backlog' = backlog
        BY <1>13 DEF accept_end, acceptVars
    <2> QED BY <2>1 DEF BacklogHasWakeup
<1>14. ASSUME NEW c \in Conns, accept_connection(c) PROVE BacklogHasWakeup'
    <2>1. backlog > 0 /\ UNCHANGED <<batch, ready>>
        BY <1>14 DEF accept_connection
    <2> QED BY <2>1 DEF BacklogHasWakeup, Pending
<1>15. ASSUME NEW c \in Conns, handle_read(c) PROVE BacklogHasWakeup'
    <2>1. CASE read_closed(c) \/ bad_request_answered_and_closed(c)
        BY <1>6, <2>1 DEF read_closed, bad_request_answered_and_closed, ReadEvent
    <2>2. CASE read_incomplete(c)
        <3>1. Serves(c)
            BY <2>2 DEF read_incomplete, ReadEvent
        <3> QED BY <1>5, <1>8, <2>2, <3>1 DEF read_incomplete
    <2>3. CASE request_answered(c) \/ request_pending(c) \/ request_unwritten(c)
        BY <1>7, <2>3 DEF request_answered, request_pending, request_unwritten
    <2>4. CASE request_answered_and_closed(c)
        <3>1. /\ Serves(c) /\ Done({c} \cup TimerSet(c))
              /\ ready' = Forget(Forget(ready, c), timerOf[c])
              /\ UNCHANGED acceptVars
            BY <2>4 DEF request_answered_and_closed, ReadEvent
        <3>2. timerOf[c] # Listener /\ c # Listener
              /\ Listener \notin {c} \cup TimerSet(c)
            BY <1>4 DEF TypeOK, TimerSet
        <3>3. Pending(Listener) => Pending(Listener)'
            BY <1>4, <1>5, <3>1, <3>2, ListenerKept
        <3> QED BY <1>3, <3>1, <3>3
    <2>5. CASE bad_request_answered(c) \/ bad_request_pending(c)
               \/ bad_request_unwritten(c)
        BY <1>7, <2>5
        DEF bad_request_answered, bad_request_pending, bad_request_unwritten
    <2> QED BY <1>15, <2>1, <2>2, <2>3, <2>4, <2>5 DEF handle_read
<1>16. ASSUME NEW c \in Conns, handle_write(c) \/ hangup(c) PROVE BacklogHasWakeup'
    <2>1. CASE write_drained(c) \/ write_part(c)
        <3>1. Serves(c) /\ c \in Sources
            BY <2>1 DEF write_drained, write_part, WriteEvent, Sources
        <3>2. ready' = ready \/ \E z \in Sources : ready' = Wake(ready, z)
            BY <2>1, <3>1 DEF write_drained, write_part
        <3>3. UNCHANGED acceptVars /\ Done({})
            BY <2>1 DEF write_drained, write_part
        <3> QED BY <1>5, <1>8, <3>1, <3>2, <3>3
    <2>2. CASE write_drained_and_closed(c) \/ write_failed(c) \/ hangup(c)
        BY <1>6, <2>2
        DEF write_drained_and_closed, write_failed, hangup, WriteEvent
    <2> QED BY <1>16, <2>1, <2>2 DEF handle_write
<1>17. ASSUME NEW t \in Timers, handle_timer(t) PROVE BacklogHasWakeup'
    <2>1. CASE timeout_closes(t)
        <3>1. /\ Serves(t) /\ Done({target[t], t})
              /\ ready' = Forget(Forget(ready, target[t]), t)
              /\ UNCHANGED acceptVars
            BY <2>1 DEF timeout_closes, TimerEvent
        <3>2. target[t] # Listener /\ t # Listener /\ Listener \notin {target[t], t}
            BY <1>4 DEF TypeOK
        <3>3. Pending(Listener) => Pending(Listener)'
            BY <1>4, <1>5, <3>1, <3>2, ListenerKept
        <3> QED BY <1>3, <3>1, <3>3
    <2>2. CASE timeout_of_freed(t)
        <3>1. /\ Serves(t) /\ Done({t}) /\ ready' = Forget(ready, t)
              /\ UNCHANGED acceptVars
            BY <2>2 DEF timeout_of_freed, TimerEvent
        <3>2. t # Listener /\ Listener \notin {t}
            BY <1>4
        <3>3. Pending(Listener) => Pending(Listener)'
            BY <1>4, <1>5, <3>1, <3>2, ListenerKept
        <3> QED BY <1>3, <3>1, <3>3
    <2> QED BY <1>17, <2>1, <2>2 DEF handle_timer
<1>18. CASE stale_event
    <2>1. Serves(Stale)
        BY <1>18 DEF stale_event
    <2> QED BY <1>5, <1>8, <1>18, <2>1 DEF stale_event
<1>19. CASE http_server_stop
    BY <1>8, <1>19 DEF http_server_stop
<1>20. CASE Connect
    <2>1. ready' = Wake(ready, Listener)
        BY <1>20 DEF Connect
    <2>2. Pending(Listener)'
        BY <1>4, <2>1, WakeKeeps DEF Pending
    <2> QED BY <2>2 DEF BacklogHasWakeup
<1>21. ASSUME NEW c \in Conns,
              \/ \E p \in Pieces : Send(c, p)
              \/ \E how \in {"fin", "gone"} : Leave(c, how)
              \/ Drain(c)
       PROVE  BacklogHasWakeup'
    <2>1. c \in Sources
        BY DEF Sources
    <2> QED BY <1>8, <1>21, <2>1 DEF Send, Leave, Drain
<1>22. ASSUME NEW t \in Timers, Expire(t) PROVE BacklogHasWakeup'
    <2>1. t \in Sources
        BY DEF Sources
    <2> QED BY <1>8, <1>22, <2>1 DEF Expire
<1> QED
    BY <1>10, <1>11, <1>12, <1>13, <1>14, <1>15, <1>16, <1>17, <1>18,
       <1>19, <1>20, <1>21, <1>22
    DEF Next, event_loop_run, Environment, handle_accept

\* Below the limit of connections and with descriptors for accept(), no step of
\* the loop leaves a connection in the backlog that it will not be told of:
\* "Edge-triggered: must accept all pending connections".
THEOREM BacklogAlwaysKept == Spec => BacklogKept
<1>1. Init => ReadyInv
    BY DEF Init, ReadyInv, IsInjective, Range
<1>2. TypeOK /\ ReadyInv /\ [Next]_vars => ReadyInv'
    BY ReadyStep
<1>3. TypeOK /\ ReadyInv /\ [Next]_vars
      => [BacklogHasWakeup /\ ~BacklogHasWakeup' => AtCapacity \/ live = Conns]_vars
    BY BacklogStep
<1> QED BY <1>1, <1>2, <1>3, TypeCorrect, PTL DEF Spec, BacklogKept

-----------------------------------------------------------------------------
(* The server keeps the promise of RequestReply.                           *)

\* The first request that http_parse_request finds, and what it leaves.
LEMMA FirstRequest ==
    ASSUME NEW buf \in Seq(Pieces), http_parse_request(buf) # "incomplete"
    PROVE  \E i \in 1..Len(buf) :
               /\ buf[i] # "head" /\ \A j \in 1..(i - 1) : buf[j] = "head"
               /\ http_parse_request(buf) = buf[i]
               /\ Unconsumed(buf) = SubSeq(buf, i + 1, Len(buf))
<1> DEFINE i == CHOOSE j \in EndOfRequest(buf) : TRUE
<1>1. i \in EndOfRequest(buf) /\ http_parse_request(buf) = buf[i]
    BY DEF http_parse_request
<1>2. Unconsumed(buf) = SubSeq(buf, i + 1, Len(buf))
    BY DEF Unconsumed
<1> HIDE DEF i
<1>3. i \in 1..Len(buf) /\ buf[i] # "head" /\ \A j \in 1..(i - 1) : buf[j] = "head"
    BY <1>1 DEF EndOfRequest
<1> QED BY <1>1, <1>2, <1>3

\* The answers are the first of the requests; the others are in the buffer, the
\* one after k answers at pos[k], with parts of requests between them.
Matches(qs, ans, buf, pos) ==
    /\ Len(ans) <= Len(qs)
    /\ \A k \in 1..Len(ans) : ans[k] = qs[k] /\ ans[k] # "bad"
    /\ pos \in [1..(Len(qs) - Len(ans)) -> 1..Len(buf)]
    /\ \A j, k \in 1..(Len(qs) - Len(ans)) : j < k => pos[j] < pos[k]
    /\ \A k \in 1..(Len(qs) - Len(ans)) : buf[pos[k]] = qs[Len(ans) + k]
    /\ \A i \in 1..Len(buf) :
           buf[i] # "head" => \E k \in 1..(Len(qs) - Len(ans)) : pos[k] = i

\* The m-th of the requests is the first malformed one.
FirstBad(s, m) == s[m] = "bad" /\ \A k \in 1..(m - 1) : s[k] # "bad"
NoneBad(s) == \A k \in 1..Len(s) : s[k] # "bad"
Located(s) == NoneBad(s) \/ \E m \in 1..Len(s) : FirstBad(s, m)

\* The first malformed request has been answered.
Spoiled(qs, ans) ==
    \E m \in 1..Len(qs) :
        m <= Len(ans) /\ FirstBad(qs, m) /\ FirstBad(ans, m)

InStep(qs, ans, buf) ==
    Located(qs) /\ (Spoiled(qs, ans) \/ \E pos : Matches(qs, ans, buf, pos))

\* Before a client has asked anything.
LEMMA InStepAtFirst == InStep(<<>>, <<>>, <<>>)
<1>1. PICK e : e = <<>>
    OBVIOUS
<1>2. Len(e) = 0 /\ e \in [1..0 -> 1..0]
    BY <1>1
<1>3. Matches(e, e, e, e)
    BY <1>2 DEF Matches
<1>4. Located(e)
    BY <1>2 DEF Located, NoneBad
<1> QED BY <1>1, <1>3, <1>4 DEF InStep

\* A list that grows keeps its first malformed request.
LEMMA FirstBadStays ==
    ASSUME NEW s \in Seq(Requests), NEW r \in Requests, NEW m \in 1..Len(s), FirstBad(s, m)
    PROVE  m \in 1..Len(Append(s, r)) /\ FirstBad(Append(s, r), m)
<1> DEFINE new == Append(s, r)
<1>1. Len(new) = Len(s) + 1 /\ Len(s) \in Nat /\ \A k \in 1..Len(s) : new[k] = s[k]
    BY AppendProperties
<1> HIDE DEF new
<1>2. \A k \in 1..(m - 1) : k \in 1..Len(s)
    BY <1>1
<1>3. m \in 1..Len(new)
    BY <1>1
<1>4. FirstBad(new, m)
    BY <1>1, <1>2 DEF FirstBad
<1> QED BY <1>3, <1>4 DEF new

LEMMA LocatedStays ==
    ASSUME NEW s \in Seq(Requests), NEW r \in Requests, Located(s)
    PROVE  Located(Append(s, r))
<1> DEFINE new == Append(s, r)
<1>1. /\ Len(new) = Len(s) + 1 /\ Len(s) \in Nat
      /\ \A k \in 1..Len(s) : new[k] = s[k]
      /\ new[Len(s) + 1] = r
    BY AppendProperties
<1>2. CASE NoneBad(s)
    <2> HIDE DEF new
    <2>1. CASE r = "bad"
        <3>1. FirstBad(new, Len(s) + 1) /\ Len(s) + 1 \in 1..Len(new)
            BY <1>1, <1>2, <2>1 DEF FirstBad, NoneBad
        <3> QED BY <3>1 DEF Located, new
    <2>2. CASE r # "bad"
        <3>1. NoneBad(new)
            BY <1>1, <1>2, <2>2 DEF NoneBad
        <3> QED BY <3>1 DEF Located, new
    <2> QED BY <2>1, <2>2
<1>3. CASE \E m \in 1..Len(s) : FirstBad(s, m)
    BY <1>3, FirstBadStays DEF Located
<1> QED BY <1>2, <1>3 DEF Located

\* A part of a request is sent.
LEMMA InStepAfterHead ==
    ASSUME NEW qs \in Seq(Requests), NEW ans \in Seq(Requests), NEW buf \in Seq(Pieces),
           InStep(qs, ans, buf)
    PROVE  InStep(qs, ans, Append(buf, "head"))
<1>1. CASE Spoiled(qs, ans)
    BY <1>1 DEF InStep
<1>2. ASSUME NEW pos, Matches(qs, ans, buf, pos)
      PROVE  InStep(qs, ans, Append(buf, "head"))
    <2> DEFINE new == Append(buf, "head")
    <2>1. /\ Len(new) = Len(buf) + 1 /\ Len(buf) \in Nat
          /\ \A k \in 1..Len(buf) : new[k] = buf[k]
          /\ new[Len(buf) + 1] = "head"
        BY AppendProperties DEF Pieces
    <2> HIDE DEF new
    <2> DEFINE D == 1..(Len(qs) - Len(ans))
    <2>2. /\ pos \in [D -> 1..Len(buf)]
          /\ \A k \in D : buf[pos[k]] = qs[Len(ans) + k]
          /\ \A i \in 1..Len(buf) : buf[i] # "head" => \E k \in D : pos[k] = i
        BY <1>2 DEF Matches
    <2> HIDE DEF D
    <2>3. pos \in [D -> 1..Len(new)]
        <3>1. \A i \in 1..Len(buf) : i \in 1..Len(new)
            BY <2>1
        <3> QED BY <2>2, <3>1
    <2>4. \A k \in D : new[pos[k]] = qs[Len(ans) + k]
        BY <2>1, <2>2
    <2>5. \A i \in 1..Len(new) : new[i] # "head" => \E k \in D : pos[k] = i
        <3>1. \A i \in 1..Len(new) : i \in 1..Len(buf) \/ i = Len(buf) + 1
            BY <2>1
        <3> QED BY <2>1, <2>2, <3>1
    <2>6. Matches(qs, ans, new, pos)
        BY <1>2, <2>3, <2>4, <2>5 DEF Matches, D
    <2> QED BY <2>6 DEF InStep, new
<1> QED BY <1>1, <1>2 DEF InStep

\* The piece that completes a request is sent.
LEMMA InStepAfterAsk ==
    ASSUME NEW qs \in Seq(Requests), NEW ans \in Seq(Requests), NEW buf \in Seq(Pieces),
           InStep(qs, ans, buf), NEW r \in Requests
    PROVE  InStep(Append(qs, r), ans, Append(buf, r))
<1> DEFINE more == Append(qs, r)
           new == Append(buf, r)
<1>1. /\ Len(more) = Len(qs) + 1 /\ Len(qs) \in Nat /\ Len(ans) \in Nat
      /\ \A k \in 1..Len(qs) : more[k] = qs[k]
      /\ more[Len(qs) + 1] = r
    <2>1. Len(qs) \in Nat /\ Len(ans) \in Nat
        BY LenProperties
    <2>2. Len(more) = Len(qs) + 1 /\ more[Len(qs) + 1] = r
        BY AppendProperties
    <2>3. \A k \in 1..Len(qs) : more[k] = qs[k]
        BY AppendProperties
    <2> QED BY <2>1, <2>2, <2>3
<1>2. /\ Len(new) = Len(buf) + 1 /\ Len(buf) \in Nat
      /\ \A k \in 1..Len(buf) : new[k] = buf[k]
      /\ new[Len(buf) + 1] = r
    BY AppendProperties DEF Pieces
<1>3. Located(more)
    BY LocatedStays DEF InStep
<1>4. CASE Spoiled(qs, ans)
    <2>1. PICK m \in 1..Len(qs) : m <= Len(ans) /\ FirstBad(qs, m) /\ FirstBad(ans, m)
        BY <1>4 DEF Spoiled
    <2>2. m \in 1..Len(more) /\ FirstBad(more, m)
        BY <2>1, FirstBadStays
    <2>3. Spoiled(more, ans)
        BY <2>1, <2>2 DEF Spoiled
    <2> QED BY <1>3, <2>3 DEF InStep
<1>5. ASSUME NEW pos, Matches(qs, ans, buf, pos)
      PROVE  InStep(more, ans, new)
    <2> HIDE DEF more, new
    <2> DEFINE n == Len(qs) - Len(ans)
               longer == [k \in 1..(n + 1) |-> IF k = n + 1 THEN Len(buf) + 1 ELSE pos[k]]
    <2>1. /\ Len(ans) <= Len(qs)
          /\ \A k \in 1..Len(ans) : ans[k] = qs[k] /\ ans[k] # "bad"
          /\ pos \in [1..n -> 1..Len(buf)]
          /\ \A j, k \in 1..n : j < k => pos[j] < pos[k]
          /\ \A k \in 1..n : buf[pos[k]] = qs[Len(ans) + k]
          /\ \A i \in 1..Len(buf) : buf[i] # "head" => \E k \in 1..n : pos[k] = i
        BY <1>5 DEF Matches
    <2>2. n \in Nat /\ n = Len(qs) - Len(ans) /\ Len(more) - Len(ans) = n + 1
        BY <1>1, <2>1
    <2>n. n \in Nat
        BY <2>2
    <2> HIDE DEF n
    <2>3. /\ DOMAIN longer = 1..(n + 1)
          /\ longer[n + 1] = Len(buf) + 1
          /\ \A k \in 1..n : longer[k] = pos[k] /\ k \in 1..(n + 1)
        BY <2>n
    <2>4. \A k \in 1..(n + 1) : k \in 1..n \/ k = n + 1
        BY <2>n
    <2>5. longer \in [1..(n + 1) -> 1..Len(new)]
        <3>1. ASSUME NEW k \in 1..n PROVE pos[k] \in 1..Len(new)
            <4>1. pos[k] \in 1..Len(buf)
                BY <2>1
            <4> QED BY <1>2, <4>1
        <3>2. Len(buf) + 1 \in 1..Len(new)
            BY <1>2
        <3> QED BY <2>4, <3>1, <3>2
    <2> HIDE DEF longer
    <2>6. ASSUME NEW j \in 1..(n + 1), NEW k \in 1..(n + 1), j < k
          PROVE  longer[j] < longer[k]
        <3>1. j \in 1..n
            BY <2>n, <2>6
        <3>2. pos[j] \in 1..Len(buf)
            BY <2>1, <3>1
        <3>3. CASE k \in 1..n
            BY <2>1, <2>3, <2>6, <3>1, <3>3
        <3>4. CASE k = n + 1
            BY <1>2, <2>3, <3>1, <3>2, <3>4
        <3> QED BY <2>4, <3>3, <3>4
    <2>7. ASSUME NEW k \in 1..(n + 1)
          PROVE  new[longer[k]] = more[Len(ans) + k]
        <3>1. CASE k \in 1..n
            <4>1. pos[k] \in 1..Len(buf) /\ longer[k] = pos[k]
                BY <2>1, <2>3, <3>1
            <4>2. Len(ans) + k \in 1..Len(qs)
                BY <1>1, <2>1, <2>2, <3>1
            <4> QED BY <1>1, <1>2, <2>1, <3>1, <4>1, <4>2, SMTT(30)
        <3>2. CASE k = n + 1
            <4>1. Len(ans) + k = Len(qs) + 1
                BY <1>1, <2>1, <2>2, <3>2
            <4> QED BY <1>1, <1>2, <2>3, <3>2, <4>1
        <3> QED BY <2>4, <3>1, <3>2
    <2>8. ASSUME NEW i \in 1..Len(new), new[i] # "head"
          PROVE  \E k \in 1..(n + 1) : longer[k] = i
        <3>1. CASE i = Len(buf) + 1
            <4>1. n + 1 \in 1..(n + 1)
                BY <2>n
            <4> QED BY <2>3, <3>1, <4>1
        <3>2. CASE i # Len(buf) + 1
            <4>1. i \in 1..Len(buf)
                BY <1>2, <3>2
            <4>2. PICK k \in 1..n : pos[k] = i
                BY <1>2, <2>1, <2>8, <4>1
            <4> QED BY <2>3, <4>2
        <3> QED BY <3>1, <3>2
    <2>9. Len(ans) <= Len(more) /\ \A k \in 1..Len(ans) : ans[k] = more[k] /\ ans[k] # "bad"
        <3>1. \A k \in 1..Len(ans) : k \in 1..Len(qs)
            BY <1>1, <2>1
        <3> QED BY <1>1, <2>1, <3>1
    <2>10. Matches(more, ans, new, longer)
        BY <2>2, <2>5, <2>6, <2>7, <2>8, <2>9 DEF Matches
    <2> QED BY <1>3, <2>10 DEF InStep, more, new
<1> QED BY <1>4, <1>5 DEF InStep

\* The first request in the buffer is the next one that was asked.
LEMMA NextRequestIsFirst ==
    ASSUME NEW qs \in Seq(Requests), NEW ans \in Seq(Requests), NEW buf \in Seq(Pieces),
           NEW pos, Matches(qs, ans, buf, pos),
           NEW i \in 1..Len(buf), buf[i] # "head",
           \A j \in 1..(i - 1) : buf[j] = "head"
    PROVE  /\ Len(qs) - Len(ans) \in Nat \ {0}
           /\ pos[1] = i
           /\ buf[i] = qs[Len(ans) + 1]
<1> DEFINE n == Len(qs) - Len(ans)
<1>1. Len(qs) \in Nat /\ Len(ans) \in Nat /\ Len(buf) \in Nat
    BY LenProperties
<1>2. /\ Len(ans) <= Len(qs)
      /\ pos \in [1..n -> 1..Len(buf)]
      /\ \A j, k \in 1..n : j < k => pos[j] < pos[k]
      /\ \A k \in 1..n : buf[pos[k]] = qs[Len(ans) + k]
    BY DEF Matches
<1>3. PICK k \in 1..n : pos[k] = i
    BY DEF Matches
<1>4. n \in Nat /\ n = Len(qs) - Len(ans)
    BY <1>1, <1>2
<1> HIDE DEF n
<1>5. n \in Nat
    BY <1>4
<1>6. 1 \in 1..n /\ n \in Nat \ {0}
    BY <1>3, <1>5
<1>7. \A j \in 1..n : qs[Len(ans) + j] # "head"
    <2>1. ASSUME NEW j \in 1..n PROVE Len(ans) + j \in 1..Len(qs)
        BY <1>1, <1>2, <1>4
    <2>2. \A j \in 1..Len(qs) : qs[j] \in Requests
        BY ElementOfSeq
    <2> QED BY <2>1, <2>2, RequestAssumption
<1>8. k = 1
    <2> SUFFICES ASSUME k # 1 PROVE FALSE
        OBVIOUS
    <2>1. 1 < k
        BY <1>3, <1>5
    <2>2. pos[1] < i /\ pos[1] \in 1..Len(buf)
        BY <1>2, <1>3, <1>6, <2>1
    <2>3. buf[pos[1]] = "head"
        BY <1>1, <2>2
    <2>4. buf[pos[1]] = qs[Len(ans) + 1]
        BY <1>2, <1>6
    <2> QED BY <1>6, <1>7, <2>3, <2>4
<1> QED BY <1>2, <1>3, <1>4, <1>6, <1>8

\* A well-formed request is answered and taken out of the buffer.
LEMMA InStepAfterAnswer ==
    ASSUME NEW qs \in Seq(Requests), NEW ans \in Seq(Requests), NEW buf \in Seq(Pieces),
           NEW pos, Matches(qs, ans, buf, pos), Located(qs),
           NEW i \in 1..Len(buf), buf[i] # "head", buf[i] # "bad",
           \A j \in 1..(i - 1) : buf[j] = "head"
    PROVE  InStep(qs, Append(ans, buf[i]), SubSeq(buf, i + 1, Len(buf)))
<1> DEFINE n == Len(qs) - Len(ans)
           r == buf[i]
           more == Append(ans, r)
           rest == SubSeq(buf, i + 1, Len(buf))
           moved == [k \in 1..(n - 1) |-> pos[k + 1] - i]
<1>1. Len(qs) \in Nat /\ Len(ans) \in Nat /\ Len(buf) \in Nat
    BY LenProperties
<1>2. n \in Nat \ {0} /\ pos[1] = i /\ r = qs[Len(ans) + 1]
    BY NextRequestIsFirst
<1>3. r \in Requests
    <2>1. r \in Pieces
        BY ElementOfSeq
    <2> QED BY <2>1 DEF Pieces
<1>4. /\ Len(more) = Len(ans) + 1
      /\ \A k \in 1..Len(ans) : more[k] = ans[k]
      /\ more[Len(ans) + 1] = r
    BY <1>3, AppendProperties
<1>5. /\ rest \in Seq(Pieces) /\ Len(rest) = Len(buf) - i
      /\ \A k \in 1..(Len(buf) - i) : rest[k] = buf[i + k]
    <2>1. \A j \in (i + 1)..Len(buf) : buf[j] \in Pieces
        BY <1>1, ElementOfSeq
    <2>2. /\ rest \in Seq(Pieces)
          /\ Len(rest) = IF i + 1 <= Len(buf) THEN Len(buf) - (i + 1) + 1 ELSE 0
          /\ \A k \in 1..(Len(buf) - (i + 1) + 1) : rest[k] = buf[(i + 1) + k - 1]
        BY <1>1, <2>1, SubSeqProperties
    <2> HIDE DEF rest
    <2> QED BY <1>1, <2>2
<1>6. /\ Len(ans) <= Len(qs)
      /\ \A k \in 1..Len(ans) : ans[k] = qs[k] /\ ans[k] # "bad"
      /\ pos \in [1..n -> 1..Len(buf)]
      /\ \A j, k \in 1..n : j < k => pos[j] < pos[k]
      /\ \A k \in 1..n : buf[pos[k]] = qs[Len(ans) + k]
      /\ \A j \in 1..Len(buf) : buf[j] # "head" => \E k \in 1..n : pos[k] = j
    BY DEF Matches
<1>7. n = Len(qs) - Len(ans) /\ Len(qs) - Len(more) = n - 1
    BY <1>1, <1>2, <1>4
<1> HIDE DEF n, more, rest, r
<1>8. n \in Nat \ {0}
    BY <1>2
<1>9. ASSUME NEW k \in 1..(n - 1)
      PROVE  /\ k + 1 \in 1..n /\ i < pos[k + 1] /\ pos[k + 1] \in 1..Len(buf)
             /\ moved[k] = pos[k + 1] - i
             /\ moved[k] \in 1..(Len(buf) - i)
    <2>1. k + 1 \in 1..n /\ 1 \in 1..n /\ 1 < k + 1
        BY <1>8
    <2>2. i < pos[k + 1] /\ pos[k + 1] \in 1..Len(buf)
        BY <1>2, <1>6, <2>1
    <2>3. moved[k] = pos[k + 1] - i
        OBVIOUS
    <2> HIDE DEF moved
    <2> QED BY <1>1, <2>1, <2>2, <2>3
<1>10. moved \in [1..(n - 1) -> 1..Len(rest)]
    BY <1>5, <1>9
<1>11. ASSUME NEW j \in 1..(n - 1), NEW k \in 1..(n - 1), j < k
       PROVE  moved[j] < moved[k]
    <2>1. j + 1 < k + 1
        BY <1>8, <1>11
    <2>2. pos[j + 1] < pos[k + 1]
        BY <1>6, <1>9, <2>1
    <2>3. moved[j] = pos[j + 1] - i /\ moved[k] = pos[k + 1] - i
          /\ pos[j + 1] \in 1..Len(buf) /\ pos[k + 1] \in 1..Len(buf)
        BY <1>9
    <2> HIDE DEF moved
    <2> QED BY <1>1, <2>2, <2>3
<1>12. ASSUME NEW k \in 1..(n - 1)
       PROVE  rest[moved[k]] = qs[Len(more) + k]
    <2>1. rest[moved[k]] = buf[i + moved[k]]
        BY <1>5, <1>9
    <2>2. i + moved[k] = pos[k + 1]
        BY <1>1, <1>9
    <2>3. buf[pos[k + 1]] = qs[Len(ans) + (k + 1)]
        BY <1>6, <1>9
    <2>4. Len(ans) + (k + 1) = Len(more) + k
        BY <1>1, <1>4, <1>8
    <2> QED BY <2>1, <2>2, <2>3, <2>4
<1>13. ASSUME NEW j \in 1..Len(rest), rest[j] # "head"
       PROVE  \E k \in 1..(n - 1) : moved[k] = j
    <2>1. i + j \in 1..Len(buf) /\ buf[i + j] # "head"
        BY <1>1, <1>5, <1>13
    <2>2. PICK k \in 1..n : pos[k] = i + j
        BY <1>6, <2>1
    <2>3. k # 1
        BY <1>1, <1>2, <1>5, <2>2
    <2>4. k - 1 \in 1..(n - 1) /\ (k - 1) + 1 = k
        BY <1>8, <2>3
    <2>5. moved[k - 1] = (i + j) - i
        BY <1>9, <2>2, <2>4
    <2>6. (i + j) - i = j
        BY <1>1, <1>5
    <2> QED BY <2>4, <2>5, <2>6
<1>14. Len(more) <= Len(qs)
    BY <1>1, <1>2, <1>4, <1>7
<1>15. \A k \in 1..Len(more) : more[k] = qs[k] /\ more[k] # "bad"
    <2>1. \A k \in 1..Len(more) : k \in 1..Len(ans) \/ k = Len(ans) + 1
        BY <1>1, <1>4
    <2> QED BY <1>2, <1>4, <1>6, <2>1 DEF r
<1> HIDE DEF moved
<1>16. Matches(qs, more, rest, moved)
    BY <1>7, <1>10, <1>11, <1>12, <1>13, <1>14, <1>15 DEF Matches
<1> QED BY <1>16 DEF InStep, more, rest, r

\* A malformed request is answered while it stays in the buffer.
LEMMA SpoiledAfterBad ==
    ASSUME NEW qs \in Seq(Requests), NEW ans \in Seq(Requests), NEW buf \in Seq(Pieces),
           NEW pos, Matches(qs, ans, buf, pos), "bad" \in Requests,
           NEW i \in 1..Len(buf), buf[i] = "bad",
           \A j \in 1..(i - 1) : buf[j] = "head"
    PROVE  Spoiled(qs, Append(ans, "bad"))
<1> DEFINE more == Append(ans, "bad")
           m == Len(ans) + 1
<1>1. Len(qs) \in Nat /\ Len(ans) \in Nat
    BY LenProperties
<1>2. Len(qs) - Len(ans) \in Nat \ {0} /\ qs[m] = "bad"
    BY NextRequestIsFirst
<1>3. /\ Len(more) = Len(ans) + 1
      /\ \A k \in 1..Len(ans) : more[k] = ans[k]
      /\ more[Len(ans) + 1] = "bad"
    BY AppendProperties
<1>4. \A k \in 1..Len(ans) : ans[k] = qs[k] /\ ans[k] # "bad"
    BY DEF Matches
<1> HIDE DEF more, m
<1>5. m = Len(ans) + 1
    BY DEF m
<1>6. m \in 1..Len(qs) /\ m <= Len(more) /\ \A k \in 1..(m - 1) : k \in 1..Len(ans)
    BY <1>1, <1>2, <1>3, <1>5
<1>7. FirstBad(qs, m)
    BY <1>2, <1>4, <1>6 DEF FirstBad
<1>8. FirstBad(more, m)
    BY <1>3, <1>4, <1>5, <1>6 DEF FirstBad
<1> QED BY <1>6, <1>7, <1>8 DEF Spoiled, more

\* More answers do not change the first malformed one.
LEMMA SpoiledStays ==
    ASSUME NEW qs \in Seq(Requests), NEW ans \in Seq(Requests), NEW r \in Requests,
           Spoiled(qs, ans)
    PROVE  Spoiled(qs, Append(ans, r))
<1>1. PICK m \in 1..Len(qs) : m <= Len(ans) /\ FirstBad(qs, m) /\ FirstBad(ans, m)
    BY DEF Spoiled
<1>2. m \in 1..Len(ans)
    BY <1>1, LenProperties
<1>3. m \in 1..Len(Append(ans, r)) /\ FirstBad(Append(ans, r), m)
    BY <1>1, <1>2, FirstBadStays
<1> QED BY <1>1, <1>3 DEF Spoiled

\* Lists that agree have the same beginnings.
LEMMA SameFront ==
    ASSUME NEW s \in Seq(Requests), NEW t \in Seq(Requests), NEW n \in Nat,
           n <= Len(s), n <= Len(t), \A k \in 1..n : s[k] = t[k]
    PROVE  /\ SubSeq(s, 1, n) \in Seq(Requests)
           /\ Len(SubSeq(s, 1, n)) = n
           /\ \A k \in 1..n : SubSeq(s, 1, n)[k] = s[k]
           /\ SubSeq(s, 1, n) = SubSeq(t, 1, n)
<1>1. Len(s) \in Nat /\ Len(t) \in Nat
    BY LenProperties
<1>2. \A k \in 1..n : s[k] \in Requests /\ t[k] \in Requests
    BY <1>1, ElementOfSeq
<1>3. /\ SubSeq(s, 1, n) \in Seq(Requests)
      /\ Len(SubSeq(s, 1, n)) = IF 1 <= n THEN n - 1 + 1 ELSE 0
      /\ \A k \in 1..(n - 1 + 1) : SubSeq(s, 1, n)[k] = s[1 + k - 1]
    BY <1>2, SubSeqProperties
<1>4. /\ SubSeq(t, 1, n) \in Seq(Requests)
      /\ Len(SubSeq(t, 1, n)) = IF 1 <= n THEN n - 1 + 1 ELSE 0
      /\ \A k \in 1..(n - 1 + 1) : SubSeq(t, 1, n)[k] = t[1 + k - 1]
    BY <1>2, SubSeqProperties
<1> DEFINE a == SubSeq(s, 1, n)
           b == SubSeq(t, 1, n)
<1> HIDE DEF a, b
<1>5. /\ a \in Seq(Requests) /\ Len(a) = n /\ \A k \in 1..n : a[k] = s[k]
    BY <1>3 DEF a
<1>6. /\ b \in Seq(Requests) /\ Len(b) = n /\ \A k \in 1..n : b[k] = t[k]
    BY <1>4 DEF b
<1>7. \A k \in 1..Len(a) : a[k] = b[k]
    BY <1>5, <1>6
<1>8. a = b
    BY <1>5, <1>6, <1>7, SeqEqual
<1> QED BY <1>5, <1>8 DEF a, b

\* The requests before the first malformed one.
LEMMA SoundOfNone ==
    ASSUME NEW s \in Seq(Requests), NoneBad(s)
    PROVE  Sound(s) = s
<1>1. {i \in DOMAIN s : s[i] = "bad"} = {}
    BY LenProperties DEF NoneBad
<1> QED BY <1>1 DEF Sound

LEMMA SoundOfBad ==
    ASSUME NEW s \in Seq(Requests), NEW m \in 1..Len(s), FirstBad(s, m)
    PROVE  Sound(s) = SubSeq(s, 1, m - 1)
<1> DEFINE B == {i \in DOMAIN s : s[i] = "bad"}
<1>1. DOMAIN s = 1..Len(s) /\ Len(s) \in Nat
    BY LenProperties
<1>2. m \in B /\ B \subseteq 1..Len(s)
    BY <1>1 DEF FirstBad
<1>3. ASSUME NEW i \in B PROVE m <= i
    <2>1. i \in 1..Len(s) /\ s[i] = "bad"
        BY <1>1
    <2>2. ~(i \in 1..(m - 1))
        BY <2>1 DEF FirstBad
    <2> QED BY <1>1, <2>1, <2>2
<1> HIDE DEF B
<1>4. Min(B) = m
    <2>1. \A x \in B : (\A y \in B : x <= y) => x = m
        BY <1>1, <1>2, <1>3
    <2>2. Min(B) \in B /\ \A y \in B : Min(B) <= y
        BY <1>2, <1>3 DEF Min
    <2> QED BY <2>1, <2>2
<1>5. Sound(s) = IF B = {} THEN s ELSE SubSeq(s, 1, Min(B) - 1)
    BY DEF Sound, B
<1> QED BY <1>2, <1>4, <1>5

\* A request counts if none before it, nor it itself, is malformed.
LEMMA SoundOfAppend ==
    ASSUME NEW s \in Seq(Requests), NEW r \in Requests, Located(s)
    PROVE  /\ NoneBad(s) /\ r # "bad" => Sound(Append(s, r)) = Append(s, r)
           /\ ~NoneBad(s) \/ r = "bad" => Sound(Append(s, r)) = Sound(s)
<1> DEFINE new == Append(s, r)
<1>1. /\ new \in Seq(Requests) /\ Len(new) = Len(s) + 1 /\ Len(s) \in Nat
      /\ \A k \in 1..Len(s) : new[k] = s[k]
      /\ new[Len(s) + 1] = r
    <2>1. Len(s) \in Nat
        BY LenProperties
    <2>2. new \in Seq(Requests) /\ Len(new) = Len(s) + 1 /\ new[Len(s) + 1] = r
        BY AppendProperties
    <2>3. \A k \in 1..Len(s) : new[k] = s[k]
        BY AppendProperties
    <2> QED BY <2>1, <2>2, <2>3
<1> HIDE DEF new
<1>2. ASSUME NoneBad(s), r # "bad" PROVE Sound(new) = new
    <2>1. \A k \in 1..Len(new) : k \in 1..Len(s) \/ k = Len(s) + 1
        BY <1>1
    <2>2. NoneBad(new)
        BY <1>1, <1>2, <2>1 DEF NoneBad
    <2> QED BY <1>1, <2>2, SoundOfNone
<1>3. ASSUME NoneBad(s), r = "bad" PROVE Sound(new) = Sound(s)
    <2>1. Len(s) + 1 \in 1..Len(new) /\ (Len(s) + 1) - 1 = Len(s) /\ Len(s) <= Len(new)
        BY <1>1
    <2>2. FirstBad(new, Len(s) + 1)
        BY <1>1, <1>3, <2>1 DEF FirstBad, NoneBad
    <2>3. Sound(new) = SubSeq(new, 1, Len(s))
        BY <1>1, <2>1, <2>2, SoundOfBad
    <2>4. SubSeq(new, 1, Len(s)) = SubSeq(s, 1, Len(s))
        BY <1>1, <2>1, SameFront
    <2> QED BY <1>3, <2>3, <2>4, SoundOfNone, SubSeqFull
<1>4. ASSUME ~NoneBad(s) PROVE Sound(new) = Sound(s)
    <2>1. PICK m \in 1..Len(s) : FirstBad(s, m)
        BY <1>4 DEF Located
    <2>2. m \in 1..Len(new) /\ FirstBad(new, m)
        BY <2>1, FirstBadStays DEF new
    <2>3. m - 1 \in Nat /\ m - 1 <= Len(s) /\ m - 1 <= Len(new)
          /\ \A k \in 1..(m - 1) : k \in 1..Len(s)
        BY <1>1
    <2>4. SubSeq(new, 1, m - 1) = SubSeq(s, 1, m - 1)
        BY <1>1, <2>3, SameFront
    <2> QED BY <1>1, <2>1, <2>2, <2>4, SoundOfBad
<1> QED BY <1>2, <1>3, <1>4 DEF new

\* A well-formed request that is next to be answered comes before the first
\* malformed one.
LEMMA SoundReaches ==
    ASSUME NEW qs \in Seq(Requests), NEW n \in Nat, n < Len(qs), Located(qs),
           \A k \in 1..(n + 1) : qs[k] # "bad"
    PROVE  n < Len(Sound(qs)) /\ Sound(qs)[n + 1] = qs[n + 1]
<1>1. Len(qs) \in Nat
    BY LenProperties
<1>2. CASE NoneBad(qs)
    BY <1>2, SoundOfNone
<1>3. ASSUME NEW m \in 1..Len(qs), FirstBad(qs, m)
      PROVE  n < Len(Sound(qs)) /\ Sound(qs)[n + 1] = qs[n + 1]
    <2>1. ~(m \in 1..(n + 1))
        BY <1>3 DEF FirstBad
    <2>2. m - 1 \in Nat /\ n + 1 \in 1..(m - 1) /\ m - 1 <= Len(qs)
        BY <1>1, <2>1
    <2>3. Len(SubSeq(qs, 1, m - 1)) = m - 1
          /\ \A k \in 1..(m - 1) : SubSeq(qs, 1, m - 1)[k] = qs[k]
        BY <2>2, SameFront
    <2>4. Sound(qs) = SubSeq(qs, 1, m - 1)
        BY <1>3, SoundOfBad
    <2> QED BY <2>2, <2>3, <2>4
<1> QED BY <1>2, <1>3 DEF Located

\* What a step does to a connection, as far as RequestReply sees it.
Quiet ==
    /\ live' = live
    /\ \A d \in Conns : /\ asked'[d] = asked[d] /\ answered'[d] = answered[d]
                        /\ Input(d)' = Input(d)
Accepted(c) == /\ c \notin live /\ live' = live \cup {c}
               /\ UNCHANGED <<asked, answered, inbuf, rx>>
Closed(c) == /\ c \in live /\ live' = live \ {c}
             /\ asked' = [asked EXCEPT ![c] = <<>>]
             /\ answered' = [answered EXCEPT ![c] = <<>>]
             /\ inbuf' = [inbuf EXCEPT ![c] = <<>>]
             /\ rx' = [rx EXCEPT ![c] = <<>>]
Sent(c, p) == /\ c \in live /\ live' = live
              /\ rx' = [rx EXCEPT ![c] = Append(@, p)]
              /\ asked' = IF p = "head" THEN asked ELSE [asked EXCEPT ![c] = Append(@, p)]
              /\ UNCHANGED <<answered, inbuf>>
Replied(c) ==
    LET r == http_parse_request(Input(c))
    IN  /\ c \in live /\ live' = live /\ r # "incomplete"
        /\ answered' = [answered EXCEPT ![c] = Append(@, r)]
        /\ inbuf' = [inbuf EXCEPT ![c] = IF r = "bad" THEN Input(c)
                                         ELSE Unconsumed(Input(c))]
        /\ rx' = [rx EXCEPT ![c] = <<>>]
        /\ UNCHANGED asked

\* Every handler does one of these.
LEMMA StepKinds ==
    ASSUME TypeOK, [Next]_vars
    PROVE  \/ Quiet
           \/ \E c \in Conns : Accepted(c) \/ Closed(c) \/ Replied(c)
           \/ \E c \in Conns, p \in Pieces : Sent(c, p)
<1> DEFINE Goal == \/ Quiet
                   \/ \E c \in Conns : Accepted(c) \/ Closed(c) \/ Replied(c)
                   \/ \E c \in Conns, p \in Pieces : Sent(c, p)
<1>1. ASSUME UNCHANGED <<live, asked, answered, inbuf, rx>> PROVE Quiet
    BY <1>1 DEF Quiet, Input
<1>2. ASSUME NEW c \in live, event_loop_conn_close(c) PROVE Closed(c)
    BY <1>2 DEF event_loop_conn_close, Closed
<1>3. CASE UNCHANGED vars
    BY <1>1, <1>3 DEF vars
<1>4. CASE epoll_wait \/ no_event \/ accept_over_limit \/ accept_without_memory
           \/ accept_end \/ stale_event \/ http_server_stop \/ Connect
    BY <1>1, <1>4
    DEF epoll_wait, no_event, accept_over_limit, accept_without_memory,
        accept_end, stale_event, http_server_stop, Connect, connVars
<1>5. ASSUME NEW c \in Conns, accept_connection(c) PROVE Accepted(c)
    BY <1>5 DEF accept_connection, Accepted
<1>6. ASSUME NEW c \in Conns, handle_read(c) PROVE Goal
    <2>1. CASE read_closed(c) \/ bad_request_answered_and_closed(c)
               \/ request_answered_and_closed(c)
        BY <1>2, <2>1
        DEF read_closed, bad_request_answered_and_closed,
            request_answered_and_closed, CloseWithTimeout, ReadEvent
    <2>2. CASE read_incomplete(c)
        <3>1. /\ UNCHANGED <<live, asked, answered>>
              /\ inbuf' = [inbuf EXCEPT ![c] = Input(c)]
              /\ rx' = [rx EXCEPT ![c] = <<>>]
            BY <2>2 DEF read_incomplete
        <3>2. ASSUME NEW d \in Conns PROVE Input(d)' = Input(d)
            <4>1. CASE d = c
                <5>1. inbuf'[c] = Input(c) /\ rx'[c] = <<>>
                    BY <3>1 DEF TypeOK
                <5>2. Input(c) \in Seq(Pieces)
                    BY ParseType
                <5>3. Input(c) \o <<>> = Input(c)
                    BY <5>2, ConcatEmptySeq
                <5> QED BY <4>1, <5>1, <5>3 DEF Input
            <4>2. CASE d # c
                BY <3>1, <4>2 DEF Input, TypeOK
            <4> QED BY <4>1, <4>2
        <3> QED BY <3>1, <3>2 DEF Quiet
    <2>3. CASE request_answered(c) \/ request_pending(c) \/ request_unwritten(c)
        <3>1. PICK K \in {{"ka"}, {"ka", "close"}} : ReadRequest(c, K) /\ NextRequest(c)
            BY <2>3 DEF request_answered, request_pending, request_unwritten
        <3>2. http_parse_request(Input(c)) \in {"ka", "close"}
            BY <3>1 DEF ReadRequest
        <3>3. Replied(c)
            BY <3>1, <3>2 DEF ReadRequest, ReadEvent, NextRequest, Replied
        <3> QED BY <3>3
    <2>4. CASE bad_request_answered(c) \/ bad_request_pending(c)
               \/ bad_request_unwritten(c)
        <3>1. ReadRequest(c, {"bad"}) /\ BadRequest(c)
            BY <2>4
            DEF bad_request_answered, bad_request_pending, bad_request_unwritten
        <3>2. http_parse_request(Input(c)) = "bad"
            BY <3>1 DEF ReadRequest
        <3>3. Replied(c)
            BY <3>1, <3>2 DEF ReadRequest, ReadEvent, BadRequest, Replied
        <3> QED BY <3>3
    <2> QED BY <1>6, <2>1, <2>2, <2>3, <2>4 DEF handle_read
<1>7. ASSUME NEW c \in Conns, handle_write(c) \/ hangup(c) PROVE Goal
    <2>1. CASE write_drained(c) \/ write_part(c)
        BY <1>1, <2>1 DEF write_drained, write_part
    <2>2. CASE write_drained_and_closed(c) \/ write_failed(c) \/ hangup(c)
        BY <1>2, <2>2
        DEF write_drained_and_closed, write_failed, hangup, WriteEvent,
            CloseWithTimeout
    <2> QED BY <1>7, <2>1, <2>2 DEF handle_write
<1>8. ASSUME NEW t \in Timers, handle_timer(t) PROVE Goal
    <2>1. CASE timeout_closes(t)
        BY <1>2, <2>1 DEF timeout_closes, TypeOK
    <2>2. CASE timeout_of_freed(t)
        BY <1>1, <2>2 DEF timeout_of_freed, connVars
    <2> QED BY <1>8, <2>1, <2>2 DEF handle_timer
<1>9. ASSUME NEW c \in Conns, NEW p \in Pieces, Send(c, p) PROVE Sent(c, p)
    BY <1>9 DEF Send, Sent
<1>10. ASSUME NEW c \in Conns, (\E how \in {"fin", "gone"} : Leave(c, how)) \/ Drain(c)
       PROVE  Quiet
    BY <1>1, <1>10 DEF Leave, Drain
<1>11. ASSUME NEW t \in Timers, Expire(t) PROVE Quiet
    BY <1>1, <1>11 DEF Expire, connVars
<1> QED
    BY <1>3, <1>4, <1>5, <1>6, <1>7, <1>8, <1>9, <1>10, <1>11
    DEF Next, event_loop_run, Environment, handle_accept

\* What is answered and buffered of a connection is what was asked.
AllInStep == \A c \in Conns : InStep(asked[c], answered[c], Input(c))

\* A step that replies to c takes the first request of its buffer.
LEMMA InStepAfterReply ==
    ASSUME TypeOK, NEW c \in Conns, Replied(c), InStep(asked[c], answered[c], Input(c))
    PROVE  /\ http_parse_request(Input(c)) \in Requests
           /\ answered'[c] = Append(answered[c], http_parse_request(Input(c)))
           /\ InStep(asked'[c], answered'[c], Input(c)')
           /\ \/ Spoiled(asked[c], answered[c])
              \/ /\ NoneBad(answered[c])
                 /\ http_parse_request(Input(c)) # "bad" =>
                    /\ Len(answered[c]) < Len(asked[c])
                    /\ asked[c][Len(answered[c]) + 1] = http_parse_request(Input(c))
                    /\ \A k \in 1..(Len(answered[c]) + 1) : asked[c][k] # "bad"
<1> DEFINE r == http_parse_request(Input(c))
<1>1. /\ asked[c] \in Seq(Requests) /\ answered[c] \in Seq(Requests)
      /\ Input(c) \in Seq(Pieces) /\ r \in Requests
      /\ Unconsumed(Input(c)) \in Seq(Pieces)
    BY ParseType DEF TypeOK, Replied
<1>2. /\ answered'[c] = Append(answered[c], r) /\ asked'[c] = asked[c]
      /\ Input(c)' = IF r = "bad" THEN Input(c) ELSE Unconsumed(Input(c))
    <2>1. answered'[c] = Append(answered[c], r) /\ asked'[c] = asked[c]
        BY DEF Replied, TypeOK
    <2>2. rx'[c] = <<>>
          /\ inbuf'[c] = IF r = "bad" THEN Input(c) ELSE Unconsumed(Input(c))
        BY DEF Replied, TypeOK
    <2>3. inbuf'[c] \in Seq(Pieces)
        BY <1>1, <2>2
    <2>4. Input(c)' = inbuf'[c] \o <<>>
        BY <2>2 DEF Input
    <2> QED BY <2>1, <2>2, <2>3, <2>4, ConcatEmptySeq
<1>3. PICK i \in 1..Len(Input(c)) :
          /\ Input(c)[i] # "head" /\ \A j \in 1..(i - 1) : Input(c)[j] = "head"
          /\ r = Input(c)[i]
          /\ Unconsumed(Input(c)) = SubSeq(Input(c), i + 1, Len(Input(c)))
    BY <1>1, FirstRequest DEF Replied
<1>4. Located(asked[c])
    BY DEF InStep
<1> HIDE DEF r
<1>5. CASE Spoiled(asked[c], answered[c])
    <2>1. Spoiled(asked[c], answered'[c])
        BY <1>1, <1>2, <1>5, SpoiledStays
    <2> QED BY <1>1, <1>2, <1>4, <1>5, <2>1 DEF InStep, r
<1>6. ASSUME NEW pos, Matches(asked[c], answered[c], Input(c), pos)
      PROVE  /\ InStep(asked'[c], answered'[c], Input(c)')
             /\ NoneBad(answered[c])
             /\ r # "bad" =>
                    /\ Len(answered[c]) < Len(asked[c])
                    /\ asked[c][Len(answered[c]) + 1] = r
                    /\ \A k \in 1..(Len(answered[c]) + 1) : asked[c][k] # "bad"
    <2>1. /\ Len(asked[c]) - Len(answered[c]) \in Nat \ {0}
          /\ r = asked[c][Len(answered[c]) + 1]
        BY <1>1, <1>3, <1>6, NextRequestIsFirst
    <2>2. Len(asked[c]) \in Nat /\ Len(answered[c]) \in Nat
        BY <1>1, LenProperties
    <2>3. \A k \in 1..Len(answered[c]) :
              answered[c][k] = asked[c][k] /\ answered[c][k] # "bad"
        BY <1>6 DEF Matches
    <2>4. NoneBad(answered[c])
        BY <2>3 DEF NoneBad
    <2>5. Len(answered[c]) < Len(asked[c])
        BY <2>1, <2>2
    <2>6. ASSUME r # "bad", NEW k \in 1..(Len(answered[c]) + 1)
          PROVE  asked[c][k] # "bad"
        <3>1. k \in 1..Len(answered[c]) \/ k = Len(answered[c]) + 1
            BY <2>2
        <3> QED BY <2>1, <2>3, <2>6, <3>1
    <2>7. CASE r = "bad"
        <3>1. Input(c)[i] = "bad" /\ "bad" \in Requests
            BY <1>1, <1>3, <2>7
        <3>2. Spoiled(asked[c], answered'[c])
            BY <1>1, <1>2, <1>3, <1>6, <2>7, <3>1, SpoiledAfterBad
        <3> QED BY <1>2, <1>4, <2>4, <2>7, <3>2 DEF InStep
    <2>8. CASE r # "bad"
        <3>1. InStep(asked[c], Append(answered[c], Input(c)[i]),
                     SubSeq(Input(c), i + 1, Len(Input(c))))
            BY <1>1, <1>3, <1>4, <1>6, <2>8, InStepAfterAnswer
        <3>2. InStep(asked'[c], answered'[c], Input(c)')
            BY <1>2, <1>3, <2>8, <3>1
        <3> QED BY <2>1, <2>4, <2>5, <2>6, <3>2
    <2> QED BY <2>7, <2>8
<1> QED BY <1>1, <1>2, <1>5, <1>6 DEF InStep, r

\* A piece appended to the second half of the input is appended to the input.
LEMMA AppendAfter ==
    ASSUME NEW S, NEW s \in Seq(S), NEW t \in Seq(S), NEW e \in S
    PROVE  s \o Append(t, e) = Append(s \o t, e)
<1>1. s \o t \in Seq(S)
    BY ConcatProperties
<1>2. <<e>> \in Seq(S)
    OBVIOUS
<1>3. Append(t, e) = t \o <<e>>
    BY AppendIsConcat
<1>4. Append(s \o t, e) = (s \o t) \o <<e>>
    BY <1>1, AppendIsConcat
<1>5. (s \o t) \o <<e>> = s \o (t \o <<e>>)
    BY <1>2, ConcatAssociative
<1> QED BY <1>3, <1>4, <1>5

\* The buffers stay in step with what was asked and answered.
LEMMA InStepStep ==
    ASSUME TypeOK, AllInStep, [Next]_vars
    PROVE  AllInStep'
<1> SUFFICES ASSUME NEW d \in Conns
             PROVE  InStep(asked'[d], answered'[d], Input(d)')
    BY DEF AllInStep
<1>1. InStep(asked[d], answered[d], Input(d))
    BY DEF AllInStep
<1>2. CASE Quiet
    BY <1>1, <1>2 DEF Quiet
<1>3. ASSUME NEW c \in Conns, Accepted(c)
      PROVE  InStep(asked'[d], answered'[d], Input(d)')
    BY <1>1, <1>3 DEF Accepted, Input
<1>4. ASSUME NEW c \in Conns, Closed(c)
      PROVE  InStep(asked'[d], answered'[d], Input(d)')
    <2>1. CASE d # c
        BY <1>1, <1>4, <2>1 DEF Closed, Input, TypeOK
    <2>2. CASE d = c
        <3>1. asked'[d] = <<>> /\ answered'[d] = <<>> /\ Input(d)' = <<>> \o <<>>
            BY <1>4, <2>2 DEF Closed, Input, TypeOK
        <3>2. <<>> \o <<>> = <<>>
            <4>1. <<>> \in Seq(Pieces)
                OBVIOUS
            <4> QED BY <4>1, ConcatEmptySeq
        <3> QED BY <3>1, <3>2, InStepAtFirst
    <2> QED BY <2>1, <2>2
<1>5. ASSUME NEW c \in Conns, Replied(c)
      PROVE  InStep(asked'[d], answered'[d], Input(d)')
    <2>1. CASE d # c
        BY <1>1, <1>5, <2>1 DEF Replied, Input, TypeOK
    <2>2. CASE d = c
        BY <1>1, <1>5, <2>2, InStepAfterReply
    <2> QED BY <2>1, <2>2
<1>6. ASSUME NEW c \in Conns, NEW p \in Pieces, Sent(c, p)
      PROVE  InStep(asked'[d], answered'[d], Input(d)')
    <2>1. CASE d # c
        BY <1>1, <1>6, <2>1 DEF Sent, Input, TypeOK
    <2>2. CASE d = c
        <3>1. /\ asked[d] \in Seq(Requests) /\ answered[d] \in Seq(Requests)
              /\ inbuf[d] \in Seq(Pieces) /\ rx[d] \in Seq(Pieces)
              /\ Input(d) \in Seq(Pieces)
            BY ParseType DEF TypeOK
        <3>2. Input(d)' = inbuf[d] \o Append(rx[d], p) /\ answered'[d] = answered[d]
            BY <1>6, <2>2 DEF Sent, Input, TypeOK
        <3>3. Input(d)' = Append(Input(d), p)
            <4>1. \A s, t \in Seq(Pieces) : s \o Append(t, p) = Append(s \o t, p)
                BY AppendAfter
            <4>2. inbuf[d] \o Append(rx[d], p) = Append(inbuf[d] \o rx[d], p)
                BY <3>1, <4>1
            <4> QED BY <3>2, <4>2 DEF Input
        <3>4. CASE p = "head"
            <4>1. asked'[d] = asked[d]
                BY <1>6, <3>4 DEF Sent
            <4> QED BY <1>1, <3>1, <3>2, <3>3, <3>4, <4>1, InStepAfterHead
        <3>5. CASE p # "head"
            <4>1. asked'[d] = Append(asked[d], p) /\ p \in Requests
                BY <1>6, <2>2, <3>5 DEF Sent, TypeOK, Pieces
            <4> QED BY <1>1, <3>1, <3>2, <3>3, <4>1, InStepAfterAsk
        <3> QED BY <3>4, <3>5
    <2> QED BY <2>1, <2>2
<1> QED BY <1>2, <1>3, <1>4, <1>5, <1>6, StepKinds

\* The lists of RequestReply: the requests and the answers that count.
SoundAsked == [c \in Conns |-> Sound(asked[c])]
SoundAnswered == [c \in Conns |-> Sound(answered[c])]

\* One step of a connection changes the lists of no other one.
LEMMA SoundOfOthers ==
    ASSUME NEW f \in [Conns -> Seq(Requests)], NEW g, NEW c \in Conns, NEW v,
           g = [f EXCEPT ![c] = v]
    PROVE  [d \in Conns |-> Sound(g[d])]
               = [[d \in Conns |-> Sound(f[d])] EXCEPT ![c] = Sound(v)]
<1>1. g[c] = v /\ \A d \in Conns : d # c => g[d] = f[d]
    OBVIOUS
<1>2. \A d \in Conns :
          Sound(g[d]) = [[e \in Conns |-> Sound(f[e])] EXCEPT ![c] = Sound(v)][d]
    BY <1>1
<1> QED BY <1>2

\* A new request is asked in RequestReply, unless it, or one before it, is
\* malformed.
LEMMA SentKept ==
    ASSUME TypeOK, NEW c \in Conns, NEW p \in Pieces, Sent(c, p),
           InStep(asked[c], answered[c], Input(c))
    PROVE  Promise!Next \/ UNCHANGED Promise!vars
<1>1. /\ asked \in [Conns -> Seq(Requests)] /\ asked[c] \in Seq(Requests)
      /\ answered' = answered /\ live' = live /\ c \in live
    BY DEF TypeOK, Sent
<1>2. SoundAnswered' = SoundAnswered
    BY <1>1 DEF SoundAnswered
<1>3. CASE p = "head"
    <2>1. asked' = asked
        BY <1>3 DEF Sent
    <2>2. SoundAsked' = SoundAsked
        BY <2>1 DEF SoundAsked
    <2> QED BY <1>1, <1>2, <2>2 DEF Promise!vars, SoundAsked, SoundAnswered
<1>4. CASE p # "head"
    <2>1. p \in Requests /\ asked' = [asked EXCEPT ![c] = Append(asked[c], p)]
        BY <1>1, <1>4 DEF Sent, Pieces
    <2>2. SoundAsked' = [SoundAsked EXCEPT ![c] = Sound(Append(asked[c], p))]
        BY <1>1, <2>1, SoundOfOthers DEF SoundAsked
    <2>3. /\ NoneBad(asked[c]) /\ p # "bad"
                => Sound(Append(asked[c], p)) = Append(asked[c], p)
          /\ ~NoneBad(asked[c]) \/ p = "bad"
                => Sound(Append(asked[c], p)) = Sound(asked[c])
        BY <1>1, <2>1, SoundOfAppend DEF InStep
    <2>4. SoundAsked[c] = Sound(asked[c])
        BY DEF SoundAsked
    <2>5. CASE NoneBad(asked[c]) /\ p # "bad"
        <3>1. Sound(asked[c]) = asked[c]
            BY <1>1, <2>5, SoundOfNone
        <3>2. SoundAsked' = [SoundAsked EXCEPT ![c] = Append(SoundAsked[c], p)]
            BY <2>2, <2>3, <2>4, <2>5, <3>1
        <3>3. Promise!Ask(c, p)
            BY <1>1, <1>2, <3>2 DEF Promise!Ask, SoundAsked, SoundAnswered
        <3> QED BY <2>1, <3>3 DEF Promise!Next
    <2>6. CASE ~NoneBad(asked[c]) \/ p = "bad"
        <3>1. SoundAsked' = [SoundAsked EXCEPT ![c] = SoundAsked[c]]
            BY <2>2, <2>3, <2>4, <2>6
        <3>2. SoundAsked' = SoundAsked
            BY <3>1 DEF SoundAsked
        <3> QED BY <1>1, <1>2, <3>2 DEF Promise!vars, SoundAsked, SoundAnswered
    <2> QED BY <2>5, <2>6
<1> QED BY <1>3, <1>4

\* After a list with a malformed request, what comes does not count.
LEMMA NotNoneBad ==
    ASSUME NEW s, NEW m \in 1..Len(s), FirstBad(s, m)
    PROVE  ~NoneBad(s)
BY DEF FirstBad, NoneBad

\* A reply is the next answer of RequestReply, unless a malformed request has
\* been answered.
LEMMA RepliedKept ==
    ASSUME TypeOK, NEW c \in Conns, Replied(c),
           InStep(asked[c], answered[c], Input(c))
    PROVE  Promise!Next \/ UNCHANGED Promise!vars
<1>1. /\ asked[c] \in Seq(Requests) /\ answered \in [Conns -> Seq(Requests)]
      /\ answered[c] \in Seq(Requests)
      /\ asked' = asked /\ live' = live /\ c \in live
    BY DEF TypeOK, Replied
<1>2. PICK r \in Requests : r = http_parse_request(Input(c))
    BY InStepAfterReply
<1>3. answered' = [answered EXCEPT ![c] = Append(answered[c], r)]
    BY <1>2 DEF Replied
<1>4. /\ SoundAsked' = SoundAsked
      /\ SoundAnswered' = [SoundAnswered EXCEPT ![c] = Sound(Append(answered[c], r))]
    <2>1. SoundAsked' = SoundAsked
        BY <1>1 DEF SoundAsked
    <2>2. SoundAnswered' = [SoundAnswered EXCEPT ![c] = Sound(Append(answered[c], r))]
        BY <1>1, <1>3, SoundOfOthers DEF SoundAnswered
    <2> QED BY <2>1, <2>2
<1>5. SoundAsked[c] = Sound(asked[c]) /\ SoundAnswered[c] = Sound(answered[c])
    BY DEF SoundAsked, SoundAnswered
<1>6. \/ Spoiled(asked[c], answered[c])
      \/ /\ NoneBad(answered[c])
         /\ r # "bad" => /\ Len(answered[c]) < Len(asked[c])
                        /\ asked[c][Len(answered[c]) + 1] = r
                        /\ \A k \in 1..(Len(answered[c]) + 1) : asked[c][k] # "bad"
    BY <1>2, InStepAfterReply
<1>7. Spoiled(asked[c], answered[c]) => ~NoneBad(answered[c]) /\ Located(answered[c])
    <2> SUFFICES ASSUME NEW m \in 1..Len(asked[c]), m <= Len(answered[c]),
                        FirstBad(answered[c], m)
                 PROVE  ~NoneBad(answered[c]) /\ Located(answered[c])
        BY DEF Spoiled
    <2>1. Len(asked[c]) \in Nat /\ Len(answered[c]) \in Nat
        BY <1>1, LenProperties
    <2>2. m \in 1..Len(answered[c])
        BY <2>1
    <2> QED BY <2>2, NotNoneBad DEF Located
<1>8. Located(answered[c]) /\ Located(asked[c])
    BY <1>6, <1>7 DEF Located, InStep
<1>9. /\ NoneBad(answered[c]) /\ r # "bad"
            => Sound(Append(answered[c], r)) = Append(answered[c], r)
      /\ ~NoneBad(answered[c]) \/ r = "bad"
            => Sound(Append(answered[c], r)) = Sound(answered[c])
    BY <1>1, <1>8, SoundOfAppend
<1>10. CASE ~NoneBad(answered[c]) \/ r = "bad"
    <2>1. SoundAnswered' = [SoundAnswered EXCEPT ![c] = SoundAnswered[c]]
        BY <1>4, <1>5, <1>9, <1>10
    <2>2. SoundAnswered' = SoundAnswered
        BY <2>1 DEF SoundAnswered
    <2> QED BY <1>1, <1>4, <2>2 DEF Promise!vars, SoundAsked, SoundAnswered
<1>11. CASE NoneBad(answered[c]) /\ r # "bad"
    <2>1. /\ Len(answered[c]) < Len(asked[c])
          /\ asked[c][Len(answered[c]) + 1] = r
          /\ \A k \in 1..(Len(answered[c]) + 1) : asked[c][k] # "bad"
        BY <1>6, <1>7, <1>11
    <2>2. Len(answered[c]) \in Nat
        BY <1>1, LenProperties
    <2>3. /\ Len(answered[c]) < Len(Sound(asked[c]))
          /\ Sound(asked[c])[Len(answered[c]) + 1] = r
        BY <1>1, <1>8, <2>1, <2>2, SoundReaches
    <2>4. SoundAnswered[c] = answered[c]
        BY <1>1, <1>5, <1>11, SoundOfNone
    <2>5. Len(SoundAnswered[c]) < Len(SoundAsked[c])
        BY <1>5, <2>3, <2>4
    <2>6. SoundAnswered' = [SoundAnswered EXCEPT ![c] =
              Append(SoundAnswered[c], SoundAsked[c][Len(SoundAnswered[c]) + 1])]
        BY <1>4, <1>5, <1>9, <1>11, <2>3, <2>4
    <2>7. Promise!Answer(c)
        BY <1>1, <1>4, <2>5, <2>6 DEF Promise!Answer, SoundAsked, SoundAnswered
    <2> QED BY <2>7 DEF Promise!Next
<1> QED BY <1>10, <1>11

\* A connection that is closed is forgotten.
LEMMA ClosedKept ==
    ASSUME TypeOK, NEW c \in Conns, Closed(c)
    PROVE  Promise!Next
<1>1. /\ asked \in [Conns -> Seq(Requests)] /\ answered \in [Conns -> Seq(Requests)]
      /\ c \in live /\ live' = live \ {c}
      /\ asked' = [asked EXCEPT ![c] = <<>>]
      /\ answered' = [answered EXCEPT ![c] = <<>>]
    BY DEF TypeOK, Closed
<1>2. Sound(<<>>) = <<>>
    <2>1. PICK e : e = <<>>
        OBVIOUS
    <2>2. e \in Seq(Requests) /\ Len(e) = 0
        BY <2>1
    <2>3. NoneBad(e)
        BY <2>2 DEF NoneBad
    <2> QED BY <2>1, <2>2, <2>3, SoundOfNone
<1>3. SoundAsked' = [SoundAsked EXCEPT ![c] = <<>>]
    BY <1>1, <1>2, SoundOfOthers DEF SoundAsked
<1>4. SoundAnswered' = [SoundAnswered EXCEPT ![c] = <<>>]
    BY <1>1, <1>2, SoundOfOthers DEF SoundAnswered
<1>5. Promise!Close(c)
    BY <1>1, <1>3, <1>4 DEF Promise!Close, SoundAsked, SoundAnswered
<1> QED BY <1>5 DEF Promise!Next

\* Every step of the server is a step of RequestReply, or changes nothing of it.
LEMMA PromiseStep ==
    ASSUME TypeOK, AllInStep, [Next]_vars
    PROVE  [Promise!Next]_(Promise!vars)
<1>1. CASE Quiet
    <2>1. SoundAsked' = SoundAsked /\ SoundAnswered' = SoundAnswered
        BY <1>1 DEF Quiet, SoundAsked, SoundAnswered
    <2> QED BY <1>1, <2>1 DEF Promise!vars, Quiet, SoundAsked, SoundAnswered
<1>2. ASSUME NEW c \in Conns, Accepted(c) PROVE Promise!Next
    <2>1. SoundAsked' = SoundAsked /\ SoundAnswered' = SoundAnswered
        BY <1>2 DEF Accepted, SoundAsked, SoundAnswered
    <2>2. Promise!Connect(c)
        BY <1>2, <2>1 DEF Promise!Connect, Accepted, SoundAsked, SoundAnswered
    <2> QED BY <2>2 DEF Promise!Next
<1>3. ASSUME NEW c \in Conns
      PROVE  InStep(asked[c], answered[c], Input(c))
    BY DEF AllInStep
<1> QED BY <1>1, <1>2, <1>3, StepKinds, ClosedKept, RepliedKept, SentKept

\* The server implements RequestReply: whatever pieces requests arrive in,
\* however responses are written and connections closed, on_data_vek answers
\* the requests of a connection one by one, in the order they were asked, each
\* at most once.
THEOREM PromiseKept == Spec => KeepsPromise
<1>1. Init => Promise!Init /\ AllInStep
    <2> SUFFICES ASSUME Init PROVE Promise!Init /\ AllInStep
        OBVIOUS
    <2>1. PICK e : e = <<>>
        OBVIOUS
    <2>2. e \in Seq(Requests) /\ Len(e) = 0 /\ e \in Seq(Pieces)
        BY <2>1
    <2>3. NoneBad(e)
        BY <2>2 DEF NoneBad
    <2>4. Sound(e) = e
        BY <2>2, <2>3, SoundOfNone
    <2>5. live = {} /\ \A c \in Conns : /\ asked[c] = e /\ answered[c] = e
                                       /\ inbuf[c] = e /\ rx[c] = e
        BY <2>1 DEF Init
    <2>6. Promise!Init
        BY <2>1, <2>4, <2>5 DEF Promise!Init
    <2>7. e \o e = e
        BY <2>1, <2>2, ConcatEmptySeq
    <2>8. AllInStep
        BY <2>1, <2>5, <2>7, InStepAtFirst DEF AllInStep, Input
    <2> QED BY <2>6, <2>8
<1>2. TypeOK /\ AllInStep /\ [Next]_vars => AllInStep'
    BY InStepStep
<1>3. TypeOK /\ AllInStep /\ [Next]_vars => [Promise!Next]_(Promise!vars)
    BY PromiseStep
<1> QED BY <1>1, <1>2, <1>3, TypeCorrect, PTL DEF Spec, KeepsPromise, Promise!Spec

-----------------------------------------------------------------------------
(* No request is lost.                                                     *)

Selecting(s, K, n, g) == g = [i \in 0..n |-> IF i = 0 THEN <<>> ELSE With(g[i - 1], s[i], K)]

\* The recursion of Without is well defined.
LEMMA WithoutIs ==
    ASSUME NEW s, Len(s) \in Nat, NEW K
    PROVE  \E g : /\ Without(s, K) = g[Len(s)]
                  /\ g[0] = <<>>
                  /\ \A i \in 1..Len(s) : g[i] = With(g[i - 1], s[i], K)
<1>1. PICK c \in Nat : c = Len(s)
    OBVIOUS
<1> DEFINE S == {n \in 0..c : \E g : Selecting(s, K, n, g)}
<1>2. 0 \in S
    <2>1. PICK g : g = [i \in 0..0 |-> <<>>]
        OBVIOUS
    <2>2. \A i \in 0..0 : i = 0
        OBVIOUS
    <2>3. Selecting(s, K, 0, g)
        BY <2>1, <2>2 DEF Selecting
    <2> QED BY <2>3
<1>3. ASSUME NEW n \in 0..c, n # 0, n - 1 \in S PROVE n \in S
    <2>1. PICK g : Selecting(s, K, n - 1, g)
        BY <1>3
    <2>2. PICK h : h = [i \in 0..n |-> IF i = n THEN With(g[n - 1], s[n], K) ELSE g[i]]
        OBVIOUS
    <2>3. /\ n \in Nat /\ n - 1 \in 0..n /\ n - 1 # n
          /\ \A i \in 0..n : i # n => i \in 0..(n - 1)
          /\ \A i \in 0..n : i # 0 => i - 1 \in 0..(n - 1) /\ i - 1 \in 0..n /\ i - 1 # n
        BY <1>3
    <2>4. \A i \in 0..(n - 1) : g[i] = IF i = 0 THEN <<>> ELSE With(g[i - 1], s[i], K)
        BY <2>1 DEF Selecting
    <2>5. \A i \in 0..n : i # n => h[i] = g[i]
        BY <2>2
    <2>6. ASSUME NEW i \in 0..n
          PROVE  h[i] = IF i = 0 THEN <<>> ELSE With(h[i - 1], s[i], K)
        <3>1. CASE i = n
            <4>1. h[n] = With(g[n - 1], s[n], K)
                BY <1>3, <2>2
            <4>2. h[n - 1] = g[n - 1]
                BY <2>3, <2>5
            <4> QED BY <1>3, <3>1, <4>1, <4>2
        <3>2. CASE i # n /\ i # 0
            <4>1. h[i] = g[i] /\ h[i - 1] = g[i - 1]
                BY <2>3, <2>5, <3>2
            <4> QED BY <2>3, <2>4, <3>2, <4>1
        <3>3. CASE i # n /\ i = 0
            BY <2>3, <2>4, <2>5, <3>3
        <3> QED BY <3>1, <3>2, <3>3
    <2>7. h = [i \in 0..n |-> h[i]]
        BY <2>2
    <2>8. Selecting(s, K, n, h)
        BY <2>6, <2>7 DEF Selecting
    <2> QED BY <2>8
<1>4. c \in S
    <2> HIDE DEF S
    <2>1. \A i \in 0..c : i # 0 /\ i - 1 \in S => i \in S
        BY <1>3
    <2>2. \A i \in 0..c : i \in S
        BY <1>2, <2>1, Induction
    <2> QED BY <2>2
<1>5. PICK g : g = CHOOSE f : Selecting(s, K, c, f)
    OBVIOUS
<1>6. Selecting(s, K, c, g)
    BY <1>4, <1>5
<1>7. Without(s, K) = g[c]
    BY <1>1, <1>5 DEF Without, Selecting
<1>8. \A i \in 0..c : g[i] = IF i = 0 THEN <<>> ELSE With(g[i - 1], s[i], K)
    BY <1>6 DEF Selecting
<1>9. \A i \in 1..c : i \in 0..c /\ i # 0
    BY <1>1
<1>10. g[0] = <<>>
    BY <1>1, <1>8
<1> QED BY <1>1, <1>7, <1>8, <1>9, <1>10

LEMMA WithoutNothing == \A K : Without(<<>>, K) = <<>>
BY WithoutIs

LEMMA WithoutAppend ==
    ASSUME NEW A, NEW s \in Seq(A), NEW x \in A, NEW K
    PROVE  Without(Append(s, x), K) = With(Without(s, K), x, K)
<1>1. PICK u : u = Append(s, x)
    OBVIOUS
<1>2. PICK n \in Nat : n = Len(s)
    OBVIOUS
<1>3. Len(u) = n + 1 /\ u[n + 1] = x /\ \A i \in 1..n : u[i] = s[i]
    BY <1>1, <1>2
<1>4. PICK g : /\ Without(s, K) = g[n] /\ g[0] = <<>>
               /\ \A i \in 1..n : g[i] = With(g[i - 1], s[i], K)
    BY <1>2, WithoutIs
<1>5. PICK h : /\ Without(u, K) = h[n + 1] /\ h[0] = <<>>
               /\ \A i \in 1..(n + 1) : h[i] = With(h[i - 1], u[i], K)
    <2>1. Len(u) \in Nat /\ Len(u) = n + 1
        BY <1>3
    <2>2. \E h : /\ Without(u, K) = h[Len(u)] /\ h[0] = <<>>
                 /\ \A i \in 1..Len(u) : h[i] = With(h[i - 1], u[i], K)
        BY <2>1, WithoutIs
    <2> QED BY <2>1, <2>2
<1> DEFINE S == {i \in 0..n : h[i] = g[i]}
<1>6. 0 \in S
    BY <1>4, <1>5
<1>7. ASSUME NEW i \in 0..n, i # 0, i - 1 \in S PROVE i \in S
    <2>1. i \in 1..n /\ i \in 1..(n + 1) /\ h[i - 1] = g[i - 1]
        BY <1>7
    <2> QED BY <1>3, <1>4, <1>5, <2>1
<1>8. n \in S
    <2> HIDE DEF S
    <2>1. \A i \in 0..n : i # 0 /\ i - 1 \in S => i \in S
        BY <1>7
    <2>2. \A i \in 0..n : i \in S
        BY <1>6, <2>1, Induction
    <2> QED BY <2>2
<1>9. h[n + 1] = With(h[n], x, K)
    <2>1. n + 1 \in 1..(n + 1) /\ (n + 1) - 1 = n
        OBVIOUS
    <2> QED BY <1>3, <1>5, <2>1
<1> QED BY <1>1, <1>4, <1>5, <1>8, <1>9

LEMMA WithoutType ==
    ASSUME NEW A, NEW s \in Seq(A), NEW K
    PROVE  Without(s, K) \in Seq(A)
<1>1. PICK n \in Nat : n = Len(s)
    OBVIOUS
<1>2. PICK g : /\ Without(s, K) = g[n] /\ g[0] = <<>>
               /\ \A i \in 1..n : g[i] = With(g[i - 1], s[i], K)
    <2>1. Len(s) \in Nat
        OBVIOUS
    <2>2. \E g : /\ Without(s, K) = g[Len(s)] /\ g[0] = <<>>
                 /\ \A i \in 1..Len(s) : g[i] = With(g[i - 1], s[i], K)
        BY <2>1, WithoutIs
    <2> QED BY <1>1, <2>2
<1> DEFINE S == {i \in 0..n : g[i] \in Seq(A)}
<1>3. 0 \in S
    <2>1. <<>> \in Seq(A) /\ 0 \in 0..n
        OBVIOUS
    <2>2. g[0] \in Seq(A)
        BY <1>2, <2>1
    <2> QED BY <2>1, <2>2
<1>4. ASSUME NEW i \in 0..n, i # 0, i - 1 \in S PROVE i \in S
    <2>1. i \in 1..n /\ g[i - 1] \in Seq(A) /\ s[i] \in A
        BY <1>1, <1>4
    <2>2. Append(g[i - 1], s[i]) \in Seq(A)
        BY <2>1
    <2>3. g[i] = With(g[i - 1], s[i], K)
        BY <1>2, <2>1
    <2> QED BY <2>1, <2>2, <2>3 DEF With
<1>5. n \in S
    <2> HIDE DEF S
    <2>1. \A i \in 0..n : i # 0 /\ i - 1 \in S => i \in S
        BY <1>4
    <2>2. \A i \in 0..n : i \in S
        BY <1>3, <2>1, Induction
    <2> QED BY <2>2
<1> QED BY <1>2, <1>5

LEMMA WithoutConcat ==
    ASSUME NEW A, NEW s \in Seq(A), NEW t \in Seq(A), NEW K
    PROVE  Without(s \o t, K) = Without(s, K) \o Without(t, K)
<1>1. PICK n \in Nat : n = Len(t)
    OBVIOUS
<1> DEFINE Start(i) == SubSeq(t, 1, i)
           S == {i \in 0..n : Without(s \o Start(i), K) = Without(s, K) \o Without(Start(i), K)}
<1>2. Without(s, K) \in Seq(A)
    BY WithoutType
<1>3. 0 \in S
    <2>1. Start(0) = <<>> /\ 0 \in 0..n
        OBVIOUS
    <2>2. s \o <<>> = s /\ Without(s, K) \o <<>> = Without(s, K)
        BY <1>2, ConcatEmptySeq
    <2> QED BY <2>1, <2>2, WithoutNothing
<1>4. ASSUME NEW i \in 0..n, i # 0, i - 1 \in S PROVE i \in S
    <2>1. i \in 1..n /\ i - 1 \in 0..n /\ t[i] \in A
        BY <1>1, <1>4
    <2>2. PICK f : f = Start(i - 1)
        OBVIOUS
    <2>3. PICK x : x = t[i]
        OBVIOUS
    <2>4. f \in Seq(A) /\ x \in A
        <3>1. \A j \in 1..(i - 1) : t[j] \in A
            BY <1>1, <2>1
        <3> QED BY <2>1, <2>2, <2>3, <3>1, SubSeqProperties
    <2>5. Start(i) = Append(f, x)
        BY <1>1, <2>1, <2>2, <2>3
    <2>6. s \o Append(f, x) = Append(s \o f, x) /\ s \o f \in Seq(A)
        BY <2>4, AppendAfter, ConcatProperties
    <2>7. Without(f, K) \in Seq(A)
        BY <2>4, WithoutType
    <2>8. Without(s \o f, K) = Without(s, K) \o Without(f, K)
        BY <1>4, <2>2
    <2>9. Without(s \o Start(i), K) = With(Without(s, K) \o Without(f, K), x, K)
        BY <2>4, <2>5, <2>6, <2>8, WithoutAppend, ZenonT(40)
    <2>10. Without(Start(i), K) = With(Without(f, K), x, K)
        BY <2>4, <2>5, WithoutAppend
    <2>11. Without(s, K) \o Append(Without(f, K), x) = Append(Without(s, K) \o Without(f, K), x)
        BY <1>2, <2>4, <2>7, AppendAfter
    <2>12. Without(s \o Start(i), K) = Without(s, K) \o Without(Start(i), K)
        BY <2>9, <2>10, <2>11 DEF With
    <2> QED BY <2>12
<1>5. n \in S
    <2> HIDE DEF S
    <2>1. \A i \in 0..n : i # 0 /\ i - 1 \in S => i \in S
        BY <1>4
    <2>2. \A i \in 0..n : i \in S
        BY <1>3, <2>1, Induction
    <2> QED BY <2>2
<1>6. Start(n) = t
    BY <1>1
<1> QED BY <1>5, <1>6

\* A sequence of members of K.
LEMMA WithoutAll ==
    ASSUME NEW A, NEW s \in Seq(A), NEW K, \A i \in 1..Len(s) : s[i] \in K
    PROVE  Without(s, K) = <<>>
<1>1. PICK n \in Nat : n = Len(s)
    OBVIOUS
<1>2. PICK g : /\ Without(s, K) = g[n] /\ g[0] = <<>>
               /\ \A i \in 1..n : g[i] = With(g[i - 1], s[i], K)
    <2>1. Len(s) \in Nat
        OBVIOUS
    <2>2. \E g : /\ Without(s, K) = g[Len(s)] /\ g[0] = <<>>
                 /\ \A i \in 1..Len(s) : g[i] = With(g[i - 1], s[i], K)
        BY <2>1, WithoutIs
    <2> QED BY <1>1, <2>2
<1> DEFINE S == {i \in 0..n : g[i] = <<>>}
<1>3. 0 \in S
    BY <1>2
<1>4. ASSUME NEW i \in 0..n, i # 0, i - 1 \in S PROVE i \in S
    <2>1. i \in 1..n /\ g[i - 1] = <<>> /\ s[i] \in K
        BY <1>1, <1>4
    <2>2. g[i] = With(g[i - 1], s[i], K)
        BY <1>2, <2>1
    <2> QED BY <2>1, <2>2 DEF With
<1>5. n \in S
    <2> HIDE DEF S
    <2>1. \A i \in 0..n : i # 0 /\ i - 1 \in S => i \in S
        BY <1>4
    <2>2. \A i \in 0..n : i \in S
        BY <1>3, <2>1, Induction
    <2> QED BY <2>2
<1> QED BY <1>2, <1>5

\* The first request of a buffer and what is behind it.
LEMMA WithoutFirst ==
    ASSUME NEW buf \in Seq(Pieces), http_parse_request(buf) # "incomplete", NEW K, "head" \in K
    PROVE  /\ http_parse_request(buf) \in Pieces /\ Unconsumed(buf) \in Seq(Pieces)
           /\ Without(buf, K) = With(<<>>, http_parse_request(buf), K) \o Without(Unconsumed(buf), K)
<1>1. PICK n \in Nat : n = Len(buf)
    OBVIOUS
<1>2. PICK i \in 1..n :
          /\ \A j \in 1..(i - 1) : buf[j] = "head"
          /\ http_parse_request(buf) = buf[i]
          /\ Unconsumed(buf) = SubSeq(buf, i + 1, n)
    BY <1>1, FirstRequest
<1>3. PICK f : f = SubSeq(buf, 1, i - 1)
    OBVIOUS
<1>4. PICK r : r = buf[i]
    OBVIOUS
<1>5. PICK b : b = SubSeq(buf, i + 1, n)
    OBVIOUS
<1>6. \A j \in 1..n : buf[j] \in Pieces
    BY <1>1
<1>7. f \in Seq(Pieces) /\ Len(f) = i - 1 /\ \A j \in 1..(i - 1) : f[j] = buf[j]
    <2>1. \A j \in 1..(i - 1) : buf[j] \in Pieces
        BY <1>6
    <2> QED BY <1>3, <2>1, SubSeqProperties
<1>8. b \in Seq(Pieces) /\ Len(b) = n - i /\ \A j \in 1..(n - i) : b[j] = buf[i + j]
    <2>1. \A j \in (i + 1)..n : buf[j] \in Pieces
        BY <1>6
    <2>2. /\ SubSeq(buf, i + 1, n) \in Seq(Pieces)
          /\ Len(SubSeq(buf, i + 1, n)) = IF i + 1 <= n THEN n - (i + 1) + 1 ELSE 0
          /\ \A j \in 1..(n - (i + 1) + 1) : SubSeq(buf, i + 1, n)[j] = buf[(i + 1) + j - 1]
        BY <2>1, SubSeqProperties
    <2>3. (IF i + 1 <= n THEN n - (i + 1) + 1 ELSE 0) = n - i /\ n - (i + 1) + 1 = n - i
        OBVIOUS
    <2>4. b \in Seq(Pieces) /\ Len(b) = n - i
        BY <1>5, <2>2, <2>3
    <2>5. ASSUME NEW j \in 1..(n - i) PROVE b[j] = buf[i + j]
        <3>1. j \in 1..(n - (i + 1) + 1) /\ (i + 1) + j - 1 = i + j
            OBVIOUS
        <3> QED BY <1>5, <2>2, <3>1
    <2> QED BY <2>4, <2>5
<1>9. r \in Pieces
    BY <1>4, <1>6
<1>10. PICK a : a = Append(f, r)
    OBVIOUS
<1>11. a \in Seq(Pieces) /\ Len(a) = i /\ a[i] = buf[i] /\ \A j \in 1..(i - 1) : a[j] = buf[j]
    BY <1>4, <1>7, <1>9, <1>10
<1>12. PICK u : u = a \o b
    OBVIOUS
<1>13. u \in Seq(Pieces) /\ Len(u) = n
       /\ \A j \in 1..n : u[j] = IF j <= i THEN a[j] ELSE b[j - i]
    <2>1. /\ a \o b \in Seq(Pieces) /\ Len(a \o b) = Len(a) + Len(b)
          /\ \A j \in 1..(Len(a) + Len(b)) : (a \o b)[j] = IF j <= Len(a) THEN a[j] ELSE b[j - Len(a)]
        BY <1>8, <1>11, ConcatProperties
    <2>2. Len(a) + Len(b) = n
        BY <1>8, <1>11
    <2> QED BY <1>11, <1>12, <2>1, <2>2
<1>14. ASSUME NEW j \in 1..n PROVE u[j] = buf[j]
    <2>1. CASE j <= i
        <3>1. j \in 1..(i - 1) \/ j = i
            BY <2>1
        <3> QED BY <1>11, <1>13, <2>1, <3>1
    <2>2. CASE ~(j <= i)
        <3>1. j - i \in 1..(n - i) /\ i + (j - i) = j
            BY <2>2
        <3> QED BY <1>8, <1>13, <2>2, <3>1
    <2> QED BY <2>1, <2>2
<1>15. u = buf
    BY <1>1, <1>13, <1>14
<1>16. Without(f, K) = <<>>
    BY <1>2, <1>7, WithoutAll
<1>17. Without(a, K) = With(<<>>, r, K)
    BY <1>7, <1>9, <1>10, <1>16, WithoutAppend
<1>18. Without(buf, K) = Without(a, K) \o Without(b, K)
    <2>1. Without(a \o b, K) = Without(a, K) \o Without(b, K)
        BY <1>8, <1>11, WithoutConcat
    <2> QED BY <1>12, <1>15, <2>1
<1> QED BY <1>2, <1>4, <1>5, <1>8, <1>9, <1>17, <1>18

Bad == {"bad"}
NotServed == {"bad", "head"}

\* Of each connection, what has been asked is what is answered and buffered.
NoneLost ==
    \A c \in Conns : Without(asked[c], Bad) = Without(answered[c] \o Input(c), NotServed)

\* A sequence of pieces and answers, taken apart.
LEMMA ServedOf ==
    ASSUME NEW s \in Seq(Pieces), NEW t \in Seq(Pieces)
    PROVE  Without(s \o t, NotServed) = Without(s, NotServed) \o Without(t, NotServed)
BY WithoutConcat

LEMMA RequestsArePieces == \A s \in Seq(Requests) : s \in Seq(Pieces)
<1> SUFFICES ASSUME NEW s \in Seq(Requests) PROVE s \in Seq(Pieces)
    OBVIOUS
<1>1. s \in [1..Len(s) -> Requests] /\ Len(s) \in Nat
    OBVIOUS
<1>2. s \in [1..Len(s) -> Pieces]
    BY <1>1 DEF Pieces
<1> QED BY <1>1, <1>2

\* A reply takes the first request out of the buffer, unless it is malformed.
LEMMA NoneLostByReply ==
    ASSUME NEW qs, NEW ans \in Seq(Requests), NEW buf \in Seq(Pieces),
           http_parse_request(buf) # "incomplete",
           Without(qs, Bad) = Without(ans \o buf, NotServed),
           NEW r, r = http_parse_request(buf), r \in Requests,
           NEW rest, rest = IF r = "bad" THEN buf ELSE Unconsumed(buf)
    PROVE  Without(qs, Bad) = Without(Append(ans, r) \o rest, NotServed)
<1>1. ans \in Seq(Pieces) /\ Append(ans, r) \in Seq(Pieces) /\ r \in Pieces
    <2>1. Append(ans, r) \in Seq(Requests)
        OBVIOUS
    <2> QED BY <2>1, RequestsArePieces DEF Pieces
<1>2. "head" \in NotServed /\ (r \in NotServed <=> r = "bad")
    BY RequestAssumption DEF NotServed
<1>3. Unconsumed(buf) \in Seq(Pieces)
      /\ Without(buf, NotServed) = With(<<>>, r, NotServed) \o Without(Unconsumed(buf), NotServed)
    BY <1>2, WithoutFirst
<1>4. rest \in Seq(Pieces)
    BY <1>3
<1>5. PICK W : W = Without(ans, NotServed)
    OBVIOUS
<1>6. PICK V : V = Without(Unconsumed(buf), NotServed)
    OBVIOUS
<1>7. W \in Seq(Pieces) /\ V \in Seq(Pieces) /\ <<r>> \in Seq(Pieces)
    <2>1. W \in Seq(Pieces)
        BY <1>1, <1>5, WithoutType
    <2>2. V \in Seq(Pieces)
        BY <1>3, <1>6, WithoutType
    <2> QED BY <1>1, <2>1, <2>2
<1>8. Without(Append(ans, r) \o rest, NotServed) = Without(Append(ans, r), NotServed) \o Without(rest, NotServed)
    BY <1>1, <1>4, ServedOf
<1>9. Without(Append(ans, r), NotServed) = With(W, r, NotServed)
    BY <1>1, <1>5, WithoutAppend
<1>10. Without(qs, Bad) = W \o Without(buf, NotServed)
    BY <1>1, <1>5, ServedOf
<1>11. CASE r = "bad"
    <2>1. With(W, r, NotServed) = W /\ rest = buf
        BY <1>2, <1>11 DEF With
    <2> QED BY <1>8, <1>9, <1>10, <2>1
<1>12. CASE r # "bad"
    <2>1. With(W, r, NotServed) = Append(W, r) /\ With(<<>>, r, NotServed) = Append(<<>>, r)
          /\ rest = Unconsumed(buf)
        BY <1>2, <1>12 DEF With
    <2>2. Append(<<>>, r) = <<r>>
        OBVIOUS
    <2>3. Without(qs, Bad) = W \o (<<r>> \o V)
        BY <1>3, <1>6, <1>10, <2>1, <2>2
    <2>4. W \o (<<r>> \o V) = (W \o <<r>>) \o V
        BY <1>7, ConcatAssociative, SMTT(30)
    <2>5. Append(W, r) = W \o <<r>>
        BY <1>1, <1>7, AppendIsConcat
    <2> QED BY <1>6, <1>8, <1>9, <2>1, <2>3, <2>4, <2>5
<1> QED BY <1>11, <1>12

\* A step of the server or of a client.
LEMMA NoneLostStep ==
    ASSUME TypeOK, NoneLost, [Next]_vars
    PROVE  NoneLost'
<1> SUFFICES ASSUME NEW d \in Conns
             PROVE  Without(asked'[d], Bad) = Without(answered'[d] \o Input(d)', NotServed)
    BY DEF NoneLost, Bad, NotServed
<1>1. Without(asked[d], Bad) = Without(answered[d] \o Input(d), NotServed)
    BY DEF NoneLost
<1>2. /\ asked[d] \in Seq(Requests) /\ answered[d] \in Seq(Requests)
      /\ inbuf[d] \in Seq(Pieces) /\ rx[d] \in Seq(Pieces) /\ Input(d) \in Seq(Pieces)
    BY ParseType DEF TypeOK
<1>3. CASE Quiet
    BY <1>1, <1>3 DEF Quiet
<1>4. ASSUME NEW c \in Conns, Accepted(c)
      PROVE  Without(asked'[d], Bad) = Without(answered'[d] \o Input(d)', NotServed)
    BY <1>1, <1>4 DEF Accepted, Input
<1>5. ASSUME NEW c \in Conns, Closed(c)
      PROVE  Without(asked'[d], Bad) = Without(answered'[d] \o Input(d)', NotServed)
    <2>1. CASE d # c
        BY <1>1, <1>5, <2>1 DEF Closed, Input, TypeOK
    <2>2. CASE d = c
        <3>1. asked'[d] = <<>> /\ answered'[d] = <<>> /\ Input(d)' = <<>> \o <<>>
            BY <1>5, <2>2 DEF Closed, Input, TypeOK
        <3>2. <<>> \o <<>> = <<>>
            <4>1. <<>> \in Seq(Pieces)
                OBVIOUS
            <4> QED BY <4>1, ConcatEmptySeq
        <3> QED BY <3>1, <3>2, WithoutNothing
    <2> QED BY <2>1, <2>2
<1>6. ASSUME NEW c \in Conns, Replied(c)
      PROVE  Without(asked'[d], Bad) = Without(answered'[d] \o Input(d)', NotServed)
    <2>1. CASE d # c
        BY <1>1, <1>6, <2>1 DEF Replied, Input, TypeOK
    <2>2. CASE d = c
        <3>1. PICK r : r = http_parse_request(Input(d))
            OBVIOUS
        <3>2. PICK rest : rest = IF r = "bad" THEN Input(d) ELSE Unconsumed(Input(d))
            OBVIOUS
        <3>3. r # "incomplete" /\ answered'[d] = Append(answered[d], r) /\ asked'[d] = asked[d]
            BY <1>6, <2>2, <3>1 DEF Replied, TypeOK
        <3>4. r \in Requests /\ rest \in Seq(Pieces)
            BY <1>2, <3>1, <3>2, <3>3, ParseType
        <3>5. Input(d)' = rest
            <4>1. rx'[d] = <<>> /\ inbuf'[d] = rest
                BY <1>6, <2>2, <3>1, <3>2 DEF Replied, TypeOK
            <4>2. Input(d)' = rest \o <<>>
                BY <4>1 DEF Input
            <4> QED BY <3>4, <4>2, ConcatEmptySeq
        <3>6. PICK buf : buf = Input(d)
            OBVIOUS
        <3>7. Without(asked[d], Bad) = Without(Append(answered[d], r) \o rest, NotServed)
            <4>1. buf \in Seq(Pieces) /\ r = http_parse_request(buf)
                BY <1>2, <3>1, <3>6
            <4>2. rest = IF r = "bad" THEN buf ELSE Unconsumed(buf)
                BY <3>2, <3>6
            <4>3. Without(asked[d], Bad) = Without(answered[d] \o buf, NotServed)
                BY <1>1, <3>6
            <4>4. PICK qs : qs = asked[d]
                OBVIOUS
            <4>5. PICK ans : ans = answered[d]
                OBVIOUS
            <4>6. http_parse_request(buf) # "incomplete" /\ ans \in Seq(Requests)
                  /\ Without(qs, Bad) = Without(ans \o buf, NotServed)
                BY <1>2, <3>3, <4>1, <4>3, <4>4, <4>5
            <4>7. Without(qs, Bad) = Without(Append(ans, r) \o rest, NotServed)
                BY <3>4, <4>1, <4>2, <4>6, NoneLostByReply
            <4> QED BY <4>4, <4>5, <4>7
        <3> QED BY <3>3, <3>5, <3>7
    <2> QED BY <2>1, <2>2
<1>7. ASSUME NEW c \in Conns, NEW p \in Pieces, Sent(c, p)
      PROVE  Without(asked'[d], Bad) = Without(answered'[d] \o Input(d)', NotServed)
    <2>1. CASE d # c
        BY <1>1, <1>7, <2>1 DEF Sent, Input, TypeOK
    <2>2. CASE d = c
        <3>1. Input(d)' = inbuf[d] \o Append(rx[d], p) /\ answered'[d] = answered[d]
            BY <1>7, <2>2 DEF Sent, Input, TypeOK
        <3>2. Input(d)' = Append(Input(d), p)
            <4>1. \A u, v \in Seq(Pieces) : u \o Append(v, p) = Append(u \o v, p)
                BY AppendAfter
            <4>2. inbuf[d] \o Append(rx[d], p) = Append(inbuf[d] \o rx[d], p)
                BY <1>2, <4>1
            <4> QED BY <3>1, <4>2 DEF Input
        <3>3. PICK s : s = answered[d] \o Input(d)
            OBVIOUS
        <3>4. answered[d] \in Seq(Pieces)
            BY <1>2, RequestsArePieces
        <3>5. s \in Seq(Pieces)
            BY <1>2, <3>3, <3>4, ConcatProperties
        <3>6. answered'[d] \o Input(d)' = Append(s, p)
            <4>1. \A u, v \in Seq(Pieces) : u \o Append(v, p) = Append(u \o v, p)
                BY AppendAfter
            <4>2. answered[d] \o Append(Input(d), p) = Append(answered[d] \o Input(d), p)
                BY <1>2, <3>4, <4>1
            <4> QED BY <3>1, <3>2, <3>3, <4>2
        <3>7. Without(Append(s, p), NotServed) = With(Without(s, NotServed), p, NotServed)
            BY <3>5, WithoutAppend
        <3>8. CASE p = "head"
            <4>1. asked'[d] = asked[d]
                BY <1>7, <3>8 DEF Sent
            <4>2. With(Without(s, NotServed), p, NotServed) = Without(s, NotServed)
                BY <3>8 DEF With, NotServed
            <4> QED BY <1>1, <3>3, <3>6, <3>7, <4>1, <4>2
        <3>9. CASE p # "head"
            <4>1. asked'[d] = Append(asked[d], p) /\ p \in Requests
                BY <1>7, <2>2, <3>9 DEF Sent, TypeOK, Pieces
            <4>2. Without(Append(asked[d], p), Bad) = With(Without(asked[d], Bad), p, Bad)
                BY <1>2, <4>1, WithoutAppend
            <4>3. \A W : With(W, p, Bad) = With(W, p, NotServed)
                BY <3>9 DEF With, Bad, NotServed
            <4> QED BY <1>1, <3>3, <3>6, <3>7, <4>1, <4>2, <4>3
        <3> QED BY <3>8, <3>9
    <2> QED BY <2>1, <2>2
<1> QED BY <1>3, <1>4, <1>5, <1>6, <1>7, StepKinds

\* on_data_vek neither loses a well-formed request nor answers it twice: until
\* the connection is closed, each is answered or still in a buffer, in order.
THEOREM RequestsNeverLost == Spec => []NoRequestLost
<1>1. Init => NoneLost
    <2> SUFFICES ASSUME Init, NEW c \in Conns
                 PROVE  Without(asked[c], Bad) = Without(answered[c] \o Input(c), NotServed)
        BY DEF NoneLost
    <2>1. asked[c] = <<>> /\ answered[c] = <<>> /\ Input(c) = <<>> \o <<>>
        BY DEF Init, Input
    <2>2. <<>> \o <<>> = <<>>
        <3>1. <<>> \in Seq(Pieces)
            OBVIOUS
        <3> QED BY <3>1, ConcatEmptySeq
    <2> QED BY <2>1, <2>2, WithoutNothing
<1>2. TypeOK /\ NoneLost /\ [Next]_vars => NoneLost'
    BY NoneLostStep
<1>3. TypeOK /\ NoneLost => NoRequestLost
    <2> SUFFICES ASSUME TypeOK, NoneLost, NEW c \in live
                 PROVE  Without(asked[c], {"bad"}) = Without(answered[c] \o inbuf[c] \o rx[c], {"bad", "head"})
        BY DEF NoRequestLost
    <2>1. c \in Conns /\ answered[c] \in Seq(Requests) /\ inbuf[c] \in Seq(Pieces) /\ rx[c] \in Seq(Pieces)
        BY DEF TypeOK
    <2>2. answered[c] \in Seq(Pieces)
        BY <2>1, RequestsArePieces
    <2>3. (answered[c] \o inbuf[c]) \o rx[c] = answered[c] \o Input(c)
        <3>1. \A u, v, w \in Seq(Pieces) : (u \o v) \o w = u \o (v \o w)
            BY ConcatAssociative
        <3> QED BY <2>1, <2>2, <3>1 DEF Input
    <2> QED BY <2>1, <2>3 DEF NoneLost, Bad, NotServed
<1> QED BY <1>1, <1>2, <1>3, TypeCorrect, PTL DEF Spec
=============================================================================
