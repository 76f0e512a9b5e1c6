----------------------------- MODULE HttpServer -----------------------------
(***************************************************************************)
(* The HTTP server of one vek process: the edge-triggered epoll loop of    *)
(* event_loop.c with the connection callbacks of stdlib_http_server.c (the *)
(* callbacks of http_server.c are the same code under other names).        *)
(*                                                                         *)
(* The process has one thread, so a handler called by event_loop_run is    *)
(* one action; its outcomes (bytes that the socket takes, a reset of the   *)
(* peer that it meets) are actions of their own.  Clients, the kernel and  *)
(* the timers act between any two of them.                                 *)
(*                                                                         *)
(* Connections and timers are heap objects: Conns and Timers are the       *)
(* addresses the allocator has, and a freed address may be handed out      *)
(* again.  Where the code uses memory it has freed, every outcome that the *)
(* build can produce is allowed, and "touched" remembers that it did.      *)
(***************************************************************************)
EXTENDS Integers, Sequences, FiniteSets, FiniteSetsExt, SequencesExt

CONSTANTS
    Conns,       \* addresses for Connection objects
    Timers,      \* addresses for Timer objects
    Nil,         \* the null pointer
    Listener,    \* the listening socket, as a source of events
    Stale,       \* the source of an event whose EpollData was freed
    MaxConns,    \* loop->max_connections, 0 for no limit
    MaxEvents,   \* MAX_EVENTS: length of the array given to epoll_wait
    Timeouts,    \* request_timeout_ms > 0
    Requests,    \* kinds of complete requests that clients send
    MaxArrivals, \* bound: connections that clients open
    MaxAsk,      \* bound: complete requests per connection
    MaxOpenAsk   \* bound: complete requests on all open connections

ASSUME AddressAssumption ==
    /\ Conns \cap Timers = {}
    /\ {Nil, Listener, Stale} \cap (Conns \cup Timers) = {}
    /\ Nil # Listener /\ Nil # Stale /\ Listener # Stale

ASSUME LimitAssumption ==
    /\ MaxConns \in Nat
    /\ MaxEvents \in Nat \ {0}
    /\ Timeouts \in BOOLEAN
    /\ MaxArrivals \in Nat
    /\ MaxAsk \in Nat /\ MaxOpenAsk \in Nat

\* "ka" and "close" are well-formed requests that http_parse_request gives
\* keep_alive = TRUE and FALSE, "bad" is one it answers with an error.
ASSUME RequestAssumption == Requests \subseteq {"ka", "close", "bad"}

\* Bytes arrive in pieces: "head" is a proper part of a request, any other
\* piece completes one.
Pieces == Requests \cup {"head"}

VARIABLES
    \* the process
    proc,      \* "running", "stopping" (loop->running is false) or "dead"
    touched,   \* the kinds of uses of freed memory so far
    live,      \* connections that are allocated (and linked in conn_head)
    keep,      \* keep[c]: state->keep_alive
    inbuf,     \* inbuf[c]: conn->read_buf
    unsent,    \* unsent[c]: responses in conn->write_buf not fully written
    timerOf,   \* timerOf[c]: state->timeout
    target,    \* target[t]: timer->userdata, Nil when t is not allocated
    batch,     \* the rest of the events array of event_loop_run
    \* the kernel
    ready,     \* ready list of the epoll instance, oldest first
    wantOut,   \* wantOut[c]: EPOLLOUT is in the events registered for c
    fired,     \* timers that have expired
    backlog,   \* connections waiting for accept()
    rx,        \* rx[c]: bytes received and not yet read
    blocked,   \* blocked[c]: the send buffer of c is full
    \* the clients
    arrivals,  \* connections opened so far
    peer,      \* peer[c]: "up", "fin" (has sent EOF) or "gone" (has reset)
    \* history
    asked,     \* asked[c]: complete requests sent by the client of c
    answered   \* answered[c]: requests whose response was put in write_buf

connVars == <<keep, inbuf, unsent, wantOut, rx, blocked, peer, asked, answered>>
timerVars == <<target, fired>>
acceptVars == <<backlog, arrivals>>
vars == <<proc, touched, live, keep, inbuf, unsent, timerOf, target, batch,
          ready, wantOut, fired, backlog, rx, blocked, arrivals, peer,
          asked, answered>>

Sources == Conns \cup Timers \cup {Listener}

Event == [src : Sources \cup {Stale, Nil}, in : BOOLEAN, out : BOOLEAN, hup : BOOLEAN]

-----------------------------------------------------------------------------
(* http_parse_request: the buffer is one request up to the first piece     *)
(* that completes one.                                                     *)

EndOfRequest(buf) ==
    {i \in DOMAIN buf : /\ buf[i] # "head"
                        /\ \A j \in 1..(i - 1) : buf[j] = "head"}

http_parse_request(buf) ==
    IF EndOfRequest(buf) = {} THEN "incomplete"
    ELSE buf[CHOOSE i \in EndOfRequest(buf) : TRUE]

\* Mutants: the request is not consumed; all of the buffer is dropped.
Unconsumed_all(buf) == buf
Unconsumed_none(buf) == <<>>

\* The buffer without the req.bytes_consumed bytes of its first request.
Unconsumed(buf) ==
    SubSeq(buf, (CHOOSE i \in EndOfRequest(buf) : TRUE) + 1, Len(buf))

-----------------------------------------------------------------------------
(* The epoll instance.                                                     *)

\* An edge puts its source at the end of the ready list, once.
Wake(list, x) == IF x \in Range(list) THEN list ELSE Append(list, x)

\* Mutant: a closed descriptor stays in the ready list.
Forget_nothing(list, x) == list

\* Closing a file descriptor takes it out of the ready list; the events of
\* the current batch that carry its EpollData stay and become stale.
Forget(list, x) ==
    IF x \in Range(list)
    THEN RemoveAt(list, CHOOSE i \in DOMAIN list : list[i] = x)
    ELSE list
MakeStale(evs, F) ==
    [i \in DOMAIN evs |->
        IF evs[i].src \in F THEN [evs[i] EXCEPT !.src = Stale] ELSE evs[i]]

Readable(c) == rx[c] # <<>> \/ peer[c] # "up"
Writable(c) == wantOut[c] /\ (~blocked[c] \/ peer[c] = "gone")

Reports(x) == x \in Conns => Readable(x) \/ Writable(x)

\* The event of x, or an empty place when x has no flag to report.
EventOf(x) ==
    [src |-> IF Reports(x) THEN x ELSE Nil,
     in  |-> IF x \in Conns THEN Readable(x) ELSE TRUE,
     out |-> IF x \in Conns THEN Writable(x) ELSE FALSE,
     hup |-> IF x \in Conns THEN peer[x] = "gone" ELSE FALSE]

\* epoll_wait takes sources from the head of the ready list until it has
\* MaxEvents events to report or the list is empty.
epoll_wait ==
    /\ proc = "running"
    /\ batch = <<>>
    /\ \E n \in 1..Len(ready) :
          LET events == Cardinality({i \in 1..n : Reports(ready[i])})
          IN  /\ events <= MaxEvents
              /\ n = Len(ready) \/ events = MaxEvents
              /\ batch' = [i \in 1..n |-> EventOf(ready[i])]
              /\ ready' = SubSeq(ready, n + 1, Len(ready))
    /\ UNCHANGED <<proc, touched, live, timerOf, connVars, timerVars,
                   acceptVars>>

-----------------------------------------------------------------------------
(* Dispatching one event of the batch.                                     *)

\* The event at the head of the batch is handed to object x.  The memory of
\* a stale event may belong to any other object by now.
Serves(x) ==
    /\ proc # "dead"
    /\ batch # <<>>
    /\ Head(batch).src \in {x, Stale}

\* Uses of freed memory by a step: U, and the EpollData of a stale event.
Touches(U) ==
    touched' = touched \cup U \cup
               (IF Head(batch).src = Stale THEN {"event"} ELSE {})

\* The event is done, and the objects of F were freed on the way.
Done(F) == batch' = MakeStale(Tail(batch), F)

\* An empty place in the batch is passed over.
no_event ==
    /\ proc # "dead"
    /\ batch # <<>>
    /\ Head(batch).src = Nil
    /\ Done({})
    /\ UNCHANGED <<proc, touched, live, timerOf, connVars, timerVars, ready,
                   acceptVars>>

\* handle_read is done; event_loop_run looks at EPOLLOUT of the same event.
ReadDone(F) ==
    batch' = MakeStale(IF Head(batch).out
                       THEN <<[Head(batch) EXCEPT !.in = FALSE]>> \o Tail(batch)
                       ELSE Tail(batch), F)

ReadEvent(c) == /\ Serves(c) /\ c \in live
                /\ Head(batch).in /\ ~Head(batch).hup

WriteEvent(c) == /\ Serves(c) /\ c \in live
                 /\ Head(batch).out /\ ~Head(batch).in /\ ~Head(batch).hup

\* The addresses event_loop_add_timer may return when the timers of F have
\* been freed: none is left when timerfd_create or malloc fails.
NewTimer(F) ==
    LET free == {t \in Timers : target[t] = Nil} \cup F
    IN  IF Timeouts /\ free # {} THEN free ELSE {Nil}

\* event_loop_cancel_timer for the timers of F, then event_loop_add_timer
\* giving t for connection c (t = Nil: no timer is added).
SetTimers(F, t, c) ==
    /\ target' = [u \in Timers |-> IF u = t THEN c
                                   ELSE IF u \in F THEN Nil ELSE target[u]]
    /\ fired' = fired \ (F \cup {t})

\* Mutant: no timeout is ever cancelled.
TimerSet_none(c) == {}

TimerSet(c) == {timerOf[c]} \ {Nil}

\* event_loop_conn_close: the connection is unlinked, its socket closed and
\* its buffers freed.  The timers of its callbacks are the caller's.
event_loop_conn_close(c) ==
    /\ live' = live \ {c}
    /\ timerOf' = [timerOf EXCEPT ![c] = Nil]
    /\ keep' = [keep EXCEPT ![c] = FALSE]
    /\ inbuf' = [inbuf EXCEPT ![c] = <<>>]
    /\ unsent' = [unsent EXCEPT ![c] = 0]
    /\ wantOut' = [wantOut EXCEPT ![c] = FALSE]
    /\ rx' = [rx EXCEPT ![c] = <<>>]
    /\ blocked' = [blocked EXCEPT ![c] = FALSE]
    /\ peer' = [peer EXCEPT ![c] = "up"]
    /\ asked' = [asked EXCEPT ![c] = <<>>]
    /\ answered' = [answered EXCEPT ![c] = <<>>]

\* Mutant: the connection is closed without cancelling its timeout.
CloseWithTimeout_leaking(c) ==
    /\ event_loop_conn_close(c)
    /\ ready' = Forget(ready, c)
    /\ UNCHANGED <<timerVars, acceptVars>>

\* The close with on_close_vek (or on_write_done_vek) before it, which
\* cancels the timeout of the connection.
CloseWithTimeout(c) ==
    /\ event_loop_conn_close(c)
    /\ SetTimers(TimerSet(c), Nil, c)
    /\ ready' = Forget(Forget(ready, c), timerOf[c])
    /\ UNCHANGED acceptVars

-----------------------------------------------------------------------------
(* handle_accept: one action per turn of its loop.                         *)

AcceptEvent == Serves(Listener) /\ Head(batch).src = Listener

AtCapacity == MaxConns > 0 /\ Cardinality(live) >= MaxConns

\* Mutant: the result of accept() is not looked at.
accept_over_limit_unchecked ==
    /\ AcceptEvent /\ AtCapacity
    /\ backlog' = backlog - 1
    /\ Done({})
    /\ UNCHANGED <<proc, touched, live, timerOf, connVars, timerVars, ready,
                   arrivals>>

\* The limit is reached: one connection is accepted and closed, and the loop
\* is left.
accept_over_limit ==
    /\ AcceptEvent /\ AtCapacity
    /\ backlog' = IF backlog > 0 THEN backlog - 1 ELSE 0
    /\ Done({})
    /\ UNCHANGED <<proc, touched, live, timerOf, connVars, timerVars, ready,
                   arrivals>>

\* Mutant: one connection is accepted per event.
accept_connection_once(c) ==
    /\ AcceptEvent /\ ~AtCapacity
    /\ backlog > 0
    /\ c \notin live
    /\ backlog' = backlog - 1
    /\ live' = live \cup {c}
    /\ keep' = [keep EXCEPT ![c] = TRUE]
    /\ \E t \in NewTimer({}) :
          /\ timerOf' = [timerOf EXCEPT ![c] = t]
          /\ SetTimers({}, t, c)
    /\ Done({})
    /\ UNCHANGED <<proc, touched, ready, arrivals, inbuf, unsent, wantOut, rx,
                   blocked, peer, asked, answered>>

\* A connection is accepted; on_accept_vek gives it its timeout.
accept_connection(c) ==
    /\ AcceptEvent /\ ~AtCapacity
    /\ backlog > 0
    /\ c \notin live
    /\ backlog' = backlog - 1
    /\ live' = live \cup {c}
    /\ keep' = [keep EXCEPT ![c] = TRUE]
    /\ \E t \in NewTimer({}) :
          /\ timerOf' = [timerOf EXCEPT ![c] = t]
          /\ SetTimers({}, t, c)
    /\ UNCHANGED <<proc, touched, batch, ready, arrivals, inbuf, unsent,
                   wantOut, rx, blocked, peer, asked, answered>>

\* connection_new fails: the accepted socket is closed and the loop goes on.
accept_without_memory ==
    /\ AcceptEvent /\ ~AtCapacity
    /\ backlog > 0
    /\ live = Conns
    /\ backlog' = backlog - 1
    /\ UNCHANGED <<proc, touched, live, timerOf, connVars, timerVars, batch,
                   ready, arrivals>>

\* accept() has no connection (EAGAIN), or no file descriptor (EMFILE): the
\* loop is left.
accept_end ==
    /\ AcceptEvent /\ ~AtCapacity
    /\ backlog = 0 \/ live = Conns
    /\ Done({})
    /\ UNCHANGED <<proc, touched, live, timerOf, connVars, timerVars, ready,
                   acceptVars>>

-----------------------------------------------------------------------------
(* handle_read and on_data_vek: all that the socket has goes to read_buf,  *)
(* then the first request of read_buf, if it is complete, is answered.     *)

Input(c) == inbuf[c] \o rx[c]

\* read() meets EOF or an error.  At EOF the handler of a complete request
\* runs, but its response is dropped (the state is CONN_CLOSED).
read_closed(c) ==
    /\ ReadEvent(c)
    /\ peer[c] # "up"
    /\ Done({c} \cup TimerSet(c))
    /\ Touches({})
    /\ CloseWithTimeout(c)
    /\ UNCHANGED proc

read_incomplete(c) ==
    /\ ReadEvent(c)
    /\ peer[c] = "up"
    /\ http_parse_request(Input(c)) = "incomplete"
    /\ inbuf' = [inbuf EXCEPT ![c] = Input(c)]
    /\ rx' = [rx EXCEPT ![c] = <<>>]
    /\ ReadDone({})
    /\ Touches({})
    /\ UNCHANGED <<proc, live, keep, unsent, timerOf, ready, wantOut, blocked,
                   peer, asked, answered, timerVars, acceptVars>>

\* A request, well-formed or not, is complete: its timeout is cancelled.
ReadRequest(c, kinds) ==
    /\ ReadEvent(c)
    /\ peer[c] = "up"
    /\ http_parse_request(Input(c)) \in kinds
    /\ rx' = [rx EXCEPT ![c] = <<>>]
    /\ answered' = [answered EXCEPT ![c] =
                       Append(@, http_parse_request(Input(c)))]
    /\ UNCHANGED <<asked, acceptVars>>

KeepAlive(c) == http_parse_request(Input(c)) = "ka"

\* event_loop_conn_write, when all of write_buf goes out at once.
WriteAll(c) ==
    /\ ~blocked[c]
    /\ unsent' = [unsent EXCEPT ![c] = 0]
    /\ UNCHANGED <<blocked, wantOut, peer>>

\* Mutant: EPOLLOUT is not registered for the rest.
WritePart_unregistered(c, u) ==
    /\ u \in 1..(unsent[c] + 1)
    /\ blocked[c] => u = unsent[c] + 1
    /\ unsent' = [unsent EXCEPT ![c] = u]
    /\ blocked' = [blocked EXCEPT ![c] = TRUE]
    /\ UNCHANGED <<peer, wantOut>>

\* event_loop_conn_write, when the socket takes a part of it or nothing: the
\* rest waits for EPOLLOUT.  u responses are not completely written.
WritePart(c, u) ==
    /\ u \in 1..(unsent[c] + 1)
    /\ blocked[c] => u = unsent[c] + 1
    /\ unsent' = [unsent EXCEPT ![c] = u]
    /\ blocked' = [blocked EXCEPT ![c] = TRUE]
    /\ wantOut' = [wantOut EXCEPT ![c] = TRUE]
    /\ UNCHANGED peer

\* event_loop_conn_write, when the peer resets the connection before the
\* write: it returns false, which its callers ignore, or SIGPIPE, which is
\* neither blocked nor handled, ends the process.
WriteFails(c) ==
    /\ unsent' = [unsent EXCEPT ![c] = @ + 1]
    /\ blocked' = [blocked EXCEPT ![c] = FALSE]
    /\ peer' = [peer EXCEPT ![c] = "gone"]
    /\ proc' \in {proc, "dead"}
    /\ UNCHANGED wantOut

\* Mutant: the timeout is not armed again after a request.
RearmedTimer_never(c) == {Nil}

\* The timeout for the next request, on a connection that is kept.
RearmedTimer(c) == IF KeepAlive(c) THEN NewTimer(TimerSet(c)) ELSE {Nil}

\* The end of on_data_vek: the request is consumed and the timeout is re-armed.
NextRequest(c) ==
    /\ keep' = [keep EXCEPT ![c] = KeepAlive(c)]
    /\ inbuf' = [inbuf EXCEPT ![c] = Unconsumed(Input(c))]
    /\ \E t \in RearmedTimer(c) :
          /\ timerOf' = [timerOf EXCEPT ![c] = t]
          /\ SetTimers(TimerSet(c), t, c)
    /\ ReadDone(TimerSet(c))
    /\ UNCHANGED live

\* A request whose response is written at once, on a connection to be kept.
request_answered(c) ==
    /\ ReadRequest(c, {"ka"})
    /\ WriteAll(c)
    /\ NextRequest(c)
    /\ ready' = Forget(ready, timerOf[c])
    /\ Touches({})
    /\ UNCHANGED proc

\* A request whose response waits, in part, for the client to read.
request_pending(c) ==
    /\ ReadRequest(c, {"ka", "close"})
    /\ \E u \in 1..(unsent[c] + 1) : WritePart(c, u)
    /\ NextRequest(c)
    /\ ready' = Forget(ready, timerOf[c])
    /\ Touches({})
    /\ UNCHANGED proc

request_unwritten(c) ==
    /\ ReadRequest(c, {"ka", "close"})
    /\ WriteFails(c)
    /\ NextRequest(c)
    /\ ready' = Wake(Forget(ready, timerOf[c]), c)
    /\ Touches({})

\* A request whose response is written at once, on a connection that is not
\* kept: on_write_done_vek frees state and connection before the write
\* returns.  on_data_vek goes on to read conn->read_buf and state->keep_alive
\* and, if that memory reads as true, arms a timeout for the freed connection.
request_answered_and_closed(c) ==
    /\ ReadEvent(c)
    /\ peer[c] = "up"
    /\ http_parse_request(Input(c)) = "close"
    /\ ~blocked[c]
    /\ event_loop_conn_close(c)
    /\ \E t \in NewTimer(TimerSet(c)) \cup {Nil} : SetTimers(TimerSet(c), t, c)
    /\ ready' = Forget(Forget(ready, c), timerOf[c])
    /\ Done({c} \cup TimerSet(c))
    /\ Touches({"tail"})
    /\ UNCHANGED <<proc, acceptVars>>

\* HTTP_PARSE_ERROR: the 400 is sent while keep_alive has its old value, the
\* bytes are not consumed and no timeout is armed.
BadRequest(c) ==
    /\ keep' = [keep EXCEPT ![c] = FALSE]
    /\ inbuf' = [inbuf EXCEPT ![c] = Input(c)]
    /\ timerOf' = [timerOf EXCEPT ![c] = Nil]
    /\ SetTimers(TimerSet(c), Nil, c)
    /\ ReadDone(TimerSet(c))
    /\ Touches({})
    /\ UNCHANGED live

bad_request_answered(c) ==
    /\ ReadRequest(c, {"bad"})
    /\ keep[c]
    /\ WriteAll(c)
    /\ BadRequest(c)
    /\ ready' = Forget(ready, timerOf[c])
    /\ UNCHANGED proc

bad_request_pending(c) ==
    /\ ReadRequest(c, {"bad"})
    /\ \E u \in 1..(unsent[c] + 1) : WritePart(c, u)
    /\ BadRequest(c)
    /\ ready' = Forget(ready, timerOf[c])
    /\ UNCHANGED proc

bad_request_unwritten(c) ==
    /\ ReadRequest(c, {"bad"})
    /\ WriteFails(c)
    /\ BadRequest(c)
    /\ ready' = Wake(Forget(ready, timerOf[c]), c)

\* keep_alive is already false: on_write_done_vek frees the connection, and
\* the assignment to state->keep_alive that follows corrupts the free list,
\* which the allocator may detect.
bad_request_answered_and_closed(c) ==
    /\ ReadEvent(c)
    /\ peer[c] = "up"
    /\ http_parse_request(Input(c)) = "bad"
    /\ ~keep[c]
    /\ ~blocked[c]
    /\ CloseWithTimeout(c)
    /\ Done({c} \cup TimerSet(c))
    /\ Touches({"tail"})
    /\ proc' \in {proc, "dead"}

-----------------------------------------------------------------------------
(* handle_write and on_write_done_vek, and the EPOLLERR / EPOLLHUP case.   *)

\* All of write_buf is out (or there was nothing in it): EPOLLOUT is given
\* up, and the epoll_ctl that does it reports pending input once more.
write_drained(c) ==
    /\ WriteEvent(c) /\ keep[c]
    /\ \/ unsent[c] = 0
       \/ ~blocked[c] /\ peer[c] # "gone"
    /\ unsent' = [unsent EXCEPT ![c] = 0]
    /\ wantOut' = [wantOut EXCEPT ![c] = FALSE]
    /\ ready' = IF Readable(c) THEN Wake(ready, c) ELSE ready
    /\ Done({})
    /\ Touches({})
    /\ UNCHANGED <<proc, live, keep, inbuf, timerOf, rx, blocked, peer, asked,
                   answered, timerVars, acceptVars>>

write_drained_and_closed(c) ==
    /\ WriteEvent(c) /\ ~keep[c]
    /\ \/ unsent[c] = 0
       \/ ~blocked[c] /\ peer[c] # "gone"
    /\ CloseWithTimeout(c)
    /\ Done({c} \cup TimerSet(c))
    /\ Touches({})
    /\ UNCHANGED proc

\* The socket takes a part of write_buf, or nothing.
write_part(c) ==
    /\ WriteEvent(c)
    /\ peer[c] # "gone"
    /\ \E u \in 1..unsent[c] :
          /\ blocked[c] => u = unsent[c]
          /\ unsent' = [unsent EXCEPT ![c] = u]
    /\ blocked' = [blocked EXCEPT ![c] = TRUE]
    /\ Done({})
    /\ Touches({})
    /\ UNCHANGED <<proc, live, keep, inbuf, timerOf, ready, wantOut, rx, peer,
                   asked, answered, timerVars, acceptVars>>

write_failed(c) ==
    /\ WriteEvent(c)
    /\ peer[c] = "gone"
    /\ unsent[c] > 0
    /\ CloseWithTimeout(c)
    /\ Done({c} \cup TimerSet(c))
    /\ Touches({})
    /\ proc' \in {proc, "dead"}

hangup(c) ==
    /\ Serves(c) /\ c \in live
    /\ Head(batch).hup
    /\ CloseWithTimeout(c)
    /\ Done({c} \cup TimerSet(c))
    /\ Touches({})
    /\ UNCHANGED proc

-----------------------------------------------------------------------------
(* handle_timer and on_timeout_vek.                                        *)

TimerEvent(t) == Serves(t) /\ target[t] # Nil /\ Head(batch).in

\* state->timeout is overwritten, not cancelled: it is taken to be t.
timeout_closes(t) ==
    LET c == target[t]
    IN  /\ TimerEvent(t)
        /\ c \in live
        /\ event_loop_conn_close(c)
        /\ SetTimers({t}, Nil, c)
        /\ ready' = Forget(Forget(ready, c), t)
        /\ Done({c, t})
        /\ Touches({})
        /\ UNCHANGED <<proc, acceptVars>>

\* The connection of the timer has been freed: its memory is taken for a
\* closed connection, or is freed twice.
timeout_of_freed(t) ==
    /\ TimerEvent(t)
    /\ target[t] \notin live
    /\ SetTimers({t}, Nil, Nil)
    /\ ready' = Forget(ready, t)
    /\ Done({t})
    /\ Touches({"timeout"})
    /\ proc' \in {proc, "dead"}
    /\ UNCHANGED <<live, timerOf, connVars, acceptVars>>

\* A stale event whose memory belongs to no connection and no timer.
stale_event ==
    /\ Serves(Stale)
    /\ Done({})
    /\ Touches({})
    /\ proc' \in {proc, "dead"}
    /\ UNCHANGED <<live, timerOf, connVars, timerVars, ready, acceptVars>>

\* sigint_handler: the loop ends after the current batch.
http_server_stop ==
    /\ proc = "running"
    /\ proc' = "stopping"
    /\ UNCHANGED <<touched, live, timerOf, connVars, timerVars, acceptVars,
                   batch, ready>>

-----------------------------------------------------------------------------
(* Clients and kernel.                                                     *)

\* Nothing can be observed of a process that has left its loop.
Serving == proc = "running" \/ (proc = "stopping" /\ batch # <<>>)

Connect ==
    /\ Serving
    /\ arrivals < MaxArrivals
    /\ arrivals' = arrivals + 1
    /\ backlog' = backlog + 1
    /\ ready' = Wake(ready, Listener)
    /\ UNCHANGED <<proc, touched, live, timerOf, connVars, timerVars, batch>>

\* The client of c sends one piece; after a "head" it sends the piece that
\* completes the request.
Send(c, p) ==
    /\ Serving
    /\ c \in live /\ peer[c] = "up"
    /\ Len(asked[c]) < MaxAsk
    /\ MapThenSumSet(LAMBDA d : Len(asked[d]), Conns) < MaxOpenAsk
    /\ p = "head" => ~IsSuffix(<<"head">>, Input(c))
    /\ rx' = [rx EXCEPT ![c] = Append(@, p)]
    /\ asked' = IF p = "head" THEN asked
                ELSE [asked EXCEPT ![c] = Append(@, p)]
    /\ ready' = Wake(ready, c)
    /\ UNCHANGED <<proc, touched, live, keep, inbuf, unsent, timerOf, wantOut,
                   blocked, peer, answered, timerVars, acceptVars, batch>>

\* The client of c closes its side, or resets the connection.
Leave(c, how) ==
    /\ Serving
    /\ c \in live
    /\ peer[c] = "up" \/ (peer[c] = "fin" /\ how = "gone")
    /\ peer' = [peer EXCEPT ![c] = how]
    /\ ready' = Wake(ready, c)
    /\ UNCHANGED <<proc, touched, live, keep, inbuf, unsent, timerOf, wantOut,
                   rx, blocked, asked, answered, timerVars, acceptVars, batch>>

\* The client of c reads what it was sent: the send buffer has room again.
Drain(c) ==
    /\ Serving
    /\ c \in live /\ blocked[c]
    /\ blocked' = [blocked EXCEPT ![c] = FALSE]
    /\ ready' = IF wantOut[c] THEN Wake(ready, c) ELSE ready
    /\ UNCHANGED <<proc, touched, live, keep, inbuf, unsent, timerOf, wantOut,
                   rx, peer, asked, answered, timerVars, acceptVars, batch>>

Expire(t) ==
    /\ Serving
    /\ target[t] # Nil /\ t \notin fired
    /\ fired' = fired \cup {t}
    /\ ready' = Wake(ready, t)
    /\ UNCHANGED <<proc, touched, live, timerOf, connVars, target, acceptVars,
                   batch>>

-----------------------------------------------------------------------------

Init ==
    /\ proc = "running"
    /\ touched = {}
    /\ live = {}
    /\ keep = [c \in Conns |-> FALSE]
    /\ inbuf = [c \in Conns |-> <<>>]
    /\ unsent = [c \in Conns |-> 0]
    /\ timerOf = [c \in Conns |-> Nil]
    /\ target = [t \in Timers |-> Nil]
    /\ batch = <<>>
    /\ ready = <<>>
    /\ wantOut = [c \in Conns |-> FALSE]
    /\ fired = {}
    /\ backlog = 0
    /\ rx = [c \in Conns |-> <<>>]
    /\ blocked = [c \in Conns |-> FALSE]
    /\ arrivals = 0
    /\ peer = [c \in Conns |-> "up"]
    /\ asked = [c \in Conns |-> <<>>]
    /\ answered = [c \in Conns |-> <<>>]

handle_accept ==
    \/ accept_over_limit
    \/ \E c \in Conns : accept_connection(c)
    \/ accept_without_memory
    \/ accept_end

handle_read(c) ==
    \/ read_closed(c)
    \/ read_incomplete(c)
    \/ request_answered(c)
    \/ request_pending(c)
    \/ request_unwritten(c)
    \/ request_answered_and_closed(c)
    \/ bad_request_answered(c)
    \/ bad_request_pending(c)
    \/ bad_request_unwritten(c)
    \/ bad_request_answered_and_closed(c)

handle_write(c) ==
    \/ write_drained(c)
    \/ write_drained_and_closed(c)
    \/ write_part(c)
    \/ write_failed(c)

handle_timer(t) == timeout_closes(t) \/ timeout_of_freed(t)

event_loop_run ==
    \/ epoll_wait
    \/ no_event
    \/ handle_accept
    \/ \E c \in Conns : handle_read(c) \/ handle_write(c) \/ hangup(c)
    \/ \E t \in Timers : handle_timer(t)
    \/ stale_event

Environment ==
    \/ http_server_stop
    \/ Connect
    \/ \E c \in Conns :
          \/ \E p \in Pieces : Send(c, p)
          \/ \E how \in {"fin", "gone"} : Leave(c, how)
          \/ Drain(c)
    \/ \E t \in Timers : Expire(t)

Next == event_loop_run \/ Environment

Spec == Init /\ [][Next]_vars

\* The loop runs while it has events, timers expire and the clients read.  A
\* response is finite: the parts that the socket takes come to an end when it
\* has room again and again.
FairSpec ==
    /\ Spec
    /\ WF_vars(event_loop_run)
    /\ \A t \in Timers : WF_vars(Expire(t))
    /\ \A c \in Conns :
          /\ WF_vars(Drain(c))
          /\ SF_vars(write_drained(c) \/ write_drained_and_closed(c))

-----------------------------------------------------------------------------
(* Properties.                                                             *)

\* The types of the variables: what the objects on the heap, the kernel's
\* lists and the clients of event_loop.c and stdlib_http_server.c can hold.
TypeOK ==
    /\ proc \in {"running", "stopping", "dead"}
    /\ touched \subseteq {"tail", "event", "timeout"}
    /\ live \subseteq Conns
    /\ keep \in [Conns -> BOOLEAN]
    /\ inbuf \in [Conns -> Seq(Pieces)]
    /\ unsent \in [Conns -> Nat]
    /\ timerOf \in [Conns -> Timers \cup {Nil}]
    /\ target \in [Timers -> Conns \cup {Nil}]
    /\ batch \in Seq(Event)
    /\ ready \in Seq(Sources)
    /\ wantOut \in [Conns -> BOOLEAN]
    /\ fired \subseteq Timers
    /\ backlog \in Nat
    /\ rx \in [Conns -> Seq(Pieces)]
    /\ blocked \in [Conns -> BOOLEAN]
    /\ arrivals \in Nat
    /\ peer \in [Conns -> {"up", "fin", "gone"}]
    /\ asked \in [Conns -> Seq(Requests)]
    /\ answered \in [Conns -> Seq(Requests)]

\* As long as the process has used no freed memory, every allocated timer has
\* a live connection to close, and is the one that connection will cancel:
\* on_data_vek, on_close_vek, on_write_done_vek and handle_timer keep
\* timer->userdata and state->timeout inverse to each other.
TimersBelong ==
    touched = {} =>
        /\ \A t \in Timers : target[t] # Nil =>
               target[t] \in live /\ timerOf[target[t]] = t
        /\ \A c \in Conns : timerOf[c] # Nil =>
               c \in live /\ target[timerOf[c]] = c

\* Before any freed memory is used, an event that waits in the events array of
\* event_loop_run loses its EpollData in one way only: it and the event being
\* dispatched are those of a connection and of that connection's own timeout,
\* which has expired in the same epoll_wait.  No other client's event is freed,
\* whatever is closed, accepted and handed out again before it is dispatched.
StaleOnlyByTimeout ==
    [][touched' = {} =>
           \A i \in 2..Len(batch) :
               LET x == batch[i].src
                   y == Head(batch).src
               IN  x \in Conns \cup Timers /\ x # y /\ (\A j \in DOMAIN batch' : batch'[j].src # x)
                       => \E c \in live : {x, y} = {c, timerOf[c]}]_vars

\* x has an event to come: an edge in the ready list, or a place in the batch.
Pending(x) == \/ x \in Range(ready)
              \/ \E i \in DOMAIN batch : batch[i].src = x

\* Every source in the ready list is an allocated object: closing the file
\* descriptor in event_loop_conn_close and event_loop_cancel_timer leaves no
\* edge behind that epoll_wait could report with a freed EpollData.
ReadySourcesAllocated ==
    Range(ready) \subseteq
        live \cup {t \in Timers : target[t] # Nil} \cup {Listener}

\* With edge-triggered epoll nothing is reported twice.  While a response
\* is not fully written (event_loop_conn_write, handle_write), either the
\* send buffer is full and EPOLLOUT is registered, so that draining it is
\* reported, or an event of the connection is to come.  While input is
\* unread, an event is to come.
NoLostWakeup ==
    \A c \in live :
        /\ unsent[c] > 0 => (wantOut[c] /\ blocked[c]) \/ Pending(c)
        /\ Readable(c) => Pending(c)

\* While connections wait in the backlog, an event of the listening socket is
\* to come.
BacklogHasWakeup == backlog > 0 => Pending(Listener)

\* "Edge-triggered: must accept all pending connections": handle_accept leaves
\* its loop with connections in the backlog, and no event to come for them, only
\* at max_connections or when accept() has no descriptor.  They then wait for
\* the next client to connect.
BacklogKept ==
    [][BacklogHasWakeup /\ ~BacklogHasWakeup' => AtCapacity \/ live = Conns]_vars

\* The sequence s without the members of K.
With(r, x, K) == IF x \in K THEN r ELSE Append(r, x)
Without(s, K) ==
    LET upTo[i \in 0..Len(s)] == IF i = 0 THEN <<>> ELSE With(upTo[i - 1], s[i], K)
    IN  upTo[Len(s)]

\* What is answered, buffered and received of a connection is what its client
\* asked: on_data_vek neither loses nor repeats a request when it consumes
\* the read buffer, also when requests are pipelined or come in pieces.
NoRequestLost ==
    \A c \in live :
        Without(asked[c], {"bad"}) =
        Without(answered[c] \o inbuf[c] \o rx[c], {"bad", "head"})

\* A step frees a connection only while it dispatches an event of that
\* connection or of the timeout that the connection owns, as long as no freed
\* memory was used: one client's traffic never closes another's connection.
ClosedByOwnEvent ==
    [][\A c \in live \ live' :
           touched' = {} => Head(batch).src \in {c, timerOf[c]}]_vars

\* "Single write call: avoids use-after-free if on_write_done fires
\* synchronously": on_data_vek does not use a connection that its own
\* response has closed.
NoUseAfterResponse == "tail" \notin touched

\* Where on_data_vek leaves a connection after a malformed request that came
\* while the connection was to be kept: its timeout is cancelled, the 400 is out,
\* and although the comment there says "Send 400 and close" nothing closes it.
LeftAfter400(c) == "bad" \in Range(answered[c]) /\ unsent[c] = 0 /\ timerOf[c] = Nil

\* With request timeouts on, no connection stays open for ever once its client
\* falls silent: it is answered what it asked and closed, by its timeout if by
\* nothing else.  There is one way out: LeftAfter400.
SilentConnectionCloses ==
    \A c \in Conns :
        c \in live ~> c \notin live \/ LeftAfter400(c) \/ touched # {} \/ proc # "running"

\* The requests before the first malformed one.
Sound(s) ==
    LET malformed == {i \in DOMAIN s : s[i] = "bad"}
    IN  IF malformed = {} THEN s ELSE SubSeq(s, 1, Min(malformed) - 1)

\* The server implements the promise of RequestReply, up to the first
\* malformed request of a connection: on_data_vek answers requests in the
\* order they came, each at most once.
Promise == INSTANCE RequestReply WITH
    open     <- live,
    asked    <- [c \in Conns |-> Sound(asked[c])],
    answered <- [c \in Conns |-> Sound(answered[c])]
KeepsPromise == Promise!Spec
=============================================================================
