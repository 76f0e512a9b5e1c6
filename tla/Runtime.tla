------------------------------ MODULE Runtime -------------------------------
(***************************************************************************)
(* Calls from C into vek code and back, as one request handler makes them: *)
(* vm_call and the frames of vm.c, pubsub, and db.transaction with the     *)
(* connection of vek_db.c.  The instructions of a function are reduced to  *)
(* what the nesting depends on; each may come at any point of any function.*)
(*                                                                         *)
(* `c' holds the C functions that wait for a vm_call, innermost last, and  *)
(* `result' says how the vm_call of the last one has ended: "none" while   *)
(* run() is executing.  `top' counts the stack, `frames' the slots of each *)
(* frame.  SQLite is a set of writes that are stored and a set that an     *)
(* open transaction holds back.                                            *)
(***************************************************************************)
EXTENDS Integers, Sequences, FiniteSets, SequencesExt

CONSTANTS Functions,      \* closures
          Arity,          \* [Functions -> Nat]
          Natives,        \* native functions that are used as callbacks
          Channels,
          STACK_MAX, FRAMES_MAX,
          MaxSubscribers, \* PUBSUB_MAX_SUBSCRIBERS
          MaxChannels,    \* PUBSUB_MAX_CHANNELS
          MaxRequests, MaxSteps  \* bounds: requests, instructions

ASSUME RuntimeLimits ==
    {STACK_MAX, FRAMES_MAX, MaxSubscribers, MaxChannels, MaxRequests, MaxSteps} \subseteq Nat
ASSUME CallbackKinds == Arity \in [Functions -> Nat] /\ Functions \cap Natives = {}

VARIABLES top, frames, call_depth, had_error, open_upvalues,
          c, result, requests, steps,
          channels,        \* from names to the callbacks of the channel
          pins,            \* how often each callback is in pinned_objects
          db_conn,         \* is there a connection
          in_transaction,  \* the connection's flag
          sqlite,          \* is a transaction of SQLite open
          pending, stored, writes,
          tx, \* history: <<writes, outcome>> of each db.transaction
          broken           \* history: see TransactionsAtomic

vm == <<top, frames, call_depth, had_error, open_upvalues>>
pubsub == <<channels, pins>>
connection == <<db_conn, in_transaction, sqlite>>
contents == <<pending, stored, writes>>
db == <<connection, contents, tx, broken>>
RuntimeVars == <<vm, c, result, requests, steps, pubsub, db>>

Least(a, b) == IF a < b THEN a ELSE b
IsCallback(f) == f \in Functions \cup Natives

\* vm_push, n times from height t: at the limit the value is dropped and
\* had_error set.
Pushed(t, n) == Least(t + n, STACK_MAX)
Overflows(t, n) == t + n > STACK_MAX

Frame == Last(frames)
Caller == Last(c)
Running == c # <<>> /\ result = "none"
-----------------------------------------------------------------------------
(* vm_call.                                                                *)

\* A mutant: the depth to come back to is not saved for nested calls.
Saved_zero == 0
Saved == call_depth

\* At height t push f and n arguments, and call: a closure gets a frame, a native
\* is done at once and leaves its result on the stack.  The activations are
\* those below and `act', which waits for the result.
vm_call(t, f, n, below, act) ==
    /\ top' = IF f \in Natives THEN Pushed(t, n + 1) - n ELSE Pushed(t, n + 1)
    /\ c' = Append(below, [act EXCEPT
                !.saved = Saved, !.closure = f \in Functions,
                !.before = [top |-> t, frames |-> Len(frames), depth |-> call_depth]])
    /\ IF f \in Natives
       THEN /\ result' = "ok"
            /\ had_error' = (had_error \/ Overflows(t, n + 1))
            /\ UNCHANGED <<frames, call_depth>>
       ELSE IF Arity[f] # n \/ Len(frames) = FRAMES_MAX
       THEN result' = "error" /\ had_error' = TRUE /\ UNCHANGED <<frames, call_depth>>
       ELSE /\ frames' = Append(frames, Pushed(t, n + 1) - n - 1)
            /\ call_depth' = Len(frames)
            /\ result' = "none"
            /\ had_error' = (had_error \/ Overflows(t, n + 1))
    /\ UNCHANGED open_upvalues

\* What a C function looks like while it waits.
Waiting(name, args) ==
    [name |-> name, args |-> args, saved |-> 0, closure |-> TRUE, i |-> 0, channel |-> "",
     calls |-> <<>>, first |-> <<>>, left |-> FALSE,
     before |-> [top |-> 0, frames |-> 0, depth |-> 0]]

\* A native that vek code has called returns: its arguments go, its result comes.
\* One that calls nothing changes no more than that.
HasRoom(n) == top + n + 1 <= STACK_MAX
NativeEnds ==
    /\ c' = Front(c) /\ result' = "none" /\ top' = top - Caller.args
    /\ UNCHANGED <<frames, call_depth, had_error, open_upvalues>>
Native(n) ==
    /\ HasRoom(n) /\ top' = top + 1
    /\ UNCHANGED <<frames, call_depth, had_error, open_upvalues, result>>

\* vek_http_handler: the handler is called with the request, and whatever
\* happens the error is reset before the response.
vek_http_handler ==
    /\ c = <<>> /\ requests < MaxRequests
    /\ requests' = requests + 1
    /\ steps' = 0
    /\ \E f \in {f \in Functions : Arity[f] = 1} : vm_call(top, f, 1, <<>>, Waiting("handler", 0))
    /\ UNCHANGED <<pubsub, db>>

handler_ends ==
    /\ c # <<>> /\ result # "none" /\ Caller.name = "handler"
    /\ c' = <<>> /\ result' = "none" /\ had_error' = FALSE
    /\ UNCHANGED <<top, frames, call_depth, open_upvalues, requests, steps, pubsub, db>>

-----------------------------------------------------------------------------
(* run(): DISPATCH, and the instructions that nest.                        *)

\* The error is met before the next instruction: nothing is unwound.
dispatch_error ==
    /\ Running /\ had_error
    /\ result' = "error" /\ call_depth' = Caller.saved
    /\ UNCHANGED <<top, frames, had_error, open_upvalues, c, requests, steps, pubsub, db>>

Step == /\ Running /\ ~had_error /\ steps < MaxSteps
        /\ steps' = steps + 1 /\ UNCHANGED requests

runtime_error ==
    /\ Step
    /\ had_error' = TRUE /\ result' = "error" /\ call_depth' = Caller.saved
    /\ UNCHANGED <<top, frames, open_upvalues, c, pubsub, db>>

\* A local, which a closure may capture.
op_push ==
    /\ Step
    /\ top' = Pushed(top, 1) /\ had_error' = Overflows(top, 1)
    /\ open_upvalues' \in {open_upvalues, open_upvalues \cup {Pushed(top, 1) - 1}}
    /\ UNCHANGED <<frames, call_depth, c, result, pubsub, db>>

op_call ==
    /\ Step
    /\ top' = Pushed(top, 1)
    /\ IF Len(frames) = FRAMES_MAX
       THEN /\ had_error' = TRUE /\ result' = "error" /\ call_depth' = Caller.saved
            /\ UNCHANGED frames
       ELSE /\ frames' = Append(frames, Pushed(top, 1) - 1)
            /\ had_error' = Overflows(top, 1) /\ UNCHANGED <<result, call_depth>>
    /\ UNCHANGED <<open_upvalues, c, pubsub, db>>

\* The frame that vm_call has made ends run(): one value is popped besides the
\* result, and vm_call pops the result.
Unclosed(slots) == {s \in open_upvalues : s < slots}
op_return ==
    /\ Running /\ ~had_error
    /\ open_upvalues' = Unclosed(Frame)
    /\ frames' = Front(frames)
    /\ IF Len(frames) - 1 = call_depth
       THEN top' = top - 1 /\ result' = "ok" /\ call_depth' = Caller.saved
       ELSE top' = Frame + 1 /\ UNCHANGED <<result, call_depth>>
    /\ UNCHANGED <<had_error, c, requests, steps, pubsub, db>>

-----------------------------------------------------------------------------
(* pubsub.                                                                 *)

Subscribers(ch) == IF ch \in DOMAIN channels THEN channels[ch] ELSE <<>>

\* A channel is made at its first subscription, and stays.
native_pubsub_subscribe(ch, f) ==
    /\ Step /\ Native(2)
    /\ IF (ch \notin DOMAIN channels /\ Cardinality(DOMAIN channels) = MaxChannels)
          \/ Len(Subscribers(ch)) = MaxSubscribers
       THEN UNCHANGED pubsub
       ELSE /\ channels' = [x \in DOMAIN channels \cup {ch} |->
                               IF x = ch THEN Append(Subscribers(ch), f) ELSE channels[x]]
            /\ pins' = [pins EXCEPT ![f] = @ + 1]
    /\ UNCHANGED <<c, db>>

\* vm_unpin takes one entry of the object off the list.
Occurrences(s, f) == Cardinality({i \in DOMAIN s : s[i] = f})
\* A mutant: every callback is unpinned once.
Unpinned_once(ch) == [f \in DOMAIN pins |-> IF f \in Range(channels[ch]) THEN pins[f] - 1 ELSE pins[f]]
Unpinned(ch) == [f \in DOMAIN pins |-> pins[f] - Least(pins[f], Occurrences(channels[ch], f))]

Left(ch) == [i \in DOMAIN c |-> IF c[i].channel = ch THEN [c[i] EXCEPT !.left = TRUE] ELSE c[i]]
native_pubsub_unsubscribe(ch) ==
    /\ Step /\ Native(1) /\ ch \in DOMAIN channels
    /\ channels' = [channels EXCEPT ![ch] = <<>>]
    /\ pins' = Unpinned(ch)
    /\ c' = Left(ch)
    /\ UNCHANGED db

\* The call of the i-th subscriber.
Deliver(t, below, act, i) ==
    LET f == channels[act.channel][i]
    IN  vm_call(t, f, 1, below, [act EXCEPT !.i = i, !.calls = Append(@, f)])

native_pubsub_publish(ch) ==
    /\ Step /\ HasRoom(2) /\ Subscribers(ch) # <<>>
    /\ Deliver(top + 3, c,
               [Waiting("publish", 2) EXCEPT !.channel = ch, !.first = channels[ch]], 1)
    /\ UNCHANGED <<pubsub, db>>

\* The loop reads ch->count again after each call, and does not look at errors.
\* A mutant: it goes as far as the list went at first.
MoreSubscribers_first == Caller.i < Len(Caller.first)
MoreSubscribers == Caller.i < Len(channels[Caller.channel])
Publishing == c # <<>> /\ result # "none" /\ Caller.name = "publish"
publish_next ==
    /\ Publishing /\ MoreSubscribers
    /\ Deliver(top, Front(c), Caller, Caller.i + 1)
    /\ UNCHANGED <<requests, steps, pubsub, db>>
publish_ends ==
    /\ Publishing /\ ~MoreSubscribers
    /\ NativeEnds
    /\ UNCHANGED <<requests, steps, pubsub, db>>

-----------------------------------------------------------------------------
(* The database.                                                           *)

InTransaction == {i \in DOMAIN c : c[i].name = "transaction"}

\* Closing a connection rolls back what is open.
Disconnected == pending' = {} /\ sqlite' = FALSE /\ in_transaction' = FALSE
native_db_connect ==
    /\ Step /\ Native(0) /\ Disconnected
    /\ db_conn' \in BOOLEAN
    /\ broken' = (broken \/ InTransaction # {})
    /\ UNCHANGED <<c, pubsub, stored, writes, tx>>
native_db_close ==
    /\ Step /\ Native(0) /\ db_conn /\ Disconnected
    /\ db_conn' = FALSE
    /\ broken' = (broken \/ InTransaction # {})
    /\ UNCHANGED <<c, pubsub, stored, writes, tx>>

\* A statement that writes and succeeds; one that fails changes nothing.  What
\* the program does with BEGIN and COMMIT of its own is left out.
native_db_exec ==
    /\ Step /\ Native(1) /\ db_conn
    /\ writes' = writes + 1
    /\ IF sqlite THEN pending' = pending \cup {writes + 1} /\ UNCHANGED stored
       ELSE stored' = stored \cup {writes + 1} /\ UNCHANGED pending
    /\ tx' = IF InTransaction = {} THEN tx
             ELSE [tx EXCEPT ![c[Max(InTransaction)].i].writes = @ \cup {writes + 1}]
    /\ UNCHANGED <<c, pubsub, connection, broken>>

\* vek_db_begin fails inside a transaction, of the connection's or of SQLite.
native_db_transaction(f) ==
    /\ Step /\ HasRoom(1)
    /\ \/ /\ ~db_conn \/ in_transaction \/ sqlite
          /\ Native(1) /\ UNCHANGED <<c, db>>
       \/ /\ db_conn /\ ~in_transaction /\ ~sqlite
          /\ in_transaction' = TRUE /\ sqlite' = TRUE
          /\ tx' = Append(tx, [writes |-> {}, outcome |-> "open"])
          /\ vm_call(top + 2, f, 0, c, [Waiting("transaction", 1) EXCEPT !.i = Len(tx) + 1])
          /\ UNCHANGED <<db_conn, contents, broken>>
    /\ UNCHANGED pubsub

Recorded == tx' = [tx EXCEPT ![Caller.i].outcome = result]

\* vek_db_rollback and vek_db_commit refuse to work unless the flag is set.
vek_db_rollback ==
    /\ pending' = IF db_conn /\ in_transaction THEN {} ELSE pending
    /\ sqlite' = (sqlite /\ ~(db_conn /\ in_transaction))
    /\ in_transaction' = FALSE
    /\ UNCHANGED <<db_conn, stored, writes, broken>>
vek_db_commit ==
    /\ stored' = stored \cup pending /\ pending' = {}
    /\ sqlite' = FALSE /\ in_transaction' = FALSE
    /\ UNCHANGED <<db_conn, writes, broken>>
\* A failed COMMIT clears the flag, so that the ROLLBACK after it is refused.
commit_fails ==
    /\ in_transaction' = FALSE /\ broken' = TRUE
    /\ UNCHANGED <<db_conn, sqlite, contents>>

\* A mutant: had_error is not looked at.
Failed_never == FALSE
Failed == had_error
transaction_ends ==
    /\ c # <<>> /\ result # "none" /\ Caller.name = "transaction"
    /\ \/ (Failed \/ ~db_conn \/ ~in_transaction) /\ vek_db_rollback
       \/ ~Failed /\ db_conn /\ in_transaction /\ vek_db_commit
       \/ ~Failed /\ db_conn /\ in_transaction /\ commit_fails
    /\ Recorded
    /\ NativeEnds
    /\ UNCHANGED <<requests, steps, pubsub>>

-----------------------------------------------------------------------------
\* The script's frame is below: `listen' has been called from it.
RuntimeInit ==
    /\ top = 2 /\ frames = <<0>> /\ call_depth = 0 /\ had_error = FALSE
    /\ open_upvalues = {} /\ c = <<>> /\ result = "none" /\ requests = 0 /\ steps = 0
    /\ channels = <<>> /\ pins = [f \in Functions \cup Natives |-> 0]
    /\ db_conn = TRUE /\ in_transaction = FALSE /\ sqlite = FALSE
    /\ pending = {} /\ stored = {} /\ writes = 0 /\ tx = <<>> /\ broken = FALSE

RuntimeNext ==
    \/ vek_http_handler \/ handler_ends
    \/ dispatch_error \/ runtime_error \/ op_push \/ op_call \/ op_return
    \/ \E ch \in Channels, f \in DOMAIN pins : native_pubsub_subscribe(ch, f)
    \/ \E ch \in Channels : native_pubsub_unsubscribe(ch)
    \/ \E ch \in Channels : native_pubsub_publish(ch)
    \/ publish_next \/ publish_ends
    \/ native_db_connect \/ native_db_close \/ native_db_exec
    \/ \E f \in DOMAIN pins : native_db_transaction(f)
    \/ transaction_ends

RuntimeSpec == RuntimeInit /\ [][RuntimeNext]_RuntimeVars

-----------------------------------------------------------------------------
(* Properties.                                                             *)

\* A vm_call that ends without an error leaves the frames and the depth to come
\* back to as they were, whatever was called and had failed in between, leaves
\* nothing of the caller's stack open as an upvalue of its own, and takes
\* nothing off the caller's stack (vm_call, op_return).
FramesRestored ==
    c # <<>> /\ result = "ok" /\ ~had_error =>
        LET before == Caller.before IN
        /\ Len(frames) = before.frames
        /\ call_depth = before.depth
        /\ top >= before.top
        /\ Caller.closure => \A s \in open_upvalues : s < before.top

\* pubsub.publish calls each subscriber once and in order, those included who
\* subscribe while it is calling, unless someone unsubscribes or a callback
\* fails meanwhile.
SubscribersServed ==
    Publishing /\ ~MoreSubscribers /\ ~had_error /\ ~Caller.left =>
        Caller.calls = channels[Caller.channel] /\ IsPrefix(Caller.first, Caller.calls)

\* The places of a callback in the lists of the channels.
Subscriptions(f) ==
    {s \in (DOMAIN channels) \X (1 .. MaxSubscribers) :
        s[2] \in DOMAIN channels[s[1]] /\ channels[s[1]][s[2]] = f}

\* A callback is pinned as often as it is subscribed: the collector cannot free
\* it while a channel has it, and can when none has it any more.
PinnedWhileSubscribed == \A f \in DOMAIN pins : pins[f] = Cardinality(Subscriptions(f))

\* All writes of a db.transaction whose callback succeeds are stored and none of
\* one whose callback fails, and what was written outside of them is stored:
\* whatever is nested in the callback and wherever in it the failure is.  Not so once a
\* COMMIT has failed, or the connection was closed or replaced by the callback
\* itself (`broken').
TransactionsAtomic ==
    ~broken =>
        /\ \A i \in DOMAIN tx :
              /\ tx[i].outcome = "ok" => tx[i].writes \subseteq stored
              /\ tx[i].outcome = "error" => tx[i].writes \cap stored = {}
        /\ (1 .. writes) \ UNION {tx[i].writes : i \in DOMAIN tx} \subseteq stored
        /\ sqlite = in_transaction

\* "For native functions, call_value handles everything" and "pop the
\* script/closure function": a vm_call leaves the stack as high as it was before
\* the function and its arguments were pushed.
CallsBalanced == c # <<>> /\ result = "ok" => top = Caller.before.top
=============================================================================
