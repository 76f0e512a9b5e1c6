---------------------------- MODULE RuntimeProofs ----------------------------
(***************************************************************************)
(* Theorems about Runtime, for any callbacks, channels and limits.         *)
(***************************************************************************)
EXTENDS Runtime, SequenceTheorems, FiniteSetTheorems, TLAPS

Callbacks == Functions \cup Natives
Depths == [top : Int, frames : Nat, depth : Nat]
Activation ==
    [name : {"handler", "publish", "transaction"}, args : Nat, saved : Nat, closure : BOOLEAN, i : Nat,
     channel : Channels \cup {""}, calls : Seq(Callbacks), first : Seq(Callbacks), left : BOOLEAN,
     before : Depths]
Transaction == [writes : SUBSET Nat, outcome : {"open", "ok", "error"}]

RtTypes ==
    /\ top \in Int /\ frames \in Seq(Int) /\ call_depth \in Nat /\ had_error \in BOOLEAN
    /\ open_upvalues \in SUBSET Int
    /\ c \in Seq(Activation) /\ result \in {"none", "ok", "error"}

\* The handler is the first of the C functions that wait, and no other is; all
\* but the last wait for a closure; an error has been noted.
WaitingInOrder ==
    /\ \A k \in DOMAIN c : c[k].name = "handler" <=> k = 1
    /\ \A k \in DOMAIN c : ~c[k].closure => k = Len(c) /\ result = "ok"
    /\ result = "error" => had_error
    /\ result = "ok" /\ had_error => c # <<>> /\ ~Caller.closure
    /\ c = <<>> => result = "none"

\* Without an error, the frame of each vm_call is where it was called, above
\* what its caller has on the stack, and every frame is above the one below.
Base(k) == c[k].before.frames
HasFrame(k) == Base(k) < Len(frames) /\ frames[Base(k) + 1] = c[k].before.top
FramesHeld ==
    c # <<>> /\ ~had_error =>
        /\ \A k \in DOMAIN c :
              /\ c[k].saved = c[k].before.depth
              /\ k < Len(c) \/ result = "none" => HasFrame(k)
              /\ k > 1 => /\ c[k].before.depth = Base(k - 1)
                         /\ frames[Base(k)] + c[k].args < c[k].before.top
        /\ \A j, k \in DOMAIN c : j < k => Base(j) < Base(k)
        /\ \A i \in (Base(1) + 1) .. (Len(frames) - 1) : frames[i] <= frames[i + 1]
        /\ result = "none" => call_depth = Base(Len(c)) /\ Frame < top
        /\ FramesRestored

\* A publish has called a part of the subscribers, in order.
ChannelTypes ==
    /\ IsFiniteSet(DOMAIN channels) /\ DOMAIN channels \subseteq Channels
    /\ \A ch \in DOMAIN channels : channels[ch] \in Seq(Callbacks) /\ Len(channels[ch]) <= MaxSubscribers
    /\ pins \in [Callbacks -> Nat]
Begins(s, t) == Len(s) <= Len(t) /\ \A q \in DOMAIN s : s[q] = t[q]
Serving(a, lists) ==
    a.name = "publish" =>
        /\ a.channel \in DOMAIN lists
        /\ ~a.left => /\ Len(a.calls) = a.i
                     /\ Begins(a.calls, lists[a.channel]) /\ Begins(a.first, lists[a.channel])
CalledInOrder == \A k \in DOMAIN c : Serving(c[k], channels)

\* Only one transaction is open, and SQLite holds back what it has written.
DbTypes ==
    /\ {db_conn, in_transaction, sqlite, broken} \subseteq BOOLEAN
    /\ writes \in Nat /\ pending \in SUBSET Nat /\ stored \in SUBSET Nat
    /\ tx \in Seq(Transaction)
OneTransaction ==
    ~broken =>
        /\ sqlite = in_transaction /\ (in_transaction => db_conn)
        /\ in_transaction <=> InTransaction # {}
        /\ \A j, k \in InTransaction : j = k
        /\ ~in_transaction => pending = {}
        /\ \A k \in InTransaction :
              /\ c[k].i \in DOMAIN tx /\ tx[c[k].i].outcome = "open" /\ pending = tx[c[k].i].writes
              /\ ~c[k].closure => pending = {}
        /\ stored \cup pending \subseteq 1 .. writes
        /\ \A i \in DOMAIN tx :
              /\ tx[i].writes \subseteq 1 .. writes
              /\ tx[i].outcome = "open" => tx[i].writes \cap stored = {}
        /\ \A i, j \in DOMAIN tx : i # j => tx[i].writes \cap tx[j].writes = {}

MachineInv == RtTypes /\ WaitingInOrder /\ FramesHeld
ChannelInv == ChannelTypes /\ CalledInOrder /\ PinnedWhileSubscribed
DatabaseInv == DbTypes /\ OneTransaction /\ TransactionsAtomic
RtInv == MachineInv /\ ChannelInv /\ DatabaseInv

-----------------------------------------------------------------------------
(* Sequences, and the records on them.                                     *)

LEMMA Antisymmetric == \A x, y \in Nat : x <= y /\ y <= x => x = y
OBVIOUS

LEMMA FrontFacts ==
    ASSUME NEW S, NEW s \in Seq(S), s # <<>>
    PROVE  /\ Len(s) \in Nat \ {0} /\ DOMAIN s = 1 .. Len(s) /\ Last(s) = s[Len(s)] /\ Last(s) \in S
           /\ Front(s) \in Seq(S) /\ Len(Front(s)) = Len(s) - 1 /\ DOMAIN Front(s) = 1 .. (Len(s) - 1)
           /\ \A q \in 1 .. (Len(s) - 1) : Front(s)[q] = s[q]
<1>1. Len(s) \in Nat /\ DOMAIN s = 1 .. Len(s) /\ Len(s) # 0
    OBVIOUS
<1>2. Last(s) = s[Len(s)] /\ s[Len(s)] \in S
    BY <1>1 DEF Last
<1>3. /\ SubSeq(s, 1, Len(s) - 1) \in Seq(S) /\ Len(SubSeq(s, 1, Len(s) - 1)) = Len(s) - 1
      /\ \A q \in 1 .. (Len(s) - 1) : SubSeq(s, 1, Len(s) - 1)[q] = s[q]
    BY <1>1
<1>4. DOMAIN SubSeq(s, 1, Len(s) - 1) = 1 .. (Len(s) - 1)
    BY <1>3
<1> QED
    BY <1>1, <1>2, <1>3, <1>4 DEF Front

LEMMA AppendFacts ==
    ASSUME NEW S, NEW s \in Seq(S), NEW e \in S
    PROVE  /\ Len(s) \in Nat /\ DOMAIN s = 1 .. Len(s)
           /\ Append(s, e) \in Seq(S) /\ Len(Append(s, e)) = Len(s) + 1
           /\ DOMAIN Append(s, e) = 1 .. (Len(s) + 1)
           /\ \A q \in 1 .. Len(s) : Append(s, e)[q] = s[q]
           /\ Append(s, e)[Len(s) + 1] = e
OBVIOUS

LEMMA SequenceOf ==
    ASSUME NEW S, NEW n \in Nat, NEW t \in [1 .. n -> S]
    PROVE  t \in Seq(S) /\ Len(t) = n
OBVIOUS

\* What is known of a C function that waits.
LEMMA Fields ==
    ASSUME NEW a \in Activation
    PROVE  /\ a.name \in {"handler", "publish", "transaction"} /\ a.args \in Nat /\ a.saved \in Nat
           /\ a.closure \in BOOLEAN /\ a.i \in Nat /\ a.calls \in Seq(Callbacks) /\ a.first \in Seq(Callbacks)
           /\ a.before.top \in Int /\ a.before.frames \in Nat /\ a.before.depth \in Nat
           /\ a.left \in BOOLEAN
BY DEF Activation, Depths

LEMMA WaitingTyped ==
    ASSUME NEW name \in {"handler", "publish", "transaction"}, NEW args \in Nat
    PROVE  /\ Waiting(name, args) \in Activation
           /\ Waiting(name, args).name = name /\ Waiting(name, args).args = args
           /\ Waiting(name, args).left = FALSE /\ Waiting(name, args).calls = <<>>
<1>1. <<>> \in Seq(Callbacks)
    OBVIOUS
<1> QED
    BY <1>1 DEF Waiting, Activation, Depths

LEMMA PushedTyped ==
    ASSUME NEW t \in Int, NEW n \in Nat
    PROVE  /\ Pushed(t, n) \in Int /\ Overflows(t, n) \in BOOLEAN
           /\ ~Overflows(t, n) => Pushed(t, n) = t + n
<1>1. STACK_MAX \in Nat
    BY RuntimeLimits
<1> QED
    BY <1>1 DEF Pushed, Overflows, Least

-----------------------------------------------------------------------------
(* vm_call.                                                                *)

LEMMA CallPushes ==
    ASSUME RtTypes, NEW t \in Int, NEW f \in Callbacks, NEW n \in Nat,
           NEW below \in Seq(Activation), NEW act \in Activation, vm_call(t, f, n, below, act)
    PROVE  LET k == Len(below) + 1 IN
           /\ c' \in Seq(Activation) /\ Len(c') = k /\ k \in Nat \ {0} /\ DOMAIN c' = 1 .. k
           /\ \A j \in 1 .. Len(below) : c'[j] = below[j]
           /\ c'[k].name = act.name /\ c'[k].args = act.args /\ c'[k].i = act.i /\ c'[k].channel = act.channel
           /\ c'[k].calls = act.calls /\ c'[k].first = act.first /\ c'[k].left = act.left
           /\ c'[k].saved = call_depth /\ c'[k].closure = (f \in Functions)
           /\ c'[k].before.top = t /\ c'[k].before.frames = Len(frames) /\ c'[k].before.depth = call_depth
<1> DEFINE a == [act EXCEPT !.saved = call_depth, !.closure = f \in Functions,
                            !.before = [top |-> t, frames |-> Len(frames), depth |-> call_depth]]
<1>1. call_depth \in Nat /\ Len(frames) \in Nat /\ (f \in Functions) \in BOOLEAN
    BY DEF RtTypes
<1>2. /\ a \in Activation
      /\ a.name = act.name /\ a.args = act.args /\ a.i = act.i /\ a.channel = act.channel
      /\ a.calls = act.calls /\ a.first = act.first /\ a.left = act.left
      /\ a.saved = call_depth /\ a.closure = (f \in Functions)
      /\ a.before.top = t /\ a.before.frames = Len(frames) /\ a.before.depth = call_depth
    <2> DEFINE closure == f \in Functions
    <2>1. closure \in BOOLEAN
        BY <1>1
    <2> HIDE DEF closure
    <2>2. a = [act EXCEPT !.saved = call_depth, !.closure = closure,
                          !.before = [top |-> t, frames |-> Len(frames), depth |-> call_depth]]
        BY DEF closure
    <2> HIDE DEF a
    <2>3. /\ a \in Activation
          /\ a.name = act.name /\ a.args = act.args /\ a.i = act.i /\ a.channel = act.channel
          /\ a.calls = act.calls /\ a.first = act.first /\ a.left = act.left
          /\ a.saved = call_depth /\ a.closure = closure
          /\ a.before.top = t /\ a.before.frames = Len(frames) /\ a.before.depth = call_depth
        <3> DEFINE height == Len(frames)
        <3>1. height \in Nat /\ call_depth \in Nat
            BY <1>1
        <3> HIDE DEF height
        <3>2. a = [act EXCEPT !.saved = call_depth, !.closure = closure,
                              !.before = [top |-> t, frames |-> height, depth |-> call_depth]]
            BY <2>2 DEF height
        <3>3. /\ a \in Activation
              /\ a.name = act.name /\ a.args = act.args /\ a.i = act.i /\ a.channel = act.channel
              /\ a.calls = act.calls /\ a.first = act.first /\ a.left = act.left
              /\ a.saved = call_depth /\ a.closure = closure
              /\ a.before.top = t /\ a.before.frames = height /\ a.before.depth = call_depth
            BY <2>1, <3>1, <3>2 DEF Activation, Depths
        <3> QED
            BY <3>3 DEF height
    <2> QED
        BY <2>3 DEF closure
<1>3. c' = Append(below, a)
    BY DEF vm_call, Saved
<1> HIDE DEF a
<1>4. /\ c' \in Seq(Activation) /\ Len(c') = Len(below) + 1 /\ Len(below) \in Nat
      /\ DOMAIN c' = 1 .. (Len(below) + 1)
      /\ \A j \in 1 .. Len(below) : c'[j] = below[j]
      /\ c'[Len(below) + 1] = a
    BY <1>2, <1>3, AppendFacts
<1> QED
    BY <1>2, <1>4

LEMMA CallMachine ==
    ASSUME RtTypes, NEW t \in Int, NEW f \in Callbacks, NEW n \in Nat,
           NEW below, NEW act, vm_call(t, f, n, below, act)
    PROVE  /\ top' \in Int /\ frames' \in Seq(Int) /\ call_depth' \in Nat /\ had_error' \in BOOLEAN
           /\ open_upvalues' = open_upvalues
           /\ result' \in {"none", "ok", "error"}
           /\ (had_error \/ result' = "error") => had_error'
           /\ (f \in Functions) = (result' # "ok")
           /\ ~had_error' =>
                 IF f \in Functions
                 THEN /\ result' = "none" /\ call_depth' = Len(frames) /\ top' = t + n + 1
                      /\ frames' = Append(frames, t)
                 ELSE /\ result' = "ok" /\ call_depth' = call_depth /\ top' = t + 1 /\ frames' = frames
<1>1. /\ f \in Functions <=> f \notin Natives
      /\ had_error \in BOOLEAN /\ frames \in Seq(Int) /\ call_depth \in Nat /\ Len(frames) \in Nat
    BY CallbackKinds DEF RtTypes, Callbacks
<1>2. /\ Pushed(t, n + 1) \in Int /\ Overflows(t, n + 1) \in BOOLEAN
      /\ ~Overflows(t, n + 1) => Pushed(t, n + 1) = t + n + 1
    BY PushedTyped
<1>3. CASE f \in Natives
    BY <1>1, <1>2, <1>3 DEF vm_call
<1>4. CASE f \in Functions /\ (Arity[f] # n \/ Len(frames) = FRAMES_MAX)
    BY <1>1, <1>2, <1>4 DEF vm_call
<1>5. CASE f \in Functions /\ ~(Arity[f] # n \/ Len(frames) = FRAMES_MAX)
    <2>1. /\ frames' = Append(frames, Pushed(t, n + 1) - n - 1) /\ call_depth' = Len(frames)
          /\ result' = "none" /\ had_error' = (had_error \/ Overflows(t, n + 1))
          /\ top' = Pushed(t, n + 1) /\ open_upvalues' = open_upvalues
        BY <1>1, <1>5 DEF vm_call
    <2>2. frames' \in Seq(Int)
        BY <1>1, <1>2, <2>1
    <2>3. ~had_error' => top' = t + n + 1 /\ frames' = Append(frames, t)
        BY <1>1, <1>2, <2>1
    <2> QED
        BY <1>1, <1>2, <1>5, <2>1, <2>2, <2>3
<1> QED
    BY <1>1, <1>3, <1>4, <1>5

-----------------------------------------------------------------------------
(* The steps, by what they do to the C functions that wait and the frames.  *)

LEMMA Typed ==
    ASSUME RtTypes
    PROVE  /\ top \in Int /\ call_depth \in Nat
           /\ frames \in Seq(Int) /\ Len(frames) \in Nat /\ DOMAIN frames = 1 .. Len(frames)
           /\ \A i \in DOMAIN frames : frames[i] \in Int
           /\ c \in Seq(Activation) /\ Len(c) \in Nat /\ DOMAIN c = 1 .. Len(c)
           /\ c = <<>> <=> Len(c) = 0
           /\ c # <<>> => Len(c) \in DOMAIN c /\ Caller = c[Len(c)] /\ Caller \in Activation
           /\ \A k \in DOMAIN c :
                 /\ c[k] \in Activation /\ Base(k) \in Nat
                 /\ c[k].args \in Nat /\ c[k].saved \in Nat /\ c[k].i \in Nat
                 /\ c[k].before.top \in Int /\ c[k].before.frames \in Nat /\ c[k].before.depth \in Nat
<1>1. top \in Int /\ call_depth \in Nat /\ frames \in Seq(Int) /\ c \in Seq(Activation)
    BY DEF RtTypes
<1>2. /\ Len(frames) \in Nat /\ DOMAIN frames = 1 .. Len(frames)
      /\ \A i \in DOMAIN frames : frames[i] \in Int
    BY <1>1
<1>3. /\ Len(c) \in Nat /\ DOMAIN c = 1 .. Len(c) /\ (c = <<>> <=> Len(c) = 0)
      /\ \A k \in DOMAIN c : c[k] \in Activation
    BY <1>1
<1>4. c # <<>> => Len(c) \in DOMAIN c /\ Caller = c[Len(c)]
    BY <1>3 DEF Caller, Last
<1> QED
    BY <1>1, <1>2, <1>3, <1>4, Fields DEF Base

\* A native function that calls nothing.
LEMMA NativeKeeps ==
    ASSUME RtTypes, WaitingInOrder, FramesHeld, Running, ~had_error, top' = top + 1,
           UNCHANGED <<frames, call_depth, had_error, open_upvalues, result>>,
           c' \in Seq(Activation), Len(c') = Len(c),
           \A k \in DOMAIN c :
               /\ c'[k].name = c[k].name /\ c'[k].closure = c[k].closure /\ c'[k].saved = c[k].saved
               /\ c'[k].args = c[k].args /\ c'[k].before = c[k].before
    PROVE  RtTypes' /\ WaitingInOrder' /\ FramesHeld'
<1>1. RtTypes'
    BY DEF RtTypes
<1>2. DOMAIN c' = DOMAIN c /\ result = "none" /\ result' = "none" /\ c # <<>>
    BY <1>1, Typed DEF Running
<1>3. c' # <<>>
    BY <1>1, <1>2, Typed
<1>4. WaitingInOrder'
    BY <1>2, <1>3 DEF WaitingInOrder
<1>5. FramesHeld'
    <2>1. \A k \in DOMAIN c : Base(k)' = Base(k) /\ HasFrame(k)' = HasFrame(k)
        BY DEF Base, HasFrame
    <2>2. Frame < top' /\ Frame' = Frame
        <3>1. Frame < top /\ 0 < Len(frames)
            BY <1>2, Typed DEF FramesHeld, HasFrame
        <3>2. Frame \in Int
            BY <3>1, Typed DEF Frame, Last
        <3>3. Frame' = Frame
            BY DEF Frame
        <3> QED
            BY <3>1, <3>2, <3>3, Typed
    <2>3. \A k \in DOMAIN c : k > 1 => k - 1 \in DOMAIN c
        BY Typed
    <2>4. 1 \in DOMAIN c /\ Len(c) \in DOMAIN c
        BY <1>2, Typed
    <2>5. \A k \in DOMAIN c' :
              /\ c'[k].saved = c'[k].before.depth
              /\ HasFrame(k)'
              /\ k > 1 => c'[k].before.depth = Base(k - 1)' /\ frames[Base(k)'] + c'[k].args < c'[k].before.top
        BY <1>2, <2>1, <2>3 DEF FramesHeld
    <2>6. \A j, k \in DOMAIN c' : j < k => Base(j)' < Base(k)'
        BY <1>2, <2>1 DEF FramesHeld
    <2>7. \A i \in (Base(1)' + 1) .. (Len(frames) - 1) : frames[i] <= frames[i + 1]
        BY <1>2, <2>1, <2>4 DEF FramesHeld
    <2>8. call_depth = Base(Len(c))'
        BY <1>2, <2>1, <2>4 DEF FramesHeld
    <2> QED
        BY <1>2, <2>2, <2>5, <2>6, <2>7, <2>8 DEF FramesHeld, FramesRestored
<1> QED
    BY <1>1, <1>4, <1>5

\* The top of the frames.
LEMMA TopFrame ==
    ASSUME RtTypes, WaitingInOrder, FramesHeld, c # <<>>, ~had_error, result = "none"
    PROVE  /\ Len(c) \in DOMAIN c /\ Base(Len(c)) \in Nat /\ call_depth = Base(Len(c))
           /\ Base(Len(c)) < Len(frames) /\ frames[Base(Len(c)) + 1] = c[Len(c)].before.top
           /\ Caller = c[Len(c)] /\ Caller.closure /\ Caller.saved = Caller.before.depth
           /\ Frame = frames[Len(frames)] /\ Frame \in Int /\ Frame < top /\ frames # <<>>
           /\ \A k \in DOMAIN c : Base(k) <= Base(Len(c)) /\ Base(k) < Len(frames)
<1>1. Len(c) \in DOMAIN c /\ Base(Len(c)) \in Nat /\ Caller = c[Len(c)] /\ Len(frames) \in Nat
    BY Typed
<1>2. /\ call_depth = Base(Len(c)) /\ Base(Len(c)) < Len(frames)
      /\ frames[Base(Len(c)) + 1] = c[Len(c)].before.top
      /\ c[Len(c)].saved = c[Len(c)].before.depth /\ Frame < top
    BY <1>1 DEF FramesHeld, HasFrame
<1>3. Caller.closure
    BY <1>1 DEF WaitingInOrder
<1>4. Frame = frames[Len(frames)] /\ Frame \in Int /\ frames # <<>>
    BY <1>1, <1>2, Typed DEF Frame, Last
<1>5. \A k \in DOMAIN c : Base(k) <= Base(Len(c)) /\ Base(k) < Len(frames)
    <2> SUFFICES ASSUME NEW k \in DOMAIN c PROVE Base(k) <= Base(Len(c)) /\ Base(k) < Len(frames)
        OBVIOUS
    <2>1. Base(k) < Base(Len(c)) \/ k = Len(c)
        BY <1>1, Typed DEF FramesHeld
    <2>2. Base(k) \in Nat
        BY Typed
    <2> QED
        BY <1>1, <1>2, <2>1, <2>2
<1> QED
    BY <1>1, <1>2, <1>3, <1>4, <1>5

\* A call that the C function `act' makes, which keeps what it has on the stack
\* below t, and comes on top of `below'.
LEMMA CallKeeps ==
    ASSUME RtTypes, WaitingInOrder, FramesHeld, Running, ~had_error,
           NEW t \in Int, NEW f \in Callbacks, NEW n \in Nat, NEW act \in Activation,
           vm_call(t, f, n, c, act), act.name # "handler", t = top + act.args + 1
    PROVE  RtTypes' /\ WaitingInOrder' /\ FramesHeld'
<1>m. PICK m : m = Len(c)
    OBVIOUS
<1>0. m \in DOMAIN c /\ m \in Nat /\ m = Len(c) /\ c \in Seq(Activation) /\ DOMAIN c = 1 .. m /\ c # <<>> /\ result = "none"
    BY <1>m, Typed DEF Running
<1>1. /\ c' \in Seq(Activation) /\ Len(c') = m + 1 /\ DOMAIN c' = 1 .. (m + 1)
      /\ \A j \in 1 .. m : c'[j] = c[j]
      /\ c'[m + 1].name = act.name /\ c'[m + 1].args = act.args
      /\ c'[m + 1].saved = call_depth /\ c'[m + 1].closure = (f \in Functions)
      /\ c'[m + 1].before.top = t /\ c'[m + 1].before.frames = Len(frames)
      /\ c'[m + 1].before.depth = call_depth
    BY <1>0, CallPushes
<1>2. /\ top' \in Int /\ frames' \in Seq(Int) /\ call_depth' \in Nat /\ had_error' \in BOOLEAN
      /\ open_upvalues' = open_upvalues /\ result' \in {"none", "ok", "error"}
      /\ (result' = "error" => had_error') /\ (f \in Functions) = (result' # "ok")
      /\ ~had_error' =>
            IF f \in Functions
            THEN /\ result' = "none" /\ call_depth' = Len(frames) /\ top' = t + n + 1
                 /\ frames' = Append(frames, t)
            ELSE /\ result' = "ok" /\ call_depth' = call_depth /\ top' = t + 1 /\ frames' = frames
    BY CallMachine
<1>3. RtTypes'
    BY <1>1, <1>2 DEF RtTypes
<1>4. c' # <<>> /\ Caller' = c'[m + 1]
    <2>1. Len(c') # 0
        BY <1>0, <1>1
    <2> QED
        BY <1>1, <2>1 DEF Caller, Last
<1>5. WaitingInOrder'
    <2>1. \A k \in 1 .. m : c'[k].closure /\ (c'[k].name = "handler" <=> k = 1)
        BY <1>0, <1>1 DEF WaitingInOrder
    <2>2. \A k \in DOMAIN c' : k \in 1 .. m \/ k = m + 1
        BY <1>0, <1>1
    <2>3. m + 1 # 1
        BY <1>0
    <2>4. \A k \in DOMAIN c' : c'[k].name = "handler" <=> k = 1
        BY <1>1, <2>1, <2>2, <2>3
    <2>5. \A k \in DOMAIN c' : ~c'[k].closure => k = Len(c') /\ result' = "ok"
        BY <1>1, <1>2, <2>1, <2>2
    <2>6. result' = "ok" => ~Caller'.closure
        BY <1>1, <1>2, <1>4
    <2> QED
        BY <1>2, <1>4, <2>4, <2>5, <2>6 DEF WaitingInOrder
<1>6. FramesHeld'
    <2> SUFFICES ASSUME ~had_error' PROVE FramesHeld'
        BY DEF FramesHeld
    <2>1. /\ Base(m) \in Nat /\ call_depth = Base(m) /\ Base(m) < Len(frames)
          /\ frames[Base(m) + 1] = c[m].before.top
          /\ Frame = frames[Len(frames)] /\ Frame \in Int /\ Frame < top
          /\ \A k \in 1 .. m : Base(k) <= Base(m) /\ Base(k) < Len(frames)
        BY <1>0, TopFrame
    <2>2. /\ frames \in Seq(Int) /\ Len(frames) \in Nat /\ DOMAIN frames = 1 .. Len(frames)
          /\ top \in Int /\ act.args \in Nat /\ \A k \in 1 .. m : Base(k) \in Nat
        BY <1>0, Typed, Fields
    <2>3. /\ \A i \in DOMAIN frames : frames'[i] = frames[i]
          /\ Len(frames) <= Len(frames') /\ Len(frames') \in Nat
        <3>1. CASE frames' = frames
            BY <2>2, <3>1
        <3>2. CASE frames' = Append(frames, t)
            BY <2>2, <3>2
        <3> QED
            BY <1>2, <3>1, <3>2
    <2>4. \A k \in 1 .. m : Base(k)' = Base(k) /\ Base(k) + 1 \in DOMAIN frames
        <3>1. \A k \in 1 .. m : Base(k)' = Base(k)
            BY <1>1 DEF Base
        <3>2. ASSUME NEW k \in 1 .. m PROVE Base(k) + 1 \in DOMAIN frames
            <4>1. Base(k) \in Nat /\ Base(k) < Len(frames)
                BY <2>1, <2>2
            <4> QED
                BY <2>2, <4>1
        <3> QED
            BY <3>1, <3>2
    <2>5. \A k : k = m + 1 => Base(k)' = Len(frames)
        BY <1>1 DEF Base
    <2>6. \A k \in 1 .. m : HasFrame(k)'
        <3> SUFFICES ASSUME NEW k \in 1 .. m PROVE HasFrame(k)'
            OBVIOUS
        <3>1. HasFrame(k)
            BY <1>0 DEF FramesHeld
        <3>2. frames'[Base(k) + 1] = frames[Base(k) + 1] /\ c'[k] = c[k] /\ Base(k)' = Base(k)
            BY <1>1, <2>3, <2>4
        <3>3. Base(k) < Len(frames')
            BY <2>1, <2>2, <2>3
        <3> QED
            BY <3>1, <3>2, <3>3 DEF HasFrame
    <2>7. \A k : k = m + 1 /\ result' = "none" => HasFrame(k)'
        <3> SUFFICES ASSUME result' = "none", NEW k, k = m + 1 PROVE HasFrame(k)'
            OBVIOUS
        <3>1. frames' = Append(frames, t)
            BY <1>2
        <3>2. Len(frames) < Len(frames') /\ frames'[Len(frames) + 1] = t
            BY <2>2, <3>1
        <3> QED
            BY <1>1, <2>5, <3>2 DEF HasFrame
    <2>8. \A k \in 1 .. m : k > 1 =>
              c'[k].before.depth = Base(k - 1)' /\ frames'[Base(k)'] + c'[k].args < c'[k].before.top
        <3> SUFFICES ASSUME NEW k \in 1 .. m, k > 1
                     PROVE  /\ c'[k].before.depth = Base(k - 1)'
                            /\ frames'[Base(k)'] + c'[k].args < c'[k].before.top
            OBVIOUS
        <3>1. k - 1 \in 1 .. m /\ k - 1 < k /\ c'[k] = c[k]
            BY <1>0, <1>1
        <3>2. c[k].before.depth = Base(k - 1) /\ frames[Base(k)] + c[k].args < c[k].before.top
            BY <1>0 DEF FramesHeld
        <3>3. Base(k) \in DOMAIN frames
            <4>1. Base(k - 1) < Base(k)
                BY <1>0, <3>1 DEF FramesHeld
            <4>2. Base(k - 1) \in Nat /\ Base(k) \in Nat /\ Base(k) < Len(frames)
                BY <2>1, <2>2, <3>1
            <4> QED
                BY <2>2, <4>1, <4>2
        <3> QED
            BY <2>3, <2>4, <3>1, <3>2, <3>3
    <2>9. \A k : k = m + 1 =>
              c'[k].before.depth = Base(k - 1)' /\ frames'[Base(k)'] + c'[k].args < c'[k].before.top
        <3> SUFFICES ASSUME NEW k, k = m + 1
                     PROVE  /\ c'[k].before.depth = Base(k - 1)'
                            /\ frames'[Base(k)'] + c'[k].args < c'[k].before.top
            OBVIOUS
        <3>1. k - 1 = m /\ m \in 1 .. m
            BY <1>0
        <3>2. Base(m)' = Base(m)
            BY <2>4, <3>1
        <3>3. frames'[Len(frames)] = Frame
            <4>1. Len(frames) \in Nat \ {0}
                BY <2>1, <2>2
            <4>2. Len(frames) \in DOMAIN frames
                BY <2>2, <4>1
            <4>3. frames'[Len(frames)] = frames[Len(frames)]
                BY <2>3, <4>2
            <4> QED
                BY <2>1, <4>3
        <3>4. Frame + act.args < t
            BY <2>1, <2>2
        <3> QED
            BY <1>1, <2>1, <2>5, <3>1, <3>2, <3>3, <3>4
    <2>10. \A j, k \in DOMAIN c' : j < k => Base(j)' < Base(k)'
        <3> SUFFICES ASSUME NEW j \in 1 .. (m + 1), NEW k \in 1 .. (m + 1), j < k
                     PROVE  Base(j)' < Base(k)'
            BY <1>1
        <3>1. j \in 1 .. m
            BY <1>0
        <3>2. CASE k \in 1 .. m
            BY <1>0, <2>4, <3>1, <3>2 DEF FramesHeld
        <3>3. CASE k = m + 1
            BY <2>1, <2>4, <2>5, <3>1, <3>3
        <3> QED
            BY <1>0, <3>2, <3>3
    <2>11. \A i \in (Base(1)' + 1) .. (Len(frames') - 1) : frames'[i] <= frames'[i + 1]
        <3>1. 1 \in 1 .. m /\ Base(1)' = Base(1) /\ Base(1) \in Nat /\ Base(1) < Len(frames)
            BY <1>0, <2>1, <2>2, <2>4
        <3> SUFFICES ASSUME NEW i \in (Base(1) + 1) .. (Len(frames') - 1)
                     PROVE  frames'[i] <= frames'[i + 1]
            BY <3>1
        <3>2. i \in Nat /\ 1 <= i /\ i <= Len(frames') - 1
            BY <2>3, <3>1
        <3>3. CASE i < Len(frames)
            <4>1. i \in DOMAIN frames /\ i + 1 \in DOMAIN frames /\ i \in (Base(1) + 1) .. (Len(frames) - 1)
                BY <2>2, <3>1, <3>2, <3>3
            <4>2. frames[i] <= frames[i + 1]
                BY <1>0, <4>1 DEF FramesHeld
            <4> QED
                BY <2>3, <4>1, <4>2
        <3>4. CASE Len(frames) <= i
            <4>1. frames' = Append(frames, t)
                BY <1>2, <2>2, <3>2, <3>4
            <4>2. Len(frames') = Len(frames) + 1 /\ frames'[Len(frames) + 1] = t
                BY <2>2, <4>1
            <4>3. i = Len(frames)
                <5>1. (Len(frames) + 1) - 1 = Len(frames) /\ Len(frames) \in Nat
                    BY <2>2
                <5>2. i <= Len(frames)
                    BY <3>2, <4>2, <5>1
                <5> QED
                    BY <3>2, <3>4, <5>1, <5>2, Antisymmetric
            <4>4. Len(frames) \in DOMAIN frames
                BY <2>1, <2>2
            <4>5. frames'[i] = Frame
                BY <2>1, <2>3, <4>3, <4>4
            <4>6. Frame <= t
                BY <2>1, <2>2
            <4> QED
                BY <4>2, <4>3, <4>5, <4>6
        <3> QED
            BY <2>2, <3>2, <3>3, <3>4
    <2>12. result' = "none" => call_depth' = c'[Len(c')].before.frames /\ Frame' < top'
        <3> SUFFICES ASSUME result' = "none" PROVE call_depth' = c'[Len(c')].before.frames /\ Frame' < top'
            OBVIOUS
        <3>1. frames' = Append(frames, t) /\ call_depth' = Len(frames) /\ top' = t + n + 1
            BY <1>2
        <3>2. Frame' = t
            BY <2>2, <3>1 DEF Frame, Last
        <3>3. t < t + n + 1
            OBVIOUS
        <3> QED
            BY <1>1, <3>1, <3>2, <3>3
    <2>13. FramesRestored'
        <3> SUFFICES ASSUME result' = "ok" PROVE FramesRestored'
            BY DEF FramesRestored
        <3>1. frames' = frames /\ call_depth' = call_depth /\ top' = t + 1 /\ f \notin Functions
            BY <1>2
        <3>2. /\ ~Caller'.closure /\ Caller'.before.top = t /\ Caller'.before.frames = Len(frames)
              /\ Caller'.before.depth = call_depth
            BY <1>1, <1>4, <3>1
        <3>3. t + 1 >= t
            OBVIOUS
        <3> QED
            BY <3>1, <3>2, <3>3 DEF FramesRestored
    <2>14. \A k \in DOMAIN c' :
              /\ c'[k].saved = c'[k].before.depth
              /\ k < Len(c') \/ result' = "none" => HasFrame(k)'
              /\ k > 1 => /\ c'[k].before.depth = Base(k - 1)'
                         /\ frames'[Base(k)'] + c'[k].args < c'[k].before.top
        <3> SUFFICES ASSUME NEW k \in DOMAIN c'
                     PROVE  /\ c'[k].saved = c'[k].before.depth
                            /\ k < Len(c') \/ result' = "none" => HasFrame(k)'
                            /\ k > 1 => /\ c'[k].before.depth = Base(k - 1)'
                                       /\ frames'[Base(k)'] + c'[k].args < c'[k].before.top
            OBVIOUS
        <3>1. CASE k \in 1 .. m
            <4>1. c'[k].saved = c'[k].before.depth
                BY <1>0, <1>1, <3>1 DEF FramesHeld
            <4> QED
                BY <2>6, <2>8, <3>1, <4>1
        <3>2. CASE k = m + 1
            BY <1>1, <2>7, <2>9, <3>2
        <3> QED
            BY <1>0, <1>1, <3>1, <3>2
    <2> QED
        BY <2>10, <2>11, <2>12, <2>13, <2>14 DEF FramesHeld, Base
<1> QED
    BY <1>3, <1>5, <1>6

\* The C function that waits for a vm_call that has ended calls again, with what
\* it has on the stack as it was.
LEMMA CallAgainKeeps ==
    ASSUME RtTypes, WaitingInOrder, FramesHeld, c # <<>>, result # "none",
           NEW f \in Callbacks, NEW n \in Nat, NEW act \in Activation,
           vm_call(top, f, n, Front(c), act), act.name = Caller.name, act.name # "handler",
           act.args = Caller.args
    PROVE  RtTypes' /\ WaitingInOrder' /\ FramesHeld'
<1>m. PICK m : m = Len(c)
    OBVIOUS
<1>0. /\ m \in DOMAIN c /\ m \in Nat /\ m = Len(c) /\ c \in Seq(Activation) /\ DOMAIN c = 1 .. m /\ c # <<>>
      /\ Caller = c[m] /\ result \in {"ok", "error"} /\ top \in Int
    BY <1>m, Typed DEF RtTypes
<1>f. /\ Front(c) \in Seq(Activation) /\ Len(Front(c)) = m - 1 /\ m - 1 \in Nat /\ m - 1 + 1 = m
      /\ \A q \in 1 .. (m - 1) : Front(c)[q] = c[q]
    BY <1>0, FrontFacts
<1>1. /\ c' \in Seq(Activation) /\ Len(c') = m /\ DOMAIN c' = 1 .. m
      /\ \A j \in 1 .. (m - 1) : c'[j] = c[j]
      /\ c'[m].name = act.name /\ c'[m].args = act.args
      /\ c'[m].saved = call_depth /\ c'[m].closure = (f \in Functions)
      /\ c'[m].before.top = top /\ c'[m].before.frames = Len(frames)
      /\ c'[m].before.depth = call_depth
    BY <1>0, <1>f, CallPushes
<1>2. /\ top' \in Int /\ frames' \in Seq(Int) /\ call_depth' \in Nat /\ had_error' \in BOOLEAN
      /\ open_upvalues' = open_upvalues /\ result' \in {"none", "ok", "error"}
      /\ (had_error \/ result' = "error" => had_error') /\ (f \in Functions) = (result' # "ok")
      /\ ~had_error' =>
            IF f \in Functions
            THEN /\ result' = "none" /\ call_depth' = Len(frames) /\ top' = top + n + 1
                 /\ frames' = Append(frames, top)
            ELSE /\ result' = "ok" /\ call_depth' = call_depth /\ top' = top + 1 /\ frames' = frames
    BY <1>0, CallMachine
<1>3. RtTypes'
    BY <1>1, <1>2 DEF RtTypes
<1>4. c' # <<>> /\ Caller' = c'[m]
    <2>1. Len(c') # 0
        BY <1>0, <1>1
    <2> QED
        BY <1>1, <2>1 DEF Caller, Last
<1>5. WaitingInOrder'
    <2>1. \A k \in 1 .. (m - 1) : c'[k].closure /\ (c'[k].name = "handler" <=> k = 1)
        BY <1>0, <1>1 DEF WaitingInOrder
    <2>2. \A k \in 1 .. m : k \in 1 .. (m - 1) \/ k = m
        BY <1>0
    <2>3. m # 1
        BY <1>0 DEF WaitingInOrder
    <2>4. \A k \in DOMAIN c' : c'[k].name = "handler" <=> k = 1
        BY <1>1, <2>1, <2>2, <2>3
    <2>5. \A k \in DOMAIN c' : ~c'[k].closure => k = Len(c') /\ result' = "ok"
        BY <1>1, <1>2, <2>1, <2>2
    <2>6. result' = "ok" => ~Caller'.closure
        BY <1>1, <1>2, <1>4
    <2> QED
        BY <1>2, <1>4, <2>4, <2>5, <2>6 DEF WaitingInOrder
<1>6. FramesHeld'
    <2> SUFFICES ASSUME ~had_error' PROVE FramesHeld'
        BY DEF FramesHeld
    <2>0. ~had_error /\ result = "ok" /\ m > 1 /\ m - 1 \in 1 .. (m - 1) /\ 1 \in 1 .. (m - 1)
        <3>1. ~had_error /\ result = "ok"
            BY <1>0, <1>2 DEF WaitingInOrder
        <3>2. m # 1
            BY <1>0 DEF WaitingInOrder
        <3> QED
            BY <1>0, <3>1, <3>2
    <2>1. Len(frames) = Base(m) /\ call_depth = c[m].before.depth /\ c[m].before.top <= top
        BY <1>0, <2>0 DEF FramesHeld, FramesRestored, Base
    <2>2. /\ frames \in Seq(Int) /\ Len(frames) \in Nat /\ DOMAIN frames = 1 .. Len(frames)
          /\ act.args \in Nat /\ (\A k \in 1 .. m : Base(k) \in Nat) /\ c[m].before.top \in Int
          /\ \A i \in DOMAIN frames : frames[i] \in Int
        BY <1>0, Typed, Fields
    <2>3. /\ \A i \in DOMAIN frames : frames'[i] = frames[i]
          /\ Len(frames) <= Len(frames') /\ Len(frames') \in Nat
        <3>1. CASE frames' = frames
            BY <2>2, <3>1
        <3>2. CASE frames' = Append(frames, top)
            BY <2>2, <3>2
        <3> QED
            BY <1>2, <3>1, <3>2
    <2>4. \A k \in 1 .. m : Base(k)' = Base(k)
        <3>1. \A k \in 1 .. (m - 1) : Base(k)' = Base(k)
            BY <1>1 DEF Base
        <3>2. \A k : k = m => Base(k)' = Len(frames)
            BY <1>1 DEF Base
        <3> QED
            BY <1>0, <2>1, <3>1, <3>2
    <2>5. \A k \in 1 .. (m - 1) : Base(k) + 1 \in DOMAIN frames /\ Base(k) < Len(frames)
        <3> SUFFICES ASSUME NEW k \in 1 .. (m - 1) PROVE Base(k) + 1 \in DOMAIN frames /\ Base(k) < Len(frames)
            OBVIOUS
        <3>0. k \in DOMAIN c /\ k < Len(c) /\ k \in 1 .. m
            BY <1>0
        <3>1. HasFrame(k) /\ Base(k) \in Nat
            BY <1>0, <2>0, <2>2, <3>0 DEF FramesHeld
        <3> QED
            BY <2>2, <3>1 DEF HasFrame
    <2>6. \A k \in 1 .. (m - 1) : HasFrame(k)'
        <3> SUFFICES ASSUME NEW k \in 1 .. (m - 1) PROVE HasFrame(k)'
            OBVIOUS
        <3>0. k \in DOMAIN c /\ k < Len(c) /\ k \in 1 .. m
            BY <1>0
        <3>1. HasFrame(k) /\ Base(k) \in Nat /\ k \in 1 .. m
            BY <1>0, <2>0, <2>2, <3>0 DEF FramesHeld
        <3>2. frames'[Base(k) + 1] = frames[Base(k) + 1] /\ c'[k] = c[k] /\ Base(k)' = Base(k)
            BY <1>1, <2>3, <2>4, <2>5, <3>1
        <3>3. Base(k) < Len(frames')
            BY <2>2, <2>3, <2>5, <3>1
        <3> QED
            BY <3>1, <3>2, <3>3 DEF HasFrame
    <2>7. \A k : k = m /\ result' = "none" => HasFrame(k)'
        <3> SUFFICES ASSUME result' = "none", NEW k, k = m PROVE HasFrame(k)'
            OBVIOUS
        <3>1. frames' = Append(frames, top)
            BY <1>2
        <3>2. Len(frames) < Len(frames') /\ frames'[Len(frames) + 1] = top
            BY <1>0, <2>2, <3>1
        <3>3. Base(k)' = Len(frames) /\ c'[k].before.top = top
            BY <1>1 DEF Base
        <3> QED
            BY <3>2, <3>3 DEF HasFrame
    <2>8. ASSUME NEW k \in 1 .. m, k > 1
          PROVE  /\ c'[k].before.depth = Base(k - 1)'
                 /\ frames'[Base(k)'] + c'[k].args < c'[k].before.top
        <3>1. k - 1 \in 1 .. (m - 1) /\ k - 1 \in 1 .. m /\ k - 1 < k
            BY <1>0, <2>8
        <3>2. /\ c[k].before.depth = Base(k - 1) /\ frames[Base(k)] + c[k].args < c[k].before.top
              /\ Base(k - 1) < Base(k)
            BY <1>0, <2>0, <2>8, <3>1 DEF FramesHeld
        <3>3. Base(k) \in DOMAIN frames
            <4>1. Base(k) <= Len(frames)
                BY <1>0, <2>1, <2>2, <2>5
            <4>2. Base(k - 1) \in Nat /\ Base(k) \in Nat
                BY <2>2, <3>1
            <4> QED
                BY <2>2, <3>2, <4>1, <4>2
        <3>4. c'[k].before.depth = c[k].before.depth /\ c'[k].args = c[k].args
            BY <1>0, <1>1, <2>1
        <3>5. c[k].before.top <= c'[k].before.top /\ c[k].before.top \in Int /\ c'[k].before.top \in Int
            <4>1. CASE k = m
                BY <1>0, <1>1, <2>1, <2>2, <4>1
            <4>2. CASE k \in 1 .. (m - 1)
                <5>1. c[k].before.top \in Int /\ c'[k] = c[k]
                    BY <1>0, <1>1, <4>2, Typed
                <5> QED
                    BY <5>1
            <4> QED
                BY <1>0, <4>1, <4>2
        <3>6. frames'[Base(k)'] = frames[Base(k)] /\ Base(k - 1)' = Base(k - 1)
            BY <2>3, <2>4, <3>1, <3>3
        <3>7. frames[Base(k)] \in Int /\ c[k].args \in Nat
            BY <1>0, <2>2, <3>3, Typed
        <3>8. frames[Base(k)] + c[k].args < c'[k].before.top
            BY <3>2, <3>5, <3>7
        <3> QED
            BY <3>2, <3>4, <3>6, <3>8
    <2>9. \A j, k \in DOMAIN c' : j < k => Base(j)' < Base(k)'
        BY <1>0, <1>1, <2>0, <2>4 DEF FramesHeld
    <2>10. \A i \in (Base(1)' + 1) .. (Len(frames') - 1) : frames'[i] <= frames'[i + 1]
        <3>1. Base(1)' = Base(1) /\ Base(1) \in Nat /\ Base(1) < Len(frames) /\ 1 \in 1 .. m
            BY <1>0, <2>0, <2>2, <2>4, <2>5
        <3> SUFFICES ASSUME NEW i \in (Base(1) + 1) .. (Len(frames') - 1)
                     PROVE  frames'[i] <= frames'[i + 1]
            BY <3>1
        <3>2. i \in Nat /\ 1 <= i /\ i <= Len(frames') - 1
            BY <2>3, <3>1
        <3>3. CASE i < Len(frames)
            <4>1. i \in DOMAIN frames /\ i + 1 \in DOMAIN frames /\ i \in (Base(1) + 1) .. (Len(frames) - 1)
                BY <2>2, <3>1, <3>2, <3>3
            <4>2. frames[i] <= frames[i + 1]
                BY <1>0, <2>0, <4>1 DEF FramesHeld
            <4> QED
                BY <2>3, <4>1, <4>2
        <3>4. CASE Len(frames) <= i
            <4>1. frames' = Append(frames, top)
                BY <1>2, <2>2, <3>2, <3>4
            <4>2. Len(frames') = Len(frames) + 1 /\ frames'[Len(frames) + 1] = top
                BY <1>0, <2>2, <4>1
            <4>3. i = Len(frames)
                <5>1. (Len(frames) + 1) - 1 = Len(frames) /\ Len(frames) \in Nat
                    BY <2>2
                <5>2. i <= Len(frames)
                    BY <3>2, <4>2, <5>1
                <5> QED
                    BY <3>2, <3>4, <5>1, <5>2, Antisymmetric
            <4>4. Len(frames) \in DOMAIN frames
                BY <2>2, <3>1
            <4>5. frames[Len(frames)] < top
                <5>1. frames[Base(m)] + c[m].args < c[m].before.top
                    BY <1>0, <2>0 DEF FramesHeld
                <5>2. frames[Len(frames)] \in Int /\ c[m].args \in Nat
                    BY <1>0, <2>2, <4>4, Typed
                <5> QED
                    BY <1>0, <2>1, <2>2, <5>1, <5>2
            <4>6. frames[Len(frames)] \in Int
                BY <2>2, <4>4
            <4> QED
                BY <1>0, <2>3, <4>2, <4>3, <4>4, <4>5, <4>6
        <3> QED
            BY <2>2, <3>2, <3>3, <3>4
    <2>11. result' = "none" => call_depth' = c'[Len(c')].before.frames /\ Frame' < top'
        <3> SUFFICES ASSUME result' = "none" PROVE call_depth' = c'[Len(c')].before.frames /\ Frame' < top'
            OBVIOUS
        <3>1. frames' = Append(frames, top) /\ call_depth' = Len(frames) /\ top' = top + n + 1
            BY <1>2
        <3>2. Frame' = top
            BY <1>0, <2>2, <3>1 DEF Frame, Last
        <3>3. top < top + n + 1
            BY <1>0
        <3> QED
            BY <1>1, <3>1, <3>2, <3>3
    <2>12. FramesRestored'
        <3> SUFFICES ASSUME result' = "ok" PROVE FramesRestored'
            BY DEF FramesRestored
        <3>1. frames' = frames /\ call_depth' = call_depth /\ top' = top + 1 /\ f \notin Functions
            BY <1>2
        <3>2. /\ ~Caller'.closure /\ Caller'.before.top = top /\ Caller'.before.frames = Len(frames)
              /\ Caller'.before.depth = call_depth
            BY <1>1, <1>4, <3>1
        <3>3. top + 1 >= top
            BY <1>0
        <3> QED
            BY <3>1, <3>2, <3>3 DEF FramesRestored
    <2>13. \A k \in DOMAIN c' :
              /\ c'[k].saved = c'[k].before.depth
              /\ k < Len(c') \/ result' = "none" => HasFrame(k)'
              /\ k > 1 => /\ c'[k].before.depth = Base(k - 1)'
                         /\ frames'[Base(k)'] + c'[k].args < c'[k].before.top
        <3> SUFFICES ASSUME NEW k \in 1 .. m
                     PROVE  /\ c'[k].saved = c'[k].before.depth
                            /\ k < Len(c') \/ result' = "none" => HasFrame(k)'
                            /\ k > 1 => /\ c'[k].before.depth = Base(k - 1)'
                                       /\ frames'[Base(k)'] + c'[k].args < c'[k].before.top
            BY <1>1
        <3>1. CASE k \in 1 .. (m - 1)
            <4>1. c'[k].saved = c'[k].before.depth
                BY <1>0, <1>1, <2>0, <3>1 DEF FramesHeld
            <4> QED
                BY <2>6, <2>8, <3>1, <4>1
        <3>2. CASE k = m
            BY <1>1, <2>7, <2>8, <3>2
        <3> QED
            BY <1>0, <3>1, <3>2
    <2> QED
        BY <2>9, <2>10, <2>11, <2>12, <2>13 DEF FramesHeld, Base
<1> QED
    BY <1>3, <1>5, <1>6

\* The C function that waits returns to vek code.
LEMMA ReturnKeeps ==
    ASSUME RtTypes, WaitingInOrder, FramesHeld, c # <<>>, result # "none", Caller.name # "handler", NativeEnds
    PROVE  /\ RtTypes' /\ WaitingInOrder' /\ FramesHeld'
           /\ Len(c) - 1 \in Nat /\ DOMAIN c = 1 .. Len(c) /\ DOMAIN c' = 1 .. (Len(c) - 1)
           /\ \A k \in 1 .. (Len(c) - 1) : c'[k] = c[k]
<1>m. PICK m : m = Len(c)
    OBVIOUS
<1>0. /\ m \in DOMAIN c /\ m \in Nat /\ m = Len(c) /\ c \in Seq(Activation) /\ DOMAIN c = 1 .. m
      /\ Caller = c[m] /\ top \in Int /\ c[m].args \in Nat
    BY <1>m, Typed
<1>1. /\ c' \in Seq(Activation) /\ Len(c') = m - 1 /\ m - 1 \in Nat /\ DOMAIN c' = 1 .. (m - 1)
      /\ \A q \in 1 .. (m - 1) : c'[q] = c[q]
    BY <1>0, FrontFacts DEF NativeEnds
<1>2. /\ result' = "none" /\ top' = top - c[m].args /\ frames' = frames /\ call_depth' = call_depth
      /\ had_error' = had_error /\ open_upvalues' = open_upvalues
    BY <1>0 DEF NativeEnds
<1>3. RtTypes'
    BY <1>0, <1>1, <1>2 DEF RtTypes
<1>4. m # 1 /\ m > 1 /\ m - 1 \in 1 .. (m - 1) /\ 1 \in 1 .. (m - 1) /\ Len(c') # 0 /\ c' # <<>>
    <2>1. m # 1
        BY <1>0 DEF WaitingInOrder
    <2> QED
        BY <1>0, <1>1, <2>1
<1>5. WaitingInOrder'
    <2>1. \A k \in 1 .. (m - 1) : c[k].closure /\ (c[k].name = "handler" <=> k = 1)
        BY <1>0 DEF WaitingInOrder
    <2> QED
        BY <1>1, <1>2, <1>4, <2>1 DEF WaitingInOrder
<1>6. FramesHeld'
    <2> SUFFICES ASSUME ~had_error PROVE FramesHeld'
        BY <1>2 DEF FramesHeld
    <2>1. result = "ok" /\ Len(frames) = Base(m) /\ call_depth = c[m].before.depth /\ c[m].before.top <= top
        <3>1. result = "ok"
            BY DEF WaitingInOrder, RtTypes
        <3> QED
            BY <1>0, <3>1 DEF FramesHeld, FramesRestored, Base
    <2>2. \A k \in 1 .. m : Base(k) \in Nat
        BY <1>0, Typed
    <2>3. \A k \in 1 .. (m - 1) : k \in 1 .. m /\ k < Len(c) /\ Base(k)' = Base(k) /\ HasFrame(k)' = HasFrame(k)
        <3>1. \A k \in 1 .. (m - 1) : k \in 1 .. m /\ k < Len(c) /\ Base(k)' = Base(k)
            BY <1>0, <1>1 DEF Base
        <3> QED
            BY <1>1, <1>2, <3>1 DEF HasFrame
    <2>4. ASSUME NEW k \in DOMAIN c'
          PROVE  /\ c'[k].saved = c'[k].before.depth /\ HasFrame(k)'
                 /\ k > 1 => /\ c'[k].before.depth = Base(k - 1)'
                            /\ frames'[Base(k)'] + c'[k].args < c'[k].before.top
        <3>1. k \in 1 .. (m - 1) /\ k \in 1 .. m /\ k < Len(c) /\ c'[k] = c[k] /\ (k > 1 => k - 1 \in 1 .. (m - 1))
            BY <1>0, <1>1, <2>3
        <3>2. /\ c[k].saved = c[k].before.depth /\ HasFrame(k)
              /\ k > 1 => c[k].before.depth = Base(k - 1) /\ frames[Base(k)] + c[k].args < c[k].before.top
            BY <1>0, <3>1 DEF FramesHeld
        <3> QED
            BY <1>2, <2>3, <3>1, <3>2
    <2>5. \A j, k \in DOMAIN c' : j < k => Base(j)' < Base(k)'
        BY <1>0, <1>1, <2>3, ZenonT(40) DEF FramesHeld
    <2>6. \A i \in (Base(1)' + 1) .. (Len(frames') - 1) : frames'[i] <= frames'[i + 1]
        BY <1>2, <1>4, <2>3 DEF FramesHeld
    <2>7. call_depth' = c'[Len(c')].before.frames
        <3>1. c[m].before.depth = Base(m - 1)
            BY <1>0, <1>4 DEF FramesHeld
        <3> QED
            BY <1>1, <1>2, <1>4, <2>1, <3>1 DEF Base
    <2>8. Frame' < top'
        <3>1. frames[Base(m)] + c[m].args < c[m].before.top
            BY <1>0, <1>4 DEF FramesHeld
        <3>2. Frame' = frames[Base(m)]
            BY <1>2, <2>1 DEF Frame, Last
        <3>3. frames[Base(m)] \in Int
            <4>1. Base(m - 1) < Base(m) /\ Base(m) \in Nat /\ Base(m - 1) \in Nat
                BY <1>0, <1>4, <2>2, <2>3 DEF FramesHeld
            <4>2. Base(m) \in DOMAIN frames
                BY <2>1, <4>1, Typed
            <4> QED
                BY <4>2, Typed
        <3>4. c[m].before.top \in Int
            BY <1>0, Typed
        <3> QED
            BY <1>0, <1>2, <2>1, <3>1, <3>2, <3>3, <3>4
    <2> QED
        BY <1>2, <2>4, <2>5, <2>6, <2>7, <2>8 DEF FramesHeld, FramesRestored, Base
<1> QED
    BY <1>0, <1>1, <1>3, <1>5, <1>6

\* A request begins, and ends.
LEMMA HandlerKeeps ==
    ASSUME RtTypes, WaitingInOrder, FramesHeld, vek_http_handler \/ handler_ends
    PROVE  RtTypes' /\ WaitingInOrder' /\ FramesHeld'
<1>1. CASE handler_ends
    <2>1. c' = <<>> /\ c' \in Seq(Activation) /\ DOMAIN c' = {} /\ result' = "none" /\ had_error' = FALSE
        BY <1>1 DEF handler_ends
    <2> QED
        BY <1>1, <2>1 DEF handler_ends, RtTypes, WaitingInOrder, FramesHeld
<1>2. CASE vek_http_handler
    <2>1. PICK f \in Functions : vm_call(top, f, 1, <<>>, Waiting("handler", 0))
        BY <1>2 DEF vek_http_handler
    <2>2. f \in Callbacks /\ top \in Int /\ <<>> \in Seq(Activation) /\ Len(<<>>) = 0
        BY Typed DEF Callbacks
    <2>3. /\ Waiting("handler", 0) \in Activation
          /\ Waiting("handler", 0).name = "handler" /\ Waiting("handler", 0).args = 0
        BY WaitingTyped
    <2>4. /\ c' \in Seq(Activation) /\ Len(c') = 1 /\ DOMAIN c' = 1 .. 1
          /\ c'[1].name = "handler"
          /\ c'[1].saved = call_depth /\ c'[1].closure = (f \in Functions)
          /\ c'[1].before.top = top /\ c'[1].before.frames = Len(frames) /\ c'[1].before.depth = call_depth
        <3> DEFINE below == <<>>
                   act == Waiting("handler", 0)
        <3>1. below \in Seq(Activation) /\ Len(below) + 1 = 1 /\ act \in Activation /\ act.name = "handler"
            BY <2>2, <2>3
        <3>2. vm_call(top, f, 1, below, act)
            BY <2>1
        <3> HIDE DEF below, act
        <3>3. LET k == Len(below) + 1 IN
              /\ c' \in Seq(Activation) /\ Len(c') = k /\ DOMAIN c' = 1 .. k
              /\ c'[k].name = act.name
              /\ c'[k].saved = call_depth /\ c'[k].closure = (f \in Functions)
              /\ c'[k].before.top = top /\ c'[k].before.frames = Len(frames) /\ c'[k].before.depth = call_depth
            BY <2>2, <3>1, <3>2, CallPushes
        <3> QED
            BY <3>1, <3>3
    <2>5. /\ top' \in Int /\ frames' \in Seq(Int) /\ call_depth' \in Nat /\ had_error' \in BOOLEAN
          /\ open_upvalues' = open_upvalues /\ result' \in {"none", "ok", "error"}
          /\ (result' = "error" => had_error') /\ result' # "ok"
          /\ ~had_error' => /\ result' = "none" /\ call_depth' = Len(frames) /\ top' = top + 1 + 1
                           /\ frames' = Append(frames, top)
        BY <2>1, <2>2, CallMachine
    <2>6. RtTypes'
        BY <2>4, <2>5 DEF RtTypes
    <2>7. c' # <<>> /\ c'[1].closure
        <3>1. Len(c') # 0
            BY <2>4
        <3>2. c' # <<>>
            BY <3>1
        <3>3. c'[1].closure
            BY <2>1, <2>4
        <3> QED
            BY <3>2, <3>3
    <2>8. WaitingInOrder'
        <3>1. \A k \in DOMAIN c' : k = 1
            BY <2>4
        <3> QED
            BY <2>4, <2>5, <2>7, <3>1 DEF WaitingInOrder
    <2>9. FramesHeld'
        <3> SUFFICES ASSUME ~had_error' PROVE FramesHeld'
            BY DEF FramesHeld
        <3>1. /\ frames \in Seq(Int) /\ Len(frames) \in Nat /\ frames' = Append(frames, top)
              /\ result' = "none" /\ call_depth' = Len(frames) /\ top' = top + 1 + 1
            BY <2>5, Typed
        <3>2. Len(frames') = Len(frames) + 1 /\ frames'[Len(frames) + 1] = top /\ Len(frames) < Len(frames')
            BY <2>2, <3>1
        <3>3. \A k \in DOMAIN c' : k = 1 /\ Base(k)' = Len(frames) /\ HasFrame(k)'
            BY <2>4, <3>2 DEF Base, HasFrame
        <3>4. Frame' = top /\ top < top'
            BY <2>2, <3>1, <3>2 DEF Frame, Last
        <3>5. \A i \in (Len(frames) + 1) .. (Len(frames') - 1) : FALSE
            BY <3>1, <3>2
        <3>6. \A k : k = 1 => Base(k)' = Len(frames)
            BY <2>4 DEF Base
        <3> QED
            BY <2>4, <3>1, <3>3, <3>4, <3>5, <3>6 DEF FramesHeld, FramesRestored, Base
    <2> QED
        BY <2>6, <2>8, <2>9
<1> QED
    BY <1>1, <1>2

\* What is the same for all instructions.
LEMMA InstructionTypes ==
    ASSUME RtTypes, WaitingInOrder, Running, UNCHANGED c,
           top' \in Int, frames' \in Seq(Int), call_depth' \in Nat, had_error' \in BOOLEAN,
           open_upvalues' \in SUBSET Int, result' \in {"none", "ok", "error"},
           result' = "error" => had_error', result' = "ok" => ~had_error'
    PROVE  RtTypes' /\ WaitingInOrder' /\ c' # <<>> /\ \A k \in DOMAIN c : c[k].closure
<1>1. RtTypes'
    BY DEF RtTypes
<1>2. c # <<>> /\ result = "none" /\ \A k \in DOMAIN c : c[k].closure
    BY DEF Running, WaitingInOrder
<1>3. WaitingInOrder'
    BY <1>2 DEF WaitingInOrder
<1> QED
    BY <1>1, <1>2, <1>3

\* An instruction that leaves the error to be met, or ends the call with it.
LEMMA ErrorKeeps ==
    ASSUME RtTypes, WaitingInOrder, Running, UNCHANGED c, had_error' = TRUE,
           top' \in Int, frames' \in Seq(Int), call_depth' \in {call_depth, Caller.saved},
           open_upvalues' \in SUBSET Int, result' \in {"none", "error"}
    PROVE  RtTypes' /\ WaitingInOrder' /\ FramesHeld'
<1>1. call_depth' \in Nat
    BY Typed, Fields DEF Running
<1>2. RtTypes' /\ WaitingInOrder'
    BY <1>1, InstructionTypes
<1> QED
    BY <1>2 DEF FramesHeld

LEMMA FramesSame ==
    ASSUME UNCHANGED <<c, frames>>
    PROVE  \A k : Base(k)' = Base(k) /\ HasFrame(k)' = HasFrame(k)
BY DEF Base, HasFrame

LEMMA PushKeeps ==
    ASSUME RtTypes, WaitingInOrder, FramesHeld, op_push
    PROVE  RtTypes' /\ WaitingInOrder' /\ FramesHeld'
<1>1. /\ Running /\ ~had_error /\ top' = Pushed(top, 1) /\ had_error' = Overflows(top, 1)
      /\ open_upvalues' \in {open_upvalues, open_upvalues \cup {Pushed(top, 1) - 1}}
      /\ frames' = frames /\ call_depth' = call_depth /\ c' = c /\ result' = result /\ result = "none"
    BY DEF op_push, Step, Running
<1>2. /\ Pushed(top, 1) \in Int /\ Overflows(top, 1) \in BOOLEAN
      /\ ~Overflows(top, 1) => Pushed(top, 1) = top + 1
    BY PushedTyped, Typed
<1>3. RtTypes' /\ WaitingInOrder' /\ c' # <<>>
    <2>1. /\ frames' \in Seq(Int) /\ call_depth' \in Nat /\ open_upvalues' \in SUBSET Int /\ top' \in Int
          /\ had_error' \in BOOLEAN /\ result' \in {"none", "ok", "error"}
        BY <1>1, <1>2, Typed DEF RtTypes
    <2> QED
        BY <1>1, <2>1, InstructionTypes
<1>4. FramesHeld'
    <2> SUFFICES ASSUME ~had_error' PROVE FramesHeld'
        BY DEF FramesHeld
    <2>1. Frame' < top'
        <3>1. Frame \in Int /\ Frame < top /\ top \in Int
            BY <1>1, TopFrame, Typed DEF Running
        <3>2. Frame' = Frame /\ top' = top + 1
            BY <1>1, <1>2 DEF Frame
        <3> QED
            BY <3>1, <3>2
    <2>2. c # <<>> /\ \A k : Base(k)' = Base(k) /\ HasFrame(k)' = HasFrame(k)
        BY <1>1, FramesSame DEF Running
    <2>3. /\ \A k \in DOMAIN c :
              /\ c[k].saved = c[k].before.depth
              /\ HasFrame(k)
              /\ k > 1 => /\ c[k].before.depth = Base(k - 1)
                         /\ frames[Base(k)] + c[k].args < c[k].before.top
          /\ \A j, k \in DOMAIN c : j < k => Base(j) < Base(k)
          /\ \A i \in (Base(1) + 1) .. (Len(frames) - 1) : frames[i] <= frames[i + 1]
          /\ call_depth = c[Len(c)].before.frames
        BY <1>1, <2>2 DEF FramesHeld, Base
    <2> QED
        BY <1>1, <2>1, <2>2, <2>3 DEF FramesHeld, FramesRestored, Base
<1> QED
    BY <1>3, <1>4

LEMMA OpCallKeeps ==
    ASSUME RtTypes, WaitingInOrder, FramesHeld, op_call
    PROVE  RtTypes' /\ WaitingInOrder' /\ FramesHeld'
<1>1. /\ Running /\ ~had_error /\ top' = Pushed(top, 1) /\ open_upvalues' = open_upvalues /\ c' = c
      /\ result = "none" /\ c # <<>>
    BY DEF op_call, Step, Running
<1>2. /\ Pushed(top, 1) \in Int /\ Overflows(top, 1) \in BOOLEAN
      /\ ~Overflows(top, 1) => Pushed(top, 1) = top + 1
    BY PushedTyped, Typed
<1>3. frames \in Seq(Int) /\ call_depth \in Nat /\ open_upvalues \in SUBSET Int /\ Len(frames) \in Nat
    BY Typed DEF RtTypes
<1>4. CASE Len(frames) = FRAMES_MAX
    BY <1>1, <1>2, <1>3, <1>4, ErrorKeeps DEF op_call
<1>5. CASE Len(frames) # FRAMES_MAX
    <2>1. /\ frames' = Append(frames, Pushed(top, 1) - 1) /\ had_error' = Overflows(top, 1)
          /\ result' = "none" /\ call_depth' = call_depth
        BY <1>1, <1>5 DEF op_call
    <2>2. frames' \in Seq(Int)
        BY <1>2, <1>3, <2>1
    <2>3. RtTypes' /\ WaitingInOrder' /\ c' # <<>>
        BY <1>1, <1>2, <1>3, <2>1, <2>2, InstructionTypes
    <2>4. FramesHeld'
        <3> SUFFICES ASSUME ~had_error' PROVE FramesHeld'
            BY DEF FramesHeld
        <3>1. frames' = Append(frames, top) /\ top' = top + 1 /\ top \in Int
            BY <1>1, <1>2, <2>1, Typed
        <3>2. /\ Len(frames') = Len(frames) + 1 /\ Len(frames') \in Nat /\ frames'[Len(frames) + 1] = top
              /\ \A i \in 1 .. Len(frames) : frames'[i] = frames[i]
            BY <1>3, <3>1
        <3>3. /\ Base(Len(c)) < Len(frames) /\ call_depth = c[Len(c)].before.frames
              /\ Frame = frames[Len(frames)] /\ Frame \in Int /\ Frame < top
              /\ \A k \in DOMAIN c : Base(k) < Len(frames) /\ Base(k) \in Nat
            BY <1>1, TopFrame, Typed DEF Base
        <3>4. \A k : Base(k)' = Base(k)
            BY <1>1 DEF Base
        <3>5. ASSUME NEW k \in DOMAIN c
              PROVE  /\ c[k].saved = c[k].before.depth
                     /\ HasFrame(k)'
                     /\ k > 1 => /\ c[k].before.depth = Base(k - 1)
                                /\ frames'[Base(k)] + c[k].args < c[k].before.top
            <4>1. /\ c[k].saved = c[k].before.depth /\ HasFrame(k)
                  /\ k > 1 => /\ c[k].before.depth = Base(k - 1)
                             /\ frames[Base(k)] + c[k].args < c[k].before.top
                BY <1>1 DEF FramesHeld
            <4>2. Base(k) \in Nat /\ Base(k) < Len(frames) /\ Base(k) + 1 \in 1 .. Len(frames)
                BY <1>3, <3>3
            <4>3. HasFrame(k)'
                <5>1. frames'[Base(k) + 1] = c[k].before.top
                    BY <3>2, <4>1, <4>2 DEF HasFrame
                <5>2. Base(k) < Len(frames')
                    BY <1>3, <3>2, <4>2
                <5> QED
                    BY <1>1, <3>4, <5>1, <5>2 DEF HasFrame
            <4>4. k > 1 => Base(k) \in 1 .. Len(frames)
                <5> SUFFICES ASSUME k > 1 PROVE Base(k) \in 1 .. Len(frames)
                    OBVIOUS
                <5>1. k - 1 \in DOMAIN c /\ k - 1 < k
                    BY Typed
                <5>2. Base(k - 1) < Base(k) /\ Base(k - 1) \in Nat
                    BY <1>1, <3>3, <5>1 DEF FramesHeld
                <5> QED
                    BY <1>3, <4>2, <5>2
            <4> QED
                BY <3>2, <4>1, <4>3, <4>4
        <3>6. \A j, k \in DOMAIN c : j < k => Base(j) < Base(k)
            BY <1>1 DEF FramesHeld
        <3>7. \A i \in (Base(1) + 1) .. (Len(frames') - 1) : frames'[i] <= frames'[i + 1]
            <4> SUFFICES ASSUME NEW i \in (Base(1) + 1) .. (Len(frames') - 1) PROVE frames'[i] <= frames'[i + 1]
                OBVIOUS
            <4>1. 1 \in DOMAIN c /\ Base(1) \in Nat
                BY <1>1, <3>3, Typed
            <4>2. i \in Nat /\ 1 <= i /\ i <= Len(frames)
                BY <1>3, <3>2, <4>1
            <4>3. CASE i < Len(frames)
                <5>1. i \in 1 .. Len(frames) /\ i + 1 \in 1 .. Len(frames) /\ i \in (Base(1) + 1) .. (Len(frames) - 1)
                    BY <1>3, <4>1, <4>2, <4>3
                <5>2. frames[i] <= frames[i + 1]
                    BY <1>1, <5>1 DEF FramesHeld
                <5> QED
                    BY <3>2, <5>1, <5>2
            <4>4. CASE i = Len(frames)
                <5>1. frames'[i] = Frame /\ frames'[i + 1] = top
                    BY <1>3, <3>2, <3>3, <4>2, <4>4
                <5> QED
                    BY <3>1, <3>3, <5>1
            <4> QED
                BY <1>3, <4>2, <4>3, <4>4
        <3>8. Frame' = top /\ top < top'
            BY <3>1, <3>2 DEF Frame, Last
        <3> QED
            BY <1>1, <2>1, <3>3, <3>4, <3>5, <3>6, <3>7, <3>8 DEF FramesHeld, FramesRestored, Base
    <2> QED
        BY <2>3, <2>4
<1> QED
    BY <1>4, <1>5

LEMMA OpReturnKeeps ==
    ASSUME RtTypes, WaitingInOrder, FramesHeld, op_return
    PROVE  RtTypes' /\ WaitingInOrder' /\ FramesHeld'
<1>m. PICK m : m = Len(c)
    OBVIOUS
<1>1. /\ Running /\ ~had_error /\ had_error' = had_error /\ c' = c /\ result = "none" /\ c # <<>>
      /\ open_upvalues' = Unclosed(Frame) /\ frames' = Front(frames)
    BY DEF op_return, Running
<1>2. /\ frames \in Seq(Int) /\ call_depth \in Nat /\ open_upvalues \in SUBSET Int /\ Len(frames) \in Nat
      /\ top \in Int /\ DOMAIN c = 1 .. m /\ m \in Nat /\ 1 \in 1 .. m /\ m \in 1 .. m /\ m = Len(c)
      /\ \A k \in 1 .. m : Base(k) \in Nat
    BY <1>m, <1>1, Typed, SMTT(30) DEF RtTypes
<1>3. /\ call_depth = Base(m) /\ Base(m) < Len(frames) /\ frames[Base(m) + 1] = c[m].before.top
      /\ Caller = c[m] /\ Caller.closure /\ Caller.saved = Caller.before.depth
      /\ Frame = frames[Len(frames)] /\ Frame \in Int /\ Frame < top /\ frames # <<>>
      /\ \A k \in 1 .. m : Base(k) <= Base(m)
    BY <1>1, <1>2, TopFrame
<1>4. /\ frames' \in Seq(Int) /\ Len(frames') = Len(frames) - 1 /\ Len(frames') \in Nat
      /\ DOMAIN frames' = 1 .. Len(frames')
      /\ \A q \in 1 .. Len(frames') : frames'[q] = frames[q] /\ frames[q] \in Int
    <2>1. /\ frames' \in Seq(Int) /\ Len(frames') = Len(frames) - 1
          /\ \A q \in 1 .. (Len(frames) - 1) : frames'[q] = frames[q]
        BY <1>1, <1>2, <1>3, FrontFacts
    <2>2. Len(frames') \in Nat /\ DOMAIN frames' = 1 .. Len(frames')
        BY <2>1
    <2>3. \A q \in 1 .. Len(frames') : frames[q] \in Int
        BY <1>2, <2>1
    <2> QED
        BY <2>1, <2>2, <2>3
<1>5. open_upvalues' \in SUBSET Int /\ \A s \in open_upvalues' : s < Frame
    BY <1>1, <1>2 DEF Unclosed
<1>6. Caller.saved \in Nat /\ Caller.before.top \in Int /\ Caller.before.frames = Base(m)
    BY <1>2, <1>3, Typed DEF Base
<1>7. \A k : Base(k)' = Base(k)
    BY <1>1 DEF Base
<1>8. Base(m) <= Len(frames')
    BY <1>2, <1>3, <1>4
<1>9. \A k \in 1 .. m : k > 1 => /\ c[k].before.depth = Base(k - 1)
                               /\ frames'[Base(k)] + c[k].args < c[k].before.top
    <2> SUFFICES ASSUME NEW k \in 1 .. m, k > 1
                 PROVE  c[k].before.depth = Base(k - 1) /\ frames'[Base(k)] + c[k].args < c[k].before.top
        OBVIOUS
    <2>1. k - 1 \in 1 .. m /\ k - 1 < k
        BY <1>2
    <2>2. /\ c[k].before.depth = Base(k - 1) /\ frames[Base(k)] + c[k].args < c[k].before.top
          /\ Base(k - 1) < Base(k)
        BY <1>1, <1>2, <2>1 DEF FramesHeld
    <2>3. Base(k) \in Nat /\ Base(k - 1) \in Nat /\ Base(m) \in Nat /\ Base(k) <= Base(m)
        BY <1>2, <1>3, <2>1
    <2>4. Base(k) \in 1 .. Len(frames')
        BY <1>4, <1>8, <2>2, <2>3
    <2> QED
        BY <1>4, <2>2, <2>4
<1>10. \A j, k \in 1 .. m : j < k => Base(j) < Base(k)
    BY <1>1, <1>2 DEF FramesHeld
<1>11. \A i \in (Base(1) + 1) .. (Len(frames') - 1) : frames'[i] <= frames'[i + 1]
    <2> SUFFICES ASSUME NEW i \in (Base(1) + 1) .. (Len(frames') - 1) PROVE frames'[i] <= frames'[i + 1]
        OBVIOUS
    <2>1. Base(1) \in Nat
        BY <1>2
    <2>2. i \in 1 .. Len(frames') /\ i + 1 \in 1 .. Len(frames') /\ i \in (Base(1) + 1) .. (Len(frames) - 1)
        BY <1>2, <1>4, <2>1
    <2>3. frames[i] <= frames[i + 1]
        BY <1>1, <2>2 DEF FramesHeld
    <2> QED
        BY <1>4, <2>2, <2>3
<1>12. \A k \in 1 .. m : c[k].saved = c[k].before.depth /\ frames[Base(k) + 1] = c[k].before.top
    BY <1>1, <1>2 DEF FramesHeld, HasFrame
<1>13. ASSUME NEW k \in 1 .. m, Base(k) < Len(frames') PROVE HasFrame(k)'
    <2>1. Base(k) + 1 \in 1 .. Len(frames')
        BY <1>2, <1>4, <1>13, SMTT(30)
    <2>2. frames'[Base(k) + 1] = c[k].before.top
        BY <1>4, <1>12, <2>1
    <2> QED
        BY <1>1, <1>7, <1>13, <2>2 DEF HasFrame
<1>14. CASE Len(frames) - 1 = call_depth
    <2>1. top' = top - 1 /\ result' = "ok" /\ call_depth' = Caller.saved
        BY <1>14 DEF op_return
    <2>2. RtTypes' /\ WaitingInOrder' /\ c' # <<>>
        <3>1. had_error' \in BOOLEAN /\ ~had_error'
            BY <1>1 DEF RtTypes
        <3>2. /\ UNCHANGED c /\ top' \in Int /\ frames' \in Seq(Int) /\ call_depth' \in Nat
              /\ open_upvalues' \in SUBSET Int
              /\ result' \in {"none", "ok", "error"} /\ result' # "error"
            BY <1>1, <1>2, <1>4, <1>5, <1>6, <2>1
        <3> QED
            BY <1>1, <3>1, <3>2, InstructionTypes
    <2>3. Frame = Caller.before.top /\ Len(frames') = Base(m)
        <3>1. Len(frames) = Base(m) + 1
            BY <1>2, <1>3, <1>14
        <3> QED
            BY <1>2, <1>3, <1>4, <3>1
    <2>4. top - 1 >= Frame
        BY <1>2, <1>3
    <2>5. Caller' = Caller
        BY <1>1 DEF Caller
    <2>6. FramesRestored'
        BY <1>3, <1>5, <1>6, <2>1, <2>3, <2>4, <2>5 DEF FramesRestored
    <2>7. ASSUME NEW k \in 1 .. m, k < m PROVE HasFrame(k)'
        <3>1. Base(k) < Base(m)
            BY <1>2, <1>10, <2>7
        <3> QED
            BY <1>13, <2>3, <3>1
    <2> QED
        BY <1>1, <1>2, <1>7, <1>9, <1>10, <1>11, <1>12, <2>1, <2>2, <2>6, <2>7 DEF FramesHeld
<1>15. CASE Len(frames) - 1 # call_depth
    <2>1. top' = Frame + 1 /\ result' = "none" /\ call_depth' = call_depth
        BY <1>1, <1>15 DEF op_return
    <2>2. RtTypes' /\ WaitingInOrder' /\ c' # <<>>
        <3>1. had_error' \in BOOLEAN /\ ~had_error'
            BY <1>1 DEF RtTypes
        <3>2. /\ UNCHANGED c /\ top' \in Int /\ frames' \in Seq(Int) /\ call_depth' \in Nat
              /\ open_upvalues' \in SUBSET Int
              /\ result' \in {"none", "ok", "error"} /\ result' # "error"
            BY <1>1, <1>2, <1>3, <1>4, <1>5, <2>1
        <3> QED
            BY <1>1, <3>1, <3>2, InstructionTypes
    <2>3. Base(m) < Len(frames')
        BY <1>2, <1>3, <1>4, <1>15
    <2>4. ASSUME NEW k \in 1 .. m PROVE HasFrame(k)'
        <3>1. Base(k) <= Base(m) /\ Base(k) \in Nat /\ Base(m) \in Nat
            BY <1>2, <1>3
        <3>2. Base(k) < Len(frames')
            BY <1>4, <2>3, <3>1
        <3> QED
            BY <1>13, <3>2
    <2>5. Frame' < top'
        <3>1. Frame' = frames[Len(frames) - 1]
            <4>1. Len(frames') \in 1 .. Len(frames')
                BY <1>2, <1>4, <2>3
            <4> QED
                BY <1>4, <4>1 DEF Frame, Last
        <3>2. frames[Len(frames) - 1] <= Frame /\ frames[Len(frames) - 1] \in Int
            <4>1. Base(1) \in Nat /\ Base(1) <= Base(m) /\ Base(m) \in Nat
                BY <1>2, <1>3
            <4>2. /\ Len(frames) - 1 \in (Base(1) + 1) .. (Len(frames) - 1)
                  /\ Len(frames) - 1 \in 1 .. Len(frames')
                BY <1>2, <1>4, <2>3, <4>1
            <4>3. frames[Len(frames) - 1] <= frames[Len(frames) - 1 + 1]
                BY <1>1, <4>2 DEF FramesHeld
            <4>4. Len(frames) - 1 + 1 = Len(frames)
                BY <1>2
            <4> QED
                BY <1>3, <1>4, <4>2, <4>3, <4>4
        <3> QED
            BY <1>3, <2>1, <3>1, <3>2
    <2>6. call_depth' = c'[Len(c')].before.frames
        BY <1>1, <1>2, <1>3, <2>1 DEF Base
    <2> QED
        BY <1>1, <1>2, <1>7, <1>9, <1>10, <1>11, <1>12, <2>1, <2>2, <2>4, <2>5, <2>6
           DEF FramesHeld, FramesRestored, Base
<1> QED
    BY <1>14, <1>15

-----------------------------------------------------------------------------
(* The channels.                                                           *)

LEMMA ServingGrows ==
    ASSUME NEW a \in Activation, NEW l, NEW m, DOMAIN l \subseteq DOMAIN m,
           \A ch \in DOMAIN l : l[ch] \in Seq(Callbacks) /\ m[ch] \in Seq(Callbacks) /\ Begins(l[ch], m[ch]),
           Serving(a, l)
    PROVE  Serving(a, m)
<1> SUFFICES ASSUME a.name = "publish"
             PROVE  /\ a.channel \in DOMAIN m
                    /\ ~a.left => /\ Len(a.calls) = a.i
                                 /\ Begins(a.calls, m[a.channel]) /\ Begins(a.first, m[a.channel])
    BY DEF Serving
<1>1. a.channel \in DOMAIN l /\ a.channel \in DOMAIN m
    BY DEF Serving
<1>2. ASSUME NEW s \in Seq(Callbacks), NEW t \in Seq(Callbacks), NEW u \in Seq(Callbacks), Begins(s, t), Begins(t, u)
      PROVE  Begins(s, u)
    <2>1. Len(s) \in Nat /\ Len(t) \in Nat /\ Len(u) \in Nat /\ DOMAIN s = 1 .. Len(s) /\ DOMAIN t = 1 .. Len(t)
        OBVIOUS
    <2> QED
        BY <1>2, <2>1 DEF Begins
<1>3. a.calls \in Seq(Callbacks) /\ a.first \in Seq(Callbacks)
    BY Fields
<1> QED
    BY <1>1, <1>2, <1>3 DEF Serving

LEMMA ServingSame ==
    ASSUME NEW a, NEW b, NEW l, Serving(a, l),
           b.name = a.name, b.channel = a.channel, b.left = a.left, b.i = a.i,
           b.calls = a.calls, b.first = a.first
    PROVE  Serving(b, l)
BY DEF Serving

LEMMA ChannelsTyped ==
    ASSUME ChannelTypes
    PROVE  /\ \A ch \in DOMAIN channels :
                 /\ channels[ch] \in Seq(Callbacks) /\ Len(channels[ch]) \in Nat
                 /\ DOMAIN channels[ch] = 1 .. Len(channels[ch]) /\ Len(channels[ch]) <= MaxSubscribers
                 /\ ch \in Channels
           /\ MaxSubscribers \in Nat /\ DOMAIN pins = Callbacks
           /\ \A f \in Callbacks : pins[f] \in Nat
           /\ \A ch : /\ Subscribers(ch) \in Seq(Callbacks) /\ Len(Subscribers(ch)) \in Nat
                      /\ DOMAIN Subscribers(ch) = 1 .. Len(Subscribers(ch))
                      /\ Len(Subscribers(ch)) <= MaxSubscribers
<1>1. MaxSubscribers \in Nat
    BY RuntimeLimits
<1>2. \A ch \in DOMAIN channels :
          /\ channels[ch] \in Seq(Callbacks) /\ Len(channels[ch]) \in Nat
          /\ DOMAIN channels[ch] = 1 .. Len(channels[ch]) /\ Len(channels[ch]) <= MaxSubscribers
          /\ ch \in Channels
    BY DEF ChannelTypes
<1>3. <<>> \in Seq(Callbacks) /\ Len(<<>>) = 0 /\ DOMAIN <<>> = 1 .. 0
    OBVIOUS
<1>4. \A ch : /\ Subscribers(ch) \in Seq(Callbacks) /\ Len(Subscribers(ch)) \in Nat
              /\ DOMAIN Subscribers(ch) = 1 .. Len(Subscribers(ch))
              /\ Len(Subscribers(ch)) <= MaxSubscribers
    BY <1>1, <1>2, <1>3 DEF Subscribers
<1> QED
    BY <1>1, <1>2, <1>4 DEF ChannelTypes

LEMMA SubscriptionsFinite ==
    ASSUME ChannelTypes, NEW f
    PROVE  IsFiniteSet(Subscriptions(f)) /\ Cardinality(Subscriptions(f)) \in Nat
<1>1. IsFiniteSet(DOMAIN channels) /\ MaxSubscribers \in Int
    BY ChannelsTyped DEF ChannelTypes
<1>2. IsFiniteSet(1 .. MaxSubscribers)
    BY <1>1, FS_Interval
<1>3. IsFiniteSet((DOMAIN channels) \X (1 .. MaxSubscribers))
    BY <1>1, <1>2, FS_Product
<1>4. Subscriptions(f) \in SUBSET ((DOMAIN channels) \X (1 .. MaxSubscribers))
    BY DEF Subscriptions
<1>5. IsFiniteSet(Subscriptions(f))
    BY <1>3, <1>4, FS_Subset
<1> QED
    BY <1>5, FS_CardinalityType

\* What a subscription adds, and what an unsubscribing takes away.
LEMMA SubscribeKeeps ==
    ASSUME ChannelTypes, PinnedWhileSubscribed, NEW ch \in Channels, NEW f \in Callbacks,
           native_pubsub_subscribe(ch, f)
    PROVE  /\ ChannelTypes' /\ PinnedWhileSubscribed' /\ DOMAIN channels \subseteq DOMAIN channels'
           /\ \A x \in DOMAIN channels : channels'[x] \in Seq(Callbacks) /\ Begins(channels[x], channels'[x])
<1>n. PICK n : n = Len(Subscribers(ch))
    OBVIOUS
<1>t. /\ n \in Nat /\ n <= MaxSubscribers /\ MaxSubscribers \in Nat
      /\ Subscribers(ch) \in Seq(Callbacks) /\ DOMAIN Subscribers(ch) = 1 .. n /\ Len(Subscribers(ch)) = n
    BY <1>n, ChannelsTyped
<1>1. CASE UNCHANGED pubsub
    <2>1. channels' = channels /\ pins' = pins
        BY <1>1 DEF pubsub
    <2> QED
        BY <2>1, ChannelsTyped DEF ChannelTypes, PinnedWhileSubscribed, Subscriptions, Begins
<1>2. CASE ~UNCHANGED pubsub
    <2>1. /\ n # MaxSubscribers
          /\ channels' = [x \in DOMAIN channels \cup {ch} |->
                             IF x = ch THEN Append(Subscribers(ch), f) ELSE channels[x]]
          /\ pins' = [pins EXCEPT ![f] = @ + 1]
        BY <1>2, <1>n DEF native_pubsub_subscribe
    <2>2. n + 1 <= MaxSubscribers
        BY <1>t, <2>1
    <2>3. /\ Append(Subscribers(ch), f) \in Seq(Callbacks) /\ Len(Append(Subscribers(ch), f)) = n + 1
          /\ DOMAIN Append(Subscribers(ch), f) = 1 .. (n + 1)
          /\ \A q \in 1 .. n : Append(Subscribers(ch), f)[q] = Subscribers(ch)[q]
          /\ Append(Subscribers(ch), f)[n + 1] = f
        BY <1>t, AppendFacts
    <2>4. PICK s : s = Append(Subscribers(ch), f)
        OBVIOUS
    <2>5. /\ DOMAIN channels' = DOMAIN channels \cup {ch} /\ channels'[ch] = s
          /\ \A x \in DOMAIN channels : x # ch => channels'[x] = channels[x]
        BY <2>1, <2>4
    <2>6. /\ s \in Seq(Callbacks) /\ Len(s) = n + 1 /\ DOMAIN s = 1 .. (n + 1) /\ s[n + 1] = f
          /\ \A q \in 1 .. n : s[q] = Subscribers(ch)[q]
        BY <2>3, <2>4
    <2>7. /\ DOMAIN pins' = Callbacks /\ pins'[f] = pins[f] + 1 /\ pins' \in [Callbacks -> Nat]
          /\ \A g \in Callbacks : g # f => pins'[g] = pins[g]
        BY <2>1, ChannelsTyped DEF ChannelTypes
    <2>8. ChannelTypes'
        <3>1. IsFiniteSet(DOMAIN channels') /\ DOMAIN channels' \subseteq Channels
            BY <2>5, FS_AddElement DEF ChannelTypes
        <3>2. \A x \in DOMAIN channels' : channels'[x] \in Seq(Callbacks) /\ Len(channels'[x]) <= MaxSubscribers
            BY <2>2, <2>5, <2>6, ChannelsTyped
        <3> QED
            BY <2>7, <3>1, <3>2 DEF ChannelTypes
    <2>9. \A x \in DOMAIN channels : channels'[x] \in Seq(Callbacks) /\ Begins(channels[x], channels'[x])
        <3> SUFFICES ASSUME NEW x \in DOMAIN channels
                     PROVE  channels'[x] \in Seq(Callbacks) /\ Begins(channels[x], channels'[x])
            OBVIOUS
        <3>1. CASE x # ch
            BY <2>5, <3>1, ChannelsTyped DEF Begins
        <3>2. CASE x = ch
            <4>1. channels[x] = Subscribers(ch) /\ channels'[x] = s
                BY <2>5, <3>2 DEF Subscribers
            <4> QED
                BY <1>t, <2>6, <4>1 DEF Begins
        <3> QED
            BY <3>1, <3>2
    <2>10. ASSUME NEW g \in Callbacks
           PROVE  Subscriptions(g)' = IF g = f THEN Subscriptions(g) \cup {<<ch, n + 1>>} ELSE Subscriptions(g)
        <3>1. \A x, q : <<x, q>> \in Subscriptions(g) <=>
                  x \in DOMAIN channels /\ q \in 1 .. MaxSubscribers /\ q \in DOMAIN channels[x] /\ channels[x][q] = g
            BY DEF Subscriptions
        <3>2. \A x, q : <<x, q>> \in Subscriptions(g)' <=>
                  x \in DOMAIN channels' /\ q \in 1 .. MaxSubscribers /\ q \in DOMAIN channels'[x] /\ channels'[x][q] = g
            BY DEF Subscriptions
        <3>3. \A q : <<ch, q>> \in Subscriptions(g) <=> q \in 1 .. n /\ Subscribers(ch)[q] = g
            <4>1. CASE ch \in DOMAIN channels
                <5>1. channels[ch] = Subscribers(ch) /\ \A q \in 1 .. n : q \in 1 .. MaxSubscribers
                    BY <1>t, <4>1 DEF Subscribers
                <5> QED
                    BY <1>t, <3>1, <4>1, <5>1
            <4>2. CASE ch \notin DOMAIN channels
                <5>1. 1 .. n = {}
                    BY <1>n, <4>2 DEF Subscribers
                <5> QED
                    BY <3>1, <4>2, <5>1
            <4> QED
                BY <4>1, <4>2
        <3>4. \A q : <<ch, q>> \in Subscriptions(g)' <=> <<ch, q>> \in Subscriptions(g) \/ (q = n + 1 /\ g = f)
            <4>1. /\ 1 .. (n + 1) = (1 .. n) \cup {n + 1} /\ n + 1 \notin 1 .. n
                  /\ \A q \in 1 .. (n + 1) : q \in 1 .. MaxSubscribers
                BY <1>t, <2>2
            <4>2. \A q : <<ch, q>> \in Subscriptions(g)' <=> q \in 1 .. (n + 1) /\ s[q] = g
                BY <2>5, <2>6, <3>2, <4>1
            <4> QED
                BY <2>6, <3>3, <4>1, <4>2
        <3>5. \A x, q : x # ch => (<<x, q>> \in Subscriptions(g)' <=> <<x, q>> \in Subscriptions(g))
            BY <2>5, <3>1, <3>2
        <3>6. /\ \A p \in Subscriptions(g) : p = <<p[1], p[2]>>
              /\ \A p \in Subscriptions(g)' : p = <<p[1], p[2]>>
            BY DEF Subscriptions
        <3>7. CASE g = f
            <4>1. \A x, q : <<x, q>> \in Subscriptions(g)' <=> <<x, q>> \in Subscriptions(g) \cup {<<ch, n + 1>>}
                BY <3>4, <3>5, <3>7
            <4> QED
                BY <3>6, <3>7, <4>1
        <3>8. CASE g # f
            BY <3>4, <3>5, <3>6, <3>8
        <3> QED
            BY <3>7, <3>8
    <2>11. <<ch, n + 1>> \notin Subscriptions(f)
        <3> SUFFICES ASSUME <<ch, n + 1>> \in Subscriptions(f) PROVE FALSE
            OBVIOUS
        <3>1. ch \in DOMAIN channels /\ n + 1 \in DOMAIN channels[ch]
            BY DEF Subscriptions
        <3>2. n + 1 \in 1 .. n
            BY <1>t, <3>1 DEF Subscribers
        <3> QED
            BY <1>t, <3>2
    <2>12. PinnedWhileSubscribed'
        <3>1. \A g \in Callbacks : pins[g] = Cardinality(Subscriptions(g)) /\ IsFiniteSet(Subscriptions(g))
            BY SubscriptionsFinite, ChannelsTyped DEF PinnedWhileSubscribed
        <3>2. Cardinality(Subscriptions(f) \cup {<<ch, n + 1>>}) = Cardinality(Subscriptions(f)) + 1
            BY <2>11, <3>1, FS_AddElement
        <3>3. \A g \in Callbacks : pins'[g] = Cardinality(Subscriptions(g)')
            BY <2>7, <2>10, <3>1, <3>2
        <3> QED
            BY <2>7, <3>3 DEF PinnedWhileSubscribed
    <2> QED
        BY <2>5, <2>8, <2>9, <2>12
<1> QED
    BY <1>1, <1>2

LEMMA OneToOne ==
    ASSUME NEW S, NEW T, NEW F \in [S -> T],
           \A x, y \in S : F[x] = F[y] => x = y, \A y \in T : \E x \in S : F[x] = y
    PROVE  ExistsBijection(S, T)
BY DEF ExistsBijection, Bijection, Injection, Surjection, IsInjective

LEMMA UnsubscribeKeeps ==
    ASSUME ChannelTypes, PinnedWhileSubscribed, NEW ch \in Channels, native_pubsub_unsubscribe(ch)
    PROVE  /\ ChannelTypes' /\ PinnedWhileSubscribed' /\ DOMAIN channels' = DOMAIN channels
           /\ \A x \in DOMAIN channels : x # ch => channels'[x] = channels[x]
<1>1. /\ ch \in DOMAIN channels /\ DOMAIN channels' = DOMAIN channels /\ channels'[ch] = <<>>
      /\ \A x \in DOMAIN channels : x # ch => channels'[x] = channels[x]
      /\ pins' = Unpinned(ch)
    BY DEF native_pubsub_unsubscribe
<1>2. ASSUME NEW g \in Callbacks
      PROVE  pins'[g] = Cardinality(Subscriptions(g)') /\ pins'[g] \in Nat
    <2> DEFINE s == channels[ch]
    <2> DEFINE own == {i \in DOMAIN s : s[i] = g}
    <2> DEFINE at == {p \in Subscriptions(g) : p[1] = ch}
    <2>1. IsFiniteSet(Subscriptions(g)) /\ pins[g] = Cardinality(Subscriptions(g)) /\ pins[g] \in Nat
        BY SubscriptionsFinite, ChannelsTyped DEF PinnedWhileSubscribed
    <2>2. s \in Seq(Callbacks) /\ Len(s) \in Nat /\ DOMAIN s = 1 .. Len(s) /\ Len(s) <= MaxSubscribers /\ MaxSubscribers \in Nat
        BY <1>1, ChannelsTyped
    <2>3. Subscriptions(g)' = Subscriptions(g) \ at
        <3>1. \A x, q : <<x, q>> \in Subscriptions(g) <=>
                  x \in DOMAIN channels /\ q \in 1 .. MaxSubscribers /\ q \in DOMAIN channels[x] /\ channels[x][q] = g
            BY DEF Subscriptions
        <3>2. \A x, q : <<x, q>> \in Subscriptions(g)' <=>
                  x \in DOMAIN channels' /\ q \in 1 .. MaxSubscribers /\ q \in DOMAIN channels'[x] /\ channels'[x][q] = g
            BY DEF Subscriptions
        <3>3. /\ \A p \in Subscriptions(g) : p = <<p[1], p[2]>>
              /\ \A p \in Subscriptions(g)' : p = <<p[1], p[2]>>
            BY DEF Subscriptions
        <3>4. DOMAIN channels'[ch] = {}
            BY <1>1
        <3>5. ASSUME NEW x, NEW q
              PROVE  <<x, q>> \in Subscriptions(g)' <=> <<x, q>> \in Subscriptions(g) /\ x # ch
            <4>1. CASE x = ch
                BY <3>2, <3>4, <4>1
            <4>2. CASE x # ch
                <5>1. x \in DOMAIN channels' <=> x \in DOMAIN channels
                    BY <1>1
                <5>2. x \in DOMAIN channels => channels'[x] = channels[x]
                    BY <1>1, <4>2
                <5> QED
                    BY <3>1, <3>2, <4>2, <5>1, <5>2
            <4> QED
                BY <4>1, <4>2
        <3>6. \A x, q : <<x, q>> \in at <=> <<x, q>> \in Subscriptions(g) /\ x = ch
            OBVIOUS
        <3> HIDE DEF at
        <3> QED
            BY <3>3, <3>5, <3>6
    <2>4. at \subseteq Subscriptions(g) /\ Subscriptions(g) \cap at = at
        OBVIOUS
    <2>5. ExistsBijection(own, at)
        <3> DEFINE F == [i \in own |-> <<ch, i>>]
        <3>1. F \in [own -> at]
            <4> SUFFICES ASSUME NEW i \in own PROVE <<ch, i>> \in at
                OBVIOUS
            <4>1. i \in 1 .. MaxSubscribers /\ i \in DOMAIN channels[ch] /\ channels[ch][i] = g
                BY <2>2
            <4> QED
                BY <1>1, <4>1 DEF Subscriptions
        <3>2. \A x, y \in own : F[x] = F[y] => x = y
            OBVIOUS
        <3>3. \A y \in at : \E x \in own : F[x] = y
            <4> SUFFICES ASSUME NEW y \in at PROVE \E x \in own : F[x] = y
                OBVIOUS
            <4>1. y[2] \in own /\ y = <<ch, y[2]>>
                BY DEF Subscriptions
            <4> QED
                BY <4>1
        <3> HIDE DEF F, own, at
        <3> QED
            BY <3>1, <3>2, <3>3, OneToOne
    <2> HIDE DEF at
    <2>6. IsFiniteSet(own) /\ Cardinality(own) = Occurrences(s, g)
        <3>1. own \in SUBSET (1 .. Len(s))
            BY <2>2
        <3> HIDE DEF s
        <3>2. IsFiniteSet(1 .. Len(s))
            BY <2>2, FS_Interval
        <3>3. IsFiniteSet(own)
            BY <3>1, <3>2, FS_Subset
        <3> QED
            BY <3>3 DEF Occurrences
    <2> HIDE DEF own
    <2>7. Cardinality(at) = Occurrences(s, g) /\ Cardinality(at) \in Nat /\ Cardinality(at) <= Cardinality(Subscriptions(g))
        <3>1. IsFiniteSet(at) /\ Cardinality(at) = Cardinality(own)
            BY <2>5, <2>6, FS_Bijection
        <3>2. Cardinality(at) \in Nat
            BY <3>1, FS_CardinalityType
        <3>3. Cardinality(at) <= Cardinality(Subscriptions(g))
            BY <2>1, <2>4, FS_Subset
        <3> QED
            BY <2>6, <3>1, <3>2, <3>3
    <2>8. Cardinality(Subscriptions(g)') = pins[g] - Cardinality(at)
        BY <2>1, <2>3, <2>4, FS_Difference, ZenonT(40)
    <2>9. pins'[g] = pins[g] - Least(pins[g], Occurrences(s, g))
        <3>1. g \in DOMAIN pins
            BY ChannelsTyped
        <3> QED
            BY <1>1, <3>1 DEF Unpinned
    <2>10. Least(pins[g], Occurrences(s, g)) = Cardinality(at)
        BY <2>1, <2>7 DEF Least
    <2> QED
        BY <2>1, <2>7, <2>8, <2>9, <2>10
<1>3. DOMAIN pins' = Callbacks /\ pins' \in [Callbacks -> Nat]
    <2>1. pins' = [f \in Callbacks |-> pins'[f]]
        BY <1>1, ChannelsTyped DEF Unpinned
    <2> QED
        BY <1>2, <2>1
<1>4. ChannelTypes'
    <2>1. <<>> \in Seq(Callbacks) /\ Len(<<>>) = 0
        OBVIOUS
    <2>2. ASSUME NEW x \in DOMAIN channels'
          PROVE  channels'[x] \in Seq(Callbacks) /\ Len(channels'[x]) <= MaxSubscribers
        <3>1. MaxSubscribers \in Nat
            BY RuntimeLimits
        <3>2. CASE x = ch
            BY <1>1, <2>1, <3>1, <3>2
        <3>3. CASE x # ch
            <4>1. x \in DOMAIN channels /\ channels'[x] = channels[x]
                BY <1>1, <3>3
            <4> QED
                BY <4>1, ChannelsTyped
        <3> QED
            BY <3>2, <3>3
    <2> QED
        BY <1>1, <1>3, <2>2 DEF ChannelTypes
<1>5. PinnedWhileSubscribed'
    BY <1>2, <1>3 DEF PinnedWhileSubscribed
<1> QED
    BY <1>1, <1>4, <1>5

\* A step that subscribes no one, and after which each C function has been there
\* before or serves its channel.
LEMMA ChannelsKept ==
    ASSUME ChannelInv, UNCHANGED pubsub,
           \A k \in DOMAIN c' : (k \in DOMAIN c /\ c'[k] = c[k]) \/ Serving(c'[k], channels)
    PROVE  ChannelInv'
<1>1. channels' = channels /\ pins' = pins
    BY DEF pubsub
<1>2. CalledInOrder'
    BY <1>1 DEF ChannelInv, CalledInOrder
<1>3. ChannelTypes' /\ PinnedWhileSubscribed'
    BY <1>1 DEF ChannelInv, ChannelTypes, PinnedWhileSubscribed, Subscriptions
<1> QED
    BY <1>2, <1>3 DEF ChannelInv

LEMMA PlainNativeKeeps ==
    ASSUME MachineInv, NEW n, Step, Native(n), UNCHANGED c
    PROVE  MachineInv'
<1>1. /\ RtTypes /\ WaitingInOrder /\ FramesHeld /\ Running /\ ~had_error /\ top' = top + 1
      /\ frames' = frames /\ call_depth' = call_depth /\ had_error' = had_error
      /\ open_upvalues' = open_upvalues /\ result' = result /\ c' = c
    BY DEF MachineInv, Step, Native
<1>2. c' \in Seq(Activation)
    BY <1>1, Typed
<1> QED
    BY <1>1, <1>2, NativeKeeps DEF MachineInv

LEMMA SubscribeStep ==
    ASSUME MachineInv, ChannelInv, NEW ch \in Channels, NEW f \in Callbacks, native_pubsub_subscribe(ch, f)
    PROVE  MachineInv' /\ ChannelInv'
<1>1. c' = c /\ Step /\ Native(2)
    BY DEF native_pubsub_subscribe
<1>2. MachineInv'
    BY <1>1, PlainNativeKeeps
<1>3. ChannelTypes /\ PinnedWhileSubscribed /\ CalledInOrder /\ RtTypes
    BY DEF ChannelInv, MachineInv
<1>4. /\ ChannelTypes' /\ PinnedWhileSubscribed' /\ DOMAIN channels \subseteq DOMAIN channels'
      /\ \A x \in DOMAIN channels : channels'[x] \in Seq(Callbacks) /\ Begins(channels[x], channels'[x])
    BY <1>3, SubscribeKeeps
<1>5. ASSUME NEW k \in DOMAIN c PROVE Serving(c[k], channels')
    <2>1. c[k] \in Activation /\ Serving(c[k], channels)
        BY <1>3, Typed DEF CalledInOrder
    <2>2. \A x \in DOMAIN channels : channels[x] \in Seq(Callbacks)
        BY <1>3, ChannelsTyped
    <2> QED
        BY <1>4, <2>1, <2>2, ServingGrows
<1>6. CalledInOrder'
    BY <1>1, <1>5 DEF CalledInOrder
<1> QED
    BY <1>2, <1>4, <1>6 DEF ChannelInv

LEMMA UnsubscribeStep ==
    ASSUME MachineInv, ChannelInv, NEW ch \in Channels, native_pubsub_unsubscribe(ch)
    PROVE  /\ MachineInv' /\ ChannelInv' /\ DOMAIN c' = DOMAIN c
           /\ \A k \in DOMAIN c : /\ c'[k].name = c[k].name /\ c'[k].i = c[k].i
                                  /\ c'[k].closure = c[k].closure
<1>1. /\ RtTypes /\ WaitingInOrder /\ FramesHeld /\ Running /\ ~had_error /\ top' = top + 1
      /\ UNCHANGED <<frames, call_depth, had_error, open_upvalues, result>> /\ c' = Left(ch)
      /\ ChannelTypes /\ PinnedWhileSubscribed /\ CalledInOrder
    BY DEF MachineInv, ChannelInv, Step, Native, native_pubsub_unsubscribe
<1>2. ASSUME NEW k \in DOMAIN c
      PROVE  /\ c'[k] \in Activation
             /\ c'[k].name = c[k].name /\ c'[k].closure = c[k].closure /\ c'[k].saved = c[k].saved
             /\ c'[k].args = c[k].args /\ c'[k].before = c[k].before
             /\ c'[k].channel = c[k].channel /\ c'[k].i = c[k].i /\ c'[k].calls = c[k].calls
             /\ c'[k].first = c[k].first
             /\ c'[k].left = IF c[k].channel = ch THEN TRUE ELSE c[k].left
    <2>1. c'[k] = IF c[k].channel = ch THEN [c[k] EXCEPT !.left = TRUE] ELSE c[k]
        BY <1>1 DEF Left
    <2>2. c[k] \in Activation
        BY <1>1, Typed
    <2> QED
        BY <2>1, <2>2 DEF Activation
<1>3. c \in Seq(Activation) /\ Len(c) \in Nat /\ DOMAIN c = 1 .. Len(c)
    BY <1>1, Typed
<1>4. c' \in Seq(Activation) /\ Len(c') = Len(c) /\ DOMAIN c' = DOMAIN c
    <2>m. PICK m : m = Len(c)
        OBVIOUS
    <2>1. m \in Nat /\ DOMAIN c = 1 .. m
        BY <1>3, <2>m
    <2>2. DOMAIN c' = 1 .. m /\ c' = [k \in 1 .. m |-> c'[k]]
        BY <1>1, <2>1 DEF Left
    <2>3. \A k \in 1 .. m : c'[k] \in Activation
        BY <1>2, <2>1
    <2>4. c' \in Seq(Activation)
        BY <2>1, <2>2, <2>3
    <2>5. Len(c') = m
        BY <2>1, <2>2, <2>4
    <2> QED
        BY <2>m, <2>1, <2>2, <2>4, <2>5
<1>5. MachineInv'
    BY <1>1, <1>2, <1>4, NativeKeeps DEF MachineInv
<1>6. /\ ChannelTypes' /\ PinnedWhileSubscribed' /\ DOMAIN channels' = DOMAIN channels
      /\ \A x \in DOMAIN channels : x # ch => channels'[x] = channels[x]
    BY <1>1, UnsubscribeKeeps
<1>7. ASSUME NEW k \in DOMAIN c PROVE Serving(c'[k], channels')
    <2>1. Serving(c[k], channels)
        BY <1>1 DEF CalledInOrder
    <2>2. CASE c[k].channel = ch
        BY <1>2, <1>6, <2>1, <2>2 DEF Serving
    <2>3. CASE c[k].channel # ch
        BY <1>2, <1>6, <2>1, <2>3 DEF Serving
    <2> QED
        BY <2>2, <2>3
<1>8. CalledInOrder'
    BY <1>4, <1>7 DEF CalledInOrder
<1> QED
    BY <1>2, <1>4, <1>5, <1>6, <1>8 DEF ChannelInv

LEMMA PublishStep ==
    ASSUME MachineInv, ChannelInv, NEW ch \in Channels, native_pubsub_publish(ch)
    PROVE  /\ MachineInv' /\ ChannelInv' /\ Running /\ ~had_error
           /\ c \in Seq(Activation) /\ c' \in Seq(Activation) /\ Len(c') = Len(c) + 1
           /\ \A k \in DOMAIN c : c'[k] = c[k]
           /\ c'[Len(c) + 1].name = "publish"
<1> DEFINE first == channels[ch]
<1> DEFINE f == first[1]
<1> DEFINE act == [Waiting("publish", 2) EXCEPT !.channel = ch, !.first = first, !.i = 1,
                                                !.calls = <<f>>]
<1>1. RtTypes /\ WaitingInOrder /\ FramesHeld /\ ChannelTypes /\ CalledInOrder /\ Running /\ ~had_error
    BY DEF MachineInv, ChannelInv, native_pubsub_publish, Step
<1>2. /\ ch \in DOMAIN channels /\ first \in Seq(Callbacks) /\ Len(first) \in Nat
      /\ DOMAIN first = 1 .. Len(first) /\ first # <<>>
    <2>1. ch \in DOMAIN channels /\ first # <<>>
        BY DEF native_pubsub_publish, Subscribers
    <2> QED
        BY <1>1, <2>1, ChannelsTyped
<1>3. f \in Callbacks /\ 1 <= Len(first)
    BY <1>2
<1>4. vm_call(top + 3, f, 1, c, act)
    <2>1. Deliver(top + 3, c, [Waiting("publish", 2) EXCEPT !.channel = ch, !.first = channels[ch]], 1)
        BY DEF native_pubsub_publish
    <2>2. Waiting("publish", 2).calls = <<>> /\ Waiting("publish", 2) \in Activation
        BY WaitingTyped
    <2>3. PICK v : v = Waiting("publish", 2)
        OBVIOUS
    <2>4. PICK w : w = [v EXCEPT !.channel = ch, !.first = channels[ch]]
        OBVIOUS
    <2>5. w.channel = ch /\ w.calls = <<>>
        BY <2>2, <2>3, <2>4 DEF Activation
    <2>6. Append(w.calls, f) = <<f>>
        BY <1>3, <2>5
    <2>7. vm_call(top + 3, f, 1, c, [w EXCEPT !.i = 1, !.calls = <<f>>])
        BY <2>1, <2>3, <2>4, <2>5, <2>6 DEF Deliver
    <2>8. [w EXCEPT !.i = 1, !.calls = <<f>>] = act
        BY <2>2, <2>3, <2>4 DEF Activation
    <2> QED
        BY <2>7, <2>8
<1>5. /\ act \in Activation /\ act.name = "publish" /\ act.args = 2 /\ act.channel = ch /\ act.first = first
      /\ act.i = 1 /\ act.calls = <<f>> /\ act.left = FALSE
    <2>1. Waiting("publish", 2) \in Activation /\ Waiting("publish", 2).name = "publish"
          /\ Waiting("publish", 2).args = 2 /\ Waiting("publish", 2).left = FALSE
        BY WaitingTyped
    <2>2. <<f>> \in Seq(Callbacks)
        BY <1>3
    <2> HIDE DEF f, first
    <2> QED
        BY <1>2, <2>1, <2>2 DEF Activation
<1>6. <<f>> = act.calls /\ Len(<<f>>) = 1 /\ DOMAIN <<f>> = {1} /\ <<f>>[1] = first[1]
    BY <1>5
<1> HIDE DEF act, f, first
<1>7. Serving(act, channels)
    <2>1. Begins(act.calls, first)
        BY <1>2, <1>3, <1>6 DEF Begins
    <2>2. Begins(act.first, first)
        BY <1>2, <1>5 DEF Begins
    <2> QED
        BY <1>2, <1>5, <1>6, <2>1, <2>2 DEF Serving, first
<1>8. top + 3 \in Int /\ top + 3 = top + act.args + 1 /\ c \in Seq(Activation) /\ Len(c) \in Nat /\ DOMAIN c = 1 .. Len(c)
    BY <1>1, <1>5, Typed
<1>9. MachineInv'
    BY <1>1, <1>3, <1>4, <1>5, <1>8, CallKeeps DEF MachineInv
<1>10. /\ c' \in Seq(Activation) /\ Len(c') = Len(c) + 1 /\ DOMAIN c' = 1 .. (Len(c) + 1)
       /\ \A j \in 1 .. Len(c) : c'[j] = c[j]
       /\ c'[Len(c) + 1].name = act.name /\ c'[Len(c) + 1].i = act.i /\ c'[Len(c) + 1].channel = act.channel
       /\ c'[Len(c) + 1].calls = act.calls /\ c'[Len(c) + 1].first = act.first
       /\ c'[Len(c) + 1].left = act.left
    BY <1>1, <1>3, <1>4, <1>5, <1>8, CallPushes
<1>11. ChannelInv'
    <2>1. Serving(c'[Len(c) + 1], channels)
        BY <1>7, <1>10, ServingSame
    <2>2. \A k \in DOMAIN c' : (k \in DOMAIN c /\ c'[k] = c[k]) \/ Serving(c'[k], channels)
        <3>1. \A k \in 1 .. (Len(c) + 1) : k \in 1 .. Len(c) \/ k = Len(c) + 1
            BY <1>8
        <3> QED
            BY <1>8, <1>10, <2>1, <3>1
    <2>3. UNCHANGED pubsub
        BY DEF native_pubsub_publish
    <2> QED
        BY <2>2, <2>3, ChannelsKept
<1> QED
    BY <1>1, <1>5, <1>8, <1>9, <1>10, <1>11

\* Publish calls its next subscriber.
LEMMA PublishNextStep ==
    ASSUME MachineInv, ChannelInv, publish_next
    PROVE  /\ MachineInv' /\ ChannelInv'
           /\ c \in Seq(Activation) /\ c # <<>> /\ c' \in Seq(Activation) /\ Len(c') = Len(c)
           /\ \A k \in DOMAIN c : k # Len(c) => c'[k] = c[k]
           /\ c'[Len(c)].name = "publish" /\ c[Len(c)].name = "publish"
<1> DEFINE list == channels[Caller.channel]
<1> DEFINE i == Caller.i + 1
<1> DEFINE f == list[i]
<1> DEFINE act == [Caller EXCEPT !.i = i, !.calls = Append(Caller.calls, f)]
<1>1. /\ RtTypes /\ WaitingInOrder /\ FramesHeld /\ ChannelTypes /\ CalledInOrder
      /\ c # <<>> /\ result # "none" /\ Caller.name = "publish" /\ Caller.i < Len(list)
      /\ vm_call(top, f, 1, Front(c), act)
    BY DEF MachineInv, ChannelInv, publish_next, Publishing, MoreSubscribers, Deliver
<1>2. /\ c \in Seq(Activation) /\ Len(c) \in Nat /\ DOMAIN c = 1 .. Len(c) /\ Len(c) \in DOMAIN c
      /\ Caller = c[Len(c)] /\ Caller \in Activation /\ top \in Int
    BY <1>1, Typed
<1>3. Serving(Caller, channels)
    BY <1>1, <1>2 DEF CalledInOrder
<1>4. /\ Caller.channel \in DOMAIN channels /\ list \in Seq(Callbacks) /\ Len(list) \in Nat
      /\ DOMAIN list = 1 .. Len(list) /\ i \in 1 .. Len(list) /\ Caller.i \in Nat
      /\ Caller.calls \in Seq(Callbacks)
    <2>1. Caller.channel \in DOMAIN channels /\ Caller.i \in Nat /\ Caller.calls \in Seq(Callbacks)
        BY <1>1, <1>2, <1>3, Fields DEF Serving
    <2>2. list \in Seq(Callbacks) /\ Len(list) \in Nat /\ DOMAIN list = 1 .. Len(list)
        BY <1>1, <2>1, ChannelsTyped
    <2> QED
        BY <1>1, <2>1, <2>2
<1>5. f \in Callbacks
    BY <1>4
<1> HIDE DEF f
<1>6. /\ act \in Activation /\ act.name = "publish" /\ act.args = Caller.args /\ act.channel = Caller.channel
      /\ act.first = Caller.first /\ act.i = Caller.i + 1 /\ act.calls = Append(Caller.calls, f)
      /\ act.left = Caller.left
    <2>1. Append(Caller.calls, f) \in Seq(Callbacks) /\ i \in Nat
        BY <1>4, <1>5
    <2> QED
        BY <1>1, <1>2, <2>1 DEF Activation
<1> HIDE DEF act
<1>7. Serving(act, channels)
    <2> SUFFICES ASSUME ~Caller.left
                 PROVE  /\ Len(act.calls) = act.i
                        /\ Begins(act.calls, list) /\ Begins(act.first, list)
        BY <1>4, <1>6 DEF Serving
    <2>1. Len(Caller.calls) = Caller.i /\ Begins(Caller.calls, list) /\ Begins(Caller.first, list)
        BY <1>1, <1>3 DEF Serving
    <2>2. PICK s : s = Append(Caller.calls, f)
        OBVIOUS
    <2>3. /\ Len(s) = Caller.i + 1 /\ DOMAIN s = 1 .. (Caller.i + 1) /\ s[Caller.i + 1] = f
          /\ \A q \in 1 .. Caller.i : s[q] = Caller.calls[q]
        BY <1>4, <1>5, <2>1, <2>2, AppendFacts
    <2>4. DOMAIN Caller.calls = 1 .. Caller.i
        BY <1>4, <2>1
    <2>5. Begins(s, list)
        <3>1. Len(s) <= Len(list)
            BY <1>4, <2>3
        <3>2. ASSUME NEW q \in DOMAIN s PROVE s[q] = list[q]
            <4>1. q \in 1 .. Caller.i \/ q = Caller.i + 1
                BY <1>4, <2>3
            <4>2. CASE q \in 1 .. Caller.i
                BY <2>1, <2>3, <2>4, <4>2 DEF Begins
            <4>3. CASE q = Caller.i + 1
                BY <2>3, <4>3 DEF f
            <4> QED
                BY <4>1, <4>2, <4>3
        <3> QED
            BY <3>1, <3>2 DEF Begins
    <2> QED
        BY <1>6, <2>1, <2>2, <2>3, <2>5
<1>8. MachineInv'
    BY <1>1, <1>2, <1>5, <1>6, CallAgainKeeps DEF MachineInv
<1>m. PICK m : m = Len(c)
    OBVIOUS
<1>n. m \in Nat /\ m - 1 + 1 = m
    BY <1>2, <1>m
<1>9. /\ Front(c) \in Seq(Activation) /\ Len(Front(c)) = m - 1
      /\ \A q \in 1 .. (m - 1) : Front(c)[q] = c[q]
    BY <1>1, <1>2, <1>m, FrontFacts
<1>10. /\ c' \in Seq(Activation) /\ Len(c') = m /\ DOMAIN c' = 1 .. m
       /\ \A j \in 1 .. (m - 1) : c'[j] = c[j]
       /\ c'[m].name = act.name /\ c'[m].i = act.i /\ c'[m].channel = act.channel
       /\ c'[m].calls = act.calls /\ c'[m].first = act.first /\ c'[m].left = act.left
    <2>1. /\ c' \in Seq(Activation) /\ Len(c') = m /\ DOMAIN c' = 1 .. m
          /\ \A j \in 1 .. (m - 1) : c'[j] = Front(c)[j]
          /\ c'[m].name = act.name /\ c'[m].i = act.i /\ c'[m].channel = act.channel
          /\ c'[m].calls = act.calls /\ c'[m].first = act.first /\ c'[m].left = act.left
        <3>1. PICK below : below = Front(c)
            OBVIOUS
        <3>2. RtTypes /\ top \in Int /\ 1 \in Nat /\ below \in Seq(Activation)
              /\ f \in Callbacks /\ act \in Activation
            BY <1>1, <1>2, <1>5, <1>6, <1>9, <3>1 DEF MachineInv
        <3>3. vm_call(top, f, 1, below, act)
            BY <1>1, <3>1
        <3>4. LET k == Len(below) + 1 IN
              /\ c' \in Seq(Activation) /\ Len(c') = k /\ DOMAIN c' = 1 .. k
              /\ \A j \in 1 .. Len(below) : c'[j] = below[j]
              /\ c'[k].name = act.name /\ c'[k].i = act.i /\ c'[k].channel = act.channel
              /\ c'[k].calls = act.calls /\ c'[k].first = act.first /\ c'[k].left = act.left
            BY <3>2, <3>3, CallPushes
        <3>5. Len(below) + 1 = m /\ Len(below) = m - 1
            BY <1>9, <1>n, <3>1
        <3> QED
            BY <3>1, <3>4, <3>5
    <2> QED
        BY <1>9, <2>1
<1>11. \A k \in 1 .. m : k # m => k \in 1 .. (m - 1)
    BY <1>n
<1>12. ChannelInv'
    <2>1. Serving(c'[m], channels)
        BY <1>7, <1>10, ServingSame
    <2>2. \A k \in DOMAIN c' : (k \in DOMAIN c /\ c'[k] = c[k]) \/ Serving(c'[k], channels)
        BY <1>2, <1>m, <1>10, <1>11, <2>1
    <2>3. UNCHANGED pubsub
        BY DEF publish_next
    <2> QED
        BY <2>2, <2>3, ChannelsKept
<1> QED
    BY <1>1, <1>2, <1>6, <1>8, <1>10, <1>11, <1>12, <1>m

\* A C function returns to vek code.
LEMMA ReturnStep ==
    ASSUME MachineInv, ChannelInv, c # <<>>, result # "none", Caller.name # "handler", NativeEnds,
           UNCHANGED pubsub
    PROVE  /\ MachineInv' /\ ChannelInv'
           /\ DOMAIN c = 1 .. Len(c) /\ Len(c) \in Nat \ {0} /\ DOMAIN c' = 1 .. (Len(c) - 1)
           /\ \A k \in DOMAIN c' : k \in DOMAIN c /\ c'[k] = c[k]
<1>1. RtTypes /\ WaitingInOrder /\ FramesHeld
    BY DEF MachineInv
<1>2. /\ RtTypes' /\ WaitingInOrder' /\ FramesHeld'
      /\ Len(c) - 1 \in Nat /\ DOMAIN c = 1 .. Len(c) /\ DOMAIN c' = 1 .. (Len(c) - 1)
      /\ \A k \in 1 .. (Len(c) - 1) : c'[k] = c[k]
    BY <1>1, ReturnKeeps
<1>3. Len(c) \in Nat \ {0} /\ \A k \in DOMAIN c' : k \in DOMAIN c /\ c'[k] = c[k]
    <2>1. Len(c) \in Nat
        BY <1>1, Typed
    <2> QED
        BY <1>2, <2>1
<1>4. ChannelInv'
    BY <1>3, ChannelsKept
<1> QED
    BY <1>2, <1>3, <1>4 DEF MachineInv

LEMMA ServedWhenDone ==
    ASSUME MachineInv, ChannelInv
    PROVE  SubscribersServed
<1> SUFFICES ASSUME Publishing, ~MoreSubscribers, ~Caller.left
             PROVE  Caller.calls = channels[Caller.channel] /\ IsPrefix(Caller.first, Caller.calls)
    BY DEF SubscribersServed
<1>1. RtTypes /\ ChannelTypes /\ CalledInOrder /\ c # <<>> /\ Caller.name = "publish"
    BY DEF MachineInv, ChannelInv, Publishing
<1>2. Caller \in Activation /\ Serving(Caller, channels)
    BY <1>1, Typed DEF CalledInOrder
<1> DEFINE list == channels[Caller.channel]
<1>3. /\ Caller.calls \in Seq(Callbacks) /\ Caller.first \in Seq(Callbacks) /\ Caller.i \in Nat
      /\ Caller.channel \in DOMAIN channels
      /\ Len(Caller.calls) = Caller.i /\ Begins(Caller.calls, list) /\ Begins(Caller.first, list)
    BY <1>1, <1>2, Fields DEF Serving
<1>4. list \in Seq(Callbacks) /\ Len(list) \in Nat
    BY <1>1, <1>3, ChannelsTyped
<1>5. Len(list) <= Caller.i
    BY <1>3, <1>4 DEF MoreSubscribers
<1> HIDE DEF list
<1>6. Len(Caller.calls) = Len(list)
    BY <1>3, <1>4, <1>5 DEF Begins
<1>7. Caller.calls = list
    <2>1. \A q \in 1 .. Len(list) : Caller.calls[q] = list[q]
        BY <1>3, <1>4, <1>6 DEF Begins
    <2> QED
        BY <1>3, <1>4, <1>6, <2>1, SeqEqual
<1>8. IsPrefix(Caller.first, Caller.calls)
    <2>1. Len(Caller.first) <= Len(list) /\ \A q \in 1 .. Len(Caller.first) : Caller.first[q] = list[q]
        BY <1>3 DEF Begins
    <2>2. Len(Caller.first) \in Nat
        BY <1>3
    <2> DEFINE s == SubSeq(list, 1, Len(Caller.first))
    <2>3. s \in Seq(Callbacks) /\ Len(s) = Len(Caller.first) /\ \A q \in 1 .. Len(Caller.first) : s[q] = list[q]
        BY <1>4, <2>1, <2>2
    <2>4. Caller.first = s
        BY <1>3, <2>1, <2>3, SeqEqual
    <2> QED
        BY <1>7, <2>1, <2>4 DEF IsPrefix
<1> QED
    BY <1>7, <1>8 DEF list

-----------------------------------------------------------------------------
(* The transactions.                                                       *)

LEMMA OutcomeSet ==
    ASSUME NEW s \in Seq(Transaction), NEW i, NEW o \in {"ok", "error"}, NEW t,
           t = [s EXCEPT ![i].outcome = o]
    PROVE  \A j \in DOMAIN s : /\ t[j].writes = s[j].writes
                               /\ j = i => t[j].outcome = o
                               /\ j # i => t[j].outcome = s[j].outcome
<1>1. \A j \in DOMAIN s : s[j] \in Transaction
    OBVIOUS
<1>2. \A j \in DOMAIN s : t[j] = IF j = i THEN [s[j] EXCEPT !.outcome = o] ELSE s[j]
    OBVIOUS
<1> QED
    BY <1>1, <1>2 DEF Transaction

LEMMA OutcomeTyped ==
    ASSUME NEW s \in Seq(Transaction), NEW i, NEW o \in {"ok", "error"}, NEW t,
           t = [s EXCEPT ![i].outcome = o]
    PROVE  t \in Seq(Transaction) /\ DOMAIN t = DOMAIN s
<1>1. \A j \in DOMAIN s : t[j] \in Transaction
    <2>1. \A j \in DOMAIN s : s[j] \in Transaction
        OBVIOUS
    <2>2. \A j \in DOMAIN s : t[j] = IF j = i THEN [s[j] EXCEPT !.outcome = o] ELSE s[j]
        OBVIOUS
    <2> QED
        BY <2>1, <2>2 DEF Transaction
<1>2. DOMAIN t = DOMAIN s /\ t = [j \in DOMAIN s |-> t[j]]
    OBVIOUS
<1>n. PICK n : n = Len(s)
    OBVIOUS
<1>3. n \in Nat /\ DOMAIN s = 1 .. n
    BY <1>n
<1>4. t \in [1 .. n -> Transaction]
    BY <1>1, <1>2, <1>3
<1>5. t \in Seq(Transaction)
    BY <1>3, <1>4, SequenceOf
<1> QED
    BY <1>2, <1>5

LEMMA WriteAdded ==
    ASSUME NEW s \in Seq(Transaction), NEW i, NEW w \in Nat, NEW t,
           t = [s EXCEPT ![i].writes = @ \cup {w}]
    PROVE  /\ t \in Seq(Transaction) /\ DOMAIN t = DOMAIN s
           /\ \A j \in DOMAIN s : /\ j = i => t[j].writes = s[j].writes \cup {w}
                                 /\ j # i => t[j].writes = s[j].writes
                                 /\ t[j].outcome = s[j].outcome
<1>1. \A j \in DOMAIN s : s[j] \in Transaction
    OBVIOUS
<1>2. /\ DOMAIN t = DOMAIN s
      /\ \A j \in DOMAIN s : t[j] = IF j = i THEN [s[j] EXCEPT !.writes = s[j].writes \cup {w}] ELSE s[j]
    OBVIOUS
<1>3. ASSUME NEW j \in DOMAIN s
      PROVE  /\ t[j] \in Transaction /\ t[j].outcome = s[j].outcome
             /\ j = i => t[j].writes = s[j].writes \cup {w}
             /\ j # i => t[j].writes = s[j].writes
    BY <1>1, <1>2 DEF Transaction
<1>n. PICK n : n = Len(s)
    OBVIOUS
<1>4. n \in Nat /\ DOMAIN s = 1 .. n
    BY <1>n
<1>5. t \in [1 .. n -> Transaction]
    <2>1. \A j \in 1 .. n : t[j] \in Transaction
        BY <1>3, <1>4
    <2> QED
        BY <1>4, <2>1
<1>6. t \in Seq(Transaction)
    BY <1>4, <1>5, SequenceOf
<1> QED
    BY <1>2, <1>3, <1>6

LEMMA DbTyped ==
    ASSUME DbTypes
    PROVE  /\ db_conn \in BOOLEAN /\ in_transaction \in BOOLEAN /\ sqlite \in BOOLEAN /\ broken \in BOOLEAN
           /\ writes \in Nat /\ pending \in SUBSET Nat /\ stored \in SUBSET Nat
           /\ tx \in Seq(Transaction) /\ Len(tx) \in Nat /\ DOMAIN tx = 1 .. Len(tx)
           /\ \A i \in DOMAIN tx : tx[i].writes \in SUBSET Nat /\ tx[i].outcome \in {"open", "ok", "error"}
<1>1. tx \in Seq(Transaction)
    BY DEF DbTypes
<1>2. Len(tx) \in Nat /\ DOMAIN tx = 1 .. Len(tx) /\ \A i \in DOMAIN tx : tx[i] \in Transaction
    BY <1>1
<1> QED
    BY <1>1, <1>2 DEF DbTypes, Transaction

\* A step that touches neither the database nor a transaction.
LEMMA DatabaseKept ==
    ASSUME DatabaseInv, UNCHANGED db, InTransaction' = InTransaction,
           \A k \in InTransaction : c'[k].i = c[k].i /\ c'[k].closure = c[k].closure
    PROVE  DatabaseInv'
<1>1. /\ db_conn' = db_conn /\ in_transaction' = in_transaction /\ sqlite' = sqlite /\ pending' = pending
      /\ stored' = stored /\ writes' = writes /\ tx' = tx /\ broken' = broken
    BY DEF db, connection, contents
<1>2. DbTypes' /\ TransactionsAtomic'
    BY <1>1 DEF DatabaseInv, DbTypes, TransactionsAtomic
<1>3. OneTransaction'
    <2> SUFFICES ASSUME ~broken PROVE OneTransaction'
        BY <1>1 DEF OneTransaction
    <2> QED
        BY <1>1 DEF DatabaseInv, OneTransaction
<1> QED
    BY <1>2, <1>3 DEF DatabaseInv

\* The same, for steps that only push, pop or replace C functions that are no
\* transactions.
LEMMA NoTransactionMoves ==
    ASSUME DatabaseInv, UNCHANGED db,
           \A k \in DOMAIN c' : c'[k].name = "transaction" => k \in DOMAIN c /\ c[k].name = "transaction",
           \A k \in DOMAIN c : c[k].name = "transaction" =>
               k \in DOMAIN c' /\ c'[k].name = "transaction" /\ c'[k].i = c[k].i /\ c'[k].closure = c[k].closure
    PROVE  DatabaseInv'
<1>1. InTransaction' = InTransaction
    BY DEF InTransaction
<1>2. \A k \in InTransaction : c'[k].i = c[k].i /\ c'[k].closure = c[k].closure
    BY DEF InTransaction
<1> QED
    BY <1>1, <1>2, DatabaseKept

LEMMA ConnectionStep ==
    ASSUME DatabaseInv, native_db_connect \/ native_db_close
    PROVE  DatabaseInv'
<1>1. /\ pending' = {} /\ sqlite' = FALSE /\ in_transaction' = FALSE /\ db_conn' \in BOOLEAN
      /\ broken' = (broken \/ InTransaction # {})
      /\ c' = c /\ stored' = stored /\ writes' = writes /\ tx' = tx
    BY DEF native_db_connect, native_db_close, Disconnected
<1>2. DbTypes' /\ broken \in BOOLEAN
    <2> DEFINE b == InTransaction # {}
    <2>1. b \in BOOLEAN
        OBVIOUS
    <2>2. broken \in BOOLEAN
        BY DbTyped DEF DatabaseInv
    <2>3. broken' \in BOOLEAN
        BY <1>1, <2>1, <2>2
    <2> QED
        BY <1>1, <2>2, <2>3 DEF DatabaseInv, DbTypes
<1>3. ASSUME ~broken' PROVE OneTransaction' /\ TransactionsAtomic'
    <2>1. ~broken /\ InTransaction = {} /\ InTransaction' = {}
        BY <1>1, <1>2, <1>3 DEF InTransaction
    <2>2. OneTransaction'
        BY <1>1, <2>1 DEF DatabaseInv, OneTransaction
    <2>3. TransactionsAtomic'
        BY <1>1, <2>1 DEF DatabaseInv, TransactionsAtomic
    <2> QED
        BY <2>2, <2>3
<1>4. OneTransaction' /\ TransactionsAtomic'
    BY <1>3 DEF OneTransaction, TransactionsAtomic
<1> QED
    BY <1>2, <1>4 DEF DatabaseInv

\* The transaction that is open, if one is.
LEMMA TheTransaction ==
    ASSUME OneTransaction, ~broken, NEW k \in InTransaction
    PROVE  InTransaction = {k} /\ Max(InTransaction) = k
<1>1. InTransaction = {k}
    BY DEF OneTransaction
<1>2. Max({k}) = k
    BY DEF Max
<1> QED
    BY <1>1, <1>2

\* A write is added to the open transaction, or stored at once.
LEMMA ExecStep ==
    ASSUME MachineInv, DatabaseInv, native_db_exec
    PROVE  DatabaseInv'
<1>w. PICK w : w = writes + 1
    OBVIOUS
<1>1. /\ c' = c /\ writes' = w /\ db_conn' = db_conn /\ in_transaction' = in_transaction /\ sqlite' = sqlite
      /\ broken' = broken
      /\ IF sqlite THEN pending' = pending \cup {w} /\ stored' = stored
         ELSE stored' = stored \cup {w} /\ pending' = pending
      /\ tx' = IF InTransaction = {} THEN tx
               ELSE [tx EXCEPT ![c[Max(InTransaction)].i].writes = @ \cup {w}]
      /\ result = "none"
    BY <1>w DEF native_db_exec, connection, Step, Running
<1>2. /\ db_conn \in BOOLEAN /\ in_transaction \in BOOLEAN /\ sqlite \in BOOLEAN /\ broken \in BOOLEAN
      /\ writes \in Nat /\ pending \in SUBSET Nat /\ stored \in SUBSET Nat /\ tx \in Seq(Transaction)
    BY DbTyped DEF DatabaseInv
<1>3. /\ w \in Nat /\ 1 .. w = (1 .. writes) \cup {w} /\ w \notin 1 .. writes
    BY <1>2, <1>w
<1>4. tx' \in Seq(Transaction)
    BY <1>1, <1>2, <1>3, WriteAdded
<1>5. DbTypes'
    <2>1. pending' \in SUBSET Nat /\ stored' \in SUBSET Nat
        BY <1>1, <1>2, <1>3
    <2> QED
        BY <1>1, <1>2, <1>3, <1>4, <2>1 DEF DbTypes
<1>6. ASSUME ~broken PROVE OneTransaction' /\ TransactionsAtomic'
    <2>1. /\ sqlite = in_transaction /\ (in_transaction => db_conn)
          /\ in_transaction <=> InTransaction # {}
          /\ \A j, k \in InTransaction : j = k
          /\ ~in_transaction => pending = {}
          /\ stored \cup pending \subseteq 1 .. writes
          /\ \A i \in DOMAIN tx :
                /\ tx[i].writes \subseteq 1 .. writes
                /\ tx[i].outcome = "open" => tx[i].writes \cap stored = {}
          /\ \A i, j \in DOMAIN tx : i # j => tx[i].writes \cap tx[j].writes = {}
        BY <1>6 DEF DatabaseInv, OneTransaction
    <2>2. /\ \A i \in DOMAIN tx :
                /\ tx[i].outcome = "ok" => tx[i].writes \subseteq stored
                /\ tx[i].outcome = "error" => tx[i].writes \cap stored = {}
          /\ (1 .. writes) \ UNION {tx[i].writes : i \in DOMAIN tx} \subseteq stored
        BY <1>6 DEF DatabaseInv, TransactionsAtomic
    <2>3. InTransaction' = InTransaction
        BY <1>1 DEF InTransaction
    <2>4. w \notin stored /\ w \notin pending /\ \A i \in DOMAIN tx : w \notin tx[i].writes
        BY <1>3, <2>1
    <2>5. CASE InTransaction = {}
        <3>1. stored' = stored \cup {w} /\ pending' = pending /\ tx' = tx /\ pending = {} /\ ~in_transaction
            BY <1>1, <2>1, <2>5
        <3>2. OneTransaction'
            <4>1. \A i \in DOMAIN tx :
                      /\ tx[i].writes \subseteq 1 .. w
                      /\ tx[i].outcome = "open" => tx[i].writes \cap (stored \cup {w}) = {}
                BY <1>3, <2>1, <2>4
            <4>2. stored' \cup pending' \subseteq 1 .. w
                BY <1>3, <2>1, <3>1
            <4> QED
                BY <1>1, <2>1, <2>3, <2>5, <3>1, <4>1, <4>2 DEF OneTransaction
        <3>3. TransactionsAtomic'
            <4>1. \A i \in DOMAIN tx :
                      /\ tx[i].outcome = "ok" => tx[i].writes \subseteq stored \cup {w}
                      /\ tx[i].outcome = "error" => tx[i].writes \cap (stored \cup {w}) = {}
                BY <2>2, <2>4
            <4>2. (1 .. w) \ UNION {tx[i].writes : i \in DOMAIN tx} \subseteq stored \cup {w}
                BY <1>3, <2>2
            <4> QED
                BY <1>1, <2>1, <3>1, <4>1, <4>2 DEF TransactionsAtomic
        <3> QED
            BY <3>2, <3>3
    <2>6. CASE InTransaction # {}
        <3>1. PICK k : k \in InTransaction
            BY <2>6
        <3>2. InTransaction = {k} /\ Max(InTransaction) = k
            BY <1>6, <3>1, TheTransaction DEF DatabaseInv
        <3>3. PICK n : n = c[k].i
            OBVIOUS
        <3>4. n \in DOMAIN tx /\ tx[n].outcome = "open" /\ pending = tx[n].writes
            BY <1>6, <3>1, <3>3 DEF DatabaseInv, OneTransaction
        <3>5. pending' = pending \cup {w} /\ stored' = stored /\ in_transaction /\ sqlite
            BY <1>1, <2>1, <2>6
        <3>6. tx' = [tx EXCEPT ![n].writes = @ \cup {w}]
            BY <1>1, <2>6, <3>2, <3>3
        <3>7. /\ DOMAIN tx' = DOMAIN tx
              /\ \A j \in DOMAIN tx :
                    /\ tx'[j].writes = IF j = n THEN tx[j].writes \cup {w} ELSE tx[j].writes
                    /\ tx'[j].outcome = tx[j].outcome
            <4>1. tx \in Seq(Transaction) /\ w \in Nat
                BY <1>2, <1>3
            <4>2. DOMAIN tx' = DOMAIN tx
                BY <3>6, <4>1, WriteAdded
            <4>3. \A j \in DOMAIN tx : tx'[j].outcome = tx[j].outcome
                BY <3>6, <4>1, WriteAdded
            <4>4. ASSUME NEW j \in DOMAIN tx
                  PROVE  /\ j = n => tx'[j].writes = tx[j].writes \cup {w}
                         /\ j # n => tx'[j].writes = tx[j].writes
                BY <3>6, <4>1, WriteAdded
            <4> QED
                BY <4>2, <4>3, <4>4
        <3>8. c[k].closure
            <4>1. k \in DOMAIN c
                BY <3>1 DEF InTransaction
            <4> QED
                BY <1>1, <4>1 DEF MachineInv, WaitingInOrder
        <3>9. OneTransaction'
            <4>1. \A i \in DOMAIN tx' :
                      /\ tx'[i].writes \subseteq 1 .. w
                      /\ tx'[i].outcome = "open" => tx'[i].writes \cap stored = {}
                BY <1>3, <2>1, <2>4, <3>7, ZenonT(40)
            <4>2. ASSUME NEW i \in DOMAIN tx', NEW j \in DOMAIN tx', i # j
                  PROVE  tx'[i].writes \cap tx'[j].writes = {}
                <5>1. tx[i].writes \cap tx[j].writes = {} /\ w \notin tx[i].writes /\ w \notin tx[j].writes
                    BY <2>1, <2>4, <3>7, <4>2
                <5>2. /\ tx'[i].writes = IF i = n THEN tx[i].writes \cup {w} ELSE tx[i].writes
                      /\ tx'[j].writes = IF j = n THEN tx[j].writes \cup {w} ELSE tx[j].writes
                    BY <3>7
                <5> QED
                    BY <4>2, <5>1, <5>2
            <4>3. stored' \cup pending' \subseteq 1 .. w
                BY <1>3, <2>1, <3>5
            <4>4. tx'[n].outcome = "open" /\ pending' = tx'[n].writes /\ n \in DOMAIN tx'
                BY <3>4, <3>5, <3>7
            <4>5. \A q \in InTransaction : c[q].i = n /\ c[q].closure
                BY <3>2, <3>3, <3>8
            <4> QED
                BY <1>1, <2>1, <2>3, <3>5, <4>1, <4>2, <4>3, <4>4, <4>5 DEF OneTransaction
        <3>10. TransactionsAtomic'
            <4>1. \A i \in DOMAIN tx' :
                      /\ tx'[i].outcome = "ok" => tx'[i].writes \subseteq stored
                      /\ tx'[i].outcome = "error" => tx'[i].writes \cap stored = {}
                BY <2>2, <2>4, <3>4, <3>7
            <4>2. (1 .. w) \ UNION {tx'[i].writes : i \in DOMAIN tx'} \subseteq stored
                <5> SUFFICES ASSUME NEW x \in 1 .. w, x \notin stored
                             PROVE  \E i \in DOMAIN tx' : x \in tx'[i].writes
                    OBVIOUS
                <5>1. CASE x = w
                    BY <3>4, <3>7, <5>1
                <5>2. CASE x # w
                    <6>1. x \in UNION {tx[i].writes : i \in DOMAIN tx}
                        BY <1>3, <2>2, <5>2
                    <6> QED
                        BY <3>7, <6>1
                <5> QED
                    BY <5>1, <5>2
            <4> QED
                BY <1>1, <2>1, <3>5, <4>1, <4>2 DEF TransactionsAtomic
        <3> QED
            BY <3>9, <3>10
    <2> QED
        BY <2>5, <2>6
<1>7. OneTransaction' /\ TransactionsAtomic'
    BY <1>1, <1>6 DEF OneTransaction, TransactionsAtomic
<1> QED
    BY <1>5, <1>7 DEF DatabaseInv

LEMMA TransactionStep ==
    ASSUME MachineInv, ChannelInv, DatabaseInv, NEW f \in Callbacks, native_db_transaction(f)
    PROVE  MachineInv' /\ ChannelInv' /\ DatabaseInv'
<1>1. /\ RtTypes /\ WaitingInOrder /\ FramesHeld /\ Running /\ ~had_error /\ Step
      /\ UNCHANGED pubsub
    BY DEF MachineInv, native_db_transaction, Step
<1>2. CASE Native(1) /\ UNCHANGED <<c, db>>
    <2>1. MachineInv'
        BY <1>1, <1>2, PlainNativeKeeps
    <2>2. ChannelInv'
        BY <1>1, <1>2, ChannelsKept
    <2>3. DatabaseInv'
        BY <1>2, NoTransactionMoves
    <2> QED
        BY <2>1, <2>2, <2>3
<1>3. CASE ~(Native(1) /\ UNCHANGED <<c, db>>)
    <2> DEFINE act == [Waiting("transaction", 1) EXCEPT !.i = Len(tx) + 1]
    <2> DEFINE new == [writes |-> {}, outcome |-> "open"]
    <2>1. /\ db_conn /\ ~in_transaction /\ ~sqlite /\ in_transaction' = TRUE /\ sqlite' = TRUE
          /\ tx' = Append(tx, new) /\ vm_call(top + 2, f, 0, c, act)
          /\ db_conn' = db_conn /\ pending' = pending /\ stored' = stored /\ writes' = writes
          /\ broken' = broken
        BY <1>3 DEF native_db_transaction, contents
    <2>2. /\ db_conn \in BOOLEAN /\ broken \in BOOLEAN /\ writes \in Nat /\ pending \in SUBSET Nat
          /\ stored \in SUBSET Nat /\ tx \in Seq(Transaction) /\ Len(tx) \in Nat /\ DOMAIN tx = 1 .. Len(tx)
        BY DbTyped DEF DatabaseInv
    <2>n. PICK n : n = Len(tx) + 1
        OBVIOUS
    <2>3. n \in Nat /\ n \notin DOMAIN tx
        BY <2>2, <2>n
    <2>4. act \in Activation /\ act.name = "transaction" /\ act.args = 1 /\ act.i = n
        <3>1. Waiting("transaction", 1) \in Activation /\ Waiting("transaction", 1).name = "transaction"
              /\ Waiting("transaction", 1).args = 1
            BY WaitingTyped
        <3> QED
            BY <2>n, <2>3, <3>1 DEF Activation
    <2> HIDE DEF act
    <2>5. new \in Transaction /\ new.writes = {} /\ new.outcome = "open"
        BY DEF Transaction
    <2> HIDE DEF new
    <2>6. /\ tx' \in Seq(Transaction) /\ DOMAIN tx' = (DOMAIN tx) \cup {n} /\ tx'[n] = new
          /\ \A j \in DOMAIN tx : tx'[j] = tx[j]
        BY <2>1, <2>2, <2>5, <2>n
    <2>m. PICK m : m = Len(c) + 1
        OBVIOUS
    <2>7. /\ c \in Seq(Activation) /\ Len(c) \in Nat /\ DOMAIN c = 1 .. Len(c) /\ m \notin DOMAIN c
          /\ 1 .. m = (1 .. Len(c)) \cup {m} /\ top + 2 \in Int /\ top + 2 = top + act.args + 1
        BY <1>1, <2>4, <2>m, Typed
    <2>8. MachineInv'
        BY <1>1, <2>1, <2>4, <2>7, CallKeeps DEF MachineInv
    <2>9. /\ DOMAIN c' = (DOMAIN c) \cup {m} /\ \A j \in DOMAIN c : c'[j] = c[j]
          /\ c'[m].name = "transaction" /\ c'[m].i = n
        <3>1. /\ DOMAIN c' = 1 .. m /\ \A j \in 1 .. Len(c) : c'[j] = c[j]
              /\ c'[m].name = act.name /\ c'[m].i = act.i
            BY <1>1, <2>1, <2>4, <2>7, <2>m, CallPushes
        <3> QED
            BY <2>4, <2>7, <3>1
    <2>10. ChannelInv'
        <3>1. Serving(c'[m], channels)
            BY <2>9 DEF Serving
        <3> QED
            BY <1>1, <2>9, <3>1, ChannelsKept
    <2>11. DbTypes'
        BY <2>1, <2>2, <2>6 DEF DbTypes
    <2>12. ASSUME ~broken PROVE OneTransaction' /\ TransactionsAtomic'
        <3>1. /\ InTransaction = {} /\ pending = {} /\ stored \cup pending \subseteq 1 .. writes
              /\ \A i \in DOMAIN tx :
                    /\ tx[i].writes \subseteq 1 .. writes
                    /\ tx[i].outcome = "open" => tx[i].writes \cap stored = {}
              /\ \A i, j \in DOMAIN tx : i # j => tx[i].writes \cap tx[j].writes = {}
            BY <2>1, <2>12 DEF DatabaseInv, OneTransaction
        <3>2. InTransaction' = {m}
            BY <2>9, <3>1 DEF InTransaction
        <3>3. OneTransaction'
            <4>1. \A i \in DOMAIN tx' :
                      /\ tx'[i].writes \subseteq 1 .. writes
                      /\ tx'[i].outcome = "open" => tx'[i].writes \cap stored = {}
                BY <2>5, <2>6, <3>1
            <4>2. \A i, j \in DOMAIN tx' : i # j => tx'[i].writes \cap tx'[j].writes = {}
                <5>1. \A i \in DOMAIN tx' : i # n => i \in DOMAIN tx /\ tx'[i] = tx[i]
                    BY <2>6
                <5> QED
                    BY <2>5, <2>6, <3>1, <5>1
            <4>3. \A q \in {m} : /\ c'[q].i \in DOMAIN tx' /\ tx'[c'[q].i].outcome = "open"
                                 /\ pending = tx'[c'[q].i].writes
                BY <2>5, <2>6, <2>9, <3>1
            <4>4. /\ sqlite' = in_transaction' /\ in_transaction' = TRUE /\ db_conn' = TRUE /\ pending' = {}
                  /\ stored' \cup pending' \subseteq 1 .. writes'
                BY <2>1, <2>2, <3>1
            <4>5. writes' = writes /\ stored' = stored /\ pending' = pending
                BY <2>1
            <4> QED
                BY <3>2, <4>1, <4>2, <4>3, <4>4, <4>5 DEF OneTransaction
        <3>4. TransactionsAtomic'
            <4>1. /\ \A i \in DOMAIN tx :
                        /\ tx[i].outcome = "ok" => tx[i].writes \subseteq stored
                        /\ tx[i].outcome = "error" => tx[i].writes \cap stored = {}
                  /\ (1 .. writes) \ UNION {tx[i].writes : i \in DOMAIN tx} \subseteq stored
                BY <2>12 DEF DatabaseInv, TransactionsAtomic
            <4>2. \A i \in DOMAIN tx' :
                      /\ tx'[i].outcome = "ok" => tx'[i].writes \subseteq stored
                      /\ tx'[i].outcome = "error" => tx'[i].writes \cap stored = {}
                BY <2>5, <2>6, <4>1
            <4>3. UNION {tx[i].writes : i \in DOMAIN tx} \subseteq UNION {tx'[i].writes : i \in DOMAIN tx'}
                BY <2>6
            <4>4. (1 .. writes) \ UNION {tx'[i].writes : i \in DOMAIN tx'} \subseteq stored
                BY <4>1, <4>3
            <4> QED
                BY <2>1, <4>2, <4>4 DEF TransactionsAtomic
        <3> QED
            BY <3>3, <3>4
    <2>13. OneTransaction' /\ TransactionsAtomic'
        BY <2>1, <2>12 DEF OneTransaction, TransactionsAtomic
    <2> QED
        BY <2>8, <2>10, <2>11, <2>13 DEF DatabaseInv
<1> QED
    BY <1>2, <1>3

LEMMA TransactionEndStep ==
    ASSUME MachineInv, ChannelInv, DatabaseInv, transaction_ends
    PROVE  MachineInv' /\ ChannelInv' /\ DatabaseInv'
<1>m. PICK m : m = Len(c)
    OBVIOUS
<1>n. PICK n : n = Caller.i
    OBVIOUS
<1>1. /\ RtTypes /\ WaitingInOrder /\ c # <<>> /\ result # "none" /\ Caller.name = "transaction" /\ NativeEnds
      /\ UNCHANGED pubsub /\ tx' = [tx EXCEPT ![n].outcome = result]
      /\ \/ (had_error \/ ~db_conn \/ ~in_transaction) /\ vek_db_rollback
         \/ ~had_error /\ db_conn /\ in_transaction /\ vek_db_commit
         \/ ~had_error /\ db_conn /\ in_transaction /\ commit_fails
    BY <1>n DEF MachineInv, transaction_ends, Recorded, Failed
<1>2. /\ MachineInv' /\ ChannelInv' /\ DOMAIN c = 1 .. m /\ m \in Nat \ {0} /\ DOMAIN c' = 1 .. (m - 1)
      /\ \A k \in DOMAIN c' : k \in DOMAIN c /\ c'[k] = c[k]
    BY <1>1, <1>m, ReturnStep
<1>3. m \in DOMAIN c /\ Caller = c[m] /\ result \in {"ok", "error"} /\ m \notin DOMAIN c'
    <2>1. Caller = c[m] /\ result \in {"ok", "error"}
        BY <1>1, <1>m, Typed DEF RtTypes
    <2> QED
        BY <1>2, <2>1
<1>4. /\ db_conn \in BOOLEAN /\ in_transaction \in BOOLEAN /\ sqlite \in BOOLEAN /\ broken \in BOOLEAN
      /\ writes \in Nat /\ pending \in SUBSET Nat /\ stored \in SUBSET Nat /\ tx \in Seq(Transaction)
    BY DbTyped DEF DatabaseInv
<1>5. tx' \in Seq(Transaction) /\ DOMAIN tx' = DOMAIN tx
    <2>1. PICK s : s = tx
        OBVIOUS
    <2>2. PICK t : t = tx'
        OBVIOUS
    <2>3. PICK o : o = result
        OBVIOUS
    <2>4. s \in Seq(Transaction) /\ o \in {"ok", "error"} /\ t = [s EXCEPT ![n].outcome = o]
        BY <1>1, <1>3, <1>4, <2>1, <2>2, <2>3
    <2>5. t \in Seq(Transaction) /\ DOMAIN t = DOMAIN s
        BY <2>4, OutcomeTyped
    <2> QED
        BY <2>1, <2>2, <2>5
<1>6. ASSUME NEW j \in DOMAIN tx
      PROVE  /\ tx'[j].writes = tx[j].writes
             /\ j = n => tx'[j].outcome = result
             /\ j # n => tx'[j].outcome = tx[j].outcome
    BY <1>1, <1>3, <1>4, OutcomeSet
<1>7. DbTypes'
    <2>1. /\ {db_conn', in_transaction', sqlite', broken'} \subseteq BOOLEAN
          /\ writes' \in Nat /\ pending' \in SUBSET Nat /\ stored' \in SUBSET Nat
        <3>1. CASE vek_db_rollback
            BY <1>4, <3>1 DEF vek_db_rollback
        <3>2. CASE vek_db_commit
            BY <1>4, <3>2 DEF vek_db_commit
        <3>3. CASE commit_fails
            BY <1>4, <3>3 DEF commit_fails, contents
        <3> QED
            BY <1>1, <3>1, <3>2, <3>3
    <2> QED
        BY <1>5, <2>1 DEF DbTypes
<1>8. ASSUME ~broken' PROVE OneTransaction' /\ TransactionsAtomic'
    <2>1. \/ (had_error \/ ~db_conn \/ ~in_transaction) /\ vek_db_rollback
          \/ ~had_error /\ vek_db_commit
        BY <1>1, <1>8 DEF commit_fails
    <2>2. broken' = broken /\ ~broken /\ writes' = writes /\ in_transaction' = FALSE /\ db_conn' = db_conn
        BY <1>8, <2>1 DEF vek_db_rollback, vek_db_commit
    <2>3. m \in InTransaction
        BY <1>1, <1>3 DEF InTransaction
    <2>4. InTransaction = {m}
        BY <2>2, <2>3, TheTransaction DEF DatabaseInv
    <2>5. InTransaction' = {}
        <3> SUFFICES ASSUME NEW k \in InTransaction' PROVE FALSE
            OBVIOUS
        <3>1. k \in DOMAIN c' /\ k \in InTransaction
            BY <1>2 DEF InTransaction
        <3> QED
            BY <1>3, <2>4, <3>1
    <2>6. /\ sqlite = TRUE /\ in_transaction = TRUE /\ db_conn = TRUE
          /\ n \in DOMAIN tx /\ tx[n].outcome = "open" /\ pending = tx[n].writes
          /\ ~c[m].closure => pending = {}
          /\ stored \cup pending \subseteq 1 .. writes
          /\ \A i \in DOMAIN tx :
                /\ tx[i].writes \subseteq 1 .. writes
                /\ tx[i].outcome = "open" => tx[i].writes \cap stored = {}
          /\ \A i, j \in DOMAIN tx : i # j => tx[i].writes \cap tx[j].writes = {}
        BY <1>3, <1>4, <1>n, <2>2, <2>3 DEF DatabaseInv, OneTransaction
    <2>7. /\ \A i \in DOMAIN tx :
                /\ tx[i].outcome = "ok" => tx[i].writes \subseteq stored
                /\ tx[i].outcome = "error" => tx[i].writes \cap stored = {}
          /\ (1 .. writes) \ UNION {tx[i].writes : i \in DOMAIN tx} \subseteq stored
        BY <2>2 DEF DatabaseInv, TransactionsAtomic
    <2>8. \A i, j \in DOMAIN tx' : i # j => tx'[i].writes \cap tx'[j].writes = {}
        BY <1>5, <1>6, <2>6
    <2>9. UNION {tx'[i].writes : i \in DOMAIN tx'} = UNION {tx[i].writes : i \in DOMAIN tx}
        BY <1>5, <1>6
    <2>10. tx[n].writes \cap stored = {}
        BY <2>6
    <2>11. CASE had_error /\ vek_db_rollback
        <3>1. pending' = {} /\ sqlite' = FALSE /\ stored' = stored
            BY <2>6, <2>11 DEF vek_db_rollback
        <3>2. result = "ok" => tx[n].writes = {}
            BY <1>1, <1>3, <2>6, <2>11 DEF WaitingInOrder
        <3>3. \A i \in DOMAIN tx' :
                  /\ tx'[i].writes \subseteq 1 .. writes
                  /\ tx'[i].outcome = "open" => tx'[i].writes \cap stored = {}
            BY <1>3, <1>5, <1>6, <2>6
        <3>4. ASSUME NEW i \in DOMAIN tx'
              PROVE  /\ tx'[i].outcome = "ok" => tx'[i].writes \subseteq stored
                     /\ tx'[i].outcome = "error" => tx'[i].writes \cap stored = {}
            <4>1. CASE i = n
                BY <1>5, <1>6, <2>10, <3>2, <4>1
            <4>2. CASE i # n
                BY <1>5, <1>6, <2>7, <4>2
            <4> QED
                BY <4>1, <4>2
        <3>5. OneTransaction'
            BY <2>2, <2>5, <2>6, <2>8, <3>1, <3>3 DEF OneTransaction
        <3>6. TransactionsAtomic'
            BY <2>2, <2>7, <2>9, <3>1, <3>4 DEF TransactionsAtomic
        <3> QED
            BY <3>5, <3>6
    <2>12. CASE ~had_error /\ vek_db_commit
        <3>1. pending' = {} /\ sqlite' = FALSE /\ stored' = stored \cup tx[n].writes
            BY <2>6, <2>12 DEF vek_db_commit
        <3>2. result = "ok"
            BY <1>1, <1>3, <2>12 DEF WaitingInOrder
        <3>3. ASSUME NEW i \in DOMAIN tx', i # n
              PROVE  tx'[i].writes \cap tx[n].writes = {} /\ i \in DOMAIN tx
            BY <1>5, <1>6, <2>6, <3>3
        <3>4. ASSUME NEW i \in DOMAIN tx'
              PROVE  /\ tx'[i].writes \subseteq 1 .. writes
                     /\ tx'[i].outcome = "open" => tx'[i].writes \cap stored' = {}
            <4>1. CASE i = n
                BY <1>5, <1>6, <2>6, <3>2, <4>1
            <4>2. CASE i # n
                BY <1>5, <1>6, <2>6, <3>1, <3>3, <4>2
            <4> QED
                BY <4>1, <4>2
        <3>5. ASSUME NEW i \in DOMAIN tx'
              PROVE  /\ tx'[i].outcome = "ok" => tx'[i].writes \subseteq stored'
                     /\ tx'[i].outcome = "error" => tx'[i].writes \cap stored' = {}
            <4>1. CASE i = n
                BY <1>5, <1>6, <3>1, <3>2, <4>1
            <4>2. CASE i # n
                BY <1>5, <1>6, <2>7, <3>1, <3>3, <4>2
            <4> QED
                BY <4>1, <4>2
        <3>6. stored' \cup pending' \subseteq 1 .. writes
            BY <2>6, <3>1
        <3>7. (1 .. writes) \ UNION {tx'[i].writes : i \in DOMAIN tx'} \subseteq stored'
            BY <2>7, <2>9, <3>1
        <3>8. OneTransaction'
            BY <2>2, <2>5, <2>8, <3>1, <3>4, <3>6 DEF OneTransaction
        <3>9. TransactionsAtomic'
            BY <2>2, <3>1, <3>5, <3>7 DEF TransactionsAtomic
        <3> QED
            BY <3>8, <3>9
    <2> QED
        BY <2>1, <2>6, <2>11, <2>12
<1>9. OneTransaction' /\ TransactionsAtomic'
    BY <1>8 DEF OneTransaction, TransactionsAtomic
<1> QED
    BY <1>2, <1>7, <1>9 DEF DatabaseInv

-----------------------------------------------------------------------------
(* The invariant.                                                          *)

LEMMA HandlerStep ==
    ASSUME RtInv, vek_http_handler \/ handler_ends
    PROVE  RtInv'
<1>1. /\ RtTypes /\ WaitingInOrder /\ FramesHeld /\ ChannelInv /\ DatabaseInv /\ UNCHANGED <<pubsub, db>>
      /\ c \in Seq(Activation) /\ DOMAIN c = 1 .. Len(c) /\ Len(c) \in Nat
    BY Typed DEF RtInv, MachineInv, vek_http_handler, handler_ends
<1>2. MachineInv'
    BY <1>1, HandlerKeeps DEF MachineInv
<1>3. /\ \A k \in DOMAIN c : c[k].name # "transaction"
      /\ \A k \in DOMAIN c' : c'[k].name = "handler"
    <2>1. CASE vek_http_handler
        <3>1. PICK f \in Functions : vek_http_handler /\ vm_call(top, f, 1, <<>>, Waiting("handler", 0))
            BY <2>1 DEF vek_http_handler
        <3>2. f \in Callbacks /\ top \in Int /\ <<>> \in Seq(Activation) /\ Len(<<>>) + 1 = 1
            BY <1>1, Typed DEF Callbacks
        <3>3. Waiting("handler", 0) \in Activation /\ Waiting("handler", 0).name = "handler"
            BY WaitingTyped
        <3>4. DOMAIN c' = 1 .. 1 /\ c'[1].name = "handler"
            <4>1. PICK act : act = Waiting("handler", 0)
                OBVIOUS
            <4>2. PICK below : below = <<>>
                OBVIOUS
            <4>3. vm_call(top, f, 1, below, act) /\ below \in Seq(Activation) /\ act \in Activation
                BY <3>1, <3>2, <3>3, <4>1, <4>2
            <4>4. /\ DOMAIN c' = 1 .. (Len(below) + 1)
                  /\ c'[Len(below) + 1].name = act.name
                BY <1>1, <3>2, <4>3, CallPushes
            <4> QED
                BY <3>2, <3>3, <4>1, <4>2, <4>4
        <3>5. DOMAIN c = {}
            BY <3>1 DEF vek_http_handler
        <3> QED
            BY <3>4, <3>5
    <2>2. CASE handler_ends
        <3>1. c # <<>> /\ Caller.name = "handler" /\ c' = <<>>
            BY <2>2 DEF handler_ends
        <3>2. Len(c) \in DOMAIN c /\ Caller = c[Len(c)]
            BY <1>1, <3>1, Typed
        <3>3. Len(c) = 1
            BY <1>1, <3>1, <3>2 DEF WaitingInOrder
        <3>4. DOMAIN c = {1} /\ DOMAIN c' = {}
            BY <1>1, <3>1, <3>3
        <3> QED
            BY <3>1, <3>2, <3>3, <3>4
    <2> QED
        BY <2>1, <2>2
<1>4. ChannelInv'
    BY <1>1, <1>3, ChannelsKept DEF Serving
<1>5. DatabaseInv'
    BY <1>1, <1>3, NoTransactionMoves
<1> QED
    BY <1>2, <1>4, <1>5 DEF RtInv

LEMMA InstructionStep ==
    ASSUME RtInv, dispatch_error \/ runtime_error \/ op_push \/ op_call \/ op_return
    PROVE  RtInv'
<1>1. RtTypes /\ WaitingInOrder /\ FramesHeld /\ ChannelInv /\ DatabaseInv
    BY DEF RtInv, MachineInv
<1>2. c' = c /\ UNCHANGED pubsub /\ UNCHANGED db
    BY DEF dispatch_error, runtime_error, op_push, op_call, op_return
<1>3. ChannelInv' /\ DatabaseInv'
    BY <1>1, <1>2, ChannelsKept, NoTransactionMoves
<1>4. CASE dispatch_error \/ runtime_error
    <2>1. /\ Running /\ had_error' = TRUE /\ result' = "error" /\ call_depth' = Caller.saved
          /\ top' = top /\ frames' = frames /\ open_upvalues' = open_upvalues
        <3>1. had_error \in BOOLEAN
            BY <1>1 DEF RtTypes
        <3> QED
            BY <1>4, <3>1 DEF dispatch_error, runtime_error, Step
    <2>2. top' \in Int /\ frames' \in Seq(Int) /\ open_upvalues' \in SUBSET Int
        BY <1>1, <2>1 DEF RtTypes
    <2>3. RtTypes' /\ WaitingInOrder' /\ FramesHeld'
        BY <1>1, <1>2, <2>1, <2>2, ErrorKeeps
    <2> QED
        BY <1>3, <2>3 DEF RtInv, MachineInv
<1>5. CASE op_push \/ op_call \/ op_return
    <2>1. RtTypes' /\ WaitingInOrder' /\ FramesHeld'
        BY <1>1, <1>5, PushKeeps, OpCallKeeps, OpReturnKeeps
    <2> QED
        BY <1>3, <2>1 DEF RtInv, MachineInv
<1> QED
    BY <1>4, <1>5

LEMMA PubsubStep ==
    ASSUME RtInv,
           \/ \E ch \in Channels, f \in DOMAIN pins : native_pubsub_subscribe(ch, f)
           \/ \E ch \in Channels : native_pubsub_unsubscribe(ch)
           \/ \E ch \in Channels : native_pubsub_publish(ch)
           \/ publish_next \/ publish_ends
    PROVE  RtInv'
<1>1. /\ MachineInv /\ ChannelInv /\ DatabaseInv /\ DOMAIN pins = Callbacks
      /\ c \in Seq(Activation) /\ DOMAIN c = 1 .. Len(c) /\ Len(c) \in Nat
    BY Typed, ChannelsTyped DEF RtInv, MachineInv, ChannelInv
<1>2. CASE \E ch \in Channels, f \in DOMAIN pins : native_pubsub_subscribe(ch, f)
    <2>1. PICK ch \in Channels, f \in Callbacks : native_pubsub_subscribe(ch, f)
        BY <1>1, <1>2
    <2>2. MachineInv' /\ ChannelInv'
        BY <1>1, <2>1, SubscribeStep
    <2>3. DatabaseInv'
        BY <1>1, <2>1, NoTransactionMoves DEF native_pubsub_subscribe
    <2> QED
        BY <2>2, <2>3 DEF RtInv
<1>3. CASE \E ch \in Channels : native_pubsub_unsubscribe(ch)
    <2>1. PICK ch \in Channels : native_pubsub_unsubscribe(ch)
        BY <1>3
    <2>2. /\ MachineInv' /\ ChannelInv' /\ DOMAIN c' = DOMAIN c
          /\ \A k \in DOMAIN c : /\ c'[k].name = c[k].name /\ c'[k].i = c[k].i
                                 /\ c'[k].closure = c[k].closure
        BY <1>1, <2>1, UnsubscribeStep
    <2>3. DatabaseInv'
        BY <1>1, <2>1, <2>2, NoTransactionMoves DEF native_pubsub_unsubscribe
    <2> QED
        BY <2>2, <2>3 DEF RtInv
<1>4. CASE \E ch \in Channels : native_pubsub_publish(ch)
    <2>1. PICK ch \in Channels : native_pubsub_publish(ch)
        BY <1>4
    <2>2. /\ MachineInv' /\ ChannelInv'
          /\ c' \in Seq(Activation) /\ Len(c') = Len(c) + 1
          /\ \A k \in DOMAIN c : c'[k] = c[k]
          /\ c'[Len(c) + 1].name = "publish"
        BY <1>1, <2>1, PublishStep
    <2>3. DOMAIN c' = (DOMAIN c) \cup {Len(c) + 1}
        BY <1>1, <2>2
    <2>4. DatabaseInv'
        BY <1>1, <2>1, <2>2, <2>3, NoTransactionMoves DEF native_pubsub_publish
    <2> QED
        BY <2>2, <2>4 DEF RtInv
<1>5. CASE publish_next
    <2>1. /\ MachineInv' /\ ChannelInv' /\ c' \in Seq(Activation) /\ Len(c') = Len(c)
          /\ \A k \in DOMAIN c : k # Len(c) => c'[k] = c[k]
          /\ c'[Len(c)].name = "publish" /\ c[Len(c)].name = "publish"
        BY <1>1, <1>5, PublishNextStep
    <2>2. DOMAIN c' = DOMAIN c
        BY <1>1, <2>1
    <2>3. DatabaseInv'
        BY <1>1, <1>5, <2>1, <2>2, NoTransactionMoves DEF publish_next
    <2> QED
        BY <2>1, <2>3 DEF RtInv
<1>6. CASE publish_ends
    <2>1. /\ c # <<>> /\ result # "none" /\ Caller.name = "publish" /\ NativeEnds
          /\ UNCHANGED pubsub /\ UNCHANGED db
        BY <1>6 DEF publish_ends, Publishing
    <2>2. /\ MachineInv' /\ ChannelInv'
          /\ Len(c) \in Nat \ {0} /\ DOMAIN c' = 1 .. (Len(c) - 1)
          /\ \A k \in DOMAIN c' : k \in DOMAIN c /\ c'[k] = c[k]
        BY <1>1, <2>1, ReturnStep
    <2>3. Caller = c[Len(c)]
        BY <2>1 DEF Caller, Last
    <2>4. \A k \in DOMAIN c : k \in DOMAIN c' \/ k = Len(c)
        BY <1>1, <2>2
    <2>5. DatabaseInv'
        BY <1>1, <2>1, <2>2, <2>3, <2>4, NoTransactionMoves
    <2> QED
        BY <2>2, <2>5 DEF RtInv
<1> QED
    BY <1>2, <1>3, <1>4, <1>5, <1>6

LEMMA DatabaseStep ==
    ASSUME RtInv,
           \/ native_db_connect \/ native_db_close \/ native_db_exec
           \/ \E f \in DOMAIN pins : native_db_transaction(f)
           \/ transaction_ends
    PROVE  RtInv'
<1>1. MachineInv /\ ChannelInv /\ DatabaseInv /\ DOMAIN pins = Callbacks
    BY ChannelsTyped DEF RtInv, ChannelInv
<1>2. CASE native_db_connect \/ native_db_close \/ native_db_exec
    <2>1. PICK n \in {0, 1} : Step /\ Native(n)
        BY <1>2 DEF native_db_connect, native_db_close, native_db_exec
    <2>2. UNCHANGED c /\ UNCHANGED pubsub
        BY <1>2 DEF native_db_connect, native_db_close, native_db_exec
    <2>3. MachineInv'
        BY <1>1, <2>1, <2>2, PlainNativeKeeps
    <2>4. ChannelInv'
        BY <1>1, <2>2, ChannelsKept
    <2>5. DatabaseInv'
        BY <1>1, <1>2, ConnectionStep, ExecStep
    <2> QED
        BY <2>3, <2>4, <2>5 DEF RtInv
<1>3. CASE \E f \in DOMAIN pins : native_db_transaction(f)
    BY <1>1, <1>3, TransactionStep DEF RtInv
<1>4. CASE transaction_ends
    BY <1>1, <1>4, TransactionEndStep DEF RtInv
<1> QED
    BY <1>2, <1>3, <1>4

LEMMA RtInitially == RuntimeInit => RtInv
<1> SUFFICES ASSUME RuntimeInit PROVE RtInv
    OBVIOUS
<1>1. MachineInv
    <2>1. <<0>> \in Seq(Int) /\ <<>> \in Seq(Activation) /\ DOMAIN <<>> = {}
        OBVIOUS
    <2>2. RtTypes
        <3>1. c \in Seq(Activation)
            BY <2>1 DEF RuntimeInit
        <3>2. frames \in Seq(Int)
            BY <2>1 DEF RuntimeInit
        <3>3. top \in Int /\ call_depth \in Nat /\ open_upvalues \in SUBSET Int
            BY DEF RuntimeInit
        <3>4. had_error \in BOOLEAN /\ result \in {"none", "ok", "error"}
            BY DEF RuntimeInit
        <3> QED
            BY <3>1, <3>2, <3>3, <3>4 DEF RtTypes
    <2>3. WaitingInOrder
        BY <2>1 DEF RuntimeInit, WaitingInOrder
    <2>4. FramesHeld
        BY DEF RuntimeInit, FramesHeld
    <2> QED
        BY <2>2, <2>3, <2>4 DEF MachineInv
<1>2. ChannelInv
    <2>1. channels = <<>> /\ DOMAIN channels = {} /\ DOMAIN c = {} /\ pins = [f \in Callbacks |-> 0]
        BY DEF RuntimeInit, Callbacks
    <2>2. ChannelTypes
        BY <2>1, FS_EmptySet DEF ChannelTypes
    <2>3. \A f : Cardinality(Subscriptions(f)) = 0
        BY <2>1, FS_EmptySet DEF Subscriptions
    <2> QED
        BY <2>1, <2>2, <2>3 DEF ChannelInv, CalledInOrder, PinnedWhileSubscribed
<1>3. DatabaseInv
    <2>1. DOMAIN tx = {} /\ DOMAIN c = {} /\ 1 .. writes = {}
        BY DEF RuntimeInit
    <2>2. DbTypes
        <3>1. tx \in Seq(Transaction)
            BY DEF RuntimeInit
        <3>2. {db_conn, in_transaction, sqlite, broken} \subseteq BOOLEAN
            BY DEF RuntimeInit
        <3> QED
            BY <3>1, <3>2 DEF RuntimeInit, DbTypes
    <2>3. InTransaction = {}
        BY <2>1 DEF InTransaction
    <2>4. OneTransaction
        BY <2>1, <2>3 DEF RuntimeInit, OneTransaction
    <2>5. TransactionsAtomic
        BY <2>1 DEF RuntimeInit, TransactionsAtomic
    <2> QED
        BY <2>2, <2>4, <2>5 DEF DatabaseInv
<1> QED
    BY <1>1, <1>2, <1>3 DEF RtInv

LEMMA RtStep == RtInv /\ [RuntimeNext]_RuntimeVars => RtInv'
<1> SUFFICES ASSUME RtInv, [RuntimeNext]_RuntimeVars PROVE RtInv'
    OBVIOUS
<1>1. CASE UNCHANGED RuntimeVars
    <2>1. /\ c' = c /\ UNCHANGED pubsub /\ UNCHANGED db
          /\ top' = top /\ frames' = frames /\ call_depth' = call_depth /\ had_error' = had_error
          /\ open_upvalues' = open_upvalues /\ result' = result
        BY <1>1 DEF RuntimeVars, vm
    <2>2. MachineInv'
        BY <2>1 DEF RtInv, MachineInv, RtTypes, WaitingInOrder, FramesHeld, FramesRestored, HasFrame, Base, Caller,
                    Frame
    <2>3. ChannelInv' /\ DatabaseInv'
        BY <2>1, ChannelsKept, NoTransactionMoves DEF RtInv
    <2> QED
        BY <2>2, <2>3 DEF RtInv
<1>2. CASE RuntimeNext
    BY <1>2, HandlerStep, InstructionStep, PubsubStep, DatabaseStep DEF RuntimeNext
<1> QED
    BY <1>1, <1>2

LEMMA RtAlways == RuntimeSpec => []RtInv
BY RtInitially, RtStep, PTL DEF RuntimeSpec

\* A vm_call that ends without an error leaves the frames, the depth to come back
\* to, the upvalues and the caller's stack as FramesRestored says, for any
\* callbacks and any sizes of the stack and of the frames (vm_call, op_return).
THEOREM FramesAlwaysRestored == RuntimeSpec => []FramesRestored
<1>1. RtInv => FramesRestored
    BY DEF RtInv, MachineInv, FramesHeld, FramesRestored
<1> QED
    BY <1>1, RtAlways, PTL

\* pubsub.publish calls each subscriber once and in order, however many there
\* are and whatever is nested in the calls (native_pubsub_publish).
THEOREM SubscribersAlwaysServed == RuntimeSpec => []SubscribersServed
<1>1. RtInv => SubscribersServed
    BY ServedWhenDone DEF RtInv
<1> QED
    BY <1>1, RtAlways, PTL

\* A callback is pinned as often as it is subscribed, for any number of channels
\* and subscribers (native_pubsub_subscribe, native_pubsub_unsubscribe).
THEOREM PinsAlwaysMatch == RuntimeSpec => []PinnedWhileSubscribed
<1>1. RtInv => PinnedWhileSubscribed
    BY DEF RtInv, ChannelInv
<1> QED
    BY <1>1, RtAlways, PTL

\* What a db.transaction has written is stored as a whole or not at all, for any
\* nesting of calls and any number of writes (native_db_transaction).
THEOREM TransactionsAlwaysAtomic == RuntimeSpec => []TransactionsAtomic
<1>1. RtInv => TransactionsAtomic
    BY DEF RtInv, DatabaseInv
<1> QED
    BY <1>1, RtAlways, PTL
=============================================================================
