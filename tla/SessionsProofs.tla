--------------------------- MODULE SessionsProofs ---------------------------
(***************************************************************************)
(* What a running program keeps for its visitors: theorems about Sessions  *)
(* (what a visitor left at one worker is what it finds at the next) and    *)
(* about Services (the limit of requests and the cache, which go by the    *)
(* clock), for any workers, visitors, clients, keys, names and values.     *)
(***************************************************************************)
EXTENDS Sessions, Services, NumberFacts, SequenceTheorems, FiniteSetTheorems

-----------------------------------------------------------------------------
(* The sessions of visitors.                                               *)

\* What a visitor has got is what its requests have meant, and the forms of the
\* page have the token of the session.
Honest(j) == j.cookie.data = j.meant /\ j.forms \subseteq {Token(j.cookie.data)}

Fields == {"visitor", "sent", "restored", "meant", "page", "generated", "form", "verdict"}
Shapes ==
    /\ session_data = [w \in SessionWorkers |-> session_data[w]]
    /\ DOMAIN visit = SessionWorkers /\ DOMAIN jar = Visitors /\ tokens \in Nat
    /\ \A w \in SessionWorkers : Busy(w) => DOMAIN visit[w] = Fields /\ visit[w].visitor \in Visitors

JarsHonest ==
    /\ \A p \in Visitors : Honest(jar[p])
    /\ \A w \in SessionWorkers : Busy(w) => Honest(visit[w].sent)

\* The forms of the page that is being made have the token of the session, which
\* is the one that came with the cookie until a new one is made; the verdict on a
\* form is about that token.
PagesHonest ==
    \A w \in SessionWorkers :
        Busy(w) =>
            /\ visit[w].page \subseteq {Token(session_data[w])} \ {0}
            /\ visit[w].restored /\ ~visit[w].generated =>
                  /\ Token(session_data[w]) = Token(visit[w].sent.cookie.data)
                  /\ visit[w].verdict = "refused" => visit[w].form # Token(session_data[w])
                  /\ visit[w].verdict = "accepted" => visit[w].form = Token(session_data[w])

SessionInv == Shapes /\ JarsHonest /\ PagesHonest /\ SessionRestored

\* Other names, and the writing of a cookie, leave the token as it is.
LEMMA TokenStays ==
    ASSUME NEW map, NEW k, k # TokenName, NEW v
    PROVE  /\ Token(WithKey(map, k, v)) = Token(map)
           /\ Token(Taken(map, k)) = Token(map)
           /\ Token(Remembered(map)) = Token(map)
<1>1. Token(WithKey(map, k, v)) = Token(map)
    BY DEF Token, WithKey
<1>2. Token(Taken(map, k)) = Token(map)
    BY DEF Token, Taken
<1>3. Token(Remembered(map)) = Token(map)
    BY DEF Token, Remembered
<1> QED
    BY <1>1, <1>2, <1>3

LEMMA TokenSet ==
    ASSUME NEW map, NEW t
    PROVE  Token(WithKey(map, TokenName, t)) = t
BY DEF Token, WithKey

LEMMA InitiallyNoSession == SessionsInit => SessionInv
BY DEF SessionsInit, SessionInv, Shapes, JarsHonest, PagesHonest, SessionRestored,
       Honest, NoJar, NoCookie, Busy, Idle

\* Where a worker has nothing to do with it, or is idle afterwards.
LEMMA ElsewhereStep ==
    ASSUME SessionInv, NEW w \in SessionWorkers,
           visit' = [visit EXCEPT ![w] = Idle],
           session_data' = [q \in SessionWorkers |-> session_data'[q]], tokens' \in Nat,
           \A q \in SessionWorkers \ {w} : session_data'[q] = session_data[q],
           DOMAIN jar' = Visitors, \A p \in Visitors : Honest(jar'[p])
    PROVE  SessionInv'
<1> USE DEF SessionInv
<1>1. \A q \in SessionWorkers : Busy(q)' => q # w /\ Busy(q) /\ visit'[q] = visit[q]
    BY DEF Shapes, Busy
<1>2. Shapes'
    BY <1>1 DEF Shapes
<1>3. JarsHonest'
    BY <1>1 DEF JarsHonest
<1>4. PagesHonest' /\ SessionRestored'
    BY <1>1 DEF PagesHonest, SessionRestored
<1> QED
    BY <1>2, <1>3, <1>4

\* Where a worker that is at a request changes its session and its visit.
LEMMA BusyStep ==
    ASSUME SessionInv, NEW w \in SessionWorkers, Busy(w),
           session_data' = [session_data EXCEPT ![w] = session_data'[w]],
           visit' = [visit EXCEPT ![w] = visit'[w]],
           DOMAIN visit'[w] = Fields, visit'[w].visitor = visit[w].visitor, visit'[w].sent = visit[w].sent,
           UNCHANGED jar, tokens' \in Nat,
           visit'[w].page \subseteq {Token(session_data'[w])} \ {0},
           visit'[w].restored => session_data'[w] = visit'[w].meant,
           visit'[w].restored /\ ~visit'[w].generated =>
               /\ Token(session_data'[w]) = Token(visit[w].sent.cookie.data)
               /\ visit'[w].verdict = "refused" => visit'[w].form # Token(session_data'[w])
               /\ visit'[w].verdict = "accepted" => visit'[w].form = Token(session_data'[w])
    PROVE  SessionInv'
<1> USE DEF SessionInv
<1>1. \A q \in SessionWorkers \ {w} : session_data'[q] = session_data[q] /\ visit'[q] = visit[q]
    BY DEF Shapes
<1>2. Shapes'
    BY <1>1 DEF Shapes, Busy
<1>3. JarsHonest'
    BY <1>1 DEF JarsHonest, Busy
<1>4. PagesHonest' /\ SessionRestored'
    BY <1>1 DEF PagesHonest, SessionRestored, Busy
<1> QED
    BY <1>2, <1>3, <1>4

\* Where no session, visit or jar changes.
LEMMA SessionsAlone ==
    ASSUME SessionInv, UNCHANGED <<session_data, visit, jar>>, tokens' \in Nat
    PROVE  SessionInv'
BY DEF SessionInv, Shapes, JarsHonest, PagesHonest, SessionRestored, Busy

\* What the handler stores goes into the session and into what is meant, and the
\* token stays.
LEMMA ChangedStep ==
    ASSUME SessionInv, NEW w \in SessionWorkers, Busy(w), UNCHANGED <<jar, tokens>>, NEW data, NEW meant,
           Changed(w, data, meant),
           session_data[w] = visit[w].meant => data = meant,
           Token(data) = Token(session_data[w])
    PROVE  SessionInv'
<1>1. /\ visit' = [visit EXCEPT ![w] = visit'[w]] /\ session_data'[w] = data
      /\ session_data' = [session_data EXCEPT ![w] = data]
      /\ visit'[w] = [visit[w] EXCEPT !.meant = meant] /\ DOMAIN visit[w] = Fields
    BY DEF Changed, SessionInv, Shapes
<1>2. /\ DOMAIN visit'[w] = Fields /\ visit'[w].meant = meant
      /\ visit'[w].sent = visit[w].sent /\ visit'[w].visitor = visit[w].visitor
      /\ visit'[w].page = visit[w].page /\ visit'[w].restored = visit[w].restored
      /\ visit'[w].generated = visit[w].generated /\ visit'[w].form = visit[w].form
      /\ visit'[w].verdict = visit[w].verdict
    BY <1>1 DEF Fields
<1>3. /\ visit[w].page \subseteq {Token(data)} \ {0} /\ tokens' \in Nat
      /\ visit[w].restored => data = meant
      /\ visit[w].restored /\ ~visit[w].generated =>
            /\ Token(data) = Token(visit[w].sent.cookie.data)
            /\ visit[w].verdict = "refused" => visit[w].form # Token(data)
            /\ visit[w].verdict = "accepted" => visit[w].form = Token(data)
    BY DEF SessionInv, Shapes, PagesHonest, SessionRestored
<1> QED
    BY <1>1, <1>2, <1>3, BusyStep

\* A new token: the session, what is meant and the page have it.
LEMMA GeneratedStep ==
    ASSUME SessionInv, NEW w \in SessionWorkers, Busy(w), UNCHANGED jar, NEW page, page \subseteq {tokens + 1},
           Generated(w, [visit[w] EXCEPT !.page = page])
    PROVE  SessionInv'
<1>1. /\ session_data' = [session_data EXCEPT ![w] = WithKey(session_data[w], TokenName, tokens + 1)]
      /\ visit' = [visit EXCEPT ![w] = visit'[w]]
      /\ session_data'[w] = WithKey(session_data[w], TokenName, tokens + 1)
      /\ DOMAIN visit[w] = Fields /\ tokens' = tokens + 1 /\ tokens \in Nat
      /\ visit'[w] = [[visit[w] EXCEPT !.page = page]
                         EXCEPT !.meant = WithKey(@, TokenName, tokens + 1), !.generated = TRUE]
    BY DEF Generated, SessionInv, Shapes
<1>2. /\ DOMAIN visit'[w] = Fields /\ visit'[w].meant = WithKey(visit[w].meant, TokenName, tokens + 1)
      /\ visit'[w].sent = visit[w].sent /\ visit'[w].visitor = visit[w].visitor
      /\ visit'[w].page = page /\ visit'[w].restored = visit[w].restored
      /\ visit'[w].generated
    BY <1>1 DEF Fields
<1>3. visit[w].restored => session_data[w] = visit[w].meant
    BY DEF SessionInv, SessionRestored
<1>4. Token(session_data'[w]) = tokens + 1
    BY <1>1, TokenSet
<1>5. visit'[w].page \subseteq {Token(session_data'[w])} \ {0} /\ tokens' \in Nat
    BY <1>1, <1>2, <1>4
<1> QED
    BY <1>1, <1>2, <1>3, <1>5, BusyStep

LEMMA RequestStep ==
    ASSUME SessionInv, NEW w \in SessionWorkers, NEW p \in Visitors, request_arrives(w, p)
    PROVE  SessionInv'
<1> USE DEF SessionInv, request_arrives, stores
<1>1. \A q \in SessionWorkers \ {w} : visit'[q] = visit[q]
    BY DEF Shapes
<1>2. visit'[w] = [visitor |-> p, sent |-> jar[p], restored |-> FALSE, meant |-> <<>>,
                   page |-> {}, generated |-> FALSE, form |-> 0, verdict |-> "none"]
    BY DEF Shapes
<1>3. Shapes'
    BY <1>1, <1>2 DEF Shapes, Fields, Busy
<1>4. JarsHonest'
    BY <1>1, <1>2 DEF JarsHonest, Busy
<1>5. PagesHonest' /\ SessionRestored'
    BY <1>1, <1>2 DEF PagesHonest, SessionRestored, Busy
<1> QED
    BY <1>3, <1>4, <1>5

LEMMA DecodeStep ==
    ASSUME SessionInv, NEW w \in SessionWorkers, native_session_decode(w)
    PROVE  SessionInv'
<1> DEFINE sent == visit[w].sent
<1>1. /\ Busy(w) /\ DOMAIN visit[w] = Fields /\ Honest(sent) /\ UNCHANGED jar /\ tokens' \in Nat
    BY DEF native_session_decode, Act, SessionInv, Shapes, JarsHonest
<1>2. CASE UNCHANGED <<session_data, visit>>
    BY <1>1, <1>2, SessionsAlone
<1>3. CASE /\ session_data' = [session_data EXCEPT ![w] = sent.cookie.data]
           /\ visit' = [visit EXCEPT ![w].restored = TRUE, ![w].meant = sent.meant,
                                     ![w].page = {}, ![w].generated = FALSE, ![w].verdict = "none"]
    <2>1. /\ visit' = [visit EXCEPT ![w] = visit'[w]]
          /\ session_data' = [session_data EXCEPT ![w] = session_data'[w]]
          /\ session_data'[w] = sent.cookie.data
        BY <1>3 DEF SessionInv, Shapes
    <2>2. /\ DOMAIN visit'[w] = Fields /\ visit'[w].meant = sent.meant
          /\ visit'[w].sent = sent /\ visit'[w].visitor = visit[w].visitor
          /\ visit'[w].page = {} /\ visit'[w].restored /\ ~visit'[w].generated
          /\ visit'[w].verdict = "none"
        BY <1>1, <1>3 DEF SessionInv, Shapes, Fields
    <2> QED
        BY <1>1, <2>1, <2>2, BusyStep DEF Honest
<1> QED
    BY <1>2, <1>3 DEF native_session_decode, Replaced

\* The cookie that goes out holds what is meant; the answer may be lost.
LEMMA RespondStep ==
    ASSUME SessionInv, NEW w \in SessionWorkers, respond(w)
    PROVE  SessionInv'
<1> DEFINE p == visit[w].visitor
           meant == IF visit[w].restored THEN visit[w].meant ELSE session_data[w]
           new == [cookie |-> native_session_encode(w), meant |-> Remembered(meant), forms |-> visit[w].page]
<1>1. /\ Busy(w) /\ p \in Visitors /\ UNCHANGED session_data /\ tokens' \in Nat
      /\ visit' = [visit EXCEPT ![w] = Idle]
      /\ jar' = [jar EXCEPT ![p] = new] \/ UNCHANGED jar
    BY DEF respond, stores, SessionInv, Shapes
<1>2. meant = session_data[w]
    BY <1>1 DEF SessionInv, SessionRestored
<1>3. visit[w].page \subseteq {Token(session_data[w])}
    BY <1>1 DEF SessionInv, PagesHonest
<1>4. Token(Remembered(session_data[w])) = Token(session_data[w])
    BY TokenStays, SMTT(30)
<1>5. Honest(new)
    BY <1>2, <1>3, <1>4 DEF Honest, native_session_encode
<1>6. DOMAIN jar' = Visitors /\ \A q \in Visitors : Honest(jar'[q])
    BY <1>1, <1>5 DEF SessionInv, Shapes, JarsHonest
<1> QED
    BY <1>1, <1>6, ElsewhereStep DEF SessionInv, Shapes

LEMMA CsrfStep ==
    ASSUME SessionInv, NEW w \in SessionWorkers, native_csrf_generate(w) \/ native_csrf_tag(w)
    PROVE  SessionInv'
<1>1. Busy(w) /\ UNCHANGED jar /\ DOMAIN visit[w] = Fields /\ tokens \in Nat
    BY DEF native_csrf_generate, native_csrf_tag, Act, SessionInv, Shapes
<1>2. CASE native_csrf_generate(w)
    <2>1. PICK page : page = {}
        OBVIOUS
    <2>2. page \subseteq {tokens + 1}
        BY <2>1
    <2>3. Generated(w, [visit[w] EXCEPT !.page = page])
        BY <1>2, <2>1 DEF native_csrf_generate
    <2> QED
        BY <1>1, <2>2, <2>3, GeneratedStep
<1>3. CASE native_csrf_tag(w) /\ ~HasToken(w)
    <2>1. visit[w].page \cup {tokens + 1} \subseteq {tokens + 1}
        BY <1>1, <1>3 DEF SessionInv, PagesHonest, HasToken
    <2> QED
        BY <1>1, <1>3, <2>1, GeneratedStep DEF native_csrf_tag
<1>4. CASE native_csrf_tag(w) /\ HasToken(w)
    <2>1. /\ visit' = [visit EXCEPT ![w] = visit'[w]]
          /\ session_data' = [session_data EXCEPT ![w] = session_data'[w]]
          /\ session_data'[w] = session_data[w]
          /\ visit'[w] = [visit[w] EXCEPT !.page = @ \cup {Token(session_data[w])}]
          /\ tokens' \in Nat /\ Token(session_data[w]) # 0
        BY <1>4 DEF HasToken, native_csrf_tag, SessionInv, Shapes
    <2>2. /\ DOMAIN visit'[w] = Fields /\ visit'[w].meant = visit[w].meant
          /\ visit'[w].sent = visit[w].sent /\ visit'[w].visitor = visit[w].visitor
          /\ visit'[w].page = visit[w].page \cup {Token(session_data[w])}
          /\ visit'[w].restored = visit[w].restored /\ visit'[w].form = visit[w].form
          /\ visit'[w].generated = visit[w].generated /\ visit'[w].verdict = visit[w].verdict
        BY <1>1, <2>1 DEF Fields
    <2> QED
        BY <1>1, <2>1, <2>2, BusyStep DEF SessionInv, PagesHonest, SessionRestored
<1> QED
    BY <1>2, <1>3, <1>4

LEMMA ValidateStep ==
    ASSUME SessionInv, NEW w \in SessionWorkers, NEW form, native_csrf_validate(w, form)
    PROVE  SessionInv'
<1>1. /\ Busy(w) /\ UNCHANGED <<jar, session_data>> /\ DOMAIN visit[w] = Fields /\ tokens' \in Nat
      /\ visit' = [visit EXCEPT ![w] = visit'[w]]
      /\ session_data' = [session_data EXCEPT ![w] = session_data'[w]]
      /\ session_data'[w] = session_data[w]
      /\ visit'[w] = [visit[w] EXCEPT !.form = form,
             !.verdict = IF Token(session_data[w]) = form THEN "accepted" ELSE "refused"]
    BY DEF native_csrf_validate, Act, stores, SessionInv, Shapes
<1>2. /\ DOMAIN visit'[w] = Fields /\ visit'[w].meant = visit[w].meant
      /\ visit'[w].sent = visit[w].sent /\ visit'[w].visitor = visit[w].visitor
      /\ visit'[w].page = visit[w].page /\ visit'[w].restored = visit[w].restored
      /\ visit'[w].form = form /\ visit'[w].generated = visit[w].generated
      /\ visit'[w].verdict = "accepted" => Token(session_data[w]) = form
      /\ visit'[w].verdict = "refused" => Token(session_data[w]) # form
    BY <1>1 DEF Fields
<1> QED
    BY <1>1, <1>2, BusyStep DEF SessionInv, PagesHonest, SessionRestored

\* Every step of the workers and their visitors keeps the invariant.
LEMMA SessionStep == SessionInv /\ [SessionsNext]_SessionsVars => SessionInv'
<1> SUFFICES ASSUME SessionInv, [SessionsNext]_SessionsVars PROVE SessionInv'
    OBVIOUS
<1>1. ASSUME NEW w \in SessionWorkers, NEW p \in Visitors, request_arrives(w, p) PROVE SessionInv'
    BY <1>1, RequestStep
<1>2. ASSUME NEW w \in SessionWorkers, native_session_decode(w) PROVE SessionInv'
    BY <1>2, DecodeStep
<1>3. ASSUME NEW w \in SessionWorkers, NEW k \in Names, NEW v, native_session_set(w, k, v) PROVE SessionInv'
    <2>1. Token(WithKey(session_data[w], k, v)) = Token(session_data[w])
        BY TokenStays, SessionNames
    <2> QED
        BY <1>3, <2>1, ChangedStep DEF native_session_set, Act
<1>4. ASSUME NEW w \in SessionWorkers, NEW k \in Names, native_session_delete(w, k) PROVE SessionInv'
    <2>1. Token(Taken(session_data[w], k)) = Token(session_data[w])
        BY TokenStays, SessionNames
    <2> QED
        BY <1>4, <2>1, ChangedStep DEF native_session_delete, Act
<1>5. ASSUME NEW w \in SessionWorkers, respond(w) PROVE SessionInv'
    BY <1>5, RespondStep
<1>6. ASSUME NEW w \in SessionWorkers, NEW secret, native_session_init(w, secret) PROVE SessionInv'
    BY <1>6, ElsewhereStep DEF native_session_init, SessionInv, Shapes, JarsHonest
<1>7. ASSUME NEW w \in SessionWorkers, native_csrf_generate(w) \/ native_csrf_tag(w) PROVE SessionInv'
    BY <1>7, CsrfStep
<1>8. ASSUME NEW w \in SessionWorkers, NEW form, native_csrf_validate(w, form) PROVE SessionInv'
    BY <1>8, ValidateStep
<1>9. ASSUME NEW w \in SessionWorkers, NEW t,
             \/ native_session_flash_set(w, t) \/ native_session_flash_get(w, t)
             \/ native_flash_set(w, t) \/ native_flash_get(w, t)
             \/ native_flash_all(w) \/ native_flash_render_inline(w) \/ native_flash_clear(w)
      PROVE  SessionInv'
    BY <1>9, SessionsAlone
       DEF native_session_flash_set, native_session_flash_get, native_flash_set, native_flash_get,
           native_flash_all, native_flash_render_inline, native_flash_clear, Act, Unread,
           SessionInv, Shapes
<1>10. CASE UNCHANGED SessionsVars
    BY <1>10, SessionsAlone DEF SessionsVars, stores, SessionInv, Shapes
<1> QED
    BY <1>1, <1>2, <1>3, <1>4, <1>5, <1>6, <1>7, <1>8, <1>9, <1>10 DEF SessionsNext

LEMMA SessionAlways == SessionsSpec => []SessionInv
BY InitiallyNoSession, SessionStep, PTL DEF SessionsSpec

\* A request finds the session that the last answer of its visitor left, whoever
\* was served before at this worker, and the forms of its page are accepted, and
\* no others (native_session_decode, native_session_encode, native_csrf_validate).
THEOREM SessionsKept == SessionsSpec => []SessionKept
<1>1. SessionInv => SessionRestored
    BY DEF SessionInv
<1>2. SessionInv => FormsAccepted
    <2> SUFFICES ASSUME SessionInv, NEW w \in SessionWorkers, Busy(w), visit[w].restored, ~visit[w].generated
                 PROVE  /\ visit[w].verdict = "refused" => visit[w].form \notin visit[w].sent.forms
                        /\ visit[w].verdict = "accepted" => visit[w].form = Token(visit[w].sent.meant)
        BY DEF FormsAccepted
    <2> QED
        BY DEF SessionInv, PagesHonest, JarsHonest, Honest
<1>3. SessionInv => SessionKept
    BY <1>1, <1>2 DEF SessionKept
<1> QED
    BY <1>3, SessionAlways, PTL

-----------------------------------------------------------------------------
(* The rate limit.                                                         *)

Records == [time : Int, allowed : BOOLEAN]
Buckets == [tokens : Int, last_refill : Int]

LimiterTypes ==
    /\ now \in Int
    /\ DOMAIN ratelimit_store \subseteq Clients
    /\ ratelimit_store \in [DOMAIN ratelimit_store -> Buckets]
    /\ checks \in [Clients -> Seq(Records)]

\* t is the latest time that the first i of a list of checks have seen.
Latest(list, i, t) ==
    (\E j \in 1 .. i : list[j].time = t) /\ \A j \in 1 .. i : list[j].time <= t

\* What the i-th check and those after it, up to the n-th, have left.
Credit(list, i, n) ==
    max_tokens + refill_rate * (Seen(list, n) - Seen(list, i)) - Allowed(list, i, n)

\* The bucket of a client after its last check: as many tokens as the stretch
\* of checks that has left the fewest.
Meters(list, bucket) ==
    /\ bucket.last_refill = Seen(list, Len(list))
    /\ \A i \in 1 .. Len(list) : bucket.tokens <= Credit(list, i, Len(list))
    /\ \E i \in 1 .. Len(list) : bucket.tokens = Credit(list, i, Len(list))

BucketsMeter ==
    \A key \in Clients :
        IF checks[key] = <<>> THEN key \notin DOMAIN ratelimit_store
        ELSE key \in DOMAIN ratelimit_store /\ Meters(checks[key], ratelimit_store[key])

\* Some check has seen the latest time.
LEMMA LatestExists ==
    ASSUME NEW list \in Seq(Records), NEW i \in 1 .. Len(list)
    PROVE  Latest(list, i, Seen(list, i)) /\ Seen(list, i) \in Int
<1>1. Len(list) \in Nat /\ \A j \in 1 .. Len(list) : list[j] \in Records
    BY LenProperties, ElementOfSeq
<1>2. \A j \in 1 .. Len(list) : list[j].time \in Int
    BY <1>1 DEF Records
<1> DEFINE Bad == {k \in Nat : k \in 1 .. Len(list) /\ ~ \E t : Latest(list, k, t)}
<1>3. Bad = {}
    <2> SUFFICES ASSUME Bad # {} PROVE FALSE
        OBVIOUS
    <2>1. PICK n \in Bad : \A m \in Bad : n <= m
        <3>1. Bad \in SUBSET Nat
            OBVIOUS
        <3> HIDE DEF Bad
        <3> QED BY <3>1, LeastNumber
    <2>2. n \in Nat /\ n \in 1 .. Len(list) /\ \A t : ~ Latest(list, n, t)
        BY <2>1
    <2>3. n # 1
        <3> SUFFICES ASSUME n = 1 PROVE FALSE
            OBVIOUS
        <3>1. Latest(list, 1, list[1].time)
            <4>1. \A j \in 1 .. 1 : j = 1
                OBVIOUS
            <4>2. list[1].time \in Int
                BY <1>2, <2>2
            <4> QED BY <4>1, <4>2 DEF Latest
        <3> QED BY <2>2, <3>1
    <2>4. n - 1 \in Nat /\ n - 1 \in 1 .. Len(list) /\ ~(n <= n - 1)
        BY <1>1, <2>2, <2>3
    <2>5. PICK t : Latest(list, n - 1, t)
        BY <2>1, <2>4
    <2>6. PICK j \in 1 .. (n - 1) : list[j].time = t
        BY <2>5 DEF Latest
    <2>7. t \in Int /\ list[n].time \in Int
        BY <1>1, <1>2, <2>2, <2>4, <2>6
    <2>8. /\ \A k \in 1 .. n : k \in 1 .. (n - 1) \/ k = n
          /\ \A k \in 1 .. n : k \in 1 .. Len(list)
          /\ j \in 1 .. n /\ n \in 1 .. n
        BY <1>1, <2>2, <2>6
    <2>9. CASE list[n].time <= t
        <3>1. Latest(list, n, t)
            BY <2>5, <2>6, <2>8, <2>9 DEF Latest
        <3> QED BY <2>2, <3>1
    <2>10. CASE ~(list[n].time <= t)
        <3>1. ASSUME NEW k \in 1 .. n PROVE list[k].time <= list[n].time
            <4>1. list[k].time \in Int
                BY <1>2, <2>8
            <4>2. CASE k = n
                BY <2>7, <4>2
            <4>3. CASE k \in 1 .. (n - 1)
                <5>1. list[k].time <= t
                    BY <2>5, <4>3 DEF Latest
                <5> QED BY <2>7, <2>10, <4>1, <5>1
            <4> QED BY <2>8, <4>2, <4>3
        <3>2. Latest(list, n, list[n].time)
            BY <2>8, <3>1 DEF Latest
        <3> QED BY <2>2, <3>2
    <2> QED BY <2>9, <2>10
<1>4. i \in Nat
    BY <1>1
<1>5. PICK t : Latest(list, i, t)
    BY <1>3, <1>4
<1>6. t \in {list[j].time : j \in 1 .. i} /\ \A j \in 1 .. i : list[j].time <= t
    BY <1>5 DEF Latest
<1>7. /\ Seen(list, i) \in {list[j].time : j \in 1 .. i}
      /\ \A j \in 1 .. i : list[j].time <= Seen(list, i)
    BY <1>6 DEF Seen
<1>8. \A j \in 1 .. i : j \in 1 .. Len(list)
    BY <1>1
<1> QED BY <1>2, <1>7, <1>8 DEF Latest

\* There is one latest time.
LEMMA SeenIs ==
    ASSUME NEW list \in Seq(Records), NEW i \in 1 .. Len(list), NEW t,
           Latest(list, i, t)
    PROVE  Seen(list, i) = t
<1>1. Len(list) \in Nat /\ \A j \in 1 .. Len(list) : list[j] \in Records
    BY LenProperties, ElementOfSeq
<1>2. \A j \in 1 .. i : list[j].time \in Int
    BY <1>1 DEF Records
<1>3. Latest(list, i, Seen(list, i)) /\ Seen(list, i) \in Int
    BY LatestExists
<1>4. t \in Int
    BY <1>2 DEF Latest
<1>5. t <= Seen(list, i) /\ Seen(list, i) <= t
    BY <1>3 DEF Latest
<1> QED BY <1>3, <1>4, <1>5

\* How many checks of a stretch were allowed is a number.
LEMMA AllowedIsNumber ==
    ASSUME NEW list, NEW i \in Int, NEW j \in Int
    PROVE  /\ IsFiniteSet({k \in i .. j : list[k].allowed})
           /\ Allowed(list, i, j) \in Nat
           /\ j < i => Allowed(list, i, j) = 0
<1>1. IsFiniteSet(i .. j)
    BY FS_Interval
<1>2. {k \in i .. j : list[k].allowed} \in SUBSET (i .. j)
    OBVIOUS
<1>3. IsFiniteSet({k \in i .. j : list[k].allowed})
    BY <1>1, <1>2, FS_Subset
<1>4. Cardinality({k \in i .. j : list[k].allowed}) \in Nat
    BY <1>3, FS_CardinalityType
<1>5. ASSUME j < i PROVE Allowed(list, i, j) = 0
    <2>1. {k \in i .. j : list[k].allowed} = {}
        BY <1>5
    <2>2. Cardinality({}) = 0
        BY FS_EmptySet
    <2> QED BY <2>1, <2>2 DEF Allowed
<1> QED BY <1>3, <1>4, <1>5 DEF Allowed

\* A list of checks that gets one more.
OneMore(list, r, new) == new = Append(list, r)
LEMMA MoreChecks ==
    ASSUME NEW list \in Seq(Records), NEW r \in Records, NEW new, OneMore(list, r, new)
    PROVE  /\ new \in Seq(Records) /\ Len(list) \in Nat /\ Len(new) = Len(list) + 1
           /\ \A k \in 1 .. Len(list) : new[k] = list[k]
           /\ new[Len(list) + 1] = r
<1>1. Len(list) \in Nat
    BY LenProperties
<1>2. new \in Seq(Records) /\ Len(new) = Len(list) + 1 /\ new[Len(list) + 1] = r
    BY AppendProperties DEF OneMore
<1>3. \A k \in 1 .. Len(list) : new[k] = list[k]
    BY AppendProperties DEF OneMore
<1> QED BY <1>1, <1>2, <1>3

\* What the earlier checks have seen stays.
LEMMA SeenStays ==
    ASSUME NEW list \in Seq(Records), NEW r \in Records, NEW new, OneMore(list, r, new),
           NEW i \in 1 .. Len(list)
    PROVE  Seen(new, i) = Seen(list, i)
<1>1. /\ new \in Seq(Records) /\ Len(list) \in Nat /\ Len(new) = Len(list) + 1
      /\ \A k \in 1 .. Len(list) : new[k] = list[k]
    BY MoreChecks
<1>2. Latest(list, i, Seen(list, i))
    BY LatestExists
<1>3. \A j \in 1 .. i : new[j] = list[j]
    BY <1>1
<1>4. Latest(new, i, Seen(list, i))
    BY <1>2, <1>3 DEF Latest
<1>5. i \in 1 .. Len(new)
    BY <1>1
<1> QED BY <1>1, <1>4, <1>5, SeenIs

\* The last check sees its own time, unless an earlier one has seen a later.
LEMMA SeenLast ==
    ASSUME NEW list \in Seq(Records), NEW r \in Records, NEW new, OneMore(list, r, new)
    PROVE  Seen(new, Len(list) + 1) =
               IF Len(list) = 0 \/ Seen(list, Len(list)) <= r.time THEN r.time
               ELSE Seen(list, Len(list))
<1>1. /\ new \in Seq(Records) /\ Len(list) \in Nat /\ Len(new) = Len(list) + 1
      /\ \A k \in 1 .. Len(list) : new[k] = list[k]
      /\ new[Len(list) + 1] = r
    BY MoreChecks
<1> DEFINE n == Len(list)
<1>2. n \in Nat /\ n = Len(list) /\ n + 1 \in 1 .. Len(new)
    BY <1>1
<1> HIDE DEF n
<1>3. r.time \in Int
    BY DEF Records
<1>4. \A k \in 1 .. (n + 1) : k \in 1 .. n \/ k = n + 1
    BY <1>2
<1>5. n + 1 \in 1 .. (n + 1) /\ \A k \in 1 .. n : k \in 1 .. (n + 1)
    BY <1>2
<1>6. CASE n = 0
    <2>1. \A k \in 1 .. (n + 1) : k = n + 1
        BY <1>6
    <2>2. Latest(new, n + 1, r.time)
        BY <1>1, <1>2, <1>3, <1>5, <2>1 DEF Latest
    <2> QED BY <1>1, <1>2, <1>6, <2>2, SeenIs
<1>7. CASE n # 0
    <2>1. n \in 1 .. Len(list)
        BY <1>2, <1>7
    <2>2. Latest(list, n, Seen(list, n)) /\ Seen(list, n) \in Int
        BY <2>1, LatestExists
    <2>3. \A k \in 1 .. n : new[k] = list[k] /\ list[k].time \in Int
        <3>1. \A k \in 1 .. Len(list) : list[k] \in Records
            BY ElementOfSeq
        <3> QED BY <1>1, <1>2, <3>1 DEF Records
    <2>4. CASE Seen(list, n) <= r.time
        <3>1. ASSUME NEW k \in 1 .. n PROVE new[k].time <= r.time
            <4>1. list[k].time <= Seen(list, n)
                BY <2>2 DEF Latest
            <4>2. list[k].time \in Int /\ Seen(list, n) \in Int /\ new[k].time = list[k].time
                BY <2>2, <2>3
            <4> QED BY <1>3, <2>4, <4>1, <4>2
        <3>2. Latest(new, n + 1, r.time)
            BY <1>1, <1>2, <1>3, <1>4, <1>5, <3>1 DEF Latest
        <3> QED BY <1>1, <1>2, <2>4, <3>2, SeenIs
    <2>5. CASE ~(Seen(list, n) <= r.time)
        <3>1. r.time <= Seen(list, n)
            BY <1>3, <2>2, <2>5
        <3>2. \A k \in 1 .. n : new[k].time <= Seen(list, n)
            BY <2>2, <2>3 DEF Latest
        <3>3. \E k \in 1 .. n : new[k].time = Seen(list, n)
            BY <2>2, <2>3 DEF Latest
        <3>4. Latest(new, n + 1, Seen(list, n))
            BY <1>1, <1>2, <1>4, <1>5, <3>1, <3>2, <3>3 DEF Latest
        <3> QED BY <1>1, <1>2, <1>7, <2>5, <3>4, SeenIs
    <2> QED BY <2>4, <2>5
<1> QED BY <1>6, <1>7

\* The same checks were allowed as often.
LEMMA AllowedSame ==
    ASSUME NEW list, NEW new, NEW i, NEW j, \A k \in i .. j : new[k] = list[k]
    PROVE  Allowed(new, i, j) = Allowed(list, i, j)
<1>1. {k \in i .. j : new[k].allowed} = {k \in i .. j : list[k].allowed}
    OBVIOUS
<1> QED BY <1>1 DEF Allowed

\* One more check is one more that was allowed, or none.
LEMMA AllowedLast ==
    ASSUME NEW list \in Seq(Records), NEW r \in Records, NEW new, OneMore(list, r, new),
           NEW i \in 1 .. (Len(list) + 1)
    PROVE  Allowed(new, i, Len(list) + 1) =
               Allowed(list, i, Len(list)) + (IF r.allowed THEN 1 ELSE 0)
<1>1. /\ Len(list) \in Nat /\ new[Len(list) + 1] = r
      /\ \A k \in 1 .. Len(list) : new[k] = list[k]
    BY MoreChecks
<1> DEFINE n == Len(list)
           A == {k \in i .. n : new[k].allowed}
           B == {k \in i .. (n + 1) : new[k].allowed}
<1>2. n \in Nat /\ n = Len(list) /\ i \in Nat \ {0} /\ i <= n + 1
    BY <1>1
<1>3. Allowed(new, i, n) = Allowed(list, i, n)
    <2>1. \A k \in i .. n : new[k] = list[k]
        BY <1>1, <1>2
    <2> QED BY <2>1, AllowedSame
<1>4. IsFiniteSet(A) /\ Cardinality(A) \in Nat
    <2>1. Len(list) \in Int /\ i \in Int
        BY <1>1
    <2>2. IsFiniteSet(A)
        BY <2>1, AllowedIsNumber
    <2> QED BY <2>2, FS_CardinalityType
<1>5. n + 1 \notin A
    BY <1>2
<1>6. \A k : k \in i .. (n + 1) <=> k \in i .. n \/ k = n + 1
    BY <1>2
<1>7. B = IF r.allowed THEN A \cup {n + 1} ELSE A
    BY <1>1, <1>6
<1>8. Cardinality(A \cup {n + 1}) = Cardinality(A) + 1
    BY <1>4, <1>5, FS_AddElement
<1>9. Allowed(new, i, n) = Cardinality(A) /\ Allowed(new, i, n + 1) = Cardinality(B)
    BY DEF Allowed
<1> HIDE DEF A, B
<1>10. Cardinality(B) = Cardinality(A) + (IF r.allowed THEN 1 ELSE 0)
    BY <1>4, <1>7, <1>8
<1> QED BY <1>3, <1>9, <1>10

\* A bucket is filled up to what the checks have left, and a token is taken.
Filled(bucket, t) ==
    LET refilled == bucket.tokens + (t - bucket.last_refill) * refill_rate
    IN  IF t <= bucket.last_refill THEN bucket.tokens
        ELSE IF refilled > max_tokens THEN max_tokens ELSE refilled

\* The first check of a client finds a full bucket.
LEMMA FirstCheck ==
    ASSUME NEW r \in Records, r.allowed = TRUE, NEW new, OneMore(<<>>, r, new),
           NEW bucket, bucket.last_refill = r.time, bucket.tokens = max_tokens - 1
    PROVE  Meters(new, bucket) /\ Seen(new, 1) = r.time /\ Allowed(new, 1, 0) = 0
<1>1. PICK e : e = <<>>
    OBVIOUS
<1>2. e \in Seq(Records) /\ Len(e) = 0 /\ OneMore(e, r, new)
    BY <1>1
<1>3. new \in Seq(Records) /\ Len(new) = 1
    <2>1. new \in Seq(Records) /\ Len(new) = Len(e) + 1
        BY <1>2, MoreChecks, ZenonT(40)
    <2> QED BY <1>2, <2>1
<1>4. Seen(new, 1) = r.time
    <2>1. Seen(new, Len(e) + 1) = r.time
        BY <1>2, SeenLast
    <2> QED BY <1>2, <2>1
<1>5. Allowed(new, 1, 1) = 1 /\ Allowed(new, 1, 0) = 0
    <2>1. 1 \in 1 .. (Len(e) + 1)
        BY <1>2
    <2>2. Allowed(new, 1, Len(e) + 1) = Allowed(e, 1, Len(e)) + 1
        BY <1>2, <2>1, AllowedLast
    <2>3. Allowed(e, 1, 0) = 0 /\ Allowed(new, 1, 0) = 0
        <3>1. 1 \in Int /\ 0 \in Int /\ 0 < 1
            OBVIOUS
        <3> QED BY <3>1, AllowedIsNumber
    <2> QED BY <1>2, <2>2, <2>3
<1>6. r.time \in Int /\ max_tokens \in Nat /\ refill_rate \in Nat
    BY ServiceLimits DEF Records
<1>7. Credit(new, 1, 1) = max_tokens - 1
    <2>1. r.time - r.time = 0 /\ refill_rate * 0 = 0
        BY <1>6
    <2> QED BY <1>4, <1>5, <1>6, <2>1 DEF Credit
<1>8. \A i \in 1 .. 1 : i = 1
    OBVIOUS
<1> QED BY <1>3, <1>4, <1>5, <1>6, <1>7, <1>8 DEF Meters

\* Multiplication over a later time.
LEMMA Later ==
    ASSUME NEW k \in Int, NEW a \in Int, NEW b \in Int, NEW c \in Int
    PROVE  k * (a - c) = k * (a - b) + k * (b - c)
OBVIOUS

LEMMA Grows ==
    ASSUME NEW k \in Nat, NEW a \in Nat
    PROVE  k * a \in Nat
OBVIOUS

\* The next checks go on from what the bucket measures.
LEMMA NextCheck ==
    ASSUME NEW list \in Seq(Records), Len(list) # 0, NEW bucket \in Buckets,
           Meters(list, bucket), NEW r \in Records, NEW new, OneMore(list, r, new),
           NEW T, T = Filled(bucket, r.time), r.allowed <=> T > 0, NEW after,
           after.tokens = IF T > 0 THEN T - 1 ELSE T,
           after.last_refill = IF r.time <= bucket.last_refill THEN bucket.last_refill
                               ELSE r.time
    PROVE  /\ Meters(new, after)
           /\ r.allowed <=>
                  \A i \in 1 .. Len(new) :
                      Allowed(new, i, Len(new) - 1)
                          < max_tokens + refill_rate * (Seen(new, Len(new)) - Seen(new, i))
<1>1. /\ new \in Seq(Records) /\ Len(list) \in Nat /\ Len(new) = Len(list) + 1
      /\ \A k \in 1 .. Len(list) : new[k] = list[k]
      /\ new[Len(list) + 1] = r
    BY MoreChecks
<1>27. \A i \in 1 .. (Len(list) + 1) :
          /\ Allowed(new, i, Len(list)) = Allowed(list, i, Len(list))
          /\ Allowed(new, i, Len(list) + 1) =
                 Allowed(list, i, Len(list)) + (IF r.allowed THEN 1 ELSE 0)
          /\ Allowed(list, i, Len(list)) \in Nat
    <2> TAKE i \in 1 .. (Len(list) + 1)
    <2>1. /\ Len(list) \in Int /\ i \in Int
          /\ \A k \in i .. Len(list) : new[k] = list[k]
        BY <1>1
    <2>2. Allowed(new, i, Len(list)) = Allowed(list, i, Len(list))
        BY <2>1, AllowedSame
    <2>3. Allowed(list, i, Len(list)) \in Nat
        BY <2>1, AllowedIsNumber
    <2>4. Allowed(new, i, Len(list) + 1) =
              Allowed(list, i, Len(list)) + (IF r.allowed THEN 1 ELSE 0)
        BY AllowedLast
    <2> QED BY <2>2, <2>3, <2>4
<1>2. PICK n : n = Len(list)
    OBVIOUS
<1>3. n \in Nat \ {0} /\ n = Len(list) /\ Len(new) = n + 1 /\ Len(new) - 1 = n
    BY <1>1, <1>2
<1>4. n \in 1 .. n /\ n + 1 \in 1 .. (n + 1) /\ \A k \in 1 .. n : k \in 1 .. (n + 1)
    BY <1>3
<1>5. PICK t : t = r.time
    OBVIOUS
<1>6. PICK S : S = bucket.last_refill
    OBVIOUS
<1>7. PICK old : old = bucket.tokens
    OBVIOUS
<1>8. t \in Int /\ S \in Int /\ old \in Int /\ max_tokens \in Nat /\ refill_rate \in Nat
    BY <1>5, <1>6, <1>7, ServiceLimits DEF Records, Buckets
<1>9. S = Seen(list, n)
    BY <1>3, <1>6 DEF Meters
<1>10. PICK S2 : S2 = IF S <= t THEN t ELSE S
    OBVIOUS
<1>11. S2 \in Int /\ S <= S2 /\ after.last_refill = S2 /\ Seen(new, n + 1) = S2
    <2>1. Seen(new, Len(list) + 1) =
              IF Len(list) = 0 \/ Seen(list, Len(list)) <= r.time THEN r.time
              ELSE Seen(list, Len(list))
        BY SeenLast
    <2>2. Seen(new, n + 1) = S2
        BY <1>3, <1>5, <1>9, <1>10, <2>1
    <2>3. after.last_refill = S2
        BY <1>5, <1>6, <1>8, <1>10
    <2> QED BY <1>8, <1>10, <2>2, <2>3
<1>12. PICK G : G = refill_rate * (S2 - S)
    OBVIOUS
<1>13. G \in Nat /\ (t <= S => G = 0)
    <2>1. S2 - S \in Nat
        BY <1>8, <1>11
    <2>2. G \in Nat
        BY <1>8, <1>12, <2>1, Grows
    <2>3. t <= S => S2 - S = 0
        BY <1>8, <1>10
    <2>4. refill_rate * 0 = 0
        BY <1>8
    <2> QED BY <1>12, <2>2, <2>3, <2>4
<1>14. PICK C : C = [i \in 1 .. n |-> Credit(list, i, n)]
    OBVIOUS
<1>15. PICK D : D = [i \in 1 .. (n + 1) |->
                        max_tokens + refill_rate * (S2 - Seen(new, i)) - Allowed(new, i, n)]
    OBVIOUS
<1>16. ASSUME NEW i \in 1 .. n
       PROVE  C[i] \in Int /\ D[i] = C[i] + G
    <2>1. i \in Nat \ {0} /\ i \in 1 .. Len(list) /\ n \in Int /\ i \in Int /\ n <= Len(list)
        BY <1>3
    <2>2. Seen(list, i) \in Int /\ Seen(new, i) = Seen(list, i)
        BY <2>1, LatestExists, SeenStays
    <2>3. Allowed(list, i, n) \in Nat
        BY <2>1, AllowedIsNumber
    <2>4. Allowed(new, i, n) = Allowed(list, i, n)
        BY <1>1, <1>3, <1>27
    <2>5. refill_rate * (S2 - Seen(list, i)) = G + refill_rate * (S - Seen(list, i))
        BY <1>8, <1>11, <1>12, <2>2, Later
    <2>6. refill_rate * (S - Seen(list, i)) \in Int
        BY <1>8, <2>2
    <2>7. C[i] = max_tokens + refill_rate * (S - Seen(list, i)) - Allowed(list, i, n)
        BY <1>9, <1>14 DEF Credit
    <2>8. D[i] = max_tokens + refill_rate * (S2 - Seen(list, i)) - Allowed(list, i, n)
        BY <1>4, <1>15, <2>2, <2>4
    <2> QED BY <1>8, <1>13, <2>3, <2>5, <2>6, <2>7, <2>8
<1>17. D[n + 1] = max_tokens
    <2>1. n + 1 \in Int /\ n \in Int /\ n < n + 1
        BY <1>3
    <2>2. Allowed(new, n + 1, n) = 0
        BY <2>1, AllowedIsNumber
    <2>3. S2 - S2 = 0 /\ refill_rate * 0 = 0
        BY <1>8, <1>11
    <2>4. D[n + 1] = max_tokens + refill_rate * (S2 - S2) - Allowed(new, n + 1, n)
        BY <1>4, <1>11, <1>15
    <2> QED BY <1>8, <2>2, <2>3, <2>4
<1>18. C[n] <= max_tokens
    <2>1. n \in Int
        BY <1>3
    <2>2. Allowed(list, n, n) \in Nat
        BY <2>1, AllowedIsNumber
    <2>3. S - S = 0 /\ refill_rate * 0 = 0
        BY <1>8
    <2>4. C[n] = max_tokens + refill_rate * (S - S) - Allowed(list, n, n)
        BY <1>4, <1>9, <1>14 DEF Credit
    <2> QED BY <1>8, <2>2, <2>3, <2>4
<1>19. (\A i \in 1 .. n : old <= C[i]) /\ \E i \in 1 .. n : old = C[i]
    BY <1>3, <1>7, <1>14 DEF Meters
<1>20. T = IF old + G <= max_tokens THEN old + G ELSE max_tokens
    <2>1. CASE t <= S
        <3>1. T = old
            BY <1>5, <1>6, <1>7, <2>1 DEF Filled
        <3>2. old <= max_tokens
            BY <1>4, <1>8, <1>16, <1>18, <1>19
        <3> QED BY <1>8, <1>13, <2>1, <3>1, <3>2
    <2>2. CASE ~(t <= S)
        <3>1. S2 = t
            BY <1>8, <1>10, <2>2
        <3>2. G = (t - S) * refill_rate
            BY <1>8, <1>12, <3>1
        <3>3. T = IF old + (t - S) * refill_rate > max_tokens THEN max_tokens
                  ELSE old + (t - S) * refill_rate
            BY <1>5, <1>6, <1>7, <2>2 DEF Filled
        <3> QED BY <1>8, <1>13, <3>2, <3>3
    <2> QED BY <2>1, <2>2
<1>21. T \in Int
    BY <1>8, <1>13, <1>20
<1>22. /\ \A i \in 1 .. (n + 1) : D[i] \in Int /\ T <= D[i]
       /\ \E i \in 1 .. (n + 1) : T = D[i]
    <2>1. ASSUME NEW i \in 1 .. (n + 1) PROVE D[i] \in Int /\ T <= D[i]
        <3>1. CASE i \in 1 .. n
            <4>1. C[i] \in Int /\ D[i] = C[i] + G /\ old <= C[i]
                BY <1>16, <1>19, <3>1
            <4> QED BY <1>8, <1>13, <1>20, <4>1
        <3>2. CASE i = n + 1
            BY <1>8, <1>13, <1>17, <1>20, <3>2
        <3> QED BY <1>3, <3>1, <3>2
    <2>2. PICK i \in 1 .. n : old = C[i]
        BY <1>19
    <2>3. CASE old + G <= max_tokens
        <3>1. D[i] = C[i] + G /\ i \in 1 .. (n + 1)
            BY <1>4, <1>16
        <3>2. T = D[i]
            BY <1>20, <2>2, <2>3, <3>1
        <3> QED BY <2>1, <3>1, <3>2
    <2>4. CASE ~(old + G <= max_tokens)
        <3>1. T = D[n + 1]
            BY <1>17, <1>20, <2>4
        <3> QED BY <1>4, <2>1, <3>1
    <2> QED BY <2>1, <2>3, <2>4
<1>23. T > 0 <=> \A i \in 1 .. (n + 1) : D[i] > 0
    BY <1>21, <1>22
<1>24. ASSUME NEW i \in 1 .. (n + 1)
       PROVE  /\ Credit(new, i, n + 1) = D[i] - (IF r.allowed THEN 1 ELSE 0)
              /\ D[i] > 0 <=> Allowed(new, i, n)
                                < max_tokens + refill_rate * (Seen(new, n + 1) - Seen(new, i))
    <2>1. i \in 1 .. Len(new) /\ i \in Int /\ n \in Int /\ i \in 1 .. (Len(list) + 1)
          /\ i \in Nat \ {0} /\ n <= Len(list)
        BY <1>3
    <2>2. Seen(new, i) \in Int
        BY <1>1, <2>1, LatestExists
    <2>3. Allowed(new, i, n) \in Nat /\ Allowed(new, i, n) = Allowed(list, i, n)
        BY <1>3, <1>27
    <2>4. Allowed(new, i, n + 1) = Allowed(new, i, n) + (IF r.allowed THEN 1 ELSE 0)
        BY <1>3, <1>27
    <2>5. PICK x : x = refill_rate * (S2 - Seen(new, i))
        OBVIOUS
    <2>6. x \in Int
        BY <1>8, <1>11, <2>2, <2>5
    <2>7. D[i] = max_tokens + x - Allowed(new, i, n)
        BY <1>15, <2>5
    <2>8. Credit(new, i, n + 1) = max_tokens + x - Allowed(new, i, n + 1)
        BY <1>11, <2>5 DEF Credit
    <2>9. D[i] > 0 <=> Allowed(new, i, n) < max_tokens + x
        BY <1>8, <2>3, <2>6, <2>7
    <2>10. Credit(new, i, n + 1) = D[i] - (IF r.allowed THEN 1 ELSE 0)
        BY <1>8, <2>3, <2>4, <2>6, <2>7, <2>8
    <2> QED BY <1>11, <2>5, <2>9, <2>10
<1>25. Meters(new, after)
    <2>1. after.tokens = T - (IF r.allowed THEN 1 ELSE 0)
        BY <1>21
    <2>2. \A i \in 1 .. (n + 1) : after.tokens <= Credit(new, i, n + 1)
        BY <1>21, <1>22, <1>24, <2>1
    <2>3. \E i \in 1 .. (n + 1) : after.tokens = Credit(new, i, n + 1)
        BY <1>22, <1>24, <2>1
    <2> QED BY <1>3, <1>11, <2>2, <2>3 DEF Meters
<1>26. r.allowed <=> \A i \in 1 .. (n + 1) :
              Allowed(new, i, n) < max_tokens + refill_rate * (Seen(new, n + 1) - Seen(new, i))
    BY <1>23, <1>24
<1> QED BY <1>3, <1>25, <1>26

\* Only native_ratelimit_check changes buckets.
LEMMA CheckStep ==
    ASSUME LimiterTypes, BucketsMeter, RateBounded, NEW key \in Clients,
           native_ratelimit_check(key)
    PROVE  LimiterTypes' /\ BucketsMeter' /\ RateBounded'
<1>1. /\ now \in Int /\ now' = now /\ checks \in [Clients -> Seq(Records)]
      /\ DOMAIN ratelimit_store \subseteq Clients
      /\ ratelimit_store \in [DOMAIN ratelimit_store -> Buckets]
    BY DEF LimiterTypes, native_ratelimit_check, Call
<1>2. PICK list \in Seq(Records) : list = checks[key]
    BY <1>1
<1>3. PICK bucket : bucket = Bucket(key)
    OBVIOUS
<1>4. /\ bucket \in Buckets
      /\ list = <<>> => bucket = [tokens |-> max_tokens, last_refill |-> now]
      /\ list # <<>> => Meters(list, bucket)
    <2>1. IF list = <<>> THEN key \notin DOMAIN ratelimit_store
          ELSE key \in DOMAIN ratelimit_store /\ Meters(list, ratelimit_store[key])
        BY <1>2 DEF BucketsMeter
    <2>2. max_tokens \in Int
        BY ServiceLimits
    <2> QED BY <1>1, <1>3, <2>1, <2>2 DEF Bucket, Buckets
<1>5. PICK T : T = Filled(bucket, now)
    OBVIOUS
<1>6. PICK after : after = [tokens |-> IF T > 0 THEN T - 1 ELSE T,
                            last_refill |-> IF now <= bucket.last_refill
                                            THEN bucket.last_refill ELSE now]
    OBVIOUS
<1>7. bucket.tokens \in Int /\ bucket.last_refill \in Int
      /\ max_tokens \in Nat /\ refill_rate \in Nat
    BY <1>4, ServiceLimits DEF Buckets
<1>8. T \in Int
    <2>1. (now - bucket.last_refill) * refill_rate \in Int
        BY <1>1, <1>7
    <2> QED BY <1>5, <1>7, <2>1 DEF Filled
<1>9. Refilled(bucket) = [tokens |-> T, last_refill |-> after.last_refill]
    <2>1. now - bucket.last_refill <= 0 <=> now <= bucket.last_refill
        BY <1>1, <1>7
    <2>2. bucket = [tokens |-> bucket.tokens, last_refill |-> bucket.last_refill]
        BY <1>4 DEF Buckets
    <2> QED BY <1>5, <1>6, <2>1, <2>2 DEF Refilled, Filled
<1>10. PICK r : r = [time |-> now, allowed |-> T > 0]
    OBVIOUS
<1>11. r \in Records /\ r.time = now /\ (r.allowed <=> T > 0)
    <2>1. (T > 0) \in BOOLEAN
        BY <1>8
    <2>2. r.time = now /\ r.allowed = (T > 0)
        BY <1>10
    <2>3. r \in Records
        BY <1>1, <1>10, <2>1, Zenon DEF Records
    <2> QED BY <2>2, <2>3
<1>12. PICK new : new = Append(list, r)
    OBVIOUS
<1>13. OneMore(list, r, new)
    BY <1>12 DEF OneMore
<1>14. /\ ratelimit_store' = WithEntry(ratelimit_store, key, after)
       /\ checks' = [checks EXCEPT ![key] = new]
    BY <1>2, <1>3, <1>6, <1>9, <1>10, <1>12 DEF native_ratelimit_check
<1>15. /\ new \in Seq(Records) /\ Len(list) \in Nat /\ Len(new) = Len(list) + 1
       /\ \A k \in 1 .. Len(list) : new[k] = list[k]
       /\ new[Len(list) + 1] = r
    BY <1>11, <1>13, MoreChecks
<1>16. after \in Buckets
    BY <1>1, <1>6, <1>7, <1>8 DEF Buckets
<1>17. LimiterTypes'
    BY <1>1, <1>14, <1>15, <1>16 DEF LimiterTypes, WithEntry
<1>18. /\ Meters(new, after)
       /\ r.allowed <=>
              \A i \in 1 .. Len(new) :
                  Allowed(new, i, Len(new) - 1)
                      < max_tokens + refill_rate * (Seen(new, Len(new)) - Seen(new, i))
    <2>1. CASE list = <<>>
        <3>1. T = max_tokens /\ T > 0 /\ bucket.last_refill = now
            BY <1>1, <1>4, <1>5, <2>1, ServiceLimits DEF Filled
        <3>2. r.allowed = TRUE /\ after.tokens = max_tokens - 1 /\ after.last_refill = r.time
            BY <1>1, <1>6, <1>10, <3>1
        <3>3. Meters(new, after) /\ Seen(new, 1) = r.time /\ Allowed(new, 1, 0) = 0
            BY <1>11, <1>13, <2>1, <3>2, FirstCheck
        <3>4. Len(new) = 1
            BY <1>15, <2>1
        <3>5. 0 < max_tokens + refill_rate * (r.time - r.time)
            <4>1. r.time - r.time = 0 /\ refill_rate * 0 = 0
                BY <1>1, <1>7, <1>11
            <4> QED BY <3>1, <1>7, <4>1
        <3>6. \A i \in 1 .. Len(new) : i = 1
            BY <3>4
        <3> QED BY <3>2, <3>3, <3>4, <3>5, <3>6
    <2>2. CASE list # <<>>
        <3>1. Len(list) # 0
            BY <2>2, EmptySeq
        <3>2. /\ after.tokens = IF T > 0 THEN T - 1 ELSE T
              /\ after.last_refill = IF r.time <= bucket.last_refill
                                     THEN bucket.last_refill ELSE r.time
            BY <1>6, <1>11
        <3>3. T = Filled(bucket, r.time)
            BY <1>5, <1>11
        <3> QED BY <1>4, <1>11, <1>13, <2>2, <3>1, <3>2, <3>3, NextCheck
    <2> QED BY <2>1, <2>2
<1>19. new # <<>>
    BY <1>15
<1>20. BucketsMeter'
    <2> SUFFICES ASSUME NEW k \in Clients
                 PROVE  IF checks'[k] = <<>> THEN k \notin DOMAIN ratelimit_store'
                        ELSE /\ k \in DOMAIN ratelimit_store'
                             /\ Meters(checks'[k], ratelimit_store'[k])
        BY DEF BucketsMeter, Meters, Credit
    <2>1. CASE k = key
        <3>1. checks'[k] = new /\ k \in DOMAIN ratelimit_store' /\ ratelimit_store'[k] = after
            BY <1>1, <1>14, <2>1 DEF WithEntry
        <3> QED BY <1>18, <1>19, <3>1
    <2>2. CASE k # key
        <3>1. checks'[k] = checks[k]
            BY <1>1, <1>14, <2>2
        <3>2. k \in DOMAIN ratelimit_store' <=> k \in DOMAIN ratelimit_store
            BY <1>14, <2>2 DEF WithEntry
        <3>3. k \in DOMAIN ratelimit_store => ratelimit_store'[k] = ratelimit_store[k]
            BY <1>14, <2>2 DEF WithEntry
        <3> QED BY <3>1, <3>2, <3>3 DEF BucketsMeter
    <2> QED BY <2>1, <2>2
<1>21. RateBounded'
    <2> SUFFICES ASSUME NEW k \in Clients, NEW j \in DOMAIN checks'[k]
                 PROVE  checks'[k][j].allowed <=>
                            \A i \in 1 .. j :
                                Allowed(checks'[k], i, j - 1) <
                                    max_tokens + refill_rate *
                                        (Seen(checks'[k], j) - Seen(checks'[k], i))
        BY DEF RateBounded
    <2>1. CASE k # key
        <3>1. checks'[k] = checks[k]
            BY <1>1, <1>14, <2>1
        <3> QED BY <3>1 DEF RateBounded
    <2>2. CASE k = key
        <3>1. checks'[k] = new
            BY <1>1, <1>14, <2>2
        <3>2. j \in 1 .. Len(new)
            BY <1>15, <3>1, LenProperties
        <3>3. CASE j = Len(new)
            <4>1. new[j] = r
                BY <1>15, <3>3
            <4> QED BY <1>18, <3>1, <3>3, <4>1
        <3>4. CASE j # Len(new)
            <4>1. j \in 1 .. Len(list) /\ DOMAIN list = 1 .. Len(list)
                BY <1>15, <3>2, <3>4, LenProperties
            <4>2. new[j] = list[j]
                BY <1>15, <4>1
            <4>3. list[j].allowed <=>
                      \A i \in 1 .. j :
                          Allowed(list, i, j - 1) <
                              max_tokens + refill_rate * (Seen(list, j) - Seen(list, i))
                BY <1>2, <4>1 DEF RateBounded
            <4>4. ASSUME NEW i \in 1 .. j
                  PROVE  /\ Allowed(new, i, j - 1) = Allowed(list, i, j - 1)
                         /\ Seen(new, i) = Seen(list, i)
                <5>1. i \in 1 .. Len(list) /\ \A n \in i .. (j - 1) : n \in 1 .. Len(list)
                    BY <1>15, <4>1
                <5>2. \A n \in i .. (j - 1) : new[n] = list[n]
                    BY <1>15, <5>1
                <5>3. Allowed(new, i, j - 1) = Allowed(list, i, j - 1)
                    BY <5>2, AllowedSame
                <5>4. Seen(new, i) = Seen(list, i)
                    BY <1>11, <1>13, <5>1, SeenStays
                <5> QED BY <5>3, <5>4
            <4>5. j \in 1 .. j
                BY <1>15, <4>1
            <4> QED BY <3>1, <4>2, <4>3, <4>4, <4>5
        <3> QED BY <3>3, <3>4
    <2> QED BY <2>1, <2>2
<1> QED BY <1>17, <1>20, <1>21

-----------------------------------------------------------------------------
(* The cache.                                                              *)

Entries == [v : Nat, e : Int]

\* A key that was not found has no entry; any other that was set and not deleted
\* has the entry that was set last.
CacheFollows ==
    /\ calls \in Nat
    /\ lastSet \in [DOMAIN lastSet -> Entries]
    /\ \A key \in missed : key \notin DOMAIN cache_store
    /\ \A key \in DOMAIN cache_store :
           key \in DOMAIN lastSet /\ cache_store[key] = lastSet[key]
    /\ \A key \in DOMAIN lastSet : key \in missed \/ key \in DOMAIN cache_store

LEMMA SetStep ==
    ASSUME now \in Int, CacheFollows, NEW key \in CacheKeys, NEW ttl \in Ttls,
           native_cache_set(key, ttl)
    PROVE  CacheFollows'
<1>1. PICK entry : entry = [v |-> calls, e |-> now + ttl]
    OBVIOUS
<1>2. entry \in Entries
    BY <1>1, ServiceLimits DEF Entries, CacheFollows
<1>3. /\ cache_store' = WithEntry(cache_store, key, entry)
      /\ lastSet' = WithEntry(lastSet, key, entry)
      /\ missed' = missed \ {key} /\ calls' = calls + 1
    BY <1>1 DEF native_cache_set, Call
<1> QED BY <1>2, <1>3 DEF CacheFollows, WithEntry

LEMMA GetStep ==
    ASSUME now \in Int, CacheFollows, NEW key \in CacheKeys, native_cache_get(key)
    PROVE  CacheFollows' /\ ExpiredStaysGone'
<1>1. lastSet' = lastSet /\ calls' = calls + 1 /\ calls \in Nat
    BY DEF native_cache_get, Call, CacheFollows
<1>2. key \in DOMAIN lastSet => lastSet[key].e \in Int
    BY DEF CacheFollows, Entries
<1>3. CASE key \in DOMAIN cache_store /\ ~Expired(key)
    <2>1. /\ told' = [answer |-> {cache_store[key].v}, last |-> LastSet(key),
                      missed |-> key \in missed]
          /\ cache_store' = cache_store /\ missed' = missed
        BY <1>3 DEF native_cache_get
    <2>2. key \notin missed /\ key \in DOMAIN lastSet /\ cache_store[key] = lastSet[key]
        BY <1>3 DEF CacheFollows
    <2>3. now < lastSet[key].e
        BY <1>2, <1>3, <2>2 DEF Expired
    <2>4. ExpiredStaysGone'
        BY <2>1, <2>2, <2>3 DEF ExpiredStaysGone, LastSet
    <2> QED BY <1>1, <2>1, <2>4 DEF CacheFollows
<1>4. CASE ~(key \in DOMAIN cache_store /\ ~Expired(key))
    <2>1. /\ told' = [answer |-> {}, last |-> LastSet(key), missed |-> key \in missed]
          /\ missed' = missed \cup {key}
          /\ cache_store' = IF key \in DOMAIN cache_store THEN WithoutEntry(cache_store, key)
                            ELSE cache_store
        BY <1>4 DEF native_cache_get
    <2>2. key \notin missed => LastSet(key) = {}
        BY <1>2, <1>4 DEF CacheFollows, LastSet, Expired
    <2>3. ExpiredStaysGone'
        BY <2>1, <2>2 DEF ExpiredStaysGone
    <2>4. CacheFollows'
        BY <1>1, <2>1 DEF CacheFollows, WithoutEntry
    <2> QED BY <2>3, <2>4
<1> QED BY <1>3, <1>4

LEMMA DeleteStep ==
    ASSUME CacheFollows, NEW key \in CacheKeys, native_cache_delete(key)
    PROVE  CacheFollows'
<1>1. /\ cache_store' = WithoutEntry(cache_store, key)
      /\ lastSet' = WithoutEntry(lastSet, key)
      /\ missed' = missed /\ calls' = calls + 1
    BY DEF native_cache_delete, Call
<1> QED BY <1>1 DEF CacheFollows, WithoutEntry

-----------------------------------------------------------------------------
ServicesInv == LimiterTypes /\ BucketsMeter /\ CacheFollows

\* What a step that leaves the rate limits, or the cache, alone keeps of them.
LEMMA LimiterAlone ==
    ASSUME LimiterTypes, BucketsMeter, RateBounded, UNCHANGED limiter, now' \in Int
    PROVE  LimiterTypes' /\ BucketsMeter' /\ RateBounded'
<1>1. ratelimit_store' = ratelimit_store /\ checks' = checks
    BY DEF limiter
<1>2. LimiterTypes'
    BY <1>1 DEF LimiterTypes
<1>3. BucketsMeter'
    BY <1>1 DEF BucketsMeter, Meters, Credit
<1>4. RateBounded'
    BY <1>1 DEF RateBounded
<1> QED BY <1>2, <1>3, <1>4

LEMMA CacheAlone ==
    ASSUME CacheFollows, ExpiredStaysGone, UNCHANGED cache, calls' \in Nat
    PROVE  CacheFollows' /\ ExpiredStaysGone'
BY DEF CacheFollows, ExpiredStaysGone, cache

LEMMA ServicesStep ==
    ASSUME ServicesInv, KeepsTime, [ServicesNext]_ServicesVars
    PROVE  ServicesInv' /\ KeepsTime'
<1>1. /\ LimiterTypes /\ BucketsMeter /\ CacheFollows
      /\ RateBounded /\ ExpiredStaysGone
    BY DEF ServicesInv, KeepsTime
<1>2. now \in Int /\ calls \in Nat
    BY <1>1 DEF LimiterTypes, CacheFollows
<1> DEFINE Goal == /\ LimiterTypes' /\ BucketsMeter' /\ CacheFollows'
                   /\ RateBounded' /\ ExpiredStaysGone'
<1>3. ASSUME UNCHANGED ServicesVars PROVE Goal
    <2>1. UNCHANGED limiter /\ UNCHANGED cache /\ now' \in Int /\ calls' \in Nat
        BY <1>2, <1>3 DEF ServicesVars, limiter, cache
    <2> QED BY <1>1, <2>1, LimiterAlone, CacheAlone
<1>4. ASSUME NEW key \in Clients, native_ratelimit_check(key) PROVE Goal
    <2>1. UNCHANGED cache /\ calls' \in Nat
        BY <1>2, <1>4 DEF native_ratelimit_check, Call
    <2> QED BY <1>1, <1>4, <2>1, CheckStep, CacheAlone
<1>5. ASSUME NEW key \in CacheKeys, NEW ttl \in Ttls, native_cache_set(key, ttl) PROVE Goal
    <2>1. UNCHANGED limiter /\ told' = told /\ now' \in Int
        BY <1>2, <1>5 DEF native_cache_set, Call
    <2>2. ExpiredStaysGone'
        BY <1>1, <2>1 DEF ExpiredStaysGone
    <2> QED BY <1>1, <1>2, <1>5, <2>1, <2>2, SetStep, LimiterAlone
<1>6. ASSUME NEW key \in CacheKeys, native_cache_get(key) PROVE Goal
    <2>1. UNCHANGED limiter /\ now' \in Int
        BY <1>2, <1>6 DEF native_cache_get, Call
    <2> QED BY <1>1, <1>2, <1>6, <2>1, GetStep, LimiterAlone
<1>7. ASSUME NEW key \in CacheKeys, native_cache_delete(key) PROVE Goal
    <2>1. UNCHANGED limiter /\ told' = told /\ now' \in Int
        BY <1>2, <1>7 DEF native_cache_delete, Call
    <2>2. ExpiredStaysGone'
        BY <1>1, <2>1 DEF ExpiredStaysGone
    <2> QED BY <1>1, <1>2, <1>7, <2>1, <2>2, DeleteStep, LimiterAlone
<1>8. ASSUME NEW t \in 0 .. MaxTime, clock(t) PROVE Goal
    <2>1. UNCHANGED limiter /\ UNCHANGED cache /\ now' \in Int /\ calls' \in Nat
        BY <1>2, <1>8, ServiceLimits DEF clock
    <2> QED BY <1>1, <2>1, LimiterAlone, CacheAlone
<1>9. Goal
    BY <1>3, <1>4, <1>5, <1>6, <1>7, <1>8 DEF ServicesNext
<1> QED BY <1>9 DEF ServicesInv, KeepsTime

\* Whatever the clock does, a check is allowed just when no stretch of checks has
\* had more than max_tokens and what was refilled meanwhile
\* (native_ratelimit_check), and the cache returns the value that was set last
\* before it expires, and nothing for a key that it has not found since
\* (native_cache_get).
THEOREM TimeKept == ServicesSpec => []KeepsTime
<1>1. ServicesInit => ServicesInv /\ KeepsTime
    <2> SUFFICES ASSUME ServicesInit PROVE ServicesInv /\ KeepsTime
        OBVIOUS
    <2>1. LimiterTypes /\ BucketsMeter /\ CacheFollows
        BY DEF ServicesInit, LimiterTypes, BucketsMeter, CacheFollows
    <2>2. RateBounded
        BY DEF ServicesInit, RateBounded
    <2>3. ExpiredStaysGone
        BY DEF ServicesInit, ExpiredStaysGone
    <2> QED BY <2>1, <2>2, <2>3 DEF ServicesInv, KeepsTime
<1>2. ServicesInv /\ KeepsTime /\ [ServicesNext]_ServicesVars => (ServicesInv /\ KeepsTime)'
    BY ServicesStep
<1> QED BY <1>1, <1>2, PTL DEF ServicesSpec

-----------------------------------------------------------------------------
(* The messages.                                                           *)

\* Both kinds of store, of every process, are boxes for messages.
Boxes == [k \in {1, 2} |-> IF k = 1 THEN flash_data ELSE flash_store]
Place == [kind : {1, 2}, worker : SessionWorkers, type : Types]
Msg(B, p) == B[p.kind][p.worker][p.type]
Occupied(B) == {p \in Place : p.type \in DOMAIN B[p.kind][p.worker]}
WaitingIn(B) == {Msg(B, p) : p \in Occupied(B)}
ReadOf(s) == {s[i] : i \in 1 .. Len(s)}

\* Of n messages, each waits in one place, has been read once, or is gone.
Placed(B, n, s, g) ==
    /\ n \in Nat /\ s \in Seq(Nat)
    /\ \A k \in {1, 2} : \A w \in SessionWorkers : DOMAIN B[k][w] \subseteq Types
    /\ 1 .. n = WaitingIn(B) \cup ReadOf(s) \cup g
    /\ \A p, q \in Occupied(B) : Msg(B, p) = Msg(B, q) => p = q
    /\ WaitingIn(B) \cap (ReadOf(s) \cup g) = {} /\ ReadOf(s) \cap g = {}
    /\ \A i, j \in 1 .. Len(s) : s[i] = s[j] => i = j

\* Only the box k of worker w changes.
Elsewhere(B, C, k, w) ==
    \A j \in {1, 2} : \A v \in SessionWorkers : j # k \/ v # w => C[j][v] = B[j][v]

\* A new message is put into a box, perhaps in place of another.
LEMMA MessagePut ==
    ASSUME NEW B, NEW n, NEW s, NEW g, Placed(B, n, s, g),
           NEW k \in {1, 2}, NEW w \in SessionWorkers, NEW t \in Types,
           NEW C, Elsewhere(B, C, k, w), C[k][w] = WithKey(B[k][w], t, n + 1)
    PROVE  Placed(C, n + 1, s, g \cup Replacing(B[k][w], t))
<1>1. PICK x : x = [kind |-> k, worker |-> w, type |-> t]
    OBVIOUS
<1>2. x \in Place /\ x.kind = k /\ x.worker = w /\ x.type = t
    BY <1>1 DEF Place
<1>3. \A p \in Place : p # x => p.kind # k \/ p.worker # w \/ p.type # t
    BY <1>1 DEF Place
<1>4. DOMAIN C[k][w] = DOMAIN B[k][w] \cup {t} /\ C[k][w][t] = n + 1
      /\ \A u \in DOMAIN B[k][w] : u # t => C[k][w][u] = B[k][w][u]
    BY DEF WithKey
<1>5. ASSUME NEW p \in Place, p # x
      PROVE  (p \in Occupied(C) <=> p \in Occupied(B)) /\ (p \in Occupied(B) => Msg(C, p) = Msg(B, p))
    <2>1. p.kind \in {1, 2} /\ p.worker \in SessionWorkers
        BY DEF Place
    <2>2. CASE p.kind = k /\ p.worker = w
        BY <1>3, <1>4, <1>5, <2>2 DEF Occupied, Msg
    <2>3. CASE p.kind # k \/ p.worker # w
        <3>1. C[p.kind][p.worker] = B[p.kind][p.worker]
            BY <2>1, <2>3 DEF Elsewhere
        <3> QED BY <3>1 DEF Occupied, Msg
    <2> QED BY <2>2, <2>3
<1>6. x \in Occupied(C) /\ Msg(C, x) = n + 1
    BY <1>2, <1>4 DEF Occupied, Msg
<1>7. Replacing(B[k][w], t) = IF x \in Occupied(B) THEN {Msg(B, x)} ELSE {}
    BY <1>2 DEF Replacing, Occupied, Msg
<1>8. Occupied(B) \subseteq Place /\ Occupied(C) \subseteq Place
    BY DEF Occupied
<1>9. n \in Nat /\ n + 1 \in Nat /\ n + 1 \notin 1 .. n /\ 1 .. (n + 1) = (1 .. n) \cup {n + 1}
    BY DEF Placed
<1>10. \A m : m \in WaitingIn(C) <=> m = n + 1 \/ \E p \in Occupied(B) : p # x /\ Msg(B, p) = m
    BY <1>5, <1>6, <1>8 DEF WaitingIn
<1>11. \A m : m \in WaitingIn(B) <=> (x \in Occupied(B) /\ m = Msg(B, x))
                                     \/ \E p \in Occupied(B) : p # x /\ Msg(B, p) = m
    BY DEF WaitingIn
<1>12. 1 .. n = WaitingIn(B) \cup ReadOf(s) \cup g
    BY DEF Placed
<1>13. 1 .. (n + 1) = WaitingIn(C) \cup ReadOf(s) \cup (g \cup Replacing(B[k][w], t))
    BY <1>7, <1>9, <1>10, <1>11, <1>12
<1>14. /\ \A p, q \in Occupied(B) : Msg(B, p) = Msg(B, q) => p = q
       /\ WaitingIn(B) \cap (ReadOf(s) \cup g) = {} /\ ReadOf(s) \cap g = {}
    BY DEF Placed
<1>15. \A p \in Occupied(B) : Msg(B, p) \in WaitingIn(B) /\ Msg(B, p) # n + 1
    <2>1. \A p \in Occupied(B) : Msg(B, p) \in WaitingIn(B)
        BY DEF WaitingIn
    <2> QED BY <1>9, <1>12, <2>1
<1>16. ASSUME NEW p \in Occupied(C), NEW q \in Occupied(C), Msg(C, p) = Msg(C, q) PROVE p = q
    BY <1>5, <1>6, <1>8, <1>14, <1>15, <1>16
<1>17. WaitingIn(C) \cap (ReadOf(s) \cup (g \cup Replacing(B[k][w], t))) = {}
    <2>1. ASSUME NEW p \in Occupied(B), p # x
          PROVE  Msg(B, p) \notin ReadOf(s) \cup (g \cup Replacing(B[k][w], t))
        <3>1. Msg(B, p) \notin ReadOf(s) \cup g
            BY <1>14, <1>15
        <3>2. Msg(B, p) \notin Replacing(B[k][w], t)
            BY <1>7, <1>14, <2>1
        <3> QED BY <3>1, <3>2
    <2>2. n + 1 \notin ReadOf(s) \cup (g \cup Replacing(B[k][w], t))
        BY <1>7, <1>9, <1>12, <1>15
    <2> QED BY <1>10, <2>1, <2>2
<1>18. ReadOf(s) \cap (g \cup Replacing(B[k][w], t)) = {}
    BY <1>7, <1>14, <1>15
<1>19. ASSUME NEW j \in {1, 2}, NEW v \in SessionWorkers PROVE DOMAIN C[j][v] \subseteq Types
    <2>1. \A i \in {1, 2} : \A u \in SessionWorkers : DOMAIN B[i][u] \subseteq Types
        BY DEF Placed
    <2>2. CASE j = k /\ v = w
        BY <1>4, <2>1, <2>2
    <2>3. CASE j # k \/ v # w
        BY <2>1, <2>3 DEF Elsewhere
    <2> QED BY <2>2, <2>3
<1>20. s \in Seq(Nat) /\ \A i, j \in 1 .. Len(s) : s[i] = s[j] => i = j
    BY DEF Placed
<1> QED BY <1>9, <1>13, <1>16, <1>17, <1>18, <1>19, <1>20 DEF Placed

\* The messages `left' are in no box any more, and not yet counted elsewhere.
Parted(C, n, s, g, left) ==
    /\ 1 .. n = WaitingIn(C) \cup ReadOf(s) \cup g \cup left
    /\ left \cap (ReadOf(s) \cup g) = {}
    /\ WaitingIn(C) \cap (ReadOf(s) \cup g \cup left) = {}
    /\ \A p, q \in Occupied(C) : Msg(C, p) = Msg(C, q) => p = q
    /\ \A j \in {1, 2} : \A v \in SessionWorkers : DOMAIN C[j][v] \subseteq Types

\* Messages leave a box.
LEMMA MessagesLeave ==
    ASSUME NEW B, NEW n, NEW s, NEW g, Placed(B, n, s, g),
           NEW k \in {1, 2}, NEW w \in SessionWorkers,
           NEW C, Elsewhere(B, C, k, w), NEW T \in SUBSET DOMAIN B[k][w],
           DOMAIN C[k][w] = T, \A u \in T : C[k][w][u] = B[k][w][u],
           NEW left, left = {B[k][w][u] : u \in DOMAIN B[k][w] \ T}
    PROVE  Parted(C, n, s, g, left)
<1>1. DOMAIN B[k][w] \subseteq Types /\ \A j \in {1, 2} : \A v \in SessionWorkers : DOMAIN B[j][v] \subseteq Types
    BY DEF Placed
<1> DEFINE Lost(p) == p.kind = k /\ p.worker = w /\ p.type \notin T
<1>2. ASSUME NEW p \in Place
      PROVE  /\ p \in Occupied(C) <=> p \in Occupied(B) /\ ~Lost(p)
             /\ p \in Occupied(C) => Msg(C, p) = Msg(B, p)
    <2>1. p.kind \in {1, 2} /\ p.worker \in SessionWorkers
        BY DEF Place
    <2>2. CASE p.kind = k /\ p.worker = w
        BY <2>2 DEF Occupied, Msg
    <2>3. CASE p.kind # k \/ p.worker # w
        <3>1. C[p.kind][p.worker] = B[p.kind][p.worker]
            BY <2>1, <2>3 DEF Elsewhere
        <3> QED BY <2>3, <3>1 DEF Occupied, Msg
    <2> QED BY <2>2, <2>3
<1>3. \A m : m \in left <=> \E p \in Occupied(B) : Lost(p) /\ Msg(B, p) = m
    <2>1. ASSUME NEW p \in Occupied(B), Lost(p) PROVE Msg(B, p) \in left
        BY <2>1 DEF Occupied, Msg
    <2>2. ASSUME NEW m \in left PROVE \E p \in Occupied(B) : Lost(p) /\ Msg(B, p) = m
        <3>1. PICK u \in DOMAIN B[k][w] \ T : m = B[k][w][u]
            BY <2>2
        <3>2. PICK p : p = [kind |-> k, worker |-> w, type |-> u]
            OBVIOUS
        <3>3. p \in Place /\ p.kind = k /\ p.worker = w /\ p.type = u
            BY <1>1, <3>1, <3>2 DEF Place
        <3> QED BY <3>1, <3>3 DEF Occupied, Msg
    <2> QED BY <2>1, <2>2
<1>4. Occupied(B) \subseteq Place /\ Occupied(C) \subseteq Place
    BY DEF Occupied
<1> HIDE DEF Lost
<1>5. \A m : m \in WaitingIn(C) <=> \E p \in Occupied(B) : ~Lost(p) /\ Msg(B, p) = m
    BY <1>2, <1>4 DEF WaitingIn
<1>6. \A m : m \in WaitingIn(B) <=> \E p \in Occupied(B) : Msg(B, p) = m
    BY DEF WaitingIn
<1>7. /\ 1 .. n = WaitingIn(B) \cup ReadOf(s) \cup g
      /\ \A p, q \in Occupied(B) : Msg(B, p) = Msg(B, q) => p = q
      /\ WaitingIn(B) \cap (ReadOf(s) \cup g) = {}
    BY DEF Placed
<1>8. \A m : m \in WaitingIn(B) <=> m \in WaitingIn(C) \/ m \in left
    BY <1>3, <1>5, <1>6
<1>9. ASSUME NEW m, m \in WaitingIn(C), m \in left PROVE FALSE
    BY <1>3, <1>5, <1>7, <1>9
<1>10. 1 .. n = WaitingIn(C) \cup ReadOf(s) \cup g \cup left
    BY <1>7, <1>8
<1>11. left \cap (ReadOf(s) \cup g) = {} /\ WaitingIn(C) \cap (ReadOf(s) \cup g \cup left) = {}
    BY <1>7, <1>8, <1>9
<1>12. ASSUME NEW p \in Occupied(C), NEW q \in Occupied(C), Msg(C, p) = Msg(C, q) PROVE p = q
    BY <1>2, <1>4, <1>7, <1>12
<1>13. ASSUME NEW j \in {1, 2}, NEW v \in SessionWorkers PROVE DOMAIN C[j][v] \subseteq Types
    <2>1. CASE j = k /\ v = w
        BY <1>1, <2>1
    <2>2. CASE j # k \/ v # w
        BY <1>1, <2>2 DEF Elsewhere
    <2> QED BY <2>1, <2>2
<1> QED BY <1>10, <1>11, <1>12, <1>13 DEF Parted

\* They are gone,
LEMMA TheyAreGone ==
    ASSUME NEW B, NEW n, NEW s, NEW g, Placed(B, n, s, g),
           NEW C, NEW left, Parted(C, n, s, g, left)
    PROVE  Placed(C, n, s, g \cup left)
<1>1. n \in Nat /\ s \in Seq(Nat) /\ ReadOf(s) \cap g = {}
      /\ \A i, j \in 1 .. Len(s) : s[i] = s[j] => i = j
    BY DEF Placed
<1>2. 1 .. n = WaitingIn(C) \cup ReadOf(s) \cup (g \cup left)
    BY DEF Parted
<1>3. WaitingIn(C) \cap (ReadOf(s) \cup (g \cup left)) = {} /\ ReadOf(s) \cap (g \cup left) = {}
    BY <1>1 DEF Parted
<1>4. /\ \A p, q \in Occupied(C) : Msg(C, p) = Msg(C, q) => p = q
      /\ \A j \in {1, 2} : \A v \in SessionWorkers : DOMAIN C[j][v] \subseteq Types
    BY DEF Parted
<1> QED BY <1>1, <1>2, <1>3, <1>4 DEF Placed

\* or have been read, each once, in some order.
LEMMA TheyAreRead ==
    ASSUME NEW B, NEW n, NEW s, NEW g, Placed(B, n, s, g),
           NEW C, NEW left, Parted(C, n, s, g, left),
           NEW o \in Seq(left), ReadOf(o) = left,
           \A i, j \in 1 .. Len(o) : o[i] = o[j] => i = j,
           NEW r, r = s \o o
    PROVE  Placed(C, n, r, g)
<1>1. n \in Nat /\ s \in Seq(Nat) /\ ReadOf(s) \cap g = {}
      /\ \A i, j \in 1 .. Len(s) : s[i] = s[j] => i = j
    BY DEF Placed
<1>2. /\ 1 .. n = WaitingIn(C) \cup ReadOf(s) \cup g \cup left
      /\ left \cap (ReadOf(s) \cup g) = {}
      /\ WaitingIn(C) \cap (ReadOf(s) \cup g \cup left) = {}
    BY DEF Parted
<1>3. o \in Seq(Nat)
    <2>1. left \subseteq Nat
        BY <1>1, <1>2
    <2>2. o \in [1 .. Len(o) -> left] /\ Len(o) \in Nat
        OBVIOUS
    <2>3. o \in [1 .. Len(o) -> Nat]
        BY <2>1, <2>2
    <2> QED BY <2>2, <2>3
<1>4. r \in Seq(Nat) /\ Len(r) = Len(s) + Len(o)
    BY <1>1, <1>3, ConcatProperties
<1>5. \A i \in 1 .. Len(s) + Len(o) : r[i] = IF i <= Len(s) THEN s[i] ELSE o[i - Len(s)]
    BY <1>1, <1>3, ConcatProperties
<1>6. Len(s) \in Nat /\ Len(o) \in Nat
    BY <1>1, <1>3
<1>7. \A i \in 1 .. Len(s) : i \in 1 .. Len(r) /\ r[i] = s[i]
    BY <1>4, <1>5, <1>6
<1>8. \A i \in 1 .. Len(o) : i + Len(s) \in 1 .. Len(r) /\ r[i + Len(s)] = o[i]
    <2>1. ASSUME NEW i \in 1 .. Len(o) PROVE i + Len(s) \in 1 .. Len(r) /\ r[i + Len(s)] = o[i]
        <3>1. i + Len(s) \in 1 .. Len(s) + Len(o) /\ ~(i + Len(s) <= Len(s)) /\ (i + Len(s)) - Len(s) = i
            BY <1>6
        <3> QED BY <1>4, <1>5, <3>1
    <2> QED BY <2>1
<1>9. \A i \in 1 .. Len(r) : \/ i \in 1 .. Len(s)
                             \/ i - Len(s) \in 1 .. Len(o) /\ i = (i - Len(s)) + Len(s)
    BY <1>4, <1>6
<1>10. ReadOf(r) = ReadOf(s) \cup left
    <2>1. ASSUME NEW m \in ReadOf(r) PROVE m \in ReadOf(s) \cup ReadOf(o)
        <3>1. PICK i \in 1 .. Len(r) : m = r[i]
            BY DEF ReadOf
        <3>2. CASE i \in 1 .. Len(s)
            BY <1>7, <3>1, <3>2 DEF ReadOf
        <3>3. CASE i - Len(s) \in 1 .. Len(o) /\ i = (i - Len(s)) + Len(s)
            <4>1. r[i] = o[i - Len(s)]
                BY <1>8, <3>3
            <4> QED BY <3>1, <3>3, <4>1 DEF ReadOf
        <3> QED BY <1>9, <3>2, <3>3
    <2>2. ASSUME NEW m \in ReadOf(s) PROVE m \in ReadOf(r)
        <3>1. PICK i \in 1 .. Len(s) : m = s[i]
            BY DEF ReadOf
        <3> QED BY <1>7, <3>1 DEF ReadOf
    <2>3. ASSUME NEW m \in ReadOf(o) PROVE m \in ReadOf(r)
        <3>1. PICK i \in 1 .. Len(o) : m = o[i]
            BY DEF ReadOf
        <3> QED BY <1>8, <3>1 DEF ReadOf
    <2> QED BY <2>1, <2>2, <2>3
<1>11. ASSUME NEW i \in 1 .. Len(r), NEW j \in 1 .. Len(r), r[i] = r[j] PROVE i = j
    <2>1. \A k \in 1 .. Len(s) : s[k] \in ReadOf(s)
        BY DEF ReadOf
    <2>2. \A k \in 1 .. Len(o) : o[k] \in left
        BY DEF ReadOf
    <2>3. CASE i \in 1 .. Len(s) /\ j \in 1 .. Len(s)
        BY <1>1, <1>7, <1>11, <2>3
    <2>4. CASE i - Len(s) \in 1 .. Len(o) /\ i = (i - Len(s)) + Len(s)
               /\ j - Len(s) \in 1 .. Len(o) /\ j = (j - Len(s)) + Len(s)
        <3>1. o[i - Len(s)] = o[j - Len(s)]
            BY <1>8, <1>11, <2>4
        <3>2. i - Len(s) = j - Len(s)
            BY <2>4, <3>1
        <3> QED BY <2>4, <3>2
    <2>5. CASE i \in 1 .. Len(s) /\ j - Len(s) \in 1 .. Len(o) /\ j = (j - Len(s)) + Len(s)
        BY <1>2, <1>7, <1>8, <1>11, <2>1, <2>2, <2>5
    <2>6. CASE j \in 1 .. Len(s) /\ i - Len(s) \in 1 .. Len(o) /\ i = (i - Len(s)) + Len(s)
        BY <1>2, <1>7, <1>8, <1>11, <2>1, <2>2, <2>6
    <2> QED BY <1>9, <2>3, <2>4, <2>5, <2>6
<1>12. /\ 1 .. n = WaitingIn(C) \cup ReadOf(r) \cup g
       /\ WaitingIn(C) \cap (ReadOf(r) \cup g) = {} /\ ReadOf(r) \cap g = {}
    BY <1>1, <1>2, <1>10
<1>13. /\ \A p, q \in Occupied(C) : Msg(C, p) = Msg(C, q) => p = q
       /\ \A j \in {1, 2} : \A v \in SessionWorkers : DOMAIN C[j][v] \subseteq Types
    BY DEF Parted
<1> QED BY <1>1, <1>4, <1>11, <1>12, <1>13 DEF Placed

\* flash.all shows every message of the store.
LEMMA OrderShowsAll ==
    ASSUME NEW n \in Nat, NEW S, S \subseteq 1 .. n, NEW o \in Orders(S)
    PROVE  o \in Seq(S) /\ ReadOf(o) = S /\ \A i, j \in 1 .. Len(o) : o[i] = o[j] => i = j
<1>1. IsFiniteSet(S)
    <2>1. IsFiniteSet(1 .. n)
        BY FS_Interval
    <2> QED BY <2>1, FS_Subset
<1>2. PICK c : c = Cardinality(S)
    OBVIOUS
<1>3. c \in Nat
    BY <1>1, <1>2, FS_CardinalityType
<1>4. o \in [1 .. c -> S] /\ \A i, j \in 1 .. c : o[i] = o[j] => i = j
    BY <1>2 DEF Orders
<1>5. o \in Seq(S) /\ Len(o) = c
    BY <1>3, <1>4
<1>6. Cardinality(1 .. c) = c
    <2>1. Cardinality(1 .. c) = IF 1 > c THEN 0 ELSE c - 1 + 1
        BY <1>3, FS_Interval
    <2> QED BY <1>3, <2>1
<1>7. o \in Injection(1 .. c, S)
    BY <1>4 DEF Injection, IsInjective
<1>8. o \in Surjection(1 .. c, S)
    BY <1>1, <1>2, <1>6, <1>7, FS_Injection
<1>9. \A x \in S : \E i \in 1 .. c : o[i] = x
    BY <1>8 DEF Surjection
<1>10. ReadOf(o) = S
    <2>1. ReadOf(o) \subseteq S
        BY <1>4, <1>5 DEF ReadOf
    <2>2. S \subseteq ReadOf(o)
        BY <1>5, <1>9 DEF ReadOf
    <2> QED BY <2>1, <2>2
<1> QED BY <1>4, <1>5, <1>10

\* The invariant.
FlashInv ==
    /\ DOMAIN flash_data = SessionWorkers /\ DOMAIN flash_store = SessionWorkers
    /\ Placed(Boxes, messages, shown, gone)

LEMMA InitiallyNoMessages == SessionsInit => FlashInv
<1> SUFFICES ASSUME SessionsInit PROVE FlashInv
    OBVIOUS
<1>1. DOMAIN flash_data = SessionWorkers /\ DOMAIN flash_store = SessionWorkers
    BY DEF SessionsInit
<1>2. PICK B : B = Boxes
    OBVIOUS
<1>3. \A k \in {1, 2} : \A w \in SessionWorkers : DOMAIN B[k][w] = {}
    BY <1>2 DEF SessionsInit, Boxes
<1>4. Occupied(B) = {}
    BY <1>3 DEF Occupied, Place
<1>5. messages = 0 /\ shown = <<>> /\ gone = {}
    BY DEF SessionsInit
<1>6. ReadOf(<<>>) = {} /\ WaitingIn(B) = {} /\ 1 .. 0 = {} /\ <<>> \in Seq(Nat)
    BY <1>4 DEF ReadOf, WaitingIn
<1>7. \A i, j \in 1 .. Len(<<>>) : <<>>[i] = <<>>[j] => i = j
    OBVIOUS
<1>8. Placed(B, 0, <<>>, {})
    BY <1>3, <1>4, <1>6, <1>7 DEF Placed
<1> QED BY <1>1, <1>2, <1>5, <1>8 DEF FlashInv

\* An action assigns one box of the worker.
Assigned(k, w, new) ==
    \/ k = 1 /\ flash_data' = [flash_data EXCEPT ![w] = new] /\ flash_store' = flash_store
    \/ k = 2 /\ flash_store' = [flash_store EXCEPT ![w] = new] /\ flash_data' = flash_data

LEMMA OneBox ==
    ASSUME FlashInv, NEW k \in {1, 2}, NEW w \in SessionWorkers, NEW new, Assigned(k, w, new)
    PROVE  /\ Elsewhere(Boxes, Boxes', k, w) /\ Boxes'[k][w] = new
           /\ DOMAIN flash_data' = SessionWorkers /\ DOMAIN flash_store' = SessionWorkers
<1>1. DOMAIN flash_data = SessionWorkers /\ DOMAIN flash_store = SessionWorkers
    BY DEF FlashInv
<1>2. CASE k = 1 /\ flash_data' = [flash_data EXCEPT ![w] = new] /\ flash_store' = flash_store
    BY <1>1, <1>2 DEF Boxes, Elsewhere
<1>3. CASE k = 2 /\ flash_store' = [flash_store EXCEPT ![w] = new] /\ flash_data' = flash_data
    BY <1>1, <1>3 DEF Boxes, Elsewhere
<1> QED BY <1>2, <1>3 DEF Assigned

LEMMA FlashAlone == FlashInv /\ UNCHANGED flashes => FlashInv'
BY DEF FlashInv, flashes, Boxes

\* session.flash_set, flash.set.
LEMMA PutStep ==
    ASSUME FlashInv, NEW k \in {1, 2}, NEW w \in SessionWorkers, NEW t \in Types,
           Assigned(k, w, WithKey(Boxes[k][w], t, messages + 1)), messages' = messages + 1,
           gone' = gone \cup Replacing(Boxes[k][w], t), shown' = shown
    PROVE  FlashInv'
<1>1. PICK B : B = Boxes
    OBVIOUS
<1>2. PICK C : C = Boxes'
    OBVIOUS
<1>3. Elsewhere(B, C, k, w) /\ C[k][w] = WithKey(B[k][w], t, messages + 1)
      /\ DOMAIN flash_data' = SessionWorkers /\ DOMAIN flash_store' = SessionWorkers
    BY <1>1, <1>2, OneBox
<1>4. Placed(B, messages, shown, gone)
    BY <1>1 DEF FlashInv
<1>5. Placed(C, messages + 1, shown, gone \cup Replacing(B[k][w], t))
    BY <1>3, <1>4, MessagePut
<1>6. Placed(C, messages', shown', gone')
    BY <1>1, <1>5
<1> QED BY <1>2, <1>3, <1>6 DEF FlashInv

\* session.flash_get, flash.get.
LEMMA ReadStep ==
    ASSUME FlashInv, NEW k \in {1, 2}, NEW w \in SessionWorkers, NEW t \in DOMAIN Boxes[k][w],
           Assigned(k, w, Taken(Boxes[k][w], t)), messages' = messages,
           shown' = Append(shown, Boxes[k][w][t]), gone' = gone
    PROVE  FlashInv'
<1>1. PICK B : B = Boxes
    OBVIOUS
<1>2. PICK C : C = Boxes'
    OBVIOUS
<1>3. Elsewhere(B, C, k, w) /\ C[k][w] = Taken(B[k][w], t)
      /\ DOMAIN flash_data' = SessionWorkers /\ DOMAIN flash_store' = SessionWorkers
    BY <1>1, <1>2, OneBox
<1>4. Placed(B, messages, shown, gone)
    BY <1>1 DEF FlashInv
<1>5. PICK m : m = B[k][w][t]
    OBVIOUS
<1>6. PICK T : T = DOMAIN B[k][w] \ {t}
    OBVIOUS
<1>7. T \in SUBSET DOMAIN B[k][w] /\ DOMAIN C[k][w] = T /\ \A u \in T : C[k][w][u] = B[k][w][u]
    BY <1>3, <1>6 DEF Taken
<1>8. PICK left : left = {m}
    OBVIOUS
<1>9. Parted(C, messages, shown, gone, {m})
    <2>1. left = {B[k][w][u] : u \in DOMAIN B[k][w] \ T}
        BY <1>1, <1>5, <1>6, <1>8
    <2>2. Parted(C, messages, shown, gone, left)
        BY <1>3, <1>4, <1>7, <2>1, MessagesLeave, SMTT(30)
    <2> QED BY <1>8, <2>2
<1>10. <<m>> \in Seq({m}) /\ Len(<<m>>) = 1 /\ ReadOf(<<m>>) = {m}
    BY DEF ReadOf
<1>11. \A i, j \in 1 .. Len(<<m>>) : <<m>>[i] = <<m>>[j] => i = j
    OBVIOUS
<1>12. Placed(C, messages, shown \o <<m>>, gone)
    BY <1>4, <1>9, <1>10, <1>11, TheyAreRead
<1>13. shown \in Seq(Nat) /\ m \in Nat
    <2>1. 1 .. messages = WaitingIn(C) \cup ReadOf(shown) \cup gone \cup {m}
        BY <1>9 DEF Parted
    <2>2. shown \in Seq(Nat) /\ messages \in Nat
        BY <1>4 DEF Placed
    <2> QED BY <2>1, <2>2
<1>14. Append(shown, m) = shown \o <<m>>
    BY <1>13
<1>15. Placed(C, messages', shown', gone')
    BY <1>1, <1>5, <1>12, <1>14
<1> QED BY <1>2, <1>3, <1>15 DEF FlashInv

\* A box is emptied: what was in it.
LEMMA Emptied ==
    ASSUME NEW B, NEW n, NEW s, NEW g, Placed(B, n, s, g),
           NEW k \in {1, 2}, NEW w \in SessionWorkers,
           NEW C, Elsewhere(B, C, k, w), C[k][w] = <<>>
    PROVE  Parted(C, n, s, g, MessagesOf(B[k][w]))
<1>1. PICK left : left = MessagesOf(B[k][w])
    OBVIOUS
<1>2. {} \in SUBSET DOMAIN B[k][w] /\ DOMAIN C[k][w] = {} /\ \A u \in {} : C[k][w][u] = B[k][w][u]
    OBVIOUS
<1>3. left = {B[k][w][u] : u \in DOMAIN B[k][w] \ {}}
    BY <1>1 DEF MessagesOf
<1> QED BY <1>1, <1>2, <1>3, MessagesLeave

\* flash.all and flash.render_inline.
LEMMA ShowAllStep ==
    ASSUME FlashInv, NEW w \in SessionWorkers, native_flash_all(w)
    PROVE  FlashInv'
<1>1. PICK B : B = Boxes
    OBVIOUS
<1>2. PICK C : C = Boxes'
    OBVIOUS
<1>3. B[2][w] = flash_store[w]
    BY <1>1 DEF Boxes
<1>4. Assigned(2, w, <<>>)
    BY DEF Assigned, native_flash_all, NewStore
<1>5. Elsewhere(B, C, 2, w) /\ C[2][w] = <<>>
      /\ DOMAIN flash_data' = SessionWorkers /\ DOMAIN flash_store' = SessionWorkers
    BY <1>1, <1>2, <1>4, OneBox
<1>6. Placed(B, messages, shown, gone)
    BY <1>1 DEF FlashInv
<1>7. PICK left : left = MessagesOf(flash_store[w])
    OBVIOUS
<1>8. Parted(C, messages, shown, gone, left)
    BY <1>3, <1>5, <1>6, <1>7, Emptied
<1>9. PICK o \in Orders(left) : shown' = shown \o o
    BY <1>7 DEF native_flash_all
<1>10. messages \in Nat /\ left \subseteq 1 .. messages
    <2>1. 1 .. messages = WaitingIn(C) \cup ReadOf(shown) \cup gone \cup left
        BY <1>8 DEF Parted
    <2> QED BY <1>6, <2>1 DEF Placed
<1>11. o \in Seq(left) /\ ReadOf(o) = left /\ \A i, j \in 1 .. Len(o) : o[i] = o[j] => i = j
    BY <1>9, <1>10, OrderShowsAll
<1>12. PICK r : r = shown \o o
    OBVIOUS
<1>13. Placed(C, messages, r, gone)
    BY <1>6, <1>8, <1>11, <1>12, TheyAreRead
<1>14. messages' = messages /\ gone' = gone /\ shown' = r
    BY <1>9, <1>12 DEF native_flash_all
<1>15. Placed(C, messages', shown', gone')
    BY <1>13, <1>14
<1> QED BY <1>2, <1>5, <1>15 DEF FlashInv

\* flash.clear.
LEMMA ClearStep ==
    ASSUME FlashInv, NEW w \in SessionWorkers, native_flash_clear(w)
    PROVE  FlashInv'
<1>1. PICK B : B = Boxes
    OBVIOUS
<1>2. PICK C : C = Boxes'
    OBVIOUS
<1>3. B[2][w] = flash_store[w]
    BY <1>1 DEF Boxes
<1>4. Assigned(2, w, <<>>)
    BY DEF Assigned, native_flash_clear
<1>5. Elsewhere(B, C, 2, w) /\ C[2][w] = <<>>
      /\ DOMAIN flash_data' = SessionWorkers /\ DOMAIN flash_store' = SessionWorkers
    BY <1>1, <1>2, <1>4, OneBox
<1>6. Placed(B, messages, shown, gone)
    BY <1>1 DEF FlashInv
<1>7. Placed(C, messages, shown, gone \cup MessagesOf(flash_store[w]))
    BY <1>3, <1>5, <1>6, Emptied, TheyAreGone
<1>8. messages' = messages /\ shown' = shown /\ gone' = gone \cup MessagesOf(flash_store[w])
    BY DEF native_flash_clear
<1>9. Placed(C, messages', shown', gone')
    BY <1>7, <1>8
<1> QED BY <1>2, <1>5, <1>9 DEF FlashInv

\* session.init of the next process: one box after the other is emptied.
LEMMA ProcessLost ==
    ASSUME FlashInv, NEW w \in SessionWorkers, NEW secret, native_session_init(w, secret)
    PROVE  FlashInv'
<1>1. PICK B : B = Boxes
    OBVIOUS
<1>2. PICK C : C = Boxes'
    OBVIOUS
<1>3. PICK D : D = [k \in {1, 2} |-> IF k = 1 THEN flash_data' ELSE flash_store]
    OBVIOUS
<1>4. DOMAIN flash_data = SessionWorkers /\ DOMAIN flash_store = SessionWorkers
      /\ Placed(B, messages, shown, gone)
    BY <1>1 DEF FlashInv
<1>5. flash_data' = [flash_data EXCEPT ![w] = <<>>] /\ flash_store' = [flash_store EXCEPT ![w] = <<>>]
    BY DEF native_session_init
<1>6. Elsewhere(B, D, 1, w) /\ D[1][w] = <<>> /\ B[1][w] = flash_data[w] /\ D[2][w] = flash_store[w]
    BY <1>1, <1>3, <1>4, <1>5 DEF Boxes, Elsewhere
<1>7. Elsewhere(D, C, 2, w) /\ C[2][w] = <<>>
    BY <1>2, <1>3, <1>4, <1>5 DEF Boxes, Elsewhere
<1>8. PICK g : g = gone \cup MessagesOf(flash_data[w])
    OBVIOUS
<1>9. Placed(D, messages, shown, g)
    <2>1. Parted(D, messages, shown, gone, MessagesOf(B[1][w]))
        BY <1>4, <1>6, Emptied
    <2> QED BY <1>4, <1>6, <1>8, <2>1, TheyAreGone
<1>10. Placed(C, messages, shown, g \cup MessagesOf(flash_store[w]))
    <2>1. Parted(C, messages, shown, g, MessagesOf(D[2][w]))
        BY <1>7, <1>9, Emptied
    <2> QED BY <1>6, <1>9, <2>1, TheyAreGone
<1>11. messages' = messages /\ shown' = shown /\ gone' = g \cup MessagesOf(flash_store[w])
    BY <1>8 DEF native_session_init
<1>12. Placed(C, messages', shown', gone')
    BY <1>10, <1>11
<1>13. DOMAIN flash_data' = SessionWorkers /\ DOMAIN flash_store' = SessionWorkers
    BY <1>4, <1>5
<1> QED BY <1>2, <1>12, <1>13 DEF FlashInv

LEMMA FlashStep == FlashInv /\ [SessionsNext]_SessionsVars => FlashInv'
<1> SUFFICES ASSUME FlashInv, [SessionsNext]_SessionsVars PROVE FlashInv'
    OBVIOUS
<1>1. CASE UNCHANGED flashes
    BY <1>1, FlashAlone
<1>2. CASE UNCHANGED SessionsVars
    BY <1>1, <1>2 DEF SessionsVars, stores, flashes
<1>3. ASSUME NEW w \in SessionWorkers,
             \/ \E p \in Visitors : request_arrives(w, p)
             \/ native_session_decode(w)
             \/ \E k \in Names, v \in Plain \cup Structured : native_session_set(w, k, v)
             \/ \E k \in Names : native_session_delete(w, k)
             \/ respond(w)
             \/ native_csrf_generate(w) \/ native_csrf_tag(w)
             \/ \E form \in 1 .. tokens : native_csrf_validate(w, form)
      PROVE  UNCHANGED flashes
    BY <1>3 DEF request_arrives, native_session_decode, native_session_set, native_session_delete,
                respond, native_csrf_generate, native_csrf_tag, native_csrf_validate, stores, flashes
<1>4. \A w \in SessionWorkers : Boxes[1][w] = flash_data[w] /\ Boxes[2][w] = flash_store[w]
    BY DEF Boxes
<1>5. DOMAIN flash_data = SessionWorkers /\ DOMAIN flash_store = SessionWorkers
    BY DEF FlashInv
<1>6. ASSUME NEW w \in SessionWorkers, NEW t \in Types, native_session_flash_set(w, t) PROVE FlashInv'
    <2>1. Assigned(1, w, WithKey(Boxes[1][w], t, messages + 1)) /\ messages' = messages + 1
          /\ gone' = gone \cup Replacing(Boxes[1][w], t) /\ shown' = shown
        BY <1>4, <1>5, <1>6 DEF native_session_flash_set, Assigned
    <2> QED BY <2>1, PutStep
<1>7. ASSUME NEW w \in SessionWorkers, NEW t \in Types, native_flash_set(w, t) PROVE FlashInv'
    <2>1. Assigned(2, w, WithKey(Boxes[2][w], t, messages + 1)) /\ messages' = messages + 1
          /\ gone' = gone \cup Replacing(Boxes[2][w], t) /\ shown' = shown
        BY <1>4, <1>5, <1>7 DEF native_flash_set, Assigned
    <2> QED BY <2>1, PutStep
<1>8. ASSUME NEW w \in SessionWorkers, NEW t \in Types, native_session_flash_get(w, t) PROVE FlashInv'
    <2>1. t \in DOMAIN Boxes[1][w] /\ Assigned(1, w, Taken(Boxes[1][w], t)) /\ messages' = messages
          /\ shown' = Append(shown, Boxes[1][w][t]) /\ gone' = gone
        BY <1>4, <1>5, <1>8 DEF native_session_flash_get, Assigned
    <2> QED BY <2>1, ReadStep
<1>9. ASSUME NEW w \in SessionWorkers, NEW t \in Types, native_flash_get(w, t) PROVE FlashInv'
    <2>1. t \in DOMAIN Boxes[2][w] /\ Assigned(2, w, Taken(Boxes[2][w], t)) /\ messages' = messages
          /\ shown' = Append(shown, Boxes[2][w][t]) /\ gone' = gone
        BY <1>4, <1>5, <1>9 DEF native_flash_get, Assigned
    <2> QED BY <2>1, ReadStep
<1>10. ASSUME NEW w \in SessionWorkers,
              native_flash_all(w) \/ native_flash_render_inline(w) \/ native_flash_clear(w)
              \/ \E secret \in Secrets : native_session_init(w, secret)
       PROVE  FlashInv'
    BY <1>10, ShowAllStep, ClearStep, ProcessLost DEF native_flash_render_inline
<1> QED BY <1>1, <1>2, <1>3, <1>6, <1>7, <1>8, <1>9, <1>10 DEF SessionsNext

\* Different messages were read: their number is the length of `shown'.
LEMMA ReadOnce ==
    ASSUME NEW s \in Seq(Nat), \A i, j \in 1 .. Len(s) : s[i] = s[j] => i = j
    PROVE  Cardinality(ReadOf(s)) = Len(s)
<1>1. PICK c : c = Len(s)
    OBVIOUS
<1>2. c \in Nat /\ s \in [1 .. c -> ReadOf(s)]
    BY <1>1 DEF ReadOf
<1>3. s \in Surjection(1 .. c, ReadOf(s))
    <2>1. \A m \in ReadOf(s) : \E i \in 1 .. c : s[i] = m
        BY <1>1 DEF ReadOf
    <2> QED BY <1>2, <2>1 DEF Surjection
<1>4. s \in Injection(1 .. c, ReadOf(s))
    BY <1>1, <1>2 DEF Injection, IsInjective
<1>5. IsFiniteSet(1 .. c) /\ Cardinality(1 .. c) = c
    <2>1. IsFiniteSet(1 .. c) /\ Cardinality(1 .. c) = IF 1 > c THEN 0 ELSE c - 1 + 1
        BY <1>2, FS_Interval
    <2> QED BY <1>2, <2>1
<1> QED BY <1>1, <1>3, <1>4, <1>5, FS_Surjection

LEMMA EachPlaced == FlashInv => FlashReadOnce
<1> SUFFICES ASSUME FlashInv PROVE FlashReadOnce
    OBVIOUS
<1>1. PICK B : B = Boxes
    OBVIOUS
<1>2. Placed(B, messages, shown, gone)
    BY <1>1 DEF FlashInv
<1>3. shown \in Seq(Nat) /\ (\A i, j \in 1 .. Len(shown) : shown[i] = shown[j] => i = j)
      /\ 1 .. messages = WaitingIn(B) \cup ReadOf(shown) \cup gone
      /\ WaitingIn(B) \cap (ReadOf(shown) \cup gone) = {} /\ ReadOf(shown) \cap gone = {}
      /\ \A k \in {1, 2} : \A w \in SessionWorkers : DOMAIN B[k][w] \subseteq Types
    BY <1>2 DEF Placed
<1>4. {shown[i] : i \in DOMAIN shown} = ReadOf(shown)
    BY <1>3 DEF ReadOf
<1>5. Cardinality(ReadOf(shown)) = Len(shown)
    BY <1>3, ReadOnce
<1>6. \A w \in SessionWorkers : B[1][w] = flash_data[w] /\ B[2][w] = flash_store[w]
    BY <1>1 DEF Boxes
<1>7. \A m : m \in WaitingIn(B) <=> \E k \in {1, 2} : \E w \in SessionWorkers : m \in MessagesOf(B[k][w])
    <2>1. ASSUME NEW p \in Occupied(B)
          PROVE  \E k \in {1, 2} : \E w \in SessionWorkers : Msg(B, p) \in MessagesOf(B[k][w])
        BY DEF Occupied, Place, Msg, MessagesOf
    <2>2. ASSUME NEW k \in {1, 2}, NEW w \in SessionWorkers, NEW u \in DOMAIN B[k][w]
          PROVE  B[k][w][u] \in WaitingIn(B)
        <3>1. PICK p : p = [kind |-> k, worker |-> w, type |-> u]
            OBVIOUS
        <3>2. p \in Place /\ p.kind = k /\ p.worker = w /\ p.type = u
            BY <1>3, <3>1 DEF Place
        <3> QED BY <3>2 DEF WaitingIn, Occupied, Msg
    <2> QED BY <2>1, <2>2 DEF WaitingIn, MessagesOf
<1>8. UNION {MessagesOf(flash_data[w]) \cup MessagesOf(flash_store[w]) : w \in SessionWorkers} = WaitingIn(B)
    <2> DEFINE Inside(w) == MessagesOf(flash_data[w]) \cup MessagesOf(flash_store[w])
    <2>1. \A m : m \in WaitingIn(B) <=> \E w \in SessionWorkers : m \in Inside(w)
        BY <1>6, <1>7
    <2> HIDE DEF Inside
    <2>2. UNION {Inside(w) : w \in SessionWorkers} = WaitingIn(B)
        BY <2>1
    <2> QED BY <2>2 DEF Inside
<1> QED BY <1>3, <1>4, <1>5, <1>8 DEF FlashReadOnce

\* A message is read once, in the process that it was set in, unless it is
\* replaced, cleared or lost with that process (session.flash_get, flash.get,
\* flash.all, flash.clear, session.init).
THEOREM MessagesReadOnce == SessionsSpec => []FlashReadOnce
<1>1. SessionsInit => FlashInv
    BY InitiallyNoMessages
<1>2. FlashInv /\ [SessionsNext]_SessionsVars => FlashInv'
    BY FlashStep
<1>3. FlashInv => FlashReadOnce
    BY EachPlaced
<1> QED BY <1>1, <1>2, <1>3, PTL DEF SessionsSpec
=============================================================================
