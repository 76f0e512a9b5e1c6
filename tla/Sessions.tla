------------------------------ MODULE Sessions ------------------------------
(***************************************************************************)
(* What the workers remember of a visitor: stdlib_session.c, which keeps   *)
(* the session of the request it is at in the process and everything else  *)
(* in a signed cookie, stdlib_csrf.c, which keeps its token in the         *)
(* session, and the messages of stdlib_flash.c, which stay in the process. *)
(*                                                                         *)
(* A handler restores the session, does anything in any order, and answers *)
(* with a new cookie and a page.  A worker serves one request at a time.   *)
(* A cookie is what it holds and the secret that it is signed with;        *)
(* Encodings has how it is written.                                        *)
(***************************************************************************)
EXTENDS Integers, Sequences, FiniteSets

CONSTANTS SessionWorkers, Visitors,
          Secrets, Names,     \* names of values in a session
          Plain, Structured,  \* values that a cookie can hold, and lists and maps
          Types,              \* of flash messages
          MaxVisits, MaxActs  \* bounds: requests, what handlers do and restarts

\* The program leaves the name that csrf uses to csrf.
TokenName == "_csrf_token"
ASSUME SessionNames == TokenName \notin Names

VARIABLES session_data, flash_data, session_secret,  \* of each process
          flash_store,
          visit,     \* the request that a worker is at, or Idle
          jar,       \* of each visitor: the last cookie and page that arrived
          tokens, messages,  \* how many there have been
          shown,     \* history: the messages that were read, in order
          gone,      \* history: those that were replaced, cleared or lost
          visits, acts

stores == <<session_data, flash_data, session_secret, flash_store>>
flashes == <<flash_data, flash_store, messages, shown, gone>>
SessionsVars == <<stores, visit, jar, tokens, messages, shown, gone, visits, acts>>

Missing == "nil"
Idle == [visitor |-> Missing]
NoCookie == [data |-> <<>>, secret |-> Missing]
NoJar == [cookie |-> NoCookie, meant |-> <<>>, forms |-> {}]
Busy(w) == visit[w] # Idle
Act(w) == Busy(w) /\ acts < MaxActs /\ acts' = acts + 1 /\ UNCHANGED <<jar, visits>>
WithKey(map, k, v) == [x \in DOMAIN map \cup {k} |-> IF x = k THEN v ELSE map[x]]
Taken(map, k) == [x \in DOMAIN map \ {k} |-> map[x]]
Token(map) == IF TokenName \in DOMAIN map THEN map[TokenName] ELSE 0

\* What comes out of a cookie: lists and maps are written as null.
Remembered(map) == [k \in DOMAIN map |-> IF k # TokenName /\ map[k] \in Structured THEN Missing ELSE map[k]]

-----------------------------------------------------------------------------
(* session                                                                 *)

\* The history `meant' follows what the requests of one visitor do.
request_arrives(w, p) ==
    /\ ~Busy(w) /\ visits < MaxVisits
    /\ visits' = visits + 1
    /\ visit' = [visit EXCEPT ![w] =
          [visitor |-> p, sent |-> jar[p], restored |-> FALSE, meant |-> <<>>,
           page |-> {}, generated |-> FALSE, form |-> 0, verdict |-> "none"]]
    /\ UNCHANGED <<stores, jar, tokens, messages, shown, gone, acts>>

\* A mutant: what the process has from before stays.
Replaced_merged(w, data) ==
    [x \in DOMAIN data \cup DOMAIN session_data[w] |->
        IF x \in DOMAIN data THEN data[x] ELSE session_data[w][x]]
Replaced(w, data) == data
native_session_decode(w) ==
    /\ Act(w)
    /\ LET sent == visit[w].sent IN
       IF sent.cookie # NoCookie /\ session_secret[w] = sent.cookie.secret
       THEN /\ session_data' = [session_data EXCEPT ![w] = Replaced(w, sent.cookie.data)]
            /\ visit' = [visit EXCEPT ![w].restored = TRUE, ![w].meant = sent.meant,
                                      ![w].page = {}, ![w].generated = FALSE, ![w].verdict = "none"]
       ELSE UNCHANGED <<session_data, visit>>
    /\ UNCHANGED <<session_secret, flashes, tokens>>

Changed(w, data, meant) ==
    /\ session_data' = [session_data EXCEPT ![w] = data]
    /\ visit' = [visit EXCEPT ![w].meant = meant]
native_session_set(w, k, v) ==
    /\ Act(w)
    /\ Changed(w, WithKey(session_data[w], k, v), WithKey(visit[w].meant, k, v))
    /\ UNCHANGED <<session_secret, flashes, tokens>>
native_session_delete(w, k) ==
    /\ Act(w)
    /\ Changed(w, Taken(session_data[w], k), Taken(visit[w].meant, k))
    /\ UNCHANGED <<session_secret, flashes, tokens>>

\* session.encode at the end of the request.  The answer may be lost.
native_session_encode(w) ==
    [data |-> Remembered(session_data[w]), secret |-> session_secret[w]]
respond(w) ==
    /\ Busy(w)
    /\ LET p == visit[w].visitor
           meant == IF visit[w].restored THEN visit[w].meant ELSE session_data[w]
       IN  \/ jar' = [jar EXCEPT ![p] =
                        [cookie |-> native_session_encode(w), meant |-> Remembered(meant),
                         forms |-> visit[w].page]]
           \/ UNCHANGED jar
    /\ visit' = [visit EXCEPT ![w] = Idle]
    /\ UNCHANGED <<stores, tokens, messages, shown, gone, visits, acts>>

\* The worker dies and is started again: session.init, perhaps with another
\* secret.
MessagesOf(store) == {store[k] : k \in DOMAIN store}
native_session_init(w, secret) ==
    /\ visit' = [visit EXCEPT ![w] = Idle]
    /\ session_data' = [session_data EXCEPT ![w] = <<>>]
    /\ flash_data' = [flash_data EXCEPT ![w] = <<>>]
    /\ flash_store' = [flash_store EXCEPT ![w] = <<>>]
    /\ session_secret' = [session_secret EXCEPT ![w] = secret]
    /\ gone' = gone \cup MessagesOf(flash_data[w]) \cup MessagesOf(flash_store[w])
    /\ acts < MaxActs /\ acts' = acts + 1
    /\ UNCHANGED <<jar, tokens, messages, shown, visits>>

-----------------------------------------------------------------------------
(* csrf                                                                    *)

Generated(w, changes) ==
    /\ tokens' = tokens + 1
    /\ session_data' = [session_data EXCEPT ![w] = WithKey(@, TokenName, tokens + 1)]
    /\ visit' = [visit EXCEPT ![w] = [changes EXCEPT !.meant = WithKey(@, TokenName, tokens + 1), !.generated = TRUE]]
native_csrf_generate(w) ==
    /\ Act(w)
    /\ Generated(w, [visit[w] EXCEPT !.page = {}])
    /\ UNCHANGED <<session_secret, flashes>>
HasToken(w) == Token(session_data[w]) # 0
native_csrf_tag(w) ==
    /\ Act(w)
    /\ IF HasToken(w)
       THEN /\ visit' = [visit EXCEPT ![w].page = @ \cup {Token(session_data[w])}]
            /\ UNCHANGED <<session_data, tokens>>
       ELSE Generated(w, [visit[w] EXCEPT !.page = @ \cup {tokens + 1}])
    /\ UNCHANGED <<session_secret, flashes>>
\* A visitor sends the form of a page, its own or another.
native_csrf_validate(w, form) ==
    /\ Act(w)
    /\ visit' = [visit EXCEPT ![w].form = form,
          ![w].verdict = IF Token(session_data[w]) = form THEN "accepted" ELSE "refused"]
    /\ UNCHANGED <<stores, tokens, messages, shown, gone>>

-----------------------------------------------------------------------------
(* Messages: session.flash_set and flash_get, and the package flash.        *)

Replacing(store, t) == IF t \in DOMAIN store THEN {store[t]} ELSE {}
Unread == UNCHANGED <<session_data, session_secret, visit, tokens>>
native_session_flash_set(w, t) ==
    /\ Act(w) /\ messages' = messages + 1
    /\ gone' = gone \cup Replacing(flash_data[w], t)
    /\ flash_data' = [flash_data EXCEPT ![w] = WithKey(@, t, messages + 1)]
    /\ Unread /\ UNCHANGED <<flash_store, shown>>
native_session_flash_get(w, t) ==
    /\ Act(w) /\ t \in DOMAIN flash_data[w]
    /\ shown' = Append(shown, flash_data[w][t])
    /\ flash_data' = [flash_data EXCEPT ![w] = Taken(@, t)]
    /\ Unread /\ UNCHANGED <<flash_store, messages, gone>>

native_flash_set(w, t) ==
    /\ Act(w) /\ messages' = messages + 1
    /\ gone' = gone \cup Replacing(flash_store[w], t)
    /\ flash_store' = [flash_store EXCEPT ![w] = WithKey(@, t, messages + 1)]
    /\ Unread /\ UNCHANGED <<flash_data, shown>>
native_flash_get(w, t) ==
    /\ Act(w) /\ t \in DOMAIN flash_store[w]
    /\ shown' = Append(shown, flash_store[w][t])
    /\ flash_store' = [flash_store EXCEPT ![w] = Taken(@, t)]
    /\ Unread /\ UNCHANGED <<flash_data, messages, gone>>
\* flash.all goes through the table in its order, and then takes an empty one.
\* A mutant: the table is walked, and stays.
NewStore_old(w) == flash_store[w]
NewStore(w) == <<>>
Orders(S) == {s \in [1 .. Cardinality(S) -> S] : \A i, j \in DOMAIN s : s[i] = s[j] => i = j}
native_flash_all(w) ==
    /\ Act(w)
    /\ \E order \in Orders(MessagesOf(flash_store[w])) : shown' = shown \o order
    /\ flash_store' = [flash_store EXCEPT ![w] = NewStore(w)]
    /\ Unread /\ UNCHANGED <<flash_data, messages, gone>>
\* The messages as a page, each once.
native_flash_render_inline(w) == MessagesOf(flash_store[w]) # {} /\ native_flash_all(w)
native_flash_clear(w) ==
    /\ Act(w)
    /\ gone' = gone \cup MessagesOf(flash_store[w])
    /\ flash_store' = [flash_store EXCEPT ![w] = <<>>]
    /\ Unread /\ UNCHANGED <<flash_data, messages, shown>>

-----------------------------------------------------------------------------
SessionsInit ==
    /\ session_data = [w \in SessionWorkers |-> <<>>]
    /\ flash_data = [w \in SessionWorkers |-> <<>>]
    /\ flash_store = [w \in SessionWorkers |-> <<>>]
    /\ session_secret = [w \in SessionWorkers |-> CHOOSE s \in Secrets : TRUE]
    /\ visit = [w \in SessionWorkers |-> Idle]
    /\ jar = [p \in Visitors |-> NoJar]
    /\ tokens = 0 /\ messages = 0 /\ shown = <<>> /\ gone = {} /\ visits = 0 /\ acts = 0

SessionsNext ==
    \E w \in SessionWorkers :
        \/ \E p \in Visitors : request_arrives(w, p)
        \/ native_session_decode(w)
        \/ \E k \in Names, v \in Plain \cup Structured : native_session_set(w, k, v)
        \/ \E k \in Names : native_session_delete(w, k)
        \/ respond(w)
        \/ \E secret \in Secrets : native_session_init(w, secret)
        \/ native_csrf_generate(w) \/ native_csrf_tag(w)
        \/ \E form \in 1 .. tokens : native_csrf_validate(w, form)
        \/ \E t \in Types : native_session_flash_set(w, t)
        \/ \E t \in Types : native_session_flash_get(w, t)
        \/ \E t \in Types : native_flash_set(w, t)
        \/ \E t \in Types : native_flash_get(w, t)
        \/ native_flash_all(w) \/ native_flash_render_inline(w) \/ native_flash_clear(w)
SessionsSpec == SessionsInit /\ [][SessionsNext]_SessionsVars

-----------------------------------------------------------------------------
(* Properties.                                                             *)

\* While a worker is at a request whose cookie it has accepted, session_data is
\* what the requests of that visitor have made of it and nothing else, whoever
\* was served before at this worker, whichever worker answered last, and
\* whatever answers were lost (native_session_decode, native_session_encode).
SessionRestored ==
    \A w \in SessionWorkers : Busy(w) /\ visit[w].restored => session_data[w] = visit[w].meant

\* Each form of the page that came with a cookie is accepted at every worker
\* that accepts the cookie, and no form whose token is not in that session,
\* until the handler makes a new token (csrf.tag, csrf.validate).
FormsAccepted ==
    \A w \in SessionWorkers :
        Busy(w) /\ visit[w].restored /\ ~visit[w].generated =>
            /\ visit[w].verdict = "refused" => visit[w].form \notin visit[w].sent.forms
            /\ visit[w].verdict = "accepted" => visit[w].form = Token(visit[w].sent.meant)

\* What a visitor left at one worker is what it finds at the next.
SessionKept == SessionRestored /\ FormsAccepted

\* A message is read at most once, by the first handler of its process that
\* asks for it, and waits there until then, unless it is replaced, cleared or
\* lost with the process.  Nothing ties it to the visitor for whom it was set:
\* flash_store is one table of the process, so that, against README's
\* "One-shot session messages" (README.md:155), whoever that process serves next
\* reads it, and its own visitor does not if another worker answers.
FlashReadOnce ==
    LET waiting == UNION {MessagesOf(flash_data[w]) \cup MessagesOf(flash_store[w]) : w \in SessionWorkers}
        read == {shown[i] : i \in DOMAIN shown}
    IN  /\ Cardinality(read) = Len(shown)
        /\ waiting = (1 .. messages) \ (read \cup gone)
        /\ read \cap gone = {}
=============================================================================
