------------------------------ MODULE Services ------------------------------
(***************************************************************************)
(* The packages that go by the clock, ratelimit and cache, in one process. *)
(* The clock is time(NULL): it may be set back as well as go on.           *)
(***************************************************************************)
EXTENDS Integers, Sequences, FiniteSets

CONSTANTS Clients,               \* keys of ratelimit
          max_tokens, refill_rate, \* what the program gives to check
          CacheKeys, Ttls,
          MaxTime, MaxCalls      \* bounds: the clock, calls

ASSUME ServiceLimits ==
    /\ {max_tokens, refill_rate} \subseteq Nat \ {0}
    /\ {MaxTime, MaxCalls} \subseteq Nat /\ Ttls \subseteq Int

VARIABLES now, calls,
          ratelimit_store,  \* buckets [tokens, last_refill]
          checks,           \* history: per client <<time, allowed>> of each check
          cache_store,      \* entries [v, e]
          lastSet,          \* history: the entry of the last set, if no delete followed
          missed,           \* history: the keys that a get has not found since
          told              \* history: the answer of the last get, and what it had to be

ServicesVars == <<now, calls, ratelimit_store, checks, cache_store, lastSet, missed, told>>
limiter == <<ratelimit_store, checks>>
cache == <<cache_store, lastSet, missed, told>>

WithEntry(store, key, entry) ==
    [k \in DOMAIN store \cup {key} |-> IF k = key THEN entry ELSE store[k]]
WithoutEntry(store, key) == [k \in DOMAIN store \ {key} |-> store[k]]
Call == calls < MaxCalls /\ calls' = calls + 1 /\ UNCHANGED now

(* ratelimit *)

\* A bucket that is new is full.
Bucket(key) ==
    IF key \in DOMAIN ratelimit_store THEN ratelimit_store[key]
    ELSE [tokens |-> max_tokens, last_refill |-> now]
\* A clock that has been set back refills nothing, and does not move last_refill.
\* A mutant: it does.
Refilled_back(bucket) ==
    [tokens |-> IF bucket.tokens + (now - bucket.last_refill) * refill_rate > max_tokens THEN max_tokens
                ELSE IF now > bucket.last_refill THEN bucket.tokens + (now - bucket.last_refill) * refill_rate
                ELSE bucket.tokens,
     last_refill |-> now]
Refilled(bucket) ==
    LET elapsed == now - bucket.last_refill
        tokens == bucket.tokens + elapsed * refill_rate
    IN  IF elapsed <= 0 THEN bucket
        ELSE [tokens |-> IF tokens > max_tokens THEN max_tokens ELSE tokens, last_refill |-> now]

native_ratelimit_check(key) ==
    /\ Call
    /\ LET bucket == Refilled(Bucket(key))
           allowed == bucket.tokens > 0
       IN  /\ ratelimit_store' = WithEntry(ratelimit_store, key,
                 [bucket EXCEPT !.tokens = IF allowed THEN @ - 1 ELSE @])
           /\ checks' = [checks EXCEPT ![key] = Append(@, [time |-> now, allowed |-> allowed])]
    /\ UNCHANGED cache

(* cache *)

native_cache_set(key, ttl) ==
    /\ Call
    /\ cache_store' = WithEntry(cache_store, key, [v |-> calls, e |-> now + ttl])
    /\ lastSet' = WithEntry(lastSet, key, [v |-> calls, e |-> now + ttl])
    /\ missed' = missed \ {key}
    /\ UNCHANGED <<limiter, told>>

Expired(key) == now >= cache_store[key].e
LastSet(key) == IF key \in DOMAIN lastSet /\ now < lastSet[key].e THEN {lastSet[key].v} ELSE {}
native_cache_get(key) ==
    /\ Call
    /\ IF key \in DOMAIN cache_store /\ ~Expired(key)
       THEN /\ told' = [answer |-> {cache_store[key].v}, last |-> LastSet(key), missed |-> key \in missed]
            /\ UNCHANGED <<cache_store, missed>>
       ELSE /\ told' = [answer |-> {}, last |-> LastSet(key), missed |-> key \in missed]
            /\ missed' = missed \cup {key}
            /\ cache_store' = IF key \in DOMAIN cache_store THEN WithoutEntry(cache_store, key) ELSE cache_store
    /\ UNCHANGED <<limiter, lastSet>>

native_cache_delete(key) ==
    /\ Call
    /\ cache_store' = WithoutEntry(cache_store, key)
    /\ lastSet' = WithoutEntry(lastSet, key)
    /\ UNCHANGED <<limiter, missed, told>>

\* time(NULL)
clock(t) == now' = t /\ UNCHANGED <<calls, limiter, cache>>

ServicesInit ==
    /\ now = 1 /\ calls = 0
    /\ ratelimit_store = <<>> /\ checks = [key \in Clients |-> <<>>]
    /\ cache_store = <<>> /\ lastSet = <<>> /\ missed = {}
    /\ told = [answer |-> {}, last |-> {}, missed |-> FALSE]
ServicesNext ==
    \/ \E key \in Clients : native_ratelimit_check(key)
    \/ \E key \in CacheKeys, ttl \in Ttls : native_cache_set(key, ttl)
    \/ \E key \in CacheKeys : native_cache_get(key)
    \/ \E key \in CacheKeys : native_cache_delete(key)
    \/ \E t \in 0 .. MaxTime : t # now /\ clock(t)
ServicesSpec == ServicesInit /\ [][ServicesNext]_ServicesVars

-----------------------------------------------------------------------------
(* Properties.                                                             *)

\* The latest time that the first i of a client's checks have seen, and how many
\* of the i-th to the j-th were allowed.
Seen(list, i) ==
    CHOOSE t \in {list[j].time : j \in 1 .. i} : \A j \in 1 .. i : list[j].time <= t
Allowed(list, i, j) == Cardinality({k \in i .. j : list[k].allowed})

\* A check is allowed just when no stretch of checks up to it, however the clock
\* goes, has been allowed more often than max_tokens and what was refilled
\* meanwhile (native_ratelimit_check).
RateBounded ==
    \A key \in Clients : LET list == checks[key] IN \A j \in DOMAIN list :
        list[j].allowed <=>
            \A i \in 1 .. j :
                Allowed(list, i, j - 1) < max_tokens + refill_rate * (Seen(list, j) - Seen(list, i))

\* The cache returns the value that was set last, before it expires and unless
\* it was deleted; once a key has not been found it stays so until it is set
\* again, even if the clock is set back to before it expired (native_cache_get).
ExpiredStaysGone == told.answer = IF told.missed THEN {} ELSE told.last

\* What goes by the clock stays right when the clock is set back.
KeepsTime == RateBounded /\ ExpiredStaysGone
=============================================================================
