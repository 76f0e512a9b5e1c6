------------------------------- MODULE ObjMap -------------------------------
(***************************************************************************)
(* The hash map of object.c: open addressing with linear probing, string   *)
(* keys that are compared by address (strings are interned), tombstones    *)
(* for deleted entries, and the for loop of vm.c over its entries.         *)
(*                                                                         *)
(* The operations run to completion one after another.  A probe that meets *)
(* neither its key nor an empty slot goes round the table for ever: then   *)
(* "spinning" is set and the process does nothing more.                    *)
(***************************************************************************)
EXTENDS Integers, FiniteSets, FiniteSetsExt, Functions

CONSTANTS
    Keys,         \* interned strings
    Values,       \* values stored by the program
    Nil,          \* VAL_NIL
    Empty,        \* NULL, the key of a slot never used
    Tombstone,    \* MAP_TOMBSTONE
    Hash,         \* Hash[k]: key->hash
    MinCapacity,  \* the first capacity, 8 in the code
    MaxCapacity,  \* bound: the largest capacity reached
    MaxLoops      \* bound: 1 if the program may end with a for loop, else 0

ASSUME KeyAssumption ==
    /\ Empty # Tombstone
    /\ {Empty, Tombstone} \cap Keys = {}
    /\ Nil \notin Values
    /\ Hash \in [Keys -> Nat]

\* Capacities are powers of two, so that hash & (capacity - 1) is a modulus.
ASSUME CapacityAssumption == MinCapacity \in {4, 8} /\ MaxLoops \in {0, 1}

VARIABLES
    entries,   \* map->entries, a function on 0 .. map->capacity - 1
    length,    \* map->length
    result,    \* what the last operation returned
    spinning,  \* a probe never ends
    \* a for loop over the map
    loop,      \* "none", "running" or "done"
    index,     \* iter->data[1]
    visits     \* visits[k]: visits of the loop to k, 2 for more than one, for
               \* the keys that stay in the map; none when the map has grown

loopVars == <<loop, index, visits>>
vars == <<entries, length, result, spinning, loopVars>>

Entry == [key : Keys \cup {Empty, Tombstone}, value : Values \cup {Nil}]

NoEntry == [key |-> Empty, value |-> Nil]

IsLive(e) == e.key \notin {Empty, Tombstone}

Answer(found, v) == [found |-> found, value |-> v]

-----------------------------------------------------------------------------
(* Probing.  A table is a function on 0 .. capacity - 1.                   *)

Capacity(T) == Cardinality(DOMAIN T)

\* The slot d steps after the home of k.
Slot(T, k, d) == (Hash[k] + d) % Capacity(T)

\* The distances at which a probe for k ends: the slot holds k or is empty.
Ends(T, k) ==
    LET capacity == Capacity(T)
    IN  {d \in DOMAIN T : T[(Hash[k] + d) % capacity].key \in {k, Empty}}

ProbeEnds(T, k) == Ends(T, k) # {}

\* The slot where it ends.
Probe(T, k) == Slot(T, k, Min(Ends(T, k)))

Holds(T, k) == ProbeEnds(T, k) /\ T[Probe(T, k)].key = k

\* Where obj_map_set puts k: its own slot, else the first tombstone on the
\* way, else the empty slot.
Place(T, k) ==
    LET way  == {d \in DOMAIN T : d < Min(Ends(T, k))}
        free == {d \in way : T[Slot(T, k, d)].key = Tombstone}
    IN  IF Holds(T, k) \/ free = {} THEN Probe(T, k) ELSE Slot(T, k, Min(free))

\* map_grow: a table of twice the size, into which the live entries go in
\* the order of their slots, each to the first empty slot from its home.
NewCapacity(T) == IF Capacity(T) < MinCapacity THEN MinCapacity
                                               ELSE 2 * Capacity(T)

Rehash(T, e) ==
    IF IsLive(e) THEN [T EXCEPT ![Probe(T, e.key)] = e] ELSE T

\* Mutant: the entries keep their slots.
map_grow_unhashed(T) ==
    [i \in 0..(NewCapacity(T) - 1) |-> IF i \in DOMAIN T THEN T[i] ELSE NoEntry]

\* Moved(T)[i]: the new table when the first i slots have been gone through.
Moved(T) ==
    LET moved[i \in 0..Capacity(T)] ==
            IF i = 0 THEN [j \in 0..(NewCapacity(T) - 1) |-> NoEntry]
                     ELSE Rehash(moved[i - 1], T[i - 1])
    IN  moved
map_grow(T) == Moved(T)[Capacity(T)]

\* "length + 1 > capacity * 3 / 4"
NeedsGrowth == length + 1 > (Capacity(entries) * 3) \div 4

-----------------------------------------------------------------------------
(* Operations on the map.                                                  *)

\* The program goes on: no probe spins, and it has not ended with its loop.
Going == ~spinning /\ loop # "done"

KeysOf(T) == {T[i].key : i \in {j \in DOMAIN T : IsLive(T[j])}}

obj_map_set(k, v) ==
    LET T == IF NeedsGrowth THEN map_grow(entries) ELSE entries
    IN  /\ Going
        /\ Capacity(T) <= MaxCapacity
        /\ ProbeEnds(T, k)
        /\ entries' = [T EXCEPT ![Place(T, k)] = [key |-> k, value |-> v]]
        /\ length' = IF Holds(T, k) THEN length ELSE length + 1
        /\ result' = Answer(Holds(T, k), v)
        /\ visits' = IF NeedsGrowth THEN <<>> ELSE visits
        /\ UNCHANGED <<spinning, loop, index>>

obj_map_get(k) ==
    /\ Going
    /\ entries # <<>> => ProbeEnds(entries, k)
    /\ result' = IF Holds(entries, k)
                 THEN Answer(TRUE, entries[Probe(entries, k)].value)
                 ELSE Answer(FALSE, Nil)
    /\ UNCHANGED <<entries, length, spinning, loopVars>>

\* Mutants: the slot becomes empty; the length is not adjusted.
obj_map_delete_emptying(k) ==
    /\ Going
    /\ entries # <<>> => ProbeEnds(entries, k)
    /\ IF Holds(entries, k)
       THEN /\ entries' = [entries EXCEPT ![Probe(entries, k)] = NoEntry]
            /\ length' = length - 1
       ELSE UNCHANGED <<entries, length>>
    /\ result' = Answer(Holds(entries, k), Nil)
    /\ visits' = Restrict(visits, DOMAIN visits \ {k})
    /\ UNCHANGED <<spinning, loop, index>>

obj_map_delete(k) ==
    /\ Going
    /\ entries # <<>> => ProbeEnds(entries, k)
    /\ IF Holds(entries, k)
       THEN /\ entries' = [entries EXCEPT ![Probe(entries, k)] =
                              [key |-> Tombstone, value |-> Nil]]
            /\ length' = length - 1
       ELSE UNCHANGED <<entries, length>>
    /\ result' = Answer(Holds(entries, k), Nil)
    /\ visits' = Restrict(visits, DOMAIN visits \ {k})
    /\ UNCHANGED <<spinning, loop, index>>

\* A get, a delete, or a set that does not grow the map, whose probe never
\* meets its key or an empty slot.
probe_forever(k) ==
    /\ Going
    /\ entries # <<>>
    /\ ~ProbeEnds(entries, k)
    /\ spinning' = TRUE
    /\ UNCHANGED <<entries, length, result, loopVars>>

-----------------------------------------------------------------------------
(* The for loop: the body may change the map between two calls of          *)
(* iterator_next.                                                          *)

make_iterator ==
    /\ Going
    /\ loop = "none" /\ MaxLoops > 0
    /\ loop' = "running"
    /\ index' = 0
    /\ visits' = [k \in KeysOf(entries) |-> 0]
    /\ UNCHANGED <<entries, length, result, spinning>>

LiveFrom(i) == {j \in DOMAIN entries : j >= i /\ IsLive(entries[j])}

Visit(k) ==
    IF k \in DOMAIN visits
    THEN [visits EXCEPT ![k] = IF @ = 0 THEN 1 ELSE 2]
    ELSE visits

\* Mutant: the index is advanced by one only.
iterator_next_slowly ==
    /\ Going
    /\ loop = "running"
    /\ LiveFrom(index) # {}
    /\ visits' = Visit(entries[Min(LiveFrom(index))].key)
    /\ index' = index + 1
    /\ UNCHANGED <<entries, length, result, spinning, loop>>

iterator_next ==
    /\ Going
    /\ loop = "running"
    /\ LiveFrom(index) # {}
    /\ visits' = Visit(entries[Min(LiveFrom(index))].key)
    /\ index' = Min(LiveFrom(index)) + 1
    /\ UNCHANGED <<entries, length, result, spinning, loop>>

iterator_done ==
    /\ Going
    /\ loop = "running"
    /\ LiveFrom(index) = {}
    /\ loop' = "done"
    /\ UNCHANGED <<entries, length, result, spinning, index, visits>>

-----------------------------------------------------------------------------

\* obj_map_new: no entries.
Init ==
    /\ entries = <<>>
    /\ length = 0
    /\ result = Answer(FALSE, Nil)
    /\ spinning = FALSE
    /\ loop = "none"
    /\ index = 0
    /\ visits = <<>>

Next ==
    \/ \E k \in Keys :
          \/ \E v \in Values : obj_map_set(k, v)
          \/ obj_map_get(k)
          \/ obj_map_delete(k)
          \/ probe_forever(k)
    \/ make_iterator
    \/ iterator_next
    \/ iterator_done

Spec == Init /\ [][Next]_vars

-----------------------------------------------------------------------------
(* Properties.                                                             *)

\* The types of the variables; map->length counts the live entries, as
\* obj_map_set and obj_map_delete maintain it.
TypeOK ==
    /\ Capacity(entries) \in {0} \cup {MinCapacity * 2^n : n \in 0..4}
    /\ entries \in [0..(Capacity(entries) - 1) -> Entry]
    /\ length = Cardinality({i \in DOMAIN entries : IsLive(entries[i])})
    /\ result \in [found : BOOLEAN, value : Values \cup {Nil}]
    /\ spinning \in BOOLEAN
    /\ loop \in {"none", "running", "done"}
    /\ index \in 0..MaxCapacity
    /\ DOMAIN visits \subseteq Keys /\ visits \in [DOMAIN visits -> 0..2]

\* Every live entry is where a probe for its key ends: no history of sets,
\* deletes, reused tombstones and rehashes (map_grow) breaks a probe chain.
EntriesReachable ==
    \A i \in DOMAIN entries :
        IsLive(entries[i]) =>
            ProbeEnds(entries, entries[i].key) /\ Probe(entries, entries[i].key) = i

\* The map is the finite map it stands for, whatever slots its entries have.
Contents(T) ==
    [k \in KeysOf(T) |-> T[CHOOSE i \in DOMAIN T : T[i].key = k].value]

Abstract == INSTANCE Dictionary WITH dict <- Contents(entries)
KeepsContents == Abstract!Spec

\* A for loop visits each key that stays in the map exactly once, whatever
\* its body sets and deletes, unless the body makes the map grow.
LoopVisitsOnce ==
    loop = "done" => \A k \in DOMAIN visits : visits[k] = 1

\* "Grow if load factor > 0.75": the map grows before its slots are used up,
\* so that every probe comes to an empty slot.
ProbingEnds == ~spinning
=============================================================================
