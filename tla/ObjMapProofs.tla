---------------------------- MODULE ObjMapProofs -----------------------------
(***************************************************************************)
(* Theorems about ObjMap, for any keys, hash codes and capacities: no      *)
(* history of operations breaks a probe chain, the map is the dictionary   *)
(* it stands for, and a for loop visits the keys that stay once.           *)
(***************************************************************************)
EXTENDS ObjMap, NumberFacts, FiniteSetTheorems

IsTable(T) == Capacity(T) \in Nat /\ T \in [0..(Capacity(T) - 1) -> Entry]

\* A probe for k ends at distance d.
EndsAt(T, k, d) ==
    /\ d \in DOMAIN T /\ T[Slot(T, k, d)].key \in {k, Empty}
    /\ \A e \in DOMAIN T : e < d => T[Slot(T, k, e)].key \notin {k, Empty}

\* Where entry i is reached.
ReachedAt(T, i, d) == EndsAt(T, T[i].key, d) /\ Slot(T, T[i].key, d) = i
Chained(T) == \A i \in DOMAIN T : IsLive(T[i]) => \E d \in DOMAIN T : ReachedAt(T, i, d)

\* A table has as many slots as its domain has numbers.
LEMMA TableIs ==
    ASSUME NEW c \in Nat, NEW T \in [0..(c - 1) -> Entry]
    PROVE  IsTable(T) /\ Capacity(T) = c /\ DOMAIN T = 0..(c - 1)
<1>1. Cardinality(0..(c - 1)) = c
    <2>1. Cardinality(0..(c - 1)) = IF 0 > c - 1 THEN 0 ELSE c - 1 - 0 + 1
        BY FS_Interval
    <2> QED BY <2>1
<1>2. DOMAIN T = 0..(c - 1)
    OBVIOUS
<1> QED BY <1>1, <1>2 DEF IsTable, Capacity

LEMMA Slots ==
    ASSUME NEW T, IsTable(T), NEW k \in Keys, NEW d \in DOMAIN T
    PROVE  /\ Slot(T, k, d) \in DOMAIN T
           /\ Slot(T, k, d) = (Hash[k] + d) % Capacity(T)
           /\ \A e \in DOMAIN T : Slot(T, k, e) = Slot(T, k, d) => e = d
<1>1. PICK c : c = Capacity(T)
    OBVIOUS
<1>2. PICK h : h = Hash[k]
    OBVIOUS
<1>3. c \in Nat /\ DOMAIN T = 0..(c - 1) /\ h \in Nat
    BY <1>1, <1>2, KeyAssumption DEF IsTable
<1>4. c \in Nat \ {0}
    BY <1>3
<1>5. h + d \in Nat
    BY <1>3
<1>6. (h + d) % c \in 0..(c - 1)
    BY <1>4, <1>5, Divided
<1>7. ASSUME NEW e \in DOMAIN T, (h + e) % c = (h + d) % c PROVE e = d
    BY <1>3, <1>4, <1>7, ProbesDiffer
<1> QED BY <1>1, <1>2, <1>3, <1>6, <1>7 DEF Slot

\* Every slot is on the way of every key.
LEMMA SlotReached ==
    ASSUME NEW T, IsTable(T), NEW k \in Keys, NEW i \in DOMAIN T
    PROVE  \E d \in DOMAIN T : Slot(T, k, d) = i
<1>1. PICK c : c = Capacity(T)
    OBVIOUS
<1>2. PICK h : h = Hash[k]
    OBVIOUS
<1>3. c \in Nat /\ DOMAIN T = 0..(c - 1) /\ h \in Nat
    BY <1>1, <1>2, KeyAssumption DEF IsTable
<1>4. c \in Nat \ {0}
    BY <1>3
<1>5. \E d \in 0..(c - 1) : (h + d) % c = i
    BY <1>3, <1>4, ProbesReach, ZenonT(40)
<1> QED BY <1>1, <1>2, <1>3, <1>5 DEF Slot

\* Where a probe ends is one slot.
LEMMA ProbeIs ==
    ASSUME NEW T, IsTable(T), NEW k \in Keys, NEW d, EndsAt(T, k, d)
    PROVE  ProbeEnds(T, k) /\ Min(Ends(T, k)) = d /\ Probe(T, k) = Slot(T, k, d)
<1>1. DOMAIN T \subseteq Nat
    BY DEF IsTable
<1>2. \A e : e \in Ends(T, k) <=> e \in DOMAIN T /\ T[Slot(T, k, e)].key \in {k, Empty}
    BY DEF Ends, Slot
<1>3. d \in Ends(T, k) /\ d \in Nat
    BY <1>1, <1>2 DEF EndsAt
<1>4. \A e \in Ends(T, k) : e \in Nat /\ ~(e < d)
    BY <1>1, <1>2 DEF EndsAt
<1>5. \A e \in Ends(T, k) : d <= e
    BY <1>3, <1>4
<1>6. \A x \in Ends(T, k) : (\A y \in Ends(T, k) : x <= y) => x = d
    BY <1>3, <1>4, <1>5
<1>7. Min(Ends(T, k)) = d
    <2> HIDE DEF Ends
    <2>1. /\ Min(Ends(T, k)) \in Ends(T, k)
          /\ \A y \in Ends(T, k) : Min(Ends(T, k)) <= y
        BY <1>3, <1>5 DEF Min
    <2> QED BY <1>6, <2>1
<1> QED BY <1>3, <1>7 DEF ProbeEnds, Probe

\* A probe that ends does so at some distance.
LEMMA ProbeHasEnd ==
    ASSUME NEW T, IsTable(T), NEW k \in Keys, ProbeEnds(T, k)
    PROVE  \E d \in DOMAIN T : EndsAt(T, k, d)
<1>1. DOMAIN T \subseteq Nat
    BY DEF IsTable
<1>2. \A e : e \in Ends(T, k) <=> e \in DOMAIN T /\ T[Slot(T, k, e)].key \in {k, Empty}
    BY DEF Ends, Slot
<1>3. Ends(T, k) \in SUBSET Nat /\ Ends(T, k) # {}
    BY <1>1, <1>2 DEF ProbeEnds
<1>4. PICK d \in Ends(T, k) : \A e \in Ends(T, k) : d <= e
    BY <1>3, LeastNumber
<1>5. \A e \in DOMAIN T : e < d => e \notin Ends(T, k)
    BY <1>1, <1>2, <1>4
<1> QED BY <1>2, <1>4, <1>5 DEF EndsAt

\* The live entries are those with keys.
LEMMA LiveIs ==
    ASSUME NEW T, IsTable(T), NEW i \in DOMAIN T
    PROVE  /\ T[i] \in Entry /\ (IsLive(T[i]) <=> T[i].key \in Keys)
           /\ IsLive(T[i]) \/ T[i].key = Empty \/ T[i].key = Tombstone
BY KeyAssumption DEF IsTable, IsLive, Entry

\* A live entry is the one that a probe for its key finds.
LEMMA Found ==
    ASSUME NEW T, IsTable(T), Chained(T), NEW i \in DOMAIN T, IsLive(T[i])
    PROVE  ProbeEnds(T, T[i].key) /\ Probe(T, T[i].key) = i /\ Holds(T, T[i].key)
<1>1. T[i].key \in Keys
    BY LiveIs
<1>2. PICK d \in DOMAIN T : ReachedAt(T, i, d)
    BY DEF Chained
<1>3. EndsAt(T, T[i].key, d) /\ Slot(T, T[i].key, d) = i
    BY <1>2 DEF ReachedAt
<1>4. ProbeEnds(T, T[i].key) /\ Probe(T, T[i].key) = i
    BY <1>1, <1>3, ProbeIs
<1> QED BY <1>4 DEF Holds

\* No key is entered twice.
LEMMA OneEntry ==
    ASSUME NEW T, IsTable(T), Chained(T), NEW i \in DOMAIN T, NEW j \in DOMAIN T,
           IsLive(T[i]), T[i].key = T[j].key
    PROVE  i = j
<1>1. IsLive(T[j])
    BY DEF IsLive
<1> QED BY <1>1, Found

\* A probe finds the keys of the table, and no others.
LEMMA HoldsIs ==
    ASSUME NEW T, IsTable(T), Chained(T), NEW k \in Keys
    PROVE  (Holds(T, k) <=> k \in KeysOf(T)) /\ Holds(T, k) = (k \in KeysOf(T))
<1>1. ASSUME Holds(T, k) PROVE k \in KeysOf(T)
    <2>1. PICK d \in DOMAIN T : EndsAt(T, k, d)
        BY <1>1, ProbeHasEnd DEF Holds
    <2>2. Probe(T, k) = Slot(T, k, d)
        BY <2>1, ProbeIs
    <2>3. Probe(T, k) \in DOMAIN T
        BY <2>2, Slots
    <2>4. T[Probe(T, k)].key = k
        BY <1>1 DEF Holds
    <2>5. IsLive(T[Probe(T, k)])
        BY <2>3, <2>4, LiveIs
    <2> QED BY <2>3, <2>4, <2>5 DEF KeysOf
<1>2. ASSUME k \in KeysOf(T) PROVE Holds(T, k)
    <2>1. PICK i \in DOMAIN T : IsLive(T[i]) /\ T[i].key = k
        BY <1>2 DEF KeysOf
    <2> QED BY <2>1, Found
<1>3. Holds(T, k) \in BOOLEAN
    BY DEF Holds
<1> QED BY <1>1, <1>2, <1>3

\* An entry for k is put at distance d: no probe for k ends before, and the slot
\* has the entry of k already, or none and k is not in the table.
MayPut(T, k, d) ==
    /\ d \in DOMAIN T
    /\ \A e \in DOMAIN T : e < d => T[Slot(T, k, e)].key \notin {k, Empty}
    /\ \/ T[Slot(T, k, d)].key = k
       \/ T[Slot(T, k, d)].key \in {Empty, Tombstone} /\ k \notin KeysOf(T)

Put(T, k, d, e) == [T EXCEPT ![Slot(T, k, d)] = e]

\* Then the chains stay, and so do the other entries.
LEMMA PutKeeps ==
    ASSUME NEW T, IsTable(T), Chained(T), NEW k \in Keys, NEW d, MayPut(T, k, d),
           NEW e \in Entry, e.key = k, NEW U, U = Put(T, k, d, e)
    PROVE  /\ IsTable(U) /\ DOMAIN U = DOMAIN T /\ Capacity(U) = Capacity(T)
           /\ Chained(U) /\ KeysOf(U) = KeysOf(T) \cup {k}
           /\ Slot(T, k, d) \in DOMAIN T /\ U[Slot(T, k, d)] = e
           /\ \A i \in DOMAIN T : T[i].key \in Keys \ {k} => U[i] = T[i] /\ i # Slot(T, k, d)
<1>1. PICK p : p = Slot(T, k, d)
    OBVIOUS
<1>2. p \in DOMAIN T /\ d \in DOMAIN T
    BY <1>1, Slots DEF MayPut
<1>3. /\ DOMAIN U = DOMAIN T /\ U[p] = e
      /\ \A i \in DOMAIN T : i # p => U[i] = T[i]
      /\ \A i \in DOMAIN U : U[i] \in Entry
    BY <1>1, <1>2 DEF IsTable, Put
<1>4. Capacity(U) = Capacity(T)
    BY <1>3 DEF Capacity
<1>5. IsTable(U)
    BY <1>1, <1>3, <1>4 DEF IsTable, Put
<1>6. \A j \in Keys : \A x \in DOMAIN T : Slot(U, j, x) = Slot(T, j, x)
    BY <1>4 DEF Slot
<1>7. IsLive(e) /\ k # Empty /\ k # Tombstone
    BY KeyAssumption DEF IsLive
<1>8. ASSUME NEW i \in DOMAIN T, T[i].key \in Keys \ {k} PROVE i # p
    BY <1>1, <1>8, KeyAssumption DEF MayPut
<1>9. ASSUME NEW i \in DOMAIN T, T[i].key = k PROVE i = p
    <2>1. IsLive(T[i])
        BY <1>9, LiveIs
    <2>2. k \in KeysOf(T)
        BY <1>9, <2>1 DEF KeysOf
    <2>3. T[p].key = k
        BY <1>1, <2>2 DEF MayPut
    <2> QED BY <1>2, <1>9, <2>1, <2>3, OneEntry
<1>10. ASSUME NEW i \in DOMAIN U, IsLive(U[i])
       PROVE  \E x \in DOMAIN U : ReachedAt(U, i, x)
    <2>1. CASE i = p
        <3>1. U[i].key = k
            BY <1>3, <2>1
        <3>2. ASSUME NEW x \in DOMAIN T, x < d PROVE U[Slot(U, k, x)].key \notin {k, Empty}
            <4>1. Slot(T, k, x) # p
                <5>1. x # d
                    BY <1>2, <3>2 DEF IsTable
                <5> QED BY <1>1, <1>2, <5>1, Slots
            <4>2. Slot(T, k, x) \in DOMAIN T
                BY Slots
            <4>3. T[Slot(T, k, x)].key \notin {k, Empty}
                BY <3>2 DEF MayPut
            <4> QED BY <1>3, <1>6, <4>1, <4>2, <4>3
        <3>3. EndsAt(U, k, d)
            BY <1>1, <1>2, <1>3, <1>6, <3>2 DEF EndsAt
        <3>4. Slot(U, k, d) = p
            BY <1>1, <1>2, <1>6
        <3> QED BY <1>2, <1>3, <2>1, <3>1, <3>3, <3>4 DEF ReachedAt
    <2>2. CASE i # p
        <3>1. U[i] = T[i] /\ IsLive(T[i]) /\ i \in DOMAIN T
            BY <1>3, <1>10, <2>2
        <3>2. PICK j \in Keys : j = T[i].key
            BY <3>1, LiveIs
        <3>3. j # k
            BY <1>9, <2>2, <3>1, <3>2
        <3>4. PICK x \in DOMAIN T : ReachedAt(T, i, x)
            BY <3>1 DEF Chained
        <3>5. EndsAt(T, j, x) /\ Slot(T, j, x) = i
            BY <3>2, <3>4 DEF ReachedAt
        <3>6. ASSUME NEW y \in DOMAIN T, y < x PROVE U[Slot(U, j, y)].key \notin {j, Empty}
            <4>1. T[Slot(T, j, y)].key \notin {j, Empty} /\ Slot(T, j, y) \in DOMAIN T
                BY <3>5, <3>6, Slots DEF EndsAt
            <4>2. CASE Slot(T, j, y) = p
                BY <1>3, <1>6, <1>7, <3>3, <4>2
            <4>3. CASE Slot(T, j, y) # p
                BY <1>3, <1>6, <4>1, <4>3
            <4> QED BY <4>2, <4>3
        <3>7. Slot(U, j, x) = i /\ U[i].key = j
            BY <1>6, <3>1, <3>2, <3>5
        <3>8. EndsAt(U, j, x)
            BY <1>3, <3>6, <3>7 DEF EndsAt
        <3> QED BY <1>3, <3>7, <3>8 DEF ReachedAt
    <2> QED BY <2>1, <2>2
<1>11. Chained(U)
    BY <1>10 DEF Chained
<1>12. KeysOf(U) = KeysOf(T) \cup {k}
    <2>1. ASSUME NEW x \in KeysOf(U) PROVE x \in KeysOf(T) \cup {k}
        <3>1. PICK i \in DOMAIN U : IsLive(U[i]) /\ U[i].key = x
            BY <2>1 DEF KeysOf
        <3>2. CASE i = p
            BY <1>3, <3>1, <3>2
        <3>3. CASE i # p
            BY <1>3, <3>1, <3>3 DEF KeysOf
        <3> QED BY <3>2, <3>3
    <2>2. k \in KeysOf(U)
        BY <1>2, <1>3, <1>7 DEF KeysOf
    <2>3. ASSUME NEW x \in KeysOf(T), x # k PROVE x \in KeysOf(U)
        <3>1. PICK i \in DOMAIN T : IsLive(T[i]) /\ T[i].key = x
            BY <2>3 DEF KeysOf
        <3>2. T[i].key \in Keys \ {k}
            BY <2>3, <3>1, LiveIs
        <3>3. i # p
            BY <1>8, <3>2
        <3>4. i \in DOMAIN U /\ IsLive(U[i]) /\ U[i].key = x
            BY <1>3, <3>1, <3>3
        <3> QED BY <3>4 DEF KeysOf
    <2> QED BY <2>1, <2>2, <2>3
<1> QED BY <1>1, <1>2, <1>3, <1>4, <1>5, <1>8, <1>11, <1>12

\* obj_map_set puts an entry where it may.
LEMMA PlaceIs ==
    ASSUME NEW T, IsTable(T), Chained(T), NEW k \in Keys, ProbeEnds(T, k)
    PROVE  \E d : MayPut(T, k, d) /\ Place(T, k) = Slot(T, k, d)
<1>1. DOMAIN T \subseteq Nat
    BY DEF IsTable
<1>2. PICK d \in DOMAIN T : EndsAt(T, k, d)
    BY ProbeHasEnd
<1>3. Min(Ends(T, k)) = d /\ Probe(T, k) = Slot(T, k, d)
    BY <1>2, ProbeIs
<1> DEFINE way == {e \in DOMAIN T : e < d}
           free == {e \in way : T[Slot(T, k, e)].key = Tombstone}
<1>4. Place(T, k) = IF Holds(T, k) \/ free = {} THEN Probe(T, k)
                    ELSE Slot(T, k, Min(free))
    BY <1>3 DEF Place
<1>5. Holds(T, k) <=> T[Slot(T, k, d)].key = k
    BY <1>2, <1>3, ProbeIs DEF Holds
<1>6. CASE Holds(T, k) \/ free = {}
    <2>1. Place(T, k) = Slot(T, k, d)
        BY <1>3, <1>4, <1>6
    <2>2. T[Slot(T, k, d)].key \in {k, Empty}
        BY <1>2 DEF EndsAt
    <2>3. MayPut(T, k, d)
        BY <1>2, <1>5, <2>2, HoldsIs DEF MayPut, EndsAt
    <2> QED BY <2>1, <2>3
<1>7. CASE ~(Holds(T, k) \/ free = {})
    <2>1. free \in SUBSET Nat /\ free # {}
        BY <1>1, <1>7
    <2>2. PICK e \in free : \A x \in free : e <= x
        <3> HIDE DEF free
        <3> QED BY <2>1, LeastNumber
    <2>3. Min(free) = e
        <3>1. \A x \in free : x \in Nat /\ e <= x
            BY <2>1, <2>2
        <3>2. e \in Nat
            BY <2>1
        <3>3. \A x \in free : (\A y \in free : x <= y) => x = e
            BY <2>2, <3>1, <3>2
        <3> HIDE DEF free
        <3>4. Min(free) \in free /\ \A y \in free : Min(free) <= y
            BY <2>2 DEF Min
        <3> QED BY <3>3, <3>4
    <2>4. e \in DOMAIN T /\ e < d /\ T[Slot(T, k, e)].key = Tombstone
        BY <2>2
    <2>5. ASSUME NEW x \in DOMAIN T, x < e
          PROVE  T[Slot(T, k, x)].key \notin {k, Empty}
        <3>1. x < d
            BY <1>1, <1>2, <2>4, <2>5
        <3> QED BY <1>2, <3>1 DEF EndsAt
    <2>6. k \notin KeysOf(T)
        BY <1>7, HoldsIs
    <2>7. MayPut(T, k, e)
        BY <2>4, <2>5, <2>6 DEF MayPut
    <2> QED BY <1>4, <1>7, <2>3, <2>7
<1> QED BY <1>6, <1>7

Removed(T, k) == [T EXCEPT ![Probe(T, k)] = [key |-> Tombstone, value |-> Nil]]

\* A deleted entry becomes a tombstone: the chains that go over it stay.
LEMMA RemoveKeeps ==
    ASSUME NEW T, IsTable(T), Chained(T), NEW k \in Keys, Holds(T, k),
           NEW U, U = Removed(T, k)
    PROVE  /\ IsTable(U) /\ DOMAIN U = DOMAIN T /\ Chained(U)
           /\ KeysOf(U) = KeysOf(T) \ {k}
           /\ \A i \in DOMAIN T : T[i].key \in Keys \ {k} => U[i] = T[i]
<1>1. PICK d \in DOMAIN T : EndsAt(T, k, d)
    BY ProbeHasEnd DEF Holds
<1>2. PICK p : p = Probe(T, k)
    OBVIOUS
<1>3. p \in DOMAIN T /\ T[p].key = k /\ IsLive(T[p])
    <2>1. Probe(T, k) = Slot(T, k, d)
        BY <1>1, ProbeIs
    <2>2. p \in DOMAIN T
        BY <1>2, <2>1, Slots
    <2> QED BY <1>2, <2>2, LiveIs DEF Holds
<1>4. PICK t : t = [key |-> Tombstone, value |-> Nil]
    OBVIOUS
<1>5. t \in Entry /\ t.key = Tombstone
    BY <1>4 DEF Entry
<1>6. /\ DOMAIN U = DOMAIN T /\ U[p] = t
      /\ \A i \in DOMAIN T : i # p => U[i] = T[i]
      /\ \A i \in DOMAIN U : U[i] \in Entry
    BY <1>2, <1>3, <1>4, <1>5 DEF IsTable, Removed
<1>7. Capacity(U) = Capacity(T)
    BY <1>6 DEF Capacity
<1>8. IsTable(U)
    BY <1>2, <1>4, <1>6, <1>7 DEF IsTable, Removed
<1>9. \A j \in Keys : \A x \in DOMAIN T : Slot(U, j, x) = Slot(T, j, x)
    BY <1>7 DEF Slot
<1>10. ASSUME NEW i \in DOMAIN T, IsLive(T[i]) PROVE i = p <=> T[i].key = k
    BY <1>3, <1>10, OneEntry
<1>11. ASSUME NEW i \in DOMAIN U, IsLive(U[i])
       PROVE  \E x \in DOMAIN U : ReachedAt(U, i, x)
    <2>1. i # p
        BY <1>5, <1>6, <1>11 DEF IsLive
    <2>2. U[i] = T[i] /\ IsLive(T[i]) /\ i \in DOMAIN T
        BY <1>6, <1>11, <2>1
    <2>3. PICK j \in Keys : j = T[i].key
        BY <2>2, LiveIs
    <2>4. PICK x \in DOMAIN T : ReachedAt(T, i, x)
        BY <2>2 DEF Chained
    <2>5. EndsAt(T, j, x) /\ Slot(T, j, x) = i
        BY <2>3, <2>4 DEF ReachedAt
    <2>6. ASSUME NEW y \in DOMAIN T, y < x PROVE U[Slot(U, j, y)].key \notin {j, Empty}
        <3>1. T[Slot(T, j, y)].key \notin {j, Empty} /\ Slot(T, j, y) \in DOMAIN T
            BY <2>5, <2>6, Slots DEF EndsAt
        <3>2. CASE Slot(T, j, y) = p
            BY <1>5, <1>6, <1>9, <3>2, KeyAssumption
        <3>3. CASE Slot(T, j, y) # p
            BY <1>6, <1>9, <3>1, <3>3
        <3> QED BY <3>2, <3>3
    <2>7. Slot(U, j, x) = i /\ U[i].key = j
        BY <1>9, <2>2, <2>3, <2>5
    <2>8. EndsAt(U, j, x)
        BY <1>6, <2>6, <2>7 DEF EndsAt
    <2> QED BY <1>6, <2>7, <2>8 DEF ReachedAt
<1>12. Chained(U)
    BY <1>11 DEF Chained
<1>13. KeysOf(U) = KeysOf(T) \ {k}
    <2>1. ASSUME NEW x \in KeysOf(U) PROVE x \in KeysOf(T) /\ x # k
        <3>1. PICK i \in DOMAIN U : IsLive(U[i]) /\ U[i].key = x
            BY <2>1 DEF KeysOf
        <3>2. i # p
            BY <1>5, <1>6, <3>1 DEF IsLive
        <3>3. i \in DOMAIN T /\ IsLive(T[i]) /\ T[i].key = x
            BY <1>6, <3>1, <3>2
        <3> QED BY <1>10, <3>2, <3>3 DEF KeysOf
    <2>2. ASSUME NEW x \in KeysOf(T), x # k PROVE x \in KeysOf(U)
        <3>1. PICK i \in DOMAIN T : IsLive(T[i]) /\ T[i].key = x
            BY <2>2 DEF KeysOf
        <3>2. i # p
            BY <1>3, <2>2, <3>1
        <3>3. i \in DOMAIN U /\ IsLive(U[i]) /\ U[i].key = x
            BY <1>6, <3>1, <3>2
        <3> QED BY <3>3 DEF KeysOf
    <2> QED BY <2>1, <2>2
<1>14. ASSUME NEW i \in DOMAIN T, T[i].key \in Keys \ {k} PROVE U[i] = T[i]
    BY <1>3, <1>6, <1>14
<1> QED BY <1>6, <1>8, <1>12, <1>13, <1>14

\* The contents of a table, entry by entry.
LEMMA ContentsAre ==
    ASSUME NEW T, IsTable(T), Chained(T)
    PROVE  /\ DOMAIN Contents(T) = KeysOf(T)
           /\ \A i \in DOMAIN T : IsLive(T[i]) => Contents(T)[T[i].key] = T[i].value
<1>1. DOMAIN Contents(T) = KeysOf(T)
    BY DEF Contents
<1>2. ASSUME NEW i \in DOMAIN T, IsLive(T[i])
      PROVE  Contents(T)[T[i].key] = T[i].value
    <2>1. PICK k : k = T[i].key
        OBVIOUS
    <2>2. k \in KeysOf(T)
        BY <1>2, <2>1 DEF KeysOf
    <2>3. PICK j : j = CHOOSE x \in DOMAIN T : T[x].key = k
        OBVIOUS
    <2>4. j \in DOMAIN T /\ T[j].key = k
        BY <2>1, <2>3
    <2>5. i = j
        BY <1>2, <2>1, <2>4, OneEntry
    <2>6. Contents(T)[k] = T[j].value
        BY <2>2, <2>3 DEF Contents
    <2> QED BY <2>1, <2>5, <2>6
<1> QED BY <1>1, <1>2

\* Tables with the same entries, in whatever slots, have the same contents.
LEMMA SameContents ==
    ASSUME NEW T, IsTable(T), Chained(T), NEW U, IsTable(U), Chained(U),
           KeysOf(U) = KeysOf(T),
           \A i \in DOMAIN T : IsLive(T[i]) => \E j \in DOMAIN U : U[j] = T[i]
    PROVE  Contents(U) = Contents(T)
<1>1. DOMAIN Contents(U) = KeysOf(T) /\ DOMAIN Contents(T) = KeysOf(T)
    BY ContentsAre
<1>2. ASSUME NEW k \in KeysOf(T) PROVE Contents(U)[k] = Contents(T)[k]
    <2>1. PICK i \in DOMAIN T : IsLive(T[i]) /\ T[i].key = k
        BY DEF KeysOf
    <2>2. PICK j \in DOMAIN U : U[j] = T[i]
        BY <2>1
    <2>3. Contents(T)[k] = T[i].value
        BY <2>1, ContentsAre
    <2>4. Contents(U)[k] = T[i].value
        BY <2>1, <2>2, ContentsAre
    <2> QED BY <2>3, <2>4
<1>3. Contents(U) = [k \in KeysOf(T) |-> Contents(U)[k]]
      /\ Contents(T) = [k \in KeysOf(T) |-> Contents(T)[k]]
    BY <1>1 DEF Contents
<1> QED BY <1>2, <1>3

-----------------------------------------------------------------------------
(* Growth.                                                                 *)

Blank(T) == [j \in 0..(NewCapacity(T) - 1) |-> NoEntry]
Movement(T, n, g) ==
    g = [i \in 0..n |-> IF i = 0 THEN Blank(T) ELSE Rehash(g[i - 1], T[i - 1])]

\* The recursion of map_grow is well defined.
LEMMA MovedIs ==
    ASSUME NEW T, Capacity(T) \in Nat
    PROVE  /\ Moved(T)[0] = Blank(T)
           /\ \A i \in 0..Capacity(T) :
                  i # 0 => Moved(T)[i] = Rehash(Moved(T)[i - 1], T[i - 1])
<1>1. PICK c \in Nat : c = Capacity(T)
    OBVIOUS
<1> DEFINE S == {n \in 0..c : \E g : Movement(T, n, g)}
<1>2. 0 \in S
    <2>1. PICK g : g = [i \in 0..0 |-> Blank(T)]
        OBVIOUS
    <2>2. \A i \in 0..0 : i = 0
        OBVIOUS
    <2>3. Movement(T, 0, g)
        BY <2>1, <2>2 DEF Movement
    <2> QED BY <2>3
<1>3. ASSUME NEW n \in 0..c, n # 0, n - 1 \in S PROVE n \in S
    <2>1. PICK g : Movement(T, n - 1, g)
        BY <1>3
    <2>2. PICK h : h = [i \in 0..n |-> IF i = n THEN Rehash(g[n - 1], T[n - 1]) ELSE g[i]]
        OBVIOUS
    <2>3. /\ n \in Nat /\ n - 1 \in 0..n /\ n - 1 # n
          /\ \A i \in 0..n : i # n => i \in 0..(n - 1)
          /\ \A i \in 0..n : i # 0 => i - 1 \in 0..(n - 1) /\ i - 1 \in 0..n /\ i - 1 # n
        BY <1>3
    <2>4. \A i \in 0..(n - 1) :
              g[i] = IF i = 0 THEN Blank(T) ELSE Rehash(g[i - 1], T[i - 1])
        BY <2>1 DEF Movement
    <2>5. \A i \in 0..n : i # n => h[i] = g[i]
        BY <2>2
    <2>6. ASSUME NEW i \in 0..n
          PROVE  h[i] = IF i = 0 THEN Blank(T) ELSE Rehash(h[i - 1], T[i - 1])
        <3>1. CASE i = n
            <4>1. h[n] = Rehash(g[n - 1], T[n - 1])
                BY <1>3, <2>2
            <4>2. h[n - 1] = g[n - 1]
                BY <2>3, <2>5
            <4> QED BY <1>3, <3>1, <4>1, <4>2
        <3>2. CASE i # n /\ i # 0
            <4>1. h[i] = g[i] /\ h[i - 1] = g[i - 1]
                BY <2>3, <2>5, <3>2
            <4> QED BY <2>3, <2>4, <3>2, <4>1
        <3>3. CASE i # n /\ i = 0
            BY <2>3, <2>4, <2>5, <3>3
        <3> QED BY <3>1, <3>2, <3>3
    <2>7. h = [i \in 0..n |-> h[i]]
        BY <2>2
    <2>8. Movement(T, n, h)
        BY <2>6, <2>7 DEF Movement
    <2> QED BY <2>8
<1>4. c \in S
    <2> HIDE DEF S
    <2> QED BY <1>2, <1>3, Induction
<1>5. PICK g : Movement(T, c, g)
    BY <1>4
<1>6. Moved(T) = CHOOSE f : Movement(T, c, f)
    BY <1>1 DEF Moved, Movement, Blank
<1>7. Movement(T, c, Moved(T))
    BY <1>5, <1>6
<1>8. \A i \in 0..c : Moved(T)[i] =
          IF i = 0 THEN Blank(T) ELSE Rehash(Moved(T)[i - 1], T[i - 1])
    BY <1>7 DEF Movement
<1> QED BY <1>1, <1>8

\* The slots that are not empty, and the table when the first i slots of T have
\* been gone through.
Used(M) == {p \in DOMAIN M : M[p].key # Empty}

GrownTo(T, M, i) ==
    /\ IsTable(M) /\ Capacity(M) = NewCapacity(T) /\ Chained(M)
    /\ \A k \in KeysOf(M) : \E j \in DOMAIN T : j < i /\ IsLive(T[j]) /\ T[j].key = k
    /\ \A j \in DOMAIN T : j < i /\ IsLive(T[j]) => \E p \in DOMAIN M : M[p] = T[j]
    /\ IsFiniteSet(Used(M)) /\ Cardinality(Used(M)) <= i

LEMMA NewCapacityIs ==
    ASSUME NEW T, Capacity(T) \in Nat
    PROVE  NewCapacity(T) \in Nat /\ Capacity(T) < NewCapacity(T)
BY CapacityAssumption DEF NewCapacity

LEMMA BlankIs ==
    ASSUME NEW T, IsTable(T)
    PROVE  GrownTo(T, Blank(T), 0)
<1>1. PICK c \in Nat : c = NewCapacity(T)
    BY NewCapacityIs DEF IsTable
<1>2. NoEntry \in Entry /\ NoEntry.key = Empty
    BY DEF NoEntry, Entry
<1>3. PICK M : M = Blank(T)
    OBVIOUS
<1>4. M \in [0..(c - 1) -> Entry] /\ \A p \in DOMAIN M : M[p].key = Empty
    BY <1>1, <1>2, <1>3 DEF Blank
<1>5. IsTable(M) /\ Capacity(M) = c
    BY <1>4, TableIs
<1>6. \A p \in DOMAIN M : ~IsLive(M[p])
    BY <1>4 DEF IsLive
<1>7. Used(M) = {}
    BY <1>4 DEF Used
<1>8. IsFiniteSet(Used(M)) /\ Cardinality(Used(M)) = 0
    BY <1>7, FS_EmptySet
<1>9. KeysOf(M) = {} /\ Chained(M)
    BY <1>6 DEF KeysOf, Chained
<1>10. \A j \in DOMAIN T : ~(j < 0)
    BY DEF IsTable
<1> QED BY <1>1, <1>3, <1>5, <1>8, <1>9, <1>10 DEF GrownTo

\* While fewer entries than slots have moved, a probe for a key that has not
\* moved ends at an empty slot.
LEMMA RoomFor ==
    ASSUME NEW M, IsTable(M), IsFiniteSet(Used(M)), Cardinality(Used(M)) < Capacity(M),
           NEW k \in Keys, k \notin KeysOf(M)
    PROVE  \E d : EndsAt(M, k, d) /\ MayPut(M, k, d) /\ M[Slot(M, k, d)].key = Empty
<1>1. PICK p \in DOMAIN M : M[p].key = Empty
    <2>1. ASSUME Used(M) = DOMAIN M PROVE FALSE
        <3>1. PICK n : n = Cardinality(Used(M))
            OBVIOUS
        <3>2. n \in Nat /\ n = Capacity(M) /\ n < Capacity(M)
            BY <2>1, <3>1, FS_CardinalityType DEF Capacity
        <3> QED BY <3>2
    <2> QED BY <2>1 DEF Used
<1>2. PICK e \in DOMAIN M : Slot(M, k, e) = p
    BY SlotReached
<1>3. ProbeEnds(M, k)
    BY <1>1, <1>2 DEF ProbeEnds, Ends, Slot
<1>4. PICK d \in DOMAIN M : EndsAt(M, k, d)
    BY <1>3, ProbeHasEnd
<1>5. Slot(M, k, d) \in DOMAIN M /\ M[Slot(M, k, d)].key \in {k, Empty}
    BY <1>4, Slots DEF EndsAt
<1>6. M[Slot(M, k, d)].key # k
    <2>1. SUFFICES ASSUME M[Slot(M, k, d)].key = k PROVE FALSE
        OBVIOUS
    <2>2. IsLive(M[Slot(M, k, d)])
        BY <1>5, <2>1, LiveIs
    <2> QED BY <1>5, <2>1, <2>2 DEF KeysOf
<1> QED BY <1>4, <1>5, <1>6 DEF EndsAt, MayPut

LEMMA RehashGrows ==
    ASSUME NEW T, IsTable(T), Chained(T), NEW i \in 0..Capacity(T), i # 0,
           NEW M, GrownTo(T, M, i - 1)
    PROVE  GrownTo(T, Rehash(M, T[i - 1]), i)
<1>1. PICK e : e = T[i - 1]
    OBVIOUS
<1>2. /\ i - 1 \in DOMAIN T /\ e \in Entry
      /\ \A j \in DOMAIN T : j < i <=> j < i - 1 \/ j = i - 1
    BY <1>1 DEF IsTable
<1>3. IsTable(M) /\ Capacity(M) = NewCapacity(T) /\ Chained(M)
    BY DEF GrownTo
<1>4. IsFiniteSet(Used(M)) /\ Cardinality(Used(M)) \in Nat /\ Cardinality(Used(M)) <= i - 1
    BY FS_CardinalityType DEF GrownTo
<1>5. CASE ~IsLive(e)
    <2>1. Rehash(M, e) = M
        BY <1>5 DEF Rehash
    <2>2. \A j \in DOMAIN T : j < i /\ IsLive(T[j]) <=> j < i - 1 /\ IsLive(T[j])
        BY <1>1, <1>2, <1>5
    <2>3. Cardinality(Used(M)) <= i
        BY <1>4
    <2>4. GrownTo(T, M, i)
        BY <1>4, <2>2, <2>3 DEF GrownTo
    <2> QED BY <1>1, <2>1, <2>4
<1>6. CASE IsLive(e)
    <2>1. PICK k \in Keys : k = e.key
        BY <1>1, <1>2, <1>6, LiveIs
    <2>2. k \notin KeysOf(M)
        <3>1. SUFFICES ASSUME k \in KeysOf(M) PROVE FALSE
            OBVIOUS
        <3>2. PICK j \in DOMAIN T : j < i - 1 /\ IsLive(T[j]) /\ T[j].key = k
            BY <3>1 DEF GrownTo
        <3>3. j = i - 1
            BY <1>1, <1>2, <2>1, <3>2, OneEntry
        <3> QED BY <3>2, <3>3
    <2>3. Cardinality(Used(M)) < Capacity(M)
        <3>1. Capacity(T) \in Nat
            BY DEF IsTable
        <3>2. NewCapacity(T) \in Nat /\ Capacity(T) < NewCapacity(T)
            BY <3>1, NewCapacityIs
        <3> QED BY <1>3, <1>4, <3>1, <3>2
    <2>4. PICK d : EndsAt(M, k, d) /\ MayPut(M, k, d) /\ M[Slot(M, k, d)].key = Empty
        BY <1>3, <1>4, <2>2, <2>3, RoomFor
    <2>5. PICK p : p = Slot(M, k, d)
        OBVIOUS
    <2>6. PICK U : U = [M EXCEPT ![p] = e]
        OBVIOUS
    <2>7. Rehash(M, e) = U
        <3>1. Probe(M, k) = p
            BY <1>3, <2>4, <2>5, ProbeIs
        <3> QED BY <1>6, <2>1, <2>6, <3>1 DEF Rehash
    <2>8. /\ IsTable(U) /\ DOMAIN U = DOMAIN M /\ Capacity(U) = Capacity(M)
          /\ Chained(U) /\ KeysOf(U) = KeysOf(M) \cup {k}
          /\ p \in DOMAIN M /\ U[p] = e
          /\ \A x \in DOMAIN M : M[x].key \in Keys \ {k} => U[x] = M[x] /\ x # p
        <3>1. U = Put(M, k, d, e)
            BY <2>5, <2>6 DEF Put
        <3>2. e \in Entry /\ e.key = k /\ MayPut(M, k, d)
            BY <1>2, <2>1, <2>4
        <3>3. /\ IsTable(U) /\ DOMAIN U = DOMAIN M /\ Capacity(U) = Capacity(M)
              /\ Chained(U) /\ KeysOf(U) = KeysOf(M) \cup {k}
              /\ Slot(M, k, d) \in DOMAIN M /\ U[Slot(M, k, d)] = e
              /\ \A x \in DOMAIN M :
                     M[x].key \in Keys \ {k} => U[x] = M[x] /\ x # Slot(M, k, d)
            BY <1>3, <3>1, <3>2, PutKeeps
        <3> QED BY <2>5, <3>3
    <2>9. ASSUME NEW x \in KeysOf(U)
          PROVE  \E j \in DOMAIN T : j < i /\ IsLive(T[j]) /\ T[j].key = x
        <3>1. CASE x \in KeysOf(M)
            BY <1>2, <3>1 DEF GrownTo
        <3>2. CASE x = k
            BY <1>1, <1>2, <1>6, <2>1, <3>2
        <3> QED BY <2>8, <2>9, <3>1, <3>2
    <2>10. ASSUME NEW j \in DOMAIN T, j < i, IsLive(T[j])
           PROVE  \E x \in DOMAIN U : U[x] = T[j]
        <3>1. CASE j = i - 1
            BY <1>1, <2>8, <3>1
        <3>2. CASE j # i - 1
            <4>1. PICK x \in DOMAIN M : M[x] = T[j]
                BY <1>2, <2>10, <3>2 DEF GrownTo
            <4>2. M[x].key # k
                <5>1. ASSUME M[x].key = k PROVE FALSE
                    <6>1. k \in KeysOf(M)
                        BY <2>10, <4>1, <5>1 DEF KeysOf
                    <6> QED BY <2>2, <6>1
                <5> QED BY <5>1
            <4>3. M[x].key \in Keys
                BY <2>10, <4>1, LiveIs
            <4> QED BY <2>8, <4>1, <4>2, <4>3
        <3> QED BY <3>1, <3>2
    <2>11. IsFiniteSet(Used(U)) /\ Cardinality(Used(U)) <= i
        <3>1. e.key # Empty
            BY <1>6 DEF IsLive
        <3>2. \A x \in DOMAIN M : x # p => U[x] = M[x]
            BY <2>6
        <3>3. Used(U) = Used(M) \cup {p}
            BY <2>8, <3>1, <3>2 DEF Used
        <3>4. p \notin Used(M)
            BY <2>4, <2>5 DEF Used
        <3>5. IsFiniteSet(Used(U)) /\ Cardinality(Used(U)) = Cardinality(Used(M)) + 1
            BY <1>4, <3>3, <3>4, FS_AddElement
        <3> QED BY <1>4, <3>5
    <2>12. GrownTo(T, U, i)
        BY <1>3, <2>8, <2>9, <2>10, <2>11 DEF GrownTo
    <2> QED BY <1>1, <2>7, <2>12
<1> QED BY <1>5, <1>6

\* map_grow loses no entry and breaks no chain.
LEMMA GrowKeeps ==
    ASSUME NEW T, IsTable(T), Chained(T)
    PROVE  /\ IsTable(map_grow(T)) /\ Chained(map_grow(T))
           /\ KeysOf(map_grow(T)) = KeysOf(T)
           /\ Contents(map_grow(T)) = Contents(T)
<1>1. PICK c \in Nat : c = Capacity(T)
    BY DEF IsTable
<1> DEFINE S == {i \in 0..c : GrownTo(T, Moved(T)[i], i)}
<1>2. 0 \in S
    BY <1>1, MovedIs, BlankIs
<1>3. ASSUME NEW i \in 0..c, i # 0, i - 1 \in S PROVE i \in S
    <2>1. GrownTo(T, Moved(T)[i - 1], i - 1)
        BY <1>3
    <2>2. Moved(T)[i] = Rehash(Moved(T)[i - 1], T[i - 1])
        BY <1>1, <1>3, MovedIs
    <2>3. GrownTo(T, Rehash(Moved(T)[i - 1], T[i - 1]), i)
        BY <1>1, <1>3, <2>1, RehashGrows
    <2> QED BY <2>2, <2>3
<1>4. c \in S
    <2> HIDE DEF S
    <2> QED BY <1>2, <1>3, Induction
<1>5. PICK M : M = map_grow(T)
    OBVIOUS
<1>6. GrownTo(T, M, c)
    BY <1>1, <1>4, <1>5 DEF map_grow
<1>7. \A j \in DOMAIN T : j < c
    BY <1>1 DEF IsTable
<1>8. /\ IsTable(M) /\ Chained(M)
      /\ \A k \in KeysOf(M) : \E j \in DOMAIN T : IsLive(T[j]) /\ T[j].key = k
      /\ \A j \in DOMAIN T : IsLive(T[j]) => \E p \in DOMAIN M : M[p] = T[j]
    BY <1>6, <1>7 DEF GrownTo
<1>9. KeysOf(M) = KeysOf(T)
    <2>1. KeysOf(M) \subseteq KeysOf(T)
        BY <1>8 DEF KeysOf
    <2>2. ASSUME NEW k \in KeysOf(T) PROVE k \in KeysOf(M)
        <3>1. PICK j \in DOMAIN T : IsLive(T[j]) /\ T[j].key = k
            BY DEF KeysOf
        <3>2. PICK p \in DOMAIN M : M[p] = T[j]
            BY <1>8, <3>1
        <3> QED BY <3>1, <3>2 DEF KeysOf
    <2> QED BY <2>1, <2>2
<1>10. Contents(M) = Contents(T)
    BY <1>8, <1>9, SameContents
<1> QED BY <1>5, <1>8, <1>9, <1>10

-----------------------------------------------------------------------------
(* The operations on a table without a broken chain.                       *)

MapInv == IsTable(entries) /\ Chained(entries)

LEMMA EmptyTable == IsTable(<<>>) /\ Chained(<<>>) /\ KeysOf(<<>>) = {}
<1>1. <<>> \in [0..(0 - 1) -> Entry]
    OBVIOUS
<1>2. PICK T : T = <<>>
    OBVIOUS
<1>3. PICK c \in Nat : c = 0
    OBVIOUS
<1>4. T \in [0..(c - 1) -> Entry] /\ DOMAIN T = {}
    BY <1>1, <1>2, <1>3
<1>5. IsTable(T)
    BY <1>4, TableIs
<1> QED BY <1>2, <1>4, <1>5 DEF Chained, KeysOf

\* A live entry stays where it is, but when the map grows.
StaysIn(T, U) ==
    \A i \in DOMAIN U : IsLive(U[i]) /\ U[i].key \in KeysOf(T) =>
        i \in DOMAIN T /\ IsLive(T[i]) /\ T[i].key = U[i].key

Entered(T, k, v) == [T EXCEPT ![Place(T, k)] = [key |-> k, value |-> v]]

LEMMA PutIs ==
    ASSUME NEW T, IsTable(T), Chained(T), NEW k \in Keys, ProbeEnds(T, k), NEW v \in Values,
           NEW U, U = Entered(T, k, v)
    PROVE  /\ IsTable(U) /\ Chained(U) /\ KeysOf(U) = KeysOf(T) \cup {k}
           /\ Contents(U)[k] = v
           /\ \A j \in KeysOf(T) \ {k} : Contents(U)[j] = Contents(T)[j]
           /\ StaysIn(T, U)
<1>1. PICK d : MayPut(T, k, d) /\ Place(T, k) = Slot(T, k, d)
    BY PlaceIs
<1>2. PICK e : e = [key |-> k, value |-> v]
    OBVIOUS
<1>3. e \in Entry /\ e.key = k /\ e.value = v
    BY <1>2 DEF Entry
<1>4. U = Put(T, k, d, e)
    BY <1>1, <1>2 DEF Put, Entered
<1>5. PICK p : p = Slot(T, k, d)
    OBVIOUS
<1>6. /\ IsTable(U) /\ DOMAIN U = DOMAIN T
      /\ Chained(U) /\ KeysOf(U) = KeysOf(T) \cup {k}
      /\ p \in DOMAIN T /\ U[p] = e
      /\ \A i \in DOMAIN T : T[i].key \in Keys \ {k} => U[i] = T[i] /\ i # p
    <2>1. MayPut(T, k, d)
        BY <1>1
    <2>2. /\ IsTable(U) /\ DOMAIN U = DOMAIN T /\ Capacity(U) = Capacity(T)
          /\ Chained(U) /\ KeysOf(U) = KeysOf(T) \cup {k}
          /\ Slot(T, k, d) \in DOMAIN T /\ U[Slot(T, k, d)] = e
          /\ \A i \in DOMAIN T :
                 T[i].key \in Keys \ {k} => U[i] = T[i] /\ i # Slot(T, k, d)
        BY <1>3, <1>4, <2>1, PutKeeps
    <2> QED BY <1>5, <2>2
<1>7. \A i \in DOMAIN T : i # p => U[i] = T[i]
    BY <1>4, <1>5 DEF Put
<1>8. IsLive(U[p])
    BY <1>3, <1>6, LiveIs
<1>9. Contents(U)[k] = v
    BY <1>3, <1>6, <1>8, ContentsAre
<1>10. ASSUME NEW j \in KeysOf(T), j # k PROVE Contents(U)[j] = Contents(T)[j]
    <2>1. PICK i \in DOMAIN T : IsLive(T[i]) /\ T[i].key = j
        BY DEF KeysOf
    <2>2. T[i].key \in Keys \ {k}
        BY <1>10, <2>1, LiveIs
    <2>3. U[i] = T[i] /\ i \in DOMAIN U
        BY <1>6, <2>2
    <2>4. Contents(T)[j] = T[i].value
        BY <2>1, ContentsAre
    <2>5. Contents(U)[j] = T[i].value
        BY <1>6, <2>1, <2>3, ContentsAre
    <2> QED BY <2>4, <2>5
<1>11. ASSUME NEW i \in DOMAIN U, IsLive(U[i]), U[i].key \in KeysOf(T)
       PROVE  i \in DOMAIN T /\ IsLive(T[i]) /\ T[i].key = U[i].key
    <2>1. CASE i = p
        <3>1. U[i].key = k
            BY <1>3, <1>6, <2>1
        <3>2. T[p].key = k
            BY <1>1, <1>5, <1>11, <3>1 DEF MayPut
        <3> QED BY <1>6, <2>1, <3>1, <3>2, LiveIs
    <2>2. CASE i # p
        BY <1>6, <1>7, <1>11, <2>2
    <2> QED BY <2>1, <2>2
<1> QED BY <1>6, <1>9, <1>10, <1>11 DEF StaysIn

LEMMA SetIs ==
    ASSUME MapInv, NEW k \in Keys, NEW v \in Values, obj_map_set(k, v)
    PROVE  /\ MapInv' /\ KeysOf(entries') = KeysOf(entries) \cup {k}
           /\ Contents(entries')[k] = v
           /\ \A j \in KeysOf(entries) \ {k} : Contents(entries')[j] = Contents(entries)[j]
           /\ result' = Answer(k \in KeysOf(entries), v)
           /\ NeedsGrowth \/ StaysIn(entries, entries')
<1>1. PICK T : T = IF NeedsGrowth THEN map_grow(entries) ELSE entries
    OBVIOUS
<1>2. IsTable(T) /\ Chained(T) /\ KeysOf(T) = KeysOf(entries) /\ Contents(T) = Contents(entries)
    BY <1>1, GrowKeeps DEF MapInv
<1>3. /\ ProbeEnds(T, k)
      /\ entries' = Entered(T, k, v)
      /\ result' = Answer(Holds(T, k), v)
    BY <1>1 DEF obj_map_set, Entered
<1>4. /\ IsTable(entries') /\ Chained(entries') /\ KeysOf(entries') = KeysOf(T) \cup {k}
      /\ Contents(entries')[k] = v
      /\ \A j \in KeysOf(T) \ {k} : Contents(entries')[j] = Contents(T)[j]
      /\ StaysIn(T, entries')
    <2>1. PICK U : U = entries'
        OBVIOUS
    <2> QED BY <1>2, <1>3, <2>1, PutIs
<1>5. MapInv'
    BY <1>4 DEF MapInv
<1>6. result' = Answer(k \in KeysOf(entries), v)
    <2>1. Holds(T, k) = (k \in KeysOf(T))
        BY <1>2, HoldsIs
    <2> QED BY <1>2, <1>3, <2>1
<1>7. NeedsGrowth \/ StaysIn(entries, entries')
    BY <1>1, <1>4
<1> QED BY <1>2, <1>4, <1>5, <1>6, <1>7

LEMMA DeleteIs ==
    ASSUME MapInv, NEW k \in Keys, obj_map_delete(k)
    PROVE  /\ MapInv' /\ KeysOf(entries') = KeysOf(entries) \ {k}
           /\ \A j \in KeysOf(entries) \ {k} : Contents(entries')[j] = Contents(entries)[j]
           /\ result' = Answer(k \in KeysOf(entries), Nil)
           /\ StaysIn(entries, entries')
<1>1. PICK T : T = entries
    OBVIOUS
<1>2. PICK U : U = entries'
    OBVIOUS
<1>3. IsTable(T) /\ Chained(T)
    BY <1>1 DEF MapInv
<1>4. Holds(T, k) = (k \in KeysOf(T))
    BY <1>3, HoldsIs
<1>5. CASE ~Holds(T, k)
    <2>1. U = T
        BY <1>1, <1>2, <1>5 DEF obj_map_delete
    <2>2. KeysOf(U) = KeysOf(T) \ {k}
        BY <1>4, <1>5, <2>1
    <2>3. StaysIn(T, U)
        BY <2>1 DEF StaysIn
    <2>4. result' = Answer(k \in KeysOf(T), Nil)
        BY <1>1, <1>4 DEF obj_map_delete
    <2> QED BY <1>1, <1>2, <1>3, <2>1, <2>2, <2>3, <2>4 DEF MapInv
<1>6. CASE Holds(T, k)
    <2>1. U = Removed(T, k)
        BY <1>1, <1>2, <1>6 DEF obj_map_delete, Removed
    <2>2. /\ IsTable(U) /\ DOMAIN U = DOMAIN T /\ Chained(U)
          /\ KeysOf(U) = KeysOf(T) \ {k}
          /\ \A i \in DOMAIN T : T[i].key \in Keys \ {k} => U[i] = T[i]
        BY <1>3, <1>6, <2>1, RemoveKeeps
    <2>3. ASSUME NEW j \in KeysOf(T), j # k PROVE Contents(U)[j] = Contents(T)[j]
        <3>1. PICK i \in DOMAIN T : IsLive(T[i]) /\ T[i].key = j
            BY DEF KeysOf
        <3>2. T[i].key \in Keys \ {k}
            BY <1>3, <2>3, <3>1, LiveIs
        <3>3. U[i] = T[i] /\ i \in DOMAIN U
            BY <2>2, <3>2
        <3>4. Contents(T)[j] = T[i].value
            BY <1>3, <3>1, ContentsAre
        <3>5. Contents(U)[j] = T[i].value
            BY <2>2, <3>1, <3>3, ContentsAre
        <3> QED BY <3>4, <3>5
    <2>4. ASSUME NEW i \in DOMAIN U, IsLive(U[i])
          PROVE  i \in DOMAIN T /\ IsLive(T[i]) /\ T[i].key = U[i].key
        <3>1. U[i] = T[i]
            <4>1. CASE i = Probe(T, k)
                <5>1. U[i].key = Tombstone
                    BY <2>1, <2>2, <4>1 DEF Removed
                <5> QED BY <2>4, <5>1 DEF IsLive
            <4>2. CASE i # Probe(T, k)
                BY <2>1, <4>2 DEF Removed
            <4> QED BY <4>1, <4>2
        <3> QED BY <2>2, <2>4, <3>1
    <2>5. StaysIn(T, U)
        BY <2>4 DEF StaysIn
    <2>6. result' = Answer(k \in KeysOf(T), Nil)
        BY <1>1, <1>4 DEF obj_map_delete
    <2> QED BY <1>1, <1>2, <2>2, <2>3, <2>5, <2>6 DEF MapInv
<1> QED BY <1>5, <1>6

LEMMA GetIs ==
    ASSUME MapInv, NEW k \in Keys, obj_map_get(k)
    PROVE  result' = IF k \in KeysOf(entries) THEN Answer(TRUE, Contents(entries)[k])
                                             ELSE Answer(FALSE, Nil)
<1>1. PICK T : T = entries
    OBVIOUS
<1>2. IsTable(T) /\ Chained(T)
    BY <1>1 DEF MapInv
<1>3. Holds(T, k) <=> k \in KeysOf(T)
    BY <1>2, HoldsIs
<1>4. CASE k \in KeysOf(T)
    <2>1. PICK i \in DOMAIN T : IsLive(T[i]) /\ T[i].key = k
        BY <1>4 DEF KeysOf
    <2>2. Probe(T, k) = i
        BY <1>2, <2>1, Found
    <2>3. Contents(T)[k] = T[Probe(T, k)].value
        BY <1>2, <2>1, <2>2, ContentsAre
    <2>4. result' = Answer(TRUE, T[Probe(T, k)].value)
        BY <1>1, <1>3, <1>4 DEF obj_map_get
    <2> QED BY <1>1, <1>4, <2>3, <2>4
<1>5. CASE k \notin KeysOf(T)
    BY <1>1, <1>3, <1>5 DEF obj_map_get
<1> QED BY <1>1, <1>4, <1>5

LEMMA MapInvInit == Init => MapInv
BY EmptyTable DEF Init, MapInv

LEMMA MapInvStep == MapInv /\ [Next]_vars => MapInv'
<1> SUFFICES ASSUME MapInv, [Next]_vars PROVE MapInv'
    OBVIOUS
<1>1. ASSUME UNCHANGED entries PROVE MapInv'
    BY <1>1 DEF MapInv
<1>2. CASE UNCHANGED vars
    BY <1>1, <1>2 DEF vars
<1>3. CASE make_iterator \/ iterator_next \/ iterator_done
    BY <1>1, <1>3 DEF make_iterator, iterator_next, iterator_done
<1>4. ASSUME NEW k \in Keys, NEW v \in Values, obj_map_set(k, v) PROVE MapInv'
    BY <1>4, SetIs
<1>5. ASSUME NEW k \in Keys, obj_map_delete(k) PROVE MapInv'
    BY <1>5, DeleteIs
<1>6. ASSUME NEW k \in Keys, obj_map_get(k) \/ probe_forever(k) PROVE MapInv'
    BY <1>1, <1>6 DEF obj_map_get, probe_forever
<1> QED BY <1>2, <1>3, <1>4, <1>5, <1>6 DEF Next

\* Every history of sets, deletes, reused tombstones and rehashes leaves each
\* live entry where a probe for its key ends (object.c), in a table of any size.
THEOREM ProbesFindEntries == Spec => []EntriesReachable
<1>1. MapInv => EntriesReachable
    BY Found DEF MapInv, EntriesReachable
<1> QED BY <1>1, MapInvInit, MapInvStep, PTL DEF Spec

-----------------------------------------------------------------------------
(* The for loop.                                                           *)

\* The loop has visited the entries before its index, each once.
Visited ==
    \A i \in DOMAIN entries :
        IsLive(entries[i]) /\ entries[i].key \in DOMAIN visits =>
            visits[entries[i].key] = IF i < index THEN 1 ELSE 0

LoopInv ==
    /\ index \in Nat
    /\ DOMAIN visits \subseteq KeysOf(entries)
    /\ loop \in {"none", "running", "done"}
    /\ loop = "none" => DOMAIN visits = {}
    /\ loop = "running" => Visited
    /\ LoopVisitsOnce

LEMMA LoopInvInit == Init => LoopInv
<1> SUFFICES ASSUME Init PROVE LoopInv
    OBVIOUS
<1>1. DOMAIN visits = {} /\ index = 0 /\ loop = "none"
    BY DEF Init
<1> QED BY <1>1 DEF LoopInv, LoopVisitsOnce

\* The body of the loop changes the map.
LEMMA LoopInvSet ==
    ASSUME MapInv, LoopInv, NEW k \in Keys, NEW v \in Values, obj_map_set(k, v)
    PROVE  LoopInv'
<1>1. KeysOf(entries') = KeysOf(entries) \cup {k} /\ (NeedsGrowth \/ StaysIn(entries, entries'))
    BY SetIs
<1>2. /\ loop # "done" /\ loop' = loop /\ index' = index
      /\ visits' = IF NeedsGrowth THEN <<>> ELSE visits
    BY DEF obj_map_set, Going
<1>3. index \in Nat /\ DOMAIN visits \subseteq KeysOf(entries)
      /\ loop \in {"none", "running", "done"}
      /\ (loop = "none" => DOMAIN visits = {}) /\ (loop = "running" => Visited)
    BY DEF LoopInv
<1>4. CASE NeedsGrowth
    <2>1. DOMAIN visits' = {}
        BY <1>2, <1>4
    <2>2. Visited'
        BY <2>1 DEF Visited
    <2> QED BY <1>2, <1>3, <2>1, <2>2 DEF LoopInv, LoopVisitsOnce
<1>5. CASE ~NeedsGrowth
    <2>1. visits' = visits
        BY <1>2, <1>5
    <2>2. ASSUME Visited PROVE Visited'
        <3>1. ASSUME NEW i \in DOMAIN entries', IsLive(entries'[i]),
                     entries'[i].key \in DOMAIN visits
              PROVE  visits[entries'[i].key] = IF i < index THEN 1 ELSE 0
            <4>1. i \in DOMAIN entries /\ IsLive(entries[i]) /\ entries[i].key = entries'[i].key
                BY <1>1, <1>3, <1>5, <3>1 DEF StaysIn
            <4> QED BY <2>2, <3>1, <4>1 DEF Visited
        <3> QED BY <1>2, <2>1, <3>1 DEF Visited
    <2> QED BY <1>1, <1>2, <1>3, <2>1, <2>2 DEF LoopInv, LoopVisitsOnce
<1> QED BY <1>4, <1>5

LEMMA LoopInvDelete ==
    ASSUME MapInv, LoopInv, NEW k \in Keys, obj_map_delete(k)
    PROVE  LoopInv'
<1>1. KeysOf(entries') = KeysOf(entries) \ {k} /\ StaysIn(entries, entries')
    BY DeleteIs
<1>2. loop # "done" /\ loop' = loop /\ index' = index
    BY DEF obj_map_delete, Going
<1>3. DOMAIN visits' = DOMAIN visits \ {k} /\ \A j \in DOMAIN visits' : visits'[j] = visits[j]
    BY DEF obj_map_delete, Restrict
<1>4. index \in Nat /\ DOMAIN visits \subseteq KeysOf(entries)
      /\ loop \in {"none", "running", "done"}
      /\ (loop = "none" => DOMAIN visits = {}) /\ (loop = "running" => Visited)
    BY DEF LoopInv
<1>5. ASSUME Visited PROVE Visited'
    <2>1. ASSUME NEW i \in DOMAIN entries', IsLive(entries'[i]),
                 entries'[i].key \in DOMAIN visits'
          PROVE  visits'[entries'[i].key] = IF i < index THEN 1 ELSE 0
        <3>1. entries'[i].key \in DOMAIN visits
            BY <1>3, <2>1
        <3>2. i \in DOMAIN entries /\ IsLive(entries[i]) /\ entries[i].key = entries'[i].key
            BY <1>1, <1>4, <2>1, <3>1 DEF StaysIn
        <3> QED BY <1>3, <1>5, <2>1, <3>1, <3>2 DEF Visited
    <2> QED BY <1>2, <2>1 DEF Visited
<1>6. DOMAIN visits' \subseteq KeysOf(entries')
    BY <1>1, <1>3, <1>4
<1>7. loop' = "none" => DOMAIN visits' = {}
    BY <1>2, <1>3, <1>4
<1> QED BY <1>2, <1>4, <1>5, <1>6, <1>7 DEF LoopInv, LoopVisitsOnce

LEMMA LoopInvNext ==
    ASSUME MapInv, LoopInv, iterator_next
    PROVE  LoopInv'
<1>1. IsTable(entries) /\ Chained(entries) /\ DOMAIN entries \subseteq Nat
    BY DEF MapInv, IsTable
<1>2. index \in Nat /\ DOMAIN visits \subseteq KeysOf(entries) /\ loop = "running" /\ Visited
    BY DEF LoopInv, iterator_next
<1>3. PICK m \in LiveFrom(index) : m = Min(LiveFrom(index)) /\ \A i \in LiveFrom(index) : m <= i
    <2>1. LiveFrom(index) \in SUBSET Nat /\ LiveFrom(index) # {}
        BY <1>1 DEF LiveFrom, iterator_next
    <2>2. PICK m \in LiveFrom(index) : \A i \in LiveFrom(index) : m <= i
        BY <2>1, LeastNumber
    <2>3. \A x \in LiveFrom(index) : x \in Nat /\ m <= x
        BY <2>1, <2>2
    <2>4. \A x \in LiveFrom(index) : (\A y \in LiveFrom(index) : x <= y) => x = m
        BY <2>2, <2>3
    <2>5. /\ Min(LiveFrom(index)) \in LiveFrom(index)
          /\ \A y \in LiveFrom(index) : Min(LiveFrom(index)) <= y
        BY <2>2 DEF Min
    <2> QED BY <2>2, <2>4, <2>5
<1>4. m \in DOMAIN entries /\ m \in Nat /\ m >= index /\ IsLive(entries[m])
    BY <1>1, <1>3 DEF LiveFrom
<1>5. PICK e : e = entries[m].key
    OBVIOUS
<1>6. /\ visits' = Visit(e) /\ index' = m + 1
      /\ entries' = entries /\ loop' = loop
    BY <1>3, <1>5 DEF iterator_next
<1>7. /\ DOMAIN visits' = DOMAIN visits
      /\ \A k \in DOMAIN visits : k # e => visits'[k] = visits[k]
      /\ e \in DOMAIN visits => visits'[e] = IF visits[e] = 0 THEN 1 ELSE 2
    BY <1>6 DEF Visit
<1>8. e \in DOMAIN visits => visits[e] = 0
    <2>1. ~(m < index)
        BY <1>2, <1>4
    <2> QED BY <1>2, <1>4, <1>5, <2>1 DEF Visited
<1>9. ASSUME NEW i \in DOMAIN entries, IsLive(entries[i]), entries[i].key \in DOMAIN visits
      PROVE  visits'[entries[i].key] = IF i < m + 1 THEN 1 ELSE 0
    <2>1. CASE i = m
        <3>1. m < m + 1
            BY <1>4
        <3> QED BY <1>5, <1>7, <1>8, <1>9, <2>1, <3>1
    <2>2. CASE i # m
        <3>1. entries[i].key # e
            BY <1>1, <1>4, <1>5, <1>9, <2>2, OneEntry
        <3>2. visits'[entries[i].key] = IF i < index THEN 1 ELSE 0
            BY <1>2, <1>7, <1>9, <3>1 DEF Visited
        <3>3. i < index <=> i < m + 1
            <4>1. i \in Nat
                BY <1>1
            <4>2. i >= index => m <= i
                BY <1>3, <1>9 DEF LiveFrom
            <4> QED BY <1>2, <1>4, <2>2, <4>1, <4>2
        <3> QED BY <3>2, <3>3
    <2> QED BY <2>1, <2>2
<1>10. Visited'
    BY <1>6, <1>7, <1>9 DEF Visited
<1>11. index' \in Nat
    BY <1>4, <1>6
<1> QED BY <1>2, <1>6, <1>7, <1>10, <1>11 DEF LoopInv, LoopVisitsOnce

LEMMA LoopInvStep == MapInv /\ LoopInv /\ [Next]_vars => LoopInv'
<1> SUFFICES ASSUME MapInv, LoopInv, [Next]_vars PROVE LoopInv'
    OBVIOUS
<1>1. ASSUME UNCHANGED <<entries, loopVars>> PROVE LoopInv'
    BY <1>1 DEF LoopInv, LoopVisitsOnce, Visited, loopVars
<1>2. CASE UNCHANGED vars
    BY <1>1, <1>2 DEF vars
<1>3. CASE make_iterator
    <2>1. /\ entries' = entries /\ loop' = "running" /\ index' = 0
          /\ visits' = [k \in KeysOf(entries) |-> 0]
        BY <1>3 DEF make_iterator
    <2>2. DOMAIN entries \subseteq Nat
        BY DEF MapInv, IsTable
    <2>3. \A i \in DOMAIN entries : ~(i < 0)
        BY <2>2
    <2>4. Visited'
        BY <2>1, <2>3 DEF Visited
    <2>5. DOMAIN visits' = KeysOf(entries')
        BY <2>1
    <2> QED BY <2>1, <2>4, <2>5 DEF LoopInv, LoopVisitsOnce
<1>4. CASE iterator_next
    BY <1>4, LoopInvNext
<1>5. CASE iterator_done
    <2>1. /\ UNCHANGED <<entries, index, visits>> /\ loop = "running" /\ loop' = "done"
          /\ LiveFrom(index) = {}
        BY <1>5 DEF iterator_done
    <2>2. index \in Nat /\ DOMAIN visits \subseteq KeysOf(entries) /\ Visited
        BY <2>1 DEF LoopInv
    <2>3. ASSUME NEW k \in DOMAIN visits PROVE visits[k] = 1
        <3>1. PICK i \in DOMAIN entries : IsLive(entries[i]) /\ entries[i].key = k
            BY <2>2, <2>3 DEF KeysOf
        <3>2. i \in Nat
            BY DEF MapInv, IsTable
        <3>3. i < index
            BY <2>1, <2>2, <3>1, <3>2 DEF LiveFrom
        <3> QED BY <2>2, <2>3, <3>1, <3>3 DEF Visited
    <2> QED BY <2>1, <2>2, <2>3 DEF LoopInv, LoopVisitsOnce
<1>6. ASSUME NEW k \in Keys, NEW v \in Values, obj_map_set(k, v) PROVE LoopInv'
    BY <1>6, LoopInvSet
<1>7. ASSUME NEW k \in Keys, obj_map_delete(k) PROVE LoopInv'
    BY <1>7, LoopInvDelete
<1>8. ASSUME NEW k \in Keys, obj_map_get(k) \/ probe_forever(k) PROVE LoopInv'
    BY <1>1, <1>8 DEF obj_map_get, probe_forever
<1> QED BY <1>2, <1>3, <1>4, <1>5, <1>6, <1>7, <1>8 DEF Next

\* A for loop (iterator_next of vm.c) visits the keys that stay in the map
\* once, whatever its body sets and deletes while the map does not grow.
THEOREM LoopsVisitOnce == Spec => []LoopVisitsOnce
<1>1. Init => MapInv /\ LoopInv
    BY MapInvInit, LoopInvInit
<1>2. (MapInv /\ LoopInv) /\ [Next]_vars => (MapInv /\ LoopInv)'
    BY MapInvStep, LoopInvStep
<1>3. MapInv /\ LoopInv => LoopVisitsOnce
    BY DEF LoopInv
<1> QED BY <1>1, <1>2, <1>3, PTL DEF Spec

-----------------------------------------------------------------------------
(* The map implements the dictionary.                                      *)

LEMMA DictionaryInit == Init => Abstract!Init
<1> SUFFICES ASSUME Init PROVE Abstract!Init
    OBVIOUS
<1>1. Contents(<<>>) = <<>>
    BY EmptyTable DEF Contents
<1> QED BY <1>1 DEF Init, Abstract!Init, Answer, Abstract!Answer

LEMMA DictionaryStep == MapInv /\ [Next]_vars => [Abstract!Next]_(Abstract!vars)
<1> SUFFICES ASSUME MapInv, [Next]_vars PROVE [Abstract!Next]_(Abstract!vars)
    OBVIOUS
<1>1. \A found, v : Abstract!Answer(found, v) = Answer(found, v)
    BY DEF Answer, Abstract!Answer
<1>2. DOMAIN Contents(entries) = KeysOf(entries)
    BY DEF Contents
<1>3. DOMAIN Contents(entries') = KeysOf(entries')
    BY DEF Contents
<1>4. Contents(entries') = [j \in KeysOf(entries') |-> Contents(entries')[j]]
    BY DEF Contents
<1>5. ASSUME UNCHANGED <<entries, result>> PROVE [Abstract!Next]_(Abstract!vars)
    BY <1>5 DEF Abstract!vars
<1>6. CASE UNCHANGED vars
    BY <1>5, <1>6 DEF vars
<1>7. CASE make_iterator \/ iterator_next \/ iterator_done
    BY <1>5, <1>7 DEF make_iterator, iterator_next, iterator_done
<1>8. ASSUME NEW k \in Keys, NEW v \in Values, obj_map_set(k, v) PROVE Abstract!Set(k, v)
    <2>1. /\ KeysOf(entries') = KeysOf(entries) \cup {k}
          /\ Contents(entries')[k] = v
          /\ \A j \in KeysOf(entries) \ {k} : Contents(entries')[j] = Contents(entries)[j]
          /\ result' = Answer(k \in KeysOf(entries), v)
        BY <1>8, SetIs
    <2>2. Contents(entries') = [j \in KeysOf(entries) \cup {k} |->
                                   IF j = k THEN v ELSE Contents(entries)[j]]
        BY <1>4, <2>1
    <2> QED BY <1>1, <1>2, <2>1, <2>2 DEF Abstract!Set
<1>9. ASSUME NEW k \in Keys, obj_map_delete(k) PROVE Abstract!Delete(k)
    <2>1. /\ KeysOf(entries') = KeysOf(entries) \ {k}
          /\ \A j \in KeysOf(entries) \ {k} : Contents(entries')[j] = Contents(entries)[j]
          /\ result' = Answer(k \in KeysOf(entries), Nil)
        BY <1>9, DeleteIs
    <2>2. Contents(entries') = [j \in KeysOf(entries) \ {k} |-> Contents(entries)[j]]
        BY <1>4, <2>1
    <2> QED BY <1>1, <1>2, <2>1, <2>2 DEF Abstract!Delete
<1>10. ASSUME NEW k \in Keys, obj_map_get(k) PROVE Abstract!Get(k)
    <2>1. result' = IF k \in KeysOf(entries) THEN Answer(TRUE, Contents(entries)[k])
                                             ELSE Answer(FALSE, Nil)
        BY <1>10, GetIs
    <2>2. entries' = entries
        BY <1>10 DEF obj_map_get
    <2> QED BY <1>1, <1>2, <2>1, <2>2 DEF Abstract!Get, Abstract!Lookup
<1>11. ASSUME NEW k \in Keys, probe_forever(k) PROVE [Abstract!Next]_(Abstract!vars)
    BY <1>5, <1>11 DEF probe_forever
<1> QED BY <1>6, <1>7, <1>8, <1>9, <1>10, <1>11 DEF Next, Abstract!Next

\* The hash map of object.c, with its probes, tombstones and rehashes, is the
\* finite map of object.h: each operation returns what those before it imply.
THEOREM IsADictionary == Spec => KeepsContents
<1> QED BY MapInvInit, MapInvStep, DictionaryInit, DictionaryStep, PTL
        DEF Spec, KeepsContents, Abstract!Spec
=============================================================================
