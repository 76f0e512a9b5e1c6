----------------------------- MODULE HeapProofs ------------------------------
(***************************************************************************)
(* Theorems about Heap: no object in use is freed, and every string is     *)
(* found in the table of strings, for any programs, pins and collections.  *)
(***************************************************************************)
EXTENDS Heap, NumberFacts, SequenceTheorems, FiniteSetTheorems

NoString == {NULL, TOMBSTONE}
Listed(T) == Range(T) \ NoString

IsTable(T) == T \in Seq(Int) /\ Len(T) \in Nat \ {0}
Slot(T, n, d) == ((Hash[n] + d) % Len(T)) + 1

\* No search for n ends before it comes to slot p.
Chain(T, n, p) ==
    \E d \in Probes(T) :
        Slot(T, n, d) = p /\ \A e \in Probes(T) : e < d => T[Slot(T, n, e)] # NULL

\* T has strings of the heap H, each where a search comes to it, none twice.
Table(T, H) ==
    /\ IsTable(T)
    /\ \A p \in 1 .. Len(T) : T[p] \notin NoString =>
           T[p] \in DOMAIN H /\ H[T[p]].name \in Strings /\ Chain(T, H[T[p]].name, p)
    /\ \A p, q \in 1 .. Len(T) :
           T[p] \notin NoString /\ T[q] \notin NoString /\ H[T[p]].name = H[T[q]].name => p = q

LEMMA Slots ==
    ASSUME NEW T, IsTable(T), NEW n \in Strings, NEW d \in Probes(T)
    PROVE  /\ Slot(T, n, d) \in 1 .. Len(T) /\ At(T, n, d) = T[Slot(T, n, d)]
           /\ \A e \in Probes(T) : Slot(T, n, e) = Slot(T, n, d) => e = d
<1>1. PICK c : c = Len(T)
    OBVIOUS
<1>2. PICK h : h = Hash[n]
    OBVIOUS
<1>3. c \in Nat \ {0} /\ Probes(T) = 0 .. (c - 1) /\ h \in Nat
    BY <1>1, <1>2, HeapConstants DEF IsTable, Probes
<1>4. h + d \in Nat
    BY <1>3
<1>5. (h + d) % c \in 0 .. (c - 1)
    BY <1>3, <1>4, Divided
<1>6. ASSUME NEW e \in Probes(T), ((h + e) % c) + 1 = ((h + d) % c) + 1 PROVE e = d
    <2>1. h + e \in Nat
        BY <1>3
    <2>2. (h + e) % c \in 0 .. (c - 1)
        BY <1>3, <2>1, Divided
    <2>3. PICK r : r = (h + d) % c
        OBVIOUS
    <2>4. PICK s : s = (h + e) % c
        OBVIOUS
    <2>5. s = r
        BY <1>5, <1>6, <2>2, <2>3, <2>4
    <2> QED BY <1>3, <2>3, <2>4, <2>5, ProbesDiffer
<1>7. ((h + d) % c) + 1 \in 1 .. c
    <2>1. PICK r : r = (h + d) % c
        OBVIOUS
    <2> QED BY <1>3, <1>5, <2>1
<1> QED BY <1>1, <1>2, <1>6, <1>7 DEF Slot, At

LEMMA SlotReached ==
    ASSUME NEW T, IsTable(T), NEW n \in Strings, NEW p \in 1 .. Len(T)
    PROVE  \E d \in Probes(T) : Slot(T, n, d) = p
<1>1. PICK c : c = Len(T)
    OBVIOUS
<1>2. PICK h : h = Hash[n]
    OBVIOUS
<1>3. c \in Nat \ {0} /\ Probes(T) = 0 .. (c - 1) /\ h \in Nat
    BY <1>1, <1>2, HeapConstants DEF IsTable, Probes
<1>4. PICK i \in 0 .. (c - 1) : i = p - 1
    BY <1>1, <1>3
<1>5. PICK d \in 0 .. (c - 1) : (h + d) % c = i
    BY <1>3, ProbesReach
<1>6. ((h + d) % c) + 1 = p
    BY <1>1, <1>3, <1>4, <1>5
<1> QED BY <1>1, <1>2, <1>3, <1>6 DEF Slot

\* The entries of a table are those in its slots.
LEMMA RangeIs ==
    ASSUME NEW T, T \in Seq(Int)
    PROVE  /\ DOMAIN T = 1 .. Len(T) /\ \A p \in 1 .. Len(T) : T[p] \in Range(T)
           /\ \A x \in Range(T) : \E p \in 1 .. Len(T) : T[p] = x
BY DEF Range

\* Where a probe meets one of `stops' first.
LEMMA FirstIs ==
    ASSUME NEW T, IsTable(T), NEW n \in Strings, NEW stops, stops \cap Range(T) # {}
    PROVE  /\ FirstProbe(T, n, stops) \in Probes(T)
           /\ T[Slot(T, n, FirstProbe(T, n, stops))] \in stops
           /\ \A e \in Probes(T) :
                  e < FirstProbe(T, n, stops) => T[Slot(T, n, e)] \notin stops
<1> DEFINE S == {k \in Probes(T) : At(T, n, k) \in stops}
<1>1. Probes(T) \subseteq Nat
    BY DEF Probes
<1>2. \A k : k \in S <=> k \in Probes(T) /\ T[Slot(T, n, k)] \in stops
    BY Slots
<1>3. S # {}
    <2>1. PICK p \in 1 .. Len(T) : T[p] \in stops
        BY RangeIs DEF IsTable
    <2>2. PICK d \in Probes(T) : Slot(T, n, d) = p
        BY SlotReached
    <2> QED BY <1>2, <2>1, <2>2
<1>4. FirstProbe(T, n, stops) = Min(S)
    BY DEF FirstProbe
<1>5. S \in SUBSET Nat
    BY <1>1
<1> HIDE DEF S
<1>6. PICK d \in S : \A k \in S : d <= k
    BY <1>3, <1>5, LeastNumber
<1>7. Min(S) \in S /\ \A k \in S : Min(S) <= k
    BY <1>6 DEF Min
<1>8. PICK m \in S : m = Min(S)
    BY <1>7
<1>9. ASSUME NEW e \in Probes(T), e < m PROVE e \notin S
    <2>1. e \in Nat /\ m \in Nat
        BY <1>1, <1>5
    <2>2. e \in S => m <= e
        BY <1>7, <1>8
    <2> QED BY <1>9, <2>1, <2>2
<1> QED BY <1>2, <1>4, <1>8, <1>9

\* The search for a string that is in the table finds it.
LEMMA FindsListed ==
    ASSUME Table(entries, heap), {NULL, TOMBSTONE} \cap Objects = {},
           NEW p \in 1 .. Len(entries), entries[p] \notin NoString
    PROVE  /\ FindEnds(heap[entries[p]].name)
           /\ intern_table_find(heap[entries[p]].name) = entries[p]
<1>1. PICK T : T = entries
    OBVIOUS
<1>2. PICK n : n = heap[T[p]].name
    OBVIOUS
<1>3. IsTable(T) /\ T[p] \in Objects /\ n \in Strings /\ Chain(T, n, p)
    BY <1>1, <1>2 DEF Table, Objects
<1>4. T[p] \in Stops(n)
    BY <1>2, <1>3 DEF Stops
<1>5. T[p] \in Range(T)
    BY <1>1, <1>3, RangeIs DEF IsTable
<1>6. Stops(n) \cap Range(T) # {}
    BY <1>4, <1>5
<1>7. PICK d \in Probes(T) :
        /\ d = FirstProbe(T, n, Stops(n)) /\ T[Slot(T, n, d)] \in Stops(n)
        /\ \A e \in Probes(T) : e < d => T[Slot(T, n, e)] \notin Stops(n)
    BY <1>3, <1>6, FirstIs
<1>8. PICK c \in Probes(T) :
        Slot(T, n, c) = p /\ \A e \in Probes(T) : e < c => T[Slot(T, n, e)] # NULL
    BY <1>3 DEF Chain
<1>9. c \in Nat /\ d \in Nat
    BY DEF Probes
<1>10. ~(c < d)
    BY <1>4, <1>7, <1>8
<1>11. ASSUME d < c PROVE FALSE
    <2>1. PICK y : y = T[Slot(T, n, d)]
        OBVIOUS
    <2>2. y # NULL /\ y \in Stops(n)
        BY <1>7, <1>8, <1>11, <2>1
    <2>3. y \in Objects /\ heap[y].name = n
        BY <2>2 DEF Stops
    <2>4. y \notin NoString
        BY <2>3 DEF NoString
    <2>5. Slot(T, n, d) \in 1 .. Len(T)
        BY <1>3, Slots
    <2>6. Slot(T, n, d) = p
        BY <1>1, <1>2, <2>1, <2>3, <2>4, <2>5 DEF Table
    <2>7. c = d
        BY <1>3, <1>8, <2>6, Slots
    <2> QED BY <1>9, <1>11, <2>7
<1>12. d = c
    BY <1>9, <1>10, <1>11
<1>13. intern_table_find(n) = T[Slot(T, n, d)]
    BY <1>1, <1>3, <1>7, Slots DEF intern_table_find
<1> QED BY <1>1, <1>2, <1>6, <1>8, <1>12, <1>13 DEF FindEnds

\* What a search finds is an object.
LEMMA FindIs ==
    ASSUME IsTable(entries), NEW n \in Strings, FindEnds(n)
    PROVE  /\ intern_table_find(n) \in Stops(n)
           /\ intern_table_find(n) \in Range(entries)
<1>1. PICK T : T = entries
    OBVIOUS
<1>2. PICK d \in Probes(T) : d = FirstProbe(T, n, Stops(n)) /\ T[Slot(T, n, d)] \in Stops(n)
    BY <1>1, FirstIs DEF FindEnds
<1>3. intern_table_find(n) = T[Slot(T, n, d)] /\ Slot(T, n, d) \in 1 .. Len(T)
    BY <1>1, <1>2, Slots DEF intern_table_find
<1>4. T[Slot(T, n, d)] \in Range(T)
    BY <1>1, <1>3, RangeIs DEF IsTable
<1> QED BY <1>1, <1>2, <1>3, <1>4

\* A string that the table does not have goes into a free slot: the chains
\* stay.
LEMMA PutKeeps ==
    ASSUME NEW T, NEW H, Table(T, H), NEW n \in Strings, NoString \cap Range(T) # {},
           \A p \in 1 .. Len(T) : T[p] \notin NoString => H[T[p]].name # n,
           NEW G, NEW x \in DOMAIN G, x \in Int, x \notin NoString, G[x].name = n,
           \A p \in 1 .. Len(T) : T[p] \notin NoString =>
               T[p] \in DOMAIN G /\ G[T[p]].name = H[T[p]].name
    PROVE  /\ Table(Put(T, x, n), G) /\ Len(Put(T, x, n)) = Len(T)
           /\ \E q \in 1 .. Len(T) :
                  /\ T[q] \in NoString /\ Put(T, x, n)[q] = x
                  /\ \A p \in 1 .. Len(T) : p # q => Put(T, x, n)[p] = T[p]
<1>1. IsTable(T)
    BY DEF Table
<1>2. PICK d \in Probes(T) :
        /\ d = FirstProbe(T, n, {NULL, TOMBSTONE}) /\ T[Slot(T, n, d)] \in NoString
        /\ \A e \in Probes(T) : e < d => T[Slot(T, n, e)] \notin NoString
    BY <1>1, FirstIs DEF NoString
<1>3. PICK q \in 1 .. Len(T) : q = Slot(T, n, d)
    BY <1>1, Slots
<1>4. PICK U : U = Put(T, x, n)
    OBVIOUS
<1>5. T \in Seq(Int) /\ Len(T) \in Nat \ {0} /\ DOMAIN T = 1 .. Len(T)
    BY <1>1 DEF IsTable
<1>6. U = [T EXCEPT ![q] = x]
    BY <1>2, <1>3, <1>4 DEF Put, Slot
<1>7. U \in Seq(Int) /\ Len(U) = Len(T)
    BY <1>5, <1>6
<1>8. U[q] = x /\ \A p \in 1 .. Len(T) : p # q => U[p] = T[p]
    BY <1>5, <1>6
<1>9. IsTable(U) /\ Probes(U) = Probes(T)
    BY <1>5, <1>7 DEF IsTable, Probes
<1>10. \A m, e : Slot(U, m, e) = Slot(T, m, e)
    BY <1>7 DEF Slot
<1>11. T[q] \in NoString /\ x # NULL
    BY <1>2, <1>3 DEF NoString
<1>12. ASSUME NEW p \in 1 .. Len(T), U[p] \notin NoString
       PROVE  U[p] \in DOMAIN G /\ G[U[p]].name \in Strings /\ Chain(U, G[U[p]].name, p)
    <2>1. CASE p = q
        <3>1. ASSUME NEW e \in Probes(T), e < d PROVE U[Slot(T, n, e)] # NULL
            <4>1. Slot(T, n, e) \in 1 .. Len(T) /\ T[Slot(T, n, e)] \notin NoString
                BY <1>1, <1>2, <3>1, Slots
            <4> QED BY <1>8, <1>11, <4>1 DEF NoString
        <3>2. Chain(U, n, q)
            BY <1>3, <1>9, <1>10, <3>1 DEF Chain
        <3> QED BY <1>8, <2>1, <3>2
    <2>2. CASE p # q
        <3>1. U[p] = T[p]
            BY <1>8, <2>2
        <3>2. PICK m \in Strings : m = H[T[p]].name
            BY <1>12, <3>1 DEF Table
        <3>3. T[p] \in DOMAIN G /\ G[T[p]].name = m /\ Chain(T, m, p)
            BY <1>12, <3>1, <3>2 DEF Table
        <3>4. PICK c \in Probes(T) :
                Slot(T, m, c) = p /\ \A e \in Probes(T) : e < c => T[Slot(T, m, e)] # NULL
            BY <3>3 DEF Chain
        <3>5. ASSUME NEW e \in Probes(T), e < c PROVE U[Slot(T, m, e)] # NULL
            <4>1. Slot(T, m, e) \in 1 .. Len(T)
                BY <1>1, Slots
            <4> QED BY <1>8, <1>11, <3>4, <3>5, <4>1
        <3>6. Chain(U, m, p)
            BY <1>9, <1>10, <3>4, <3>5 DEF Chain
        <3> QED BY <3>1, <3>3, <3>6
    <2> QED BY <2>1, <2>2
<1>13. ASSUME NEW p \in 1 .. Len(T), NEW r \in 1 .. Len(T), U[p] \notin NoString,
              U[r] \notin NoString, G[U[p]].name = G[U[r]].name
       PROVE  p = r
    <2>1. ASSUME NEW s \in 1 .. Len(T), s # q, U[s] \notin NoString
          PROVE  U[s] = T[s] /\ G[U[s]].name = H[T[s]].name /\ G[U[s]].name # n
        BY <1>8, <2>1
    <2>2. CASE p = q
        BY <1>8, <1>13, <2>1, <2>2
    <2>3. CASE r = q
        BY <1>8, <1>13, <2>1, <2>3
    <2>4. CASE p # q /\ r # q
        BY <1>13, <2>1, <2>4 DEF Table
    <2> QED BY <2>2, <2>3, <2>4
<1>14. Table(U, G)
    BY <1>7, <1>9, <1>12, <1>13 DEF Table
<1> QED BY <1>4, <1>7, <1>8, <1>11, <1>14

-----------------------------------------------------------------------------
(* Growth.                                                                 *)

NewEntries == [j \in 1 .. 2 * Len(entries) |-> NULL]
Rehashing(n, g) ==
    g = [i \in 0 .. n |-> IF i = 0 THEN NewEntries ELSE Reenter(g[i - 1], entries[i])]

\* The recursion of intern_table_grow is well defined.
LEMMA RehashedIs ==
    ASSUME Len(entries) \in Nat
    PROVE  \E g : /\ intern_table_grow = g[Len(entries)]
                  /\ g[0] = NewEntries
                  /\ \A i \in 1 .. Len(entries) : g[i] = Reenter(g[i - 1], entries[i])
<1>1. PICK c \in Nat : c = Len(entries)
    OBVIOUS
<1> DEFINE S == {n \in 0 .. c : \E g : Rehashing(n, g)}
<1>2. 0 \in S
    <2>1. PICK g : g = [i \in 0 .. 0 |-> NewEntries]
        OBVIOUS
    <2>2. \A i \in 0 .. 0 : i = 0
        OBVIOUS
    <2>3. Rehashing(0, g)
        BY <2>1, <2>2 DEF Rehashing
    <2> QED BY <2>3
<1>3. ASSUME NEW n \in 0 .. c, n # 0, n - 1 \in S PROVE n \in S
    <2>1. PICK g : Rehashing(n - 1, g)
        BY <1>3
    <2>2. PICK h : h = [i \in 0 .. n |-> IF i = n THEN Reenter(g[n - 1], entries[n]) ELSE g[i]]
        OBVIOUS
    <2>3. /\ n \in Nat /\ n - 1 \in 0 .. n /\ n - 1 # n
          /\ \A i \in 0 .. n : i # n => i \in 0 .. (n - 1)
          /\ \A i \in 0 .. n : i # 0 => i - 1 \in 0 .. (n - 1) /\ i - 1 \in 0 .. n /\ i - 1 # n
        BY <1>3
    <2>4. \A i \in 0 .. (n - 1) :
              g[i] = IF i = 0 THEN NewEntries ELSE Reenter(g[i - 1], entries[i])
        BY <2>1 DEF Rehashing
    <2>5. \A i \in 0 .. n : i # n => h[i] = g[i]
        BY <2>2
    <2>6. ASSUME NEW i \in 0 .. n
          PROVE  h[i] = IF i = 0 THEN NewEntries ELSE Reenter(h[i - 1], entries[i])
        <3>1. CASE i = n
            <4>1. h[n] = Reenter(g[n - 1], entries[n])
                BY <1>3, <2>2
            <4>2. h[n - 1] = g[n - 1]
                BY <2>3, <2>5
            <4> QED BY <1>3, <3>1, <4>1, <4>2
        <3>2. CASE i # n /\ i # 0
            <4>1. h[i] = g[i] /\ h[i - 1] = g[i - 1]
                BY <2>3, <2>5, <3>2
            <4> QED BY <2>3, <2>4, <3>2, <4>1
        <3>3. CASE i # n /\ i = 0
            BY <2>3, <2>4, <2>5, <3>3
        <3> QED BY <3>1, <3>2, <3>3
    <2>7. h = [i \in 0 .. n |-> h[i]]
        BY <2>2
    <2>8. Rehashing(n, h)
        BY <2>6, <2>7 DEF Rehashing
    <2> QED BY <2>8
<1>4. c \in S
    <2> HIDE DEF S
    <2>1. \A i \in 0 .. c : i # 0 /\ i - 1 \in S => i \in S
        BY <1>3
    <2>2. \A i \in 0 .. c : i \in S
        BY <1>2, <2>1, Induction
    <2> QED BY <2>2
<1>5. PICK g : g = CHOOSE f : Rehashing(c, f)
    OBVIOUS
<1>6. Rehashing(c, g)
    BY <1>4, <1>5
<1>7. intern_table_grow = g[c]
    BY <1>1, <1>5 DEF intern_table_grow, Rehashing, NewEntries
<1>8. \A i \in 0 .. c : g[i] = IF i = 0 THEN NewEntries ELSE Reenter(g[i - 1], entries[i])
    BY <1>6 DEF Rehashing
<1>9. \A i \in 1 .. c : i \in 0 .. c /\ i # 0
    BY <1>1
<1>10. g[0] = NewEntries
    BY <1>1, <1>8
<1> QED BY <1>1, <1>7, <1>8, <1>9, <1>10

\* M has the first i entries.
Taken(M) == {p \in 1 .. Len(M) : M[p] \notin NoString}
HasFirst(M, i) ==
    /\ Table(M, heap) /\ Len(M) = 2 * Len(entries)
    /\ \A p \in 1 .. Len(M) : M[p] \notin NoString => \E j \in 1 .. i : entries[j] = M[p]
    /\ \A j \in 1 .. i : entries[j] \notin NoString => \E p \in 1 .. Len(M) : M[p] = entries[j]
    /\ IsFiniteSet(Taken(M)) /\ Cardinality(Taken(M)) <= i

LEMMA NewEntriesHave ==
    ASSUME Table(entries, heap)
    PROVE  HasFirst(NewEntries, 0)
<1>1. PICK c \in Nat \ {0} : c = Len(entries)
    BY DEF Table, IsTable
<1>2. PICK M : M = NewEntries
    OBVIOUS
<1>3. M \in Seq(Int) /\ Len(M) = 2 * c /\ \A p \in 1 .. Len(M) : M[p] = NULL
    <2>1. M = [j \in 1 .. 2 * c |-> NULL] /\ 2 * c \in Nat
        BY <1>1, <1>2 DEF NewEntries
    <2>2. NULL \in Int
        BY DEF NULL
    <2> QED BY <2>1, <2>2
<1>4. IsTable(M)
    BY <1>3 DEF IsTable
<1>5. Taken(M) = {} /\ \A p \in 1 .. Len(M) : M[p] \in NoString
    BY <1>3 DEF Taken, NoString
<1>6. IsFiniteSet(Taken(M)) /\ Cardinality(Taken(M)) = 0
    BY <1>5, FS_EmptySet
<1>7. Table(M, heap)
    BY <1>4, <1>5 DEF Table
<1> QED BY <1>1, <1>2, <1>3, <1>5, <1>6, <1>7 DEF HasFirst

LEMMA ReenterHas ==
    ASSUME Table(entries, heap), {NULL, TOMBSTONE} \cap Objects = {}, NEW i \in 1 .. Len(entries),
           NEW M, HasFirst(M, i - 1)
    PROVE  HasFirst(Reenter(M, entries[i]), i)
<1>1. PICK x : x = entries[i]
    OBVIOUS
<1>2. PICK c \in Nat \ {0} : c = Len(entries) /\ i \in 1 .. c /\ i - 1 \in 0 .. c
    BY DEF Table, IsTable
<1>3. \A j : j \in 1 .. i <=> j \in 1 .. (i - 1) \/ j = i
    BY <1>2
<1>4. Table(M, heap) /\ IsTable(M) /\ M \in Seq(Int) /\ Len(M) = 2 * c
    BY <1>2 DEF HasFirst, Table, IsTable
<1>5. IsFiniteSet(Taken(M)) /\ Cardinality(Taken(M)) \in Nat /\ Cardinality(Taken(M)) <= i - 1
    BY FS_CardinalityType DEF HasFirst
<1>6. CASE x \in NoString
    <2>1. Reenter(M, x) = M
        BY <1>6 DEF Reenter, NoString
    <2>2. Cardinality(Taken(M)) <= i
        BY <1>2, <1>5
    <2>3. \A j \in 1 .. i : entries[j] \notin NoString => j \in 1 .. (i - 1)
        BY <1>1, <1>3, <1>6
    <2>4. \A j \in 1 .. (i - 1) : j \in 1 .. i
        BY <1>3
    <2>5. HasFirst(M, i)
        BY <1>5, <2>2, <2>3, <2>4 DEF HasFirst
    <2> QED BY <1>1, <2>1, <2>5
<1>7. CASE x \notin NoString
    <2>1. PICK n \in Strings : n = heap[x].name
        BY <1>1, <1>7 DEF Table
    <2>2. x \in DOMAIN heap /\ x \in Int
        BY <1>1, <1>7 DEF Table, IsTable
    <2>3. ASSUME NEW p \in 1 .. Len(M), M[p] \notin NoString PROVE heap[M[p]].name # n
        <3>1. SUFFICES ASSUME heap[M[p]].name = n PROVE FALSE
            OBVIOUS
        <3>2. PICK j \in 1 .. (i - 1) : entries[j] = M[p]
            BY <2>3 DEF HasFirst
        <3>3. j \in 1 .. Len(entries) /\ j # i
            BY <1>2, <3>2
        <3>4. j = i
            BY <1>1, <1>7, <2>1, <2>3, <3>1, <3>2, <3>3 DEF Table
        <3> QED BY <3>3, <3>4
    <2>4. NoString \cap Range(M) # {}
        <3>1. ASSUME Taken(M) = 1 .. Len(M) PROVE FALSE
            <4>1. Cardinality(1 .. 2 * c) = 2 * c
                <5>1. 2 * c \in Nat /\ 2 * c >= 1
                    BY <1>2
                <5>2. Cardinality(1 .. 2 * c) = IF 1 > 2 * c THEN 0 ELSE 2 * c - 1 + 1
                    BY <5>1, FS_Interval
                <5> QED BY <5>1, <5>2
            <4>2. PICK m : m = Cardinality(Taken(M))
                OBVIOUS
            <4>3. m = 2 * c /\ m <= i - 1
                BY <1>4, <1>5, <3>1, <4>1, <4>2
            <4> QED BY <1>2, <4>3
        <3>2. PICK p \in 1 .. Len(M) : M[p] \in NoString
            BY <3>1 DEF Taken
        <3> QED BY <1>4, <3>2, RangeIs
    <2>5. PICK U : U = Put(M, x, n)
        OBVIOUS
    <2>6. /\ Table(U, heap) /\ Len(U) = Len(M)
          /\ \E q \in 1 .. Len(M) :
                 /\ M[q] \in NoString /\ U[q] = x
                 /\ \A p \in 1 .. Len(M) : p # q => U[p] = M[p]
        <3>1. PICK H : H = heap
            OBVIOUS
        <3>2. PICK G : G = heap
            OBVIOUS
        <3>3. /\ Table(M, H) /\ x \in DOMAIN G /\ x \in Int /\ x \notin NoString /\ G[x].name = n
              /\ \A p \in 1 .. Len(M) : M[p] \notin NoString => H[M[p]].name # n
              /\ \A p \in 1 .. Len(M) : M[p] \notin NoString =>
                     M[p] \in DOMAIN G /\ G[M[p]].name = H[M[p]].name
            BY <1>4, <1>7, <2>1, <2>2, <2>3, <3>1, <3>2 DEF Table
        <3>4. /\ Table(Put(M, x, n), G) /\ Len(Put(M, x, n)) = Len(M)
              /\ \E q \in 1 .. Len(M) :
                     /\ M[q] \in NoString /\ Put(M, x, n)[q] = x
                     /\ \A p \in 1 .. Len(M) : p # q => Put(M, x, n)[p] = M[p]
            BY <2>4, <3>3, PutKeeps
        <3> QED BY <2>5, <3>2, <3>4
    <2>7. PICK q \in 1 .. Len(M) :
            /\ M[q] \in NoString /\ U[q] = x
            /\ \A p \in 1 .. Len(M) : p # q => U[p] = M[p]
        BY <2>6
    <2>8. ASSUME NEW p \in 1 .. Len(U), U[p] \notin NoString
          PROVE  \E j \in 1 .. i : entries[j] = U[p]
        <3>1. CASE p = q
            BY <1>1, <1>3, <2>7, <3>1
        <3>2. CASE p # q
            <4>1. U[p] = M[p] /\ p \in 1 .. Len(M)
                BY <2>6, <2>7, <3>2
            <4>2. PICK j \in 1 .. (i - 1) : entries[j] = M[p]
                BY <2>8, <4>1 DEF HasFirst
            <4> QED BY <1>3, <4>1, <4>2
        <3> QED BY <3>1, <3>2
    <2>9. ASSUME NEW j \in 1 .. i, entries[j] \notin NoString
          PROVE  \E p \in 1 .. Len(U) : U[p] = entries[j]
        <3>1. CASE j = i
            BY <1>1, <2>6, <2>7, <3>1
        <3>2. CASE j # i
            <4>1. PICK p \in 1 .. Len(M) : M[p] = entries[j]
                BY <1>3, <2>9, <3>2 DEF HasFirst
            <4>2. p # q
                BY <2>7, <2>9, <4>1
            <4> QED BY <2>6, <2>7, <4>1, <4>2
        <3> QED BY <3>1, <3>2
    <2>10. IsFiniteSet(Taken(U)) /\ Cardinality(Taken(U)) <= i
        <3>1. Taken(U) = Taken(M) \cup {q}
            BY <1>7, <2>6, <2>7 DEF Taken
        <3>2. q \notin Taken(M)
            BY <2>7 DEF Taken
        <3>3. PICK S : S = Taken(M)
            OBVIOUS
        <3>4. IsFiniteSet(S) /\ q \notin S
            BY <1>5, <3>2, <3>3
        <3>5. IsFiniteSet(S \cup {q}) /\ Cardinality(S \cup {q}) = Cardinality(S) + 1
            BY <3>4, FS_AddElement, Zenon
        <3>6. IsFiniteSet(Taken(U)) /\ Cardinality(Taken(U)) = Cardinality(Taken(M)) + 1
            BY <3>1, <3>3, <3>5
        <3> QED BY <1>2, <1>5, <3>6
    <2>11. HasFirst(U, i)
        BY <1>2, <1>4, <2>6, <2>8, <2>9, <2>10 DEF HasFirst
    <2>12. Reenter(M, x) = U
        BY <1>7, <2>1, <2>5 DEF Reenter, NoString
    <2> QED BY <1>1, <2>11, <2>12
<1> QED BY <1>6, <1>7

\* A table that grows keeps its strings.
LEMMA GrowKeeps ==
    ASSUME Table(entries, heap), {NULL, TOMBSTONE} \cap Objects = {}
    PROVE  /\ Table(intern_table_grow, heap)
           /\ Listed(intern_table_grow) = Listed(entries)
           /\ NoString \cap Range(intern_table_grow) # {}
<1>1. PICK c \in Nat \ {0} : c = Len(entries)
    BY DEF Table, IsTable
<1>2. PICK g : /\ intern_table_grow = g[c] /\ g[0] = NewEntries
               /\ \A i \in 1 .. c : g[i] = Reenter(g[i - 1], entries[i])
    BY <1>1, RehashedIs
<1> DEFINE S == {i \in 0 .. c : HasFirst(g[i], i)}
<1>3. 0 \in S
    BY <1>1, <1>2, NewEntriesHave
<1>4. ASSUME NEW i \in 0 .. c, i # 0, i - 1 \in S PROVE i \in S
    <2>1. i \in 1 .. c
        BY <1>4
    <2>2. HasFirst(g[i - 1], i - 1)
        BY <1>4
    <2>3. PICK M : M = g[i - 1]
        OBVIOUS
    <2>4. HasFirst(Reenter(M, entries[i]), i)
        BY <1>1, <2>1, <2>2, <2>3, ReenterHas
    <2> QED BY <1>2, <2>1, <2>3, <2>4
<1>5. c \in S
    <2> HIDE DEF S
    <2> QED BY <1>1, <1>3, <1>4, Induction, SMTT(30)
<1>6. PICK M : M = intern_table_grow
    OBVIOUS
<1>7. HasFirst(M, c)
    BY <1>2, <1>5, <1>6
<1>8. Table(M, heap) /\ M \in Seq(Int) /\ Len(M) = 2 * c
    BY <1>1, <1>7 DEF HasFirst, Table, IsTable
<1>9. entries \in Seq(Int)
    BY DEF Table, IsTable
<1>10. Listed(M) = Listed(entries)
    <2>1. ASSUME NEW x \in Listed(M) PROVE x \in Listed(entries)
        <3>1. PICK p \in 1 .. Len(M) : M[p] = x /\ x \notin NoString
            BY <1>8, RangeIs DEF Listed
        <3>2. PICK j \in 1 .. c : entries[j] = x
            BY <1>7, <3>1 DEF HasFirst
        <3> QED BY <1>1, <1>9, <3>1, <3>2, RangeIs DEF Listed
    <2>2. ASSUME NEW x \in Listed(entries) PROVE x \in Listed(M)
        <3>1. PICK j \in 1 .. c : entries[j] = x /\ x \notin NoString
            BY <1>1, <1>9, RangeIs DEF Listed
        <3>2. PICK p \in 1 .. Len(M) : M[p] = x
            BY <1>7, <3>1 DEF HasFirst
        <3> QED BY <1>8, <3>1, <3>2, RangeIs DEF Listed
    <2> QED BY <2>1, <2>2
<1>11. NoString \cap Range(M) # {}
    <2>1. IsFiniteSet(Taken(M)) /\ Cardinality(Taken(M)) \in Nat /\ Cardinality(Taken(M)) <= c
        BY <1>7, FS_CardinalityType DEF HasFirst
    <2>2. Cardinality(1 .. 2 * c) = 2 * c
        <3>1. 2 * c \in Nat /\ 2 * c >= 1
            BY <1>1
        <3>2. Cardinality(1 .. 2 * c) = IF 1 > 2 * c THEN 0 ELSE 2 * c - 1 + 1
            BY <3>1, FS_Interval
        <3> QED BY <3>1, <3>2
    <2>3. ASSUME Taken(M) = 1 .. Len(M) PROVE FALSE
        BY <1>1, <1>8, <2>1, <2>2, <2>3
    <2>4. PICK p \in 1 .. Len(M) : M[p] \in NoString
        BY <2>3 DEF Taken
    <2> QED BY <1>8, <2>4, RangeIs
<1> QED BY <1>6, <1>8, <1>10, <1>11

-----------------------------------------------------------------------------
(* Reaching.                                                               *)

LEMMA ReachIs ==
    ASSUME \A x \in Objects : heap[x].refs \subseteq Objects, NEW set \in SUBSET Objects
    PROVE  set \subseteq Reach(set) /\ Reach(set) \subseteq Objects /\ ClosedUnderRefs(Reach(set))
<1> DEFINE known   == set \cup Objects \cup UNION {heap[x].refs : x \in Objects}
           closed == {S \in SUBSET known : set \subseteq S /\ ClosedUnderRefs(S)}
<1>1. \A x : x \in Reach(set) <=> x \in known /\ \A S \in closed : x \in S
    BY DEF Reach
<1>2. Objects \in closed
    BY DEF ClosedUnderRefs
<1>3. set \subseteq known
    OBVIOUS
<1>4. \A S \in closed : set \subseteq S /\ ClosedUnderRefs(S)
    OBVIOUS
<1>5. \A x \in Objects : heap[x].refs \subseteq known
    OBVIOUS
<1> HIDE DEF known, closed
<1>6. set \subseteq Reach(set)
    BY <1>1, <1>3, <1>4
<1>7. Reach(set) \subseteq Objects
    BY <1>1, <1>2
<1>8. ASSUME NEW x \in Reach(set) \cap Objects, NEW y \in heap[x].refs
      PROVE  y \in Reach(set)
    <2>1. ASSUME NEW S \in closed PROVE y \in S
        <3>1. x \in S \cap Objects
            BY <1>1, <1>8, <2>1
        <3>2. ClosedUnderRefs(S)
            BY <1>4
        <3> QED BY <1>8, <3>1, <3>2 DEF ClosedUnderRefs
    <2>2. y \in known
        BY <1>5, <1>8
    <2> QED BY <1>1, <2>1, <2>2
<1> QED BY <1>6, <1>7, <1>8 DEF ClosedUnderRefs

-----------------------------------------------------------------------------
(* The invariant.                                                          *)

StringObjects == {x \in Objects : heap[x].name # Container}

Allocated ==
    /\ allocations \in Nat /\ Objects \subseteq 1 .. allocations
    /\ \A x \in Objects :
           heap[x] \in [name : Strings \cup {Container}, refs : SUBSET Objects]
InUse ==
    /\ pinned \in Seq(Int) /\ roots \in Seq(Int)
    /\ held \subseteq Objects /\ Range(pinned) \subseteq Objects /\ Range(roots) \subseteq Objects
AllListed ==
    /\ Table(entries, heap) /\ Listed(entries) = StringObjects
    /\ interned = Cardinality(StringObjects)
HeapInv == Allocated /\ InUse /\ AllListed

\* Between the marks and the sweep: what is marked and not on the gray stack
\* has its references marked, and the roots are marked.  There are no marks
\* while the program runs.
Traced ==
    /\ gray \subseteq marked /\ marked \subseteq Objects
    /\ RootSet \subseteq marked
    /\ \A x \in marked \ gray : heap[x].refs \subseteq marked
Marks ==
    /\ collecting \in BOOLEAN
    /\ IF collecting THEN Traced ELSE marked = {} /\ gray = {}

LEMMA ObjectsAre ==
    ASSUME Allocated
    PROVE  /\ Objects \subseteq Nat \ {0} /\ {NULL, TOMBSTONE} \cap Objects = {}
           /\ \A x \in Objects : heap[x].refs \subseteq Objects
           /\ IsFiniteSet(StringObjects) /\ Cardinality(StringObjects) \in Nat
<1>1. Objects \subseteq Nat \ {0}
    BY DEF Allocated
<1>2. {NULL, TOMBSTONE} \cap Objects = {}
    BY <1>1 DEF NULL, TOMBSTONE
<1>3. \A x \in Objects : heap[x].refs \subseteq Objects
    BY DEF Allocated
<1>4. StringObjects \subseteq 1 .. allocations
    BY DEF Allocated, StringObjects
<1>5. IsFiniteSet(1 .. allocations)
    BY FS_Interval DEF Allocated
<1>6. IsFiniteSet(StringObjects) /\ Cardinality(StringObjects) \in Nat
    BY <1>4, <1>5, FS_Subset, FS_CardinalityType
<1> QED BY <1>1, <1>2, <1>3, <1>6

LEMMA HeapInvHolds ==
    ASSUME HeapInv
    PROVE  NothingInUseFreed /\ Interned
<1>1. NothingInUseFreed
    <2>1. held \cup Range(pinned) \cup Range(roots) \in SUBSET Objects
        BY DEF HeapInv, InUse
    <2>2. \A x \in Objects : heap[x].refs \subseteq Objects
        BY ObjectsAre DEF HeapInv
    <2> QED BY <2>1, <2>2, ReachIs DEF NothingInUseFreed
<1>2. Table(entries, heap) /\ entries \in Seq(Int) /\ {NULL, TOMBSTONE} \cap Objects = {}
    BY ObjectsAre DEF HeapInv, AllListed, Table, IsTable
<1>3. ASSUME NEW x \in Objects, heap[x].name # Container
      PROVE  FindEnds(heap[x].name) /\ intern_table_find(heap[x].name) = x
    <2>1. x \in Listed(entries)
        BY <1>3 DEF HeapInv, AllListed, StringObjects
    <2>2. PICK p \in 1 .. Len(entries) : entries[p] = x /\ x \notin NoString
        BY <1>2, <2>1, RangeIs DEF Listed
    <2> QED BY <1>2, <2>2, FindsListed
<1>4. ASSUME NEW i \in DOMAIN entries
      PROVE  entries[i] \in {NULL, TOMBSTONE} \cup Objects
    <2>1. i \in 1 .. Len(entries)
        BY <1>2
    <2> QED BY <1>2, <2>1 DEF Table, Objects, NoString
<1>5. interned = Cardinality({x \in Objects : heap[x].name # Container})
    BY DEF HeapInv, AllListed, StringObjects
<1> QED BY <1>1, <1>3, <1>4, <1>5 DEF Interned

LEMMA HeapInvInit == HeapInit => HeapInv
<1> SUFFICES ASSUME HeapInit PROVE HeapInv
    OBVIOUS
<1>1. Objects = {} /\ allocations = 0 /\ held = {} /\ pinned = <<>> /\ roots = <<>> /\ interned = 0
    BY DEF HeapInit, Objects
<1>2. Allocated
    BY <1>1 DEF Allocated
<1>3. InUse
    <2>1. Range(pinned) = {} /\ Range(roots) = {}
        BY <1>1 DEF Range
    <2> QED BY <1>1, <2>1 DEF InUse
<1>4. entries = [i \in 1 .. InitCapacity |-> NULL] /\ InitCapacity \in Nat \ {0} /\ NULL \in Int
    BY HeapConstants DEF HeapInit, NULL
<1>5. entries \in Seq(Int) /\ Len(entries) = InitCapacity
    BY <1>4
<1>6. \A p \in 1 .. Len(entries) : entries[p] \in NoString
    BY <1>4, <1>5 DEF NoString
<1>7. Table(entries, heap)
    BY <1>4, <1>5, <1>6 DEF Table, IsTable
<1>8. Listed(entries) = {}
    BY <1>5, <1>6, RangeIs DEF Listed
<1>9. StringObjects = {}
    BY <1>1 DEF StringObjects
<1>10. Cardinality(StringObjects) = 0
    BY <1>9, FS_EmptySet
<1> QED BY <1>1, <1>2, <1>3, <1>7, <1>8, <1>9, <1>10 DEF HeapInv, AllListed

\* A table is one for every heap that names its strings as it does.
LEMMA TableOf ==
    ASSUME NEW T, NEW H, Table(T, H), NEW G,
           \A p \in 1 .. Len(T) : T[p] \notin NoString =>
               T[p] \in DOMAIN G /\ G[T[p]].name = H[T[p]].name
    PROVE  Table(T, G)
BY DEF Table

\* The new object has a number of its own and refers to nothing.
LEMMA AllocateKeeps ==
    ASSUME Allocated, NEW n \in Strings \cup {Container}, Allocate(n)
    PROVE  /\ Allocated' /\ Objects' = Objects \cup {allocations + 1}
           /\ allocations + 1 \in Nat \ {0} /\ allocations + 1 \notin Objects
           /\ heap'[allocations + 1].name = n
           /\ \A x \in Objects : heap'[x] = heap[x]
           /\ held' = held \cup {allocations + 1}
<1>1. PICK a : a = allocations + 1
    OBVIOUS
<1>2. /\ a \in Nat \ {0} /\ a \notin Objects /\ allocations' = a
      /\ \A x \in 1 .. allocations : x \in 1 .. a
    BY <1>1 DEF Allocated, Allocate
<1>3. heap' = [x \in Objects \cup {a} |-> IF x = a THEN [name |-> n, refs |-> {}] ELSE heap[x]]
    BY <1>1, <1>2 DEF Allocate
<1>4. /\ Objects' = Objects \cup {a} /\ heap'[a] = [name |-> n, refs |-> {}]
      /\ \A x \in Objects : heap'[x] = heap[x]
    BY <1>2, <1>3 DEF Objects
<1>5. Objects' \subseteq 1 .. a
    BY <1>2, <1>4 DEF Allocated
<1>6. ASSUME NEW x \in Objects'
      PROVE  heap'[x] \in [name : Strings \cup {Container}, refs : SUBSET Objects']
    <2>1. CASE x = a
        BY <1>4, <2>1
    <2>2. CASE x \in Objects
        <3>1. heap[x] \in [name : Strings \cup {Container}, refs : SUBSET Objects]
            BY <2>2 DEF Allocated
        <3> QED BY <1>4, <2>2, <3>1
    <2> QED BY <1>4, <1>6, <2>1, <2>2
<1>7. Allocated'
    BY <1>2, <1>5, <1>6 DEF Allocated
<1>8. held' = held \cup {a}
    BY <1>1, <1>2 DEF Allocate
<1> QED BY <1>1, <1>2, <1>4, <1>7, <1>8

\* A step that leaves the table alone, and the names of its strings.
LEMMA ListedStay ==
    ASSUME HeapInv, UNCHANGED intern_table, StringObjects' = StringObjects,
           \A x \in StringObjects : heap'[x].name = heap[x].name
    PROVE  AllListed'
<1>1. Table(entries, heap) /\ Listed(entries) = StringObjects /\ entries \in Seq(Int)
    BY DEF HeapInv, AllListed, Table, IsTable
<1>2. \A p \in 1 .. Len(entries) : entries[p] \notin NoString => entries[p] \in StringObjects
    BY <1>1, RangeIs DEF Listed
<1>3. StringObjects \subseteq DOMAIN heap'
    BY DEF StringObjects, Objects
<1>4. Table(entries, heap')
    <2>1. PICK G : G = heap'
        OBVIOUS
    <2>2. \A p \in 1 .. Len(entries) : entries[p] \notin NoString =>
              entries[p] \in DOMAIN G /\ G[entries[p]].name = heap[entries[p]].name
        BY <1>2, <1>3, <2>1
    <2>3. Table(entries, G)
        BY <1>1, <2>2, TableOf
    <2> QED BY <2>1, <2>3
<1>5. entries' = entries /\ interned' = interned
    BY DEF intern_table
<1>6. interned = Cardinality(StringObjects)
    BY DEF HeapInv, AllListed
<1> QED BY <1>1, <1>4, <1>5, <1>6 DEF AllListed

-----------------------------------------------------------------------------
(* The operations.                                                         *)

\* A string that is not in the table is put there, whether the table grows or
\* not.
LEMMA NewStringListed ==
    ASSUME HeapInv, NEW n \in Strings, FindEnds(n), intern_table_find(n) = NULL,
           Allocate(n), intern_table_insert(allocations + 1, n)
    PROVE  AllListed'
<1>1. PICK x : x = allocations + 1
    OBVIOUS
<1>2. PICK G : G = heap'
    OBVIOUS
<1>3. PICK T : T = IF Full THEN intern_table_grow ELSE entries
    OBVIOUS
<1>4. /\ Table(entries, heap) /\ IsTable(entries) /\ entries \in Seq(Int)
      /\ Listed(entries) = StringObjects /\ {NULL, TOMBSTONE} \cap Objects = {}
    BY ObjectsAre DEF HeapInv, AllListed, Table, IsTable
<1>5. /\ x \in Nat \ {0} /\ x \notin Objects /\ Objects' = Objects \cup {x} /\ G[x].name = n
      /\ \A y \in Objects : G[y] = heap[y]
    BY <1>1, <1>2, AllocateKeeps DEF HeapInv
<1>6. NoString \cap Range(entries) # {}
    BY <1>4, FindIs DEF NoString
<1>7. Table(T, heap) /\ Listed(T) = StringObjects /\ NoString \cap Range(T) # {}
    BY <1>3, <1>4, <1>6, GrowKeeps
<1>8. T \in Seq(Int)
    BY <1>7 DEF Table, IsTable
<1>9. ASSUME NEW p \in 1 .. Len(T), T[p] \notin NoString
      PROVE  T[p] \in Objects /\ heap[T[p]].name # n
    <2>1. T[p] \in StringObjects
        BY <1>7, <1>8, <1>9, RangeIs DEF Listed
    <2>2. PICK i \in 1 .. Len(entries) : entries[i] = T[p]
        BY <1>4, <2>1, RangeIs DEF Listed
    <2>3. intern_table_find(heap[T[p]].name) = T[p]
        BY <1>4, <1>9, <2>2, FindsListed
    <2>4. T[p] # NULL
        BY <1>9 DEF NoString
    <2> QED BY <2>1, <2>3, <2>4 DEF StringObjects
<1>10. x \in DOMAIN G /\ x \in Int /\ x \notin NoString
    <2>1. x \in DOMAIN G
        BY <1>2, <1>5 DEF Objects
    <2> QED BY <1>5, <2>1 DEF NoString, NULL, TOMBSTONE
<1>11. \A p \in 1 .. Len(T) : T[p] \notin NoString =>
           T[p] \in DOMAIN G /\ G[T[p]].name = heap[T[p]].name
    <2>1. Objects \subseteq DOMAIN G
        BY <1>2, <1>5 DEF Objects
    <2> QED BY <1>5, <1>9, <2>1
<1>12. PICK U : U = Put(T, x, n)
    OBVIOUS
<1>13. /\ Table(U, G) /\ Len(U) = Len(T)
       /\ \E q \in 1 .. Len(T) :
              /\ T[q] \in NoString /\ U[q] = x
              /\ \A p \in 1 .. Len(T) : p # q => U[p] = T[p]
    <2>1. /\ Table(Put(T, x, n), G) /\ Len(Put(T, x, n)) = Len(T)
          /\ \E q \in 1 .. Len(T) :
                 /\ T[q] \in NoString /\ Put(T, x, n)[q] = x
                 /\ \A p \in 1 .. Len(T) : p # q => Put(T, x, n)[p] = T[p]
        BY <1>5, <1>7, <1>9, <1>10, <1>11, PutKeeps
    <2> QED BY <1>12, <2>1
<1>14. entries' = U /\ interned' = interned + 1
    BY <1>1, <1>3, <1>12 DEF intern_table_insert
<1>15. StringObjects' = StringObjects \cup {x}
    <2>1. n # Container
        BY NameOfContainers
    <2>2. \A y : y \in StringObjects' <=> y \in Objects' /\ G[y].name # Container
        BY <1>2 DEF StringObjects
    <2> QED BY <1>5, <2>1, <2>2 DEF StringObjects
<1>16. Listed(U) = StringObjects \cup {x}
    <2>1. PICK q \in 1 .. Len(T) :
            /\ T[q] \in NoString /\ U[q] = x
            /\ \A p \in 1 .. Len(T) : p # q => U[p] = T[p]
        BY <1>13
    <2>2. U \in Seq(Int)
        BY <1>13 DEF Table, IsTable
    <2>3. ASSUME NEW y \in Listed(U) PROVE y \in Listed(T) \cup {x}
        <3>1. PICK p \in 1 .. Len(U) : U[p] = y /\ y \notin NoString
            BY <2>2, RangeIs DEF Listed
        <3>2. CASE p = q
            BY <2>1, <3>1, <3>2
        <3>3. CASE p # q
            BY <1>8, <1>13, <2>1, <3>1, <3>3, RangeIs DEF Listed
        <3> QED BY <3>2, <3>3
    <2>4. ASSUME NEW y \in Listed(T) PROVE y \in Listed(U)
        <3>1. PICK p \in 1 .. Len(T) : T[p] = y /\ y \notin NoString
            BY <1>8, RangeIs DEF Listed
        <3>2. U[p] = y
            BY <2>1, <3>1
        <3> QED BY <1>13, <2>2, <3>1, <3>2, RangeIs DEF Listed
    <2>5. x \in Listed(U)
        BY <1>10, <1>13, <2>1, <2>2, RangeIs DEF Listed
    <2> QED BY <1>7, <2>3, <2>4, <2>5
<1>17. interned + 1 = Cardinality(StringObjects \cup {x})
    <2>1. IsFiniteSet(StringObjects) /\ Cardinality(StringObjects) \in Nat
        BY ObjectsAre DEF HeapInv
    <2>2. x \notin StringObjects
        BY <1>5 DEF StringObjects
    <2>3. Cardinality(StringObjects \cup {x}) = Cardinality(StringObjects) + 1
        BY <2>1, <2>2, FS_AddElement
    <2> QED BY <2>3 DEF HeapInv, AllListed
<1> QED BY <1>2, <1>13, <1>14, <1>15, <1>16, <1>17 DEF AllListed

LEMMA StringStep ==
    ASSUME HeapInv, NEW n \in Strings, obj_string_new(n)
    PROVE  HeapInv'
<1>1. FindEnds(n) /\ UNCHANGED <<pinned, roots>>
    BY DEF obj_string_new
<1>2. CASE intern_table_find(n) # NULL
    <2>1. held' = held \cup {intern_table_find(n)} /\ UNCHANGED <<heap, allocations, intern_table>>
        BY <1>2 DEF obj_string_new
    <2>2. intern_table_find(n) \in Objects
        <3>1. IsTable(entries)
            BY DEF HeapInv, AllListed, Table
        <3> QED BY <1>1, <1>2, <3>1, FindIs DEF Stops
    <2>3. Objects' = Objects
        BY <2>1 DEF Objects
    <2>4. Allocated' /\ InUse'
        BY <1>1, <2>1, <2>2, <2>3 DEF HeapInv, Allocated, InUse
    <2>5. AllListed'
        BY <2>1, <2>3 DEF HeapInv, AllListed, StringObjects, intern_table
    <2> QED BY <2>4, <2>5 DEF HeapInv
<1>3. CASE intern_table_find(n) = NULL
    <2>1. Allocate(n) /\ intern_table_insert(allocations + 1, n)
        BY <1>3 DEF obj_string_new
    <2>2. AllListed'
        BY <1>1, <1>3, <2>1, NewStringListed
    <2>3. Allocated' /\ Objects' = Objects \cup {allocations + 1}
          /\ held' = held \cup {allocations + 1}
        BY <2>1, AllocateKeeps DEF HeapInv
    <2>4. InUse'
        BY <1>1, <2>3 DEF HeapInv, InUse
    <2> QED BY <2>2, <2>3, <2>4 DEF HeapInv
<1> QED BY <1>2, <1>3

LEMMA ContainerStep ==
    ASSUME HeapInv, alloc_object
    PROVE  HeapInv'
<1>1. Allocate(Container) /\ UNCHANGED <<pinned, roots, intern_table>>
    BY DEF alloc_object
<1>2. /\ Allocated' /\ Objects' = Objects \cup {allocations + 1}
      /\ heap'[allocations + 1].name = Container /\ \A x \in Objects : heap'[x] = heap[x]
      /\ held' = held \cup {allocations + 1}
    BY <1>1, AllocateKeeps DEF HeapInv
<1>3. InUse'
    BY <1>1, <1>2 DEF HeapInv, InUse
<1>4. StringObjects' = StringObjects /\ \A x \in StringObjects : heap'[x].name = heap[x].name
    BY <1>2 DEF StringObjects
<1>5. AllListed'
    BY <1>1, <1>4, ListedStay
<1> QED BY <1>2, <1>3, <1>5 DEF HeapInv

LEMMA StoreStep ==
    ASSUME HeapInv, NEW x \in Objects, NEW y \in Objects, Store(x, y)
    PROVE  HeapInv'
<1>1. /\ heap' = [heap EXCEPT ![x].refs = {y}] /\ heap[x].name = Container
      /\ UNCHANGED <<allocations, held, pinned, roots, intern_table>>
    BY DEF Store
<1>2. \A z \in Objects : heap[z] \in [name : Strings \cup {Container}, refs : SUBSET Objects]
    BY DEF HeapInv, Allocated
<1>3. Objects' = Objects
    BY <1>1 DEF Objects
<1>4. /\ \A z \in Objects : z # x => heap'[z] = heap[z]
      /\ heap'[x] = [name |-> Container, refs |-> {y}]
    BY <1>1, <1>2, ZenonT(40) DEF Objects
<1>5. \A z \in Objects : heap'[z] \in [name : Strings \cup {Container}, refs : SUBSET Objects]
    BY <1>2, <1>4
<1>6. Allocated'
    BY <1>1, <1>3, <1>5 DEF HeapInv, Allocated
<1>7. InUse'
    BY <1>1, <1>3 DEF HeapInv, InUse
<1>8. \A z \in Objects : heap'[z].name = heap[z].name
    BY <1>1, <1>4
<1>9. StringObjects' = StringObjects
    BY <1>3, <1>8 DEF StringObjects
<1>10. AllListed'
    BY <1>1, <1>8, <1>9, ListedStay DEF StringObjects
<1> QED BY <1>6, <1>7, <1>10 DEF HeapInv

\* The program and C code take hold of objects and let go of them.
LEMMA HoldStep ==
    ASSUME HeapInv, UNCHANGED <<heap, allocations, intern_table>>, InUse'
    PROVE  HeapInv'
<1>1. Objects' = Objects /\ StringObjects' = StringObjects
    BY DEF Objects, StringObjects
<1>2. Allocated'
    BY <1>1 DEF HeapInv, Allocated
<1>3. AllListed'
    BY <1>1 DEF HeapInv, AllListed, intern_table
<1> QED BY <1>2, <1>3 DEF HeapInv

LEMMA Appended ==
    ASSUME NEW s \in Seq(Int), NEW x \in Int
    PROVE  Append(s, x) \in Seq(Int) /\ Range(Append(s, x)) = Range(s) \cup {x}
<1>1. PICK t : t = Append(s, x)
    OBVIOUS
<1>2. /\ t \in Seq(Int) /\ Len(t) = Len(s) + 1 /\ Len(s) \in Nat
      /\ \A i \in 1 .. Len(s) : t[i] = s[i]
      /\ t[Len(s) + 1] = x
    BY <1>1, AppendProperties, LenProperties
<1>3. ASSUME NEW y \in Range(t) PROVE y \in Range(s) \cup {x}
    <2>1. PICK p \in 1 .. Len(t) : t[p] = y
        BY <1>2, RangeIs
    <2>2. p \in 1 .. Len(s) \/ p = Len(s) + 1
        BY <1>2
    <2> QED BY <1>2, <2>1, <2>2, RangeIs
<1>4. ASSUME NEW y \in Range(s) PROVE y \in Range(t)
    <2>1. PICK p \in 1 .. Len(s) : s[p] = y
        BY RangeIs
    <2>2. p \in 1 .. Len(t)
        BY <1>2
    <2> QED BY <1>2, <2>1, <2>2, RangeIs
<1>5. x \in Range(t)
    <2>1. Len(s) + 1 \in 1 .. Len(t)
        BY <1>2
    <2> QED BY <1>2, <2>1, RangeIs
<1> QED BY <1>1, <1>2, <1>3, <1>4, <1>5

LEMMA Unpinned ==
    ASSUME NEW s \in Seq(Int), NEW i \in DOMAIN s
    PROVE  Without(s, i) \in Seq(Int) /\ Range(Without(s, i)) \subseteq Range(s)
<1>1. Len(s) \in Nat /\ Len(s) - 1 \in Nat /\ DOMAIN s = 1 .. Len(s)
    BY LenProperties
<1>2. PICK t : t = Without(s, i)
    OBVIOUS
<1>3. t = [k \in 1 .. Len(s) - 1 |-> IF k = i THEN s[Len(s)] ELSE s[k]]
    BY <1>2 DEF Without
<1>4. Len(s) \in 1 .. Len(s) /\ \A k \in 1 .. Len(s) - 1 : k \in 1 .. Len(s)
    BY <1>1
<1>5. \A k \in 1 .. Len(s) - 1 : t[k] \in Range(s) /\ t[k] \in Int
    BY <1>1, <1>3, <1>4, RangeIs
<1>6. t \in Seq(Int) /\ DOMAIN t = 1 .. Len(s) - 1
    BY <1>1, <1>3, <1>5
<1>7. Range(t) \subseteq Range(s)
    BY <1>5, <1>6 DEF Range
<1> QED BY <1>2, <1>6, <1>7

LEMMA Popped ==
    ASSUME NEW s \in Seq(Int), s # <<>>
    PROVE  /\ SubSeq(s, 1, Len(s) - 1) \in Seq(Int)
           /\ Range(SubSeq(s, 1, Len(s) - 1)) \subseteq Range(s)
<1>1. PICK n \in Nat : n = Len(s) - 1 /\ Len(s) = n + 1
    BY LenProperties, EmptySeq
<1>2. PICK t : t = SubSeq(s, 1, n)
    OBVIOUS
<1>3. \A k \in 1 .. n : k \in 1 .. Len(s) /\ s[k] \in Int /\ s[1 + k - 1] = s[k]
    BY <1>1
<1>4. /\ SubSeq(s, 1, n) \in Seq(Int)
      /\ Len(SubSeq(s, 1, n)) = IF 1 <= n THEN n - 1 + 1 ELSE 0
      /\ \A k \in 1 .. n - 1 + 1 : SubSeq(s, 1, n)[k] = s[1 + k - 1]
    <2>1. 1 \in Int /\ n \in Int
        BY <1>1
    <2>2. \A k \in 1 .. n : s[k] \in Int
        BY <1>3
    <2> QED BY <2>1, <2>2, SubSeqProperties
<1>5. n - 1 + 1 = n /\ (~(1 <= n) => n = 0)
    BY <1>1
<1>6. t \in Seq(Int) /\ Len(t) = n /\ \A k \in 1 .. n : t[k] = s[k]
    BY <1>2, <1>3, <1>4, <1>5
<1>7. ASSUME NEW x \in Range(t) PROVE x \in Range(s)
    <2>1. PICK k \in 1 .. n : t[k] = x
        BY <1>6, RangeIs
    <2> QED BY <1>3, <1>6, <2>1, RangeIs
<1> QED BY <1>1, <1>2, <1>6, <1>7

LEMMA HoldsStep ==
    ASSUME HeapInv,
           \/ \E x, y \in Objects : Load(x, y)
           \/ \E x \in Objects : Drop(x) \/ vm_pin(x) \/ gc_push_root(x)
           \/ \E i \in DOMAIN pinned : vm_unpin(i)
           \/ gc_pop_root
    PROVE  HeapInv'
<1>1. /\ pinned \in Seq(Int) /\ roots \in Seq(Int) /\ held \subseteq Objects
      /\ Range(pinned) \subseteq Objects /\ Range(roots) \subseteq Objects
    BY DEF HeapInv, InUse
<1>2. Objects \subseteq Int /\ \A x \in Objects : heap[x].refs \subseteq Objects
    BY ObjectsAre DEF HeapInv
<1>3. ASSUME UNCHANGED heap PROVE Objects' = Objects
    BY <1>3 DEF Objects
<1>4. ASSUME NEW x \in Objects, NEW y \in Objects, Load(x, y) PROVE HeapInv'
    BY <1>1, <1>2, <1>3, <1>4, HoldStep DEF Load, InUse
<1>5. ASSUME NEW x \in Objects, Drop(x) PROVE HeapInv'
    BY <1>1, <1>3, <1>5, HoldStep DEF Drop, InUse
<1>6. ASSUME NEW x \in Objects, vm_pin(x) PROVE HeapInv'
    <2>1. pinned' \in Seq(Int) /\ Range(pinned') = Range(pinned) \cup {x}
        BY <1>1, <1>2, <1>6, Appended DEF vm_pin
    <2> QED BY <1>1, <1>3, <1>6, <2>1, HoldStep DEF vm_pin, InUse
<1>7. ASSUME NEW x \in Objects, gc_push_root(x) PROVE HeapInv'
    <2>1. roots' \in Seq(Int) /\ Range(roots') = Range(roots) \cup {x}
        BY <1>1, <1>2, <1>7, Appended DEF gc_push_root
    <2> QED BY <1>1, <1>3, <1>7, <2>1, HoldStep DEF gc_push_root, InUse
<1>8. ASSUME NEW i \in DOMAIN pinned, vm_unpin(i) PROVE HeapInv'
    <2>1. pinned' \in Seq(Int) /\ Range(pinned') \subseteq Range(pinned)
        BY <1>1, <1>8, Unpinned DEF vm_unpin
    <2> QED BY <1>1, <1>3, <1>8, <2>1, HoldStep DEF vm_unpin, InUse
<1>9. ASSUME gc_pop_root PROVE HeapInv'
    <2>1. roots' \in Seq(Int) /\ Range(roots') \subseteq Range(roots)
        BY <1>1, <1>9, Popped DEF gc_pop_root
    <2> QED BY <1>1, <1>3, <1>9, <2>1, HoldStep DEF gc_pop_root, InUse
<1> QED BY <1>4, <1>5, <1>6, <1>7, <1>8, <1>9

\* While the program runs there are no marks to keep.
LEMMA MarksKept ==
    ASSUME Marks, ~collecting, UNCHANGED collector
    PROVE  Marks'
BY DEF Marks, collector

\* The roots get their marks.
LEMMA MarkRootsStep ==
    ASSUME HeapInv, Marks, gc_mark_roots
    PROVE  HeapInv' /\ Marks'
<1>1. /\ marked = {} /\ gray = {} /\ collecting' = TRUE
      /\ marked' = RootSet /\ gray' = RootSet
    BY DEF gc_mark_roots, gc_mark_objects, Marks
<1>2. UNCHANGED <<heap, allocations, held, pinned, roots, intern_table>>
    BY DEF gc_mark_roots
<1>3. RootSet \subseteq Objects
    BY DEF HeapInv, InUse, RootSet
<1>4. Objects' = Objects /\ RootSet' = RootSet
    BY <1>2 DEF Objects, RootSet
<1>5. InUse'
    BY <1>2, <1>4 DEF HeapInv, InUse
<1>6. Marks'
    BY <1>1, <1>3, <1>4 DEF Marks, Traced
<1> QED BY <1>2, <1>5, <1>6, HoldStep

\* An object that is popped has its references marked: those without a mark
\* are pushed.
LEMMA TraceStep ==
    ASSUME HeapInv, Marks, NEW x \in gray, gc_trace_object(x)
    PROVE  HeapInv' /\ Marks'
<1>1. Traced /\ collecting /\ collecting' = collecting
    BY DEF gc_trace_object, Marks
<1>2. UNCHANGED <<heap, allocations, held, pinned, roots, intern_table>>
    BY DEF gc_trace_object
<1>3. /\ marked' = marked \cup heap[x].refs
      /\ gray' = (gray \ {x}) \cup (heap[x].refs \ marked)
    BY DEF gc_trace_object, gc_mark_objects
<1>4. Objects' = Objects /\ RootSet' = RootSet
    BY <1>2 DEF Objects, RootSet
<1>5. InUse'
    BY <1>2, <1>4 DEF HeapInv, InUse
<1>6. x \in Objects /\ heap[x].refs \subseteq Objects
    <2>1. x \in Objects
        BY <1>1 DEF Traced
    <2> QED BY <2>1, ObjectsAre DEF HeapInv
<1>7. PICK R : R = heap[x].refs
    OBVIOUS
<1>8. ASSUME NEW y \in marked' \ gray' PROVE heap[y].refs \subseteq marked'
    <2>1. CASE y = x
        BY <1>3, <2>1
    <2>2. CASE y # x
        <3>1. y \in marked \ gray
            BY <1>3, <1>8, <2>2
        <3>2. heap[y].refs \subseteq marked
            BY <1>1, <3>1 DEF Traced
        <3> QED BY <1>3, <3>2
    <2> QED BY <2>1, <2>2
<1>9. gray' \subseteq marked' /\ marked' \subseteq Objects /\ RootSet \subseteq marked'
    BY <1>1, <1>3, <1>6 DEF Traced
<1>10. Traced'
    BY <1>2, <1>4, <1>8, <1>9 DEF Traced
<1>11. Marks'
    BY <1>1, <1>10 DEF Marks
<1> QED BY <1>2, <1>5, <1>11, HoldStep

\* The sweep keeps what is in use, and empties the table of the rest.
LEMMA SweepStep ==
    ASSUME HeapInv, Marks, gc_sweep
    PROVE  HeapInv' /\ Marks'
<1>1. PICK M : M = marked
    OBVIOUS
<1>2. PICK G : G = heap'
    OBVIOUS
<1>3. /\ {NULL, TOMBSTONE} \cap Objects = {}
      /\ \A x \in Objects : heap[x].refs \subseteq Objects
      /\ IsFiniteSet(StringObjects) /\ Cardinality(StringObjects) \in Nat
    BY ObjectsAre DEF HeapInv
<1>4. Traced /\ gray = {} /\ ~collecting' /\ marked' = {} /\ gray' = {}
      /\ collecting' \in BOOLEAN
    BY DEF gc_sweep, Marks, Unmarked
<1>5. RootSet \subseteq M /\ M \subseteq Objects /\ \A x \in M : heap[x].refs \subseteq M
    BY <1>1, <1>4 DEF Traced
<1>6. /\ intern_table_remove_unmarked /\ heap' = Restrict(heap, M)
      /\ UNCHANGED <<allocations, held, pinned, roots>>
    <2>1. marked \cap Objects = M
        BY <1>1, <1>5
    <2> QED BY <2>1 DEF gc_sweep
<1>7. Objects' = M /\ DOMAIN G = M /\ \A x \in M : G[x] = heap[x]
    BY <1>2, <1>6 DEF Objects, Restrict
<1>8. Allocated'
    <2>1. ASSUME NEW x \in M PROVE heap[x] \in [name : Strings \cup {Container}, refs : SUBSET M]
        <3>1. heap[x] \in [name : Strings \cup {Container}, refs : SUBSET Objects]
            BY <1>5 DEF HeapInv, Allocated
        <3> QED BY <1>5, <3>1
    <2>2. M \subseteq 1 .. allocations /\ allocations \in Nat
        BY <1>5 DEF HeapInv, Allocated
    <2> QED BY <1>2, <1>6, <1>7, <2>1, <2>2 DEF Allocated
<1>9. InUse'
    BY <1>5, <1>6, <1>7 DEF HeapInv, InUse, RootSet
<1>10. StringObjects' = StringObjects \cap M
    <2>1. \A x : x \in StringObjects' <=> x \in M /\ G[x].name # Container
        BY <1>2, <1>7 DEF StringObjects
    <2> QED BY <1>5, <1>7, <2>1 DEF StringObjects
<1>11. PICK T : T = entries
    OBVIOUS
<1>12. Table(T, heap) /\ T \in Seq(Int) /\ Len(T) \in Nat \ {0} /\ Listed(T) = StringObjects
    BY <1>11 DEF HeapInv, AllListed, Table, IsTable
<1>13. PICK U : U = entries'
    OBVIOUS
<1>14. U = [i \in 1 .. Len(T) |-> IF T[i] \in NoString \cup M THEN T[i] ELSE TOMBSTONE]
    BY <1>1, <1>6, <1>11, <1>12, <1>13 DEF intern_table_remove_unmarked, NoString, Removed
<1>15. U \in Seq(Int) /\ Len(U) = Len(T)
    <2>1. TOMBSTONE \in Int
        BY DEF TOMBSTONE
    <2>2. \A i \in 1 .. Len(T) : U[i] \in Int
        BY <1>12, <1>14, <2>1
    <2> QED BY <1>12, <1>14, <2>2
<1>16. IsTable(U) /\ Probes(U) = Probes(T) /\ \A n, d : Slot(U, n, d) = Slot(T, n, d)
    BY <1>12, <1>15 DEF IsTable, Probes, Slot
<1>17. TOMBSTONE \in NoString /\ TOMBSTONE # NULL
    BY DEF NoString, TOMBSTONE, NULL
<1>18. \A p \in 1 .. Len(T) : (U[p] = NULL => T[p] = NULL)
           /\ (U[p] \notin NoString <=> T[p] \notin NoString /\ T[p] \in M)
           /\ (U[p] \notin NoString => U[p] = T[p])
    BY <1>14, <1>17
<1>19. ASSUME NEW p \in 1 .. Len(T), U[p] \notin NoString
       PROVE  U[p] \in DOMAIN G /\ G[U[p]].name \in Strings /\ Chain(U, G[U[p]].name, p)
    <2>1. U[p] = T[p] /\ T[p] \notin NoString /\ T[p] \in M
        BY <1>18, <1>19
    <2>2. PICK n \in Strings : n = heap[T[p]].name
        BY <1>12, <2>1 DEF Table
    <2>3. Chain(T, n, p)
        BY <1>12, <2>1, <2>2 DEF Table
    <2>4. PICK d \in Probes(T) :
            Slot(T, n, d) = p /\ \A e \in Probes(T) : e < d => T[Slot(T, n, e)] # NULL
        BY <2>3 DEF Chain
    <2>5. ASSUME NEW e \in Probes(T), e < d PROVE U[Slot(T, n, e)] # NULL
        <3>1. Slot(T, n, e) \in 1 .. Len(T)
            BY <1>12, Slots DEF IsTable
        <3> QED BY <1>18, <2>4, <2>5, <3>1
    <2>6. Chain(U, n, p)
        BY <1>16, <2>4, <2>5 DEF Chain
    <2> QED BY <1>7, <2>1, <2>2, <2>6
<1>20. ASSUME NEW p \in 1 .. Len(T), NEW q \in 1 .. Len(T), U[p] \notin NoString,
              U[q] \notin NoString, G[U[p]].name = G[U[q]].name
       PROVE  p = q
    <2>1. U[p] = T[p] /\ U[q] = T[q] /\ T[p] \notin NoString /\ T[q] \notin NoString
          /\ T[p] \in M /\ T[q] \in M
        BY <1>18, <1>20
    <2>2. heap[T[p]].name = heap[T[q]].name
        BY <1>7, <1>20, <2>1
    <2> QED BY <1>12, <2>1, <2>2 DEF Table
<1>21. Table(U, G)
    BY <1>15, <1>16, <1>19, <1>20 DEF Table
<1>22. Listed(U) = StringObjects \cap M
    <2>1. ASSUME NEW x \in Listed(U) PROVE x \in Listed(T) /\ x \in M
        <3>1. PICK p \in 1 .. Len(U) : U[p] = x /\ x \notin NoString
            BY <1>15, RangeIs DEF Listed
        <3>2. T[p] = x /\ x \in M
            BY <1>15, <1>18, <3>1
        <3> QED BY <1>12, <1>15, <3>1, <3>2, RangeIs DEF Listed
    <2>2. ASSUME NEW x \in Listed(T), x \in M PROVE x \in Listed(U)
        <3>1. PICK p \in 1 .. Len(T) : T[p] = x /\ x \notin NoString
            BY <1>12, RangeIs DEF Listed
        <3>2. U[p] = x
            BY <1>18, <2>2, <3>1
        <3> QED BY <1>15, <3>1, <3>2, RangeIs DEF Listed
    <2> QED BY <1>12, <2>1, <2>2
<1>23. interned' = Cardinality(StringObjects \cap M)
    <2>1. Range(T) \ ({NULL, TOMBSTONE} \cup M) = StringObjects \ M
        BY <1>12 DEF Listed, NoString
    <2>2. interned' = Cardinality(StringObjects) - Cardinality(StringObjects \ M)
        BY <1>1, <1>6, <1>11, <2>1 DEF intern_table_remove_unmarked, HeapInv, AllListed
    <2>3. PICK a \in Nat : a = Cardinality(StringObjects)
        BY <1>3
    <2>4. IsFiniteSet(StringObjects \cap M)
        BY <1>3, FS_Intersection
    <2>5. PICK b \in Nat : b = Cardinality(StringObjects \cap M)
        BY <2>4, FS_CardinalityType
    <2>6. Cardinality(StringObjects \ M) = a - b
        BY <1>3, <2>3, <2>5, FS_Difference
    <2> QED BY <2>2, <2>3, <2>5, <2>6
<1>24. HeapInv'
    BY <1>2, <1>8, <1>9, <1>10, <1>13, <1>21, <1>22, <1>23 DEF HeapInv, AllListed
<1> QED BY <1>4, <1>24 DEF Marks

LEMMA HeapInvStep == HeapInv /\ Marks /\ [HeapNext]_HeapVars => HeapInv' /\ Marks'
<1> SUFFICES ASSUME HeapInv, Marks, [HeapNext]_HeapVars PROVE HeapInv' /\ Marks'
    OBVIOUS
<1>1. ASSUME UNCHANGED <<heap, allocations, held, pinned, roots, intern_table>>
      PROVE  HeapInv'
    <2>1. Objects' = Objects
        BY <1>1 DEF Objects
    <2>2. InUse'
        BY <1>1, <2>1 DEF HeapInv, InUse
    <2> QED BY <1>1, <2>2, HoldStep
<1>2. CASE UNCHANGED HeapVars
    <2>1. Objects' = Objects /\ RootSet' = RootSet /\ UNCHANGED <<heap, collector>>
        BY <1>2 DEF HeapVars, Objects, RootSet
    <2>2. Marks'
        BY <2>1 DEF collector, Marks, Traced
    <2> QED BY <1>1, <1>2, <2>2 DEF HeapVars
<1>3. ASSUME NEW n \in Strings, obj_string_new_searches_for_ever(n)
      PROVE  HeapInv' /\ Marks'
    BY <1>1, <1>3, MarksKept DEF obj_string_new_searches_for_ever
<1>4. ASSUME NEW n \in Strings, obj_string_new(n) PROVE HeapInv' /\ Marks'
    BY <1>4, StringStep, MarksKept DEF obj_string_new, Going
<1>5. CASE alloc_object
    BY <1>5, ContainerStep, MarksKept DEF alloc_object, Going
<1>6. ASSUME NEW x \in Objects, NEW y \in Objects, Store(x, y) PROVE HeapInv' /\ Marks'
    BY <1>6, StoreStep, MarksKept DEF Store, Going
<1>7. CASE \/ \E x, y \in Objects : Load(x, y)
           \/ \E x \in Objects : Drop(x) \/ vm_pin(x) \/ gc_push_root(x)
           \/ \E i \in DOMAIN pinned : vm_unpin(i)
           \/ gc_pop_root
    <2>1. HeapInv'
        BY <1>7, HoldsStep
    <2>2. ~collecting /\ UNCHANGED collector
        BY <1>7 DEF Load, Drop, vm_pin, gc_push_root, vm_unpin, gc_pop_root, Going
    <2> QED BY <2>1, <2>2, MarksKept
<1>8. CASE gc_mark_roots
    BY <1>8, MarkRootsStep
<1>9. ASSUME NEW x \in gray, gc_trace_object(x) PROVE HeapInv' /\ Marks'
    BY <1>9, TraceStep
<1>10. CASE gc_sweep
    BY <1>10, SweepStep
<1> QED
    BY <1>2, <1>3, <1>4, <1>5, <1>6, <1>7, <1>8, <1>9, <1>10 DEF HeapNext

\* There are no marks at first.
LEMMA MarksInit == HeapInit => Marks
BY DEF HeapInit, Marks

\* Nothing that the program reaches, or C code has pinned or pushed, is freed by
\* any collection (gc_mark_roots, gc_trace_references and gc_sweep of gc.c),
\* whatever objects refer to each other and in whatever order they are traced:
\* when the gray stack is empty the marks are closed under references.
THEOREM InUseNeverFreed == HeapSpec => []NothingInUseFreed
<1>1. HeapInv => NothingInUseFreed
    BY HeapInvHolds
<1> QED BY <1>1, HeapInvInit, MarksInit, HeapInvStep, PTL DEF HeapSpec

\* Two strings with the same contents are one object: the table of object.c,
\* which does not keep its strings alive, finds each string there is, after any
\* collections, reused tombstones and growths, in a table of any size.
THEOREM StringsAlwaysInterned == HeapSpec => []Interned
<1>1. HeapInv => Interned
    BY HeapInvHolds
<1> QED BY <1>1, HeapInvInit, MarksInit, HeapInvStep, PTL DEF HeapSpec
=============================================================================
