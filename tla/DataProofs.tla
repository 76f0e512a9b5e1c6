----------------------------- MODULE DataProofs -----------------------------
(***************************************************************************)
(* Proofs about the functions of the library, for every input: the methods *)
(* of strings and lists, the rows of a query, the frames of a WebSocket,   *)
(* base 64.                                                                *)
(***************************************************************************)
EXTENDS MethodLaws, Frames, Columns, NumberFacts, SequenceTheorems, FiniteSetTheorems

(* Recursion over positions, in either direction: f[i] is given by a base, *)
(* or by i and the value at the position where i leads.                    *)

Recurs(f, D, base, jump, step) ==
    \A i \in D : f[i] = IF jump[i] = -1 THEN base[i] ELSE step[<<i, f[jump[i]]>>]

\* A recursion whose positions lead to later ones is well defined.
LEMMA RecursionDown ==
    ASSUME NEW N \in Nat, NEW V, NEW base \in [1 .. N -> V], NEW jump \in [1 .. N -> Int],
           NEW step \in [(1 .. N) \X V -> V],
           \A i \in 1 .. N : jump[i] # -1 => jump[i] \in (i + 1) .. N
    PROVE  \E f \in [1 .. N -> V] : Recurs(f, 1 .. N, base, jump, step)
<1> DEFINE S == {n \in 0 .. N : \E f \in [1 .. N -> V] : Recurs(f, (N + 1 - n) .. N, base, jump, step)}
<1>1. 0 \in S
    BY DEF Recurs
<1>2. ASSUME NEW n \in 0 .. N, n # 0, n - 1 \in S PROVE n \in S
    <2>1. PICK f \in [1 .. N -> V] : Recurs(f, (N + 2 - n) .. N, base, jump, step)
        <3>1. N + 1 - (n - 1) = N + 2 - n
            OBVIOUS
        <3> QED BY <1>2, <3>1
    <2>2. PICK i \in 1 .. N : i = N + 1 - n
        BY <1>2
    <2>3. PICK v : v = IF jump[i] = -1 THEN base[i] ELSE step[<<i, f[jump[i]]>>]
        OBVIOUS
    <2>4. v \in V
        <3>1. CASE jump[i] = -1
            BY <2>3, <3>1
        <3>2. CASE jump[i] # -1
            <4>1. jump[i] \in 1 .. N
                BY <3>2
            <4>2. PICK w \in V : w = f[jump[i]]
                BY <4>1
            <4>3. v = step[<<i, w>>]
                BY <2>3, <3>2, <4>2
            <4> QED BY <4>3
        <3> QED BY <3>1, <3>2
    <2>5. PICK g \in [1 .. N -> V] : g = [f EXCEPT ![i] = v]
        BY <2>4
    <2>6. g[i] = v /\ \A j \in 1 .. N : j # i => g[j] = f[j]
        BY <2>5
    <2>7. ASSUME NEW j \in i .. N
          PROVE  g[j] = IF jump[j] = -1 THEN base[j] ELSE step[<<j, g[jump[j]]>>]
        <3>1. j \in 1 .. N /\ (jump[j] # -1 => jump[j] \in 1 .. N /\ jump[j] # i /\ g[jump[j]] = f[jump[j]])
            BY <2>6
        <3>2. CASE j = i
            BY <2>3, <2>6, <3>1, <3>2
        <3>3. CASE j # i
            <4>1. j \in (N + 2 - n) .. N
                BY <2>2, <3>3
            <4>2. f[j] = IF jump[j] = -1 THEN base[j] ELSE step[<<j, f[jump[j]]>>]
                BY <2>1, <4>1 DEF Recurs
            <4> QED BY <2>6, <3>1, <3>3, <4>2
        <3> QED BY <3>2, <3>3
    <2> QED BY <2>2, <2>7 DEF Recurs
<1>3. N \in S
    <2> HIDE DEF S
    <2>1. \A i \in 0 .. N : i \in S
        BY <1>1, <1>2, Induction
    <2> QED BY <2>1
<1>4. PICK f \in [1 .. N -> V] : Recurs(f, (N + 1 - N) .. N, base, jump, step)
    BY <1>3
<1>5. N + 1 - N = 1
    OBVIOUS
<1> QED BY <1>4, <1>5

\* A recursion from each position to the next.
RecursUp(f, N, first, step) ==
    \A i \in 0 .. N : f[i] = IF i = 0 THEN first ELSE step[<<i, f[i - 1]>>]

LEMMA RecursionUp ==
    ASSUME NEW N \in Nat, NEW V, NEW first \in V, NEW step \in [(1 .. N) \X V -> V]
    PROVE  \E f \in [0 .. N -> V] : RecursUp(f, N, first, step)
<1> DEFINE S == {n \in 0 .. N : \E f \in [0 .. N -> V] :
                    \A i \in 0 .. n : f[i] = IF i = 0 THEN first ELSE step[<<i, f[i - 1]>>]}
<1>1. 0 \in S
    <2>1. PICK f \in [0 .. N -> V] : f = [i \in 0 .. N |-> first]
        OBVIOUS
    <2>2. 0 \in 0 .. N /\ \A i \in 0 .. 0 : i = 0 /\ f[i] = first
        BY <2>1
    <2>3. \A i \in 0 .. 0 : f[i] = IF i = 0 THEN first ELSE step[<<i, f[i - 1]>>]
        BY <2>2
    <2> QED BY <2>2, <2>3
<1>2. ASSUME NEW n \in 0 .. N, n # 0, n - 1 \in S PROVE n \in S
    <2>1. PICK f \in [0 .. N -> V] :
              \A i \in 0 .. (n - 1) : f[i] = IF i = 0 THEN first ELSE step[<<i, f[i - 1]>>]
        BY <1>2
    <2>2. PICK v \in V : v = step[<<n, f[n - 1]>>]
        BY <1>2
    <2>3. PICK g \in [0 .. N -> V] : g = [f EXCEPT ![n] = v]
        OBVIOUS
    <2>4. g[n] = v /\ \A j \in 0 .. N : j # n => g[j] = f[j]
        BY <2>3
    <2>5. ASSUME NEW i \in 0 .. n
          PROVE  g[i] = IF i = 0 THEN first ELSE step[<<i, g[i - 1]>>]
        <3>1. CASE i = n
            <4>1. g[n - 1] = f[n - 1]
                BY <1>2, <2>4
            <4> QED BY <1>2, <2>2, <2>4, <3>1, <4>1
        <3>2. CASE i # n
            <4>1. i \in 0 .. (n - 1) /\ g[i] = f[i] /\ (i # 0 => g[i - 1] = f[i - 1])
                BY <2>4, <3>2
            <4> QED BY <2>1, <4>1
        <3> QED BY <3>1, <3>2
    <2> QED BY <2>5
<1>3. N \in S
    <2> HIDE DEF S
    <2>1. \A i \in 0 .. N : i \in S
        BY <1>1, <1>2, Induction
    <2> QED BY <2>1
<1> QED BY <1>3 DEF RecursUp

\* What holds at the end, and before each place where it holds behind it.
LEMMA Backwards1 ==
    ASSUME NEW N \in Nat, NEW S,
           \A i \in 1 .. N : (\A j \in (i + 1) .. N : j \in S) => i \in S
    PROVE  \A i \in 1 .. N : i \in S
<1> DEFINE T == {n \in 0 .. N : \A j \in (N + 1 - n) .. N : j \in S}
<1>1. 0 \in T
    OBVIOUS
<1>2. ASSUME NEW n \in 0 .. N, n # 0, n - 1 \in T PROVE n \in T
    <2>1. PICK i \in 1 .. N : i = N + 1 - n
        BY <1>2
    <2>2. \A j \in (i + 1) .. N : j \in S
        BY <1>2, <2>1
    <2>3. i \in S
        BY <2>2
    <2>4. \A j \in i .. N : j \in S
        BY <2>2, <2>3
    <2> QED BY <2>1, <2>4
<1>3. N \in T
    <2> HIDE DEF T
    <2>1. \A i \in 0 .. N : i \in T
        BY <1>1, <1>2, Induction
    <2> QED BY <2>1
<1> QED BY <1>3

-----------------------------------------------------------------------------
(* Searching and cutting.                                                  *)

LEMMA FirstOfIs ==
    ASSUME NEW S \in SUBSET Nat, NEW none
    PROVE  /\ S = {} => FirstOf(S, none) = none
           /\ S # {} => FirstOf(S, none) \in S /\ \A m \in S : FirstOf(S, none) <= m
<1>1. CASE S # {}
    <2>1. \E n \in S : \A m \in S : n <= m
        BY <1>1, LeastNumber
    <2> QED BY <1>1, <2>1 DEF FirstOf, Min
<1>2. CASE S = {}
    BY <1>2 DEF FirstOf
<1> QED BY <1>1, <1>2

LEMMA SearchIs ==
    ASSUME NEW C, NEW s \in Seq(C), NEW p \in Seq(C), NEW from \in Nat, NEW to \in Nat,
           NEW found, found = Search(p, s, from, to), from # 0
    PROVE  /\ found \in Nat
           /\ found = 0 => \A i \in from .. (to + 1 - Len(p)) : ~IsAt(p, s, i)
           /\ found # 0 => /\ found \in from .. (to + 1 - Len(p)) /\ IsAt(p, s, found)
                           /\ \A i \in from .. (found - 1) : ~IsAt(p, s, i)
<1>1. PICK last \in Int : last = to + 1 - Len(p)
    BY LenProperties, SMTT(20)
<1>2. PICK S : S = {i \in from .. last : IsAt(p, s, i)}
    OBVIOUS
<1>3. S \in SUBSET Nat /\ 0 \notin S
    BY <1>2
<1>4. found = FirstOf(S, 0)
    BY <1>1, <1>2 DEF Search
<1>5. CASE S = {}
    <2>1. found = 0
        BY <1>3, <1>4, <1>5, FirstOfIs
    <2> QED BY <1>1, <1>2, <1>5, <2>1
<1>6. CASE S # {}
    <2>1. found \in S /\ \A m \in S : found <= m
        BY <1>3, <1>4, <1>6, FirstOfIs
    <2>2. found # 0 /\ found \in from .. last /\ IsAt(p, s, found)
        BY <1>2, <1>3, <2>1
    <2>3. ASSUME NEW i \in from .. (found - 1) PROVE ~IsAt(p, s, i)
        <3>1. i \in from .. last /\ ~(found <= i)
            BY <2>2
        <3> QED BY <1>2, <2>1, <3>1
    <2> QED BY <1>1, <1>3, <2>1, <2>2, <2>3
<1> QED BY <1>5, <1>6

\* The part of a sequence from one position to another.
LEMMA PartIs ==
    ASSUME NEW C, NEW s \in Seq(C), NEW i \in Int, NEW j \in Int, 1 <= i, j <= Len(s)
    PROVE  /\ SubSeq(s, i, j) \in Seq(C)
           /\ Len(SubSeq(s, i, j)) = IF i <= j THEN j - i + 1 ELSE 0
           /\ \A k \in 1 .. (j - i + 1) : SubSeq(s, i, j)[k] = s[i + k - 1]
<1>1. \A k \in i .. j : s[k] \in C
    BY LenProperties
<1> QED BY <1>1, SubSeqProperties

LEMMA CutsJoin ==
    ASSUME NEW C, NEW s \in Seq(C), NEW i \in Nat, NEW j \in Nat, 1 <= i, i <= j, j <= Len(s) + 1
    PROVE  Cut(s, i, j) \o From(s, j) = From(s, i)
<1>1. i \in 1 .. Len(s) + 1 /\ j - 1 \in (i - 1) .. Len(s) /\ Len(s) \in (j - 1) .. Len(s)
    BY LenProperties
<1>2. SubSeq(s, i, j - 1) \o SubSeq(s, (j - 1) + 1, Len(s)) = SubSeq(s, i, Len(s))
    BY <1>1, ConcatAdjacentSubSeq
<1>3. (j - 1) + 1 = j
    OBVIOUS
<1> QED BY <1>2, <1>3 DEF Cut, From

\* What is found is the part between its ends.
LEMMA FoundIs ==
    ASSUME NEW C, NEW s \in Seq(C), NEW p \in Seq(C), NEW i \in Nat, i # 0, IsAt(p, s, i)
    PROVE  Cut(s, i, i + Len(p)) = p /\ i + Len(p) <= Len(s) + 1
BY LenProperties DEF IsAt, Cut

-----------------------------------------------------------------------------
(* The strings of C.                                                       *)

LEMMA UntilIs ==
    ASSUME NEW C, NEW s \in Seq(C), NEW i \in Nat, i # 0, NEW D, NEW u, u = Until(s, i, D)
    PROVE  /\ u \in Nat /\ i <= u /\ u <= EndOf(s, i)
           /\ \A j \in i .. (u - 1) : j <= Len(s) /\ s[j] \notin D
           /\ u <= Len(s) => s[u] \in D
<1>1. PICK S : S = {j \in i .. Len(s) : s[j] \in D}
    OBVIOUS
<1>2. S \in SUBSET Nat /\ EndOf(s, i) \in Nat /\ i <= EndOf(s, i) /\ Len(s) < EndOf(s, i)
    BY <1>1, LenProperties DEF EndOf
<1>3. u = FirstOf(S, EndOf(s, i))
    BY <1>1 DEF Until
<1>4. CASE S = {}
    <2>1. u = EndOf(s, i)
        BY <1>2, <1>3, <1>4, FirstOfIs
    <2>2. \A j \in i .. (u - 1) : j \in i .. Len(s)
        BY <2>1, LenProperties DEF EndOf
    <2> QED BY <1>1, <1>2, <1>4, <2>1, <2>2
<1>5. CASE S # {}
    <2>1. u \in S /\ \A m \in S : u <= m
        BY <1>2, <1>3, <1>5, FirstOfIs
    <2>2. u \in Nat /\ u \in i .. Len(s) /\ s[u] \in D
        BY <1>1, <2>1
    <2>3. ASSUME NEW j \in i .. (u - 1) PROVE j <= Len(s) /\ s[j] \notin D
        <3>1. j \in i .. Len(s) /\ ~(u <= j)
            BY <2>2, LenProperties
        <3> QED BY <1>1, <2>1, <3>1
    <2> QED BY <1>2, <2>2, <2>3
<1> QED BY <1>4, <1>5

LEMMA CEndIs ==
    ASSUME NEW C, NEW s \in Seq(C), NEW i \in Nat, i # 0
    PROVE  /\ CEnd(s, i) \in Nat /\ i - 1 <= CEnd(s, i) /\ CEnd(s, i) <= EndOf(s, i) - 1
           /\ NoNul(s) /\ i <= Len(s) + 1 => CEnd(s, i) = Len(s)
<1>1. PICK u : u = Until(s, i, {NUL})
    OBVIOUS
<1>2. u \in Nat /\ i <= u /\ u <= EndOf(s, i) /\ (u <= Len(s) => s[u] \in {NUL})
    BY <1>1, UntilIs
<1>3. CEnd(s, i) = u - 1
    BY <1>1 DEF CEnd
<1>4. ASSUME NoNul(s), i <= Len(s) + 1 PROVE u = Len(s) + 1
    <2>1. ASSUME u <= Len(s) PROVE FALSE
        <3>1. u \in DOMAIN s /\ s[u] = NUL
            BY <1>2, <2>1, LenProperties
        <3> QED BY <1>4, <3>1 DEF NoNul, Range
    <2> QED BY <1>2, <1>4, <2>1, LenProperties DEF EndOf
<1>5. PICK e \in Nat : e = EndOf(s, i)
    BY LenProperties DEF EndOf
<1>6. PICK c \in Int : c = CEnd(s, i) /\ c = u - 1
    BY <1>2, <1>3
<1>7. c \in Nat /\ i - 1 <= c /\ c <= e - 1
    BY <1>2, <1>5, <1>6
<1>8. NoNul(s) /\ i <= Len(s) + 1 => c = Len(s)
    BY <1>4, <1>6, LenProperties
<1> QED BY <1>5, <1>6, <1>7, <1>8

LEMMA CStringIs ==
    ASSUME NEW C, NEW p \in Seq(C), NoNul(p)
    PROVE  CString(p) = p
<1>1. CEnd(p, 1) = Len(p)
    BY CEndIs, LenProperties
<1>2. CString(p) = SubSeq(p, 1, (Len(p) + 1) - 1) /\ (Len(p) + 1) - 1 = Len(p)
    BY <1>1, LenProperties DEF CString, Cut
<1> QED BY <1>2, SubSeqFull

\* A search that goes on behind what it has found comes to a later position.
LEMMA StrstrIs ==
    ASSUME NEW C, NEW s \in Seq(C), NEW p \in Seq(C), NoNul(p), p # <<>>,
           NEW i \in Nat, i # 0, NEW found, found = strstr(s, i, p)
    PROVE  /\ found \in Nat
           /\ found # 0 => /\ i <= found /\ IsAt(p, s, found)
                           /\ found + Len(p) <= Len(s) + 1 /\ Len(p) > 0
           /\ NoNul(s) /\ found = 0 /\ i <= Len(s) + 1 =>
                 \A j \in i .. (Len(s) + 1 - Len(p)) : ~IsAt(p, s, j)
           /\ \A j \in i .. (found - 1) : ~IsAt(p, s, j)
<1>1. PICK to \in Nat : to = CEnd(s, i)
    BY CEndIs
<1>2. found = Search(p, s, i, to)
    BY <1>1, CStringIs DEF strstr
<1>3. /\ found \in Nat
      /\ found = 0 => \A j \in i .. (to + 1 - Len(p)) : ~IsAt(p, s, j)
      /\ found # 0 => /\ found \in i .. (to + 1 - Len(p)) /\ IsAt(p, s, found)
                      /\ \A j \in i .. (found - 1) : ~IsAt(p, s, j)
    BY <1>2, SearchIs
<1>4. Len(p) \in Nat /\ Len(p) > 0 /\ Len(s) \in Nat
    BY LenProperties, EmptySeq
<1>5. ASSUME found # 0 PROVE found + Len(p) <= Len(s) + 1
    <2>1. IsAt(p, s, found)
        BY <1>3, <1>5
    <2> QED BY <1>3, <1>5, <2>1, FoundIs
<1>6. NoNul(s) /\ i <= Len(s) + 1 => to = Len(s)
    BY <1>1, CEndIs
<1>7. found = 0 => \A j \in i .. (found - 1) : FALSE
    BY <1>3
<1> QED BY <1>3, <1>4, <1>5, <1>6, <1>7

LEMMA StrstrJumps ==
    ASSUME NEW C, NEW s \in Seq(C), NEW p \in Seq(C), NoNul(p), p # <<>>,
           NEW i \in 1 .. (Len(s) + Len(p) + 1)
    PROVE  /\ strstr(s, i, p) \in Nat
           /\ strstr(s, i, p) # 0 =>
                 /\ i <= Len(s) + 1
                 /\ strstr(s, i, p) + Len(p) \in (i + 1) .. (Len(s) + 1)
                 /\ strstr(s, i, p) + Len(p) \in (i + 1) .. (Len(s) + Len(p) + 1)
<1>1. PICK found : found = strstr(s, i, p)
    OBVIOUS
<1>2. Len(p) \in Nat /\ Len(s) \in Nat /\ i \in Nat /\ i # 0
    BY LenProperties
<1>3. found \in Nat /\ (found # 0 => i <= found /\ found + Len(p) <= Len(s) + 1 /\ Len(p) > 0)
    BY <1>1, <1>2, StrstrIs
<1> QED BY <1>1, <1>2, <1>3

-----------------------------------------------------------------------------
(* Splitting and replacing, one occurrence after the other.                *)

SplitBody(s, sep, split, start) ==
    LET found == strstr(s, start, sep) IN
    IF start > Len(s) + 1 THEN <<>>
    ELSE IF found = 0 THEN <<From(s, start)>>
    ELSE <<Cut(s, start, found)>> \o split[found + Len(sep)]

LEMMA SplitIs ==
    ASSUME NEW C, NEW s \in Seq(C), NEW p \in Seq(C), NoNul(p), p # <<>>
    PROVE  \A i \in 1 .. (Len(s) + 1) :
              /\ SplitFrom(s, p)[i] \in Seq(Seq(C))
              /\ SplitFrom(s, p)[i] =
                    IF strstr(s, i, p) = 0 THEN <<From(s, i)>>
                    ELSE <<Cut(s, i, strstr(s, i, p))>> \o SplitFrom(s, p)[strstr(s, i, p) + Len(p)]
<1>1. PICK n \in Nat : n = Len(s)
    BY LenProperties
<1>2. PICK N \in Nat : N = Len(s) + Len(p) + 1 /\ n + 1 <= N
    BY <1>1, LenProperties
<1> DEFINE Found(i) == strstr(s, i, p)
           base == [i \in 1 .. N |-> IF i > n + 1 THEN <<>> ELSE <<From(s, i)>>]
           jump == [i \in 1 .. N |-> IF Found(i) = 0 THEN -1 ELSE Found(i) + Len(p)]
           part == [i \in 1 .. N |-> IF Found(i) = 0 THEN <<>> ELSE Cut(s, i, Found(i))]
           step == [x \in (1 .. N) \X Seq(Seq(C)) |-> <<part[x[1]]>> \o x[2]]
<1>3. ASSUME NEW i \in 1 .. N
      PROVE  /\ Found(i) \in Nat
             /\ Found(i) # 0 => /\ i <= n + 1 /\ Found(i) + Len(p) \in (i + 1) .. N
                                /\ Found(i) + Len(p) \in 1 .. N
    <2>1. i \in 1 .. (Len(s) + Len(p) + 1)
        BY <1>2
    <2>2. /\ Found(i) \in Nat
          /\ Found(i) # 0 => i <= Len(s) + 1 /\ Found(i) + Len(p) \in (i + 1) .. (Len(s) + Len(p) + 1)
        BY <2>1, StrstrJumps
    <2> QED BY <1>1, <1>2, <2>2
<1>4. base \in [1 .. N -> Seq(Seq(C))]
    <2>1. ASSUME NEW i \in 1 .. N, i <= n + 1 PROVE From(s, i) \in Seq(C)
        BY <1>1, <2>1, PartIs DEF From
    <2> QED BY <1>1, <2>1
<1>5. jump \in [1 .. N -> Int] /\ \A i \in 1 .. N : jump[i] # -1 => jump[i] \in (i + 1) .. N
    <2>1. ASSUME NEW i \in 1 .. N PROVE jump[i] \in Int /\ (jump[i] # -1 => jump[i] \in (i + 1) .. N)
        BY <1>3, LenProperties
    <2> QED BY <2>1
<1>6. part \in [1 .. N -> Seq(C)]
    <2>1. ASSUME NEW i \in 1 .. N, Found(i) # 0 PROVE Cut(s, i, Found(i)) \in Seq(C)
        <3>1. PICK f \in Nat : f = Found(i)
            BY <1>3
        <3>2. i \in Nat /\ i # 0 /\ f + Len(p) <= Len(s) + 1 /\ Len(p) > 0 /\ Len(p) \in Nat /\ Len(s) \in Nat
            BY <2>1, <3>1, StrstrIs, LenProperties
        <3>3. f - 1 <= Len(s)
            BY <3>2
        <3> QED BY <3>1, <3>2, <3>3, PartIs DEF Cut
    <2> QED BY <2>1, EmptySeq
<1>7. step \in [(1 .. N) \X Seq(Seq(C)) -> Seq(Seq(C))]
    <2>1. ASSUME NEW i \in 1 .. N, NEW v \in Seq(Seq(C)) PROVE <<part[i]>> \o v \in Seq(Seq(C))
        <3>1. <<part[i]>> \in Seq(Seq(C))
            BY <1>6
        <3> QED BY <3>1, ConcatProperties
    <2> QED BY <2>1
<1>8. PICK f \in [1 .. N -> Seq(Seq(C))] : Recurs(f, 1 .. N, base, jump, step)
    <2> HIDE DEF base, jump, step
    <2> QED BY <1>4, <1>5, <1>7, RecursionDown
<1>9. ASSUME NEW i \in 1 .. N PROVE f[i] = SplitBody(s, p, f, i)
    <2>1. f[i] = IF jump[i] = -1 THEN base[i] ELSE step[<<i, f[jump[i]]>>]
        BY <1>8 DEF Recurs
    <2>2. CASE Found(i) = 0
        <3>1. f[i] = base[i]
            BY <2>1, <2>2
        <3> QED BY <1>1, <2>2, <3>1 DEF SplitBody
    <2>3. CASE Found(i) # 0
        <3>1. jump[i] = Found(i) + Len(p) /\ jump[i] # -1 /\ jump[i] \in 1 .. N /\ i <= n + 1
            BY <1>3, <2>3
        <3>2. f[i] = step[<<i, f[jump[i]]>>]
            BY <2>1, <3>1
        <3>3. PICK v \in Seq(Seq(C)) : v = f[Found(i) + Len(p)]
            BY <3>1
        <3>4. f[i] = <<part[i]>> \o v
            BY <3>1, <3>2, <3>3
        <3>5. part[i] = Cut(s, i, Found(i))
            BY <2>3
        <3>6. ~(i > n + 1)
            BY <3>1
        <3> QED BY <1>1, <2>3, <3>3, <3>4, <3>5, <3>6 DEF SplitBody
    <2> QED BY <2>2, <2>3
<1>10. f = [i \in 1 .. N |-> SplitBody(s, p, f, i)]
    BY <1>9
<1>11. SplitFrom(s, p) = CHOOSE g : g = [i \in 1 .. N |-> SplitBody(s, p, g, i)]
    BY <1>2 DEF SplitFrom, SplitBody, Positions
<1>12. PICK g : g = SplitFrom(s, p) /\ g = [i \in 1 .. N |-> SplitBody(s, p, g, i)]
    BY <1>10, <1>11
<1>13. \A i \in 1 .. N : g[i] = f[i]
    <2> DEFINE T == {i \in 1 .. N : g[i] = f[i]}
    <2>1. ASSUME NEW i \in 1 .. N, \A j \in (i + 1) .. N : j \in T PROVE i \in T
        <3>1. Found(i) # 0 => g[Found(i) + Len(p)] = f[Found(i) + Len(p)]
            BY <1>3, <2>1
        <3>2. SplitBody(s, p, g, i) = SplitBody(s, p, f, i)
            BY <3>1 DEF SplitBody
        <3>3. g[i] = SplitBody(s, p, g, i)
            BY <1>12
        <3> QED BY <1>9, <3>2, <3>3
    <2>2. \A i \in 1 .. N : i \in T
        <3> HIDE DEF T
        <3> QED BY <2>1, Backwards1
    <2> QED BY <2>2
<1>14. ASSUME NEW i \in 1 .. (Len(s) + 1)
       PROVE  g[i] \in Seq(Seq(C)) /\ g[i] = SplitBody(s, p, g, i) /\ ~(i > Len(s) + 1)
    <2>1. i \in 1 .. N /\ ~(i > Len(s) + 1)
        BY <1>1, <1>2
    <2>2. g[i] = f[i] /\ f[i] \in Seq(Seq(C))
        BY <1>8, <1>13, <2>1
    <2>3. g[i] = SplitBody(s, p, g, i)
        BY <1>12, <2>1
    <2> QED BY <2>1, <2>2, <2>3
<1> QED BY <1>12, <1>14 DEF SplitBody

OccurrencesBody(s, old, count, pos) ==
    LET found == strstr(s, pos, old) IN IF found = 0 THEN 0 ELSE 1 + count[found + Len(old)]

LEMMA OccurrencesAre ==
    ASSUME NEW C, NEW s \in Seq(C), NEW p \in Seq(C), NoNul(p), p # <<>>
    PROVE  \A i \in 1 .. (Len(s) + 1) :
              /\ Occurrences(s, p)[i] \in Nat
              /\ Occurrences(s, p)[i] =
                    IF strstr(s, i, p) = 0 THEN 0
                    ELSE 1 + Occurrences(s, p)[strstr(s, i, p) + Len(p)]
<1>1. PICK n \in Nat : n = Len(s)
    BY LenProperties
<1>2. PICK N \in Nat : N = Len(s) + Len(p) + 1 /\ n + 1 <= N
    BY <1>1, LenProperties
<1> DEFINE Found(i) == strstr(s, i, p)
           base == [i \in 1 .. N |-> 0]
           jump == [i \in 1 .. N |-> IF Found(i) = 0 THEN -1 ELSE Found(i) + Len(p)]
           step == [x \in (1 .. N) \X Nat |-> 1 + x[2]]
<1>3. ASSUME NEW i \in 1 .. N
      PROVE  /\ Found(i) \in Nat
             /\ Found(i) # 0 => /\ Found(i) + Len(p) \in (i + 1) .. N
                                /\ Found(i) + Len(p) \in 1 .. N
    <2>1. i \in 1 .. (Len(s) + Len(p) + 1)
        BY <1>2
    <2>2. /\ Found(i) \in Nat
          /\ Found(i) # 0 => Found(i) + Len(p) \in (i + 1) .. (Len(s) + Len(p) + 1)
        BY <2>1, StrstrJumps
    <2> QED BY <1>1, <1>2, <2>2
<1>5. jump \in [1 .. N -> Int] /\ \A i \in 1 .. N : jump[i] # -1 => jump[i] \in (i + 1) .. N
    <2>1. ASSUME NEW i \in 1 .. N PROVE jump[i] \in Int /\ (jump[i] # -1 => jump[i] \in (i + 1) .. N)
        BY <1>3, LenProperties
    <2> QED BY <2>1
<1>6. base \in [1 .. N -> Nat] /\ step \in [(1 .. N) \X Nat -> Nat]
    OBVIOUS
<1>8. PICK f \in [1 .. N -> Nat] : Recurs(f, 1 .. N, base, jump, step)
    <2> HIDE DEF base, jump, step
    <2> QED BY <1>5, <1>6, RecursionDown
<1>9. ASSUME NEW i \in 1 .. N PROVE f[i] = OccurrencesBody(s, p, f, i)
    <2>1. f[i] = IF jump[i] = -1 THEN base[i] ELSE step[<<i, f[jump[i]]>>]
        BY <1>8 DEF Recurs
    <2>2. CASE Found(i) = 0
        BY <2>1, <2>2 DEF OccurrencesBody
    <2>3. CASE Found(i) # 0
        <3>1. jump[i] = Found(i) + Len(p) /\ jump[i] # -1 /\ jump[i] \in 1 .. N
            BY <1>3, <2>3
        <3>2. f[i] = step[<<i, f[jump[i]]>>]
            BY <2>1, <3>1
        <3>3. PICK v \in Nat : v = f[Found(i) + Len(p)]
            BY <3>1
        <3>4. f[i] = 1 + v
            BY <3>1, <3>2, <3>3
        <3> QED BY <2>3, <3>3, <3>4 DEF OccurrencesBody
    <2> QED BY <2>2, <2>3
<1>10. f = [i \in 1 .. N |-> OccurrencesBody(s, p, f, i)]
    BY <1>9
<1>11. Occurrences(s, p) = CHOOSE g : g = [i \in 1 .. N |-> OccurrencesBody(s, p, g, i)]
    BY <1>2 DEF Occurrences, OccurrencesBody, Positions
<1>12. PICK g : g = Occurrences(s, p) /\ g = [i \in 1 .. N |-> OccurrencesBody(s, p, g, i)]
    BY <1>10, <1>11
<1>13. \A i \in 1 .. N : g[i] = f[i]
    <2> DEFINE T == {i \in 1 .. N : g[i] = f[i]}
    <2>1. ASSUME NEW i \in 1 .. N, \A j \in (i + 1) .. N : j \in T PROVE i \in T
        <3>1. Found(i) # 0 => g[Found(i) + Len(p)] = f[Found(i) + Len(p)]
            BY <1>3, <2>1
        <3>2. OccurrencesBody(s, p, g, i) = OccurrencesBody(s, p, f, i)
            BY <3>1 DEF OccurrencesBody
        <3>3. g[i] = OccurrencesBody(s, p, g, i)
            BY <1>12
        <3> QED BY <1>9, <3>2, <3>3
    <2>2. \A i \in 1 .. N : i \in T
        <3> HIDE DEF T
        <3> QED BY <2>1, Backwards1
    <2> QED BY <2>2
<1>14. ASSUME NEW i \in 1 .. (Len(s) + 1)
       PROVE  g[i] \in Nat /\ g[i] = OccurrencesBody(s, p, g, i)
    <2>1. i \in 1 .. N
        BY <1>1, <1>2
    <2>2. g[i] = f[i] /\ f[i] \in Nat
        BY <1>8, <1>13, <2>1
    <2>3. g[i] = OccurrencesBody(s, p, g, i)
        BY <1>12, <2>1
    <2> QED BY <2>2, <2>3
<1> QED BY <1>12, <1>14 DEF OccurrencesBody

ReplacedBody(s, old, new, copied, src) ==
    LET found == strstr(s, src, old) IN
    IF found = 0 THEN Cut(s, src, CEnd(s, src) + 1)
    ELSE Cut(s, src, found) \o (new \o copied[found + Len(old)])

LEMMA ReplacedIs ==
    ASSUME NEW C, NEW s \in Seq(C), NEW p \in Seq(C), NoNul(p), p # <<>>, NEW q \in Seq(C)
    PROVE  \A i \in 1 .. (Len(s) + 1) :
              /\ Replaced(s, p, q)[i] \in Seq(C)
              /\ Replaced(s, p, q)[i] =
                    IF strstr(s, i, p) = 0 THEN Cut(s, i, CEnd(s, i) + 1)
                    ELSE Cut(s, i, strstr(s, i, p)) \o (q \o Replaced(s, p, q)[strstr(s, i, p) + Len(p)])
<1>1. PICK n \in Nat : n = Len(s)
    BY LenProperties
<1>2. PICK N \in Nat : N = Len(s) + Len(p) + 1 /\ n + 1 <= N
    BY <1>1, LenProperties
<1> DEFINE Found(i) == strstr(s, i, p)
           base == [i \in 1 .. N |-> Cut(s, i, CEnd(s, i) + 1)]
           jump == [i \in 1 .. N |-> IF Found(i) = 0 THEN -1 ELSE Found(i) + Len(p)]
           part == [i \in 1 .. N |-> IF Found(i) = 0 THEN <<>> ELSE Cut(s, i, Found(i))]
           step == [x \in (1 .. N) \X Seq(C) |-> part[x[1]] \o (q \o x[2])]
<1>3. ASSUME NEW i \in 1 .. N
      PROVE  /\ Found(i) \in Nat
             /\ Found(i) # 0 => /\ Found(i) + Len(p) \in (i + 1) .. N
                                /\ Found(i) + Len(p) \in 1 .. N
    <2>1. i \in 1 .. (Len(s) + Len(p) + 1)
        BY <1>2
    <2>2. /\ Found(i) \in Nat
          /\ Found(i) # 0 => Found(i) + Len(p) \in (i + 1) .. (Len(s) + Len(p) + 1)
        BY <2>1, StrstrJumps
    <2> QED BY <1>1, <1>2, <2>2
<1>4. base \in [1 .. N -> Seq(C)]
    <2>1. ASSUME NEW i \in 1 .. N PROVE Cut(s, i, CEnd(s, i) + 1) \in Seq(C)
        <3>1. PICK c \in Nat : c = CEnd(s, i)
            BY CEndIs
        <3>2. c <= EndOf(s, i) - 1
            BY <3>1, CEndIs
        <3>3. (c + 1) - 1 = c
            OBVIOUS
        <3>4. CASE i <= Len(s)
            <4>1. c <= Len(s)
                BY <1>1, <3>2, <3>4 DEF EndOf
            <4> QED BY <3>1, <3>3, <4>1, PartIs DEF Cut
        <3>5. CASE ~(i <= Len(s))
            <4>1. c < i
                BY <1>1, <3>2, <3>5 DEF EndOf
            <4>2. SubSeq(s, i, c) = <<>>
                BY <4>1, SubSeqEmpty
            <4> QED BY <3>1, <3>3, <4>2, EmptySeq DEF Cut
        <3> QED BY <3>4, <3>5
    <2> QED BY <2>1
<1>5. jump \in [1 .. N -> Int] /\ \A i \in 1 .. N : jump[i] # -1 => jump[i] \in (i + 1) .. N
    <2>1. ASSUME NEW i \in 1 .. N PROVE jump[i] \in Int /\ (jump[i] # -1 => jump[i] \in (i + 1) .. N)
        BY <1>3, LenProperties
    <2> QED BY <2>1
<1>6. part \in [1 .. N -> Seq(C)]
    <2>1. ASSUME NEW i \in 1 .. N, Found(i) # 0 PROVE Cut(s, i, Found(i)) \in Seq(C)
        <3>1. PICK f \in Nat : f = Found(i)
            BY <1>3
        <3>2. i \in Nat /\ i # 0 /\ f + Len(p) <= Len(s) + 1 /\ Len(p) > 0 /\ Len(p) \in Nat /\ Len(s) \in Nat
            BY <2>1, <3>1, StrstrIs, LenProperties
        <3>3. f - 1 <= Len(s)
            BY <3>2
        <3> QED BY <3>1, <3>2, <3>3, PartIs DEF Cut
    <2> QED BY <2>1, EmptySeq
<1>7. step \in [(1 .. N) \X Seq(C) -> Seq(C)]
    <2>1. ASSUME NEW i \in 1 .. N, NEW v \in Seq(C) PROVE part[i] \o (q \o v) \in Seq(C)
        BY <1>6, ConcatProperties
    <2> QED BY <2>1
<1>8. PICK f \in [1 .. N -> Seq(C)] : Recurs(f, 1 .. N, base, jump, step)
    <2> HIDE DEF base, jump, step
    <2> QED BY <1>4, <1>5, <1>7, RecursionDown
<1>9. ASSUME NEW i \in 1 .. N PROVE f[i] = ReplacedBody(s, p, q, f, i)
    <2>1. f[i] = IF jump[i] = -1 THEN base[i] ELSE step[<<i, f[jump[i]]>>]
        BY <1>8 DEF Recurs
    <2>2. CASE Found(i) = 0
        BY <2>1, <2>2 DEF ReplacedBody
    <2>3. CASE Found(i) # 0
        <3>1. jump[i] = Found(i) + Len(p) /\ jump[i] # -1 /\ jump[i] \in 1 .. N
            BY <1>3, <2>3
        <3>2. f[i] = step[<<i, f[jump[i]]>>]
            BY <2>1, <3>1
        <3>3. PICK v \in Seq(C) : v = f[Found(i) + Len(p)]
            BY <3>1
        <3>4. f[i] = part[i] \o (q \o v)
            BY <3>1, <3>2, <3>3
        <3>5. part[i] = Cut(s, i, Found(i))
            BY <2>3
        <3> QED BY <2>3, <3>3, <3>4, <3>5 DEF ReplacedBody
    <2> QED BY <2>2, <2>3
<1>10. f = [i \in 1 .. N |-> ReplacedBody(s, p, q, f, i)]
    BY <1>9
<1>11. Replaced(s, p, q) = CHOOSE g : g = [i \in 1 .. N |-> ReplacedBody(s, p, q, g, i)]
    BY <1>2 DEF Replaced, ReplacedBody, Positions
<1>12. PICK g : g = Replaced(s, p, q) /\ g = [i \in 1 .. N |-> ReplacedBody(s, p, q, g, i)]
    BY <1>10, <1>11
<1>13. \A i \in 1 .. N : g[i] = f[i]
    <2> DEFINE T == {i \in 1 .. N : g[i] = f[i]}
    <2>1. ASSUME NEW i \in 1 .. N, \A j \in (i + 1) .. N : j \in T PROVE i \in T
        <3>1. Found(i) # 0 => g[Found(i) + Len(p)] = f[Found(i) + Len(p)]
            BY <1>3, <2>1
        <3>2. ReplacedBody(s, p, q, g, i) = ReplacedBody(s, p, q, f, i)
            BY <3>1 DEF ReplacedBody
        <3>3. g[i] = ReplacedBody(s, p, q, g, i)
            BY <1>12
        <3> QED BY <1>9, <3>2, <3>3
    <2>2. \A i \in 1 .. N : i \in T
        <3> HIDE DEF T
        <3> QED BY <2>1, Backwards1
    <2> QED BY <2>2
<1>14. ASSUME NEW i \in 1 .. (Len(s) + 1)
       PROVE  g[i] \in Seq(C) /\ g[i] = ReplacedBody(s, p, q, g, i)
    <2>1. i \in 1 .. N
        BY <1>1, <1>2
    <2>2. g[i] = f[i] /\ f[i] \in Seq(C)
        BY <1>8, <1>13, <2>1
    <2>3. g[i] = ReplacedBody(s, p, q, g, i)
        BY <1>12, <2>1
    <2> QED BY <2>2, <2>3
<1> QED BY <1>12, <1>14 DEF ReplacedBody

-----------------------------------------------------------------------------
(* Joining.                                                                *)

\* Lists of texts, and one more in front of them.
Texts(C) == Seq(Seq(C))
Prefixed(x, rest) == <<x>> \o rest

JoinedBody(parts, sep, joined, i) ==
    IF i = Len(parts) THEN parts[i] ELSE parts[i] \o (sep \o joined[i + 1])

\* The recursion of join is well defined.
LEMMA JoinedIs ==
    ASSUME NEW C, NEW parts \in Texts(C), NEW sep \in Seq(C), parts # <<>>
    PROVE  \E f \in [1 .. Len(parts) -> Seq(C)] :
              /\ Joined(parts, sep) = f[1]
              /\ \A i \in 1 .. Len(parts) : f[i] = JoinedBody(parts, sep, f, i)
<1>1. PICK N \in Nat : N = Len(parts) /\ N # 0
    BY EmptySeq, LenProperties DEF Texts
<1>2. \A i \in 1 .. N : parts[i] \in Seq(C)
    BY <1>1, LenProperties DEF Texts
<1> DEFINE base == [i \in 1 .. N |-> parts[i]]
           jump == [i \in 1 .. N |-> IF i = N THEN -1 ELSE i + 1]
           step == [x \in (1 .. N) \X Seq(C) |-> parts[x[1]] \o (sep \o x[2])]
<1>3. base \in [1 .. N -> Seq(C)]
    BY <1>2
<1>4. jump \in [1 .. N -> Int] /\ \A i \in 1 .. N : jump[i] # -1 => jump[i] \in (i + 1) .. N
    OBVIOUS
<1>5. step \in [(1 .. N) \X Seq(C) -> Seq(C)]
    <2>1. ASSUME NEW i \in 1 .. N, NEW v \in Seq(C) PROVE parts[i] \o (sep \o v) \in Seq(C)
        BY <1>2, ConcatProperties
    <2> QED BY <2>1
<1>6. PICK f \in [1 .. N -> Seq(C)] : Recurs(f, 1 .. N, base, jump, step)
    <2> HIDE DEF base, jump, step
    <2> QED BY <1>3, <1>4, <1>5, RecursionDown
<1>7. ASSUME NEW i \in 1 .. N PROVE f[i] = JoinedBody(parts, sep, f, i)
    <2>1. f[i] = IF jump[i] = -1 THEN base[i] ELSE step[<<i, f[jump[i]]>>]
        BY <1>6 DEF Recurs
    <2>2. CASE i = N
        BY <1>1, <2>1, <2>2 DEF JoinedBody
    <2>3. CASE i # N
        <3>1. jump[i] = i + 1 /\ jump[i] # -1 /\ i + 1 \in 1 .. N
            BY <2>3
        <3>2. PICK v \in Seq(C) : v = f[i + 1]
            BY <3>1
        <3>3. f[i] = parts[i] \o (sep \o v)
            BY <2>1, <3>1, <3>2
        <3> QED BY <1>1, <2>3, <3>2, <3>3 DEF JoinedBody
    <2> QED BY <2>2, <2>3
<1>8. f = [i \in 1 .. N |-> JoinedBody(parts, sep, f, i)]
    BY <1>7
<1>9. PICK g : g = (CHOOSE h : h = [i \in 1 .. N |-> JoinedBody(parts, sep, h, i)])
    OBVIOUS
<1>10. g = [i \in 1 .. N |-> JoinedBody(parts, sep, g, i)]
    BY <1>8, <1>9
<1>11. Joined(parts, sep) = g[1]
    BY <1>1, <1>9 DEF Joined, JoinedBody
<1>12. \A i \in 1 .. N : g[i] = f[i]
    <2> DEFINE T == {i \in 1 .. N : g[i] = f[i]}
    <2>1. ASSUME NEW i \in 1 .. N, \A j \in (i + 1) .. N : j \in T PROVE i \in T
        <3>1. i # N => g[i + 1] = f[i + 1]
            BY <2>1
        <3>2. g[i] = JoinedBody(parts, sep, g, i)
            BY <1>10
        <3> QED BY <1>1, <1>7, <3>1, <3>2 DEF JoinedBody
    <2>2. \A i \in 1 .. N : i \in T
        <3> HIDE DEF T
        <3> QED BY <2>1, Backwards1
    <2> QED BY <2>2
<1>13. 1 \in 1 .. N /\ Joined(parts, sep) = f[1]
    BY <1>1, <1>11, <1>12
<1>14. f \in [1 .. Len(parts) -> Seq(C)] /\ \A i \in 1 .. Len(parts) : f[i] = JoinedBody(parts, sep, f, i)
    BY <1>1, <1>7
<1> QED BY <1>13, <1>14

LEMMA SingleIs ==
    ASSUME NEW S, NEW x \in S
    PROVE  <<x>> \in Seq(S) /\ Len(<<x>>) = 1 /\ <<x>>[1] = x /\ <<x>> # <<>>
OBVIOUS

LEMMA JoinedOne ==
    ASSUME NEW C, NEW x \in Seq(C), NEW sep \in Seq(C)
    PROVE  Joined(<<x>>, sep) = x
<1> DEFINE S == Seq(C)
<1>1. PICK parts \in Seq(S) : parts = <<x>> /\ Len(parts) = 1 /\ parts # <<>> /\ parts[1] = x
    <2>1. x \in S
        OBVIOUS
    <2> HIDE DEF S
    <2> QED BY <2>1, SingleIs
<1>4. parts \in Texts(C) /\ parts # <<>>
    BY <1>1 DEF Texts
<1>2. PICK f \in [1 .. Len(parts) -> Seq(C)] :
          /\ Joined(parts, sep) = f[1]
          /\ \A i \in 1 .. Len(parts) : f[i] = JoinedBody(parts, sep, f, i)
    <2> HIDE DEF S
    <2> QED BY <1>4, JoinedIs
<1>3. f[1] = JoinedBody(parts, sep, f, 1)
    BY <1>1, <1>2
<1> QED BY <1>1, <1>2, <1>3 DEF JoinedBody

\* One part more in front.
LEMMA JoinedStep ==
    ASSUME NEW C, NEW sep \in Seq(C), NEW rest \in Texts(C), rest # <<>>,
           NEW parts \in Texts(C), Len(parts) = Len(rest) + 1,
           \A i \in 1 .. Len(rest) : parts[i + 1] = rest[i]
    PROVE  /\ Joined(parts, sep) = parts[1] \o (sep \o Joined(rest, sep))
           /\ Joined(rest, sep) \in Seq(C)
<1>1. PICK N \in Nat : N = Len(rest) /\ N # 0
    BY EmptySeq, LenProperties DEF Texts
<1>3. Len(parts) = N + 1 /\ \A i \in 1 .. N : parts[i + 1] = rest[i]
    BY <1>1
<1>4. parts # <<>>
    BY <1>1, <1>3, EmptySeq DEF Texts
<1>5. PICK f \in [1 .. Len(parts) -> Seq(C)] :
          /\ Joined(parts, sep) = f[1]
          /\ \A i \in 1 .. Len(parts) : f[i] = JoinedBody(parts, sep, f, i)
    BY <1>4, JoinedIs
<1>6. PICK g \in [1 .. Len(rest) -> Seq(C)] :
          /\ Joined(rest, sep) = g[1]
          /\ \A i \in 1 .. Len(rest) : g[i] = JoinedBody(rest, sep, g, i)
    BY JoinedIs
<1>7. \A i \in 1 .. N : f[i + 1] = g[i]
    <2> DEFINE T == {i \in 1 .. N : f[i + 1] = g[i]}
    <2>1. ASSUME NEW i \in 1 .. N, \A j \in (i + 1) .. N : j \in T PROVE i \in T
        <3>1. i # N => f[(i + 1) + 1] = g[i + 1]
            BY <2>1
        <3>2. g[i] = JoinedBody(rest, sep, g, i) /\ f[i + 1] = JoinedBody(parts, sep, f, i + 1)
            BY <1>1, <1>3, <1>5, <1>6
        <3>3. parts[i + 1] = rest[i] /\ (i = Len(rest) <=> i + 1 = Len(parts)) /\ (i = N <=> i = Len(rest))
            BY <1>1, <1>3
        <3>4. CASE i = N
            BY <3>2, <3>3, <3>4 DEF JoinedBody
        <3>5. CASE i # N
            BY <3>1, <3>2, <3>3, <3>5 DEF JoinedBody
        <3> QED BY <3>4, <3>5
    <2>2. \A i \in 1 .. N : i \in T
        <3> HIDE DEF T
        <3> QED BY <2>1, Backwards1
    <2> QED BY <2>2
<1>8. f[1] = JoinedBody(parts, sep, f, 1) /\ 1 # Len(parts) /\ f[1 + 1] = g[1]
    BY <1>1, <1>3, <1>5, <1>7
<1>9. f[1] = parts[1] \o (sep \o g[1])
    BY <1>3, <1>8 DEF JoinedBody
<1>10. g[1] \in Seq(C)
    <2>1. 1 \in 1 .. Len(rest)
        BY <1>1
    <2> QED BY <1>6, <2>1
<1> QED BY <1>5, <1>6, <1>9, <1>10

LEMMA PrefixedIs ==
    ASSUME NEW S, NEW x \in S, NEW rest \in Seq(S)
    PROVE  \E parts \in Seq(S) : /\ parts = Prefixed(x, rest) /\ parts # <<>>
                                 /\ Len(parts) = Len(rest) + 1 /\ parts[1] = x
                                 /\ \A i \in 1 .. Len(rest) : parts[i + 1] = rest[i]
<1>1. PICK one \in Seq(S) : one = <<x>> /\ Len(one) = 1 /\ one[1] = x
    BY SingleIs
<1>2. PICK parts \in Seq(S) : parts = one \o rest
    BY ConcatProperties
<1>9. parts = Prefixed(x, rest)
    BY <1>1, <1>2 DEF Prefixed
<1>3. PICK N \in Nat : N = Len(rest)
    BY LenProperties
<1>4. /\ Len(parts) = 1 + N
      /\ \A i \in 1 .. (1 + N) : parts[i] = IF i <= 1 THEN one[i] ELSE rest[i - 1]
    BY <1>1, <1>2, <1>3, ConcatProperties
<1>5. parts[1] = x
    BY <1>1, <1>4
<1>6. ASSUME NEW i \in 1 .. N PROVE parts[i + 1] = rest[i]
    <2>1. i + 1 \in 1 .. (1 + N) /\ ~(i + 1 <= 1) /\ (i + 1) - 1 = i
        OBVIOUS
    <2> QED BY <1>4, <2>1
<1>7. parts # <<>>
    BY <1>4, EmptySeq
<1>8. Len(parts) = Len(rest) + 1
    BY <1>3, <1>4
<1> QED BY <1>3, <1>5, <1>6, <1>7, <1>8, <1>9

LEMMA JoinedMore ==
    ASSUME NEW C, NEW x \in Seq(C), NEW sep \in Seq(C), NEW rest \in Texts(C), rest # <<>>
    PROVE  /\ Prefixed(x, rest) # <<>>
           /\ Joined(Prefixed(x, rest), sep) = x \o (sep \o Joined(rest, sep))
           /\ Joined(rest, sep) \in Seq(C)
<1> DEFINE S == Seq(C)
<1>1. PICK parts \in Seq(S) : /\ parts = Prefixed(x, rest) /\ parts # <<>>
                              /\ Len(parts) = Len(rest) + 1 /\ parts[1] = x
                              /\ \A i \in 1 .. Len(rest) : parts[i + 1] = rest[i]
    <2>1. x \in S /\ rest \in Seq(S)
        BY DEF Texts
    <2> HIDE DEF S
    <2> QED BY <2>1, PrefixedIs
<1>2. /\ Joined(parts, sep) = parts[1] \o (sep \o Joined(rest, sep))
      /\ Joined(rest, sep) \in Seq(C)
    <2>1. parts \in Texts(C) /\ Len(parts) = Len(rest) + 1
          /\ \A i \in 1 .. Len(rest) : parts[i + 1] = rest[i]
        BY <1>1 DEF Texts
    <2> HIDE DEF S
    <2> QED BY <2>1, JoinedStep
<1> QED BY <1>1, <1>2

-----------------------------------------------------------------------------
(* What split, replace and join owe each other.                            *)

\* The last step of split and replace, when nothing more is found.
LEMMA StepEnds ==
    ASSUME NEW C, NEW s \in Seq(C), NEW p \in Seq(C), NoNul(p), p # <<>>,
           NEW i \in 1 .. (Len(s) + 1), strstr(s, i, p) = 0
    PROVE  /\ From(s, i) \in Seq(C) /\ SplitFrom(s, p)[i] = <<From(s, i)>>
           /\ Occurrences(s, p)[i] = 0
           /\ \A q \in Seq(C) : Replaced(s, p, q)[i] = Cut(s, i, CEnd(s, i) + 1)
<1>1. Len(s) \in Nat /\ i \in Nat /\ i # 0
    BY LenProperties
<1>2. From(s, i) \in Seq(C)
    BY <1>1, PartIs DEF From
<1>3. SplitFrom(s, p)[i] = <<From(s, i)>>
    BY SplitIs
<1>4. Occurrences(s, p)[i] = 0
    BY OccurrencesAre
<1>5. ASSUME NEW q \in Seq(C) PROVE Replaced(s, p, q)[i] = Cut(s, i, CEnd(s, i) + 1)
    BY ReplacedIs
<1> QED BY <1>2, <1>3, <1>4, <1>5

\* A step over what is found, with the part before it.
StepsTo(C, s, p, i, found, next, x) ==
    /\ found = strstr(s, i, p) /\ i <= found /\ next \in (i + 1) .. (Len(s) + 1)
    /\ next = found + Len(p) /\ IsAt(p, s, found)
    /\ x = Cut(s, i, found) /\ Len(x) = found - i
    /\ SplitFrom(s, p)[i] = Prefixed(x, SplitFrom(s, p)[next])
    /\ Occurrences(s, p)[i] = 1 + Occurrences(s, p)[next]
    /\ \A q \in Seq(C) : Replaced(s, p, q)[i] = x \o (q \o Replaced(s, p, q)[next])

LEMMA StepGoesOn ==
    ASSUME NEW C, NEW s \in Seq(C), NEW p \in Seq(C), NoNul(p), p # <<>>,
           NEW i \in 1 .. (Len(s) + 1), strstr(s, i, p) # 0
    PROVE  \E found \in Nat, next \in 1 .. (Len(s) + 1), x \in Seq(C) :
              StepsTo(C, s, p, i, found, next, x)
<1>1. Len(s) \in Nat /\ Len(p) \in Nat /\ i \in Nat /\ i # 0
    BY LenProperties
<1>2. PICK found : found = strstr(s, i, p)
    OBVIOUS
<1>3. found \in Nat /\ i <= found /\ IsAt(p, s, found) /\ found + Len(p) <= Len(s) + 1 /\ Len(p) > 0
    BY <1>1, <1>2, StrstrIs
<1>4. PICK next \in 1 .. (Len(s) + 1) : next = found + Len(p) /\ next \in (i + 1) .. (Len(s) + 1)
    BY <1>1, <1>3
<1>5. PICK e \in Int : e = found - 1 /\ e <= Len(s) /\ i - 1 <= e
    BY <1>1, <1>3
<1>6. PICK x \in Seq(C) : x = Cut(s, i, found) /\ Len(x) = found - i
    <2>1. Cut(s, i, found) = SubSeq(s, i, e)
        BY <1>5 DEF Cut
    <2>2. /\ SubSeq(s, i, e) \in Seq(C)
          /\ Len(SubSeq(s, i, e)) = IF i <= e THEN e - i + 1 ELSE 0
        BY <1>1, <1>5, PartIs
    <2>3. (IF i <= e THEN e - i + 1 ELSE 0) = found - i
        BY <1>1, <1>3, <1>5
    <2> QED BY <2>1, <2>2, <2>3
<1>7. SplitFrom(s, p)[i] = Prefixed(x, SplitFrom(s, p)[next])
    BY <1>2, <1>4, <1>6, SplitIs, ZenonT(40) DEF Prefixed
<1>8. Occurrences(s, p)[i] = 1 + Occurrences(s, p)[next]
    BY <1>2, <1>4, OccurrencesAre
<1>9. ASSUME NEW q \in Seq(C) PROVE Replaced(s, p, q)[i] = x \o (q \o Replaced(s, p, q)[next])
    <2>1. Replaced(s, p, q)[i] =
              IF strstr(s, i, p) = 0 THEN Cut(s, i, CEnd(s, i) + 1)
              ELSE Cut(s, i, strstr(s, i, p)) \o (q \o Replaced(s, p, q)[strstr(s, i, p) + Len(p)])
        BY ReplacedIs, ZenonT(40)
    <2> QED BY <1>2, <1>4, <1>6, <2>1
<1>10. \A q \in Seq(C) : Replaced(s, p, q)[i] = x \o (q \o Replaced(s, p, q)[next])
    BY <1>9
<1>11. StepsTo(C, s, p, i, found, next, x)
    BY <1>2, <1>3, <1>4, <1>6, <1>7, <1>8, <1>10 DEF StepsTo
<1> QED BY <1>3, <1>11

\* Joining the parts with what they were split at makes the whole again.
LEMMA SplitJoins ==
    ASSUME NEW C, NEW s \in Seq(C), NEW p \in Seq(C), NoNul(p), p # <<>>
    PROVE  \A i \in 1 .. (Len(s) + 1) :
              /\ SplitFrom(s, p)[i] # <<>>
              /\ Joined(SplitFrom(s, p)[i], p) = From(s, i)
<1> DEFINE T == {i \in 1 .. (Len(s) + 1) : /\ SplitFrom(s, p)[i] # <<>>
                                           /\ Joined(SplitFrom(s, p)[i], p) = From(s, i)}
<1>1. Len(s) + 1 \in Nat /\ Len(p) \in Nat /\ Len(s) \in Nat
    BY LenProperties
<1>2. ASSUME NEW i \in 1 .. (Len(s) + 1), \A j \in (i + 1) .. (Len(s) + 1) : j \in T PROVE i \in T
    <2>3. CASE strstr(s, i, p) = 0
        <3>1. SplitFrom(s, p)[i] = <<From(s, i)>> /\ From(s, i) \in Seq(C)
            BY <2>3, StepEnds
        <3>2. PICK w \in Seq(C) : w = From(s, i)
            BY <3>1
        <3>3. Joined(<<w>>, p) = w /\ <<w>> # <<>>
            BY JoinedOne
        <3> QED BY <3>1, <3>2, <3>3
    <2>4. CASE strstr(s, i, p) # 0
        <3>0. PICK found \in Nat, next \in 1 .. (Len(s) + 1), x \in Seq(C) : StepsTo(C, s, p, i, found, next, x)
            BY <2>4, StepGoesOn
        <3>1. /\ i <= found /\ next \in (i + 1) .. (Len(s) + 1)
              /\ next = found + Len(p) /\ IsAt(p, s, found) /\ x = Cut(s, i, found)
              /\ SplitFrom(s, p)[i] = Prefixed(x, SplitFrom(s, p)[next])
            BY <3>0 DEF StepsTo
        <3>2. next \in T
            BY <1>2, <3>1
        <3>3. PICK rest \in Texts(C) : rest = SplitFrom(s, p)[next]
            BY SplitIs DEF Texts
        <3>4. x = Cut(s, i, found) /\ SplitFrom(s, p)[i] = Prefixed(x, rest)
            BY <3>1, <3>3
        <3>6. rest # <<>> /\ Joined(rest, p) = From(s, next)
            BY <3>2, <3>3
        <3>5. Prefixed(x, rest) # <<>> /\ Joined(Prefixed(x, rest), p) = x \o (p \o Joined(rest, p))
            BY <3>6, JoinedMore
        <3>7. SplitFrom(s, p)[i] # <<>> /\ Joined(SplitFrom(s, p)[i], p) = x \o (p \o From(s, next))
            BY <3>4, <3>5, <3>6
        <3>8. p = Cut(s, found, next) /\ i <= found /\ found <= next /\ next <= Len(s) + 1
            <4>1. found # 0 /\ found <= next /\ next <= Len(s) + 1
                BY <1>1, <3>1
            <4>2. Cut(s, found, found + Len(p)) = p
                BY <3>1, <4>1, FoundIs
            <4> QED BY <3>1, <4>1, <4>2
        <3>11. next \in Nat /\ i \in Nat /\ 1 <= i /\ 1 <= found
            BY <1>1, <3>1
        <3>9. Cut(s, found, next) \o From(s, next) = From(s, found)
            BY <3>8, <3>11, CutsJoin
        <3>10. Cut(s, i, found) \o From(s, found) = From(s, i)
            <4>1. found <= Len(s) + 1
                BY <1>1, <3>8, <3>11
            <4> QED BY <3>8, <3>11, <4>1, CutsJoin
        <3> QED BY <3>4, <3>5, <3>7, <3>8, <3>9, <3>10
    <2> QED BY <2>3, <2>4
<1>3. \A i \in 1 .. (Len(s) + 1) : i \in T
    <2> HIDE DEF T
    <2> QED BY <1>1, <1>2, Backwards1
<1> QED BY <1>3

\* replace puts the new text between the parts that split would make.
LEMMA ReplaceJoins ==
    ASSUME NEW C, NEW s \in Seq(C), NEW p \in Seq(C), NoNul(p), p # <<>>, NoNul(s), NEW q \in Seq(C)
    PROVE  \A i \in 1 .. (Len(s) + 1) : Joined(SplitFrom(s, p)[i], q) = Replaced(s, p, q)[i]
<1> DEFINE T == {i \in 1 .. (Len(s) + 1) : Joined(SplitFrom(s, p)[i], q) = Replaced(s, p, q)[i]}
<1>1. Len(s) + 1 \in Nat /\ Len(p) \in Nat /\ Len(s) \in Nat
    BY LenProperties
<1>2. ASSUME NEW i \in 1 .. (Len(s) + 1), \A j \in (i + 1) .. (Len(s) + 1) : j \in T PROVE i \in T
    <2>2. CASE strstr(s, i, p) = 0
        <3>1. SplitFrom(s, p)[i] = <<From(s, i)>> /\ From(s, i) \in Seq(C)
              /\ Replaced(s, p, q)[i] = Cut(s, i, CEnd(s, i) + 1)
            BY <2>2, StepEnds
        <3>2. CEnd(s, i) = Len(s)
            BY <1>1, CEndIs
        <3>3. Cut(s, i, CEnd(s, i) + 1) = From(s, i)
            <4>1. (Len(s) + 1) - 1 = Len(s)
                BY <1>1
            <4> QED BY <3>2, <4>1 DEF Cut, From
        <3>4. PICK w \in Seq(C) : w = From(s, i)
            BY <3>1
        <3>5. Joined(<<w>>, q) = w
            BY JoinedOne
        <3> QED BY <3>1, <3>3, <3>4, <3>5
    <2>3. CASE strstr(s, i, p) # 0
        <3>0. PICK found \in Nat, next \in 1 .. (Len(s) + 1), x \in Seq(C) : StepsTo(C, s, p, i, found, next, x)
            BY <2>3, StepGoesOn
        <3>1. /\ next \in (i + 1) .. (Len(s) + 1)
              /\ SplitFrom(s, p)[i] = Prefixed(x, SplitFrom(s, p)[next])
              /\ Replaced(s, p, q)[i] = x \o (q \o Replaced(s, p, q)[next])
            BY <3>0 DEF StepsTo
        <3>2. next \in T
            BY <1>2, <3>1
        <3>3. PICK rest \in Texts(C) : rest = SplitFrom(s, p)[next]
            BY SplitIs DEF Texts
        <3>5. /\ SplitFrom(s, p)[i] = Prefixed(x, rest)
              /\ Replaced(s, p, q)[i] = x \o (q \o Replaced(s, p, q)[next])
            BY <3>1, <3>3
        <3>6. rest # <<>> /\ Joined(rest, q) = Replaced(s, p, q)[next]
            BY <3>2, <3>3, SplitJoins
        <3>4. Joined(Prefixed(x, rest), q) = x \o (q \o Joined(rest, q))
            BY <3>6, JoinedMore
        <3>7. Joined(SplitFrom(s, p)[i], q) = x \o (q \o Joined(rest, q))
            BY <3>4, <3>5
        <3> QED BY <3>5, <3>6, <3>7
    <2> QED BY <2>2, <2>3
<1>3. \A i \in 1 .. (Len(s) + 1) : i \in T
    <2> HIDE DEF T
    <2> QED BY <1>1, <1>2, Backwards1
<1> QED BY <1>3

\* The second loop of replace fills what the first loop has counted, exactly.
LEMMA ReplacedLength ==
    ASSUME NEW C, NEW s \in Seq(C), NEW p \in Seq(C), NoNul(p), p # <<>>, NoNul(s), NEW q \in Seq(C)
    PROVE  \A i \in 1 .. (Len(s) + 1) :
              Len(Replaced(s, p, q)[i])
                  = (Len(s) + 1 - i) + Occurrences(s, p)[i] * (Len(q) - Len(p))
<1> DEFINE T == {i \in 1 .. (Len(s) + 1) :
                    Len(Replaced(s, p, q)[i])
                        = (Len(s) + 1 - i) + Occurrences(s, p)[i] * (Len(q) - Len(p))}
<1>1. Len(s) + 1 \in Nat /\ Len(p) \in Nat /\ Len(s) \in Nat /\ Len(q) \in Nat
    BY LenProperties
<1>2. ASSUME NEW i \in 1 .. (Len(s) + 1), \A j \in (i + 1) .. (Len(s) + 1) : j \in T PROVE i \in T
    <2>3. CASE strstr(s, i, p) = 0
        <3>1. Occurrences(s, p)[i] = 0 /\ Replaced(s, p, q)[i] = Cut(s, i, CEnd(s, i) + 1)
            BY <2>3, StepEnds
        <3>2. CEnd(s, i) = Len(s) /\ (Len(s) + 1) - 1 = Len(s)
            BY <1>1, CEndIs
        <3>3. Replaced(s, p, q)[i] = SubSeq(s, i, Len(s))
            BY <3>1, <3>2 DEF Cut
        <3>4. Len(SubSeq(s, i, Len(s))) = IF i <= Len(s) THEN Len(s) - i + 1 ELSE 0
            BY <1>1, PartIs
        <3> QED BY <1>1, <3>1, <3>3, <3>4
    <2>4. CASE strstr(s, i, p) # 0
        <3>0. PICK found \in Nat, next \in 1 .. (Len(s) + 1), x \in Seq(C) : StepsTo(C, s, p, i, found, next, x)
            BY <2>4, StepGoesOn
        <3>1. /\ i <= found /\ next \in (i + 1) .. (Len(s) + 1)
              /\ next = found + Len(p) /\ Len(x) = found - i
              /\ Occurrences(s, p)[i] = 1 + Occurrences(s, p)[next]
              /\ Replaced(s, p, q)[i] = x \o (q \o Replaced(s, p, q)[next])
            BY <3>0 DEF StepsTo
        <3>2. next \in T
            BY <1>2, <3>1
        <3>4. PICK rest \in Seq(C) : rest = Replaced(s, p, q)[next]
            BY ReplacedIs
        <3>5. PICK n \in Nat : n = Occurrences(s, p)[next]
            BY OccurrencesAre
        <3>6. Replaced(s, p, q)[i] = x \o (q \o rest) /\ Occurrences(s, p)[i] = 1 + n
            BY <3>1, <3>4, <3>5
        <3>7. Len(rest) = (Len(s) + 1 - next) + n * (Len(q) - Len(p))
            BY <3>2, <3>4, <3>5
        <3>8. Len(x \o (q \o rest)) = (found - i) + (Len(q) + Len(rest))
            <4>1. PICK y \in Seq(C) : y = q \o rest /\ Len(y) = Len(q) + Len(rest)
                BY ConcatProperties
            <4>2. Len(x \o y) = Len(x) + Len(y)
                BY ConcatProperties
            <4> QED BY <3>1, <4>1, <4>2
        <3>9. PICK d \in Int : d = Len(q) - Len(p)
            <4>1. Len(q) - Len(p) \in Int
                BY <1>1
            <4> QED BY <4>1
        <3>10. (1 + n) * d = d + n * d /\ n * d \in Int
            OBVIOUS
        <3>11. PICK r \in Int : r = n * d
            BY <3>10
        <3>12. Len(rest) = (Len(s) + 1 - next) + r
            BY <3>7, <3>9, <3>11
        <3>13. (found - i) + (Len(q) + ((Len(s) + 1 - next) + r)) = (Len(s) + 1 - i) + (d + r)
            BY <1>1, <3>1, <3>9
        <3> QED BY <3>6, <3>8, <3>9, <3>10, <3>11, <3>12, <3>13
    <2> QED BY <2>3, <2>4
<1>3. \A i \in 1 .. (Len(s) + 1) : i \in T
    <2> HIDE DEF T
    <2> QED BY <1>1, <1>2, Backwards1
<1> QED BY <1>3

-----------------------------------------------------------------------------
(* The laws of strings.                                                    *)

LEMMA FunctionIsText ==
    ASSUME NEW C, NEW n \in Nat, NEW f \in [1 .. n -> C]
    PROVE  f \in Seq(C) /\ Len(f) = n /\ DOMAIN f = 1 .. n
OBVIOUS

LEMMA NoNulIn ==
    ASSUME NEW C, NEW s \in Seq(C), NEW p \in Seq(C), NoNul(s \o p)
    PROVE  NoNul(s) /\ NoNul(p)
<1>1. PICK m \in Nat, n \in Nat : m = Len(s) /\ n = Len(p)
    BY LenProperties
<1>2. PICK t \in Seq(C) : /\ t = s \o p /\ Len(t) = m + n
                          /\ \A i \in 1 .. m + n : t[i] = IF i <= m THEN s[i] ELSE p[i - m]
    <2>1. /\ s \o p \in Seq(C) /\ Len(s \o p) = Len(s) + Len(p)
          /\ \A i \in 1 .. Len(s) + Len(p) : (s \o p)[i] = IF i <= Len(s) THEN s[i] ELSE p[i - Len(s)]
        BY ConcatProperties
    <2> QED BY <1>1, <2>1
<1>3. \A i \in 1 .. m + n : t[i] # NUL
    BY <1>2, LenProperties DEF NoNul, Range
<1>4. \A i \in 1 .. m : s[i] # NUL
    <2> TAKE i \in 1 .. m
    <2>1. i \in 1 .. m + n /\ i <= m
        OBVIOUS
    <2> QED BY <1>2, <1>3, <2>1
<1>5. \A i \in 1 .. n : p[i] # NUL
    <2> TAKE i \in 1 .. n
    <2>1. i + m \in 1 .. m + n /\ ~(i + m <= m) /\ (i + m) - m = i
        OBVIOUS
    <2> QED BY <1>2, <1>3, <2>1
<1> QED BY <1>1, <1>4, <1>5, LenProperties DEF NoNul, Range

\* Split and join: no text is lost, and none is made up (vm.c).
THEOREM SplitThenJoin ==
    ASSUME NEW C, NEW s \in Seq(C), NEW p \in Seq(C), NoNul(p), p # <<>>
    PROVE  Joined(string_split_method(s, p), p) = s
<1>1. 1 \in 1 .. (Len(s) + 1)
    BY LenProperties
<1>2. Joined(SplitFrom(s, p)[1], p) = From(s, 1)
    BY <1>1, SplitJoins
<1>3. From(s, 1) = s
    BY SubSeqFull DEF From
<1> QED BY <1>2, <1>3 DEF string_split_method

\* Replacing is splitting and joining with the new text, also when nothing is
\* found and the loops of replace are left out.
THEOREM ReplaceIsSplitAndJoin ==
    ASSUME NEW C, NEW s \in Seq(C), NEW p \in Seq(C), NEW q \in Seq(C),
           NoNul(s), NoNul(p), p # <<>>
    PROVE  string_replace_method(s, p, q) = Joined(string_split_method(s, p), q)
<1>1. 1 \in 1 .. (Len(s) + 1)
    BY LenProperties
<1>2. From(s, 1) = s
    BY SubSeqFull DEF From
<1>3. CASE Occurrences(s, p)[1] = 0
    <2>1. strstr(s, 1, p) = 0
        <3>1. strstr(s, 1, p) # 0 => Occurrences(s, p)[1] = 1 + Occurrences(s, p)[strstr(s, 1, p) + Len(p)]
            BY <1>1, OccurrencesAre
        <3>2. strstr(s, 1, p) # 0 => Occurrences(s, p)[strstr(s, 1, p) + Len(p)] \in Nat
            <4>1. 1 \in 1 .. (Len(s) + Len(p) + 1)
                BY LenProperties
            <4>2. strstr(s, 1, p) # 0 => strstr(s, 1, p) + Len(p) \in (1 + 1) .. (Len(s) + 1)
                BY <4>1, StrstrJumps
            <4>3. strstr(s, 1, p) # 0 => strstr(s, 1, p) + Len(p) \in 1 .. (Len(s) + 1)
                BY <4>2, LenProperties
            <4> QED BY <4>3, OccurrencesAre
        <3> QED BY <1>3, <3>1, <3>2
    <2>2. SplitFrom(s, p)[1] = <<s>>
        BY <1>1, <1>2, <2>1, StepEnds
    <2>3. Joined(<<s>>, q) = s
        BY JoinedOne
    <2> QED BY <1>3, <2>2, <2>3 DEF string_replace_method, string_split_method
<1>4. CASE Occurrences(s, p)[1] # 0
    <2>1. Joined(SplitFrom(s, p)[1], q) = Replaced(s, p, q)[1]
        BY <1>1, ReplaceJoins
    <2> QED BY <1>4, <2>1 DEF string_replace_method, string_split_method
<1> QED BY <1>3, <1>4

\* The second loop of replace fills the buffer that the first one has sized,
\* to its last byte and no further.
THEOREM ReplaceFillsItsBuffer ==
    ASSUME NEW C, NEW s \in Seq(C), NEW p \in Seq(C), NEW q \in Seq(C),
           NoNul(s), NoNul(p), p # <<>>
    PROVE  Len(string_replace_method(s, p, q)) = NewLength(s, p, q)
<1>1. 1 \in 1 .. (Len(s) + 1) /\ Len(s) \in Nat /\ Len(p) \in Nat /\ Len(q) \in Nat
    BY LenProperties
<1>2. PICK n \in Nat : n = Occurrences(s, p)[1]
    BY <1>1, OccurrencesAre
<1>3. PICK d \in Int : d = Len(q) - Len(p)
    <2>1. Len(q) - Len(p) \in Int
        BY <1>1
    <2> QED BY <2>1
<1>4. Len(Replaced(s, p, q)[1]) = (Len(s) + 1 - 1) + Occurrences(s, p)[1] * (Len(q) - Len(p))
    BY <1>1, ReplacedLength
<1>5. NewLength(s, p, q) = Len(s) + n * d
    BY <1>2, <1>3 DEF NewLength
<1>6. Len(Replaced(s, p, q)[1]) = Len(s) + n * d
    <2>1. n * d \in Int
        OBVIOUS
    <2>2. Len(s) + 1 - 1 = Len(s)
        BY <1>1
    <2> QED BY <1>2, <1>3, <1>4, <2>2
<1>7. CASE n = 0
    <2>1. 0 * d = 0
        OBVIOUS
    <2> QED BY <1>1, <1>2, <1>5, <1>7, <2>1 DEF string_replace_method
<1>8. CASE n # 0
    BY <1>2, <1>5, <1>6, <1>8 DEF string_replace_method
<1> QED BY <1>7, <1>8

\* Where there is nothing to find, it is found at once.
LEMMA EmptyIsFound ==
    ASSUME NEW C, NEW s \in Seq(C), NoNul(s)
    PROVE  strstr(s, 1, <<>>) = 1
<1>1. PICK n \in Nat : n = Len(s)
    BY LenProperties
<1>2. CEnd(s, 1) = n
    BY <1>1, CEndIs
<1>3. CString(<<>>) = <<>>
    <2>1. \A C1 : <<>> \in Seq(C1)
        BY EmptySeq
    <2>2. NoNul(<<>>)
        BY DEF NoNul, Range
    <2> QED BY <2>1, <2>2, CStringIs
<1>4. PICK p \in Seq(C) : p = <<>> /\ Len(p) = 0
    BY EmptySeq
<1>5. PICK found : found = Search(p, s, 1, n)
    OBVIOUS
<1>6. strstr(s, 1, <<>>) = found
    BY <1>2, <1>3, <1>4, <1>5 DEF strstr
<1>7. IsAt(p, s, 1)
    <2>1. SubSeq(s, 1, 1 + 0 - 1) = <<>>
        <3>1. 1 + 0 - 1 < 1 /\ 1 + 0 - 1 \in Int
            OBVIOUS
        <3> QED BY <3>1, SubSeqEmpty
    <2> QED BY <1>1, <1>4, <2>1 DEF IsAt
<1>8. /\ found \in Nat
      /\ found = 0 => \A i \in 1 .. (n + 1 - Len(p)) : ~IsAt(p, s, i)
      /\ found # 0 => /\ found \in 1 .. (n + 1 - Len(p)) /\ IsAt(p, s, found)
                      /\ \A i \in 1 .. (found - 1) : ~IsAt(p, s, i)
    <2>1. PICK one \in Nat : one = 1
        OBVIOUS
    <2>2. found = Search(p, s, one, n) /\ one # 0
        BY <1>5, <2>1
    <2>3. /\ found \in Nat
          /\ found = 0 => \A i \in one .. (n + 1 - Len(p)) : ~IsAt(p, s, i)
          /\ found # 0 => /\ found \in one .. (n + 1 - Len(p)) /\ IsAt(p, s, found)
                          /\ \A i \in one .. (found - 1) : ~IsAt(p, s, i)
        BY <2>2, SearchIs
    <2> QED BY <2>1, <2>3
<1>9. 1 \in 1 .. (n + 1 - Len(p))
    BY <1>4
<1>10. found # 0
    BY <1>7, <1>8, <1>9
<1>11. ASSUME found > 1 PROVE FALSE
    <2>1. 1 \in 1 .. (found - 1)
        BY <1>8, <1>11
    <2> QED BY <1>7, <1>8, <1>10, <2>1
<1> QED BY <1>6, <1>8, <1>10, <1>11

\* contains and index_of tell the same.
LEMMA ContainsIs ==
    ASSUME NEW C, NEW s \in Seq(C), NEW p \in Seq(C), NoNul(s), NoNul(p)
    PROVE  /\ strstr(s, 1, p) \in Nat
           /\ string_contains_method(s, p) <=> strstr(s, 1, p) # 0
           /\ string_contains_method(s, p) <=> string_index_of_method(s, p) >= 0
<1>1. CASE p = <<>>
    <2>1. strstr(s, 1, p) = 1
        BY <1>1, EmptyIsFound
    <2> QED BY <1>1, <2>1 DEF string_contains_method, string_index_of_method
<1>2. CASE p # <<>>
    <2>1. PICK found \in Nat : found = strstr(s, 1, p)
        BY <1>2, StrstrIs
    <2>2. found # 0 => 1 <= found /\ found + Len(p) <= Len(s) + 1
        BY <1>2, <2>1, StrstrIs
    <2>3. Len(p) \in Nat /\ Len(s) \in Nat
        BY LenProperties
    <2>4. found # 0 => Len(p) <= Len(s)
        BY <2>2, <2>3
    <2>5. string_contains_method(s, p) <=> found # 0
        BY <1>2, <2>1, <2>4 DEF string_contains_method
    <2>6. found # 0 <=> found - 1 >= 0
        OBVIOUS
    <2> QED BY <2>1, <2>5, <2>6 DEF string_index_of_method
<1> QED BY <1>1, <1>2

\* A part of a part is a part.
LEMMA PartOfPart ==
    ASSUME NEW C, NEW s \in Seq(C), NEW e \in Nat, e <= Len(s), NEW t \in Seq(C),
           t = SubSeq(s, 1, e), NEW p \in Seq(C), NEW j \in Nat, j # 0, IsAt(p, t, j)
    PROVE  IsAt(p, s, j)
<1>1. PICK n \in Nat, m \in Nat : n = Len(s) /\ m = Len(p)
    BY LenProperties
<1>2. Len(t) = e /\ \A k \in 1 .. e : t[k] = s[k]
    <2>1. /\ Len(t) = IF 1 <= e THEN e - 1 + 1 ELSE 0
          /\ \A k \in 1 .. (e - 1 + 1) : t[k] = s[1 + k - 1]
        BY PartIs
    <2>2. (IF 1 <= e THEN e - 1 + 1 ELSE 0) = e /\ e - 1 + 1 = e
        OBVIOUS
    <2>3. \A k \in 1 .. e : 1 + k - 1 = k
        OBVIOUS
    <2> QED BY <2>1, <2>2, <2>3
<1>3. PICK last \in Int : last = j + m - 1
    OBVIOUS
<1>4. last <= e /\ SubSeq(t, j, last) = p
    BY <1>1, <1>2, <1>3 DEF IsAt
<1>5. \A k \in 1 .. (last - j + 1) : SubSeq(t, j, last)[k] = t[j + k - 1]
    BY <1>2, <1>4, PartIs
<1>6. /\ SubSeq(s, j, last) \in Seq(C)
      /\ Len(SubSeq(s, j, last)) = IF j <= last THEN last - j + 1 ELSE 0
      /\ \A k \in 1 .. (last - j + 1) : SubSeq(s, j, last)[k] = s[j + k - 1]
    <2>1. last <= Len(s)
        BY <1>1, <1>4
    <2> QED BY <2>1, PartIs, SMTT(30)
<1>7. PICK u \in Seq(C) : u = SubSeq(s, j, last) /\ Len(u) = m
    <2>1. (IF j <= last THEN last - j + 1 ELSE 0) = m
        BY <1>3
    <2> QED BY <1>6, <2>1
<1>8. ASSUME NEW k \in 1 .. m PROVE u[k] = p[k]
    <2>1. k \in 1 .. (last - j + 1) /\ j + k - 1 \in 1 .. e
        BY <1>3, <1>4
    <2> QED BY <1>2, <1>4, <1>5, <1>6, <1>7, <2>1
<1>9. u = p
    BY <1>1, <1>7, <1>8, SeqEqual
<1>10. j + Len(p) - 1 = last /\ last <= Len(s)
    BY <1>1, <1>3, <1>4
<1> QED BY <1>7, <1>9, <1>10 DEF IsAt

\* What index_of says is where the text is first found (vm.c).
THEOREM IndexIsFirst ==
    ASSUME NEW C, NEW s \in Seq(C), NEW p \in Seq(C), NoNul(s), NoNul(p),
           string_contains_method(s, p), NEW i, i = string_index_of_method(s, p)
    PROVE  /\ string_starts_with_method(string_slice_method(s, i, Len(s)), p)
           /\ ~string_contains_method(string_slice_method(s, 0, i + Len(p) - 1), p) \/ p = <<>>
<1>1. PICK n \in Nat, m \in Nat : n = Len(s) /\ m = Len(p)
    BY LenProperties
<1>2. PICK found \in Nat : found = strstr(s, 1, p) /\ found # 0 /\ i = found - 1
    BY ContainsIs DEF string_index_of_method
<1>3. CASE p = <<>>
    <2>1. m = 0
        BY <1>1, <1>3, EmptySeq
    <2>2. found = 1 /\ i = 0
        BY <1>2, <1>3, EmptyIsFound
    <2>3. string_slice_method(s, i, n) \in Seq(C)
        <3>1. Lowest(n, i) = 0 /\ Highest(n, n) = n
            BY <2>2 DEF Lowest, Highest, Backwards
        <3>2. string_slice_method(s, i, n) = IF 0 >= n THEN <<>> ELSE SubSeq(s, 0 + 1, n)
            BY <1>1, <3>1 DEF string_slice_method
        <3>3. SubSeq(s, 1, n) \in Seq(C) /\ 0 + 1 = 1
            BY <1>1, PartIs
        <3> QED BY <3>2, <3>3, EmptySeq
    <2>4. PICK t \in Seq(C) : t = string_slice_method(s, i, n) /\ Len(t) \in Nat
        BY <2>3, LenProperties
    <2>5. Cut(t, 1, 0 + 1) = <<>>
        <3>1. 0 + 1 - 1 < 1 /\ 0 + 1 - 1 \in Int
            OBVIOUS
        <3> QED BY <3>1, SubSeqEmpty DEF Cut
    <2>6. string_starts_with_method(t, p)
        BY <1>1, <1>3, <2>1, <2>4, <2>5 DEF string_starts_with_method
    <2> QED BY <1>1, <1>3, <2>4, <2>6
<1>4. CASE p # <<>>
    <2>1. /\ IsAt(p, s, found) /\ found + m <= n + 1 /\ m > 0
          /\ \A j \in 1 .. (found - 1) : ~IsAt(p, s, j)
        BY <1>1, <1>2, <1>4, StrstrIs
    <2>2. PICK t \in Seq(C) : /\ t = string_slice_method(s, i, n) /\ t = SubSeq(s, found, n)
                              /\ Len(t) = n - found + 1
        <3>1. Lowest(n, i) = found - 1 /\ Highest(n, n) = n /\ ~(found - 1 >= n) /\ (found - 1) + 1 = found
            BY <1>2, <2>1 DEF Lowest, Highest, Backwards
        <3>2. string_slice_method(s, i, n) = SubSeq(s, found, n)
            BY <1>1, <3>1 DEF string_slice_method
        <3>3. SubSeq(s, found, n) \in Seq(C)
              /\ Len(SubSeq(s, found, n)) = IF found <= n THEN n - found + 1 ELSE 0
            BY <1>1, <1>2, PartIs
        <3>4. found <= n
            BY <2>1
        <3> QED BY <3>2, <3>3, <3>4
    <2>3. string_starts_with_method(t, p)
        <3>1. Len(p) <= Len(t)
            BY <1>1, <2>1, <2>2
        <3>2. Cut(t, 1, Len(p) + 1) = p
            <4>1. Cut(t, 1, Len(p) + 1) = SubSeq(t, 1, m)
                <5>1. (m + 1) - 1 = m
                    OBVIOUS
                <5> QED BY <1>1, <5>1 DEF Cut
            <4>2. SubSeq(s, found, found + m - 1) = p
                BY <1>1, <2>1 DEF IsAt
            <4>3. SubSeq(SubSeq(s, found, n), 1, m) = SubSeq(s, found + 1 - 1, found + m - 1)
                <5>1. found \in 1 .. n /\ n \in 1 .. n /\ 1 \in 1 .. n - found + 1 /\ m \in 1 .. n - found + 1
                    BY <1>2, <2>1
                <5> QED BY <1>1, <5>1, SubSeqOfSubSeq
            <4>4. found + 1 - 1 = found
                OBVIOUS
            <4> QED BY <2>2, <4>1, <4>2, <4>3, <4>4
        <3> QED BY <3>1, <3>2 DEF string_starts_with_method
    <2>4. PICK e \in Nat : e = i + m - 1 /\ e <= n /\ e < found + m - 1
        BY <1>2, <2>1, SMTT(30)
    <2>5. PICK u \in Seq(C) : u = string_slice_method(s, 0, e) /\ u = SubSeq(s, 1, e) /\ Len(u) = e
        <3>1. Lowest(n, 0) = 0 /\ Highest(n, e) = e /\ 0 + 1 = 1
            BY <2>4 DEF Lowest, Highest, Backwards
        <3>2. string_slice_method(s, 0, e) = IF 0 >= e THEN <<>> ELSE SubSeq(s, 1, e)
            BY <1>1, <3>1 DEF string_slice_method
        <3>3. 0 >= e => SubSeq(s, 1, e) = <<>>
            BY <2>4, SubSeqEmpty
        <3>4. SubSeq(s, 1, e) \in Seq(C) /\ Len(SubSeq(s, 1, e)) = IF 1 <= e THEN e - 1 + 1 ELSE 0
            BY <1>1, <2>4, PartIs
        <3>5. (IF 1 <= e THEN e - 1 + 1 ELSE 0) = e
            OBVIOUS
        <3> QED BY <3>2, <3>3, <3>4, <3>5
    <2>6. ASSUME string_contains_method(u, p) PROVE FALSE
        <3>1. PICK j : j = strstr(u, 1, p) /\ j # 0
            BY <1>4, <2>6 DEF string_contains_method
        <3>2. j \in Nat /\ IsAt(p, u, j) /\ j + m <= e + 1
            <4>1. j \in Nat /\ IsAt(p, u, j) /\ j + Len(p) <= Len(u) + 1
                BY <1>4, <3>1, StrstrIs
            <4> QED BY <1>1, <2>5, <4>1
        <3>3. IsAt(p, s, j)
            <4>1. e <= Len(s)
                BY <1>1, <2>4
            <4> QED BY <2>5, <3>1, <3>2, <4>1, PartOfPart
        <3>4. j \in 1 .. (found - 1)
            <4>1. j \in Nat /\ j + m <= e + 1 /\ j # 0 /\ e < found + m - 1
                BY <2>4, <3>1, <3>2
            <4> QED BY <4>1
        <3> QED BY <2>1, <3>3, <3>4
    <2> QED BY <1>1, <2>2, <2>3, <2>4, <2>5, <2>6
<1> QED BY <1>3, <1>4

LEMMA ReverseIs ==
    ASSUME NEW C, NEW s \in Seq(C)
    PROVE  /\ Reverse(s) \in Seq(C) /\ Len(Reverse(s)) = Len(s)
           /\ \A i \in 1 .. Len(s) : Reverse(s)[i] = s[Len(s) - i + 1]
<1>0. PICK n \in Nat : n = Len(s)
    BY LenProperties
<1>1. PICK f : f = [i \in 1 .. n |-> s[(n - i) + 1]]
    OBVIOUS
<1>2. f \in [1 .. n -> C]
    <2>1. \A i \in 1 .. n : (n - i) + 1 \in 1 .. n
        OBVIOUS
    <2>2. \A i \in 1 .. n : s[i] \in C
        BY <1>0, LenProperties
    <2> QED BY <1>1, <2>1, <2>2
<1>3. Reverse(s) = f
    BY <1>0, <1>1 DEF Reverse
<1>4. f \in Seq(C) /\ Len(f) = n
    BY <1>2, FunctionIsText
<1> QED BY <1>0, <1>1, <1>3, <1>4

\* When a part is a given text.
LEMMA PartEquals ==
    ASSUME NEW C, NEW s \in Seq(C), NEW p \in Seq(C), NEW i \in Int, NEW j \in Int,
           1 <= i, j <= Len(s), NEW m \in Nat, m = Len(p), m = j - i + 1
    PROVE  SubSeq(s, i, j) = p <=> \A k \in 1 .. m : s[i + k - 1] = p[k]
<1>1. PICK t \in Seq(C) : t = SubSeq(s, i, j) /\ Len(t) = m /\ \A k \in 1 .. m : t[k] = s[i + k - 1]
    <2>1. /\ SubSeq(s, i, j) \in Seq(C)
          /\ Len(SubSeq(s, i, j)) = IF i <= j THEN j - i + 1 ELSE 0
          /\ \A k \in 1 .. (j - i + 1) : SubSeq(s, i, j)[k] = s[i + k - 1]
        BY PartIs
    <2>2. (IF i <= j THEN j - i + 1 ELSE 0) = m
        OBVIOUS
    <2> QED BY <2>1, <2>2
<1>2. (\A k \in 1 .. m : t[k] = p[k]) => t = p
    BY <1>1, SeqEqual
<1> QED BY <1>1, <1>2

LEMMA StartsIs ==
    ASSUME NEW C, NEW s \in Seq(C), NEW p \in Seq(C)
    PROVE  string_starts_with_method(s, p) <=>
              Len(p) <= Len(s) /\ \A k \in 1 .. Len(p) : s[k] = p[k]
<1>0. PICK n \in Nat, m \in Nat : n = Len(s) /\ m = Len(p)
    BY LenProperties
<1>1. ASSUME m <= n PROVE Cut(s, 1, m + 1) = p <=> \A k \in 1 .. m : s[k] = p[k]
    <2>1. m + 1 - 1 = m /\ m = m - 1 + 1 /\ \A k \in 1 .. m : 1 + k - 1 = k
        OBVIOUS
    <2>2. SubSeq(s, 1, m) = p <=> \A k \in 1 .. m : s[1 + k - 1] = p[k]
        BY <1>0, <1>1, <2>1, PartEquals
    <2>3. Cut(s, 1, m + 1) = SubSeq(s, 1, m)
        BY <2>1 DEF Cut
    <2> QED BY <2>1, <2>2, <2>3
<1> QED BY <1>0, <1>1 DEF string_starts_with_method

LEMMA EndsIs ==
    ASSUME NEW C, NEW s \in Seq(C), NEW p \in Seq(C)
    PROVE  string_ends_with_method(s, p) <=>
              Len(p) <= Len(s) /\ \A k \in 1 .. Len(p) : s[Len(s) - Len(p) + k] = p[k]
<1>0. PICK n \in Nat, m \in Nat : n = Len(s) /\ m = Len(p)
    BY LenProperties
<1>1. ASSUME m <= n PROVE From(s, n - m + 1) = p <=> \A k \in 1 .. m : s[n - m + k] = p[k]
    <2>0. PICK i \in Nat : i = n - m + 1
        BY <1>1
    <2>1. 1 <= i /\ m = n - i + 1 /\ \A k \in 1 .. m : i + k - 1 = n - m + k
        BY <1>1, <2>0
    <2>4. n \in Int /\ i \in Int /\ n <= Len(s)
        BY <1>0
    <2>2. SubSeq(s, i, n) = p <=> \A k \in 1 .. m : s[i + k - 1] = p[k]
        <3>1. 1 <= i /\ m = n - i + 1 /\ m = Len(p)
            BY <1>0, <2>1
        <3> QED BY <2>4, <3>1, PartEquals
    <2>3. From(s, n - m + 1) = SubSeq(s, i, n)
        BY <1>0, <2>0 DEF From
    <2> QED BY <2>1, <2>2, <2>3
<1> QED BY <1>0, <1>1 DEF string_ends_with_method

\* A text starts like another one when they end alike backwards.
LEMMA StartsEnds ==
    ASSUME NEW C, NEW s \in Seq(C), NEW p \in Seq(C)
    PROVE  string_starts_with_method(s, p) <=> string_ends_with_method(reverse(s), reverse(p))
<1>1. PICK n \in Nat, m \in Nat : n = Len(s) /\ m = Len(p)
    BY LenProperties
<1>2. PICK t \in Seq(C) : t = reverse(s) /\ Len(t) = n /\ \A i \in 1 .. n : t[i] = s[n - i + 1]
    BY <1>1, ReverseIs DEF reverse
<1>3. PICK q \in Seq(C) : q = reverse(p) /\ Len(q) = m /\ \A i \in 1 .. m : q[i] = p[m - i + 1]
    BY <1>1, ReverseIs DEF reverse
<1>4. string_starts_with_method(s, p) <=> m <= n /\ \A k \in 1 .. m : s[k] = p[k]
    BY <1>1, StartsIs
<1>5. string_ends_with_method(t, q) <=> m <= n /\ \A k \in 1 .. m : t[n - m + k] = q[k]
    <2>1. string_ends_with_method(t, q) <=>
              Len(q) <= Len(t) /\ \A k \in 1 .. Len(q) : t[Len(t) - Len(q) + k] = q[k]
        BY EndsIs
    <2> QED BY <1>2, <1>3, <2>1
<1>6. ASSUME m <= n PROVE (\A k \in 1 .. m : t[n - m + k] = q[k]) <=> \A k \in 1 .. m : s[k] = p[k]
    <2>1. \A k \in 1 .. m : /\ m - k + 1 \in 1 .. m /\ n - m + k \in 1 .. n
                            /\ n - (n - m + k) + 1 = m - k + 1 /\ m - (m - k + 1) + 1 = k
        BY <1>6
    <2>2. ASSUME NEW k \in 1 .. m PROVE t[n - m + k] = s[m - k + 1] /\ q[k] = p[m - k + 1]
        <3>1. n - m + k \in 1 .. n /\ n - (n - m + k) + 1 = m - k + 1
            BY <2>1
        <3> QED BY <1>2, <1>3, <3>1
    <2>3. ASSUME \A k \in 1 .. m : t[n - m + k] = q[k] PROVE \A k \in 1 .. m : s[k] = p[k]
        <3> TAKE k \in 1 .. m
        <3>1. PICK l \in 1 .. m : l = m - k + 1 /\ m - l + 1 = k
            BY <2>1
        <3>2. t[n - m + l] = q[l] /\ t[n - m + l] = s[m - l + 1] /\ q[l] = p[m - l + 1]
            BY <2>2, <2>3
        <3> QED BY <3>1, <3>2
    <2> QED BY <2>1, <2>2, <2>3, ZenonT(40)
<1> QED BY <1>2, <1>3, <1>4, <1>5, <1>6

LEMMA SkipIs ==
    ASSUME NEW C, NEW s \in Seq(C), NEW i \in Nat, i # 0, NEW D, NEW u, u = Skip(s, i, D)
    PROVE  /\ u \in Nat /\ i <= u /\ u <= EndOf(s, i)
           /\ \A j \in i .. (u - 1) : j <= Len(s) /\ s[j] \in D
           /\ u <= Len(s) => s[u] \notin D
<1>1. PICK S : S = {j \in i .. Len(s) : s[j] \notin D}
    OBVIOUS
<1>2. S \in SUBSET Nat /\ EndOf(s, i) \in Nat /\ i <= EndOf(s, i) /\ Len(s) < EndOf(s, i)
    BY <1>1, LenProperties DEF EndOf
<1>3. u = FirstOf(S, EndOf(s, i))
    BY <1>1 DEF Skip
<1>4. CASE S = {}
    <2>1. u = EndOf(s, i)
        BY <1>2, <1>3, <1>4, FirstOfIs
    <2>2. \A j \in i .. (u - 1) : j \in i .. Len(s)
        BY <2>1, LenProperties DEF EndOf
    <2> QED BY <1>1, <1>2, <1>4, <2>1, <2>2
<1>5. CASE S # {}
    <2>1. u \in S /\ \A m \in S : u <= m
        BY <1>2, <1>3, <1>5, FirstOfIs
    <2>2. u \in Nat /\ u \in i .. Len(s) /\ s[u] \notin D
        BY <1>1, <2>1
    <2>3. ASSUME NEW j \in i .. (u - 1) PROVE j <= Len(s) /\ s[j] \in D
        <3>1. j \in i .. Len(s) /\ ~(u <= j)
            BY <2>2, LenProperties
        <3> QED BY <1>1, <2>1, <3>1
    <2> QED BY <1>2, <2>2, <2>3
<1> QED BY <1>4, <1>5

\* What trim leaves is empty, or begins and ends with something else than space.
Trimmed(t) == t = <<>> \/ (t[1] \notin Space /\ t[Len(t)] \notin Space)

LEMMA TrimIs ==
    ASSUME NEW C, NEW s \in Seq(C)
    PROVE  /\ trim(s) \in Seq(C) /\ Trimmed(trim(s))
           /\ Trimmed(s) => trim(s) = s
<1>1. PICK n \in Nat : n = Len(s)
    BY LenProperties
<1>2. PICK start \in Nat : start = Skip(s, 1, Space)
    <2>1. PICK one \in Nat : one = 1
        OBVIOUS
    <2>2. Skip(s, one, Space) \in Nat
        BY <2>1, SkipIs
    <2> QED BY <2>1, <2>2
<1>3. /\ 1 <= start /\ start <= n + 1 /\ (start <= n => s[start] \notin Space)
      /\ \A j \in 1 .. (start - 1) : s[j] \in Space
    <2>1. PICK one \in Nat : one = 1 /\ one # 0 /\ start = Skip(s, one, Space)
        BY <1>2
    <2>2. /\ one <= start /\ start <= EndOf(s, one)
          /\ \A j \in one .. (start - 1) : j <= Len(s) /\ s[j] \in Space
          /\ start <= Len(s) => s[start] \notin Space
        BY <2>1, SkipIs
    <2>3. EndOf(s, one) = n + 1
        BY <1>1, <2>1 DEF EndOf
    <2> QED BY <1>1, <2>1, <2>2, <2>3
<1>4. PICK l \in Nat : l = n + 1 - start
    BY <1>3
<1>5. PICK f \in Seq(C) : f = From(s, start) /\ Len(f) = l /\ \A k \in 1 .. l : f[k] = s[start + k - 1]
    <2>1. /\ SubSeq(s, start, n) \in Seq(C)
          /\ Len(SubSeq(s, start, n)) = IF start <= n THEN n - start + 1 ELSE 0
          /\ \A k \in 1 .. (n - start + 1) : SubSeq(s, start, n)[k] = s[start + k - 1]
        BY <1>1, <1>3, PartIs
    <2>2. (IF start <= n THEN n - start + 1 ELSE 0) = l /\ n - start + 1 = l
        BY <1>3, <1>4
    <2>3. From(s, start) = SubSeq(s, start, n)
        BY <1>1 DEF From
    <2> QED BY <2>1, <2>2, <2>3
<1>6. PICK r \in Seq(C) : r = Reverse(f) /\ Len(r) = l /\ \A k \in 1 .. l : r[k] = f[l - k + 1]
    BY <1>5, ReverseIs, SMTT(20)
<1>7. \A k \in 1 .. l : r[k] = s[n + 1 - k]
    <2> TAKE k \in 1 .. l
    <2>1. l - k + 1 \in 1 .. l /\ start + (l - k + 1) - 1 = n + 1 - k
        BY <1>4
    <2> QED BY <1>5, <1>6, <2>1
<1>8. PICK end \in Nat : end = Skip(r, 1, Space)
    <2>1. PICK one \in Nat : one = 1
        OBVIOUS
    <2>2. Skip(r, one, Space) \in Nat
        BY <2>1, SkipIs
    <2> QED BY <2>1, <2>2
<1>9. /\ 1 <= end /\ end <= l + 1 /\ (end <= l => r[end] \notin Space)
      /\ \A j \in 1 .. (end - 1) : r[j] \in Space
    <2>1. PICK one \in Nat : one = 1 /\ one # 0 /\ end = Skip(r, one, Space)
        BY <1>8
    <2>2. /\ one <= end /\ end <= EndOf(r, one)
          /\ \A j \in one .. (end - 1) : j <= Len(r) /\ r[j] \in Space
          /\ end <= Len(r) => r[end] \notin Space
        BY <2>1, SkipIs
    <2>3. EndOf(r, one) = l + 1
        BY <1>6, <2>1 DEF EndOf
    <2> QED BY <1>6, <2>1, <2>2, <2>3
<1>10. PICK last \in Nat : last = n + 1 - end /\ last <= n /\ start <= last + 1
    <2>1. n + 1 - end >= start - 1
        BY <1>4, <1>9
    <2> QED BY <1>3, <1>9, <2>1
<1>11. trim(s) = SubSeq(s, start, last)
    <2>1. trim(s) = Cut(s, start, Len(s) + 2 - Skip(Reverse(From(s, start)), 1, Space))
        BY <1>2 DEF trim
    <2>2. (n + 2 - end) - 1 = last
        BY <1>10
    <2>3. trim(s) = Cut(s, start, n + 2 - end)
        BY <1>1, <1>5, <1>6, <1>8, <2>1
    <2> QED BY <2>2, <2>3 DEF Cut
<1>12. PICK t \in Seq(C) : /\ t = trim(s) /\ Len(t) = last - start + 1
                           /\ \A k \in 1 .. (last - start + 1) : t[k] = s[start + k - 1]
    <2>1. /\ SubSeq(s, start, last) \in Seq(C)
          /\ Len(SubSeq(s, start, last)) = IF start <= last THEN last - start + 1 ELSE 0
          /\ \A k \in 1 .. (last - start + 1) : SubSeq(s, start, last)[k] = s[start + k - 1]
        BY <1>1, <1>3, <1>10, PartIs
    <2>2. (IF start <= last THEN last - start + 1 ELSE 0) = last - start + 1
        BY <1>10
    <2> QED BY <1>11, <2>1, <2>2
<1>13. Trimmed(t)
    <2>1. CASE start > n
        <3>1. start = n + 1 /\ l = 0
            BY <1>3, <1>4, <2>1
        <3>2. end = 1
            BY <1>9, <3>1
        <3>3. last = n
            BY <1>10, <3>2
        <3>4. Len(t) = 0
            BY <1>12, <3>1, <3>3
        <3> QED BY <3>4, EmptySeq DEF Trimmed
    <2>2. CASE start <= n
        <3>1. end <= l
            <4>1. ASSUME ~(end <= l) PROVE FALSE
                <5>1. l \in 1 .. (end - 1) /\ l \in 1 .. l
                    BY <1>3, <1>4, <1>9, <2>2, <4>1
                <5>2. r[l] \in Space /\ r[l] = s[n + 1 - l] /\ n + 1 - l = start
                    BY <1>4, <1>7, <1>9, <5>1
                <5> QED BY <1>3, <2>2, <5>2
            <4> QED BY <4>1
        <3>2. PICK m \in Nat : m = last - start + 1 /\ 1 <= m /\ start + m - 1 = last /\ start + 1 - 1 = start
            BY <1>4, <1>10, <3>1
        <3>3. 1 \in 1 .. m /\ m \in 1 .. m
            BY <3>2
        <3>4. t[1] = s[start] /\ t[m] = s[last] /\ Len(t) = m
            BY <1>12, <3>2, <3>3
        <3>5. end \in 1 .. l /\ s[last] = r[end]
            BY <1>7, <1>9, <1>10, <3>1
        <3> QED BY <1>3, <1>9, <2>2, <3>1, <3>4, <3>5 DEF Trimmed
    <2> QED BY <2>1, <2>2
<1>14. ASSUME Trimmed(s) PROVE trim(s) = s
    <2>1. CASE n = 0
        <3>1. start = 1 /\ l = 0
            BY <1>3, <1>4, <2>1
        <3>2. end = 1
            BY <1>9, <3>1
        <3>3. last = 0
            BY <1>10, <2>1, <3>2
        <3>4. Len(t) = 0
            BY <1>12, <3>1, <3>3
        <3> QED BY <1>1, <1>12, <2>1, <3>4, EmptySeq
    <2>2. CASE n # 0
        <3>1. s[1] \notin Space /\ s[n] \notin Space
            BY <1>1, <1>14, <2>2, EmptySeq DEF Trimmed
        <3>2. start = 1
            <4>1. ASSUME start # 1 PROVE FALSE
                <5>1. 1 \in 1 .. (start - 1)
                    BY <1>3, <4>1
                <5> QED BY <1>3, <3>1, <5>1
            <4> QED BY <4>1
        <3>3. end = 1
            <4>1. ASSUME end # 1 PROVE FALSE
                <5>1. 1 \in 1 .. (end - 1) /\ 1 \in 1 .. l /\ n + 1 - 1 = n
                    BY <1>4, <1>9, <2>2, <3>2, <4>1
                <5>2. r[1] \in Space /\ r[1] = s[n]
                    BY <1>7, <1>9, <5>1
                <5> QED BY <3>1, <5>2
            <4> QED BY <4>1
        <3>4. last = n
            BY <1>10, <3>3
        <3> QED BY <1>1, <1>11, <3>2, <3>4, SubSeqFull
    <2> QED BY <2>1, <2>2
<1> QED BY <1>12, <1>13, <1>14

LEMMA CasesMeet ==
    ASSUME NEW s \in Seq(Int)
    PROVE  lower(upper(lower(s))) = lower(s)
<1>1. PICK n \in Nat : n = Len(s)
    BY LenProperties
<1>2. \A i \in 1 .. n : s[i] \in Int
    BY <1>1, LenProperties
<1>3. PICK t \in Seq(Int) : /\ t = lower(s) /\ DOMAIN t = 1 .. n
                            /\ \A i \in 1 .. n : t[i] = IF s[i] \in 65 .. 90 THEN s[i] + 32 ELSE s[i]
    <2>1. PICK t : t = [i \in 1 .. n |-> IF s[i] \in 65 .. 90 THEN s[i] + 32 ELSE s[i]]
        OBVIOUS
    <2>2. t \in [1 .. n -> Int]
        BY <1>2, <2>1
    <2>3. lower(s) = t
        BY <1>1, <2>1, LenProperties DEF lower
    <2>4. t \in Seq(Int) /\ DOMAIN t = 1 .. n
        BY <2>2, FunctionIsText
    <2> QED BY <2>1, <2>3, <2>4
<1>4. PICK u \in Seq(Int) : /\ u = upper(t) /\ DOMAIN u = 1 .. n
                            /\ \A i \in 1 .. n : u[i] = IF t[i] \in 97 .. 122 THEN t[i] - 32 ELSE t[i]
    <2>1. PICK u : u = [i \in 1 .. n |-> IF t[i] \in 97 .. 122 THEN t[i] - 32 ELSE t[i]]
        OBVIOUS
    <2>4. \A i \in 1 .. n : t[i] \in Int
        BY <1>2, <1>3
    <2>2. u \in [1 .. n -> Int]
        BY <2>1, <2>4
    <2>3. upper(t) = u
        BY <1>3, <2>1 DEF upper
    <2>5. u \in Seq(Int) /\ DOMAIN u = 1 .. n
        BY <2>2, FunctionIsText
    <2> QED BY <2>1, <2>3, <2>5
<1>5. lower(u) = [i \in 1 .. n |-> IF u[i] \in 65 .. 90 THEN u[i] + 32 ELSE u[i]]
    BY <1>4 DEF lower
<1>6. ASSUME NEW i \in 1 .. n PROVE (IF u[i] \in 65 .. 90 THEN u[i] + 32 ELSE u[i]) = t[i]
    <2>1. PICK x \in Int : x = s[i]
        BY <1>2
    <2>2. PICK y \in Int : y = t[i] /\ y = IF x \in 65 .. 90 THEN x + 32 ELSE x
        BY <1>3, <2>1
    <2>3. PICK z \in Int : z = u[i] /\ z = IF y \in 97 .. 122 THEN y - 32 ELSE y
        <3>1. u[i] = IF y \in 97 .. 122 THEN y - 32 ELSE y
            BY <1>4, <2>2, ZenonT(40)
        <3>2. (IF y \in 97 .. 122 THEN y - 32 ELSE y) \in Int
            OBVIOUS
        <3> QED BY <3>1, <3>2
    <2>4. (IF z \in 65 .. 90 THEN z + 32 ELSE z) = y
        BY <2>2, <2>3
    <2> QED BY <2>2, <2>3, <2>4
<1>7. PICK v : v = lower(u) /\ v = [i \in 1 .. n |-> t[i]]
    BY <1>5, <1>6
<1>8. t = [i \in 1 .. n |-> t[i]]
    BY <1>3
<1> QED BY <1>3, <1>4, <1>7, <1>8

\* The characters of a text, joined by nothing, are the text.
LEMMA CharsJoin ==
    ASSUME NEW C, NEW s \in Seq(C)
    PROVE  list_join_method([i \in DOMAIN s |-> <<"string", chars(s)[i]>>], <<>>) = s
<1>1. PICK n \in Nat : n = Len(s) /\ DOMAIN s = 1 .. n
    BY LenProperties
<1>2. \A i \in 1 .. n : s[i] \in C
    BY <1>1, LenProperties
<1>3. PICK parts : parts = [i \in 1 .. n |-> <<s[i]>>]
    OBVIOUS
<1>4. list_join_method([i \in DOMAIN s |-> <<"string", chars(s)[i]>>], <<>>) = Joined(parts, <<>>)
    <2>1. PICK list : list = [i \in 1 .. n |-> <<"string", <<s[i]>> >>]
        OBVIOUS
    <2>2. DOMAIN list = 1 .. n
        BY <2>1
    <2>3. \A i \in 1 .. n : value_to_string(list[i]) = <<s[i]>>
        <3> TAKE i \in 1 .. n
        <3>0. PICK w : w = <<s[i]>>
            OBVIOUS
        <3>3. list[i] = <<"string", w>>
            BY <2>1, <3>0
        <3>1. value_to_string(<<"string", w>>) = w
            BY DEF value_to_string
        <3> QED BY <3>0, <3>1, <3>3
    <2>4. [i \in DOMAIN list |-> value_to_string(list[i])] = parts
        BY <1>3, <2>2, <2>3
    <2>5. [i \in DOMAIN s |-> <<"string", chars(s)[i]>>] = list
        <3>1. \A i \in 1 .. n : chars(s)[i] = <<s[i]>>
            BY <1>1 DEF chars
        <3> QED BY <1>1, <2>1, <3>1
    <2> QED BY <2>4, <2>5 DEF list_join_method
<1>5. parts \in Texts(C) /\ Len(parts) = n /\ \A i \in 1 .. n : parts[i] = <<s[i]>>
    <2> DEFINE S == Seq(C)
    <2>1. \A i \in 1 .. n : <<s[i]>> \in S
        BY <1>2, SingleIs
    <2>2. parts \in [1 .. n -> S]
        BY <1>3, <2>1
    <2>3. parts \in Seq(S) /\ Len(parts) = n
        <3> HIDE DEF S
        <3> QED BY <2>2, FunctionIsText
    <2> QED BY <1>3, <2>3 DEF Texts
<1>6. CASE n = 0
    <2>1. s = <<>> /\ parts = <<>>
        <3>1. s = <<>>
            BY <1>1, <1>6, EmptySeq
        <3>2. parts \in Seq(Seq(C)) /\ Len(parts) = 0
            BY <1>5, <1>6 DEF Texts
        <3>3. parts = <<>>
            BY <3>2, EmptySeq
        <3> QED BY <3>1, <3>3
    <2> QED BY <1>4, <2>1 DEF Joined
<1>7. CASE n # 0
    <2>1. parts # <<>>
        <3>1. parts = <<>> => Len(parts) = 0
            BY EmptySeq
        <3> QED BY <1>5, <1>7, <3>1
    <2>2. PICK e \in Seq(C) : e = <<>>
        BY EmptySeq
    <2>3. PICK f \in [1 .. Len(parts) -> Seq(C)] :
              /\ Joined(parts, e) = f[1]
              /\ \A i \in 1 .. Len(parts) : f[i] = JoinedBody(parts, e, f, i)
        <3>1. parts \in Texts(C) /\ parts # <<>>
            BY <1>5, <2>1
        <3> QED BY <3>1, JoinedIs
    <2> DEFINE T == {i \in 1 .. n : f[i] = From(s, i)}
    <2>4. ASSUME NEW i \in 1 .. n, \A j \in (i + 1) .. n : j \in T PROVE i \in T
        <3>1. f[i] = JoinedBody(parts, e, f, i) /\ parts[i] = <<s[i]>>
            BY <1>5, <2>3
        <3>2. CASE i = n
            <4>1. f[i] = <<s[i]>>
                BY <1>5, <3>1, <3>2 DEF JoinedBody
            <4>2. SubSeq(s, i, n) = <<s[i]>> \o SubSeq(s, i + 1, n)
                BY <1>1, <3>2, SubSeqRecursiveFirst
            <4>3. SubSeq(s, i + 1, n) = <<>>
                <5>1. n < i + 1 /\ i + 1 \in Int
                    BY <3>2
                <5> QED BY <5>1, SubSeqEmpty
            <4>4. PICK one \in Seq(C) : one = <<s[i]>>
                BY <1>2, SingleIs
            <4>5. one \o <<>> = one
                BY ConcatEmptySeq
            <4> QED BY <1>1, <4>1, <4>2, <4>3, <4>4, <4>5 DEF From
        <3>3. CASE i # n
            <4>1. PICK w \in Seq(C) : w = f[i + 1] /\ w = From(s, i + 1)
                <5>1. i + 1 \in (i + 1) .. n /\ i + 1 \in 1 .. n
                    BY <3>3
                <5> QED BY <1>5, <2>3, <2>4, <5>1
            <4>2. f[i] = <<s[i]>> \o (e \o w)
                BY <1>5, <3>1, <3>3, <4>1 DEF JoinedBody
            <4>3. e \o w = w
                BY <2>2, ConcatEmptySeq
            <4>4. SubSeq(s, i, n) = <<s[i]>> \o SubSeq(s, i + 1, n)
                <5>1. i \in 1 .. Len(s) /\ n \in i .. Len(s)
                    BY <1>1
                <5> QED BY <5>1, SubSeqRecursiveFirst
            <4> QED BY <1>1, <4>1, <4>2, <4>3, <4>4 DEF From
        <3> QED BY <3>2, <3>3
    <2>5. \A i \in 1 .. n : i \in T
        <3> HIDE DEF T
        <3> QED BY <2>4, Backwards1
    <2>6. f[1] = From(s, 1)
        BY <1>7, <2>5
    <2>7. From(s, 1) = s
        BY SubSeqFull DEF From
    <2> QED BY <1>4, <2>2, <2>3, <2>6, <2>7
<1> QED BY <1>6, <1>7

\* What the methods of strings owe each other, for every string.
THEOREM TextsAgree ==
    ASSUME NEW s \in ByteStrings, NEW p \in ByteStrings, NoNul(p), NEW q \in ByteStrings
    PROVE  TextLaws(s, p, q)
<1> DEFINE C == 0 .. 255
<1> HIDE DEF C
<1>1. s \in Seq(C) /\ p \in Seq(C) /\ q \in Seq(C) /\ s \in Seq(Int)
    <2>1. s \in Seq(0 .. 255) /\ p \in Seq(0 .. 255) /\ q \in Seq(0 .. 255)
        BY DEF ByteStrings
    <2>2. 0 .. 255 \subseteq Int
        OBVIOUS
    <2>3. s \in Seq(Int)
        BY <2>1, <2>2, SeqMonotonic
    <2> QED BY <2>1, <2>3 DEF C
<1>2. NoNul(p) /\ p # <<>> => Joined(string_split_method(s, p), p) = s
    BY <1>1, SplitThenJoin
<1>3. \A i \in DOMAIN string_split_method(s, <<>>) : string_split_method(s, <<>>)[i] = <<s[i]>>
    BY DEF string_split_method
<1>4. ASSUME NoNul(s \o p), p # <<>>
      PROVE  /\ string_replace_method(s, p, q) = Joined(string_split_method(s, p), q)
             /\ p = q => string_replace_method(s, p, q) = s
             /\ Len(string_replace_method(s, p, q)) = NewLength(s, p, q)
    <2>1. NoNul(s)
        BY <1>1, <1>4, NoNulIn
    <2>2. string_replace_method(s, p, q) = Joined(string_split_method(s, p), q)
        BY <1>1, <1>4, <2>1, ReplaceIsSplitAndJoin
    <2>3. Len(string_replace_method(s, p, q)) = NewLength(s, p, q)
        BY <1>1, <1>4, <2>1, ReplaceFillsItsBuffer
    <2> QED BY <1>2, <1>4, <2>2, <2>3
<1>5. ASSUME NoNul(s \o p)
      PROVE  /\ string_contains_method(s, p) <=> string_index_of_method(s, p) >= 0
             /\ string_contains_method(s, p) =>
                   LET i == string_index_of_method(s, p) IN
                   /\ string_starts_with_method(string_slice_method(s, i, Len(s)), p)
                   /\ ~string_contains_method(string_slice_method(s, 0, i + Len(p) - 1), p) \/ p = <<>>
    <2>1. NoNul(s)
        BY <1>1, <1>5, NoNulIn
    <2>2. string_contains_method(s, p) <=> string_index_of_method(s, p) >= 0
        BY <1>1, <2>1, ContainsIs
    <2>3. PICK i : i = string_index_of_method(s, p)
        OBVIOUS
    <2>4. string_contains_method(s, p) =>
             /\ string_starts_with_method(string_slice_method(s, i, Len(s)), p)
             /\ ~string_contains_method(string_slice_method(s, 0, i + Len(p) - 1), p) \/ p = <<>>
        BY <1>1, <2>1, <2>3, IndexIsFirst
    <2> QED BY <2>2, <2>3, <2>4
<1>6. string_starts_with_method(s, p) <=> string_ends_with_method(reverse(s), reverse(p))
    BY <1>1, StartsEnds
<1>7. trim(trim(s)) = trim(s)
    <2>1. PICK t \in Seq(C) : t = trim(s) /\ Trimmed(t)
        BY <1>1, TrimIs
    <2>2. trim(t) = t
        BY <2>1, TrimIs
    <2> QED BY <2>1, <2>2
<1>8. lower(upper(lower(s))) = lower(s)
    BY <1>1, CasesMeet
<1>9. list_join_method([i \in DOMAIN s |-> <<"string", chars(s)[i]>>], <<>>) = s
    BY <1>1, CharsJoin
<1> QED BY <1>2, <1>3, <1>4, <1>5, <1>6, <1>7, <1>8, <1>9 DEF TextLaws

-----------------------------------------------------------------------------
(* The laws of slices, copies and numbers.                                 *)

\* Both slices at a position, counted from either end, make the whole again.
LEMMA SlicesJoin ==
    ASSUME NEW C, NEW s \in Seq(C), NEW k \in Int
    PROVE  string_slice_method(s, 0, k) \o string_slice_method(s, k, Len(s)) = s
<1>1. PICK n \in Nat : n = Len(s)
    BY LenProperties
<1>2. PICK b \in Int : b = Backwards(n, k)
    <2>1. Backwards(n, k) \in Int
        BY DEF Backwards
    <2> QED BY <2>1
<1>3. PICK m \in 0 .. n : m = IF b < 0 THEN 0 ELSE IF b > n THEN n ELSE b
    <2>1. (IF b < 0 THEN 0 ELSE IF b > n THEN n ELSE b) \in 0 .. n
        OBVIOUS
    <2> QED BY <2>1
<1>4. string_slice_method(s, 0, k) = SubSeq(s, 1, m)
    <2>1. Lowest(n, 0) = 0 /\ Highest(n, k) = (IF b > n THEN n ELSE b) /\ 0 + 1 = 1
        BY <1>2 DEF Lowest, Highest, Backwards
    <2>2. string_slice_method(s, 0, k)
              = IF 0 >= (IF b > n THEN n ELSE b) THEN <<>> ELSE SubSeq(s, 1, IF b > n THEN n ELSE b)
        BY <1>1, <2>1 DEF string_slice_method
    <2>3. CASE 0 >= (IF b > n THEN n ELSE b)
        <3>1. m < 1
            BY <1>3, <2>3
        <3>2. SubSeq(s, 1, m) = <<>>
            BY <3>1, SubSeqEmpty
        <3> QED BY <2>2, <2>3, <3>2
    <2>4. CASE ~(0 >= (IF b > n THEN n ELSE b))
        <3>1. m = IF b > n THEN n ELSE b
            BY <1>3, <2>4
        <3> QED BY <2>2, <2>4, <3>1
    <2> QED BY <2>3, <2>4
<1>5. string_slice_method(s, k, n) = SubSeq(s, m + 1, n)
    <2>1. PICK l \in Nat : l = IF b < 0 THEN 0 ELSE b
        <3>1. (IF b < 0 THEN 0 ELSE b) \in Nat
            OBVIOUS
        <3> QED BY <3>1
    <2>2. Lowest(n, k) = l /\ Highest(n, n) = n
        BY <1>2, <2>1 DEF Lowest, Highest, Backwards
    <2>3. string_slice_method(s, k, n) = IF l >= n THEN <<>> ELSE SubSeq(s, l + 1, n)
        BY <1>1, <2>2 DEF string_slice_method
    <2>4. CASE l >= n
        <3>1. n < m + 1 /\ m + 1 \in Int
            BY <1>3, <2>1, <2>4
        <3>2. SubSeq(s, m + 1, n) = <<>>
            BY <3>1, SubSeqEmpty
        <3> QED BY <2>3, <2>4, <3>2
    <2>5. CASE ~(l >= n)
        <3>1. m = l
            BY <1>3, <2>1, <2>5
        <3> QED BY <2>3, <2>5, <3>1
    <2> QED BY <2>4, <2>5
<1>6. SubSeq(s, 1, m) \o SubSeq(s, m + 1, n) = SubSeq(s, 1, n)
    <2>1. 1 \in 1 .. Len(s) + 1 /\ m \in (1 - 1) .. Len(s) /\ n \in m .. Len(s)
        BY <1>1
    <2> QED BY <2>1, ConcatAdjacentSubSeq
<1>7. SubSeq(s, 1, n) = s
    BY <1>1, SubSeqFull
<1> QED BY <1>1, <1>4, <1>5, <1>6, <1>7

LEMMA Product ==
    ASSUME NEW l \in Nat, NEW n \in Int
    PROVE  /\ n * l \in Int /\ (n + 1) * l = n * l + l
           /\ n >= 0 => n * l \in Nat
OBVIOUS

\* Every position of n copies is one of the text.
LEMMA TimesIs ==
    ASSUME NEW C, NEW s \in Seq(C), NEW n \in Nat
    PROVE  /\ Times(s, n) \in Seq(C) /\ Len(Times(s, n)) = n * Len(s)
           /\ \A i \in 1 .. n * Len(s) : Times(s, n)[i] = s[((i - 1) % Len(s)) + 1]
<1>1. PICK l \in Nat : l = Len(s)
    BY LenProperties
<1>2. PICK m \in Nat : m = n * l
    BY Product
<1>3. PICK t : t = [i \in 1 .. m |-> s[((i - 1) % l) + 1]]
    OBVIOUS
<1>4. Times(s, n) = t
    BY <1>1, <1>2, <1>3 DEF Times
<1>5. ASSUME NEW i \in 1 .. m PROVE s[((i - 1) % l) + 1] \in C
    <2>1. l # 0
        <3>1. n * 0 = 0
            OBVIOUS
        <3> QED BY <1>2, <3>1
    <2>2. PICK r \in 0 .. (l - 1) : r = (i - 1) % l
        <3>1. PICK a \in Nat : a = i - 1
            OBVIOUS
        <3>2. PICK c \in Nat \ {0} : c = l
            BY <2>1
        <3>3. a % c \in 0 .. (c - 1)
            BY Divided
        <3> QED BY <3>1, <3>2, <3>3
    <2>3. r + 1 \in 1 .. l
        OBVIOUS
    <2> QED BY <1>1, <2>2, <2>3, LenProperties
<1>6. t \in [1 .. m -> C]
    BY <1>3, <1>5
<1>7. t \in Seq(C) /\ Len(t) = m
    BY <1>6, FunctionIsText
<1>8. \A i \in 1 .. m : t[i] = s[((i - 1) % l) + 1]
    BY <1>3
<1> QED BY <1>1, <1>2, <1>4, <1>7, <1>8

LEMMA OneMoreTime ==
    ASSUME NEW C, NEW s \in Seq(C), NEW n \in Nat
    PROVE  Times(s, n) \o s = Times(s, n + 1)
<1>1. PICK l \in Nat : l = Len(s)
    BY LenProperties
<1>2. PICK m \in Nat : m = n * l /\ (n + 1) * l = m + l
    BY Product
<1>3. PICK t \in Seq(C) : /\ t = Times(s, n) /\ Len(t) = m
                          /\ \A i \in 1 .. m : t[i] = s[((i - 1) % l) + 1]
    <2>1. /\ Times(s, n) \in Seq(C) /\ Len(Times(s, n)) = n * Len(s)
          /\ \A i \in 1 .. n * Len(s) : Times(s, n)[i] = s[((i - 1) % Len(s)) + 1]
        BY TimesIs
    <2>2. n * Len(s) = m
        BY <1>1, <1>2
    <2> QED BY <1>1, <2>1, <2>2
<1>4. PICK u \in Seq(C) : /\ u = Times(s, n + 1) /\ Len(u) = m + l
                          /\ \A i \in 1 .. m + l : u[i] = s[((i - 1) % l) + 1]
    <2>1. PICK k \in Nat : k = n + 1
        OBVIOUS
    <2>2. /\ Times(s, k) \in Seq(C) /\ Len(Times(s, k)) = k * Len(s)
          /\ \A i \in 1 .. k * Len(s) : Times(s, k)[i] = s[((i - 1) % Len(s)) + 1]
        BY TimesIs
    <2>3. k * Len(s) = m + l
        BY <1>1, <1>2, <2>1
    <2> QED BY <1>1, <2>1, <2>2, <2>3
<1>5. PICK v \in Seq(C) : /\ v = t \o s /\ Len(v) = m + l
                          /\ \A i \in 1 .. m + l : v[i] = IF i <= m THEN t[i] ELSE s[i - m]
    <2>1. /\ t \o s \in Seq(C) /\ Len(t \o s) = Len(t) + Len(s)
          /\ \A i \in 1 .. Len(t) + Len(s) : (t \o s)[i] = IF i <= Len(t) THEN t[i] ELSE s[i - Len(t)]
        BY ConcatProperties
    <2> QED BY <1>1, <1>3, <2>1
<1>6. ASSUME NEW i \in 1 .. m + l PROVE v[i] = u[i]
    <2>1. CASE i <= m
        <3>1. i \in 1 .. m
            BY <2>1
        <3> QED BY <1>3, <1>4, <1>5, <2>1, <3>1
    <2>2. CASE ~(i <= m)
        <3>1. l \in Nat \ {0}
            BY <2>2
        <3>2. PICK r \in 0 .. (l - 1) : r = i - 1 - m
            BY <2>2
        <3>3. (l * n + r) % l = r
            BY <3>1, RemainderIs
        <3>4. l * n = n * l
            OBVIOUS
        <3>5. l * n + r = i - 1
            BY <1>2, <3>2, <3>4
        <3>9. (i - 1) % l = r
            BY <3>3, <3>5
        <3>6. ((i - 1) % l) + 1 = i - m
            BY <3>2, <3>9
        <3>7. v[i] = s[i - m]
            BY <1>5, <2>2
        <3>8. u[i] = s[((i - 1) % l) + 1]
            BY <1>4
        <3> QED BY <3>6, <3>7, <3>8
    <2> QED BY <2>1, <2>2
<1>7. v = u
    BY <1>4, <1>5, <1>6, SeqEqual
<1> QED BY <1>3, <1>4, <1>5, <1>7

LEMMA UptoAll ==
    ASSUME NEW C, NEW s \in Seq(C), NEW n \in Nat, Len(s) <= n
    PROVE  Upto(s, n) = s
<1>1. (IF n < Len(s) THEN n ELSE Len(s)) = Len(s)
    BY LenProperties
<1>2. Upto(s, n) = SubSeq(s, 1, Len(s))
    BY <1>1 DEF Upto
<1> QED BY <1>2, SubSeqFull

\* Below its limits, repeat makes one copy more each time.
LEMMA RepeatIs ==
    ASSUME NEW C, NEW s \in Seq(C), NEW n \in Nat, n < MaxCopies, (n + 1) * Len(s) <= MaxRepeated
    PROVE  string_repeat_method(s, n) \o s = string_repeat_method(s, n + 1)
<1>1. PICK l \in Nat : l = Len(s)
    BY LenProperties
<1>2. PICK m \in Nat : m = n * l /\ (n + 1) * l = m + l
    BY Product
<1>3. MaxCopies \in Nat /\ MaxRepeated \in Nat
    BY DEF MaxCopies, MaxRepeated
<1>4. m + l <= MaxRepeated /\ m <= MaxRepeated
    BY <1>1, <1>2, <1>3
<1>5. Upto(Times(s, n), MaxRepeated) = Times(s, n)
    <2>1. Len(Times(s, n)) = m
        BY <1>1, <1>2, TimesIs
    <2>2. PICK t \in Seq(C) : t = Times(s, n) /\ Len(t) <= MaxRepeated
        BY <1>4, <2>1, TimesIs
    <2>3. Upto(t, MaxRepeated) = t
        BY <1>3, <2>2, UptoAll
    <2> QED BY <2>2, <2>3
<1>6. Upto(Times(s, n + 1), MaxRepeated) = Times(s, n + 1)
    <2>0. PICK k \in Nat : k = n + 1
        OBVIOUS
    <2>1. Len(Times(s, k)) = m + l
        <3>1. Len(Times(s, k)) = k * Len(s)
            BY TimesIs
        <3> QED BY <1>1, <1>2, <2>0, <3>1
    <2>2. PICK t \in Seq(C) : t = Times(s, k) /\ Len(t) <= MaxRepeated
        BY <1>4, <2>1, TimesIs
    <2>3. Upto(t, MaxRepeated) = t
        BY <1>3, <2>2, UptoAll
    <2> QED BY <2>0, <2>2, <2>3
<1>7. (IF n > MaxCopies THEN MaxCopies ELSE n) = n
      /\ (IF n + 1 > MaxCopies THEN MaxCopies ELSE n + 1) = n + 1
    BY <1>3
<1> QED BY <1>5, <1>6, <1>7, OneMoreTime DEF string_repeat_method

\* What pads a text has the length that is missing.
LEMMA PadIs ==
    ASSUME NEW C, NEW c \in C, NEW m \in Int
    PROVE  Times(<<c>>, m) \in Seq(C) /\ Len(Times(<<c>>, m)) = IF m < 0 THEN 0 ELSE m
<1>1. PICK one \in Seq(C) : one = <<c>> /\ Len(one) = 1
    BY SingleIs
<1>2. CASE m >= 0
    <2>1. PICK n \in Nat : n = m
        BY <1>2
    <2>2. Times(one, n) \in Seq(C) /\ Len(Times(one, n)) = n * Len(one)
        BY TimesIs
    <2>3. n * 1 = n
        OBVIOUS
    <2> QED BY <1>1, <2>1, <2>2, <2>3
<1>3. CASE m < 0
    <2>1. PICK k \in Int : k = m * Len(one) /\ k < 0
        BY <1>1, <1>3
    <2>2. PICK f : f = [i \in 1 .. k |-> one[((i - 1) % Len(one)) + 1]]
        OBVIOUS
    <2>3. f \in [1 .. 0 -> C]
        BY <2>1, <2>2
    <2>4. f \in Seq(C) /\ Len(f) = 0
        BY <2>3, FunctionIsText
    <2> QED BY <1>1, <1>3, <2>1, <2>2, <2>4 DEF Times
<1> QED BY <1>2, <1>3

\* Both ways to pad reach the same length, and keep the text.
LEMMA PadsAre ==
    ASSUME NEW C, NEW s \in Seq(C), NEW n \in Int, NEW c \in C, PadFits(s, n)
    PROVE  /\ Len(string_pad_left_method(s, n, c)) = Len(string_pad_right_method(s, n, c))
           /\ n < Uint32 => Len(string_pad_left_method(s, n, c)) >= n
           /\ string_ends_with_method(string_pad_left_method(s, n, c), s)
<1>1. PICK l \in Nat : l = Len(s)
    BY LenProperties
<1>9. PICK w \in Nat \ {0} : w = Uint32
    BY Uint32Assumption
<1>10. PICK m \in Nat : m = PaddedLength(s, n) /\ m >= l /\ (n < w => m >= n)
    <2>1. CASE n <= l
        BY <1>1, <2>1 DEF PaddedLength
    <2>2. CASE n > l
        <3>1. PICK r \in Nat : r = n % w /\ (n < w => r = n)
            <4>1. n \in Nat
                BY <2>2
            <4>2. n % w \in 0 .. (w - 1)
                BY <4>1, Divided
            <4>3. n < w => n % w = n
                BY <4>1, SMT
            <4> QED BY <4>2, <4>3
        <3>2. PaddedLength(s, n) = r
            BY <1>1, <1>9, <2>2, <3>1 DEF PaddedLength
        <3>3. r \in l .. w - 2
            BY <1>1, <1>9, <2>2, <3>1 DEF PadFits
        <3> QED BY <3>1, <3>2, <3>3
    <2> QED BY <2>1, <2>2
<1>2. PICK d \in Int : d = m - l
    OBVIOUS
<1>3. PICK pad \in Seq(C), k \in Nat : pad = Times(<<c>>, d) /\ Len(pad) = k /\ k = IF d < 0 THEN 0 ELSE d
    <2>1. (IF d < 0 THEN 0 ELSE d) \in Nat
        OBVIOUS
    <2>2. Times(<<c>>, d) \in Seq(C) /\ Len(Times(<<c>>, d)) = IF d < 0 THEN 0 ELSE d
        BY PadIs
    <2> QED BY <2>1, <2>2
<1>4. string_pad_left_method(s, n, c) = pad \o s /\ string_pad_right_method(s, n, c) = s \o pad
    BY <1>1, <1>2, <1>3, <1>10 DEF string_pad_left_method, string_pad_right_method
<1>5. PICK t \in Seq(C) : /\ t = pad \o s /\ Len(t) = k + l
                          /\ \A i \in 1 .. k + l : t[i] = IF i <= k THEN pad[i] ELSE s[i - k]
    <2>1. /\ pad \o s \in Seq(C) /\ Len(pad \o s) = Len(pad) + Len(s)
          /\ \A i \in 1 .. Len(pad) + Len(s) : (pad \o s)[i] = IF i <= Len(pad) THEN pad[i] ELSE s[i - Len(pad)]
        BY ConcatProperties
    <2>2. PICK t : t = pad \o s
        OBVIOUS
    <2>3. t \in Seq(C) /\ Len(t) = k + l
        BY <1>1, <1>3, <2>1, <2>2
    <2>4. \A i \in 1 .. k + l : t[i] = IF i <= k THEN pad[i] ELSE s[i - k]
        BY <1>1, <1>3, <2>1, <2>2
    <2> QED BY <2>2, <2>3, <2>4
<1>6. Len(s \o pad) = l + k
    <2>1. Len(s \o pad) = Len(s) + Len(pad)
        BY ConcatProperties
    <2> QED BY <1>1, <1>3, <2>1
<1>7. (n < Uint32 => k + l >= n) /\ k + l = l + k
    BY <1>2, <1>3, <1>9, <1>10
<1>8. string_ends_with_method(t, s)
    <2>1. string_ends_with_method(t, s) <=>
              Len(s) <= Len(t) /\ \A i \in 1 .. Len(s) : t[Len(t) - Len(s) + i] = s[i]
        BY EndsIs
    <2>2. Len(s) = l /\ l <= k + l /\ k + l - l = k
        BY <1>1
    <2>3. Len(t) = k + l
        BY <1>5
    <2>4. ASSUME NEW i \in 1 .. l PROVE t[k + i] = s[i]
        <3>1. k + i \in 1 .. k + l /\ ~(k + i <= k) /\ (k + i) - k = i
            OBVIOUS
        <3> QED BY <1>5, <3>1
    <2> QED BY <2>1, <2>2, <2>3, <2>4
<1> QED BY <1>4, <1>5, <1>6, <1>7, <1>8

\* What holds wherever it holds at every place before.
LEMMA Forwards ==
    ASSUME NEW N \in Nat, NEW S,
           \A i \in 0 .. N : (\A j \in 0 .. (i - 1) : j \in S) => i \in S
    PROVE  \A i \in 0 .. N : i \in S
<1> DEFINE T == {n \in 0 .. N : \A j \in 0 .. n : j \in S}
<1>1. 0 \in T
    <2>1. \A j \in 0 .. (0 - 1) : j \in S
        OBVIOUS
    <2>2. 0 \in S
        BY <2>1
    <2> QED BY <2>2
<1>2. ASSUME NEW n \in 0 .. N, n # 0, n - 1 \in T PROVE n \in T
    <2>1. \A j \in 0 .. (n - 1) : j \in S
        BY <1>2
    <2>2. n \in S
        BY <2>1
    <2>3. \A j \in 0 .. n : j = n \/ j \in 0 .. (n - 1)
        OBVIOUS
    <2> QED BY <2>1, <2>2, <2>3
<1>3. N \in T
    <2> HIDE DEF T
    <2>1. \A i \in 0 .. N : i \in T
        BY <1>1, <1>2, Induction
    <2> QED BY <2>1
<1> QED BY <1>3

\* A recursion whose positions lead to earlier ones is well defined.
LEMMA RecursionLower ==
    ASSUME NEW N \in Nat, NEW V, NEW base \in [0 .. N -> V], NEW jump \in [0 .. N -> Int],
           NEW step \in [(0 .. N) \X V -> V],
           \A i \in 0 .. N : jump[i] # -1 => jump[i] \in 0 .. (i - 1)
    PROVE  \E f \in [0 .. N -> V] : Recurs(f, 0 .. N, base, jump, step)
<1> DEFINE S == {n \in 0 .. N : \E f \in [0 .. N -> V] : Recurs(f, 0 .. n, base, jump, step)}
<1>1. 0 \in S
    <2>1. base \in [0 .. N -> V] /\ \A i \in 0 .. 0 : i \in 0 .. N /\ jump[i] = -1
        OBVIOUS
    <2>2. Recurs(base, 0 .. 0, base, jump, step)
        BY <2>1 DEF Recurs
    <2> QED BY <2>2
<1>2. ASSUME NEW n \in 0 .. N, n # 0, n - 1 \in S PROVE n \in S
    <2>1. PICK f \in [0 .. N -> V] : Recurs(f, 0 .. (n - 1), base, jump, step)
        BY <1>2
    <2>3. PICK v : v = IF jump[n] = -1 THEN base[n] ELSE step[<<n, f[jump[n]]>>]
        OBVIOUS
    <2>4. v \in V
        <3>1. CASE jump[n] = -1
            BY <2>3, <3>1
        <3>2. CASE jump[n] # -1
            <4>1. jump[n] \in 0 .. N
                BY <3>2
            <4>2. PICK w \in V : w = f[jump[n]]
                BY <4>1
            <4>3. v = step[<<n, w>>]
                BY <2>3, <3>2, <4>2
            <4> QED BY <4>3
        <3> QED BY <3>1, <3>2
    <2>5. PICK g \in [0 .. N -> V] : g = [f EXCEPT ![n] = v]
        BY <2>4
    <2>6. g[n] = v /\ \A j \in 0 .. N : j # n => g[j] = f[j]
        BY <2>5
    <2>7. ASSUME NEW j \in 0 .. n
          PROVE  g[j] = IF jump[j] = -1 THEN base[j] ELSE step[<<j, g[jump[j]]>>]
        <3>1. j \in 0 .. N /\ (jump[j] # -1 => jump[j] \in 0 .. N /\ jump[j] # n /\ g[jump[j]] = f[jump[j]])
            BY <2>6
        <3>2. CASE j = n
            BY <2>3, <2>6, <3>1, <3>2
        <3>3. CASE j # n
            <4>1. j \in 0 .. (n - 1)
                BY <3>3
            <4>2. f[j] = IF jump[j] = -1 THEN base[j] ELSE step[<<j, f[jump[j]]>>]
                BY <2>1, <4>1 DEF Recurs
            <4> QED BY <2>6, <3>1, <3>3, <4>2
        <3> QED BY <3>2, <3>3
    <2> QED BY <2>7 DEF Recurs
<1>3. N \in S
    <2> HIDE DEF S
    <2>1. \A i \in 0 .. N : i \in S
        BY <1>1, <1>2, Induction
    <2> QED BY <2>1
<1> QED BY <1>3

NumberBody(digits, n, i) == IF i = 0 THEN 0 ELSE 10 * n[i - 1] + (digits[i] - 48)

LEMMA NumberIs ==
    ASSUME NEW t \in Seq(Int)
    PROVE  \E f \in [0 .. Len(t) -> Int] :
              Number(t) = f[Len(t)] /\ \A i \in 0 .. Len(t) : f[i] = NumberBody(t, f, i)
<1>1. PICK l \in Nat : l = Len(t)
    BY LenProperties
<1>2. \A i \in 1 .. l : t[i] \in Int
    BY <1>1, LenProperties
<1> DEFINE step == [x \in (1 .. l) \X Int |-> 10 * x[2] + (t[x[1]] - 48)]
<1>3. step \in [(1 .. l) \X Int -> Int]
    BY <1>2
<1>4. PICK f \in [0 .. l -> Int] : \A i \in 0 .. l : f[i] = IF i = 0 THEN 0 ELSE step[<<i, f[i - 1]>>]
    <2> DEFINE V == Int
    <2>1. PICK zero \in V : zero = 0
        OBVIOUS
    <2>2. step \in [(1 .. l) \X V -> V]
        BY <1>3
    <2>3. PICK f \in [0 .. l -> V] : RecursUp(f, l, zero, step)
        <3> HIDE DEF step, V
        <3> QED BY <2>2, RecursionUp
    <2>4. \A i \in 0 .. l : f[i] = IF i = 0 THEN zero ELSE step[<<i, f[i - 1]>>]
        <3> HIDE DEF step
        <3> QED BY <2>3 DEF RecursUp
    <2> QED BY <2>1, <2>3, <2>4
<1>5. ASSUME NEW i \in 0 .. l PROVE f[i] = NumberBody(t, f, i)
    <2>1. f[i] = IF i = 0 THEN 0 ELSE step[<<i, f[i - 1]>>]
        BY <1>4
    <2>2. CASE i = 0
        BY <2>1, <2>2 DEF NumberBody
    <2>3. CASE i # 0
        <3>1. PICK w \in Int : w = f[i - 1]
            BY <2>3
        <3>2. step[<<i, w>>] = 10 * w + (t[i] - 48)
            BY <2>3, SMTT(20)
        <3> QED BY <2>1, <2>3, <3>1, <3>2 DEF NumberBody
    <2> QED BY <2>2, <2>3
<1>6. f = [i \in 0 .. l |-> NumberBody(t, f, i)]
    BY <1>5
<1>7. PICK g : g = (CHOOSE h : h = [i \in 0 .. l |-> NumberBody(t, h, i)])
    OBVIOUS
<1>8. g = [i \in 0 .. l |-> NumberBody(t, g, i)]
    BY <1>6, <1>7
<1>9. Number(t) = g[l]
    BY <1>1, <1>7 DEF Number, NumberBody
<1>10. \A i \in 0 .. l : g[i] = f[i]
    <2> DEFINE T == {i \in 0 .. l : g[i] = f[i]}
    <2>1. 0 \in T
        <3>0. 0 \in 0 .. l
            OBVIOUS
        <3>2. f[0] = NumberBody(t, f, 0)
            BY <1>5, <3>0
        <3>1. g[0] = NumberBody(t, g, 0) /\ f[0] = NumberBody(t, f, 0)
            BY <1>8, <3>0, <3>2
        <3> QED BY <3>1 DEF NumberBody
    <2>2. ASSUME NEW i \in 0 .. l, i # 0, i - 1 \in T PROVE i \in T
        <3>1. g[i] = NumberBody(t, g, i) /\ f[i] = NumberBody(t, f, i)
            BY <1>5, <1>8
        <3> QED BY <2>2, <3>1 DEF NumberBody
    <2>3. \A i \in 0 .. l : i \in T
        <3> HIDE DEF T
        <3> QED BY <2>1, <2>2, Induction
    <2> QED BY <2>3
<1>11. Number(t) = f[l]
    BY <1>9, <1>10
<1> QED BY <1>1, <1>5, <1>11

LEMMA NumberGrows ==
    ASSUME NEW t \in Seq(Int), NEW x \in Int
    PROVE  Number(Append(t, x)) = 10 * Number(t) + (x - 48) /\ Number(t) \in Int
<1>1. PICK l \in Nat : l = Len(t)
    BY LenProperties
<1>2. PICK u \in Seq(Int) : /\ u = Append(t, x) /\ Len(u) = l + 1
                            /\ u[l + 1] = x /\ \A i \in 1 .. l : u[i] = t[i]
    <2>1. /\ Append(t, x) \in Seq(Int) /\ Len(Append(t, x)) = Len(t)+1
          /\ \A i \in 1 .. Len(t) : Append(t, x)[i] = t[i]
          /\ Append(t, x)[Len(t) + 1] = x
        BY AppendProperties
    <2> QED BY <1>1, <2>1
<1>3. PICK f \in [0 .. l -> Int] : Number(t) = f[l] /\ \A i \in 0 .. l : f[i] = NumberBody(t, f, i)
    BY <1>1, NumberIs
<1>4. PICK g \in [0 .. (l + 1) -> Int] :
          Number(u) = g[l + 1] /\ \A i \in 0 .. (l + 1) : g[i] = NumberBody(u, g, i)
    <2>1. \E g \in [0 .. Len(u) -> Int] :
              Number(u) = g[Len(u)] /\ \A i \in 0 .. Len(u) : g[i] = NumberBody(u, g, i)
        BY NumberIs
    <2> QED BY <1>2, <2>1
<1>5. \A i \in 0 .. l : g[i] = f[i]
    <2> DEFINE T == {i \in 0 .. l : g[i] = f[i]}
    <2>1. 0 \in T
        <3>1. g[0] = NumberBody(u, g, 0) /\ f[0] = NumberBody(t, f, 0)
            BY <1>3, <1>4
        <3> QED BY <3>1 DEF NumberBody
    <2>2. ASSUME NEW i \in 0 .. l, i # 0, i - 1 \in T PROVE i \in T
        <3>1. g[i] = NumberBody(u, g, i) /\ f[i] = NumberBody(t, f, i) /\ u[i] = t[i]
            BY <1>2, <1>3, <1>4, <2>2
        <3> QED BY <2>2, <3>1 DEF NumberBody
    <2>3. \A i \in 0 .. l : i \in T
        <3> HIDE DEF T
        <3> QED BY <2>1, <2>2, Induction
    <2> QED BY <2>3
<1>6. g[l + 1] = 10 * g[l] + (u[l + 1] - 48)
    <2>1. g[l + 1] = NumberBody(u, g, l + 1) /\ l + 1 # 0 /\ (l + 1) - 1 = l
        BY <1>4
    <2> QED BY <2>1 DEF NumberBody
<1>7. g[l] = f[l] /\ f[l] \in Int
    BY <1>3, <1>5
<1> QED BY <1>2, <1>3, <1>4, <1>6, <1>7

LEMMA AppendedIs ==
    ASSUME NEW S, NEW w \in Seq(S), NEW d \in S
    PROVE  Append(w, d) \in Seq(S) /\ Append(w, d) # <<>>
<1>1. PICK y : y = Append(w, d)
    OBVIOUS
<1>2. y \in Seq(S)
    BY <1>1, AppendProperties
<1>3. Len(y) = Len(w) + 1 /\ Len(w) \in Nat
    BY <1>1, AppendProperties, LenProperties
<1>4. y # <<>>
    BY <1>2, <1>3, EmptySeq
<1> QED BY <1>1, <1>2, <1>4

DigitsBody(d, m) == IF m < 10 THEN <<48 + m>> ELSE Append(d[m \div 10], 48 + (m % 10))

LEMMA Tens ==
    ASSUME NEW m \in Nat, m >= 10
    PROVE  /\ m \div 10 \in 0 .. (m - 1) /\ m % 10 \in 0 .. 9
           /\ m = 10 * (m \div 10) + (m % 10)
OBVIOUS

\* The digits of a number are digits, and make the number again.
LEMMA DigitsAre ==
    ASSUME NEW n \in Nat
    PROVE  Digits(n) \in Seq(Digit) /\ Digits(n) # <<>> /\ Number(Digits(n)) = n
<1>0. Digit \subseteq Int
    BY DEF Digit
<1> DEFINE base == [m \in 0 .. n |-> IF m < 10 THEN <<48 + m>> ELSE <<>>]
           jump == [m \in 0 .. n |-> IF m < 10 THEN -1 ELSE m \div 10]
           step == [x \in (0 .. n) \X Seq(Digit) |-> Append(x[2], 48 + (x[1] % 10))]
<1>1. base \in [0 .. n -> Seq(Digit)]
    <2>1. ASSUME NEW m \in 0 .. n, m < 10 PROVE <<48 + m>> \in Seq(Digit)
        <3>1. 48 + m \in Digit
            BY <2>1 DEF Digit
        <3> QED BY <3>1, SingleIs
    <2>2. <<>> \in Seq(Digit)
        BY EmptySeq
    <2> QED BY <2>1, <2>2
<1>2. jump \in [0 .. n -> Int] /\ \A m \in 0 .. n : jump[m] # -1 => jump[m] \in 0 .. (m - 1)
    BY Tens
<1>3. step \in [(0 .. n) \X Seq(Digit) -> Seq(Digit)]
    <2>1. ASSUME NEW m \in 0 .. n, NEW t \in Seq(Digit) PROVE Append(t, 48 + (m % 10)) \in Seq(Digit)
        <3>1. 48 + (m % 10) \in Digit
            BY DEF Digit
        <3> QED BY <3>1, AppendProperties
    <2> QED BY <2>1
<1>4. PICK f \in [0 .. n -> Seq(Digit)] : Recurs(f, 0 .. n, base, jump, step)
    <2> HIDE DEF base, jump, step
    <2> QED BY <1>1, <1>2, <1>3, RecursionLower
<1>5. ASSUME NEW m \in 0 .. n PROVE f[m] = DigitsBody(f, m)
    <2>1. f[m] = IF jump[m] = -1 THEN base[m] ELSE step[<<m, f[jump[m]]>>]
        BY <1>4 DEF Recurs
    <2>2. CASE m < 10
        BY <2>1, <2>2 DEF DigitsBody
    <2>3. CASE ~(m < 10)
        <3>1. jump[m] = m \div 10 /\ jump[m] # -1 /\ m \div 10 \in 0 .. n
            BY <2>3, Tens
        <3>2. PICK w \in Seq(Digit) : w = f[m \div 10]
            BY <3>1
        <3>3. step[<<m, w>>] = Append(w, 48 + (m % 10))
            OBVIOUS
        <3> QED BY <2>1, <2>3, <3>1, <3>2, <3>3 DEF DigitsBody
    <2> QED BY <2>2, <2>3
<1>6. f = [m \in 0 .. n |-> DigitsBody(f, m)]
    BY <1>5
<1>7. PICK g : g = (CHOOSE h : h = [m \in 0 .. n |-> DigitsBody(h, m)])
    OBVIOUS
<1>8. g = [m \in 0 .. n |-> DigitsBody(g, m)]
    BY <1>6, <1>7
<1>9. Digits(n) = g[n]
    BY <1>7 DEF Digits, DigitsBody
<1> DEFINE T == {m \in 0 .. n : g[m] \in Seq(Digit) /\ g[m] # <<>> /\ Number(g[m]) = m}
<1>10. ASSUME NEW m \in 0 .. n, \A j \in 0 .. (m - 1) : j \in T PROVE m \in T
    <2>1. g[m] = DigitsBody(g, m)
        BY <1>8
    <2>2. CASE m < 10
        <3>1. PICK d \in Digit : d = 48 + m
            BY <2>2 DEF Digit
        <3>2. PICK one \in Seq(Digit) : one = <<d>> /\ one # <<>>
            BY SingleIs
        <3>3. Number(one) = m
            <4>1. PICK e \in Seq(Int) : e = <<>> /\ Len(e) = 0
                BY EmptySeq
            <4>2. Number(Append(e, d)) = 10 * Number(e) + (d - 48) /\ Number(e) \in Int
                BY <1>0, NumberGrows
            <4>3. Append(e, d) = one
                BY <3>2, <4>1
            <4>4. Number(e) = 0
                <5>1. PICK h \in [0 .. Len(e) -> Int] :
                          Number(e) = h[Len(e)] /\ \A i \in 0 .. Len(e) : h[i] = NumberBody(e, h, i)
                    BY NumberIs
                <5>2. 0 \in 0 .. Len(e)
                    BY <4>1
                <5>3. h[0] = NumberBody(e, h, 0)
                    BY <5>1, <5>2
                <5> QED BY <4>1, <5>1, <5>3 DEF NumberBody
            <4>5. d \in Int /\ d - 48 = m
                BY <1>0, <3>1
            <4>6. PICK z \in Int : z = Number(e) /\ z = 0
                BY <4>2, <4>4
            <4>7. Number(one) = 10 * z + (d - 48)
                BY <4>2, <4>3, <4>6
            <4> QED BY <4>5, <4>6, <4>7
        <3>4. g[m] = one
            BY <2>1, <2>2, <3>1, <3>2 DEF DigitsBody
        <3> QED BY <3>2, <3>3, <3>4
    <2>3. CASE ~(m < 10)
        <3>1. PICK k \in 0 .. (m - 1), r \in 0 .. 9 : k = m \div 10 /\ r = m % 10 /\ m = 10 * k + r
            <4>1. m \in Nat /\ m >= 10
                BY <2>3
            <4>2. /\ m \div 10 \in 0 .. (m - 1) /\ m % 10 \in 0 .. 9
                  /\ m = 10 * (m \div 10) + (m % 10)
                BY <4>1, Tens
            <4>3. PICK k : k = m \div 10
                OBVIOUS
            <4>4. PICK r : r = m % 10
                OBVIOUS
            <4> QED BY <4>2, <4>3, <4>4
        <3>2. PICK w \in Seq(Digit) : w = g[k] /\ Number(w) = k
            BY <1>10
        <3>3. PICK d \in Digit : d = 48 + r
            BY DEF Digit
        <3>4. g[m] = Append(w, d)
            BY <2>1, <2>3, <3>1, <3>2, <3>3 DEF DigitsBody
        <3>5. Append(w, d) \in Seq(Digit) /\ Append(w, d) # <<>>
            BY AppendedIs
        <3>6. Number(Append(w, d)) = 10 * k + (d - 48)
            <4>1. w \in Seq(Int) /\ d \in Int
                BY <1>0, SeqMonotonic
            <4> QED BY <3>2, <4>1, NumberGrows
        <3>7. 10 * k + (d - 48) = m
            BY <3>1, <3>3
        <3> QED BY <3>4, <3>5, <3>6, <3>7
    <2> QED BY <2>2, <2>3
<1>11. \A m \in 0 .. n : m \in T
    <2> HIDE DEF T
    <2> QED BY <1>10, Forwards
<1> QED BY <1>9, <1>11

\* Reading what has been written gives the same number.
THEOREM NumbersReadBack ==
    ASSUME NEW n \in Int
    PROVE  to_i(value_to_string(IntValue(n))) = n
<1>0. Digit \subseteq Int /\ 45 \notin Digit /\ 43 \notin Digit
      /\ \A c \in Digit : c \notin Space
    BY DEF Digit, Space
<1>1. PICK a \in Nat : a = IF n < 0 THEN -n ELSE n
    <2>1. (IF n < 0 THEN -n ELSE n) \in Nat
        OBVIOUS
    <2> QED BY <2>1
<1>2. PICK t \in Seq(Digit) : t = Digits(a) /\ t # <<>> /\ Number(t) = a
    BY DigitsAre
<1>3. PICK l \in Nat : l = Len(t) /\ l # 0 /\ \A i \in 1 .. l : t[i] \in Digit
    BY <1>2, EmptySeq, LenProperties
<1>4. t \in Seq(Int)
    BY <1>0, SeqMonotonic
<1>5. ASSUME NEW s \in Seq(Int), NEW start \in Nat, start # 0, NEW m \in Nat, m = Len(s),
             start <= m, m - start + 1 = l, \A i \in 1 .. l : s[start + i - 1] = t[i]
      PROVE  Number(Cut(s, start, Skip(s, start, Digit))) = a
    <2>1. PICK u : u = Skip(s, start, Digit)
        OBVIOUS
    <2>2. /\ u \in Nat /\ start <= u /\ u <= EndOf(s, start)
          /\ u <= Len(s) => s[u] \notin Digit
        BY <1>5, <2>1, SkipIs
    <2>3. EndOf(s, start) = m + 1
        BY <1>5 DEF EndOf
    <2>4. ASSUME u <= m PROVE FALSE
        <3>1. PICK i \in 1 .. l : i = u - start + 1 /\ start + i - 1 = u
            BY <1>5, <2>2, <2>4
        <3>2. s[u] = t[i] /\ t[i] \in Digit
            BY <1>3, <1>5, <3>1
        <3> QED BY <1>5, <2>2, <2>4, <3>2
    <2>5. u = m + 1 /\ u - 1 = m
        BY <2>2, <2>3, <2>4
    <2>6. Cut(s, start, u) = SubSeq(s, start, m)
        BY <2>5 DEF Cut
    <2>7. /\ SubSeq(s, start, m) \in Seq(Int)
          /\ Len(SubSeq(s, start, m)) = IF start <= m THEN m - start + 1 ELSE 0
          /\ \A k \in 1 .. (m - start + 1) : SubSeq(s, start, m)[k] = s[start + k - 1]
        BY <1>5, PartIs
    <2>8. PICK v \in Seq(Int) : v = SubSeq(s, start, m) /\ Len(v) = l /\ \A k \in 1 .. l : v[k] = t[k]
        <3>1. (IF start <= m THEN m - start + 1 ELSE 0) = l /\ m - start + 1 = l
            BY <1>5
        <3>2. PICK v \in Seq(Int) : v = SubSeq(s, start, m)
            BY <2>7
        <3>3. Len(v) = l /\ \A k \in 1 .. l : v[k] = s[start + k - 1]
            BY <2>7, <3>1, <3>2
        <3>4. \A k \in 1 .. l : v[k] = t[k]
            BY <1>5, <3>3
        <3> QED BY <3>2, <3>3, <3>4
    <2>9. v = t
        BY <1>3, <1>4, <2>8, SeqEqual
    <2> QED BY <1>2, <2>1, <2>6, <2>8, <2>9
<1>6. CASE n >= 0
    <2>1. value_to_string(IntValue(n)) = t
        <3>1. value_to_string(<<"int", n>>) = Digits(n)
            BY <1>6 DEF value_to_string
        <3> QED BY <1>1, <1>2, <1>6, <3>1 DEF IntValue
    <2>2. Skip(t, 1, Space) = 1
        <3>1. PICK one \in Nat : one = 1 /\ one # 0
            OBVIOUS
        <3>2. PICK u : u = Skip(t, one, Space)
            OBVIOUS
        <3>3. u \in Nat /\ one <= u /\ \A j \in one .. (u - 1) : j <= Len(t) /\ t[j] \in Space
            BY <3>1, <3>2, SkipIs
        <3>4. t[1] \notin Space
            <4>1. 1 \in 1 .. l
                BY <1>3
            <4>2. PICK c \in Digit : c = t[1]
                BY <1>3, <4>1
            <4> QED BY <1>0, <4>2
        <3>5. ASSUME u # 1 PROVE FALSE
            <4>1. 1 \in one .. (u - 1)
                BY <3>1, <3>3, <3>5
            <4> QED BY <3>3, <3>4, <4>1
        <3> QED BY <3>1, <3>2, <3>5
    <2>3. CodeAt(t, 1) = t[1] /\ t[1] \in Digit /\ t[1] \notin {45, 43} /\ t[1] # 45
        BY <1>0, <1>3 DEF CodeAt
    <2>4. Number(Cut(t, 1, Skip(t, 1, Digit))) = a
        <3>1. PICK one \in Nat : one = 1 /\ one # 0 /\ one <= l /\ l - one + 1 = l
            BY <1>3
        <3>2. \A i \in 1 .. l : t[one + i - 1] = t[i]
            <4>1. \A i \in 1 .. l : one + i - 1 = i
                BY <3>1
            <4> QED BY <4>1
        <3>3. Number(Cut(t, one, Skip(t, one, Digit))) = a
            BY <1>3, <1>4, <1>5, <3>1, <3>2
        <3> QED BY <3>1, <3>3
    <2>5. to_i(t) = a
        BY <2>2, <2>3, <2>4 DEF to_i
    <2> QED BY <1>1, <1>6, <2>1, <2>5
<1>7. CASE n < 0
    <2>0. PICK one \in Seq(Int) : one = <<45>> /\ Len(one) = 1 /\ one[1] = 45
        <3>1. PICK m \in Int : m = 45
            OBVIOUS
        <3>2. <<m>> \in Seq(Int) /\ Len(<<m>>) = 1 /\ <<m>>[1] = m
            BY SingleIs
        <3> QED BY <3>1, <3>2
    <2>1. PICK s \in Seq(Int) : /\ s = one \o t /\ Len(s) = l + 1 /\ s[1] = 45
                                /\ \A i \in 1 .. l : s[2 + i - 1] = t[i]
        <3>1. /\ one \o t \in Seq(Int) /\ Len(one \o t) = Len(one) + Len(t)
              /\ \A i \in 1 .. Len(one) + Len(t) : (one \o t)[i] = IF i <= Len(one) THEN one[i] ELSE t[i - Len(one)]
            BY <1>4, ConcatProperties
        <3>2. PICK s : s = one \o t
            OBVIOUS
        <3>3. s \in Seq(Int) /\ Len(s) = l + 1
            BY <1>3, <2>0, <3>1, <3>2
        <3>4. \A i \in 1 .. 1 + l : s[i] = IF i <= 1 THEN one[i] ELSE t[i - 1]
            BY <1>3, <2>0, <3>1, <3>2
        <3>5. s[1] = 45
            <4>1. 1 \in 1 .. 1 + l
                OBVIOUS
            <4> QED BY <2>0, <3>4, <4>1
        <3>6. ASSUME NEW i \in 1 .. l PROVE s[2 + i - 1] = t[i]
            <4>1. 2 + i - 1 \in 1 .. 1 + l /\ ~(2 + i - 1 <= 1) /\ (2 + i - 1) - 1 = i
                OBVIOUS
            <4> QED BY <3>4, <4>1
        <3> QED BY <3>2, <3>3, <3>5, <3>6
    <2>2. value_to_string(IntValue(n)) = s
        <3>1. value_to_string(<<"int", n>>) = <<45>> \o Digits(-n)
            BY <1>7 DEF value_to_string
        <3>2. a = -n
            BY <1>1, <1>7
        <3> QED BY <1>2, <2>0, <2>1, <3>1, <3>2 DEF IntValue
    <2>3. Skip(s, 1, Space) = 1
        <3>1. PICK first \in Nat : first = 1 /\ first # 0
            OBVIOUS
        <3>2. PICK u : u = Skip(s, first, Space)
            OBVIOUS
        <3>3. u \in Nat /\ first <= u /\ \A j \in first .. (u - 1) : j <= Len(s) /\ s[j] \in Space
            BY <3>1, <3>2, SkipIs
        <3>4. s[1] \notin Space
            BY <2>1 DEF Space
        <3>5. ASSUME u # 1 PROVE FALSE
            <4>1. 1 \in first .. (u - 1)
                BY <3>1, <3>3, <3>5
            <4> QED BY <3>3, <3>4, <4>1
        <3> QED BY <3>1, <3>2, <3>5
    <2>4. CodeAt(s, 1) = 45
        BY <2>1 DEF CodeAt
    <2>5. Number(Cut(s, 2, Skip(s, 2, Digit))) = a
        <3>5. PICK two \in Nat : two = 2
            OBVIOUS
        <3>6. PICK m \in Nat : m = l + 1
            OBVIOUS
        <3>1. two = 2 /\ m = l + 1 /\ two # 0 /\ two <= m /\ m - two + 1 = l
            BY <1>3, <3>5, <3>6
        <3>2. \A i \in 1 .. l : s[two + i - 1] = t[i]
            BY <2>1, <3>1
        <3>4. m = Len(s)
            BY <2>1, <3>1
        <3>3. Number(Cut(s, two, Skip(s, two, Digit))) = a
            BY <1>5, <3>1, <3>2, <3>4
        <3> QED BY <3>1, <3>3
    <2>6. to_i(s) = -a
        BY <2>3, <2>4, <2>5 DEF to_i
    <2> QED BY <1>1, <1>7, <2>2, <2>6
<1> QED BY <1>6, <1>7

\* What slices, copies, paddings and numbers owe each other, for every string.
THEOREM SlicesAgree ==
    ASSUME NEW s \in ByteStrings, NEW k \in Int, NEW n \in Int
    PROVE  SliceLaws(s, k, n)
<1> DEFINE C == 0 .. 255
<1> HIDE DEF C
<1>1. s \in Seq(C) /\ 32 \in C
    BY DEF C, ByteStrings
<1>2. string_slice_method(s, 0, k) \o string_slice_method(s, k, Len(s)) = s
    BY <1>1, SlicesJoin
<1>3. ASSUME n >= 0, n < MaxCopies, (n + 1) * Len(s) <= MaxRepeated
      PROVE  string_repeat_method(s, n) \o s = string_repeat_method(s, n + 1)
    <2>1. n \in Nat
        BY <1>3
    <2> QED BY <1>1, <1>3, <2>1, RepeatIs
<1>4. ASSUME PadFits(s, n)
      PROVE  /\ Len(string_pad_left_method(s, n, 32)) = Len(string_pad_right_method(s, n, 32))
             /\ n < Uint32 => Len(string_pad_left_method(s, n, 32)) >= n
             /\ string_ends_with_method(string_pad_left_method(s, n, 32), s)
    BY <1>1, <1>4, PadsAre
<1>5. to_i(value_to_string(IntValue(n))) = n
    BY NumbersReadBack
<1> QED BY <1>2, <1>3, <1>4, <1>5 DEF SliceLaws

-----------------------------------------------------------------------------
(* The order of values.                                                    *)

\* Where two strings first differ; a string ends with what is less than a byte.
Differ(a, b, k) ==
    /\ k \in Nat \ {0} /\ CodeAt(a, k) # CodeAt(b, k)
    /\ \A j \in 1 .. (k - 1) : CodeAt(a, j) = CodeAt(b, j)

LEMMA CodeIs ==
    ASSUME NEW a \in ByteStrings, NEW k \in Nat \ {0}
    PROVE  /\ CodeAt(a, k) \in Int
           /\ k <= Len(a) => CodeAt(a, k) = a[k] /\ CodeAt(a, k) >= 0
           /\ k > Len(a) => CodeAt(a, k) = -1
<1>1. Len(a) \in Nat
    BY LenProperties DEF ByteStrings
<1>2. \A i \in 1 .. Len(a) : a[i] \in 0 .. 255
    BY LenProperties, ZenonT(40) DEF ByteStrings
<1>3. CASE k <= Len(a)
    <2>1. k \in 1 .. Len(a)
        BY <1>1, <1>3
    <2>2. CodeAt(a, k) = a[k]
        BY <1>3 DEF CodeAt
    <2>3. PICK x \in 0 .. 255 : x = a[k]
        BY <1>2, <2>1
    <2>4. CodeAt(a, k) \in Int /\ CodeAt(a, k) >= 0
        BY <2>2, <2>3
    <2>5. ~(k > Len(a))
        BY <1>1, <1>3
    <2> QED BY <2>2, <2>4, <2>5
<1>4. CASE ~(k <= Len(a))
    BY <1>1, <1>4 DEF CodeAt
<1> QED BY <1>3, <1>4

\* memcmp and the lengths tell which of two strings is less where they differ.
LEMMA MemcmpIs ==
    ASSUME NEW a \in ByteStrings, NEW b \in ByteStrings
    PROVE  \/ a = b /\ memcmp(a, b) = 0
           \/ \E k \in Nat \ {0} : Differ(a, b, k) /\ memcmp(a, b) = Sign(CodeAt(a, k), CodeAt(b, k))
<1>1. PICK m \in Nat, n \in Nat : m = Len(a) /\ n = Len(b) /\ DOMAIN a = 1 .. m /\ DOMAIN b = 1 .. n
    BY LenProperties DEF ByteStrings
<1>2. PICK D : D = {i \in DOMAIN a \cap DOMAIN b : a[i] # b[i]}
    OBVIOUS
<1>3. D \in SUBSET Nat
    BY <1>1, <1>2
<1>4. memcmp(a, b) = IF D = {} THEN Sign(Len(a), Len(b)) ELSE Sign(a[Min(D)], b[Min(D)])
    BY <1>2 DEF memcmp
<1>5. ASSUME NEW j \in Nat \ {0}, j <= m, j <= n, j \notin D
      PROVE  CodeAt(a, j) = CodeAt(b, j)
    <2>1. j \in DOMAIN a \cap DOMAIN b
        BY <1>1, <1>5
    <2>2. a[j] = b[j]
        BY <1>2, <1>5, <2>1
    <2> QED BY <1>1, <1>5, <2>2, CodeIs
<1>6. CASE D = {}
    <2>1. CASE m = n
        <3>1. \A i \in 1 .. m : a[i] = b[i]
            BY <1>1, <1>2, <1>6, <2>1
        <3>2. a = b
            BY <1>1, <2>1, <3>1, SeqEqual DEF ByteStrings
        <3>3. Sign(m, n) = 0
            BY <2>1 DEF Sign
        <3> QED BY <1>1, <1>4, <1>6, <3>2, <3>3
    <2>2. CASE m # n
        <3>1. PICK k \in Nat \ {0} : k = IF m < n THEN m + 1 ELSE n + 1
            <4>1. (IF m < n THEN m + 1 ELSE n + 1) \in Nat \ {0}
                OBVIOUS
            <4> QED BY <4>1
        <3>2. \A j \in 1 .. (k - 1) : j \in Nat \ {0} /\ j <= m /\ j <= n
            BY <2>2, <3>1
        <3>3. \A j \in 1 .. (k - 1) : CodeAt(a, j) = CodeAt(b, j)
            BY <1>5, <1>6, <3>2
        <3>4. CASE m < n
            <4>1. CodeAt(a, k) = -1 /\ CodeAt(b, k) >= 0 /\ CodeAt(b, k) \in Int
                BY <1>1, <3>1, <3>4, CodeIs
            <4>2. Sign(m, n) = -1 /\ Sign(CodeAt(a, k), CodeAt(b, k)) = -1
                BY <3>4, <4>1 DEF Sign
            <4>3. Differ(a, b, k)
                BY <3>3, <4>1 DEF Differ
            <4> QED BY <1>1, <1>4, <1>6, <4>2, <4>3
        <3>5. CASE m > n
            <4>1. CodeAt(b, k) = -1 /\ CodeAt(a, k) >= 0 /\ CodeAt(a, k) \in Int
                BY <1>1, <3>1, <3>5, CodeIs
            <4>2. Sign(m, n) = 1 /\ Sign(CodeAt(a, k), CodeAt(b, k)) = 1
                BY <3>5, <4>1 DEF Sign
            <4>3. Differ(a, b, k)
                BY <3>3, <4>1 DEF Differ
            <4> QED BY <1>1, <1>4, <1>6, <4>2, <4>3
        <3> QED BY <2>2, <3>4, <3>5
    <2> QED BY <2>1, <2>2
<1>7. CASE D # {}
    <2>1. PICK k \in D : k = Min(D) /\ \A i \in D : k <= i
        <3>1. \E i \in D : \A j \in D : i <= j
            BY <1>3, <1>7, LeastNumber
        <3> QED BY <3>1 DEF Min
    <2>2. k \in Nat \ {0} /\ k <= m /\ k <= n /\ a[k] # b[k]
        BY <1>1, <1>2, <2>1
    <2>3. CodeAt(a, k) = a[k] /\ CodeAt(b, k) = b[k]
        BY <1>1, <2>2, CodeIs
    <2>4. ASSUME NEW j \in 1 .. (k - 1) PROVE CodeAt(a, j) = CodeAt(b, j)
        <3>1. j \in Nat \ {0} /\ j <= m /\ j <= n /\ ~(k <= j)
            BY <2>2
        <3> QED BY <1>5, <2>1, <3>1
    <2>5. Differ(a, b, k)
        BY <2>2, <2>3, <2>4 DEF Differ
    <2> QED BY <1>4, <1>7, <2>1, <2>2, <2>3, <2>5
<1> QED BY <1>6, <1>7

LEMMA DifferOnce ==
    ASSUME NEW a, NEW b, NEW k, NEW l, Differ(a, b, k), Differ(a, b, l)
    PROVE  k = l
<1>1. k \in Nat \ {0} /\ l \in Nat \ {0}
    BY DEF Differ
<1>2. ASSUME k < l PROVE FALSE
    <2>1. k \in 1 .. (l - 1)
        BY <1>1, <1>2
    <2> QED BY <2>1 DEF Differ
<1>3. ASSUME l < k PROVE FALSE
    <2>1. l \in 1 .. (k - 1)
        BY <1>1, <1>3
    <2> QED BY <2>1 DEF Differ
<1> QED BY <1>1, <1>2, <1>3

LEMMA SignIs ==
    ASSUME NEW i \in Int, NEW j \in Int
    PROVE  /\ Sign(i, j) \in {-1, 0, 1} /\ (Sign(i, j) = 1 <=> i > j)
           /\ (Sign(i, j) = -1 <=> i < j) /\ (Sign(i, j) = 0 <=> i = j)
BY DEF Sign

\* a is less than b: at the first place where they differ.
Less(a, b) == \E k \in Nat \ {0} : Differ(a, b, k) /\ CodeAt(a, k) < CodeAt(b, k)

LEMMA MemcmpLess ==
    ASSUME NEW a \in ByteStrings, NEW b \in ByteStrings
    PROVE  /\ memcmp(a, b) \in {-1, 0, 1}
           /\ memcmp(a, b) = 0 <=> a = b
           /\ memcmp(a, b) = -1 <=> Less(a, b)
           /\ memcmp(a, b) = 1 <=> Less(b, a)
<1>1. CASE a = b
    <2>1. \A k : ~Differ(a, b, k) /\ ~Differ(b, a, k)
        BY <1>1 DEF Differ
    <2>2. memcmp(a, b) = 0
        BY <2>1, MemcmpIs
    <2> QED BY <1>1, <2>1, <2>2 DEF Less
<1>2. CASE a # b
    <2>1. PICK k \in Nat \ {0} : Differ(a, b, k) /\ memcmp(a, b) = Sign(CodeAt(a, k), CodeAt(b, k))
        BY <1>2, MemcmpIs
    <2>2. PICK i \in Int, j \in Int : i = CodeAt(a, k) /\ j = CodeAt(b, k) /\ i # j
        BY <2>1, CodeIs DEF Differ
    <2>3. Differ(b, a, k)
        BY <2>1 DEF Differ
    <2>4. Less(a, b) <=> i < j
        BY <2>1, <2>2, DifferOnce DEF Less
    <2>5. Less(b, a) <=> j < i
        BY <2>2, <2>3, DifferOnce DEF Less
    <2>6. memcmp(a, b) = Sign(i, j)
        BY <2>1, <2>2
    <2>7. /\ Sign(i, j) \in {-1, 0, 1} /\ (Sign(i, j) = 1 <=> i > j)
          /\ (Sign(i, j) = -1 <=> i < j) /\ (Sign(i, j) = 0 <=> i = j)
        BY SignIs
    <2> QED BY <1>2, <2>2, <2>4, <2>5, <2>6, <2>7
<1> QED BY <1>1, <1>2

LEMMA LessTransitive ==
    ASSUME NEW a \in ByteStrings, NEW b \in ByteStrings, NEW c \in ByteStrings, Less(a, b), Less(b, c)
    PROVE  Less(a, c)
<1>1. PICK k \in Nat \ {0} : Differ(a, b, k) /\ CodeAt(a, k) < CodeAt(b, k)
    BY DEF Less
<1>2. PICK l \in Nat \ {0} : Differ(b, c, l) /\ CodeAt(b, l) < CodeAt(c, l)
    BY DEF Less
<1>3. \A j \in Nat \ {0} : CodeAt(a, j) \in Int /\ CodeAt(b, j) \in Int /\ CodeAt(c, j) \in Int
    BY CodeIs
<1>4. \A j \in 1 .. (k - 1) : CodeAt(a, j) = CodeAt(b, j)
    BY <1>1 DEF Differ
<1>5. \A j \in 1 .. (l - 1) : CodeAt(b, j) = CodeAt(c, j)
    BY <1>2 DEF Differ
<1>6. PICK m \in Nat \ {0} : m = IF k < l THEN k ELSE l
    OBVIOUS
<1>7. \A j \in 1 .. (m - 1) : j \in 1 .. (k - 1) /\ j \in 1 .. (l - 1)
    BY <1>6
<1>8. \A j \in 1 .. (m - 1) : CodeAt(a, j) = CodeAt(c, j)
    BY <1>4, <1>5, <1>7
<1>9. CodeAt(a, m) < CodeAt(c, m)
    <2>1. CASE k < l
        <3>1. m = k /\ k \in 1 .. (l - 1)
            BY <1>6, <2>1
        <3> QED BY <1>1, <1>3, <1>5, <3>1
    <2>2. CASE k = l
        <3>1. m = k /\ m = l
            BY <1>6, <2>2
        <3> QED BY <1>1, <1>2, <1>3, <3>1
    <2>3. CASE k > l
        <3>1. m = l /\ l \in 1 .. (k - 1)
            BY <1>6, <2>3
        <3> QED BY <1>2, <1>3, <1>4, <3>1
    <2> QED BY <2>1, <2>2, <2>3
<1>10. Differ(a, c, m)
    BY <1>3, <1>8, <1>9 DEF Differ
<1> QED BY <1>9, <1>10 DEF Less

\* The levels that values of different types come at.
Level(v) == CASE v[1] = "nil" -> 0 [] v[1] = "bool" -> 1 [] v[1] \in {"int", "float"} -> 2
              [] v[1] = "string" -> 3 [] OTHER -> 4

LEMMA ValueIs ==
    ASSUME NEW v \in ScalarValues
    PROVE  /\ v[1] \in {"nil", "bool", "int", "float", "string", "list", "map", "fn"}
           /\ v[1] = "bool" => v[2] \in BOOLEAN
           /\ v[1] \in {"int", "float"} => v[2] \in Int
           /\ v[1] = "string" => v[2] \in ByteStrings
<1>1. CASE v \in {"nil"} \X {0}
    BY <1>1
<1>2. CASE v \in {"bool"} \X BOOLEAN
    BY <1>2
<1>3. CASE v \in {"int", "float"} \X Int
    BY <1>3
<1>4. CASE v \in {"string"} \X ByteStrings
    BY <1>4
<1>5. CASE v \in {"list", "map", "fn"} \X Seq(Int)
    BY <1>5
<1> QED BY <1>1, <1>2, <1>3, <1>4, <1>5 DEF ScalarValues

\* How two values compare: by their levels, or else by what they contain.
LEMMA CompareIs ==
    ASSUME NEW a \in ScalarValues, NEW b \in ScalarValues
    PROVE  /\ value_compare(a, b) \in Int /\ Level(a) \in 0 .. 4
           /\ Level(a) < Level(b) => value_compare(a, b) < 0
           /\ Level(a) > Level(b) => value_compare(a, b) > 0
           /\ Level(a) = Level(b) =>
                 value_compare(a, b) =
                     CASE Level(a) = 1 -> (IF a[2] = b[2] THEN 0 ELSE IF a[2] THEN 1 ELSE -1)
                       [] Level(a) = 2 -> Sign(Halves(a), Halves(b))
                       [] Level(a) = 3 -> memcmp(a[2], b[2])
                       [] OTHER -> 0
<1>1. PICK t \in {"nil", "bool", "int", "float", "string", "list", "map", "fn"} : t = a[1]
    BY ValueIs
<1>2. PICK u \in {"nil", "bool", "int", "float", "string", "list", "map", "fn"} : u = b[1]
    BY ValueIs
<1>3. PICK l \in 0 .. 4 :
          /\ l = Level(a)
          /\ t = "nil" => l = 0
          /\ t = "bool" => l = 1
          /\ t \in {"int", "float"} => l = 2
          /\ t = "string" => l = 3
          /\ t \in {"list", "map", "fn"} => l = 4
    BY <1>1 DEF Level
<1>4. PICK m \in 0 .. 4 :
          /\ m = Level(b)
          /\ u = "nil" => m = 0
          /\ u = "bool" => m = 1
          /\ u \in {"int", "float"} => m = 2
          /\ u = "string" => m = 3
          /\ u \in {"list", "map", "fn"} => m = 4
    BY <1>2 DEF Level
<1>5. PICK r \in 0 .. 4 :
          /\ r = TypeRank(a)
          /\ t = "bool" => r = 0
          /\ t = "int" => r = 1
          /\ t = "float" => r = 2
          /\ t = "string" => r = 3
          /\ t \in {"nil", "list", "map", "fn"} => r = 4
    BY <1>1 DEF TypeRank
<1>6. PICK q \in 0 .. 4 :
          /\ q = TypeRank(b)
          /\ u = "bool" => q = 0
          /\ u = "int" => q = 1
          /\ u = "float" => q = 2
          /\ u = "string" => q = 3
          /\ u \in {"nil", "list", "map", "fn"} => q = 4
    BY <1>2 DEF TypeRank
<1>7. CASE l = 2 /\ m = 2
    <2>1. Numeric(a) /\ Numeric(b)
        BY <1>1, <1>2, <1>3, <1>4, <1>7 DEF Numeric
    <2>2. value_compare(a, b) = Sign(Halves(a), Halves(b))
        BY <2>1 DEF value_compare, Numeric
    <2>3. Sign(Halves(a), Halves(b)) \in Int
        BY DEF Sign
    <2> QED BY <1>3, <1>4, <1>7, <2>2, <2>3
<1>8. CASE l = 3 /\ m = 3
    <2>1. a[1] = "string" /\ b[1] = "string" /\ ~Numeric(a)
        BY <1>1, <1>2, <1>3, <1>4, <1>8 DEF Numeric
    <2>2. value_compare(a, b) = memcmp(a[2], b[2])
        BY <2>1 DEF value_compare
    <2>3. memcmp(a[2], b[2]) \in Int
        BY <2>1, ValueIs, MemcmpLess
    <2> QED BY <1>3, <1>4, <1>8, <2>2, <2>3
<1>9. CASE l = 1 /\ m = 1
    <2>1. a[1] = "bool" /\ b[1] = "bool" /\ ~Numeric(a)
        BY <1>1, <1>2, <1>3, <1>4, <1>9 DEF Numeric
    <2>2. value_compare(a, b) = IF a[2] = b[2] THEN 0 ELSE IF a[2] THEN 1 ELSE -1
        BY <2>1 DEF value_compare
    <2> QED BY <1>3, <1>4, <1>9, <2>2
<1>10. CASE l = 0
    <2>1. a[1] = "nil" /\ ~Numeric(a) /\ (b[1] = "nil" <=> m = 0)
        BY <1>1, <1>2, <1>3, <1>4, <1>10 DEF Numeric
    <2>2. value_compare(a, b) = IF m = 0 THEN 0 ELSE -1
        BY <2>1 DEF value_compare
    <2> QED BY <1>3, <1>4, <1>10, <2>2
<1>11. CASE l # 0 /\ m = 0
    <2>1. b[1] = "nil" /\ ~Numeric(b) /\ a[1] # "nil"
        BY <1>1, <1>2, <1>3, <1>4, <1>11 DEF Numeric
    <2>2. value_compare(a, b) = 1
        BY <2>1 DEF value_compare
    <2> QED BY <1>3, <1>4, <1>11, <2>2
<1>12. CASE l # 0 /\ m # 0 /\ ~(l = m /\ l \in 1 .. 3)
    <2>1. /\ a[1] # "nil" /\ b[1] # "nil" /\ ~(Numeric(a) /\ Numeric(b))
          /\ ~(a[1] = "string" /\ b[1] = "string") /\ ~(a[1] = "bool" /\ b[1] = "bool")
        BY <1>1, <1>2, <1>3, <1>4, <1>12 DEF Numeric
    <2>2. value_compare(a, b) = r - q
        BY <1>5, <1>6, <2>1 DEF value_compare
    <2>3. l < m => r < q
        BY <1>1, <1>2, <1>3, <1>4, <1>5, <1>6, <1>12
    <2>4. l > m => r > q
        BY <1>1, <1>2, <1>3, <1>4, <1>5, <1>6, <1>12
    <2>5. l = m => r = q /\ l = 4
        BY <1>1, <1>2, <1>3, <1>4, <1>5, <1>6, <1>12
    <2> QED BY <1>3, <1>4, <2>2, <2>3, <2>4, <2>5
<1>13. l = 0 \/ (l # 0 /\ m = 0) \/ (l = 1 /\ m = 1) \/ (l = 2 /\ m = 2) \/ (l = 3 /\ m = 3)
       \/ (l # 0 /\ m # 0 /\ ~(l = m /\ l \in 1 .. 3))
    OBVIOUS
<1> QED BY <1>7, <1>8, <1>9, <1>10, <1>11, <1>12, <1>13

\* Among values of one level the order is one of numbers, of bytes, or none.
LEMMA SameLevel ==
    ASSUME NEW a \in ScalarValues, NEW b \in ScalarValues, Level(a) = Level(b)
    PROVE  /\ value_compare(a, b) = -value_compare(b, a)
           /\ \A c \in ScalarValues : Level(b) = Level(c) =>
                 /\ value_compare(a, b) <= 0 /\ value_compare(b, c) <= 0 => value_compare(a, c) <= 0
                 /\ value_compare(a, b) <= 0 /\ value_compare(b, c) < 0 => value_compare(a, c) < 0
<1>1. PICK l \in 0 .. 4 : l = Level(a)
    BY CompareIs
<1>2. CASE l = 1
    <2>1. ASSUME NEW u \in ScalarValues, Level(u) = l PROVE u[2] \in BOOLEAN
        <3>1. u[1] = "bool"
            BY <1>2, <2>1, ValueIs DEF Level
        <3> QED BY <3>1, ValueIs
    <2>2. ASSUME NEW u \in ScalarValues, NEW v \in ScalarValues, Level(u) = l, Level(v) = l
          PROVE  value_compare(u, v) = IF u[2] = v[2] THEN 0 ELSE IF u[2] THEN 1 ELSE -1
        BY <1>2, <2>2, CompareIs
    <2> QED BY <1>1, <2>1, <2>2
<1>3. CASE l = 2
    <2>1. ASSUME NEW u \in ScalarValues, Level(u) = l PROVE Halves(u) \in Int
        <3>1. u[1] \in {"int", "float"}
            BY <1>3, <2>1, ValueIs DEF Level
        <3>2. u[2] \in Int
            BY <3>1, ValueIs
        <3> QED BY <3>2 DEF Halves
    <2>2. ASSUME NEW u \in ScalarValues, NEW v \in ScalarValues, Level(u) = l, Level(v) = l
          PROVE  value_compare(u, v) = Sign(Halves(u), Halves(v))
        BY <1>3, <2>2, CompareIs
    <2> QED BY <1>1, <2>1, <2>2 DEF Sign
<1>4. CASE l = 3
    <2>1. ASSUME NEW u \in ScalarValues, Level(u) = l PROVE u[2] \in ByteStrings
        <3>1. u[1] = "string"
            BY <1>4, <2>1, ValueIs DEF Level
        <3> QED BY <3>1, ValueIs
    <2>2. ASSUME NEW u \in ScalarValues, NEW v \in ScalarValues, Level(u) = l, Level(v) = l
          PROVE  value_compare(u, v) = memcmp(u[2], v[2])
        BY <1>4, <2>2, CompareIs
    <2>3. PICK s \in ByteStrings, t \in ByteStrings : s = a[2] /\ t = b[2]
        BY <1>1, <2>1
    <2>4. value_compare(a, b) = memcmp(s, t) /\ value_compare(b, a) = memcmp(t, s)
        BY <1>1, <2>2, <2>3
    <2>5. memcmp(s, t) = -memcmp(t, s)
        <3>1. /\ memcmp(s, t) \in {-1, 0, 1} /\ (memcmp(s, t) = 0 <=> s = t)
              /\ (memcmp(s, t) = -1 <=> Less(s, t)) /\ (memcmp(s, t) = 1 <=> Less(t, s))
            BY MemcmpLess
        <3>2. /\ memcmp(t, s) \in {-1, 0, 1} /\ (memcmp(t, s) = 0 <=> t = s)
              /\ (memcmp(t, s) = -1 <=> Less(t, s)) /\ (memcmp(t, s) = 1 <=> Less(s, t))
            BY MemcmpLess
        <3> QED BY <3>1, <3>2
    <2>6. ASSUME NEW c \in ScalarValues, Level(b) = Level(c)
          PROVE  /\ value_compare(a, b) <= 0 /\ value_compare(b, c) <= 0 => value_compare(a, c) <= 0
                 /\ value_compare(a, b) <= 0 /\ value_compare(b, c) < 0 => value_compare(a, c) < 0
        <3>1. PICK u \in ByteStrings : u = c[2]
            BY <1>1, <2>1, <2>6
        <3>2. value_compare(b, c) = memcmp(t, u) /\ value_compare(a, c) = memcmp(s, u)
            BY <1>1, <2>2, <2>3, <2>6, <3>1
        <3>3. /\ memcmp(s, t) \in {-1, 0, 1} /\ (memcmp(s, t) = 0 <=> s = t)
              /\ (memcmp(s, t) = -1 <=> Less(s, t))
            BY MemcmpLess
        <3>4. /\ memcmp(t, u) \in {-1, 0, 1} /\ (memcmp(t, u) = 0 <=> t = u)
              /\ (memcmp(t, u) = -1 <=> Less(t, u))
            BY MemcmpLess
        <3>5. /\ memcmp(s, u) \in {-1, 0, 1} /\ (memcmp(s, u) = 0 <=> s = u)
              /\ (memcmp(s, u) = -1 <=> Less(s, u))
            BY MemcmpLess
        <3>6. Less(s, t) /\ Less(t, u) => Less(s, u)
            BY LessTransitive
        <3>7. /\ memcmp(s, t) <= 0 /\ memcmp(t, u) <= 0 => memcmp(s, u) <= 0
              /\ memcmp(s, t) <= 0 /\ memcmp(t, u) < 0 => memcmp(s, u) < 0
            BY <3>3, <3>4, <3>5, <3>6
        <3> QED BY <2>4, <3>2, <3>7
    <2> QED BY <2>4, <2>5, <2>6
<1>5. CASE l = 0 \/ l = 4
    <2>1. ASSUME NEW u \in ScalarValues, NEW v \in ScalarValues, Level(u) = l, Level(v) = l
          PROVE  value_compare(u, v) = 0
        BY <1>5, <2>1, CompareIs
    <2> QED BY <1>1, <2>1
<1> QED BY <1>2, <1>3, <1>4, <1>5

\* The order that sort relies on, for any three values (vm.c): one of two values
\* comes first whichever way they are compared, and what comes before what comes
\* before a third value comes before it.
THEOREM OrderAgrees ==
    ASSUME NEW a \in ScalarValues, NEW b \in ScalarValues, NEW c \in ScalarValues
    PROVE  OrderLaws(a, b, c)
<1> DEFINE x == value_compare(a, b)
           y == value_compare(b, c)
           z == value_compare(a, c)
<1>0. /\ value_compare(a, b) \in Int /\ value_compare(b, a) \in Int
      /\ value_compare(b, c) \in Int /\ value_compare(a, c) \in Int
      /\ Level(a) \in 0 .. 4 /\ Level(b) \in 0 .. 4 /\ Level(c) \in 0 .. 4
    BY CompareIs
<1>1. Sign(value_compare(a, b), 0) = -Sign(value_compare(b, a), 0)
    <2>1. CASE Level(a) < Level(b)
        <3>1. value_compare(a, b) < 0 /\ value_compare(b, a) > 0
            BY <1>0, <2>1, CompareIs
        <3>2. PICK p \in Int, q \in Int : p = value_compare(a, b) /\ q = value_compare(b, a)
            BY <1>0
        <3>3. Sign(p, 0) = -1 /\ Sign(q, 0) = 1
            BY <3>1, <3>2 DEF Sign
        <3> QED BY <3>2, <3>3
    <2>2. CASE Level(a) > Level(b)
        <3>1. value_compare(a, b) > 0 /\ value_compare(b, a) < 0
            BY <1>0, <2>2, CompareIs
        <3>2. PICK p \in Int, q \in Int : p = value_compare(a, b) /\ q = value_compare(b, a)
            BY <1>0
        <3>3. Sign(p, 0) = 1 /\ Sign(q, 0) = -1
            BY <3>1, <3>2 DEF Sign
        <3> QED BY <3>2, <3>3
    <2>3. CASE Level(a) = Level(b)
        <3>1. PICK p \in Int, q \in Int : p = value_compare(a, b) /\ q = value_compare(b, a)
            BY <1>0
        <3>2. p = -q
            BY <2>3, <3>1, SameLevel
        <3>3. Sign(p, 0) = -Sign(q, 0)
            BY <3>2 DEF Sign
        <3> QED BY <3>1, <3>3
    <2> QED BY <1>0, <2>1, <2>2, <2>3
<1>2. /\ x <= 0 /\ y <= 0 => z <= 0
      /\ x = 0 /\ y < 0 => z < 0
    <2>1. x <= 0 => Level(a) <= Level(b)
        BY <1>0, CompareIs
    <2>2. y <= 0 => Level(b) <= Level(c)
        BY <1>0, CompareIs
    <2>3. Level(a) < Level(c) => z < 0
        BY CompareIs
    <2>4. CASE Level(a) < Level(c)
        BY <1>0, <2>3, <2>4
    <2>5. CASE ~(Level(a) < Level(c))
        <3>1. SUFFICES ASSUME x <= 0, y <= 0, Level(a) = Level(b), Level(b) = Level(c)
                       PROVE  z <= 0 /\ (x = 0 /\ y < 0 => z < 0)
            BY <1>0, <2>1, <2>2, <2>5
        <3> QED BY <1>0, <3>1, SameLevel
    <2> QED BY <2>4, <2>5
<1> QED BY <1>1, <1>2 DEF OrderLaws

-----------------------------------------------------------------------------
(* The laws of lists.                                                      *)

LEMMA ListSlicesJoin ==
    ASSUME NEW C, NEW s \in Seq(C), NEW k \in Int
    PROVE  list_slice_method(s, 0, k) \o list_slice_method(s, k, Len(s)) = s
<1>1. PICK n \in Nat : n = Len(s)
    BY LenProperties
<1>2. PICK b \in Int : b = Backwards(n, k)
    <2>1. Backwards(n, k) \in Int
        BY DEF Backwards
    <2> QED BY <2>1
<1>3. PICK m \in 0 .. n : m = IF b < 0 THEN 0 ELSE IF b > n THEN n ELSE b
    <2>1. (IF b < 0 THEN 0 ELSE IF b > n THEN n ELSE b) \in 0 .. n
        OBVIOUS
    <2> QED BY <2>1
<1>4. list_slice_method(s, 0, k) = SubSeq(s, 1, m)
    <2>1. PICK e \in Int : e = IF b > n THEN n ELSE b
        <3>1. (IF b > n THEN n ELSE b) \in Int
            OBVIOUS
        <3> QED BY <3>1
    <2>2. Lowest(n, 0) = 0 /\ Highest(n, k) = e /\ 0 + 1 = 1
        BY <1>2, <2>1 DEF Lowest, Highest, Backwards
    <2>3. list_slice_method(s, 0, k) = SubSeq(s, 1, e)
        BY <1>1, <2>2 DEF list_slice_method
    <2>4. CASE 0 >= e
        <3>1. m < 1 /\ e < 1
            BY <1>3, <2>1, <2>4
        <3>2. SubSeq(s, 1, m) = <<>> /\ SubSeq(s, 1, e) = <<>>
            BY <3>1, SubSeqEmpty
        <3> QED BY <2>3, <3>2
    <2>5. CASE ~(0 >= e)
        <3>1. m = e
            BY <1>3, <2>1, <2>5
        <3> QED BY <2>3, <3>1
    <2> QED BY <2>4, <2>5
<1>5. list_slice_method(s, k, n) = SubSeq(s, m + 1, n)
    <2>1. PICK l \in Nat : l = IF b < 0 THEN 0 ELSE b
        <3>1. (IF b < 0 THEN 0 ELSE b) \in Nat
            OBVIOUS
        <3> QED BY <3>1
    <2>2. Lowest(n, k) = l /\ Highest(n, n) = n
        BY <1>2, <2>1 DEF Lowest, Highest, Backwards
    <2>3. list_slice_method(s, k, n) = SubSeq(s, l + 1, n)
        BY <1>1, <2>2 DEF list_slice_method
    <2>4. CASE l >= n
        <3>1. n < m + 1 /\ m + 1 \in Int /\ n < l + 1 /\ l + 1 \in Int
            BY <1>3, <2>1, <2>4
        <3>2. SubSeq(s, m + 1, n) = <<>> /\ SubSeq(s, l + 1, n) = <<>>
            BY <3>1, SubSeqEmpty
        <3> QED BY <2>3, <3>2
    <2>5. CASE ~(l >= n)
        <3>1. m = l
            BY <1>3, <2>1, <2>5
        <3> QED BY <2>3, <3>1
    <2> QED BY <2>4, <2>5
<1>6. SubSeq(s, 1, m) \o SubSeq(s, m + 1, n) = SubSeq(s, 1, n)
    <2>1. 1 \in 1 .. Len(s) + 1 /\ m \in (1 - 1) .. Len(s) /\ n \in m .. Len(s)
        BY <1>1
    <2> QED BY <2>1, ConcatAdjacentSubSeq
<1>7. SubSeq(s, 1, n) = s
    BY <1>1, SubSeqFull
<1> QED BY <1>1, <1>4, <1>5, <1>6, <1>7

\* The parts before and behind a position.
AreHalves(s, n, i, j, a, b) ==
    /\ a = SubSeq(s, 1, i) /\ Len(a) = i /\ \A k \in 1 .. i : a[k] = s[k]
    /\ b = SubSeq(s, j, n) /\ Len(b) = n - j + 1 /\ \A k \in 1 .. n - j + 1 : b[k] = s[j + k - 1]

LEMMA HalvesAre ==
    ASSUME NEW S, NEW s \in Seq(S), NEW n \in Nat, n = Len(s), NEW i \in 0 .. n, NEW j \in 1 .. n + 1
    PROVE  \E a \in Seq(S), b \in Seq(S) : AreHalves(s, n, i, j, a, b)
<1>1. /\ SubSeq(s, 1, i) \in Seq(S) /\ Len(SubSeq(s, 1, i)) = IF 1 <= i THEN i - 1 + 1 ELSE 0
      /\ \A k \in 1 .. (i - 1 + 1) : SubSeq(s, 1, i)[k] = s[1 + k - 1]
    BY PartIs
<1>2. /\ SubSeq(s, j, n) \in Seq(S) /\ Len(SubSeq(s, j, n)) = IF j <= n THEN n - j + 1 ELSE 0
      /\ \A k \in 1 .. (n - j + 1) : SubSeq(s, j, n)[k] = s[j + k - 1]
    BY PartIs
<1>3. PICK a \in Seq(S) : a = SubSeq(s, 1, i)
    BY <1>1
<1>4. PICK b \in Seq(S) : b = SubSeq(s, j, n)
    BY <1>2
<1>5. Len(a) = i
    BY <1>1, <1>3
<1>6. \A k \in 1 .. i : a[k] = s[k]
    <2>1. \A k \in 1 .. i : k \in 1 .. (i - 1 + 1) /\ 1 + k - 1 = k
        OBVIOUS
    <2> QED BY <1>1, <1>3, <2>1
<1>7. Len(b) = n - j + 1
    BY <1>2, <1>4
<1>8. \A k \in 1 .. n - j + 1 : b[k] = s[j + k - 1]
    BY <1>2, <1>4
<1>9. AreHalves(s, n, i, j, a, b)
    BY <1>3, <1>4, <1>5, <1>6, <1>7, <1>8 DEF AreHalves
<1> QED BY <1>9

LEMMA ThreeJoined ==
    ASSUME NEW S, NEW a \in Seq(S), NEW v \in S, NEW b \in Seq(S), NEW m \in Nat, NEW n \in Nat,
           m = Len(a), n = Len(b), NEW t, t = a \o <<v>> \o b
    PROVE  /\ t \in Seq(S) /\ Len(t) = m + 1 + n
           /\ \A i \in 1 .. m : t[i] = a[i]
           /\ t[m + 1] = v
           /\ \A i \in 1 .. n : t[m + 1 + i] = b[i]
<1>1. PICK one \in Seq(S) : one = <<v>> /\ Len(one) = 1 /\ one[1] = v
    BY SingleIs
<1>2. PICK u \in Seq(S) : u = a \o one
    BY ConcatProperties
<1>3. Len(u) = m + 1
    BY <1>1, <1>2, ConcatProperties
<1>4. \A i \in 1 .. m + 1 : u[i] = IF i <= m THEN a[i] ELSE one[i - m]
    BY <1>1, <1>2, ConcatProperties
<1>5. PICK w \in Seq(S) : w = u \o b
    BY ConcatProperties
<1>6. Len(w) = m + 1 + n
    BY <1>3, <1>5, ConcatProperties, ZenonT(40)
<1>7. \A i \in 1 .. m + 1 + n : w[i] = IF i <= m + 1 THEN u[i] ELSE b[i - (m + 1)]
    BY <1>3, <1>5, ConcatProperties
<1>8. t = w
    BY <1>1, <1>2, <1>5
<1>9. ASSUME NEW i \in 1 .. m PROVE w[i] = a[i]
    <2>1. i \in 1 .. m + 1 /\ i \in 1 .. m + 1 + n /\ i <= m /\ i <= m + 1
        OBVIOUS
    <2> QED BY <1>4, <1>7, <2>1
<1>10. w[m + 1] = v
    <2>1. m + 1 \in 1 .. m + 1 /\ m + 1 \in 1 .. m + 1 + n /\ ~(m + 1 <= m) /\ m + 1 <= m + 1 /\ (m + 1) - m = 1
        OBVIOUS
    <2> QED BY <1>1, <1>4, <1>7, <2>1
<1>11. ASSUME NEW i \in 1 .. n PROVE w[m + 1 + i] = b[i]
    <2>1. m + 1 + i \in 1 .. m + 1 + n /\ ~(m + 1 + i <= m + 1) /\ (m + 1 + i) - (m + 1) = i
        OBVIOUS
    <2> QED BY <1>7, <2>1
<1> QED BY <1>6, <1>8, <1>9, <1>10, <1>11

\* Inserting moves what comes behind by one position.
HasInserted(S, s, v, n, j, t) ==
    /\ t \in Seq(S) /\ Len(t) = n + 1 /\ t[j] = v
    /\ \A i \in 1 .. j - 1 : t[i] = s[i]
    /\ \A i \in j .. n : t[i + 1] = s[i]

LEMMA InsertIs ==
    ASSUME NEW S, NEW s \in Seq(S), NEW v \in S, NEW n \in Nat, n = Len(s), NEW j \in 1 .. n + 1,
           NEW t, t = InsertAt(s, j, v)
    PROVE  HasInserted(S, s, v, n, j, t)
<1>1. PICK i \in 0 .. n : i = j - 1
    OBVIOUS
<1>2. PICK a \in Seq(S), b \in Seq(S) : AreHalves(s, n, i, j, a, b)
    BY HalvesAre
<1>3. t = a \o <<v>> \o b
    BY <1>1, <1>2 DEF InsertAt, AreHalves
<1>4. n - j + 1 \in Nat
    OBVIOUS
<1>5. PICK m \in Nat : m = n - j + 1
    BY <1>4
<1>6. /\ t \in Seq(S) /\ Len(t) = i + 1 + m
      /\ \A k \in 1 .. i : t[k] = a[k]
      /\ t[i + 1] = v
      /\ \A k \in 1 .. m : t[i + 1 + k] = b[k]
    <2>1. i \in Nat /\ i = Len(a) /\ m = Len(b)
        BY <1>2, <1>5 DEF AreHalves
    <2> QED BY <1>3, <2>1, ThreeJoined
<1>7. Len(t) = n + 1 /\ t[j] = v
    <2>1. i + 1 + m = n + 1 /\ i + 1 = j
        BY <1>1, <1>5
    <2> QED BY <1>6, <2>1
<1>8. ASSUME NEW k \in 1 .. j - 1 PROVE t[k] = s[k]
    <2>1. k \in 1 .. i
        BY <1>1
    <2> QED BY <1>2, <1>6, <2>1 DEF AreHalves
<1>9. ASSUME NEW k \in j .. n PROVE t[k + 1] = s[k]
    <2>1. k - i \in 1 .. m /\ i + 1 + (k - i) = k + 1 /\ j + (k - i) - 1 = k
        BY <1>1, <1>5
    <2>2. PICK l \in 1 .. m : l = k - i
        BY <2>1
    <2>3. i + 1 + l = k + 1 /\ j + l - 1 = k /\ l \in 1 .. n - j + 1
        BY <1>5, <2>1, <2>2
    <2>4. t[i + 1 + l] = b[l]
        BY <1>6
    <2>5. b[l] = s[j + l - 1]
        BY <1>2, <2>3 DEF AreHalves
    <2> QED BY <2>3, <2>4, <2>5
<1> QED BY <1>6, <1>7, <1>8, <1>9 DEF HasInserted

HasRemoved(S, s, n, j, t) ==
    /\ t \in Seq(S) /\ Len(t) = n - 1
    /\ \A i \in 1 .. j - 1 : t[i] = s[i]
    /\ \A i \in j .. n - 1 : t[i] = s[i + 1]

LEMMA RemoveIs ==
    ASSUME NEW S, NEW s \in Seq(S), NEW n \in Nat, n = Len(s), NEW j \in 1 .. n,
           NEW t, t = RemoveAt(s, j)
    PROVE  HasRemoved(S, s, n, j, t)
<1>1. PICK i \in 0 .. n, l \in 1 .. n + 1 : i = j - 1 /\ l = j + 1
    OBVIOUS
<1>2. PICK a \in Seq(S), b \in Seq(S) : AreHalves(s, n, i, l, a, b)
    BY HalvesAre
<1>3. t = a \o b
    BY <1>1, <1>2 DEF RemoveAt, AreHalves
<1>4. n - l + 1 \in Nat
    BY <1>1
<1>5. PICK m \in Nat : m = n - l + 1
    BY <1>4
<1>6. Len(a) = i /\ Len(b) = m /\ i + m = n - 1
    BY <1>1, <1>2, <1>5 DEF AreHalves
<1>7. /\ a \o b \in Seq(S) /\ Len(a \o b) = Len(a) + Len(b)
      /\ \A k \in 1 .. Len(a) + Len(b) : (a \o b)[k] = IF k <= Len(a) THEN a[k] ELSE b[k - Len(a)]
    BY ConcatProperties
<1>8. t \in Seq(S) /\ Len(t) = n - 1
    BY <1>3, <1>6, <1>7
<1>9. \A k \in 1 .. i + m : t[k] = IF k <= i THEN a[k] ELSE b[k - i]
    BY <1>3, <1>6, <1>7
<1>10. ASSUME NEW k \in 1 .. j - 1 PROVE t[k] = s[k]
    <2>1. k \in 1 .. i /\ k \in 1 .. i + m /\ k <= i
        BY <1>1, <1>6
    <2> QED BY <1>2, <1>9, <2>1 DEF AreHalves
<1>11. ASSUME NEW k \in j .. n - 1 PROVE t[k] = s[k + 1]
    <2>1. k - i \in 1 .. m /\ l + (k - i) - 1 = k + 1 /\ k \in 1 .. i + m /\ ~(k <= i)
        BY <1>1, <1>5, <1>6
    <2>2. PICK h \in 1 .. m : h = k - i
        BY <2>1
    <2>3. l + h - 1 = k + 1 /\ h \in 1 .. n - l + 1
        BY <1>5, <2>1, <2>2
    <2>4. t[k] = b[h]
        BY <1>9, <2>1, <2>2
    <2>5. b[h] = s[l + h - 1]
        BY <1>2, <2>3 DEF AreHalves
    <2> QED BY <2>3, <2>4, <2>5
<1> QED BY <1>8, <1>10, <1>11 DEF HasRemoved

\* What is inserted can be removed again, at the same place.
LEMMA InsertedIsRemoved ==
    ASSUME NEW S, NEW s \in Seq(S), NEW v \in S, NEW k \in Int
    PROVE  /\ Len(list_insert_method(s, k, v)) = Len(s) + 1
           /\ k >= 0 /\ k <= Len(s) => list_remove_method(list_insert_method(s, k, v), k) = <<s, v>>
<1>1. PICK n \in Nat : n = Len(s)
    BY LenProperties
<1>2. PICK i \in 0 .. n : i = Highest(n, Lowest(n, k)) /\ (k >= 0 /\ k <= n => i = k)
    <2>1. PICK l \in Nat : l = Lowest(n, k) /\ (k >= 0 => l = k)
        BY DEF Lowest, Backwards
    <2>2. Highest(n, l) \in 0 .. n /\ (l <= n => Highest(n, l) = l)
        BY DEF Highest, Backwards
    <2> QED BY <2>1, <2>2
<1>3. PICK j \in 1 .. n + 1 : j = i + 1
    OBVIOUS
<1>4. PICK t : t = InsertAt(s, j, v)
    OBVIOUS
<1>5. /\ t \in Seq(S) /\ Len(t) = n + 1 /\ t[j] = v
      /\ \A h \in 1 .. j - 1 : t[h] = s[h]
      /\ \A h \in j .. n : t[h + 1] = s[h]
    <2>1. HasInserted(S, s, v, n, j, t)
        BY <1>1, <1>4, InsertIs
    <2> QED BY <2>1 DEF HasInserted
<1>6. list_insert_method(s, k, v) = t
    BY <1>1, <1>2, <1>3, <1>4 DEF list_insert_method
<1>7. ASSUME k >= 0, k <= n PROVE list_remove_method(t, k) = <<s, v>>
    <2>1. PICK m \in Nat : m = n + 1
        OBVIOUS
    <2>2. Backwards(Len(t), k) = k /\ ~(k < 0) /\ ~(k >= Len(t)) /\ k + 1 = j
        BY <1>2, <1>3, <1>5, <1>7 DEF Backwards
    <2>3. list_remove_method(t, k) = <<RemoveAt(t, j), t[j]>>
        BY <2>2 DEF list_remove_method
    <2>4. PICK u : u = RemoveAt(t, j)
        OBVIOUS
    <2>5. m = Len(t) /\ j \in 1 .. m /\ m - 1 = n
        BY <1>5, <2>1
    <2>6. /\ u \in Seq(S) /\ Len(u) = m - 1
          /\ \A h \in 1 .. j - 1 : u[h] = t[h]
          /\ \A h \in j .. m - 1 : u[h] = t[h + 1]
        <3>1. HasRemoved(S, t, m, j, u)
            BY <1>5, <2>4, <2>5, RemoveIs
        <3> QED BY <3>1 DEF HasRemoved
    <2>7. ASSUME NEW h \in 1 .. n PROVE u[h] = s[h]
        <3>1. CASE h <= j - 1
            BY <1>5, <2>6, <3>1
        <3>2. CASE ~(h <= j - 1)
            <4>1. h \in j .. n /\ h \in j .. m - 1
                BY <2>5, <3>2
            <4> QED BY <1>5, <2>6, <4>1
        <3> QED BY <3>1, <3>2
    <2>8. Len(u) = Len(s)
        BY <1>1, <2>5, <2>6
    <2>9. u = s
        BY <1>1, <2>6, <2>7, <2>8, SeqEqual
    <2> QED BY <1>5, <2>3, <2>4, <2>9
<1> QED BY <1>1, <1>5, <1>6, <1>7

\* What is put at an end can be taken from there again.
LEMMA EndsTaken ==
    ASSUME NEW S, NEW s \in Seq(S), NEW v \in S
    PROVE  /\ list_shift_method(list_unshift_method(s, <<v>>)) = <<s, v>>
           /\ pop(list_push_method(s, <<v>>)) = <<s, v>>
<1>1. PICK n \in Nat : n = Len(s)
    BY LenProperties
<1>2. PICK one \in Seq(S) : one = <<v>> /\ Len(one) = 1 /\ one[1] = v
    BY SingleIs
<1>3. PICK u \in Seq(S) : /\ u = one \o s /\ Len(u) = 1 + n
                          /\ \A i \in 1 .. 1 + n : u[i] = IF i <= 1 THEN one[i] ELSE s[i - 1]
    <2>1. /\ one \o s \in Seq(S) /\ Len(one \o s) = Len(one) + Len(s)
          /\ \A i \in 1 .. Len(one) + Len(s) : (one \o s)[i] = IF i <= Len(one) THEN one[i] ELSE s[i - Len(one)]
        BY ConcatProperties
    <2> QED BY <1>1, <1>2, <2>1
<1>4. PICK t \in Seq(S) : /\ t = s \o one /\ Len(t) = n + 1
                          /\ \A i \in 1 .. n + 1 : t[i] = IF i <= n THEN s[i] ELSE one[i - n]
    <2>1. /\ s \o one \in Seq(S) /\ Len(s \o one) = Len(s) + Len(one)
          /\ \A i \in 1 .. Len(s) + Len(one) : (s \o one)[i] = IF i <= Len(s) THEN s[i] ELSE one[i - Len(s)]
        BY ConcatProperties
    <2> QED BY <1>1, <1>2, <2>1
<1>5. u # <<>> /\ t # <<>>
    BY <1>3, <1>4, EmptySeq
<1>6. list_shift_method(u) = <<s, v>>
    <2>1. PICK r : r = Tail(u)
        OBVIOUS
    <2>2. r \in Seq(S) /\ Len(r) = n /\ \A i \in 1 .. n : r[i] = u[i + 1]
        <3>1. Tail(u) \in Seq(S) /\ Len(Tail(u)) = Len(u) - 1 /\ \A i \in 1 .. Len(Tail(u)) : Tail(u)[i] = u[i + 1]
            BY <1>5, HeadTailProperties
        <3>2. Len(u) - 1 = n
            BY <1>3
        <3> QED BY <2>1, <3>1, <3>2
    <2>3. ASSUME NEW i \in 1 .. n PROVE r[i] = s[i]
        <3>1. i + 1 \in 1 .. 1 + n /\ ~(i + 1 <= 1) /\ (i + 1) - 1 = i
            OBVIOUS
        <3> QED BY <1>3, <2>2, <3>1
    <2>4. r = s
        BY <1>1, <2>2, <2>3, SeqEqual
    <2>5. u[1] = v
        <3>1. 1 \in 1 .. 1 + n /\ 1 <= 1
            OBVIOUS
        <3> QED BY <1>2, <1>3, <3>1
    <2>6. Head(u) = v
        BY <1>5, <2>5
    <2> QED BY <1>5, <2>1, <2>4, <2>6 DEF list_shift_method
<1>7. pop(t) = <<s, v>>
    <2>1. PICK r : r = SubSeq(t, 1, n)
        OBVIOUS
    <2>2. /\ SubSeq(t, 1, n) \in Seq(S) /\ Len(SubSeq(t, 1, n)) = IF 1 <= n THEN n - 1 + 1 ELSE 0
          /\ \A k \in 1 .. (n - 1 + 1) : SubSeq(t, 1, n)[k] = t[1 + k - 1]
        <3>1. n <= Len(t) /\ n \in Int /\ 1 \in Int /\ 1 <= 1
            BY <1>4
        <3> QED BY <3>1, PartIs
    <2>3. r \in Seq(S) /\ Len(r) = n
        BY <2>1, <2>2
    <2>4. ASSUME NEW i \in 1 .. n PROVE r[i] = s[i]
        <3>1. i \in 1 .. (n - 1 + 1) /\ 1 + i - 1 = i /\ i <= n /\ i \in 1 .. n + 1
            OBVIOUS
        <3> QED BY <1>4, <2>1, <2>2, <3>1
    <2>5. r = s
        BY <1>1, <2>3, <2>4, SeqEqual
    <2>6. n + 1 \in 1 .. n + 1 /\ ~(n + 1 <= n) /\ (n + 1) - n = 1 /\ (n + 1) - 1 = n
        OBVIOUS
    <2>7. t[n + 1] = v
        BY <1>2, <1>4, <2>6
    <2>8. Front(t) = s /\ Last(t) = v
        BY <1>4, <2>1, <2>5, <2>6, <2>7 DEF Front, Last
    <2> QED BY <1>5, <2>8 DEF pop
<1> QED BY <1>2, <1>3, <1>4, <1>6, <1>7 DEF list_shift_method, list_unshift_method, pop, list_push_method

\* Removing at -1 takes the last element.
LEMMA LastRemoved ==
    ASSUME NEW S, NEW s \in Seq(S), s # <<>>
    PROVE  list_remove_method(s, -1) = pop(s)
<1>1. PICK n \in Nat : n = Len(s)
    BY LenProperties
<1>2. n >= 1
    BY <1>1, EmptySeq
<1>3. Backwards(n, -1) = n - 1
    BY DEF Backwards
<1>4. list_remove_method(s, -1) = <<RemoveAt(s, n), s[n]>>
    <2>1. ~(n - 1 < 0) /\ ~(n - 1 >= n) /\ (n - 1) + 1 = n
        BY <1>2
    <2> QED BY <1>1, <1>3, <2>1 DEF list_remove_method
<1>5. PICK t : t = RemoveAt(s, n)
    OBVIOUS
<1>6. /\ t \in Seq(S) /\ Len(t) = n - 1
      /\ \A i \in 1 .. n - 1 : t[i] = s[i]
    <2>1. n \in 1 .. n
        BY <1>2
    <2>2. HasRemoved(S, s, n, n, t)
        BY <1>1, <1>5, <2>1, RemoveIs
    <2> QED BY <2>2 DEF HasRemoved
<1>7. PICK m \in Nat : m = n - 1
    <2>1. n - 1 \in Nat
        BY <1>2
    <2> QED BY <2>1
<1>8. PICK r : r = SubSeq(s, 1, m)
    OBVIOUS
<1>9. /\ SubSeq(s, 1, m) \in Seq(S) /\ Len(SubSeq(s, 1, m)) = IF 1 <= m THEN m - 1 + 1 ELSE 0
      /\ \A k \in 1 .. (m - 1 + 1) : SubSeq(s, 1, m)[k] = s[1 + k - 1]
    <2>1. m <= Len(s)
        BY <1>1, <1>7
    <2> QED BY <2>1, PartIs
<1>10. r \in Seq(S) /\ Len(r) = m
    BY <1>8, <1>9
<1>11. ASSUME NEW i \in 1 .. m PROVE t[i] = r[i]
    <2>1. i \in 1 .. (m - 1 + 1) /\ 1 + i - 1 = i /\ i \in 1 .. n - 1
        BY <1>7
    <2> QED BY <1>6, <1>8, <1>9, <2>1
<1>12. Len(t) = m
    BY <1>6, <1>7
<1>13. t = r
    BY <1>6, <1>10, <1>11, <1>12, SeqEqual
<1>14. Front(s) = r /\ Last(s) = s[n]
    BY <1>1, <1>7, <1>8 DEF Front, Last
<1> QED BY <1>4, <1>5, <1>13, <1>14 DEF pop

(* Sorting. *)

InOrder(s) == \A i \in 1 .. Len(s) - 1 : value_compare(s[i], s[i + 1]) <= 0

\* v is inserted before the first value that is greater.
LEMMA InsertPlace ==
    ASSUME NEW s \in Seq(ScalarValues), NEW v \in ScalarValues, NEW n \in Nat, n = Len(s)
    PROVE  \E j \in 1 .. n + 1 :
              /\ Insert(s, v) = InsertAt(s, j, v)
              /\ \A i \in 1 .. j - 1 : value_compare(s[i], v) <= 0
              /\ j <= n => value_compare(s[j], v) > 0
<1>1. DOMAIN s = 1 .. n /\ \A i \in 1 .. n : s[i] \in ScalarValues
    BY LenProperties
<1>2. PICK later : later = {i \in DOMAIN s : value_compare(s[i], v) > 0}
    OBVIOUS
<1>3. later \in SUBSET Nat /\ later \subseteq 1 .. n
    BY <1>1, <1>2
<1>4. Insert(s, v) = InsertAt(s, IF later = {} THEN Len(s) + 1 ELSE Min(later), v)
    BY <1>2 DEF Insert
<1>5. ASSUME NEW i \in 1 .. n, i \notin later PROVE value_compare(s[i], v) <= 0
    <2>1. value_compare(s[i], v) \in Int
        BY <1>1, CompareIs
    <2>2. ~(value_compare(s[i], v) > 0)
        BY <1>1, <1>2, <1>5
    <2> QED BY <2>1, <2>2
<1>6. CASE later = {}
    <2>1. n + 1 \in 1 .. n + 1 /\ ~(n + 1 <= n) /\ (n + 1) - 1 = n
        OBVIOUS
    <2>2. PICK j \in 1 .. n + 1 : j = n + 1 /\ j - 1 = n /\ ~(j <= n)
        BY <2>1
    <2>3. Insert(s, v) = InsertAt(s, j, v)
        BY <1>4, <1>6, <2>2
    <2>4. \A i \in 1 .. j - 1 : value_compare(s[i], v) <= 0
        BY <1>5, <1>6, <2>2
    <2> QED BY <2>2, <2>3, <2>4
<1>7. CASE later # {}
    <2>1. PICK j : j = Min(later)
        OBVIOUS
    <2>2. j \in later /\ \A y \in later : j <= y
        BY <1>3, <1>7, <2>1, LeastNumber DEF Min
    <2>3. j \in 1 .. n
        BY <1>3, <2>2
    <2>4. Insert(s, v) = InsertAt(s, j, v)
        BY <1>4, <1>7, <2>1
    <2>5. value_compare(s[j], v) > 0
        BY <1>2, <2>2
    <2>6. \A i \in 1 .. j - 1 : i \in 1 .. n /\ i \notin later
        BY <2>2, <2>3
    <2>7. \A i \in 1 .. j - 1 : value_compare(s[i], v) <= 0
        BY <1>5, <2>6
    <2>8. j \in 1 .. n + 1
        BY <2>3
    <2> QED BY <2>4, <2>5, <2>7, <2>8
<1> QED BY <1>6, <1>7

LEMMA Opposite ==
    ASSUME NEW a \in ScalarValues, NEW b \in ScalarValues, value_compare(a, b) > 0
    PROVE  value_compare(b, a) <= 0
<1>1. PICK x \in Int, y \in Int : x = value_compare(a, b) /\ y = value_compare(b, a)
    BY CompareIs
<1>2. Sign(x, 0) = -Sign(y, 0)
    <2>1. OrderLaws(a, b, b)
        BY OrderAgrees
    <2> QED BY <1>1, <2>1 DEF OrderLaws
<1>3. x > 0
    BY <1>1
<1>4. y <= 0
    BY <1>2, <1>3 DEF Sign
<1> QED BY <1>1, <1>4

LEMMA InsertKeepsOrder ==
    ASSUME NEW s \in Seq(ScalarValues), NEW v \in ScalarValues, InOrder(s)
    PROVE  Insert(s, v) \in Seq(ScalarValues) /\ InOrder(Insert(s, v))
<1>1. PICK n \in Nat : n = Len(s)
    BY LenProperties
<1>2. \A i \in 1 .. n : s[i] \in ScalarValues
    BY <1>1, LenProperties
<1>3. PICK j \in 1 .. n + 1 :
              /\ Insert(s, v) = InsertAt(s, j, v)
              /\ \A i \in 1 .. j - 1 : value_compare(s[i], v) <= 0
              /\ j <= n => value_compare(s[j], v) > 0
    BY <1>1, InsertPlace
<1>4. PICK t : t = InsertAt(s, j, v)
    OBVIOUS
<1>5. /\ t \in Seq(ScalarValues) /\ Len(t) = n + 1 /\ t[j] = v
      /\ \A i \in 1 .. j - 1 : t[i] = s[i]
      /\ \A i \in j .. n : t[i + 1] = s[i]
    <2>1. HasInserted(ScalarValues, s, v, n, j, t)
        BY <1>1, <1>4, InsertIs
    <2> QED BY <2>1 DEF HasInserted
<1>6. \A i \in 1 .. n - 1 : value_compare(s[i], s[i + 1]) <= 0
    BY <1>1 DEF InOrder
<1>7. ASSUME NEW i \in 1 .. n PROVE value_compare(t[i], t[i + 1]) <= 0
    <2>1. CASE i < j - 1
        <3>1. i \in 1 .. j - 1 /\ i + 1 \in 1 .. j - 1 /\ i \in 1 .. n - 1
            BY <2>1
        <3>2. t[i] = s[i] /\ t[i + 1] = s[i + 1]
            BY <1>5, <3>1
        <3> QED BY <1>6, <3>1, <3>2
    <2>2. CASE i = j - 1
        <3>1. i \in 1 .. j - 1 /\ i + 1 = j
            BY <2>2
        <3>2. t[i] = s[i] /\ t[i + 1] = v
            BY <1>5, <3>1
        <3> QED BY <1>3, <3>1, <3>2
    <2>3. CASE i = j
        <3>1. j \in j .. n /\ j <= n /\ j \in 1 .. n
            BY <2>3
        <3>2. t[i] = v /\ t[i + 1] = s[j]
            BY <1>5, <2>3, <3>1
        <3>3. value_compare(v, s[j]) <= 0
            BY <1>2, <1>3, <3>1, Opposite
        <3> QED BY <3>2, <3>3
    <2>4. CASE i > j
        <3>1. i - 1 \in j .. n /\ i \in j .. n /\ (i - 1) + 1 = i /\ i - 1 \in 1 .. n - 1
            BY <2>4
        <3>2. PICK h \in 1 .. n - 1 : h = i - 1
            BY <3>1
        <3>3. h \in j .. n /\ h + 1 = i
            BY <3>1, <3>2
        <3>4. t[i] = s[h] /\ t[i + 1] = s[i]
            BY <1>5, <3>1, <3>3
        <3>5. value_compare(s[h], s[h + 1]) <= 0
            BY <1>6
        <3> QED BY <3>3, <3>4, <3>5
    <2> QED BY <2>1, <2>2, <2>3, <2>4
<1>8. InOrder(t)
    <2>1. (n + 1) - 1 = n
        OBVIOUS
    <2> QED BY <1>5, <1>7, <2>1 DEF InOrder
<1> QED BY <1>3, <1>4, <1>5, <1>8

LEMMA AreInBijection ==
    ASSUME NEW S, NEW T, NEW F \in [S -> T],
           \A x, y \in S : F[x] = F[y] => x = y, \A y \in T : \E x \in S : F[x] = y
    PROVE  ExistsBijection(S, T)
BY DEF ExistsBijection, Bijection, Injection, Surjection, IsInjective

LEMMA AtIsFinite ==
    ASSUME NEW S, NEW s \in Seq(S), NEW x
    PROVE  IsFiniteSet(At(s, x)) /\ At(s, x) = {i \in 1 .. Len(s) : s[i] = x}
<1>1. PICK n \in Nat : n = Len(s) /\ DOMAIN s = 1 .. n
    BY LenProperties
<1>2. PICK A : A = {i \in 1 .. n : s[i] = x}
    OBVIOUS
<1>3. At(s, x) = A
    BY <1>1, <1>2 DEF At
<1>4. IsFiniteSet(1 .. n)
    BY FS_Interval
<1>5. A \in SUBSET (1 .. n)
    BY <1>2
<1>6. IsFiniteSet(A)
    BY <1>4, <1>5, FS_Subset
<1> QED BY <1>1, <1>2, <1>3, <1>6

\* One more of v, as many as before of every other value.
LEMMA InsertCounts ==
    ASSUME NEW S, NEW s \in Seq(S), NEW v \in S, NEW n \in Nat, n = Len(s), NEW j \in 1 .. n + 1, NEW x
    PROVE  Cardinality(At(InsertAt(s, j, v), x)) = Cardinality(At(s, x)) + (IF x = v THEN 1 ELSE 0)
<1>1. PICK t : t = InsertAt(s, j, v)
    OBVIOUS
<1>2. /\ t \in Seq(S) /\ Len(t) = n + 1 /\ t[j] = v
      /\ \A i \in 1 .. j - 1 : t[i] = s[i]
      /\ \A i \in j .. n : t[i + 1] = s[i]
    <2>1. HasInserted(S, s, v, n, j, t)
        BY <1>1, InsertIs
    <2> QED BY <2>1 DEF HasInserted
<1>3. PICK A : A = At(s, x) /\ IsFiniteSet(A) /\ A = {i \in 1 .. n : s[i] = x}
    BY AtIsFinite
<1>4. PICK B : B = At(t, x) /\ IsFiniteSet(B) /\ B = {i \in 1 .. n + 1 : t[i] = x}
    BY <1>2, AtIsFinite
<1>5. PICK C : C = B \ {j}
    OBVIOUS
<1>6. PICK F : F = [i \in A |-> IF i < j THEN i ELSE i + 1]
    OBVIOUS
<1>7. ASSUME NEW i \in A PROVE F[i] \in C
    <2>1. i \in 1 .. n /\ s[i] = x
        BY <1>3
    <2>2. CASE i < j
        <3>1. i \in 1 .. j - 1 /\ i \in 1 .. n + 1 /\ i # j
            BY <2>1, <2>2
        <3> QED BY <1>2, <1>4, <1>5, <1>6, <2>1, <2>2, <3>1
    <2>3. CASE ~(i < j)
        <3>1. i \in j .. n /\ i + 1 \in 1 .. n + 1 /\ i + 1 # j
            BY <2>1, <2>3
        <3>2. t[i + 1] = x
            BY <1>2, <2>1, <3>1
        <3>3. i + 1 \in C
            BY <1>4, <1>5, <3>1, <3>2
        <3> QED BY <1>6, <2>3, <3>3
    <2> QED BY <2>2, <2>3
<1>8. F \in [A -> C]
    BY <1>6, <1>7
<1>9. \A a, b \in A : F[a] = F[b] => a = b
    <2>1. A \subseteq 1 .. n
        BY <1>3
    <2> QED BY <1>6, <2>1
<1>10. ASSUME NEW y \in C PROVE \E a \in A : F[a] = y
    <2>1. y \in 1 .. n + 1 /\ t[y] = x /\ y # j
        BY <1>4, <1>5
    <2>2. CASE y < j
        <3>1. y \in 1 .. j - 1 /\ y \in 1 .. n
            BY <2>1, <2>2
        <3>2. y \in A
            BY <1>2, <1>3, <2>1, <3>1
        <3> QED BY <1>6, <2>2, <3>2
    <2>3. CASE ~(y < j)
        <3>1. y - 1 \in j .. n /\ (y - 1) + 1 = y /\ y - 1 \in 1 .. n /\ ~(y - 1 < j)
            BY <2>1, <2>3
        <3>2. PICK h \in j .. n : h = y - 1
            BY <3>1
        <3>3. h + 1 = y /\ h \in 1 .. n /\ ~(h < j)
            BY <3>1, <3>2
        <3>4. s[h] = x
            BY <1>2, <2>1, <3>3
        <3>5. h \in A
            BY <1>3, <3>3, <3>4
        <3> QED BY <1>6, <3>3, <3>5
    <2> QED BY <2>2, <2>3
<1>11. Cardinality(C) = Cardinality(A)
    <2>1. ExistsBijection(A, C)
        BY <1>8, <1>9, <1>10, AreInBijection
    <2> QED BY <1>3, <2>1, FS_Bijection
<1>12. j \in B <=> x = v
    <2>1. j \in 1 .. n + 1
        OBVIOUS
    <2> QED BY <1>2, <1>4, <2>1
<1>13. Cardinality(C) = IF j \in B THEN Cardinality(B) - 1 ELSE Cardinality(B)
    BY <1>4, <1>5, FS_RemoveElement
<1>14. Cardinality(A) \in Nat /\ Cardinality(B) \in Nat
    BY <1>3, <1>4, FS_CardinalityType
<1>15. Cardinality(B) = Cardinality(A) + (IF x = v THEN 1 ELSE 0)
    <2>1. CASE x = v
        BY <1>11, <1>12, <1>13, <1>14, <2>1
    <2>2. CASE x # v
        BY <1>11, <1>12, <1>13, <1>14, <2>2
    <2> QED BY <2>1, <2>2
<1> QED BY <1>1, <1>3, <1>4, <1>15

SortedBody(list, sorted, i) == IF i = 0 THEN <<>> ELSE Insert(sorted[i - 1], list[i])

LEMMA InsertStays ==
    ASSUME NEW s \in Seq(ScalarValues), NEW v \in ScalarValues
    PROVE  Insert(s, v) \in Seq(ScalarValues)
<1>1. PICK n \in Nat : n = Len(s)
    BY LenProperties
<1>2. PICK j \in 1 .. n + 1 : Insert(s, v) = InsertAt(s, j, v)
    BY <1>1, InsertPlace
<1>3. PICK t : t = InsertAt(s, j, v)
    OBVIOUS
<1>4. HasInserted(ScalarValues, s, v, n, j, t)
    BY <1>1, <1>3, InsertIs
<1> QED BY <1>2, <1>3, <1>4 DEF HasInserted

LEMMA SortedIs ==
    ASSUME NEW list \in Seq(ScalarValues)
    PROVE  \E g : /\ list_sort_method(list) = g[Len(list)]
                  /\ \A i \in 0 .. Len(list) : g[i] = SortedBody(list, g, i)
<1>1. PICK l \in Nat : l = Len(list)
    BY LenProperties
<1>2. \A i \in 1 .. l : list[i] \in ScalarValues
    BY <1>1, LenProperties
<1> DEFINE V == Seq(ScalarValues)
<1> DEFINE step == [x \in (1 .. l) \X V |-> Insert(x[2], list[x[1]])]
<1>3. step \in [(1 .. l) \X V -> V]
    <2>1. ASSUME NEW x \in (1 .. l) \X V PROVE Insert(x[2], list[x[1]]) \in V
        BY <1>2, InsertStays
    <2> HIDE DEF V
    <2> QED BY <2>1
<1>4. PICK f \in [0 .. l -> V] : \A i \in 0 .. l : f[i] = IF i = 0 THEN <<>> ELSE step[<<i, f[i - 1]>>]
    <2>1. PICK zero \in V : zero = <<>>
        BY EmptySeq
    <2>3. PICK f \in [0 .. l -> V] : RecursUp(f, l, zero, step)
        <3> HIDE DEF step, V
        <3> QED BY <1>3, RecursionUp
    <2>4. \A i \in 0 .. l : f[i] = IF i = 0 THEN zero ELSE step[<<i, f[i - 1]>>]
        <3> HIDE DEF step
        <3> QED BY <2>3 DEF RecursUp
    <2> QED BY <2>1, <2>3, <2>4
<1>5. ASSUME NEW i \in 0 .. l PROVE f[i] = SortedBody(list, f, i)
    <2>1. f[i] = IF i = 0 THEN <<>> ELSE step[<<i, f[i - 1]>>]
        BY <1>4
    <2>2. CASE i = 0
        BY <2>1, <2>2 DEF SortedBody
    <2>3. CASE i # 0
        <3> HIDE DEF V
        <3>1. PICK w \in V : w = f[i - 1]
            BY <2>3
        <3>2. step[<<i, w>>] = Insert(w, list[i])
            BY <2>3
        <3> QED BY <2>1, <2>3, <3>1, <3>2 DEF SortedBody
    <2> QED BY <2>2, <2>3
<1>6. f = [i \in 0 .. l |-> SortedBody(list, f, i)]
    BY <1>5
<1>7. PICK g : g = (CHOOSE h : h = [i \in 0 .. l |-> SortedBody(list, h, i)])
    OBVIOUS
<1>8. g = [i \in 0 .. l |-> SortedBody(list, g, i)]
    BY <1>6, <1>7
<1>9. list_sort_method(list) = g[l]
    BY <1>1, <1>7 DEF list_sort_method, SortedBody
<1> QED BY <1>1, <1>8, <1>9

\* The result of sort is in order, and holds every value as often as the list.
LEMMA SortAgrees ==
    ASSUME NEW list \in Seq(ScalarValues)
    PROVE  /\ list_sort_method(list) \in Seq(ScalarValues)
           /\ Len(list_sort_method(list)) = Len(list)
           /\ InOrder(list_sort_method(list))
           /\ \A x : Cardinality(At(list_sort_method(list), x)) = Cardinality(At(list, x))
<1>1. PICK l \in Nat : l = Len(list)
    BY LenProperties
<1>2. \A i \in 1 .. l : list[i] \in ScalarValues
    BY <1>1, LenProperties
<1>3. PICK g : /\ list_sort_method(list) = g[l]
               /\ \A i \in 0 .. l : g[i] = SortedBody(list, g, i)
    BY <1>1, SortedIs
<1> DEFINE Earlier(i, x) == {k \in 1 .. i : list[k] = x}
<1> DEFINE T == {i \in 0 .. l : /\ g[i] \in Seq(ScalarValues) /\ Len(g[i]) = i /\ InOrder(g[i])
                                /\ \A x : Cardinality(At(g[i], x)) = Cardinality(Earlier(i, x))}
<1>4. 0 \in T
    <2>1. PICK none : none = <<>>
        OBVIOUS
    <2>2. none \in Seq(ScalarValues) /\ Len(none) = 0 /\ DOMAIN none = {}
        BY <2>1
    <2>3. InOrder(none)
        <3>1. \A i \in 1 .. 0 - 1 : FALSE
            OBVIOUS
        <3> QED BY <2>2, <3>1 DEF InOrder
    <2>4. ASSUME NEW x PROVE At(none, x) = Earlier(0, x)
        BY <2>2 DEF At
    <2>5. g[0] = none
        <3>1. 0 \in 0 .. l
            OBVIOUS
        <3> QED BY <1>3, <2>1, <3>1 DEF SortedBody
    <2>6. \A x : Cardinality(At(g[0], x)) = Cardinality(Earlier(0, x))
        BY <2>4, <2>5
    <2>7. g[0] \in Seq(ScalarValues) /\ Len(g[0]) = 0 /\ InOrder(g[0]) /\ 0 \in 0 .. l
        BY <2>2, <2>3, <2>5
    <2> HIDE DEF Earlier
    <2> QED BY <2>6, <2>7
<1>5. ASSUME NEW i \in 0 .. l, i # 0, i - 1 \in T PROVE i \in T
    <2>1. PICK h \in 0 .. l : h = i - 1 /\ h + 1 = i
        BY <1>5
    <2>2. PICK s \in Seq(ScalarValues) : s = g[h] /\ Len(s) = h /\ InOrder(s)
        BY <1>5, <2>1
    <2>3. ASSUME NEW x PROVE Cardinality(At(s, x)) = Cardinality(Earlier(h, x))
        <3>1. h \in T
            BY <1>5, <2>1
        <3> QED BY <2>2, <3>1
    <2>4. PICK v \in ScalarValues : v = list[i]
        BY <1>2, <1>5
    <2>5. g[i] = Insert(s, v)
        BY <1>3, <1>5, <2>1, <2>2, <2>4 DEF SortedBody
    <2>6. Insert(s, v) \in Seq(ScalarValues) /\ InOrder(Insert(s, v))
        BY <2>2, InsertKeepsOrder
    <2>7. PICK j \in 1 .. h + 1 : Insert(s, v) = InsertAt(s, j, v)
        BY <2>2, InsertPlace
    <2>8. PICK t : t = InsertAt(s, j, v)
        OBVIOUS
    <2>9. Len(t) = h + 1
        <3>1. HasInserted(ScalarValues, s, v, h, j, t)
            BY <2>2, <2>8, InsertIs
        <3> QED BY <3>1 DEF HasInserted
    <2>10. ASSUME NEW x PROVE Cardinality(At(t, x)) = Cardinality(Earlier(i, x))
        <3>1. Cardinality(At(t, x)) = Cardinality(At(s, x)) + (IF x = v THEN 1 ELSE 0)
            BY <2>2, <2>8, InsertCounts
        <3>2. PICK A : A = Earlier(h, x)
            OBVIOUS
        <3>3. IsFiniteSet(A) /\ Cardinality(A) \in Nat
            <4>1. IsFiniteSet(1 .. h) /\ A \in SUBSET (1 .. h)
                BY <3>2, FS_Interval
            <4>2. IsFiniteSet(A)
                BY <4>1, FS_Subset
            <4> QED BY <4>2, FS_CardinalityType
        <3>4. Cardinality(At(s, x)) = Cardinality(A)
            BY <2>3, <3>2
        <3>5. CASE x = v
            <4>1. Earlier(i, x) = A \cup {i}
                BY <1>5, <2>1, <2>4, <3>2, <3>5
            <4>2. i \notin A
                BY <2>1, <3>2
            <4>3. Cardinality(A \cup {i}) = Cardinality(A) + 1
                BY <3>3, <4>2, FS_AddElement
            <4> QED BY <3>1, <3>4, <3>5, <4>1, <4>3
        <3>6. CASE x # v
            <4>1. Earlier(i, x) = A
                BY <1>5, <2>1, <2>4, <3>2, <3>6
            <4>2. PICK c \in Nat : c = Cardinality(A)
                BY <3>3
            <4>3. Cardinality(At(t, x)) = c + 0
                BY <3>1, <3>4, <3>6, <4>2
            <4>4. c + 0 = c
                OBVIOUS
            <4> HIDE DEF Earlier
            <4> QED BY <4>1, <4>2, <4>3, <4>4
        <3> QED BY <3>5, <3>6
    <2>11. g[i] = t
        BY <2>5, <2>7, <2>8
    <2>12. g[i] \in Seq(ScalarValues) /\ InOrder(g[i])
        BY <2>5, <2>6
    <2>13. Len(g[i]) = i
        BY <2>1, <2>9, <2>11
    <2>14. \A x : Cardinality(At(g[i], x)) = Cardinality(Earlier(i, x))
        BY <2>10, <2>11
    <2> QED BY <2>12, <2>13, <2>14
<1>6. l \in T
    <2>1. \A i \in 0 .. l : i \in T
        <3> HIDE DEF T
        <3> QED BY <1>4, <1>5, Induction
    <2>2. l \in 0 .. l
        OBVIOUS
    <2> HIDE DEF T
    <2> QED BY <2>1, <2>2
<1>7. ASSUME NEW x PROVE Cardinality(At(g[l], x)) = Cardinality(At(list, x))
    <2>1. Cardinality(At(g[l], x)) = Cardinality(Earlier(l, x))
        BY <1>6
    <2>2. At(list, x) = Earlier(l, x)
        BY <1>1, AtIsFinite
    <2> QED BY <2>1, <2>2
<1>8. g[l] \in Seq(ScalarValues) /\ Len(g[l]) = l /\ InOrder(g[l])
    BY <1>6
<1> QED BY <1>1, <1>3, <1>7, <1>8

(* Values without their repetitions. *)

UniqBody(list, result, i) ==
    IF i = 0 THEN <<>>
    ELSE IF list_contains_method(result[i - 1], list[i]) THEN result[i - 1]
    ELSE Append(result[i - 1], list[i])

LEMMA UniqIs ==
    ASSUME NEW S, NEW list \in Seq(S)
    PROVE  \E g : /\ list_uniq_method(list) = g[Len(list)]
                  /\ \A i \in 0 .. Len(list) : g[i] = UniqBody(list, g, i)
<1>1. PICK l \in Nat : l = Len(list)
    BY LenProperties
<1>2. \A i \in 1 .. l : list[i] \in S
    BY <1>1, LenProperties
<1> DEFINE V == Seq(S)
<1> DEFINE step == [x \in (1 .. l) \X V |->
                       IF list_contains_method(x[2], list[x[1]]) THEN x[2] ELSE Append(x[2], list[x[1]])]
<1>3. step \in [(1 .. l) \X V -> V]
    <2>1. ASSUME NEW x \in (1 .. l) \X V PROVE Append(x[2], list[x[1]]) \in V
        BY <1>2, AppendProperties
    <2> HIDE DEF V
    <2> QED BY <2>1
<1>4. PICK f \in [0 .. l -> V] : \A i \in 0 .. l : f[i] = IF i = 0 THEN <<>> ELSE step[<<i, f[i - 1]>>]
    <2>1. PICK zero \in V : zero = <<>>
        BY EmptySeq
    <2>3. PICK f \in [0 .. l -> V] : RecursUp(f, l, zero, step)
        <3> HIDE DEF step, V
        <3> QED BY <1>3, RecursionUp
    <2>4. \A i \in 0 .. l : f[i] = IF i = 0 THEN zero ELSE step[<<i, f[i - 1]>>]
        <3> HIDE DEF step
        <3> QED BY <2>3 DEF RecursUp
    <2> QED BY <2>1, <2>3, <2>4
<1>5. ASSUME NEW i \in 0 .. l PROVE f[i] = UniqBody(list, f, i)
    <2>1. f[i] = IF i = 0 THEN <<>> ELSE step[<<i, f[i - 1]>>]
        BY <1>4
    <2>2. CASE i = 0
        BY <2>1, <2>2 DEF UniqBody
    <2>3. CASE i # 0
        <3> HIDE DEF V
        <3>1. PICK w \in V : w = f[i - 1]
            BY <2>3
        <3>2. step[<<i, w>>] = IF list_contains_method(w, list[i]) THEN w ELSE Append(w, list[i])
            BY <2>3
        <3> QED BY <2>1, <2>3, <3>1, <3>2 DEF UniqBody
    <2> QED BY <2>2, <2>3
<1>6. f = [i \in 0 .. l |-> UniqBody(list, f, i)]
    BY <1>5
<1>7. PICK g : g = (CHOOSE h : h = [i \in 0 .. l |-> UniqBody(list, h, i)])
    OBVIOUS
<1>8. g = [i \in 0 .. l |-> UniqBody(list, g, i)]
    BY <1>6, <1>7
<1>9. list_uniq_method(list) = g[l]
    BY <1>1, <1>7 DEF list_uniq_method, UniqBody
<1> QED BY <1>1, <1>8, <1>9

Holds(s, n, x) == \E k \in 1 .. n : s[k] = x
AllDiffer(s, n) == \A j, k \in 1 .. n : s[j] = s[k] => j = k

HasAppended(S, s, v, n, t) ==
    /\ t \in Seq(S) /\ Len(t) = n + 1 /\ AllDiffer(t, n + 1)
    /\ \A x : Holds(t, n + 1, x) <=> Holds(s, n, x) \/ x = v

LEMMA AppendDiffers ==
    ASSUME NEW S, NEW s \in Seq(S), NEW v \in S, NEW n \in Nat, n = Len(s), AllDiffer(s, n), ~Holds(s, n, v)
    PROVE  HasAppended(S, s, v, n, Append(s, v))
<1>0. PICK t : t = Append(s, v)
    OBVIOUS
<1>1. /\ t \in Seq(S) /\ Len(t) = n + 1
      /\ \A i \in 1 .. n : t[i] = s[i]
      /\ t[n + 1] = v
    BY <1>0, AppendProperties
<1>2. \A i \in 1 .. n + 1 : i \in 1 .. n \/ i = n + 1
    OBVIOUS
<1>3. AllDiffer(t, n + 1)
    BY <1>1, <1>2 DEF AllDiffer, Holds
<1>4. \A i \in 1 .. n : i \in 1 .. n + 1
    OBVIOUS
<1>5. n + 1 \in 1 .. n + 1
    OBVIOUS
<1>6. ASSUME NEW x PROVE Holds(t, n + 1, x) <=> Holds(s, n, x) \/ x = v
    BY <1>1, <1>2, <1>4, <1>5 DEF Holds
<1>7. HasAppended(S, s, v, n, t)
    BY <1>1, <1>3, <1>6 DEF HasAppended
<1> QED BY <1>0, <1>7

LEMMA UniqAgrees ==
    ASSUME NEW S, NEW list \in Seq(S)
    PROVE  IsInjective(list_uniq_method(list)) /\ Range(list_uniq_method(list)) = Range(list)
<1>1. PICK l \in Nat : l = Len(list) /\ DOMAIN list = 1 .. l
    BY LenProperties
<1>2. \A i \in 1 .. l : list[i] \in S
    BY <1>1, LenProperties
<1>3. PICK g : /\ list_uniq_method(list) = g[l]
               /\ \A i \in 0 .. l : g[i] = UniqBody(list, g, i)
    BY <1>1, UniqIs
<1> DEFINE T == {i \in 0 .. l : /\ g[i] \in Seq(S) /\ AllDiffer(g[i], Len(g[i]))
                                /\ \A x : Holds(g[i], Len(g[i]), x) <=> Holds(list, i, x)}
<1>4. 0 \in T
    <2>1. PICK none : none = <<>>
        OBVIOUS
    <2>2. none \in Seq(S) /\ Len(none) = 0
        BY <2>1
    <2>3. \A k \in 1 .. 0 : FALSE
        OBVIOUS
    <2>4. AllDiffer(none, 0) /\ \A x : Holds(none, 0, x) <=> Holds(list, 0, x)
        BY <2>3 DEF AllDiffer, Holds
    <2>5. g[0] = none
        <3>1. 0 \in 0 .. l
            OBVIOUS
        <3> QED BY <1>3, <2>1, <3>1 DEF UniqBody
    <2>6. \A x : Holds(g[0], Len(g[0]), x) <=> Holds(list, 0, x)
        BY <2>2, <2>4, <2>5
    <2>7. g[0] \in Seq(S) /\ AllDiffer(g[0], Len(g[0])) /\ 0 \in 0 .. l
        BY <2>2, <2>4, <2>5
    <2> QED BY <2>6, <2>7
<1>5. ASSUME NEW i \in 0 .. l, i # 0, i - 1 \in T PROVE i \in T
    <2>1. PICK h \in 0 .. l : h = i - 1 /\ h + 1 = i
        BY <1>5
    <2>2. PICK s \in Seq(S) : s = g[h]
        BY <1>5, <2>1
    <2>3. PICK n \in Nat : n = Len(s) /\ DOMAIN s = 1 .. n
        BY LenProperties
    <2>4. AllDiffer(s, n) /\ \A x : Holds(s, n, x) <=> Holds(list, h, x)
        BY <1>5, <2>1, <2>2, <2>3
    <2>5. PICK v \in S : v = list[i]
        BY <1>2, <1>5
    <2>6. g[i] = IF list_contains_method(s, v) THEN s ELSE Append(s, v)
        BY <1>3, <1>5, <2>1, <2>2, <2>5 DEF UniqBody
    <2>7. list_contains_method(s, v) <=> Holds(s, n, v)
        BY <2>3 DEF list_contains_method, Holds
    <2>8. \A k \in 1 .. i : k \in 1 .. h \/ k = i
        BY <2>1
    <2>9. i \in 1 .. i /\ \A k \in 1 .. h : k \in 1 .. i
        BY <1>5, <2>1
    <2>10. ASSUME NEW x PROVE Holds(list, i, x) <=> Holds(list, h, x) \/ x = v
        BY <2>5, <2>8, <2>9 DEF Holds
    <2>11. CASE Holds(s, n, v)
        <3>1. g[i] = s
            BY <2>6, <2>7, <2>11
        <3>2. \A x : Holds(s, n, x) <=> Holds(list, i, x)
            BY <2>4, <2>10, <2>11
        <3> QED BY <2>3, <2>4, <3>1, <3>2
    <2>12. CASE ~Holds(s, n, v)
        <3>1. PICK t : t = Append(s, v)
            OBVIOUS
        <3>2. /\ t \in Seq(S) /\ Len(t) = n + 1 /\ AllDiffer(t, n + 1)
              /\ \A x : Holds(t, n + 1, x) <=> Holds(s, n, x) \/ x = v
            <4>1. n = Len(s) /\ AllDiffer(s, n)
                BY <2>3, <2>4
            <4>2. HasAppended(S, s, v, n, Append(s, v))
                BY <2>12, <4>1, AppendDiffers
            <4> QED BY <3>1, <4>2 DEF HasAppended
        <3>3. \A x : Holds(t, n + 1, x) <=> Holds(list, i, x)
            BY <2>4, <2>10, <3>2
        <3>4. g[i] = t
            BY <2>6, <2>7, <2>12, <3>1
        <3> QED BY <3>2, <3>3, <3>4
    <2> QED BY <2>11, <2>12
<1>6. l \in T
    <2>1. \A i \in 0 .. l : i \in T
        <3> HIDE DEF T
        <3> QED BY <1>4, <1>5, Induction
    <2>2. l \in 0 .. l
        OBVIOUS
    <2> HIDE DEF T
    <2> QED BY <2>1, <2>2
<1>7. PICK t \in Seq(S) : t = g[l]
    BY <1>6
<1>8. PICK n \in Nat : n = Len(t) /\ DOMAIN t = 1 .. n
    BY LenProperties
<1>9. AllDiffer(t, n) /\ \A x : Holds(t, n, x) <=> Holds(list, l, x)
    BY <1>6, <1>7, <1>8
<1>10. IsInjective(t)
    BY <1>8, <1>9 DEF AllDiffer, IsInjective
<1>11. \A x : x \in Range(t) <=> Holds(t, n, x)
    BY <1>8 DEF Range, Holds
<1>12. \A x : x \in Range(list) <=> Holds(list, l, x)
    BY <1>1 DEF Range, Holds
<1>13. Range(t) = Range(list)
    BY <1>9, <1>11, <1>12
<1> QED BY <1>3, <1>7, <1>10, <1>13

(* Zipping and flattening. *)

\* The elements of two lists in turn.
Woven(p, q, i) == [k \in 1 .. 2 * i |-> IF k % 2 = 1 THEN p[(k + 1) \div 2] ELSE q[k \div 2]]

LEMMA WovenIs ==
    ASSUME NEW S, NEW p \in Seq(S), NEW q \in Seq(S), NEW n \in Nat, n = Len(p), n = Len(q), NEW i \in 0 .. n
    PROVE  Woven(p, q, i) \in Seq(S) /\ Len(Woven(p, q, i)) = 2 * i
<1>1. (\A k \in 1 .. n : p[k] \in S) /\ \A k \in 1 .. n : q[k] \in S
    BY LenProperties
<1>2. PICK m \in Nat : m = 2 * i
    OBVIOUS
<1>3. ASSUME NEW k \in 1 .. m PROVE (IF k % 2 = 1 THEN p[(k + 1) \div 2] ELSE q[k \div 2]) \in S
    <2>1. k % 2 = 1 => (k + 1) \div 2 \in 1 .. n
        BY <1>2
    <2>2. k % 2 # 1 => k \div 2 \in 1 .. n
        BY <1>2
    <2> QED BY <1>1, <2>1, <2>2
<1>4. PICK f : f = [k \in 1 .. m |-> IF k % 2 = 1 THEN p[(k + 1) \div 2] ELSE q[k \div 2]]
    OBVIOUS
<1>5. f \in [1 .. m -> S]
    BY <1>3, <1>4
<1>6. f \in Seq(S) /\ Len(f) = m
    BY <1>5, FunctionIsText
<1>7. Woven(p, q, i) = f
    BY <1>2, <1>4 DEF Woven
<1> QED BY <1>2, <1>6, <1>7

LEMMA PairIs ==
    ASSUME NEW S, NEW a \in S, NEW b \in S
    PROVE  <<a, b>> \in Seq(S) /\ Len(<<a, b>>) = 2 /\ <<a, b>>[1] = a /\ <<a, b>>[2] = b
OBVIOUS

LEMMA WovenMore ==
    ASSUME NEW S, NEW p \in Seq(S), NEW q \in Seq(S), NEW n \in Nat, n = Len(p), n = Len(q),
           NEW h \in Nat, NEW i \in 1 .. n, h = i - 1
    PROVE  Woven(p, q, h) \o <<p[i], q[i]>> = Woven(p, q, i)
<1>1. p[i] \in S /\ q[i] \in S
    BY LenProperties
<1>2. PICK two \in Seq(S) : two = <<p[i], q[i]>> /\ Len(two) = 2 /\ two[1] = p[i] /\ two[2] = q[i]
    <2>1. PICK a \in S, b \in S : a = p[i] /\ b = q[i]
        BY <1>1
    <2>2. <<a, b>> \in Seq(S) /\ Len(<<a, b>>) = 2 /\ <<a, b>>[1] = a /\ <<a, b>>[2] = b
        BY PairIs
    <2> QED BY <2>1, <2>2
<1>3. h \in 0 .. n /\ i \in 0 .. n
    OBVIOUS
<1>4. PICK w \in Seq(S) : w = Woven(p, q, h) /\ Len(w) = 2 * h
    <2>1. Woven(p, q, h) \in Seq(S) /\ Len(Woven(p, q, h)) = 2 * h
        BY <1>3, WovenIs
    <2> QED BY <2>1
<1>5. PICK x \in Seq(S) : x = Woven(p, q, i) /\ Len(x) = 2 * i
    <2>1. Woven(p, q, i) \in Seq(S) /\ Len(Woven(p, q, i)) = 2 * i
        BY <1>3, WovenIs
    <2> QED BY <2>1
<1>6. \A k \in 1 .. 2 * h : w[k] = IF k % 2 = 1 THEN p[(k + 1) \div 2] ELSE q[k \div 2]
    BY <1>4 DEF Woven
<1>7. \A k \in 1 .. 2 * i : x[k] = IF k % 2 = 1 THEN p[(k + 1) \div 2] ELSE q[k \div 2]
    BY <1>5 DEF Woven
<1>8. /\ w \o two \in Seq(S) /\ Len(w \o two) = Len(w) + Len(two)
      /\ \A k \in 1 .. Len(w) + Len(two) : (w \o two)[k] = IF k <= Len(w) THEN w[k] ELSE two[k - Len(w)]
    BY ConcatProperties
<1>9. PICK y \in Seq(S) : y = w \o two
    BY <1>8
<1>10. 2 * h + 2 = 2 * i
    OBVIOUS
<1>11. Len(y) = 2 * i /\ \A k \in 1 .. 2 * i : y[k] = IF k <= 2 * h THEN w[k] ELSE two[k - 2 * h]
    BY <1>2, <1>4, <1>8, <1>9, <1>10
<1>12. ASSUME NEW k \in 1 .. 2 * i PROVE y[k] = x[k]
    <2>1. CASE k <= 2 * h
        <3>1. k \in 1 .. 2 * h
            BY <2>1
        <3> QED BY <1>6, <1>7, <1>11, <2>1, <3>1
    <2>2. CASE k = 2 * h + 1
        <3>1. ~(k <= 2 * h) /\ k - 2 * h = 1 /\ k % 2 = 1 /\ (k + 1) \div 2 = i
            BY <2>2
        <3>2. y[k] = p[i]
            BY <1>2, <1>11, <3>1
        <3>3. x[k] = p[i]
            BY <1>7, <3>1
        <3> QED BY <3>2, <3>3
    <2>3. CASE k = 2 * h + 2
        <3>1. ~(k <= 2 * h) /\ k - 2 * h = 2 /\ k % 2 = 0 /\ k \div 2 = i
            BY <2>3
        <3>2. y[k] = q[i]
            BY <1>2, <1>11, <3>1
        <3>3. x[k] = q[i]
            BY <1>7, <3>1
        <3> QED BY <3>2, <3>3
    <2>4. k <= 2 * h \/ k = 2 * h + 1 \/ k = 2 * h + 2
        BY <1>10
    <2> QED BY <2>1, <2>2, <2>3, <2>4
<1>13. y = x
    BY <1>5, <1>11, <1>12, SeqEqual
<1> QED BY <1>2, <1>4, <1>5, <1>9, <1>13

FlattenBody(parts, f, i) == IF i = 1 THEN parts[i] ELSE f[i - 1] \o parts[i]

LEMMA FlattenPairs ==
    ASSUME NEW S, NEW p \in Seq(S), NEW q \in Seq(S), NEW n \in Nat, n = Len(p), n = Len(q), n # 0,
           NEW parts, parts = [i \in 1 .. n |-> <<p[i], q[i]>>], Len(parts) = n
    PROVE  FlattenSeq(parts) = Woven(p, q, n)
<1>0. ASSUME NEW i \in 1 .. n PROVE parts[i] = <<p[i], q[i]>>
    OBVIOUS
<1>1. Woven(p, q, 1) = <<p[1], q[1]>>
    <2>1. PICK h \in Nat, i \in 1 .. n : h = 0 /\ i = 1 /\ h = i - 1
        OBVIOUS
    <2>2. Woven(p, q, h) \o <<p[i], q[i]>> = Woven(p, q, i)
        BY <2>1, WovenMore
    <2>3. PICK w \in Seq(S) : w = Woven(p, q, h) /\ Len(w) = 0
        <3>1. h \in 0 .. n /\ 2 * h = 0
            BY <2>1
        <3>2. Woven(p, q, h) \in Seq(S) /\ Len(Woven(p, q, h)) = 2 * h
            BY <3>1, WovenIs
        <3> QED BY <3>1, <3>2
    <2>4. w = <<>>
        BY <2>3, EmptySeq
    <2>5. PICK two \in Seq(S) : two = <<p[i], q[i]>>
        <3>1. p[i] \in S /\ q[i] \in S
            BY LenProperties
        <3> QED BY <3>1, PairIs
    <2>6. w \o two = two
        BY <2>4, ConcatEmptySeq
    <2> QED BY <2>1, <2>2, <2>3, <2>5, <2>6
<1>2. PICK f : f = [i \in 1 .. n |-> Woven(p, q, i)]
    OBVIOUS
<1>3. ASSUME NEW i \in 1 .. n PROVE f[i] = FlattenBody(parts, f, i)
    <2>1. CASE i = 1
        BY <1>0, <1>1, <1>2, <2>1 DEF FlattenBody
    <2>2. CASE i # 1
        <3>1. i - 1 \in 1 .. n /\ i - 1 \in Nat
            BY <2>2
        <3>2. PICK h \in 1 .. n : h = i - 1 /\ h \in Nat
            BY <3>1
        <3>3. Woven(p, q, h) \o <<p[i], q[i]>> = Woven(p, q, i)
            BY <3>2, WovenMore
        <3>4. f[h] = Woven(p, q, h) /\ f[i] = Woven(p, q, i)
            BY <1>2
        <3>5. FlattenBody(parts, f, i) = f[h] \o parts[i]
            BY <2>2, <3>2 DEF FlattenBody
        <3> QED BY <1>0, <3>3, <3>4, <3>5
    <2> QED BY <2>1, <2>2
<1>4. f = [i \in 1 .. n |-> FlattenBody(parts, f, i)]
    <2>1. f = [i \in 1 .. n |-> f[i]]
        BY <1>2
    <2> QED BY <1>3, <2>1
<1>5. PICK g : g = (CHOOSE h : h = [i \in 1 .. n |-> FlattenBody(parts, h, i)])
    OBVIOUS
<1>6. g = [i \in 1 .. n |-> FlattenBody(parts, g, i)]
    BY <1>4, <1>5
<1>7. FlattenSeq(parts) = g[n]
    BY <1>5 DEF FlattenSeq, FlattenBody
<1> DEFINE T == {i \in 0 .. n : i = 0 \/ g[i] = Woven(p, q, i)}
<1>8. 0 \in T
    OBVIOUS
<1>9. ASSUME NEW i \in 0 .. n, i # 0, i - 1 \in T PROVE i \in T
    <2>1. i \in 1 .. n
        BY <1>9
    <2>2. g[i] = FlattenBody(parts, g, i)
        BY <1>6, <2>1
    <2>3. CASE i = 1
        BY <1>0, <1>1, <2>1, <2>2, <2>3 DEF FlattenBody
    <2>4. CASE i # 1
        <3>1. i - 1 \in 1 .. n /\ i - 1 \in Nat
            BY <2>1, <2>4
        <3>2. PICK h \in 1 .. n : h = i - 1 /\ h \in Nat
            BY <3>1
        <3>3. Woven(p, q, h) \o <<p[i], q[i]>> = Woven(p, q, i)
            BY <2>1, <3>2, WovenMore
        <3>4. g[h] = Woven(p, q, h)
            BY <1>9, <3>2
        <3>5. FlattenBody(parts, g, i) = g[h] \o parts[i]
            BY <2>4, <3>2 DEF FlattenBody
        <3>6. parts[i] = <<p[i], q[i]>>
            BY <1>0, <2>1
        <3> QED BY <2>2, <3>3, <3>4, <3>5, <3>6
    <2> QED BY <2>3, <2>4
<1>10. n \in T
    <2>1. \A i \in 0 .. n : i \in T
        <3> HIDE DEF T
        <3> QED BY <1>8, <1>9, Induction
    <2>2. n \in 0 .. n
        OBVIOUS
    <2> HIDE DEF T
    <2> QED BY <2>1, <2>2
<1> QED BY <1>7, <1>10

LEMMA ZipFlattens ==
    ASSUME NEW S, NEW list \in Seq(S)
    PROVE  list_flatten_method(list_zip_method(list, Reverse(list)))
              = [i \in 1 .. 2 * Len(list) |->
                    IF i % 2 = 1 THEN list[(i + 1) \div 2] ELSE Reverse(list)[i \div 2]]
<1>1. PICK n \in Nat : n = Len(list)
    BY LenProperties
<1>2. PICK q \in Seq(S) : q = Reverse(list) /\ Len(q) = n
    BY <1>1, ReverseIs
<1>3. PICK z : z = [i \in 1 .. n |-> <<"list", <<list[i], q[i]>>>>]
    OBVIOUS
<1>4. list_zip_method(list, q) = z
    BY <1>1, <1>2, <1>3 DEF list_zip_method
<1>5. PICK parts : parts = [i \in DOMAIN z |-> IF z[i][1] = "list" THEN z[i][2] ELSE <<z[i]>>]
    OBVIOUS
<1>6. list_flatten_method(z) = FlattenSeq(parts)
    BY <1>5 DEF list_flatten_method
<1>7. DOMAIN z = 1 .. n
    BY <1>3
<1>8. parts = [i \in 1 .. n |-> <<list[i], q[i]>>]
    <2>1. ASSUME NEW i \in 1 .. n
          PROVE  (IF z[i][1] = "list" THEN z[i][2] ELSE <<z[i]>>) = <<list[i], q[i]>>
        BY <1>3
    <2> QED BY <1>5, <1>7, <2>1
<1>9. Len(parts) = n
    <2>1. PICK pair : pair = [i \in 1 .. n |-> <<list[i], q[i]>>]
        OBVIOUS
    <2>2. \A i \in 1 .. n : list[i] \in S /\ q[i] \in S
        BY <1>1, <1>2, LenProperties
    <2>3. pair \in [1 .. n -> S \X S]
        BY <2>1, <2>2
    <2> DEFINE P == S \X S
    <2>4. pair \in [1 .. n -> P]
        BY <2>3
    <2>5. Len(pair) = n
        <3> HIDE DEF P
        <3> QED BY <2>4, FunctionIsText
    <2> QED BY <1>8, <2>1, <2>5
<1>10. FlattenSeq(parts) = Woven(list, q, n)
    <2>1. CASE n = 0
        <3>1. FlattenSeq(parts) = parts
            BY <1>9, <2>1 DEF FlattenSeq
        <3>2. 1 .. n = {} /\ 1 .. 2 * n = {}
            BY <2>1
        <3>3. parts = Woven(list, q, n)
            BY <1>8, <3>2 DEF Woven
        <3> QED BY <3>1, <3>3
    <2>2. CASE n # 0
        BY <1>1, <1>2, <1>8, <1>9, <2>2, FlattenPairs
    <2> QED BY <2>1, <2>2
<1> QED BY <1>1, <1>2, <1>4, <1>6, <1>10 DEF Woven

\* Sorting loses no value, makes none up, and leaves them in order (list_sort of
\* vm.c, which hands value_compare to qsort).
THEOREM SortingSorts ==
    ASSUME NEW list \in Seq(ScalarValues)
    PROVE  /\ Len(list_sort_method(list)) = Len(list)
           /\ \A i \in 1 .. Len(list) - 1 :
                 value_compare(list_sort_method(list)[i], list_sort_method(list)[i + 1]) <= 0
           /\ \A x : Cardinality(At(list_sort_method(list), x)) = Cardinality(At(list, x))
<1>1. /\ Len(list_sort_method(list)) = Len(list)
      /\ InOrder(list_sort_method(list))
      /\ \A x : Cardinality(At(list_sort_method(list), x)) = Cardinality(At(list, x))
    BY SortAgrees
<1> QED BY <1>1 DEF InOrder

\* What the methods of lists owe each other, for every list (vm.c): an insertion
\* can be removed, both ends give back what they were given, sort keeps what the
\* list holds, uniq its set of values, and flatten undoes zip.
THEOREM ListsAgree ==
    ASSUME NEW list \in Seq(ScalarValues), NEW k \in Int, NEW v \in ScalarValues
    PROVE  ListLaws(list, k, v)
<1> DEFINE inserted == list_insert_method(list, k, v)
           sorted == list_sort_method(list)
           uniq == list_uniq_method(list)
<1>1. list_slice_method(list, 0, k) \o list_slice_method(list, k, Len(list)) = list
    BY ListSlicesJoin
<1>2. /\ k >= 0 /\ k <= Len(list) => list_remove_method(inserted, k) = <<list, v>>
      /\ Len(inserted) = Len(list) + 1
    BY InsertedIsRemoved
<1>3. /\ list_shift_method(list_unshift_method(list, <<v>>)) = <<list, v>>
      /\ pop(list_push_method(list, <<v>>)) = <<list, v>>
    BY EndsTaken
<1>4. list # <<>> => list_remove_method(list, -1) = pop(list)
    BY LastRemoved
<1>5. /\ \A i \in 1 .. Len(list) - 1 : value_compare(sorted[i], sorted[i + 1]) <= 0
      /\ \A x \in Range(sorted \o list) : Cardinality(At(sorted, x)) = Cardinality(At(list, x))
    BY SortingSorts
<1>6. IsInjective(uniq) /\ Range(uniq) = Range(list)
    BY UniqAgrees
<1>7. list_flatten_method(list_zip_method(list, Reverse(list)))
         = [i \in 1 .. 2 * Len(list) |->
               IF i % 2 = 1 THEN list[(i + 1) \div 2] ELSE Reverse(list)[i \div 2]]
    BY ZipFlattens
<1> QED BY <1>1, <1>2, <1>3, <1>4, <1>5, <1>6, <1>7 DEF ListLaws

\* The methods of strings and lists agree with each other on every input (vm.c):
\* the samples of a run are not special.
THEOREM MethodsAlwaysAgree == MethodsAgree
<1> SUFFICES ASSUME sample \in MethodInputs PROVE MethodLaw(sample)
    BY DEF MethodsAgree
<1>1. CASE sample \in {"text"} \X ByteStrings \X {p \in ByteStrings : NoNul(p)} \X ByteStrings
    <2>1. /\ sample[1] = "text" /\ sample[2] \in ByteStrings /\ sample[3] \in ByteStrings
          /\ NoNul(sample[3]) /\ sample[4] \in ByteStrings
        BY <1>1
    <2>2. TextLaws(sample[2], sample[3], sample[4])
        BY <2>1, TextsAgree
    <2> QED BY <2>1, <2>2 DEF MethodLaw
<1>2. CASE sample \in {"slice"} \X ByteStrings \X Int \X Int
    <2>1. sample[1] = "slice" /\ sample[2] \in ByteStrings /\ sample[3] \in Int /\ sample[4] \in Int
        BY <1>2
    <2>2. SliceLaws(sample[2], sample[3], sample[4])
        BY <2>1, SlicesAgree
    <2> QED BY <2>1, <2>2 DEF MethodLaw
<1>3. CASE sample \in {"list"} \X Seq(ScalarValues) \X Int \X ScalarValues
    <2>1. /\ sample[1] = "list" /\ sample[2] \in Seq(ScalarValues) /\ sample[3] \in Int
          /\ sample[4] \in ScalarValues
        BY <1>3
    <2>2. ListLaws(sample[2], sample[3], sample[4])
        BY <2>1, ListsAgree
    <2> QED BY <2>1, <2>2 DEF MethodLaw
<1>4. CASE sample \in {"order"} \X ScalarValues \X ScalarValues \X ScalarValues
    <2>1. /\ sample[1] = "order" /\ sample[2] \in ScalarValues /\ sample[3] \in ScalarValues
          /\ sample[4] \in ScalarValues
        BY <1>4
    <2>2. OrderLaws(sample[2], sample[3], sample[4])
        BY <2>1, OrderAgrees
    <2> QED BY <2>1, <2>2 DEF MethodLaw
<1> QED BY <1>1, <1>2, <1>3, <1>4 DEF MethodInputs

(* The rows of a query. *)

LEMMA MaxIs ==
    ASSUME NEW S \in SUBSET Nat, NEW n \in Nat, \A i \in S : i <= n, S # {}
    PROVE  Max(S) \in S /\ \A i \in S : i <= Max(S)
<1> DEFINE Back == {n - i : i \in S}
<1>1. Back \in SUBSET Nat /\ Back # {}
    <2>1. \A i \in S : i \in Nat /\ i <= n
        OBVIOUS
    <2>2. \A i \in S : n - i \in Nat
        BY <2>1
    <2> QED BY <2>2
<1>2. PICK b \in Back : \A c \in Back : b <= c
    BY <1>1, LeastNumber
<1>3. PICK m \in S : b = n - m
    BY <1>2
<1>4. ASSUME NEW i \in S PROVE i <= m
    BY <1>2, <1>3
<1> QED BY <1>3, <1>4 DEF Max

\* What is left of a value that was bound to a column and read from it.
Column(v) == read_column(bind_param(v))

LEMMA ColumnIs ==
    ASSUME NEW v, v = <<v[1], v[2]>>
    PROVE  /\ v[1] \in {"int", "float", "string"} => Column(v) = v
           /\ v[1] = "bool" => Column(v) = <<"int", IF v[2] THEN 1 ELSE 0>>
           /\ v[1] \notin {"bool", "int", "float", "string"} => Column(v) = <<"nil", 0>>
<1>2. CASE v[1] = "int"
    <2>1. bind_param(v) = [type |-> "INTEGER", cell |-> v[2]]
        BY <1>2 DEF bind_param
    <2> QED BY <1>2, <2>1 DEF Column, read_column
<1>3. CASE v[1] = "float"
    <2>1. bind_param(v) = [type |-> "FLOAT", cell |-> v[2]]
        BY <1>3 DEF bind_param
    <2> QED BY <1>3, <2>1 DEF Column, read_column
<1>4. CASE v[1] = "string"
    <2>1. bind_param(v) = [type |-> "TEXT", cell |-> v[2]]
        BY <1>4 DEF bind_param
    <2> QED BY <1>4, <2>1 DEF Column, read_column
<1>5. CASE v[1] = "bool"
    <2>1. bind_param(v) = [type |-> "INTEGER", cell |-> IF v[2] THEN 1 ELSE 0]
        BY <1>5 DEF bind_param
    <2> QED BY <1>5, <2>1 DEF Column, read_column
<1>6. CASE v[1] \notin {"bool", "int", "float", "string"}
    <2>1. bind_param(v) = NULL
        BY <1>6 DEF bind_param
    <2> QED BY <1>6, <2>1 DEF Column, read_column, NULL
<1> QED BY <1>2, <1>3, <1>4, <1>5, <1>6

\* What was read from a column can be stored again, and then stays as it is.
LEMMA ColumnStays ==
    ASSUME NEW v, v = <<v[1], v[2]>>
    PROVE  Column(Column(v)) = Column(v)
<1>1. CASE v[1] \in {"int", "float", "string"}
    BY <1>1, ColumnIs
<1>2. CASE v[1] = "bool"
    <2>1. PICK n \in {0, 1} : n = IF v[2] THEN 1 ELSE 0
        OBVIOUS
    <2>2. Column(v) = <<"int", n>>
        BY <1>2, <2>1, ColumnIs
    <2>3. PICK w : w = <<"int", n>>
        OBVIOUS
    <2>4. Column(w) = w
        BY <2>3, ColumnIs
    <2> QED BY <2>2, <2>3, <2>4
<1>3. CASE v[1] \notin {"bool", "int", "float", "string"}
    <2>1. PICK w : w = <<"nil", 0>>
        OBVIOUS
    <2>2. Column(w) = w
        BY <2>1, ColumnIs
    <2> QED BY <1>3, <2>1, <2>2, ColumnIs
<1> QED BY <1>1, <1>2, <1>3

\* A name means the last of its columns.
LEMMA ColumnOfIs ==
    ASSUME NEW Names, NEW names \in Seq(Names), MAX_COLUMNS \in Nat,
           NEW n, n = ColumnCount(names), NEW i \in 1 .. n
    PROVE  /\ ColumnOf(names, names[i]) \in 1 .. n
           /\ names[ColumnOf(names, names[i])] = names[i]
           /\ (\A j \in i + 1 .. n : names[j] # names[i]) => ColumnOf(names, names[i]) = i
<1>1. n \in Nat /\ n <= Len(names)
    BY DEF ColumnCount
<1> DEFINE S == {k \in 1 .. n : names[k] = names[i]}
<1>2. S \in SUBSET Nat
    BY <1>1
<1>3. i \in S /\ \A k \in S : k <= n
    BY <1>1
<1>4. Max(S) \in S /\ \A k \in S : k <= Max(S)
    <2> HIDE DEF S
    <2> QED BY <1>1, <1>2, <1>3, MaxIs
<1>5. ColumnOf(names, names[i]) = Max(S)
    BY DEF ColumnOf
<1>6. PICK m \in 1 .. n : m = Max(S) /\ names[m] = names[i] /\ i <= m
    <2> QED BY <1>3, <1>4
<1>7. ASSUME \A j \in i + 1 .. n : names[j] # names[i] PROVE m = i
    <2>1. m \notin i + 1 .. n
        BY <1>6, <1>7
    <2> QED BY <1>1, <1>6, <2>1
<1> HIDE DEF S
<1> QED BY <1>5, <1>6, <1>7

RowRead(names, n, row) == [name \in {names[i] : i \in 1 .. n} |-> Column(row[ColumnOf(names, name)])]

\* A row that is read has, under each name, what is left of its value.
LEMMA RowIs ==
    ASSUME NEW Names, NEW names \in Seq(Names), MAX_COLUMNS \in Nat,
           NEW n, n = ColumnCount(names), NEW row, 1 .. n \subseteq DOMAIN row
    PROVE  build_row_map(names, bind_params(row)) = RowRead(names, n, row)
<1>1. ASSUME NEW i \in 1 .. n
      PROVE  read_column(bind_params(row)[ColumnOf(names, names[i])]) = Column(row[ColumnOf(names, names[i])])
    <2>1. PICK c \in 1 .. n : c = ColumnOf(names, names[i])
        BY ColumnOfIs
    <2>2. bind_params(row)[c] = bind_param(row[c])
        BY DEF bind_params
    <2> QED BY <2>1, <2>2 DEF Column
<1> QED BY <1>1 DEF build_row_map, RowRead

\* What a query reads from a table is, row by row and name by name, what was
\* stored (vek_db.c, stdlib_db.c): a bool as an integer, other things than
\* numbers and strings as nil, and what was read can be stored again as it is.
\* This is so for any number of columns that may have the same names, and any
\* limit on their number.
THEOREM RowsAlwaysKept ==
    ASSUME NEW Names, NEW Kinds, NEW Things, MAX_COLUMNS \in Nat, NEW names \in Seq(Names),
           NEW table \in Seq(Seq(Kinds \X Things)),
           \A r \in DOMAIN table : Len(table[r]) >= ColumnCount(names)
    PROVE  RowsLaw(names, table)
<1>0. PICK n : n = ColumnCount(names)
    OBVIOUS
<1> DEFINE stored == [r \in DOMAIN table |-> bind_params(table[r])]
           read == vek_db_query(names, stored)
           again(r) == vek_db_query(names, <<bind_params([i \in 1 .. n |-> read[r][names[i]]])>>)
<1>1. n \in Nat /\ n <= Len(names)
    BY <1>0 DEF ColumnCount
<1>2. DOMAIN read = DOMAIN table /\ Len(read) = Len(table)
    BY DEF vek_db_query
<1>3. ASSUME NEW r \in DOMAIN table
      PROVE  /\ read[r] = RowRead(names, n, table[r])
             /\ \A i \in 1 .. n : table[r][i] \in Kinds \X Things
    <2>1. table[r] \in Seq(Kinds \X Things) /\ Len(table[r]) >= n
        BY <1>0
    <2>2. 1 .. n \subseteq DOMAIN table[r] /\ \A i \in 1 .. n : table[r][i] \in Kinds \X Things
        BY <1>1, <2>1
    <2>3. read[r] = build_row_map(names, bind_params(table[r]))
        BY DEF vek_db_query
    <2>4. build_row_map(names, bind_params(table[r])) = RowRead(names, n, table[r])
        BY <1>0, <2>2, RowIs
    <2> QED BY <2>2, <2>3, <2>4
<1>4. ASSUME NEW r \in DOMAIN table, NEW i \in 1 .. n
      PROVE  \E c \in 1 .. n : /\ c = ColumnOf(names, names[i])
                               /\ names[c] = names[i]
                               /\ read[r][names[i]] = Column(table[r][c])
                               /\ (\A j \in i + 1 .. n : names[j] # names[i]) => c = i
    <2>1. PICK c \in 1 .. n : /\ c = ColumnOf(names, names[i]) /\ names[c] = names[i]
                              /\ (\A j \in i + 1 .. n : names[j] # names[i]) => c = i
        BY <1>0, ColumnOfIs
    <2>2. read[r][names[i]] = Column(table[r][c])
        <3> HIDE DEF read
        <3> QED BY <1>3, <2>1 DEF RowRead
    <2> QED BY <2>1, <2>2
<1>5. ASSUME NEW r \in DOMAIN table PROVE again(r) = <<read[r]>>
    <2> DEFINE row == [i \in 1 .. n |-> read[r][names[i]]]
    <2>1. again(r) = <<build_row_map(names, bind_params(row))>>
        BY DEF vek_db_query
    <2>2. build_row_map(names, bind_params(row)) = RowRead(names, n, row)
        <3>1. 1 .. n \subseteq DOMAIN row
            OBVIOUS
        <3> HIDE DEF row
        <3> QED BY <1>0, <3>1, RowIs
    <2>3. ASSUME NEW i \in 1 .. n
          PROVE  Column(row[ColumnOf(names, names[i])]) = Column(table[r][ColumnOf(names, names[i])])
        <3>1. PICK c \in 1 .. n : /\ c = ColumnOf(names, names[i]) /\ names[c] = names[i]
                                  /\ read[r][names[i]] = Column(table[r][c])
            BY <1>4
        <3>2. row[c] = Column(table[r][c])
            BY <3>1
        <3>3. Column(Column(table[r][c])) = Column(table[r][c])
            <4>1. PICK v \in Kinds \X Things : v = table[r][c]
                BY <1>3
            <4>2. v = <<v[1], v[2]>>
                OBVIOUS
            <4> QED BY <4>1, <4>2, ColumnStays
        <3> QED BY <3>1, <3>2, <3>3
    <2>4. RowRead(names, n, row) = RowRead(names, n, table[r])
        <3> HIDE DEF row, read
        <3> QED BY <2>3 DEF RowRead
    <2> QED BY <1>3, <2>1, <2>2, <2>4
<1>6. ASSUME NEW r \in DOMAIN table, NEW i \in 1 .. n, \A j \in i + 1 .. n : names[j] # names[i]
      PROVE  \/ read[r][names[i]] = table[r][i]
             \/ table[r][i][1] = "bool" /\ read[r][names[i]] = <<"int", IF table[r][i][2] THEN 1 ELSE 0>>
             \/ table[r][i][1] \notin {"bool", "int", "float", "string"} /\ read[r][names[i]] = <<"nil", 0>>
    <2>1. read[r][names[i]] = Column(table[r][i])
        <3> HIDE DEF read
        <3> QED BY <1>4, <1>6, SMTT(30)
    <2>2. table[r][i] \in Kinds \X Things
        BY <1>3
    <2> HIDE DEF read
    <2> QED BY <2>1, <2>2, ColumnIs
<1> QED
    <2> HIDE DEF again, read
    <2> QED BY <1>0, <1>2, <1>5, <1>6 DEF RowsLaw, again, read

(* The exclusive or of two bytes, bit by bit. *)

(* The exclusive or of two bytes, bit by bit. *)

Bits == {0, 1}
FromBits(b1, b2, b3, b4, b5, b6, b7, b8) ==
    b1 + 2 * b2 + 4 * b3 + 8 * b4 + 16 * b5 + 32 * b6 + 64 * b7 + 128 * b8
BitOf(a, p) == (a \div p) % 2
IsBits(a, b1, b2, b3, b4, b5, b6, b7, b8) ==
    /\ BitOf(a, 1) = b1 /\ BitOf(a, 2) = b2 /\ BitOf(a, 4) = b3 /\ BitOf(a, 8) = b4
    /\ BitOf(a, 16) = b5 /\ BitOf(a, 32) = b6 /\ BitOf(a, 64) = b7 /\ BitOf(a, 128) = b8

\* A byte is the sum of its bits.
LEMMA ByteHasBits ==
    ASSUME NEW a \in 0 .. 255
    PROVE  \E b1, b2, b3, b4, b5, b6, b7, b8 \in Bits :
              a = FromBits(b1, b2, b3, b4, b5, b6, b7, b8)
<1>1. PICK h1 \in 0 .. 127, b1 \in Bits : a = 2 * h1 + b1
    BY DEF Bits
<1>2. PICK h2 \in 0 .. 63, b2 \in Bits : h1 = 2 * h2 + b2
    BY DEF Bits
<1>3. PICK h3 \in 0 .. 31, b3 \in Bits : h2 = 2 * h3 + b3
    BY DEF Bits
<1>4. PICK h4 \in 0 .. 15, b4 \in Bits : h3 = 2 * h4 + b4
    BY DEF Bits
<1>5. PICK h5 \in 0 .. 7, b5 \in Bits : h4 = 2 * h5 + b5
    BY DEF Bits
<1>6. PICK h6 \in 0 .. 3, b6 \in Bits : h5 = 2 * h6 + b6
    BY DEF Bits
<1>7. PICK b8 \in Bits, b7 \in Bits : h6 = 2 * b8 + b7
    BY DEF Bits
<1>8. a = FromBits(b1, b2, b3, b4, b5, b6, b7, b8)
    BY <1>1, <1>2, <1>3, <1>4, <1>5, <1>6, <1>7 DEF Bits, FromBits
<1> QED BY <1>8

\* The bits of a sum of bits.
LEMMA BitsAre ==
    ASSUME NEW b1 \in Bits, NEW b2 \in Bits, NEW b3 \in Bits, NEW b4 \in Bits,
           NEW b5 \in Bits, NEW b6 \in Bits, NEW b7 \in Bits, NEW b8 \in Bits,
           NEW a, a = FromBits(b1, b2, b3, b4, b5, b6, b7, b8)
    PROVE  a \in 0 .. 255 /\ IsBits(a, b1, b2, b3, b4, b5, b6, b7, b8)
<1>0. a \in 0 .. 255
    BY DEF Bits, FromBits
<1>1. BitOf(a, 1) = b1
    BY <1>0, SMTT(30) DEF Bits, BitOf, FromBits
<1>2. BitOf(a, 2) = b2
    BY <1>0, SMTT(30) DEF Bits, BitOf, FromBits
<1>3. BitOf(a, 4) = b3
    BY <1>0, SMTT(30) DEF Bits, BitOf, FromBits
<1>4. BitOf(a, 8) = b4
    BY <1>0, SMTT(30) DEF Bits, BitOf, FromBits
<1>5. BitOf(a, 16) = b5
    BY <1>0, SMTT(30) DEF Bits, BitOf, FromBits
<1>6. BitOf(a, 32) = b6
    BY <1>0, SMTT(30) DEF Bits, BitOf, FromBits
<1>7. BitOf(a, 64) = b7
    BY <1>0, SMTT(30) DEF Bits, BitOf, FromBits
<1>8. BitOf(a, 128) = b8
    BY <1>0, SMTT(30) DEF Bits, BitOf, FromBits
<1> QED BY <1>0, <1>1, <1>2, <1>3, <1>4, <1>5, <1>6, <1>7, <1>8 DEF IsBits

Either(b, c) == (b + c) % 2

\* Each bit of the exclusive or is that of the bits.
LEMMA XorBits ==
    ASSUME NEW a \in 0 .. 255, NEW b \in 0 .. 255
    PROVE  Xor(a, b) = FromBits(Either(BitOf(a, 1), BitOf(b, 1)), Either(BitOf(a, 2), BitOf(b, 2)),
                                Either(BitOf(a, 4), BitOf(b, 4)), Either(BitOf(a, 8), BitOf(b, 8)),
                                Either(BitOf(a, 16), BitOf(b, 16)), Either(BitOf(a, 32), BitOf(b, 32)),
                                Either(BitOf(a, 64), BitOf(b, 64)), Either(BitOf(a, 128), BitOf(b, 128)))
<1>1. ASSUME NEW x \in Nat, NEW y \in Nat
      PROVE  (x + y) % 2 = ((x % 2) + (y % 2)) % 2
    OBVIOUS
<1>2. /\ a \div 1 \in Nat /\ a \div 2 \in Nat /\ a \div 4 \in Nat /\ a \div 8 \in Nat
      /\ a \div 16 \in Nat /\ a \div 32 \in Nat /\ a \div 64 \in Nat /\ a \div 128 \in Nat
      /\ b \div 1 \in Nat /\ b \div 2 \in Nat /\ b \div 4 \in Nat /\ b \div 8 \in Nat
      /\ b \div 16 \in Nat /\ b \div 32 \in Nat /\ b \div 64 \in Nat /\ b \div 128 \in Nat
    OBVIOUS
<1> DEFINE Both(p) == (a \div p + b \div p) % 2
<1>3. /\ Both(1) = Either(BitOf(a, 1), BitOf(b, 1)) /\ Both(2) = Either(BitOf(a, 2), BitOf(b, 2))
      /\ Both(4) = Either(BitOf(a, 4), BitOf(b, 4)) /\ Both(8) = Either(BitOf(a, 8), BitOf(b, 8))
    BY <1>1, <1>2 DEF Either, BitOf
<1>4. /\ Both(16) = Either(BitOf(a, 16), BitOf(b, 16)) /\ Both(32) = Either(BitOf(a, 32), BitOf(b, 32))
      /\ Both(64) = Either(BitOf(a, 64), BitOf(b, 64)) /\ Both(128) = Either(BitOf(a, 128), BitOf(b, 128))
    BY <1>1, <1>2 DEF Either, BitOf
<1>5. Xor(a, b) = 1 * Both(1) + 2 * Both(2) + 4 * Both(4) + 8 * Both(8)
                    + 16 * Both(16) + 32 * Both(32) + 64 * Both(64) + 128 * Both(128)
    BY DEF Xor
<1>6. Both(1) \in Int
    OBVIOUS
<1> HIDE DEF Both
<1> QED BY <1>3, <1>4, <1>5, <1>6 DEF FromBits

\* A byte that was masked twice is itself again.
LEMMA XorTwice ==
    ASSUME NEW a \in 0 .. 255, NEW b \in 0 .. 255
    PROVE  Xor(a, b) \in 0 .. 255 /\ Xor(Xor(a, b), b) = a
<1>1. PICK a1, a2, a3, a4, a5, a6, a7, a8 \in Bits : a = FromBits(a1, a2, a3, a4, a5, a6, a7, a8)
    BY ByteHasBits
<1>2. PICK b1, b2, b3, b4, b5, b6, b7, b8 \in Bits : b = FromBits(b1, b2, b3, b4, b5, b6, b7, b8)
    BY ByteHasBits
<1>3. IsBits(a, a1, a2, a3, a4, a5, a6, a7, a8) /\ IsBits(b, b1, b2, b3, b4, b5, b6, b7, b8)
    BY <1>1, <1>2, BitsAre
<1>4. ASSUME NEW x \in Bits, NEW y \in Bits
      PROVE  Either(x, y) \in Bits /\ Either(Either(x, y), y) = x
    BY DEF Bits, Either
<1>5. PICK d1 \in Bits, d2 \in Bits, d3 \in Bits, d4 \in Bits, d5 \in Bits, d6 \in Bits, d7 \in Bits, d8 \in Bits :
          /\ d1 = Either(a1, b1) /\ d2 = Either(a2, b2) /\ d3 = Either(a3, b3) /\ d4 = Either(a4, b4)
          /\ d5 = Either(a5, b5) /\ d6 = Either(a6, b6) /\ d7 = Either(a7, b7) /\ d8 = Either(a8, b8)
    BY <1>4
<1>6. Xor(a, b) = FromBits(d1, d2, d3, d4, d5, d6, d7, d8)
    BY <1>3, <1>5, XorBits, ZenonT(30) DEF IsBits
<1>7. Xor(a, b) \in 0 .. 255 /\ IsBits(Xor(a, b), d1, d2, d3, d4, d5, d6, d7, d8)
    BY <1>6, BitsAre
<1>8. /\ a1 = Either(d1, b1) /\ a2 = Either(d2, b2) /\ a3 = Either(d3, b3) /\ a4 = Either(d4, b4)
      /\ a5 = Either(d5, b5) /\ a6 = Either(d6, b6) /\ a7 = Either(d7, b7) /\ a8 = Either(d8, b8)
    BY <1>4, <1>5
<1>9. Xor(Xor(a, b), b) = FromBits(a1, a2, a3, a4, a5, a6, a7, a8)
    BY <1>3, <1>7, <1>8, XorBits, ZenonT(30) DEF IsBits
<1> QED BY <1>1, <1>7, <1>9

(* The head of a frame. *)

Bytes == {n \in Nat : n <= 255}
Lengths == {n \in Nat : n <= 4294967295}

IsHead(h, len, opcode, w) ==
    /\ h \in Seq(Bytes) /\ w \in {0, 2, 8} /\ Len(h) = 2 + w
    /\ h[1] >= 128 /\ (h[1] % 16) = (opcode % 16)
    /\ h[2] < 128 /\ Width(h[2]) = w /\ payload_len(h, w) = len

LEMMA BigEndianIs ==
    ASSUME NEW n \in Nat, NEW width \in {2, 4}
    PROVE  /\ BigEndian(n, width) \in Seq(Bytes) /\ Len(BigEndian(n, width)) = width
           /\ \A i \in 1 .. width : BigEndian(n, width)[i] = (n \div Place[width + 1 - i]) % 256
<1>1. ASSUME NEW i \in 1 .. width PROVE (n \div Place[width + 1 - i]) % 256 \in Bytes
    <2>1. PICK p \in Nat \ {0} : p = Place[width + 1 - i]
        BY SMT DEF Place
    <2>2. n \div p \in Nat
        OBVIOUS
    <2> QED BY <2>1, <2>2 DEF Bytes
<1>2. BigEndian(n, width) \in [1 .. width -> Bytes]
    BY <1>1 DEF BigEndian
<1> QED BY <1>2, FunctionIsText DEF BigEndian

LEMMA Split256 ==
    ASSUME NEW n \in Nat
    PROVE  \E a \in Nat, b \in Bytes : n = 256 * a + b
<1>1. PICK c \in Nat \ {0} : c = 256
    OBVIOUS
<1>2. n % c \in 0 .. (c - 1) /\ \E q \in Nat : n = c * q + (n % c)
    BY Divided
<1>3. n % 256 \in Bytes /\ \E q \in Nat : n = 256 * q + (n % 256)
    BY <1>1, <1>2 DEF Bytes
<1> QED BY <1>3

\* The digits of a number to the base 256.
LEMMA TwoBytes ==
    ASSUME NEW n \in Nat, n <= 65535
    PROVE  256 * ((n \div Place[2]) % 256) + ((n \div Place[1]) % 256) = n
<1>1. PICK a \in Nat, b \in Bytes : n = 256 * a + b
    BY Split256
<1>2. a \in Bytes
    BY <1>1 DEF Bytes
<1>3. (n \div Place[1]) % 256 = b
    BY <1>1, SMT DEF Bytes, Place
<1>4. n \div Place[2] = a /\ a % 256 = a
    BY <1>1, <1>2, SMT DEF Bytes, Place
<1> QED BY <1>1, <1>3, <1>4 DEF Bytes

LEMMA FourBytes ==
    ASSUME NEW n \in Lengths
    PROVE  256 * (256 * (256 * ((n \div Place[4]) % 256) + ((n \div Place[3]) % 256)) + ((n \div Place[2]) % 256))
               + ((n \div Place[1]) % 256) = n
<1>0. n \in Nat
    BY SMT DEF Lengths
<1>1. PICK a \in Nat, b \in Bytes : n = 256 * a + b
    BY <1>0, Split256
<1>2. PICK c \in Nat, d \in Bytes : a = 256 * c + d
    BY Split256
<1>3. PICK e \in Bytes, f \in Bytes : c = 256 * e + f
    <2>1. PICK e \in Nat, f \in Bytes : c = 256 * e + f
        BY Split256
    <2>2. e \in Bytes
        BY <1>1, <1>2, <2>1, SMT DEF Bytes, Lengths
    <2> QED BY <2>1, <2>2
<1>4. (n \div Place[1]) % 256 = b
    BY <1>1, SMT DEF Bytes, Place
<1>5. n \div Place[2] = a /\ a % 256 = d
    BY <1>1, <1>2, SMT DEF Bytes, Place
<1>6. n \div Place[3] = c /\ c % 256 = f
    BY <1>1, <1>2, <1>3, SMT DEF Bytes, Place
<1>7. n \div Place[4] = e /\ e % 256 = e
    BY <1>1, <1>2, <1>3, SMT DEF Bytes, Place
<1> QED BY <1>1, <1>2, <1>3, <1>4, <1>5, <1>6, <1>7 DEF Bytes

LEMMA HeadOf ==
    ASSUME NEW f \in Bytes, NEW t \in Seq(Bytes), NEW h, h = <<f>> \o t
    PROVE  /\ h \in Seq(Bytes) /\ Len(h) = Len(t) + 1
           /\ h[1] = f /\ \A i \in 1 .. Len(t) : h[i + 1] = t[i]
<1>0. PICK n \in Nat : n = Len(t)
    BY LenProperties
<1>1. PICK s \in Seq(Bytes) : s = <<f>> /\ Len(s) = 1 /\ s[1] = f
    BY SingleIs
<1>2. /\ s \o t \in Seq(Bytes) /\ Len(s \o t) = Len(s) + Len(t)
      /\ \A i \in 1 .. Len(s) + Len(t) : (s \o t)[i] = IF i <= Len(s) THEN s[i] ELSE t[i - Len(s)]
    BY ConcatProperties
<1>3. \A i \in 1 .. 1 + n : h[i] = IF i <= 1 THEN s[i] ELSE t[i - 1]
    BY <1>0, <1>1, <1>2
<1>4. ASSUME NEW i \in 1 .. n PROVE h[i + 1] = t[i]
    <2>1. i + 1 \in 1 .. 1 + n /\ ~(i + 1 <= 1) /\ (i + 1) - 1 = i
        OBVIOUS
    <2> QED BY <1>3, <2>1
<1>5. h[1] = f
    BY <1>1, <1>3
<1> QED BY <1>0, <1>1, <1>2, <1>4, <1>5

LEMMA CutIs ==
    ASSUME NEW h \in Seq(Bytes), NEW w \in Nat, Len(h) >= 2 + w
    PROVE  /\ Cut(h, 3, 3 + w) \in Seq(Bytes) /\ Len(Cut(h, 3, 3 + w)) = w
           /\ \A k \in 1 .. w : Cut(h, 3, 3 + w)[k] = h[k + 2]
<1>1. PICK i \in Int, j \in Int : i = 3 /\ j = 2 + w
    OBVIOUS
<1>2. /\ SubSeq(h, i, j) \in Seq(Bytes) /\ Len(SubSeq(h, i, j)) = (IF i <= j THEN j - i + 1 ELSE 0)
      /\ \A k \in 1 .. (j - i + 1) : SubSeq(h, i, j)[k] = h[i + k - 1]
    BY <1>1, PartIs
<1>3. Cut(h, 3, 3 + w) = SubSeq(h, i, j)
    <2>1. 3 + w - 1 = j
        BY <1>1
    <2> QED BY <1>1, <2>1 DEF Cut
<1>4. (IF i <= j THEN j - i + 1 ELSE 0) = w /\ j - i + 1 = w /\ \A k \in 1 .. w : i + k - 1 = k + 2
    BY <1>1
<1> QED BY <1>2, <1>3, <1>4

\* What the head of a frame says is what it was written for.
LEMMA HeadIs ==
    ASSUME NEW len \in Lengths, NEW opcode \in Int
    PROVE  \E w \in {0, 2, 8} : IsHead(frame_head(len, opcode), len, opcode, w)
<1>0. len \in Nat
    BY SMT DEF Lengths
<1>1. PICK f \in Bytes : f = 128 + (opcode % 16) /\ f >= 128 /\ (f % 16) = (opcode % 16)
    BY DEF Bytes
<1>2. CASE len < 126
    <2>1. len \in Bytes
        BY <1>0, <1>2 DEF Bytes
    <2>2. PICK t \in Seq(Bytes) : t = <<len>> /\ Len(t) = 1 /\ t[1] = len
        BY <2>1, SingleIs
    <2>3. PICK h : h = <<f>> \o t
        OBVIOUS
    <2>4. h \in Seq(Bytes) /\ Len(h) = 2 /\ h[1] = f /\ h[2] = len
        <3>1. /\ h \in Seq(Bytes) /\ Len(h) = Len(t) + 1
              /\ h[1] = f /\ \A i \in 1 .. Len(t) : h[i + 1] = t[i]
            BY <2>2, <2>3, HeadOf
        <3>2. h[1 + 1] = t[1]
            BY <2>2, <3>1
        <3> QED BY <2>2, <3>1, <3>2
    <2>5. frame_head(len, opcode) = h
        BY <1>0, <1>1, <1>2, <2>2, <2>3 DEF frame_head
    <2>6. Width(len) = 0 /\ len % 128 = len
        BY <1>0, <1>2 DEF Width
    <2>7. IsHead(h, len, opcode, 0)
        BY <1>0, <1>1, <1>2, <2>4, <2>6 DEF IsHead, payload_len
    <2> QED BY <2>5, <2>7
<1>3. CASE len >= 126 /\ len <= 65535
    <2>1. PICK b \in Seq(Bytes) : /\ b = BigEndian(len, 2) /\ Len(b) = 2
                                 /\ \A i \in 1 .. 2 : b[i] = (len \div Place[2 + 1 - i]) % 256
        BY <1>0, BigEndianIs
    <2>2. b[1] = (len \div Place[2]) % 256 /\ b[2] = (len \div Place[1]) % 256
        BY <2>1
    <2>3. 256 * b[1] + b[2] = len
        BY <1>0, <1>3, <2>2, TwoBytes
    <2>4. PICK t : t = <<126>> \o b
        OBVIOUS
    <2>5. t \in Seq(Bytes) /\ Len(t) = 3 /\ t[1] = 126 /\ t[2] = b[1] /\ t[3] = b[2]
        <3>0. 126 \in Bytes
            BY DEF Bytes
        <3>1. /\ t \in Seq(Bytes) /\ Len(t) = Len(b) + 1
              /\ t[1] = 126 /\ \A i \in 1 .. Len(b) : t[i + 1] = b[i]
            BY <2>1, <2>4, <3>0, HeadOf
        <3>2. t[1 + 1] = b[1] /\ t[2 + 1] = b[2]
            BY <2>1, <3>1
        <3> QED BY <2>1, <3>1, <3>2
    <2>6. PICK h : h = <<f>> \o t
        OBVIOUS
    <2>7. h \in Seq(Bytes) /\ Len(h) = 4 /\ h[1] = f /\ h[2] = 126 /\ h[3] = b[1] /\ h[4] = b[2]
        <3>0. t \in Seq(Bytes)
            BY <2>5
        <3>1. /\ h \in Seq(Bytes) /\ Len(h) = Len(t) + 1
              /\ h[1] = f /\ \A i \in 1 .. Len(t) : h[i + 1] = t[i]
            BY <3>0, <2>6, HeadOf
        <3>2. h[1 + 1] = t[1] /\ h[2 + 1] = t[2] /\ h[3 + 1] = t[3]
            BY <2>5, <3>1
        <3> QED BY <2>5, <3>1, <3>2
    <2>8. frame_head(len, opcode) = h
        BY <1>0, <1>1, <1>3, <2>1, <2>4, <2>6 DEF frame_head
    <2>9. PICK c \in Seq(Bytes) : c = Cut(h, 3, 3 + 2) /\ Len(c) = 2 /\ c[1] = h[3] /\ c[2] = h[4]
        <3>1. PICK w \in Nat : w = 2
            OBVIOUS
        <3>2. /\ Cut(h, 3, 3 + w) \in Seq(Bytes) /\ Len(Cut(h, 3, 3 + w)) = w
              /\ \A k \in 1 .. w : Cut(h, 3, 3 + w)[k] = h[k + 2]
            <4>1. h \in Seq(Bytes) /\ Len(h) >= 2 + w
                BY <2>7, <3>1
            <4> QED BY <4>1, CutIs
        <3>3. Cut(h, 3, 3 + w)[1] = h[1 + 2] /\ Cut(h, 3, 3 + w)[2] = h[2 + 2]
            BY <3>1, <3>2
        <3> QED BY <3>1, <3>2, <3>3
    <2>10. payload_len(h, 2) = len
        BY <2>1, <2>3, <2>7, <2>9 DEF payload_len, FromBigEndian, Shift
    <2>11. IsHead(h, len, opcode, 2)
        BY <1>1, <2>7, <2>10 DEF IsHead, Width
    <2> QED BY <2>8, <2>11
<1>4. CASE len > 65535
    <2>1. PICK b \in Seq(Bytes) : /\ b = BigEndian(len, 4) /\ Len(b) = 4
                                 /\ \A i \in 1 .. 4 : b[i] = (len \div Place[4 + 1 - i]) % 256
        BY <1>0, BigEndianIs
    <2>2. /\ b[1] = (len \div Place[4]) % 256 /\ b[2] = (len \div Place[3]) % 256
          /\ b[3] = (len \div Place[2]) % 256 /\ b[4] = (len \div Place[1]) % 256
        BY <2>1
    <2>3. 256 * (256 * (256 * b[1] + b[2]) + b[3]) + b[4] = len
        BY <2>2, FourBytes
    <2>4. PICK u \in Seq(Bytes) : u = <<127, 0, 0, 0, 0>>
        <3>1. PICK x \in Bytes, y \in Bytes : x = 127 /\ y = 0
            BY DEF Bytes
        <3>2. <<x, y, y, y, y>> \in Seq(Bytes)
            OBVIOUS
        <3> QED BY <3>1, <3>2
    <2>5. Len(u) = 5 /\ u[1] = 127 /\ u[2] = 0 /\ u[3] = 0 /\ u[4] = 0 /\ u[5] = 0
        BY <2>4
    <2>6. PICK t : t = u \o b
        OBVIOUS
    <2>7. /\ t \in Seq(Bytes) /\ Len(t) = 9 /\ t[1] = 127 /\ t[2] = 0 /\ t[3] = 0 /\ t[4] = 0 /\ t[5] = 0
          /\ t[6] = b[1] /\ t[7] = b[2] /\ t[8] = b[3] /\ t[9] = b[4]
        <3>1. /\ t \in Seq(Bytes) /\ Len(t) = Len(u) + Len(b)
              /\ \A i \in 1 .. Len(u) + Len(b) : t[i] = IF i <= Len(u) THEN u[i] ELSE b[i - Len(u)]
            BY <2>1, <2>6, ConcatProperties
        <3>2. \A i \in 1 .. 9 : t[i] = IF i <= 5 THEN u[i] ELSE b[i - 5]
            BY <2>1, <2>5, <3>1
        <3>3. t[1] = u[1] /\ t[2] = u[2] /\ t[3] = u[3] /\ t[4] = u[4] /\ t[5] = u[5]
            BY <3>2
        <3>4. t[6] = b[1] /\ t[7] = b[2] /\ t[8] = b[3] /\ t[9] = b[4]
            BY <3>2
        <3> QED BY <2>1, <2>5, <3>1, <3>3, <3>4
    <2>8. PICK h : h = <<f>> \o t
        OBVIOUS
    <2>9. /\ h \in Seq(Bytes) /\ Len(h) = 10 /\ h[1] = f /\ h[2] = 127
          /\ h[3] = 0 /\ h[4] = 0 /\ h[5] = 0 /\ h[6] = 0
          /\ h[7] = b[1] /\ h[8] = b[2] /\ h[9] = b[3] /\ h[10] = b[4]
        <3>0. t \in Seq(Bytes)
            BY <2>7
        <3>1. /\ h \in Seq(Bytes) /\ Len(h) = Len(t) + 1
              /\ h[1] = f /\ \A i \in 1 .. Len(t) : h[i + 1] = t[i]
            BY <3>0, <2>8, HeadOf
        <3>2. h[1 + 1] = t[1] /\ h[2 + 1] = t[2] /\ h[3 + 1] = t[3] /\ h[4 + 1] = t[4] /\ h[5 + 1] = t[5]
            BY <2>7, <3>1
        <3>3. h[6 + 1] = t[6] /\ h[7 + 1] = t[7] /\ h[8 + 1] = t[8] /\ h[9 + 1] = t[9]
            BY <2>7, <3>1
        <3> QED BY <2>7, <3>1, <3>2, <3>3
    <2>10. frame_head(len, opcode) = h
        BY <1>0, <1>1, <1>4, <2>1, <2>4, <2>6, <2>8, SMTT(30) DEF frame_head
    <2>11. PICK c \in Seq(Bytes) : /\ c = Cut(h, 3, 3 + 8) /\ Len(c) = 8
                                  /\ c[1] = h[3] /\ c[2] = h[4] /\ c[3] = h[5] /\ c[4] = h[6]
                                  /\ c[5] = h[7] /\ c[6] = h[8] /\ c[7] = h[9] /\ c[8] = h[10]
        <3>1. PICK w \in Nat : w = 8
            OBVIOUS
        <3>2. /\ Cut(h, 3, 3 + w) \in Seq(Bytes) /\ Len(Cut(h, 3, 3 + w)) = w
              /\ \A k \in 1 .. w : Cut(h, 3, 3 + w)[k] = h[k + 2]
            <4>1. h \in Seq(Bytes) /\ Len(h) >= 2 + w
                BY <2>9, <3>1
            <4> QED BY <4>1, CutIs
        <3>3. PICK c : c = Cut(h, 3, 3 + 8)
            OBVIOUS
        <3>4. /\ c[1] = h[1 + 2] /\ c[2] = h[2 + 2] /\ c[3] = h[3 + 2] /\ c[4] = h[4 + 2]
              /\ c[5] = h[5 + 2] /\ c[6] = h[6 + 2] /\ c[7] = h[7 + 2] /\ c[8] = h[8 + 2]
            BY <3>1, <3>2, <3>3
        <3> QED BY <3>1, <3>2, <3>3, <3>4
    <2>12. PICK x1 \in Nat, x2 \in Nat, x3 \in Nat, x4 \in Nat :
               x1 = b[1] /\ x2 = b[2] /\ x3 = b[3] /\ x4 = b[4]
        BY <2>1 DEF Bytes
    <2>13. FromBigEndian(c) = 256 * (256 * (256 * x1 + x2) + x3) + x4
        <3>1. c[1] = 0 /\ c[2] = 0 /\ c[3] = 0 /\ c[4] = 0 /\ c[5] = x1 /\ c[6] = x2 /\ c[7] = x3 /\ c[8] = x4
            BY <2>9, <2>11, <2>12
        <3>2. Shift(Shift(Shift(c[1], c[2]), c[3]), c[4]) = 0
            BY <3>1 DEF Shift
        <3>3. Shift(Shift(Shift(Shift(0, x1), x2), x3), x4) = 256 * (256 * (256 * x1 + x2) + x3) + x4
            BY DEF Shift
        <3>4. Len(c) # 2
            <4>1. Len(c) = 8
                BY <2>11
            <4>2. 8 # 2
                OBVIOUS
            <4> QED BY <4>1, <4>2
        <3> QED BY <3>1, <3>2, <3>3, <3>4 DEF FromBigEndian
    <2>14. payload_len(h, 8) = len
        BY <2>3, <2>11, <2>12, <2>13 DEF payload_len
    <2>15. IsHead(h, len, opcode, 8)
        BY <1>1, <2>9, <2>14 DEF IsHead, Width
    <2> QED BY <2>10, <2>15
<1> QED BY <1>0, <1>2, <1>3, <1>4

(* What is read from a buffer that begins with a head, masked or not. *)

Begins(buf, h, w, m) ==
    \A i \in 1 .. 2 + w : i <= Len(buf) => buf[i] = IF i = 2 /\ m = 4 THEN h[2] + 128 ELSE h[i]

LEMMA LengthSame ==
    ASSUME NEW buf \in Seq(Bytes), NEW h, NEW len, NEW opcode, NEW w \in {2, 8}, NEW m \in {0, 4},
           IsHead(h, len, opcode, w), Begins(buf, h, w, m), Len(buf) >= 2 + w
    PROVE  FromBigEndian(Cut(buf, 3, 3 + w)) = len
<1>1. h \in Seq(Bytes) /\ Len(h) >= 2 + w /\ payload_len(h, w) = len
    BY DEF IsHead
<1>2. /\ Cut(h, 3, 3 + w) \in Seq(Bytes) /\ Len(Cut(h, 3, 3 + w)) = w
      /\ \A k \in 1 .. w : Cut(h, 3, 3 + w)[k] = h[k + 2]
    BY <1>1, CutIs
<1>3. /\ Cut(buf, 3, 3 + w) \in Seq(Bytes) /\ Len(Cut(buf, 3, 3 + w)) = w
      /\ \A k \in 1 .. w : Cut(buf, 3, 3 + w)[k] = buf[k + 2]
    BY CutIs
<1>4. ASSUME NEW k \in 1 .. w PROVE Cut(buf, 3, 3 + w)[k] = Cut(h, 3, 3 + w)[k]
    <2>1. k + 2 \in 1 .. 2 + w /\ k + 2 # 2 /\ k + 2 <= Len(buf)
        BY LenProperties
    <2>2. buf[k + 2] = h[k + 2]
        BY <2>1 DEF Begins
    <2> QED BY <1>2, <1>3, <2>2
<1>5. Cut(buf, 3, 3 + w) = Cut(h, 3, 3 + w)
    BY <1>2, <1>3, <1>4, SeqEqual
<1> QED BY <1>1, <1>5 DEF payload_len

DecodesTo(buf, len, opcode, w, m) ==
    decode_frame(buf) = IF Len(buf) < 2 + w + m + len THEN Incomplete
                        ELSE [ok |-> TRUE, fin |-> TRUE, opcode |-> (opcode % 16),
                              payload |-> payload_of(buf, 2 + w + m, len)]

LEMMA DecodeIs ==
    ASSUME NEW buf \in Seq(Bytes), NEW h, NEW len \in Lengths, NEW opcode \in Int, NEW w \in {0, 2, 8},
           NEW m \in {0, 4}, IsHead(h, len, opcode, w), Begins(buf, h, w, m)
    PROVE  DecodesTo(buf, len, opcode, w, m)
<1> USE DEF DecodesTo
<1>1. PICK n \in Nat : n = Len(buf)
    BY LenProperties
<1>2. len \in Nat
    BY SMT DEF Lengths
<1>3. CASE n < 2
    <2>1. decode_frame(buf) = Incomplete
        BY <1>1, <1>3 DEF decode_frame
    <2>2. n < 2 + w + m + len
        BY <1>2, <1>3
    <2> QED BY <1>1, <2>1, <2>2
<1>4. CASE n >= 2
    <2>1. PICK short \in Nat : short = h[2] /\ short < 128 /\ Width(short) = w
        BY DEF IsHead, Bytes
    <2>2. buf[2] = IF m = 4 THEN short + 128 ELSE short
        <3>1. 2 \in 1 .. 2 + w
            OBVIOUS
        <3> QED BY <1>1, <1>4, <2>1, <3>1 DEF Begins
    <2>3. buf[2] % 128 = short /\ (buf[2] >= 128 <=> m = 4)
        BY <2>1, <2>2, SMTT(30)
    <2>4. buf[1] = h[1] /\ buf[1] >= 128 /\ (buf[1] % 16) = (opcode % 16)
        <3>1. 1 \in 1 .. 2 + w
            OBVIOUS
        <3> QED BY <1>1, <1>4, <3>1 DEF Begins, IsHead
    <2>5. PICK pos \in Nat : pos = 2 + w + m /\ pos = 2 + w + (IF buf[2] >= 128 THEN 4 ELSE 0)
        BY <2>3
    <2>6. CASE n < pos
        <3>1. decode_frame(buf) = Incomplete
            <4>1. payload_pos(buf, w) = pos /\ Width(buf[2] % 128) = w
                BY <2>1, <2>3, <2>5 DEF payload_pos
            <4> QED BY <1>1, <1>4, <2>6, <4>1 DEF decode_frame
        <3>2. n < 2 + w + m + len
            BY <1>2, <2>5, <2>6
        <3> QED BY <1>1, <3>1, <3>2
    <2>7. CASE n >= pos
        <3>1. payload_len(buf, w) = len
            <4>1. CASE w = 0
                BY <2>1, <2>3, <4>1 DEF IsHead, payload_len
            <4>2. CASE w # 0
                <5>1. w \in {2, 8} /\ Len(buf) >= 2 + w
                    BY <1>1, <2>5, <2>7, <4>2
                <5> QED BY <4>2, <5>1, LengthSame DEF payload_len
            <4> QED BY <4>1, <4>2
        <3>2. payload_pos(buf, w) = pos /\ Width(buf[2] % 128) = w
            BY <2>1, <2>3, <2>5 DEF payload_pos
        <3>3. (buf[1] >= 128) = TRUE
            BY <2>4
        <3>4. ~(Len(buf) < 2) /\ ~(Len(buf) < pos)
            BY <1>1, <1>4, <2>7
        <3>5. CASE Len(buf) < pos + len
            <4>1. decode_frame(buf) = Incomplete
                BY <3>1, <3>2, <3>4, <3>5, Zenon DEF decode_frame
            <4> QED BY <2>5, <3>5, <4>1
        <3>6. CASE ~(Len(buf) < pos + len)
            <4>1. decode_frame(buf) = [ok |-> TRUE, fin |-> buf[1] >= 128, opcode |-> buf[1] % 16,
                                       payload |-> payload_of(buf, pos, len)]
                BY <3>1, <3>2, <3>4, <3>6, Zenon DEF decode_frame
            <4> QED BY <2>4, <2>5, <3>3, <3>6, <4>1
        <3> QED BY <3>5, <3>6
    <2> QED BY <2>6, <2>7
<1> QED BY <1>3, <1>4

LEMMA MaskedIs ==
    ASSUME NEW payload \in Seq(Bytes), NEW key \in Seq(Bytes), Len(key) = 4
    PROVE  /\ Masked(payload, key) \in Seq(Bytes) /\ Len(Masked(payload, key)) = Len(payload)
           /\ Masked(Masked(payload, key), key) = payload
<1>1. PICK l \in Nat : l = Len(payload) /\ DOMAIN payload = 1 .. l
    BY LenProperties
<1>2. ASSUME NEW i \in 1 .. l
      PROVE  /\ Xor(payload[i], key[((i - 1) % 4) + 1]) \in Bytes
             /\ Xor(Xor(payload[i], key[((i - 1) % 4) + 1]), key[((i - 1) % 4) + 1]) = payload[i]
    <2>1. PICK k \in 1 .. 4 : k = ((i - 1) % 4) + 1
        OBVIOUS
    <2>2. PICK a \in Bytes, b \in Bytes : a = payload[i] /\ b = key[k]
        <3>1. i \in 1 .. Len(payload) /\ k \in 1 .. Len(key)
            BY <1>1, <2>1
        <3>2. payload[i] \in Bytes /\ key[k] \in Bytes
            BY <3>1, ElementOfSeq
        <3> QED BY <3>2
    <2>3. a \in 0 .. 255 /\ b \in 0 .. 255
        BY DEF Bytes
    <2>4. Xor(Xor(a, b), b) = a
        BY <2>3, XorTwice
    <2>5. Xor(a, b) \in Bytes
        <3>1. PICK x \in 0 .. 255 : x = Xor(a, b)
            BY <2>3, XorTwice
        <3>2. x \in Bytes
            BY DEF Bytes
        <3> QED BY <3>1, <3>2
    <2> QED BY <2>1, <2>2, <2>4, <2>5
<1>3. PICK m : m = Masked(payload, key)
    OBVIOUS
<1>4. m = [i \in 1 .. l |-> Xor(payload[i], key[((i - 1) % 4) + 1])]
    BY <1>1, <1>3 DEF Masked
<1>5. m \in [1 .. l -> Bytes]
    BY <1>2, <1>4
<1>6. m \in Seq(Bytes) /\ Len(m) = l /\ DOMAIN m = 1 .. l
    BY <1>5, FunctionIsText
<1>7. Masked(m, key) = [i \in 1 .. l |-> Xor(m[i], key[((i - 1) % 4) + 1])]
    BY <1>6 DEF Masked
<1>8. \A i \in 1 .. l : Xor(m[i], key[((i - 1) % 4) + 1]) = payload[i]
    BY <1>2, <1>4
<1>9. Masked(m, key) = [i \in 1 .. l |-> payload[i]]
    BY <1>7, <1>8
<1>10. payload = [i \in 1 .. l |-> payload[i]]
    BY <1>1, LenProperties
<1> QED BY <1>1, <1>3, <1>6, <1>9, <1>10

Then(a, b) == a \o b

LEMMA ThenIs ==
    ASSUME NEW C, NEW a \in Seq(C), NEW b \in Seq(C)
    PROVE  /\ Then(a, b) \in Seq(C) /\ Len(Then(a, b)) = Len(a) + Len(b)
           /\ \A i \in 1 .. Len(a) + Len(b) : Then(a, b)[i] = IF i <= Len(a) THEN a[i] ELSE b[i - Len(a)]
BY ConcatProperties DEF Then

LEMMA ThenAssociative ==
    ASSUME NEW C, NEW a \in Seq(C), NEW b \in Seq(C), NEW c \in Seq(C)
    PROVE  Then(Then(a, b), c) = Then(a, Then(b, c))
BY ConcatAssociative DEF Then

Between(s, a, b, c) ==
    /\ s \in Seq(Bytes) /\ Len(s) = Len(a) + Len(b) + Len(c)
    /\ Cut(s, Len(a) + 1, Len(a) + Len(b) + 1) = b
    /\ \A i \in 1 .. Len(a) : s[i] = a[i]

LEMMA MiddleCut ==
    ASSUME NEW a \in Seq(Bytes), NEW b \in Seq(Bytes), NEW c \in Seq(Bytes)
    PROVE  Between(Then(Then(a, b), c), a, b, c)
<1>0. PICK s : s = Then(Then(a, b), c)
    OBVIOUS
<1>1. PICK p \in Nat, q \in Nat, r \in Nat : p = Len(a) /\ q = Len(b) /\ r = Len(c)
    BY LenProperties
<1>2. PICK t \in Seq(Bytes) : t = Then(a, b) /\ Len(t) = p + q /\ \A i \in 1 .. p + q : t[i] = IF i <= p THEN a[i] ELSE b[i - p]
    <2>1. PICK t : t = Then(a, b)
        OBVIOUS
    <2>2. /\ t \in Seq(Bytes) /\ Len(t) = Len(a) + Len(b)
          /\ \A i \in 1 .. Len(a) + Len(b) : t[i] = IF i <= Len(a) THEN a[i] ELSE b[i - Len(a)]
        BY <2>1, ThenIs
    <2> QED BY <1>1, <2>1, <2>2
<1>3. /\ s \in Seq(Bytes) /\ Len(s) = p + q + r
      /\ \A i \in 1 .. p + q + r : s[i] = IF i <= p + q THEN t[i] ELSE c[i - (p + q)]
    <2>1. s = Then(t, c) /\ t \in Seq(Bytes) /\ Len(t) = p + q /\ Len(c) = r
        BY <1>0, <1>1, <1>2
    <2>2. /\ s \in Seq(Bytes) /\ Len(s) = Len(t) + Len(c)
          /\ \A i \in 1 .. Len(t) + Len(c) : s[i] = IF i <= Len(t) THEN t[i] ELSE c[i - Len(t)]
        BY <2>1, ThenIs
    <2> QED BY <2>1, <2>2
<1>4. ASSUME NEW i \in 1 .. p + q PROVE s[i] = IF i <= p THEN a[i] ELSE b[i - p]
    <2>1. i \in 1 .. p + q + r
        OBVIOUS
    <2> QED BY <1>2, <1>3, <2>1
<1>5. PICK x \in Int, y \in Int : x = p + 1 /\ y = p + q
    OBVIOUS
<1>6. /\ SubSeq(s, x, y) \in Seq(Bytes) /\ Len(SubSeq(s, x, y)) = (IF x <= y THEN y - x + 1 ELSE 0)
      /\ \A k \in 1 .. (y - x + 1) : SubSeq(s, x, y)[k] = s[x + k - 1]
    BY <1>3, <1>5, PartIs
<1>7. Len(SubSeq(s, x, y)) = q /\ y - x + 1 = q
    BY <1>5, <1>6
<1>8. ASSUME NEW k \in 1 .. q PROVE SubSeq(s, x, y)[k] = b[k]
    <2>1. SubSeq(s, x, y)[k] = s[x + k - 1]
        BY <1>6, <1>7
    <2>2. PICK i \in 1 .. p + q : i = x + k - 1 /\ ~(i <= p) /\ i - p = k
        BY <1>5
    <2>3. s[i] = b[i - p]
        BY <1>4, <2>2
    <2> QED BY <2>1, <2>2, <2>3
<1>9. SubSeq(s, x, y) = b
    BY <1>1, <1>6, <1>7, <1>8, SeqEqual
<1>10. Cut(s, p + 1, p + q + 1) = b
    <2>1. PICK e \in Int : e = p + q + 1 /\ e - 1 = y /\ x = p + 1
        BY <1>5
    <2>2. Cut(s, x, e) = SubSeq(s, x, y)
        BY <2>1 DEF Cut
    <2> QED BY <1>9, <2>1, <2>2
<1>11. ASSUME NEW i \in 1 .. p PROVE s[i] = a[i]
    <2>1. i \in 1 .. p + q /\ i <= p
        OBVIOUS
    <2> QED BY <1>4, <2>1
<1> QED BY <1>0, <1>1, <1>3, <1>10, <1>11 DEF Between

\* A part of a frame is no frame.
LEMMA PartIncomplete ==
    ASSUME NEW frame \in Seq(Bytes), NEW h, NEW len \in Lengths, NEW opcode \in Int, NEW w \in {0, 2, 8},
           NEW m \in {0, 4}, IsHead(h, len, opcode, w), Begins(frame, h, w, m),
           Len(frame) = 2 + w + m + len, NEW n \in Nat, n < Len(frame)
    PROVE  ~decode_frame(Upto(frame, n)).ok
<1>1. PICK t \in Seq(Bytes) : t = Upto(frame, n) /\ Len(t) = n /\ \A i \in 1 .. n : t[i] = frame[i]
    <2>1. PICK i \in Int, j \in Int : i = 1 /\ j = n
        OBVIOUS
    <2>2. /\ SubSeq(frame, i, j) \in Seq(Bytes) /\ Len(SubSeq(frame, i, j)) = (IF i <= j THEN j - i + 1 ELSE 0)
          /\ \A k \in 1 .. (j - i + 1) : SubSeq(frame, i, j)[k] = frame[i + k - 1]
        BY <2>1, PartIs
    <2>3. /\ (IF i <= j THEN j - i + 1 ELSE 0) = n /\ j - i + 1 = n
          /\ \A k \in 1 .. n : i + k - 1 = k
        BY <2>1
    <2>4. Upto(frame, n) = SubSeq(frame, i, j)
        <3>1. (IF n < Len(frame) THEN n ELSE Len(frame)) = j
            BY <2>1
        <3> QED BY <2>1, <3>1 DEF Upto
    <2>5. PICK t : t = Upto(frame, n)
        OBVIOUS
    <2>6. t \in Seq(Bytes) /\ Len(t) = n
        BY <2>2, <2>3, <2>4, <2>5
    <2>7. ASSUME NEW k \in 1 .. n PROVE t[k] = frame[k]
        <3>1. k \in 1 .. (j - i + 1) /\ i + k - 1 = k
            BY <2>3
        <3>2. SubSeq(frame, i, j)[k] = frame[k]
            BY <2>2, <3>1
        <3> QED BY <2>4, <2>5, <3>2
    <2> QED BY <2>5, <2>6, <2>7
<1>2. Begins(t, h, w, m)
    <2>1. ASSUME NEW i \in 1 .. 2 + w, i <= n PROVE t[i] = IF i = 2 /\ m = 4 THEN h[2] + 128 ELSE h[i]
        <3>1. i \in 1 .. n /\ i <= Len(frame)
            BY <2>1, LenProperties
        <3> QED BY <1>1, <3>1 DEF Begins
    <2> QED BY <1>1, <2>1 DEF Begins
<1>3. decode_frame(t) = IF Len(t) < 2 + w + m + len THEN Incomplete
                        ELSE [ok |-> TRUE, fin |-> TRUE, opcode |-> (opcode % 16),
                              payload |-> payload_of(t, 2 + w + m, len)]
    BY <1>2, DecodeIs, ZenonT(30) DEF DecodesTo
<1> QED BY <1>1, <1>3 DEF Incomplete

\* A WebSocket frame is read as it was written (stdlib_websocket.c), for every
\* payload that a string holds, every operation and every key of a browser: the
\* three forms of its length meet without a gap, the mask comes off, what
\* follows the frame is left alone, and no part of it is taken for a frame.
THEOREM FramesReadBack ==
    ASSUME NEW payload \in Seq(Bytes), Len(payload) \in Lengths, NEW opcode \in Int,
           NEW key \in Seq(Bytes), Len(key) = 4, NEW rest \in Seq(Bytes)
    PROVE  FrameLaw(payload, opcode, key, rest, Nat)
<1>1. PICK len \in Lengths : len = Len(payload)
    OBVIOUS
<1>2. len \in Nat
    BY SMT DEF Lengths
<1>0. PICK h : h = frame_head(len, opcode)
    OBVIOUS
<1>3. PICK w \in {0, 2, 8} : h = frame_head(len, opcode) /\ IsHead(h, len, opcode, w)
    BY <1>1, <1>0, HeadIs
<1>4. h \in Seq(Bytes) /\ Len(h) = 2 + w /\ h[2] < 128
    BY <1>3 DEF IsHead
<1>5. ASSUME NEW frame \in Seq(Bytes), NEW m \in {0, 4}, Begins(frame, h, w, m), Len(frame) = 2 + w + m + len,
             NEW buf \in Seq(Bytes), buf = Then(frame, rest), payload_of(buf, 2 + w + m, len) = payload
      PROVE  FrameRead(frame, payload, opcode, rest) /\ CutShort(frame, Nat \cup {Len(frame) - 1})
    <2>1. Len(buf) = Len(frame) + Len(rest) /\ \A i \in 1 .. Len(frame) : buf[i] = frame[i]
        <3>1. \A i \in 1 .. Len(frame) + Len(rest) :
                  buf[i] = IF i <= Len(frame) THEN frame[i] ELSE rest[i - Len(frame)]
            BY <1>5, ThenIs, ZenonT(30)
        <3>2. ASSUME NEW i \in 1 .. Len(frame) PROVE buf[i] = frame[i]
            <4>1. i \in 1 .. Len(frame) + Len(rest) /\ i <= Len(frame)
                BY LenProperties
            <4> QED BY <3>1, <4>1
        <3> QED BY <1>5, <3>2, ThenIs, ZenonT(30)
    <2>2. Begins(buf, h, w, m)
        <3>1. ASSUME NEW i \in 1 .. 2 + w PROVE buf[i] = IF i = 2 /\ m = 4 THEN h[2] + 128 ELSE h[i]
            <4>1. i \in 1 .. Len(frame) /\ i <= Len(frame)
                BY <1>2, <1>5
            <4> QED BY <1>5, <2>1, <4>1 DEF Begins
        <3> QED BY <3>1 DEF Begins
    <2>3. ~(Len(buf) < 2 + w + m + len)
        <3>1. Len(rest) \in Nat
            BY LenProperties
        <3> QED BY <1>2, <1>5, <2>1, <3>1
    <2>4. decode_frame(buf) = [ok |-> TRUE, fin |-> TRUE, opcode |-> (opcode % 16), payload |-> payload]
        <3>1. decode_frame(buf) = IF Len(buf) < 2 + w + m + len THEN Incomplete
                                  ELSE [ok |-> TRUE, fin |-> TRUE, opcode |-> (opcode % 16),
                                        payload |-> payload_of(buf, 2 + w + m, len)]
            <4>1. buf \in Seq(Bytes) /\ IsHead(h, len, opcode, w) /\ Begins(buf, h, w, m) /\ m \in {0, 4}
                BY <1>3, <1>5, <2>2
            <4>2. opcode \in Int /\ len \in Lengths /\ w \in {0, 2, 8}
                BY <1>1, <1>3
            <4>3. DecodesTo(buf, len, opcode, w, m)
                BY <4>1, <4>2, DecodeIs, Zenon
            <4> QED BY <4>3 DEF DecodesTo
        <3> QED BY <1>5, <2>3, <3>1
    <2>5. ASSUME NEW n \in Nat \cup {Len(frame) - 1}, n < Len(frame) PROVE ~decode_frame(Upto(frame, n)).ok
        <3>1. n \in Nat
            BY <1>2, <1>5
        <3> QED BY <1>3, <1>5, <2>5, <3>1, PartIncomplete
    <2>6. FrameRead(frame, payload, opcode, rest)
        BY <1>5, <2>4 DEF FrameRead, Then
    <2> QED BY <2>5, <2>6 DEF CutShort
<1>6. FrameRead(encode_frame(payload, opcode), payload, opcode, rest)
      /\ CutShort(encode_frame(payload, opcode), Nat \cup {Len(encode_frame(payload, opcode)) - 1})
    <2>1. PICK frame : frame = Then(h, payload)
        OBVIOUS
    <2>2. encode_frame(payload, opcode) = frame
        BY <1>1, <1>3, <2>1 DEF encode_frame, Then
    <2>3. /\ frame \in Seq(Bytes) /\ Len(frame) = Len(h) + Len(payload)
          /\ \A i \in 1 .. Len(h) + Len(payload) : frame[i] = IF i <= Len(h) THEN h[i] ELSE payload[i - Len(h)]
        BY <1>4, <2>1, ThenIs
    <2>4. Begins(frame, h, w, 0)
        <3>1. ASSUME NEW i \in 1 .. 2 + w PROVE frame[i] = h[i]
            <4>1. i \in 1 .. Len(h) + Len(payload) /\ i <= Len(h)
                BY <1>1, <1>2, <1>4
            <4> QED BY <2>3, <4>1
        <3> QED BY <3>1 DEF Begins
    <2>5. PICK buf : buf = Then(frame, rest) /\ buf = Then(Then(h, payload), rest)
        BY <2>1
    <2>6. /\ buf \in Seq(Bytes)
          /\ Cut(buf, Len(h) + 1, Len(h) + Len(payload) + 1) = payload
          /\ \A i \in 1 .. Len(h) : buf[i] = h[i]
        <3>1. h \in Seq(Bytes) /\ payload \in Seq(Bytes) /\ rest \in Seq(Bytes) /\ buf = Then(Then(h, payload), rest)
            BY <1>4, <2>5
        <3>2. Between(buf, h, payload, rest)
            BY <3>1, MiddleCut, Zenon
        <3> QED BY <3>2 DEF Between
    <2>7. payload_of(buf, 2 + w + 0, len) = payload
        <3>1. 2 \in 1 .. Len(h)
            BY <1>4
        <3>2. buf[2] = h[2] /\ h[2] \in Nat
            BY <1>4, <2>6, <3>1, ElementOfSeq DEF Bytes
        <3>3. ~(buf[2] >= 128)
            BY <1>4, <3>2
        <3>4. 2 + w + 0 = Len(h)
            BY <1>4
        <3> QED BY <1>1, <2>6, <3>3, <3>4 DEF payload_of
    <2>8. Len(frame) = 2 + w + 0 + len
        BY <1>1, <1>2, <1>4, <2>3
    <2> QED BY <1>5, <2>2, <2>3, <2>4, <2>5, <2>6, <2>7, <2>8
<1>7. FrameRead(masked_frame(payload, opcode, key), payload, opcode, rest)
      /\ CutShort(masked_frame(payload, opcode, key), Nat \cup {Len(masked_frame(payload, opcode, key)) - 1})
    <2>1. PICK g : g = [h EXCEPT ![2] = @ + 128]
        OBVIOUS
    <2>2. g \in Seq(Bytes) /\ Len(g) = 2 + w /\ \A i \in 1 .. 2 + w : g[i] = IF i = 2 THEN h[2] + 128 ELSE h[i]
        <3>1. 2 \in 1 .. Len(h) /\ DOMAIN h = 1 .. Len(h)
            BY <1>4, LenProperties
        <3>2. h[2] + 128 \in Bytes
            BY <1>4, <3>1, ElementOfSeq DEF Bytes
        <3>3. g = [h EXCEPT ![2] = h[2] + 128]
            BY <2>1
        <3>4. /\ g \in Seq(Bytes) /\ Len(g) = Len(h)
              /\ \A j \in 1 .. Len(h) : g[j] = IF j = 2 THEN h[2] + 128 ELSE h[j]
            BY <1>4, <3>1, <3>2, <3>3, ExceptSeq
        <3> QED BY <1>4, <3>4
    <2>3. PICK m \in Seq(Bytes) : m = Masked(payload, key) /\ Len(m) = len /\ Masked(m, key) = payload
        BY <1>1, MaskedIs
    <2>4. PICK frame : frame = Then(Then(g, key), m)
        OBVIOUS
    <2>5. masked_frame(payload, opcode, key) = frame
        BY <1>1, <1>3, <2>1, <2>3, <2>4, Zenon DEF masked_frame, Then
    <2>6. frame \in Seq(Bytes) /\ Len(frame) = 2 + w + 4 + len /\ \A i \in 1 .. 2 + w : frame[i] = g[i]
        <3>1. /\ frame \in Seq(Bytes) /\ Len(frame) = Len(g) + Len(key) + Len(m)
              /\ \A i \in 1 .. Len(g) : frame[i] = g[i]
            <4>1. g \in Seq(Bytes) /\ key \in Seq(Bytes) /\ m \in Seq(Bytes) /\ frame = Then(Then(g, key), m)
                BY <2>2, <2>3, <2>4
            <4>2. Between(frame, g, key, m)
                BY <4>1, MiddleCut, Zenon
            <4> QED BY <4>2 DEF Between
        <3> QED BY <2>2, <2>3, <3>1
    <2>7. Begins(frame, h, w, 4)
        BY <2>2, <2>6 DEF Begins
    <2>8. PICK a : a = Then(g, key)
        OBVIOUS
    <2>9. a \in Seq(Bytes) /\ Len(a) = 2 + w + 4
        <3>1. g \in Seq(Bytes) /\ key \in Seq(Bytes)
            BY <2>2
        <3>2. Then(g, key) \in Seq(Bytes) /\ Len(Then(g, key)) = Len(g) + Len(key)
            BY <3>1, ThenIs, Zenon
        <3> QED BY <2>2, <2>8, <3>2
    <2>10. PICK buf : buf = Then(frame, rest)
        OBVIOUS
    <2>11. /\ buf \in Seq(Bytes)
           /\ Cut(buf, Len(a) + 1, Len(a) + Len(m) + 1) = m
        <3>1. a \in Seq(Bytes) /\ m \in Seq(Bytes) /\ rest \in Seq(Bytes) /\ buf = Then(Then(a, m), rest)
            BY <2>3, <2>4, <2>8, <2>9, <2>10
        <3>2. Between(buf, a, m, rest)
            BY <3>1, MiddleCut, Zenon
        <3> QED BY <3>2 DEF Between
    <2>12. Cut(buf, Len(g) + 1, Len(g) + Len(key) + 1) = key /\ \A i \in 1 .. Len(g) : buf[i] = g[i]
        <3>1. PICK c \in Seq(Bytes) : c = Then(m, rest)
            <4>1. Then(m, rest) \in Seq(Bytes)
                BY <2>3, ThenIs
            <4> QED BY <4>1
        <3>2. Then(Then(a, m), rest) = Then(a, Then(m, rest))
            BY <2>3, <2>9, ThenAssociative
        <3>3. buf = Then(Then(g, key), c)
            BY <2>4, <2>8, <2>10, <3>1, <3>2
        <3>4. g \in Seq(Bytes)
            BY <2>2
        <3>5. Between(buf, g, key, c)
            BY <3>1, <3>3, <3>4, MiddleCut, Zenon
        <3> QED BY <3>5 DEF Between
    <2>13. payload_of(buf, 2 + w + 4, len) = payload
        <3>1. 2 \in 1 .. Len(g) /\ 2 \in 1 .. 2 + w /\ 2 \in 1 .. Len(h)
            BY <1>4, <2>2
        <3>2. buf[2] = h[2] + 128 /\ h[2] \in Nat
            BY <1>4, <2>2, <2>12, <3>1, ElementOfSeq DEF Bytes
        <3>3. buf[2] >= 128
            BY <3>2
        <3>4. PICK pos \in Nat : pos = 2 + w + 4
            OBVIOUS
        <3>5. pos = Len(a) /\ pos - 3 = Len(g) + 1 /\ pos + 1 = Len(g) + Len(key) + 1
            BY <2>2, <2>9, <3>4
        <3>6. Cut(buf, pos + 1, pos + len + 1) = m /\ Cut(buf, pos - 3, pos + 1) = key
            BY <2>3, <2>11, <2>12, <3>5
        <3>7. payload_of(buf, pos, len) = payload
            BY <2>3, <3>3, <3>6 DEF payload_of
        <3> QED BY <3>4, <3>7
    <2> QED BY <1>5, <2>5, <2>6, <2>7, <2>10, <2>11, <2>13
<1> QED BY <1>6, <1>7 DEF FrameLaw

(* Base 64. *)

Sixth == {n \in Nat : n <= 63}

LEMMA Split64 ==
    ASSUME NEW n \in Nat
    PROVE  \E a \in Nat, b \in Sixth : n = 64 * a + b
<1>1. PICK c \in Nat \ {0} : c = 64
    OBVIOUS
<1>2. n % c \in 0 .. (c - 1) /\ \E q \in Nat : n = c * q + (n % c)
    BY Divided
<1>3. n % 64 \in Sixth /\ \E q \in Nat : n = 64 * q + (n % 64)
    BY <1>1, <1>2 DEF Sixth
<1> QED BY <1>3

\* Three bytes in four sixths of a triple.
LEMMA SextetsAre ==
    ASSUME NEW a \in Bytes, NEW b \in Bytes, NEW c \in Bytes, NEW t, t = 65536 * a + 256 * b + c
    PROVE  /\ Sextet(t, 1) \in Sixth /\ Sextet(t, 2) \in Sixth /\ Sextet(t, 3) \in Sixth /\ Sextet(t, 4) \in Sixth
           /\ 262144 * Sextet(t, 1) + 4096 * Sextet(t, 2) + 64 * Sextet(t, 3) + Sextet(t, 4) = t
           /\ c = 0 => Sextet(t, 4) = 0
           /\ b = 0 /\ c = 0 => Sextet(t, 3) = 0
           /\ Octet(t, 1) = a /\ Octet(t, 2) = b /\ Octet(t, 3) = c
<1>1. t \in Nat
    BY SMT DEF Bytes
<1>2. PICK x \in Nat, u4 \in Sixth : t = 64 * x + u4
    BY <1>1, Split64
<1>3. PICK y \in Nat, u3 \in Sixth : x = 64 * y + u3
    BY Split64
<1>4. PICK u1 \in Sixth, u2 \in Sixth : y = 64 * u1 + u2
    <2>1. PICK u1 \in Nat, u2 \in Sixth : y = 64 * u1 + u2
        BY Split64
    <2>2. u1 \in Sixth
        BY <1>2, <1>3, <2>1, SMT DEF Bytes, Sixth
    <2> QED BY <2>1, <2>2
<1>5. Sextet(t, 4) = u4
    <2>1. t \div 1 = t
        BY <1>1
    <2>2. t % 64 = u4
        BY <1>2, SMT DEF Sixth
    <2> QED BY <2>1, <2>2 DEF Sextet
<1>6. Sextet(t, 3) = u3
    <2>1. t \div 64 = x
        BY <1>2, SMT DEF Sixth
    <2>2. x % 64 = u3
        BY <1>3, SMT DEF Sixth
    <2> QED BY <2>1, <2>2 DEF Sextet
<1>7. Sextet(t, 2) = u2
    <2>1. t \div 4096 = y
        BY <1>2, <1>3, SMT DEF Sixth
    <2>2. y % 64 = u2
        BY <1>4, SMT DEF Sixth
    <2> QED BY <2>1, <2>2 DEF Sextet
<1>8. Sextet(t, 1) = u1
    <2>1. t \div 262144 = u1
        BY <1>2, <1>3, <1>4, SMT DEF Sixth
    <2>2. u1 % 64 = u1
        BY SMT DEF Sixth
    <2> QED BY <2>1, <2>2 DEF Sextet
<1>9. 262144 * u1 + 4096 * u2 + 64 * u3 + u4 = t
    BY <1>2, <1>3, <1>4, SMT DEF Sixth
<1>10. c = 0 => u4 = 0
    <2>1. PICK q \in Nat : q = 1024 * a + 4 * b /\ t = 64 * q + c
        BY SMT DEF Bytes
    <2>2. PICK z \in Int : z = q - x
        BY <1>2, <2>1
    <2>3. c = 0 => 64 * z = u4
        BY <1>2, <2>1, <2>2, SMT DEF Sixth
    <2> QED BY <1>2, <2>2, <2>3, SMT DEF Sixth
<1>11. b = 0 /\ c = 0 => u3 = 0
    BY <1>2, <1>3, SMT DEF Bytes, Sixth
<1>12. Octet(t, 1) = a
    <2>1. t \div 65536 = a /\ a % 256 = a
        BY SMT DEF Bytes
    <2> QED BY <2>1 DEF Octet
<1>13. Octet(t, 2) = b
    <2>1. t \div 256 = 256 * a + b /\ (256 * a + b) % 256 = b
        BY SMT DEF Bytes
    <2> QED BY <2>1 DEF Octet
<1>14. Octet(t, 3) = c
    <2>1. t \div 1 = t /\ t % 256 = c
        BY SMT DEF Bytes
    <2> QED BY <2>1 DEF Octet
<1> QED BY <1>4, <1>5, <1>6, <1>7, <1>8, <1>9, <1>10, <1>11, <1>12, <1>13, <1>14

\* The alphabet and its inverse.
LEMMA LetterIs ==
    ASSUME NEW v \in Sixth
    PROVE  b64_table(v) \in Letters /\ b64_table(v) # Padding /\ b64_decode_char(b64_table(v)) = v
<1> USE DEF Sixth, Padding
<1>1. CASE v < 26
    BY <1>1, SMT DEF b64_table, b64_decode_char, Letters
<1>2. CASE v >= 26 /\ v < 52
    BY <1>2, SMT DEF b64_table, b64_decode_char, Letters
<1>3. CASE v >= 52 /\ v < 62
    BY <1>3, SMT DEF b64_table, b64_decode_char, Letters
<1>4. CASE v = 62
    BY <1>4, SMT DEF b64_table, b64_decode_char, Letters
<1>5. CASE v = 63
    BY <1>5, SMT DEF b64_table, b64_decode_char, Letters
<1> QED BY <1>1, <1>2, <1>3, <1>4, <1>5

LEMMA ByteIs ==
    ASSUME NEW s \in Seq(Bytes), NEW i \in Nat \ {0}
    PROVE  Byte(s, i) \in Bytes /\ (i <= Len(s) => Byte(s, i) = s[i]) /\ (i > Len(s) => Byte(s, i) = 0)
<1>1. PICK n \in Nat : n = Len(s)
    BY LenProperties
<1>2. 0 \in Bytes
    BY DEF Bytes
<1>3. CASE i <= n
    <2>1. i \in 1 .. Len(s)
        BY <1>1, <1>3
    <2>2. s[i] \in Bytes
        BY <2>1, ElementOfSeq
    <2> QED BY <1>1, <1>3, <2>2 DEF Byte
<1>4. CASE ~(i <= n)
    BY <1>1, <1>2, <1>4 DEF Byte
<1> QED BY <1>3, <1>4

\* What is in the text: letters of sixths, and where the bytes end, padding.
SixthOf(s, g, j) == Sextet(Triple(s, 3 * g), j)
Encodes(e, s, k, p) ==
    /\ Len(e) = 4 * k /\ DOMAIN e = 1 .. 4 * k
    /\ \A g \in 0 .. k - 1 : \A j \in 1 .. 4 :
           e[4 * g + j] = IF 4 * g + j > 4 * k - p THEN Padding ELSE b64_table(SixthOf(s, g, j))

Add_up(s, g) ==
    262144 * SixthOf(s, g, 1) + 4096 * SixthOf(s, g, 2) + 64 * SixthOf(s, g, 3) + SixthOf(s, g, 4) = Triple(s, 3 * g)
Group(s, g) ==
    /\ \A j \in 1 .. 4 : SixthOf(s, g, j) \in Sixth
    /\ Add_up(s, g)
    /\ 3 * g + 3 > Len(s) => SixthOf(s, g, 4) = 0
    /\ 3 * g + 2 > Len(s) => SixthOf(s, g, 3) = 0
    /\ \A r \in 1 .. 3 : Octet(Triple(s, 3 * g), r) = Byte(s, 3 * g + r)

LEMMA DigitsOf ==
    ASSUME NEW s \in Seq(Bytes), NEW g \in Nat
    PROVE  Group(s, g)
<1>0. Len(s) \in Nat
    BY LenProperties
<1>1. PICK i \in Nat \ {0}, j \in Nat \ {0}, l \in Nat \ {0} : i = 3 * g + 1 /\ j = 3 * g + 2 /\ l = 3 * g + 3
    OBVIOUS
<1>2. PICK a \in Bytes, b \in Bytes, c \in Bytes : a = Byte(s, i) /\ b = Byte(s, j) /\ c = Byte(s, l)
    BY ByteIs
<1>3. PICK t : t = Triple(s, 3 * g)
    OBVIOUS
<1>4. t = 65536 * a + 256 * b + c
    BY <1>1, <1>2, <1>3 DEF Triple
<1>5. /\ Sextet(t, 1) \in Sixth /\ Sextet(t, 2) \in Sixth /\ Sextet(t, 3) \in Sixth /\ Sextet(t, 4) \in Sixth
      /\ 262144 * Sextet(t, 1) + 4096 * Sextet(t, 2) + 64 * Sextet(t, 3) + Sextet(t, 4) = t
      /\ c = 0 => Sextet(t, 4) = 0
      /\ b = 0 /\ c = 0 => Sextet(t, 3) = 0
      /\ Octet(t, 1) = a /\ Octet(t, 2) = b /\ Octet(t, 3) = c
    BY <1>4, SextetsAre
<1>6. (l > Len(s) => c = 0) /\ (j > Len(s) => b = 0 /\ c = 0)
    <2>1. j > Len(s) => l > Len(s)
        BY <1>0, <1>1
    <2> QED BY <1>2, <2>1, ByteIs
<1>7. \A r \in 1 .. 3 : Octet(t, r) = Byte(s, 3 * g + r)
    BY <1>1, <1>2, <1>5
<1>8. \A r \in 1 .. 4 : Sextet(t, r) \in Sixth
    BY <1>5
<1> QED BY <1>1, <1>3, <1>5, <1>6, <1>7, <1>8 DEF SixthOf, Add_up, Group

LEMMA Groups ==
    ASSUME NEW n \in Nat
    PROVE  \E k \in Nat, p \in {0, 1, 2} :
               /\ n + p = 3 * k /\ (n + 2) \div 3 = k /\ (3 - (n % 3)) % 3 = p
               /\ (k = 0 => p = 0)
<1>1. PICK c \in Nat \ {0} : c = 3
    OBVIOUS
<1>2. n % c \in 0 .. (c - 1) /\ \E q \in Nat : n = c * q + (n % c)
    BY <1>1, Divided
<1>3. PICK q \in Nat, r \in {0, 1, 2} : r = n % 3 /\ n = 3 * q + r
    BY <1>1, <1>2
<1>4. CASE r = 0
    BY <1>3, <1>4
<1>5. CASE r = 1
    <2>1. n + 2 = 3 * (q + 1) /\ (n + 2) \div 3 = q + 1 /\ (3 - (n % 3)) % 3 = 2
        BY <1>3, <1>5
    <2> QED BY <2>1
<1>6. CASE r = 2
    <2>1. n + 1 = 3 * (q + 1) /\ (n + 2) \div 3 = q + 1 /\ (3 - (n % 3)) % 3 = 1
        BY <1>3, <1>6
    <2> QED BY <2>1
<1> QED BY <1>3, <1>4, <1>5, <1>6

LEMMA EncodedIs ==
    ASSUME NEW s \in Seq(Bytes), NEW k \in Nat, NEW p \in {0, 1, 2},
           (Len(s) + 2) \div 3 = k, (3 - (Len(s) % 3)) % 3 = p
    PROVE  Encodes(base64_encode(s), s, k, p)
<1>1. PICK e : e = base64_encode(s)
    OBVIOUS
<1>2. e = [i \in 1 .. 4 * k |->
              IF i > 4 * k - p THEN Padding
              ELSE b64_table(Sextet(Triple(s, 3 * ((i - 1) \div 4)), ((i - 1) % 4) + 1))]
    BY <1>1 DEF base64_encode
<1>3. DOMAIN e = 1 .. 4 * k /\ Len(e) = 4 * k
    BY <1>2
<1>4. ASSUME NEW g \in 0 .. k - 1, NEW j \in 1 .. 4
      PROVE  e[4 * g + j] = IF 4 * g + j > 4 * k - p THEN Padding ELSE b64_table(SixthOf(s, g, j))
    <2>1. PICK i \in 1 .. 4 * k : i = 4 * g + j
        OBVIOUS
    <2>2. (i - 1) \div 4 = g /\ ((i - 1) % 4) + 1 = j
        BY <2>1
    <2>3. e[i] = IF i > 4 * k - p THEN Padding ELSE b64_table(Sextet(Triple(s, 3 * g), j))
        BY <1>2, <2>2
    <2> QED BY <2>1, <2>3 DEF SixthOf
<1> QED BY <1>1, <1>3, <1>4 DEF Encodes

LEMMA DecodedIs ==
    ASSUME NEW s \in Seq(Bytes), NEW k \in Nat, NEW p \in {0, 1, 2}, Len(s) + p = 3 * k, k = 0 => p = 0,
           NEW e, Encodes(e, s, k, p)
    PROVE  base64_decode(e) = [ok |-> TRUE, bytes |-> s] /\ \A i \in DOMAIN e : e[i] \in Letters
<1>1. PICK n \in Nat : n = Len(s) /\ n + p = 3 * k /\ DOMAIN s = 1 .. n
    BY LenProperties
<1>2. Len(e) = 4 * k /\ DOMAIN e = 1 .. 4 * k
    BY DEF Encodes
<1>3. ASSUME NEW g \in 0 .. k - 1, NEW j \in 1 .. 4
      PROVE  /\ e[4 * g + j] = IF 4 * g + j > 4 * k - p THEN Padding ELSE b64_table(SixthOf(s, g, j))
             /\ SixthOf(s, g, j) \in Sixth
             /\ Value_at(e, 4 * g + j) = SixthOf(s, g, j)
             /\ e[4 * g + j] \in Letters
             /\ (e[4 * g + j] = Padding <=> 4 * g + j > 4 * k - p)
    <2>1. e[4 * g + j] = IF 4 * g + j > 4 * k - p THEN Padding ELSE b64_table(SixthOf(s, g, j))
        BY DEF Encodes
    <2>0. Group(s, g)
        <3>1. g \in Nat
            OBVIOUS
        <3> QED BY <3>1, DigitsOf
    <2>2. PICK v \in Sixth : v = SixthOf(s, g, j)
        BY <2>0 DEF Group
    <2>3. b64_table(v) \in Letters /\ b64_table(v) # Padding /\ b64_decode_char(b64_table(v)) = v
        BY LetterIs
    <2>4. PICK i : i = 4 * g + j
        OBVIOUS
    <2>5. CASE i > 4 * k - p
        <3>1. v = 0
            <4>1. g = k - 1 /\ (j = 4 \/ j = 3)
                BY <2>4, <2>5
            <4>2. CASE j = 4
                <5>1. p # 0
                    BY <2>4, <2>5, <4>1, <4>2
                <5>2. 3 * g + 3 > Len(s)
                    BY <1>1, <4>1, <5>1
                <5> QED BY <2>0, <2>2, <4>2, <5>2 DEF Group
            <4>3. CASE j = 3
                <5>1. p = 2
                    BY <2>4, <2>5, <4>1, <4>3
                <5>2. 3 * g + 2 > Len(s)
                    BY <1>1, <4>1, <5>1
                <5> QED BY <2>0, <2>2, <4>3, <5>2 DEF Group
            <4> QED BY <4>1, <4>2, <4>3
        <3>2. Padding \in Letters
            BY DEF Letters
        <3>3. e[i] = Padding
            BY <2>1, <2>4, <2>5
        <3>4. Value_at(e, i) = 0
            BY <3>3 DEF Value_at
        <3> QED BY <2>1, <2>2, <2>4, <2>5, <3>1, <3>2, <3>3, <3>4
    <2>6. CASE ~(i > 4 * k - p)
        <3>1. e[i] = b64_table(v)
            BY <2>1, <2>2, <2>4, <2>6
        <3>2. Value_at(e, i) = v
            BY <2>3, <3>1 DEF Value_at
        <3> QED BY <2>1, <2>2, <2>3, <2>4, <2>6, <3>1, <3>2
    <2> QED BY <2>5, <2>6
<1>4. ASSUME NEW i \in DOMAIN e PROVE e[i] \in Letters /\ ~(Value_at(e, i) < 0)
    <2>1. i \in 1 .. 4 * k
        BY <1>2
    <2>2. PICK g \in 0 .. k - 1, j \in 1 .. 4 : i = 4 * g + j
        <3>1. PICK m \in Nat, f \in Nat \ {0} : m = i - 1 /\ f = 4
            BY <2>1
        <3>2. PICK q \in Nat, r \in Nat : m = f * q + r /\ r < f
            <4>1. m % f \in 0 .. (f - 1) /\ \E q \in Nat : m = f * q + (m % f)
                BY <3>1, Divided
            <4>2. PICK r \in Nat : r = m % f /\ r < f
                BY <3>1, <4>1
            <4>3. PICK q \in Nat : m = f * q + (m % f)
                BY <4>1
            <4>4. m = f * q + r
                BY <4>2, <4>3
            <4> QED BY <4>2, <4>4
        <3>3. q \in 0 .. k - 1 /\ r + 1 \in 1 .. 4 /\ i = 4 * q + (r + 1)
            BY <2>1, <3>1, <3>2
        <3> QED BY <3>3
    <2>3. e[i] \in Letters /\ Value_at(e, i) = SixthOf(s, g, j) /\ SixthOf(s, g, j) \in Sixth
        BY <1>3, <2>2
    <2>4. PICK v : v = Value_at(e, i)
        OBVIOUS
    <2>5. v \in Sixth
        BY <2>3, <2>4
    <2>6. ~(v < 0)
        BY <2>5 DEF Sixth
    <2> QED BY <2>3, <2>4, <2>6
<1>5. PICK last : last = IF Len(e) > 0 /\ e[Len(e)] = Padding THEN 1 ELSE 0
    OBVIOUS
<1>6. PICK but_one : but_one = IF Len(e) > 1 /\ e[Len(e) - 1] = Padding THEN 1 ELSE 0
    OBVIOUS
<1>7. last \in Nat /\ but_one \in Nat /\ last + but_one = p
    <2>1. CASE k = 0
        BY <1>2, <1>5, <1>6, <2>1
    <2>2. CASE k # 0
        <3>1. PICK g \in 0 .. k - 1 : g = k - 1
            BY <2>2
        <3>2. (e[4 * g + 4] = Padding <=> 4 * g + 4 > 4 * k - p) /\ (e[4 * g + 3] = Padding <=> 4 * g + 3 > 4 * k - p)
            <4>1. PICK x \in 1 .. 4, y \in 1 .. 4 : x = 4 /\ y = 3
                OBVIOUS
            <4>2. (e[4 * g + x] = Padding <=> 4 * g + x > 4 * k - p) /\ (e[4 * g + y] = Padding <=> 4 * g + y > 4 * k - p)
                BY <1>3
            <4> QED BY <4>1, <4>2
        <3>3. Len(e) = 4 * g + 4 /\ Len(e) - 1 = 4 * g + 3
            BY <1>2, <3>1
        <3>4. last = (IF p = 0 THEN 0 ELSE 1) /\ but_one = (IF p = 2 THEN 1 ELSE 0)
            <4>1. e[Len(e)] = Padding <=> p # 0
                BY <3>1, <3>2, <3>3
            <4>2. e[Len(e) - 1] = Padding <=> p = 2
                BY <3>1, <3>2, <3>3
            <4>3. Len(e) > 0 /\ Len(e) > 1
                BY <3>1, <3>3
            <4> QED BY <1>5, <1>6, <4>1, <4>2, <4>3
        <3> QED BY <3>4
    <2> QED BY <2>1, <2>2
<1>8. PICK b : b = [i \in 1 .. 3 * (Len(e) \div 4) - last - but_one |->
                       Octet(Quadruple(e, 4 * ((i - 1) \div 3)), ((i - 1) % 3) + 1)]
    OBVIOUS
<1>9. base64_decode(e) = [ok |-> TRUE, bytes |-> b]
    <2>1. ~(Len(e) % 4 # 0)
        BY <1>2
    <2>2. ~(\E i \in DOMAIN e : Value_at(e, i) < 0)
        BY <1>4
    <2> QED BY <1>5, <1>6, <1>8, <2>1, <2>2, Zenon DEF base64_decode
<1>10. 3 * (Len(e) \div 4) - last - but_one = n
    <2>1. Len(e) \div 4 = k
        BY <1>2
    <2> QED BY <1>1, <1>7, <2>1
<1>11. ASSUME NEW i \in 1 .. n
       PROVE  Octet(Quadruple(e, 4 * ((i - 1) \div 3)), ((i - 1) % 3) + 1) = s[i]
    <2>1. PICK g \in 0 .. k - 1, r \in 1 .. 3 : g = (i - 1) \div 3 /\ r = ((i - 1) % 3) + 1 /\ i = 3 * g + r
        <3>1. (i - 1) \div 3 \in 0 .. k - 1 /\ ((i - 1) % 3) + 1 \in 1 .. 3
              /\ i = 3 * ((i - 1) \div 3) + (((i - 1) % 3) + 1)
            BY <1>1
        <3> QED BY <3>1
    <2>2. /\ Value_at(e, 4 * g + 1) = SixthOf(s, g, 1) /\ Value_at(e, 4 * g + 2) = SixthOf(s, g, 2)
          /\ Value_at(e, 4 * g + 3) = SixthOf(s, g, 3) /\ Value_at(e, 4 * g + 4) = SixthOf(s, g, 4)
        BY <1>3
    <2>3. Group(s, g)
        <3>1. g \in Nat
            OBVIOUS
        <3> QED BY <3>1, DigitsOf
    <2>6. Octet(Triple(s, 3 * g), r) = Byte(s, 3 * g + r)
        BY <2>3 DEF Group
    <2>4. Quadruple(e, 4 * g) = Triple(s, 3 * g)
        BY <2>2, <2>3 DEF Quadruple, Group, Add_up
    <2>5. Byte(s, i) = s[i]
        BY <1>1, ByteIs
    <2> QED BY <2>1, <2>4, <2>5, <2>6
<1>12. b = [i \in 1 .. n |-> s[i]]
    BY <1>8, <1>10, <1>11
<1>13. s = [i \in 1 .. n |-> s[i]]
    BY <1>1, LenProperties
<1> QED BY <1>4, <1>9, <1>12, <1>13

\* Base 64 gives back what it was given (stdlib_session.c), for every sequence of
\* bytes, whatever is left of it after groups of three, and what it writes needs
\* no escape in a cookie.
THEOREM Base64ReadsBack ==
    ASSUME NEW s \in Seq(Bytes)
    PROVE  Base64Law(s)
<1>1. PICK n \in Nat : n = Len(s)
    BY LenProperties
<1>2. PICK k \in Nat, p \in {0, 1, 2} :
          n + p = 3 * k /\ (n + 2) \div 3 = k /\ (3 - (n % 3)) % 3 = p /\ (k = 0 => p = 0)
    BY Groups
<1>3. Encodes(base64_encode(s), s, k, p)
    BY <1>1, <1>2, EncodedIs
<1>4. /\ base64_decode(base64_encode(s)) = [ok |-> TRUE, bytes |-> s]
      /\ \A i \in DOMAIN base64_encode(s) : base64_encode(s)[i] \in Letters
    BY <1>1, <1>2, <1>3, DecodedIs
<1> QED BY <1>4 DEF Base64Law

=============================================================================
