----------------------------- MODULE NumberFacts -----------------------------
(***************************************************************************)
(* Facts about natural numbers that proofs about several modules need: the *)
(* least number of a set, which is induction without an operator as its    *)
(* parameter, and remainders, by which a probe goes round a table.         *)
(***************************************************************************)
EXTENDS Integers, WellFoundedInduction, TLAPS

\* A set of natural numbers has a least one.
LEMMA LeastNumber ==
    ASSUME NEW S \in SUBSET Nat, S # {}
    PROVE  \E n \in S : \A m \in S : n <= m
<1>1. PICK n \in S : \A m \in S : <<m, n>> \notin OpToRel(<, Nat)
    BY NatLessThanWellFounded, WFMin
<1>2. ASSUME NEW m \in S, m < n PROVE FALSE
    <2>1. <<m, n>> \in OpToRel(<, Nat)
        BY <1>2 DEF OpToRel
    <2> QED BY <1>1, <2>1
<1> QED BY <1>2

\* A set that has each number that comes after the ones before it has them all.
LEMMA Induction ==
    ASSUME NEW S, NEW n \in Nat, 0 \in S,
           \A i \in 0 .. n : i # 0 /\ i - 1 \in S => i \in S
    PROVE  \A i \in 0 .. n : i \in S
<1> DEFINE Others == {i \in Nat : i \in 0 .. n /\ i \notin S}
<1>1. Others \in SUBSET Nat
    OBVIOUS
<1>2. ASSUME Others # {} PROVE FALSE
    <2>1. PICK m \in Others : \A i \in Others : m <= i
        <3> HIDE DEF Others
        <3> QED BY <1>1, <1>2, LeastNumber
    <2>2. m \in Nat /\ m \in 0 .. n /\ m \notin S /\ m # 0
        BY <2>1
    <2>3. m - 1 \in Nat /\ m - 1 \in 0 .. n /\ ~(m <= m - 1)
        BY <2>2
    <2>4. m - 1 \in S
        BY <2>1, <2>3
    <2> QED BY <2>2, <2>4
<1> QED BY <1>2

-----------------------------------------------------------------------------
(* Remainders.                                                             *)

LEMMA Divided ==
    ASSUME NEW a \in Nat, NEW c \in Nat \ {0}
    PROVE  /\ a % c \in 0 .. (c - 1)
           /\ \E q \in Nat : a = c * q + (a % c)
<1>1. a % c \in 0 .. (c - 1)
    OBVIOUS
<1>2. a = c * (a \div c) + (a % c) /\ a \div c \in Nat
    OBVIOUS
<1>3. PICK q \in Nat : q = a \div c
    BY <1>2
<1>4. a = c * q + (a % c)
    BY <1>2, <1>3
<1> QED BY <1>1, <1>4

\* A number has one quotient and one remainder.
LEMMA OneRemainder ==
    ASSUME NEW c \in Nat \ {0}, NEW p \in Nat, NEW q \in Nat,
           NEW r \in 0 .. (c - 1), NEW s \in 0 .. (c - 1), c * p + r = c * q + s
    PROVE  p = q /\ r = s
<1>1. s - r = c * (p - q)
    OBVIOUS
<1>2. ASSUME p - q >= 1 PROVE FALSE
    <2>1. c * (p - q) >= c
        BY <1>2
    <2> QED BY <1>1, <2>1
<1>3. ASSUME p - q <= -1 PROVE FALSE
    <2>1. c * (p - q) <= -c
        BY <1>3
    <2> QED BY <1>1, <2>1
<1>4. p = q
    BY <1>2, <1>3
<1>5. c * (p - q) = 0
    BY <1>4
<1> QED BY <1>1, <1>4, <1>5

LEMMA RemainderIs ==
    ASSUME NEW c \in Nat \ {0}, NEW q \in Nat, NEW r \in 0 .. (c - 1)
    PROVE  (c * q + r) % c = r
<1>1. PICK a \in Nat : a = c * q + r
    <2>1. c * q \in Nat /\ r \in Nat
        OBVIOUS
    <2> QED BY <2>1
<1>2. PICK p \in Nat : a = c * p + (a % c)
    BY Divided
<1>3. PICK s \in 0 .. (c - 1) : s = a % c
    BY Divided
<1>4. c * p + s = c * q + r
    BY <1>1, <1>2, <1>3
<1>5. r = s
    BY <1>4, OneRemainder
<1> QED BY <1>1, <1>3, <1>5

\* In a table of c slots, the slots at the first c distances from any home are
\* different, and they are all there are.
LEMMA ProbesDiffer ==
    ASSUME NEW h \in Nat, NEW c \in Nat \ {0},
           NEW d \in 0 .. (c - 1), NEW e \in 0 .. (c - 1), (h + d) % c = (h + e) % c
    PROVE  d = e
<1>1. h + d \in Nat /\ h + e \in Nat
    OBVIOUS
<1>2. PICK p \in Nat : h + d = c * p + ((h + d) % c)
    BY <1>1, Divided
<1>3. PICK q \in Nat : h + e = c * q + ((h + e) % c)
    BY <1>1, Divided
<1>4. d - e = c * (p - q)
    <2>1. PICK r \in Int : r = (h + d) % c
        BY <1>1, Divided
    <2>2. h + d = c * p + r /\ h + e = c * q + r
        BY <1>2, <1>3, <2>1
    <2> QED BY <2>2
<1>5. ASSUME p - q >= 1 PROVE FALSE
    <2>1. c * (p - q) >= c
        BY <1>5
    <2> QED BY <1>4, <2>1
<1>6. ASSUME p - q <= -1 PROVE FALSE
    <2>1. c * (p - q) <= -c
        BY <1>6
    <2> QED BY <1>4, <2>1
<1>7. p = q
    BY <1>5, <1>6
<1>8. c * (p - q) = 0
    BY <1>7
<1> QED BY <1>4, <1>8

LEMMA ProbesReach ==
    ASSUME NEW h \in Nat, NEW c \in Nat \ {0}, NEW i \in 0 .. (c - 1)
    PROVE  \E d \in 0 .. (c - 1) : (h + d) % c = i
<1>1. PICK q \in Nat : h = c * q + (h % c)
    BY Divided
<1>2. PICK r \in 0 .. (c - 1) : r = h % c
    BY Divided
<1>3. CASE r <= i
    <2>1. PICK d : d = i - r
        OBVIOUS
    <2>2. d \in 0 .. (c - 1) /\ h + d = c * q + i
        BY <1>1, <1>2, <1>3, <2>1
    <2>3. (h + d) % c = i
        BY <2>2, RemainderIs
    <2> QED BY <2>2, <2>3
<1>4. CASE ~(r <= i)
    <2>1. PICK d : d = c + i - r
        OBVIOUS
    <2>2. d \in 0 .. (c - 1) /\ h + d = c * (q + 1) + i
        BY <1>1, <1>2, <1>4, <2>1
    <2>3. (c * (q + 1) + i) % c = i
        BY RemainderIs
    <2> QED BY <2>2, <2>3
<1> QED BY <1>3, <1>4
=============================================================================
