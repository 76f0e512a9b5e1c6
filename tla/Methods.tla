------------------------------ MODULE Methods -------------------------------
(***************************************************************************)
(* The built-in methods of strings and lists (vm.c).  A string is the      *)
(* sequence of its bytes; a value is a pair of a type and a content.       *)
(* Floats are counted in halves; NaN is left out.  Methods that change a   *)
(* list return the list and the result.                                    *)
(***************************************************************************)
EXTENDS Integers, Sequences, SequencesExt, Text

CONSTANT Uint32  \* 2 ^ 32: the numbers of a uint32_t are those below it
ASSUME Uint32Assumption == Uint32 \in Nat \ {0}

NilValue == <<"nil", 0>>
IntValue(n) == <<"int", n>>
IsInt(v) == v[1] = "int"

(* Strings *)

NUL == 0
\* What C's functions see of s from position i on: strstr stops at a NUL.
CEnd(s, i) == Until(s, i, {NUL}) - 1
NoNul(s) == NUL \notin Range(s)
CString(s) == Cut(s, 1, CEnd(s, 1) + 1)
strstr(s, from, p) == Search(CString(p), s, from, CEnd(s, from))

string_contains_method(s, p) ==
    p = <<>> \/ (Len(p) <= Len(s) /\ strstr(s, 1, p) # 0)
string_index_of_method(s, p) == strstr(s, 1, p) - 1

\* Where a search that goes on behind what it has found can come to.
Positions(s, p) == 1 .. Len(s) + Len(p) + 1

SplitFrom(s, sep) ==
    LET split[start \in Positions(s, sep)] ==
            LET found == strstr(s, start, sep) IN
            IF start > Len(s) + 1 THEN <<>>
            ELSE IF found = 0 THEN <<From(s, start)>>
            ELSE <<Cut(s, start, found)>> \o split[found + Len(sep)]
    IN  split
string_split_method(s, sep) ==
    IF sep = <<>> THEN [i \in DOMAIN s |-> <<s[i]>>] ELSE SplitFrom(s, sep)[1]

\* The first loop counts, the second one copies, strcpy adds the rest.
Occurrences_overlapping(s, old) ==
    LET count[pos \in Positions(s, old)] ==
            LET found == strstr(s, pos, old) IN IF found = 0 THEN 0 ELSE 1 + count[found + 1]
    IN  count
Occurrences(s, old) ==
    LET count[pos \in Positions(s, old)] ==
            LET found == strstr(s, pos, old) IN
            IF found = 0 THEN 0 ELSE 1 + count[found + Len(old)]
    IN  count
Replaced(s, old, new) ==
    LET copied[src \in Positions(s, old)] ==
            LET found == strstr(s, src, old) IN
            IF found = 0 THEN Cut(s, src, CEnd(s, src) + 1)
            ELSE Cut(s, src, found) \o (new \o copied[found + Len(old)])
    IN  copied
NewLength(s, old, new) == Len(s) + Occurrences(s, old)[1] * (Len(new) - Len(old))
string_replace_method(s, old, new) ==
    IF old = <<>> \/ Occurrences(s, old)[1] = 0 THEN s ELSE Replaced(s, old, new)[1]

string_starts_with_method(s, p) == Len(p) <= Len(s) /\ Cut(s, 1, Len(p) + 1) = p
string_ends_with_method(s, p) == Len(p) <= Len(s) /\ From(s, Len(s) - Len(p) + 1) = p

\* Negative positions count from the end.
Backwards(n, i) == IF i < 0 THEN i + n ELSE i
Lowest(n, start) == LET s == Backwards(n, start) IN IF s < 0 THEN 0 ELSE s
Highest(n, end) == LET e == Backwards(n, end) IN IF e > n THEN n ELSE e
string_slice_method(s, start, end) ==
    IF Lowest(Len(s), start) >= Highest(Len(s), end) THEN <<>>
    ELSE SubSeq(s, Lowest(Len(s), start) + 1, Highest(Len(s), end))

\* n copies of s; the two limits of repeat.  What it would write behind the end
\* of its buffer is left out.
Times(s, n) == [i \in 1 .. n * Len(s) |-> s[((i - 1) % Len(s)) + 1]]
MaxCopies == 1024 * 1024
MaxRepeated == 16 * 1024 * 1024
string_repeat_method(s, n) ==
    Upto(Times(s, IF n > MaxCopies THEN MaxCopies ELSE n), MaxRepeated)
\* The target length is an int64_t, the length of the buffer a uint32_t that
\* keeps its low bits.  Where text and NUL do not fit the methods have no result:
\* they write behind the buffer.
PaddedLength(s, n) == IF n <= Len(s) THEN Len(s) ELSE n % Uint32
PadFits(s, n) == n <= Len(s) \/ n % Uint32 \in Len(s) .. Uint32 - 2
string_pad_left_method(s, n, c) == Times(<<c>>, PaddedLength(s, n) - Len(s)) \o s
string_pad_right_method(s, n, c) == s \o Times(<<c>>, PaddedLength(s, n) - Len(s))

Space == {9, 10, 11, 12, 13, 32}
Digit == 48 .. 57
trim(s) ==
    LET start == Skip(s, 1, Space)
        end == Skip(Reverse(From(s, start)), 1, Space)
    IN  Cut(s, start, Len(s) + 2 - end)
upper(s) == [i \in DOMAIN s |-> IF s[i] \in 97 .. 122 THEN s[i] - 32 ELSE s[i]]
lower(s) == [i \in DOMAIN s |-> IF s[i] \in 65 .. 90 THEN s[i] + 32 ELSE s[i]]
reverse(s) == Reverse(s)
Number(digits) ==
    LET n[i \in 0 .. Len(digits)] == IF i = 0 THEN 0 ELSE 10 * n[i - 1] + (digits[i] - 48)
    IN  n[Len(digits)]
to_i(s) ==
    LET sign == Skip(s, 1, Space)
        start == IF CodeAt(s, sign) \in {45, 43} THEN sign + 1 ELSE sign
        n == Number(Cut(s, start, Skip(s, start, Digit)))
    IN  IF CodeAt(s, sign) = 45 THEN -n ELSE n
chars(s) == [i \in DOMAIN s |-> <<s[i]>>]

Digits(n) ==
    LET d[m \in 0 .. n] ==
            IF m < 10 THEN <<48 + m>> ELSE Append(d[m \div 10], 48 + (m % 10))
    IN  d[n]
value_to_string(v) ==
    CASE v[1] = "string" -> v[2]
      [] v[1] = "int" -> IF v[2] < 0 THEN <<45>> \o Digits(-v[2]) ELSE Digits(v[2])
      [] v[1] = "nil" -> <<110, 105, 108>>
      [] v[1] = "bool" -> IF v[2] THEN <<116, 114, 117, 101>> ELSE <<102, 97, 108, 115, 101>>

(* Lists *)

list_join_method(list, sep) == Joined([i \in DOMAIN list |-> value_to_string(list[i])], sep)
list_push_method(list, args) == list \o args
list_unshift_method(list, args) == args \o list
pop(list) == IF list = <<>> THEN <<list, NilValue>> ELSE <<Front(list), Last(list)>>
list_shift_method(list) == IF list = <<>> THEN <<list, NilValue>> ELSE <<Tail(list), Head(list)>>
list_insert_method(list, index, v) ==
    LET i == Highest(Len(list), Lowest(Len(list), index)) IN InsertAt(list, i + 1, v)
list_remove_method(list, index) ==
    LET i == Backwards(Len(list), index) IN
    IF i < 0 \/ i >= Len(list) THEN <<list, NilValue>>
    ELSE <<RemoveAt(list, i + 1), list[i + 1]>>
list_slice_method(list, start, end) ==
    SubSeq(list, Lowest(Len(list), start) + 1, Highest(Len(list), end))
list_contains_method(list, v) == \E i \in DOMAIN list : list[i] = v
list_uniq_method(list) ==
    LET result[i \in 0 .. Len(list)] ==
            IF i = 0 THEN <<>>
            ELSE IF list_contains_method(result[i - 1], list[i]) THEN result[i - 1]
            ELSE Append(result[i - 1], list[i])
    IN  result[Len(list)]
list_flatten_method(list) ==
    FlattenSeq([i \in DOMAIN list |-> IF list[i][1] = "list" THEN list[i][2] ELSE <<list[i]>>])
list_zip_method(list, other) ==
    [i \in 1 .. (IF Len(list) < Len(other) THEN Len(list) ELSE Len(other)) |->
        <<"list", <<list[i], other[i]>>>>]

Sign(a, b) == IF a > b THEN 1 ELSE IF a < b THEN -1 ELSE 0
\* By the first byte that differs, or else by the length.
memcmp(a, b) ==
    LET differ == {i \in DOMAIN a \cap DOMAIN b : a[i] # b[i]} IN
    IF differ = {} THEN Sign(Len(a), Len(b)) ELSE Sign(a[Min(differ)], b[Min(differ)])
Numeric(v) == v[1] \in {"int", "float"}
Halves(v) == IF IsInt(v) THEN 2 * v[2] ELSE v[2]
TypeRank(v) == CASE v[1] = "bool" -> 0 [] v[1] = "int" -> 1 [] v[1] = "float" -> 2
                 [] v[1] = "string" -> 3 [] OTHER -> 4
value_compare(a, b) ==
    CASE Numeric(a) /\ Numeric(b) -> Sign(Halves(a), Halves(b))
      [] a[1] = "string" /\ b[1] = "string" -> memcmp(a[2], b[2])
      [] a[1] = "bool" /\ b[1] = "bool" -> IF a[2] = b[2] THEN 0 ELSE IF a[2] THEN 1 ELSE -1
      [] a[1] = "nil" /\ b[1] = "nil" -> 0
      [] a[1] = "nil" /\ b[1] # "nil" -> -1
      [] a[1] # "nil" /\ b[1] = "nil" -> 1
      [] OTHER -> TypeRank(a) - TypeRank(b)
\* qsort, by insertion; the order of equal values is left open by C.
Insert(sorted, v) ==
    LET later == {i \in DOMAIN sorted : value_compare(sorted[i], v) > 0} IN
    InsertAt(sorted, IF later = {} THEN Len(sorted) + 1 ELSE Min(later), v)
list_sort_method(list) ==
    LET sorted[i \in 0 .. Len(list)] ==
            IF i = 0 THEN <<>> ELSE Insert(sorted[i - 1], list[i])
    IN  sorted[Len(list)]

=============================================================================
