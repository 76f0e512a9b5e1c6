-------------------------------- MODULE Text --------------------------------
(***************************************************************************)
(* Texts as sequences of characters, and the functions of the C library    *)
(* that the rest of the program searches and cuts them with.  A character  *)
(* is a code where its order matters and a short string elsewhere.         *)
(***************************************************************************)
EXTENDS Integers, Sequences, FiniteSetsExt

\* p is in s at position i.
IsAt(p, s, i) == i + Len(p) - 1 <= Len(s) /\ SubSeq(s, i, i + Len(p) - 1) = p

FirstOf(S, none) == IF S = {} THEN none ELSE Min(S)

\* The first position in `from .. to' where p is in s, or 0: strstr, memchr.
Search(p, s, from, to) == FirstOf({i \in from .. to + 1 - Len(p) : IsAt(p, s, i)}, 0)
Find(p, s, from) == Search(p, s, from, Len(s))

\* The first position from i on whose character is (not) in C, or the end.
EndOf(s, i) == IF i > Len(s) THEN i ELSE Len(s) + 1
Skip(s, i, C) == FirstOf({j \in i .. Len(s) : s[j] \notin C}, EndOf(s, i))
Until(s, i, C) == FirstOf({j \in i .. Len(s) : s[j] \in C}, EndOf(s, i))

From(s, i) == SubSeq(s, i, Len(s))
Cut(s, i, j) == SubSeq(s, i, j - 1)
Upto(s, n) == SubSeq(s, 1, IF n < Len(s) THEN n ELSE Len(s))
CharAt(s, i) == IF i <= Len(s) THEN s[i] ELSE "end"
CodeAt(s, i) == IF i <= Len(s) THEN s[i] ELSE -1

\* The parts of s between the occurrences of sep, from position i on.
Parts(s, sep) ==
    LET parts[i \in 1 .. Len(s) + 1] ==
            LET at == Find(sep, s, i) IN
            IF at = 0 THEN <<From(s, i)>> ELSE <<Cut(s, i, at)>> \o parts[at + Len(sep)]
    IN  parts[1]
Joined(parts, sep) ==
    LET joined[i \in 1 .. Len(parts)] ==
            IF i = Len(parts) THEN parts[i] ELSE parts[i] \o (sep \o joined[i + 1])
    IN  IF parts = <<>> THEN <<>> ELSE joined[1]
=============================================================================
