------------------------------- MODULE Values -------------------------------
(***************************************************************************)
(* The values of the language and the operations on them, which vm.c       *)
(* performs: pairs of a type and a content.  Lists and maps are indices of *)
(* a heap.  Floats and the integers' 48 bits are left out.                 *)
(***************************************************************************)
EXTENDS Integers, Sequences, SequencesExt, Bitwise

Width == 12

VAL_NIL == <<"nil", 0>>
Bool(b) == <<"bool", b>>
Falsy(v) == v \in {VAL_NIL, Bool(FALSE)}

\* What C's % returns, which has the sign of a.
CMod(a, b) == LET abs(n) == IF n < 0 THEN -n ELSE n
                  m == abs(a) % abs(b)
              IN  IF a < 0 THEN -m ELSE m

NoValue == <<"none", 0>>
BothInts(a, b) == a[1] = "int" /\ b[1] = "int"
BothStrings(a, b) == a[1] = "string" /\ b[1] = "string"
\* Two's complement of Width bits, wide enough for the integers of the runs.
Bits(n) == n % 2^Width
Signed(n) == IF n >= 2^(Width - 1) THEN n - 2^Width ELSE n

\* Division, and powers with a negative exponent, make floats: left out.
Arithmetic(op, a, b) ==
    CASE op = "+" /\ BothStrings(a, b) -> <<"string", a[2] \o b[2]>>
      [] ~BothInts(a, b) -> NoValue
      [] op = "+" -> <<"int", a[2] + b[2]>>
      [] op = "-" -> <<"int", a[2] - b[2]>>
      [] op = "*" -> <<"int", a[2] * b[2]>>
      [] op = "%" -> IF b[2] = 0 THEN NoValue ELSE <<"int", CMod(a[2], b[2])>>
      [] op = "**" /\ b[2] >= 0 -> <<"int", a[2] ^ b[2]>>
OnBits(op, a, b) ==
    CASE ~BothInts(a, b) -> NoValue
      [] op = "&" -> <<"int", Signed(Bits(a[2]) & Bits(b[2]))>>
      [] op = "|" -> <<"int", Signed(Bits(a[2]) | Bits(b[2]))>>
      [] op = "^" -> <<"int", Signed(Bits(a[2]) ^^ Bits(b[2]))>>
      [] b[2] \notin 0 .. 63 -> NoValue
      [] op = "<<" -> <<"int", a[2] * 2^b[2]>>
      [] op = ">>" -> <<"int", a[2] \div 2^b[2]>>
\* The order of strings is not used.
Comparison(op, a, b) ==
    CASE op = "==" -> Bool(a = b)
      [] op = "!=" -> Bool(a # b)
      [] ~BothInts(a, b) /\ ~BothStrings(a, b) -> NoValue
      [] op = "<" -> Bool(a[2] < b[2])
      [] op = "<=" -> Bool(a[2] <= b[2])
      [] op = ">" -> Bool(a[2] > b[2])
      [] op = ">=" -> Bool(a[2] >= b[2])
Binary(op, a, b) ==
    CASE op \in {"&", "|", "^", "<<", ">>"} -> OnBits(op, a, b)
      [] op \in {"==", "!=", "<", "<=", ">", ">="} -> Comparison(op, a, b)
      [] OTHER -> Arithmetic(op, a, b)
Negated(op, v) ==
    CASE op \in {"!", "not"} -> Bool(Falsy(v))
      [] op = "-" /\ v[1] = "int" -> <<"int", -v[2]>>
      [] op = "~" /\ v[1] = "int" -> <<"int", -v[2] - 1>>
      [] OTHER -> NoValue

\* Where an index leads in a list of n values: negative ones count from the end.
Position(n, i) == IF i[1] # "int" THEN 0
                  ELSE IF i[2] < 0 THEN i[2] + n + 1 ELSE i[2] + 1
InList(n, i) == Position(n, i) \in 1 .. n

FieldOf(fields, name) ==
    LET at == {i \in DOMAIN fields : fields[i][1] = name} IN
    IF at = {} THEN VAL_NIL ELSE fields[Max(at)][2]
WithField(fields, name, v) ==
    LET at == {i \in DOMAIN fields : fields[i][1] = name} IN
    IF at = {} THEN Append(fields, <<name, v>>) ELSE [fields EXCEPT ![Max(at)][2] = v]

\* What print shows of a value.
RECURSIVE Shown(_, _)
Shown(v, heap) ==
    CASE v[1] = "list" -> <<"list", [i \in DOMAIN heap[v[2]] |-> Shown(heap[v[2]][i], heap)]>>
      [] v[1] = "map" -> <<"map", {<<f[1], Shown(f[2], heap)>> : f \in Range(heap[v[2]])}>>
      [] v[1] = "fn" -> <<"fn", "">>
      [] OTHER -> v

=============================================================================
