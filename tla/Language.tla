------------------------------ MODULE Language ------------------------------
(***************************************************************************)
(* What a program means, without a compiler: programs are trees, a name    *)
(* leads to a cell of its own scope, and a closure keeps the cells it saw. *)
(* This is the abstract specification that compiler.c and run() of vm.c    *)
(* implement; Text writes the tree down as tokens, with no more            *)
(* parentheses than LANGUAGE_SPEC's operators need.                        *)
(*                                                                         *)
(* Expressions: <<"int", n>>, <<"string", t>>, <<"bool", b>>, <<"nil", 0>>, *)
(*   <<"var", x>>, <<"set", x, e>>, <<"un", op, e>>, <<"bin", op, l, r>>,  *)
(*   <<"call", f, args>>, <<"list", es>>, <<"map", keys, es>>,             *)
(*   <<"at", e, i>>, <<"put", e, i, v>>, <<"dot", e, f>>, <<"dotput", e, f, v>>. *)
(* Statements: <<"do", e>>, <<"if", conds, blocks>> (one block more than   *)
(*   conditions is an else), <<"while", e, block>>, <<"until", e, block>>, *)
(*   <<"loop", block>>, <<"for", x, e, block>>, <<"fn", f, params, block>>, *)
(*   <<"return", e>>, <<"break">>, <<"next">>.                             *)
(***************************************************************************)
EXTENDS Values

CONSTANTS
    MaxDepth,      \* calls that may be open at once, the script's included
    FreshBinding   \* has every turn of a for a variable of its own, as
                   \* LANGUAGE_SPEC says, or all turns one, as the compiler does it

(* A state s of the evaluation: where a name leads, the cells, the heap,   *)
(* the globals, the output, the calls open, what interrupts the flow       *)
(* ("none", "break", "next", "return", "error") and the last value.        *)

Start == [env |-> <<>>, cells |-> <<>>, heap |-> <<>>,
          globals |-> [x \in {"print"} |-> <<"print", 0>>],
          out |-> <<>>, depth |-> 1, sig |-> "none", val |-> VAL_NIL]

Value(s, v) == IF v = NoValue THEN [s EXCEPT !.sig = "error"] ELSE [s EXCEPT !.val = v]
Signal(s, sig) == [s EXCEPT !.sig = sig]
\* A new variable of the innermost scope.
Bind(s, x, v) == [s EXCEPT !.cells = Append(@, v),
                           !.env = (x :> (Len(s.cells) + 1)) @@ @]
Allocate(s, type, contents) ==
    [s EXCEPT !.heap = Append(@, contents), !.val = <<type, Len(s.heap) + 1>>]

Lookup(s, x) ==
    CASE x \in DOMAIN s.env -> s.cells[s.env[x]]
      [] x \in DOMAIN s.globals -> s.globals[x]
      [] OTHER -> NoValue

\* An assignment sets the variable in sight; if there is none it makes one,
\* of the program outside functions and of the block inside.
Assign(s, x) ==
    CASE x \in DOMAIN s.env -> [s EXCEPT !.cells[s.env[x]] = s.val]
      [] s.depth > 1 -> Bind(s, x, s.val)
      [] OTHER -> [s EXCEPT !.globals = (x :> s.val) @@ @]

Indexed(s, obj, i) ==
    CASE obj[1] = "list" /\ i[1] = "int" /\ InList(Len(s.heap[obj[2]]), i) ->
            s.heap[obj[2]][Position(Len(s.heap[obj[2]]), i)]
      [] obj[1] = "map" /\ i[1] = "string" -> FieldOf(s.heap[obj[2]], i[2])
      [] OTHER -> NoValue
Put(s, obj, i, v) ==
    CASE obj[1] = "list" /\ InList(Len(s.heap[obj[2]]), i) ->
            Value([s EXCEPT !.heap[obj[2]][Position(Len(s.heap[obj[2]]), i)] = v], v)
      [] obj[1] = "map" /\ i[1] = "string" ->
            Value([s EXCEPT !.heap[obj[2]] = WithField(@, i[2], v)], v)
      [] OTHER -> Signal(s, "error")

RECURSIVE Eval(_, _)
RECURSIVE EvalAll(_, _)
RECURSIVE Call(_, _, _)
RECURSIVE Exec(_, _)
RECURSIVE Loop(_, _, _)
RECURSIVE Chosen(_, _, _)

\* The state after all of es, and their values.
EvalAll(es, s) ==
    FoldLeft(LAMBDA acc, e : LET t == Eval(e, acc[1]) IN <<t, Append(acc[2], t.val)>>,
             <<s, <<>>>>, es)

\* The operands, which are evaluated from left to right, and what is done then.
Operands(e) ==
    CASE e[1] \in {"int", "string", "bool", "nil", "var"} -> <<>>
      [] e[1] = "set" -> <<e[3]>>
      [] e[1] = "un" -> <<e[3]>>
      [] e[1] = "bin" -> <<e[3], e[4]>>
      [] e[1] = "call" -> <<e[2]>> \o e[3]
      [] e[1] = "list" -> e[2]
      [] e[1] = "map" -> e[3]
      [] e[1] \in {"at", "put"} -> Tail(e)
      [] e[1] = "dot" -> <<e[2]>>
      [] e[1] = "dotput" -> <<e[2], e[4]>>
Apply(e, v, s) ==
    CASE e[1] \in {"int", "string", "bool", "nil"} -> Value(s, e)
      [] e[1] = "var" -> Value(s, Lookup(s, e[2]))
      [] e[1] = "set" -> Assign(s, e[2])
      [] e[1] = "un" -> Value(s, Negated(e[2], v[1]))
      [] e[1] = "bin" -> Value(s, Binary(e[2], v[1], v[2]))
      [] e[1] = "call" -> Call(Head(v), Tail(v), s)
      [] e[1] = "list" -> Allocate(s, "list", v)
      [] e[1] = "map" ->
            Allocate(s, "map", FoldLeft(LAMBDA m, i : WithField(m, e[2][i], v[i]),
                                        <<>>, [i \in DOMAIN v |-> i]))
      [] e[1] = "at" -> Value(s, Indexed(s, v[1], v[2]))
      [] e[1] = "put" -> Put(s, v[1], v[2], v[3])
      [] e[1] = "dot" -> Value(s, Indexed(s, v[1], <<"string", e[3]>>))
      [] e[1] = "dotput" -> Put(s, v[1], <<"string", e[3]>>, v[2])
Applied(e, r) == IF r[1].sig = "none" THEN Apply(e, r[2], r[1]) ELSE r[1]

\* and and or look at the right side only if the left does not decide.
Logical(e, left) ==
    IF left.sig # "none" \/ Falsy(left.val) = (e[2] \in {"and", "&&"}) THEN left
    ELSE Eval(e[4], left)

Eval(e, s) ==
    CASE s.sig # "none" -> s
      [] e[1] = "bin" /\ e[2] \in {"and", "&&", "or", "||"} -> Logical(e, Eval(e[3], s))
      [] OTHER -> Applied(e, EvalAll(Operands(e), s))

\* A function is its tree and the scope it was declared in.
Entered(f, args, s) ==
    FoldLeft(LAMBDA t, i : Bind(t, f[2][3][i], args[i]),
             [s EXCEPT !.env = f[3], !.depth = @ + 1], [i \in DOMAIN args |-> i])
\* A function that ends without a return has returned nil: that is what
\* end_compiler emits "for now" (compiler.c:1217); LANGUAGE_SPEC promises the
\* value of the last expression.
Returned(s, run) ==
    [run EXCEPT !.env = s.env, !.depth = s.depth,
                !.sig = IF @ = "error" THEN @ ELSE "none",
                !.val = IF run.sig = "return" THEN @ ELSE VAL_NIL]
Call(f, args, s) ==
    CASE f[1] = "print" ->
            [s EXCEPT !.out = Append(@, [i \in DOMAIN args |-> Shown(args[i], s.heap)]),
                      !.val = VAL_NIL]
      [] f[1] = "fn" /\ Len(args) = Len(f[2][3]) /\ s.depth < MaxDepth ->
            Returned(s, Exec(f[2][4], Entered(f, args, s)))
      [] OTHER -> Signal(s, "error")

\* A function sees itself.
Declare(s, tree) ==
    IF s.depth = 1 THEN [s EXCEPT !.globals = (tree[2] :> <<"fn", tree, s.env>>) @@ @]
    ELSE LET t == Bind(s, tree[2], VAL_NIL)
         IN  [t EXCEPT !.cells[Len(t.cells)] = <<"fn", tree, t.env>>]

\* A block of statements; what it declares is gone at its end.
InBlock(body, s) == [Exec(body, s) EXCEPT !.env = s.env]

Iterate(s) == IF s.sig = "next" THEN Signal(s, "none") ELSE s
AfterLoop(s) == IF s.sig = "break" THEN Signal(s, "none") ELSE s

\* A loop as long as nothing interrupts it: at = 0 for a while or until, the
\* turn for a for, whose list is read when its turn comes.
WhileTurn(st, c) ==
    IF c.sig # "none" \/ Falsy(c.val) # (st[1] = "until") THEN c
    ELSE Loop(st, 0, Iterate(InBlock(Last(st), c)))
NextVariable(s, x, v) ==
    IF FreshBinding THEN Bind(s, x, v) ELSE [s EXCEPT !.cells[s.env[x]] = v]
ForTurn(st, list, i, s) ==
    IF i > Len(s.heap[list]) THEN s
    ELSE Loop(st, <<list, i + 1>>,
              [Iterate(InBlock(st[4], NextVariable(s, st[2], s.heap[list][i]))) EXCEPT !.env = s.env])
Loop(st, turn, s) ==
    CASE s.sig # "none" -> s
      [] st[1] = "for" -> ForTurn(st, turn[1], turn[2], s)
      [] st[1] = "loop" -> WhileTurn(st, Value(s, Bool(TRUE)))
      [] OTHER -> WhileTurn(st, Eval(st[2], s))
Collection(st, s) ==
    IF s.sig # "none" \/ s.val[1] # "list" THEN s
    ELSE [Loop(st, <<s.val[2], 1>>, Bind(s, st[2], VAL_NIL)) EXCEPT !.env = s.env]

AfterReturn(s) == IF s.sig = "none" THEN Signal(s, "return") ELSE s

\* The first block whose condition holds, or the one that has none.
Choose(st, i, s) ==
    CASE i > Len(st[3]) -> s
      [] i > Len(st[2]) -> InBlock(st[3][i], s)
      [] OTHER -> Chosen(st, i, Eval(st[2][i], s))
Chosen(st, i, c) ==
    CASE c.sig # "none" -> c
      [] Falsy(c.val) -> Choose(st, i + 1, c)
      [] OTHER -> InBlock(st[3][i], c)

Step(st, s) ==
    CASE st[1] = "do" -> Eval(st[2], s)
      [] st[1] = "if" -> Choose(st, 1, s)
      [] st[1] \in {"while", "until", "loop"} -> AfterLoop(Loop(st, 0, s))
      [] st[1] = "for" -> AfterLoop(Collection(st, Eval(st[3], s)))
      [] st[1] = "fn" -> Declare(s, st)
      [] st[1] = "return" -> AfterReturn(Eval(st[2], s))
      [] st[1] \in {"break", "next"} -> Signal(s, st[1])

Exec(body, s) == FoldLeft(LAMBDA t, st : IF t.sig = "none" THEN Step(st, t) ELSE t, s, body)

Meaning(tree) ==
    LET s == Exec(tree, Start)
    IN  [out |-> s.out, status |-> IF s.sig = "error" THEN "runtime error" ELSE "ok"]

-----------------------------------------------------------------------------
(* The text of a tree.                                                     *)

\* LANGUAGE_SPEC's operators, the loosest first.
Binding == <<{"or", "||"}, {"and", "&&"}, {"|"}, {"^"}, {"&"}, {"==", "!="},
             {"<", ">", "<=", ">="}, {"<<", ">>"}, {"+", "-"}, {"*", "%"}, {"**"}>>
Tightness(e) ==
    CASE e[1] \in {"set", "put", "dotput"} -> 0
      [] e[1] = "bin" -> CHOOSE i \in DOMAIN Binding : e[2] \in Binding[i]
      [] e[1] = "un" -> Len(Binding) + 1
      [] OTHER -> Len(Binding) + 2

Sym(k) == <<k, k>>
Id(x) == <<"ID", x>>
\* Sequences of tokens with a separator between.
Commas(texts) == IF texts = <<>> THEN <<>>
                 ELSE FoldLeft(LAMBDA t, u : t \o <<Sym(",")>> \o u, Head(texts), Tail(texts))

RECURSIVE Expr(_, _)
Expr(e, least) ==
    LET t == Tightness(e)
        Right(op) == IF op \in Binding[1] \cup Binding[2] THEN t ELSE t + 1
        Left(op) == IF op \in Binding[1] \cup Binding[2] THEN t + 1 ELSE t
        All(es) == Commas([i \in DOMAIN es |-> Expr(es[i], 0)])
        text ==
          CASE e[1] = "int" -> <<<<"INT", e[2]>>>>
            [] e[1] = "string" -> <<<<"STRING", e[2]>>>>
            [] e[1] = "bool" -> <<Sym(IF e[2] THEN "true" ELSE "false")>>
            [] e[1] = "nil" -> <<Sym("nil")>>
            [] e[1] = "var" -> <<Id(e[2])>>
            [] e[1] = "set" -> <<Id(e[2]), Sym("=")>> \o Expr(e[3], 0)
            [] e[1] = "un" -> <<Sym(e[2])>> \o Expr(e[3], t)
            [] e[1] = "bin" -> Expr(e[3], Left(e[2])) \o <<Sym(e[2])>> \o Expr(e[4], Right(e[2]))
            [] e[1] = "call" -> Expr(e[2], 13) \o <<Sym("(")>> \o All(e[3]) \o <<Sym(")")>>
            [] e[1] = "list" -> <<Sym("[")>> \o All(e[2]) \o <<Sym("]")>>
            [] e[1] = "map" ->
                 <<Sym("{")>> \o
                 Commas([i \in DOMAIN e[2] |-> <<Id(e[2][i]), Sym(":")>> \o Expr(e[3][i], 0)])
                 \o <<Sym("}")>>
            [] e[1] = "at" -> Expr(e[2], 13) \o <<Sym("[")>> \o Expr(e[3], 0) \o <<Sym("]")>>
            [] e[1] = "put" -> Expr(e[2], 13) \o <<Sym("[")>> \o Expr(e[3], 0)
                               \o <<Sym("]"), Sym("=")>> \o Expr(e[4], 0)
            [] e[1] = "dot" -> Expr(e[2], 13) \o <<Sym("."), Id(e[3])>>
            [] e[1] = "dotput" -> Expr(e[2], 13) \o <<Sym("."), Id(e[3]), Sym("=")>> \o Expr(e[4], 0)
    IN  IF t < least THEN <<Sym("(")>> \o text \o <<Sym(")")>> ELSE text

RECURSIVE Lines(_)
Lines(body) ==
    LET NL == <<<<"NL", "">>>>
        End == NL \o <<Sym("end")>>
        Body(b) == NL \o Lines(b)
        Text(st) ==
          CASE st[1] = "do" -> Expr(st[2], 0)
            [] st[1] = "if" ->
                 FoldLeft(LAMBDA t, i :
                            t \o (IF i > Len(st[2]) THEN NL \o <<Sym("else")>>
                                  ELSE (IF i = 1 THEN <<Sym("if")>> ELSE NL \o <<Sym("elsif")>>)
                                       \o Expr(st[2][i], 0))
                              \o Body(st[3][i]),
                          <<>>, [i \in DOMAIN st[3] |-> i]) \o End
            [] st[1] \in {"while", "until"} -> <<Sym(st[1])>> \o Expr(st[2], 0) \o Body(st[3]) \o End
            [] st[1] = "loop" -> <<Sym("loop")>> \o Body(st[2]) \o End
            [] st[1] = "for" -> <<Sym("for"), Id(st[2]), Sym("in")>> \o Expr(st[3], 0)
                                \o Body(st[4]) \o End
            [] st[1] = "fn" -> <<Sym("fn"), Id(st[2]), Sym("(")>>
                               \o Commas([i \in DOMAIN st[3] |-> <<Id(st[3][i])>>])
                               \o <<Sym(")")>> \o Body(st[4]) \o End
            [] st[1] = "return" -> <<Sym("return")>> \o Expr(st[2], 0)
            [] OTHER -> <<Sym(st[1])>>
    IN  FoldLeft(LAMBDA t, st : t \o Text(st) \o NL, <<>>, body)

Text(tree) == Append(Lines(tree), <<"EOF", "">>)
=============================================================================
