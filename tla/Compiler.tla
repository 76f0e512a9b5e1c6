------------------------------ MODULE Compiler ------------------------------
(***************************************************************************)
(* compiler.c: the single pass from tokens to bytecode.  A compilation is  *)
(* a record c: the tokens and parser.current's position, one Compiler      *)
(* record per function being compiled (the last is `current'), the loops   *)
(* being compiled, created_local, and the functions already compiled.      *)
(*                                                                         *)
(* Tokens are pairs of a kind and a text; instructions are pairs of an     *)
(* opcode and an operand, so that jumps count instructions instead of      *)
(* bytes, and the limits that come from operand sizes are left out, except *)
(* MaxLocals.  After the first error the rest of the text is skipped: the  *)
(* result is NULL whatever it is, and recovery only adds messages.         *)
(*                                                                         *)
(* `notes' is history for the properties: <<ip, slot>> says that a local   *)
(* has been given that slot, and its value is to be on top of the stack    *)
(* when execution comes to ip.                                             *)
(***************************************************************************)
EXTENDS Integers, Sequences, SequencesExt

CONSTANT MaxLocals  \* MAX_LOCALS and MAX_UPVALUES, 256 in the code

Assignment == 1
Unary == 14
\* The levels of enum Precedence, with one operator or call to a level.
Levels == <<{"="}, {"||", "or"}, {"&&", "and"}, {"|"}, {"^"}, {"&"}, {"==", "!="},
            {"<", ">", "<=", ">="}, {"<<", ">>"}, {"..", "..."}, {"+", "-"},
            {"*", "/", "%"}, {"**"}, {}, {"(", "[", "."}>>

Keywords == {"fn", "if", "while", "until", "for", "loop", "return", "break", "next"}

\* Only kinds that have an infix rule have a precedence; =, .. and ... do not.
InfixKinds == UNION {Levels[i] : i \in 2 .. 15} \ Levels[10]
Prec(k) == IF k \in InfixKinds THEN CHOOSE i \in 1 .. 15 : k \in Levels[i] ELSE 0
-----------------------------------------------------------------------------
Cur(c) == c.toks[c.pos]
Prev(c) == c.toks[c.pos - 1]
Check(c, k) == Cur(c)[1] = k
Advance(c) == IF c.pos = Len(c.toks) THEN c ELSE [c EXCEPT !.pos = @ + 1]
Match(c, k) == IF Check(c, k) THEN Advance(c) ELSE c
error(c) == [c EXCEPT !.error = TRUE, !.pos = Len(c.toks)]
Consume(c, k) == IF Check(c, k) THEN Advance(c) ELSE error(c)
SkipNewlines(c) ==
    [c EXCEPT !.pos = CHOOSE i \in c.pos .. Len(c.toks) :
                        /\ c.toks[i][1] # "NL"
                        /\ \A j \in c.pos .. i - 1 : c.toks[j][1] = "NL"]

F(c) == Last(c.fns)
Emit(c, op, operand) ==
    [c EXCEPT !.fns[Len(c.fns)].code = Append(@, <<op, operand>>)]
Here(c) == Len(F(c).code)
patch_jump(c, at) == [c EXCEPT !.fns[Len(c.fns)].code[at][2] = Here(c) - at]
emit_loop(c, start) == Emit(c, "LOOP", Here(c) + 1 - start)
PatchAll(c, at) == FoldLeft(patch_jump, c, at)
emit_return(c) == Emit(Emit(c, "NIL", 0), "RETURN", 0)

GetOp == [LOCAL |-> "GET_LOCAL", UPVALUE |-> "GET_UPVALUE", GLOBAL |-> "GET_GLOBAL"]
SetOp == [LOCAL |-> "SET_LOCAL", UPVALUE |-> "SET_UPVALUE", GLOBAL |-> "SET_GLOBAL"]

Note(c, slot) ==
    [c EXCEPT !.fns[Len(c.fns)].notes = @ \cup {<<Here(c), slot>>}]

\* The last local has its value where it is to be.
NoteLast(c) == Note(c, Len(F(c).locals) - 1)

init_compiler(name, script) ==
    [name |-> name, script |-> script, arity |-> 0, depth |-> 0, code |-> <<>>,
     locals |-> <<[name |-> "", depth |-> 0, captured |-> FALSE]>>,
     upvalues |-> <<>>, notes |-> {}]

\* The finished function becomes a constant of the enclosing one.
end_compiler(c) ==
    LET d == emit_return(c)
    IN  [d EXCEPT !.fns = Front(@), !.done = Append(@, F(d))]

-----------------------------------------------------------------------------
(* Scopes and variables.                                                   *)

begin_scope(c) == [c EXCEPT !.fns[Len(c.fns)].depth = @ + 1]

end_scope(c) ==
    LET f == F(c)
        Ends(l) == l.depth > f.depth - 1
        gone == SelectSeq(f.locals, Ends)
        Drop(d, l) == Emit(d, IF l.captured THEN "CLOSE_UPVALUE" ELSE "POP", 0)
    IN  FoldLeft(Drop,
                 [c EXCEPT !.fns[Len(c.fns)].depth = @ - 1,
                           !.fns[Len(c.fns)].locals =
                               SubSeq(@, 1, Len(@) - Len(gone))],
                 Reverse(gone))

\* 0 if there is no such local; slots are counted from 0, locals from 1.
resolve_local(f, x) ==
    LET at == {i \in 1 .. Len(f.locals) : f.locals[i].name = x}
    IN  IF at = {} THEN 0 ELSE Max(at)

\* add_local, followed by mark_initialized wherever it is called.
add_local(c, x) ==
    IF Len(F(c).locals) >= MaxLocals
    THEN error(c)
    ELSE [c EXCEPT !.fns[Len(c.fns)].locals =
            Append(@, [name |-> x, depth |-> F(c).depth, captured |-> FALSE])]

LastSlot(c) == Len(F(c).locals) - 1

declare_variable(c, x) ==
    IF \E i \in 1 .. Len(F(c).locals) :
          F(c).locals[i].name = x /\ F(c).locals[i].depth >= F(c).depth
    THEN error(c)
    ELSE add_local(c, x)

\* A mutant: an upvalue of the enclosing function's upvalues is taken for one of
\* its locals.
add_upvalue_by_index(fns, n, index, is_local) ==
    LET known == {i \in 1 .. Len(fns[n].upvalues) : fns[n].upvalues[i].index = index}
        u == [index |-> index, is_local |-> is_local]
    IN  IF known # {} THEN <<fns, Max(known)>>
        ELSE <<[fns EXCEPT ![n].upvalues = Append(@, u)], Len(fns[n].upvalues) + 1>>

\* The functions with the upvalue added to function n, and its index.
add_upvalue(fns, n, index, is_local) ==
    LET u == [index |-> index, is_local |-> is_local]
        known == {i \in 1 .. Len(fns[n].upvalues) : fns[n].upvalues[i] = u}
    IN  IF known # {} THEN <<fns, Max(known)>>
        ELSE <<[fns EXCEPT ![n].upvalues = Append(@, u)], Len(fns[n].upvalues) + 1>>

RECURSIVE resolve_upvalue(_, _, _)
resolve_upvalue(fns, n, x) ==
    IF n = 1 THEN <<fns, 0>>
    ELSE LET l == resolve_local(fns[n - 1], x)
             outer == resolve_upvalue(fns, n - 1, x)
         IN  IF l # 0
             THEN add_upvalue([fns EXCEPT ![n - 1].locals[l].captured = TRUE],
                              n, l - 1, TRUE)
             ELSE IF outer[2] # 0 THEN add_upvalue(outer[1], n, outer[2], FALSE)
             ELSE outer

-----------------------------------------------------------------------------
(* Expressions: the Pratt parser and its rules.                            *)

RECURSIVE expression(_)
RECURSIVE parse_precedence(_, _)
RECURSIVE Elements(_, _)
RECURSIVE Infixes(_, _, _)

\* Where a name leads: the compilation, which may have new upvalues, the kind
\* of variable and its slot, index or name.
Upvalue(c, r, x) ==
    [c |-> [c EXCEPT !.fns = r[1]],
     kind |-> IF r[2] # 0 THEN "UPVALUE" ELSE "GLOBAL",
     operand |-> IF r[2] # 0 THEN r[2] ELSE x]
Resolve(c, x) ==
    IF resolve_local(F(c), x) # 0
    THEN [c |-> c, kind |-> "LOCAL", operand |-> resolve_local(F(c), x) - 1]
    ELSE Upvalue(c, resolve_upvalue(c.fns, Len(c.fns), x), x)

\* The value of an assignment to a new local stays where it is.
Store(c, v, x) ==
    IF v.kind = "GLOBAL" /\ F(c).depth > 0
    THEN NoteLast([add_local(c, x) EXCEPT !.created_local = TRUE])
    ELSE Emit(c, SetOp[v.kind], v.operand)
Variable(v, x, can_assign) ==
    IF can_assign /\ Check(v.c, "=")
    THEN Store(expression(SkipNewlines(Advance(v.c))), v, x)
    ELSE Emit(v.c, GetOp[v.kind], v.operand)
named_variable(c, can_assign) == Variable(Resolve(c, Prev(c)[2]), Prev(c)[2], can_assign)

\* One or more expressions with commas between: <<compilation, their number>>.
\* A map's entries are a key, a colon and an expression each.
MapEntry(c) ==
    IF Check(c, "ID") \/ Check(c, "STRING")
    THEN Emit(Advance(c), "CONSTANT", <<"string", Cur(c)[2]>>)
    ELSE expression(c)
Key(c, in_map) == IF in_map THEN SkipNewlines(Consume(MapEntry(c), ":")) ELSE c
OneMore(elements) == <<elements[1], elements[2] + 1>>
NextElement(c, in_map) ==
    IF ~c.error /\ Check(c, ",") THEN OneMore(Elements(Advance(c), in_map)) ELSE <<c, 1>>
Elements(c, in_map) ==
    NextElement(SkipNewlines(expression(Key(SkipNewlines(c), in_map))), in_map)

\* The elements up to the closing token, if any, and the operator over them.
Close(elements, close, op) ==
    Emit(Consume(SkipNewlines(elements[1]), close), op, elements[2])
Literal(c, close, op) ==
    Close(IF Check(c, close) THEN <<c, 0>> ELSE Elements(c, close = "}"), close, op)

\* call and argument_list.
call(c) == Literal(c, ")", "CALL")

EndIndex(c, can_assign) ==
    IF can_assign /\ Check(c, "=")
    THEN Emit(expression(SkipNewlines(Advance(c))), "SET_INDEX", 0)
    ELSE Emit(c, "GET_INDEX", 0)
index_expr(c, can_assign) ==
    EndIndex(Consume(SkipNewlines(expression(SkipNewlines(c))), "]"), can_assign)

Field(c, name, can_assign) ==
    CASE can_assign /\ Check(c, "=") ->
            Emit(expression(SkipNewlines(Advance(c))), "SET_FIELD", name)
      [] Check(c, "(") -> call(Advance(Emit(c, "GET_FIELD", name)))
      [] OTHER -> Emit(c, "GET_FIELD", name)
dot(c, can_assign) ==
    IF Check(c, "ID") THEN Field(Advance(c), Cur(c)[2], can_assign) ELSE error(c)

\* The jump over the right side, which starts with a POP.
Right(c, at, op) ==
    patch_jump(parse_precedence(SkipNewlines(Emit(c, "POP", 0)), Prec(op)), at)
Conjoin(j) == Right(j, Here(j), "and")
and_(c) == Conjoin(Emit(c, "JUMP_IF_FALSE", 0))
Disjoin(k) == Right(patch_jump(k, Here(k) - 1), Here(k), "or")
or_(c) == Disjoin(Emit(Emit(c, "JUMP_IF_FALSE", 0), "JUMP", 0))

binary(c) ==
    Emit(parse_precedence(c, Prec(Prev(c)[1]) + 1), "BINARY", Prev(c)[1])

HasPrefix(k) == k \in {"(", "[", "{", "-", "!", "not", "~", "INT", "STRING", "ID",
                       "nil", "true", "false"}
Prefix(c, can_assign) ==
    LET k == Prev(c)[1]
    IN  CASE k = "(" -> Consume(SkipNewlines(expression(SkipNewlines(c))), ")")
          [] k = "[" -> Literal(SkipNewlines(c), "]", "NEW_LIST")
          [] k = "{" -> Literal(SkipNewlines(c), "}", "NEW_MAP")
          [] k \in {"-", "!", "not", "~"} ->
                Emit(parse_precedence(c, Unary), "UNARY", k)
          [] k = "INT" -> Emit(c, "CONSTANT", <<"int", Prev(c)[2]>>)
          [] k = "STRING" -> Emit(c, "CONSTANT", <<"string", Prev(c)[2]>>)
          [] k \in {"true", "false"} -> Emit(c, "CONSTANT", <<"bool", k = "true">>)
          [] k = "nil" -> Emit(c, "NIL", 0)
          [] k = "ID" -> named_variable(c, can_assign)

Infix(c, can_assign) ==
    LET k == Prev(c)[1]
    IN  CASE k = "(" -> call(c)
          [] k = "[" -> index_expr(c, can_assign)
          [] k = "." -> dot(c, can_assign)
          [] k \in {"and", "&&"} -> and_(c)
          [] k \in {"or", "||"} -> or_(c)
          [] OTHER -> binary(c)

Infixes(c, precedence, can_assign) ==
    IF ~c.error /\ precedence <= Prec(Cur(c)[1])
    THEN Infixes(Infix(Advance(c), can_assign), precedence, can_assign)
    ELSE c

Assigned(e, can_assign) == IF can_assign /\ Check(e, "=") THEN error(e) ELSE e
AfterToken(d, precedence) ==
    IF ~HasPrefix(Prev(d)[1]) THEN error(d)
    ELSE Assigned(Infixes(Prefix(d, precedence <= Assignment), precedence,
                          precedence <= Assignment), precedence <= Assignment)
parse_precedence(c, precedence) ==
    IF c.error THEN c ELSE AfterToken(Advance(SkipNewlines(c)), precedence)

expression(c) == parse_precedence(c, Assignment)

-----------------------------------------------------------------------------
(* Statements.                                                             *)

RECURSIVE declaration(_)
RECURSIVE Block(_, _)
RECURSIVE Elsifs(_, _)
RECURSIVE Parameters(_)

Block(c, ends) ==
    IF Cur(c)[1] \in ends \cup {"EOF"} THEN c
    ELSE Block(SkipNewlines(declaration(SkipNewlines(c))), ends)

\* A mutant: the value of a new local is dropped like any other.
EndStatement_popping(c) == Emit([c EXCEPT !.created_local = FALSE], "POP", 0)

EndStatement(c) == IF c.created_local THEN [c EXCEPT !.created_local = FALSE]
                   ELSE Emit(c, "POP", 0)
expression_statement(c) == EndStatement(expression([c EXCEPT !.created_local = FALSE]))

\* A condition and the jump over its branch; the branch and the jump over the
\* rest, which is returned too.
Condition(c) ==
    Emit(SkipNewlines(Match(SkipNewlines(expression(SkipNewlines(c))), "then")),
         "JUMP_IF_FALSE", 0)
SkipBranch(k, at) == <<Emit(patch_jump(k, at), "POP", 0), Here(k)>>
Branch(j) ==
    SkipBranch(Emit(Block(Emit(j, "POP", 0), {"elsif", "else", "end"}), "JUMP", 0), Here(j))

Elsifs(b, exits) ==
    IF Check(b[1], "elsif") THEN Elsifs(Branch(Condition(Advance(b[1]))), Append(exits, b[2]))
    ELSE <<b[1], Append(exits, b[2])>>

Else(c) == IF Check(c, "else") THEN Block(SkipNewlines(Advance(c)), {"end"}) ELSE c
EndIf(chain) == Consume(SkipNewlines(PatchAll(Else(chain[1]), chain[2])), "end")
if_statement(c) == EndIf(Elsifs(Branch(Condition(c)), <<>>))

BeginLoop(c) == [c EXCEPT !.loops = Append(@, [start |-> Here(c), breaks |-> <<>>])]
SetLoopStart(c) == [c EXCEPT !.loops[Len(c.loops)].start = Here(c)]
\* Every break jumps to here.
EndLoop(c) ==
    [Consume(PatchAll(c, Last(c.loops).breaks), "end") EXCEPT !.loops = Front(@)]

\* The jump back, to where the exit at `at' comes.
Repeat(body, at) == patch_jump(emit_loop(body, Last(body.loops).start), at)

\* while_statement, and until_statement, whose condition is negated.
Test(c, until) ==
    Emit(IF until THEN Emit(c, "UNARY", "!") ELSE c, "JUMP_IF_FALSE", 0)
WhileBody(j) ==
    EndLoop(Emit(Repeat(Block(Emit(j, "POP", 0), {"end"}), Here(j)), "POP", 0))
while_statement(c, until) ==
    WhileBody(Test(SkipNewlines(expression(SkipNewlines(BeginLoop(c)))), until))

LoopBack(body) == EndLoop(emit_loop(body, Last(body.loops).start))
loop_statement(c) ==
    LoopBack(Block(BeginLoop(SkipNewlines(Match(c, "do"))), {"end"}))

\* The loop variable, the iterator over the collection, and a turn.
ForVariable(d) == NoteLast(Emit(add_local(d, Prev(d)[2]), "NIL", 0))
ForIterator(var) ==
    NoteLast(add_local(Emit(SkipNewlines(expression(SkipNewlines(Consume(var, "in")))),
                            "ITER_INIT", 0), ""))
ForNext(iter) ==
    Emit(Emit(SetLoopStart(iter), "GET_LOCAL", LastSlot(iter)), "ITER_NEXT", 0)
ForBody(j, slot) ==
    end_scope(EndLoop(Repeat(Block(Emit(Emit(j, "SET_LOCAL", slot), "POP", 0), {"end"}),
                             Here(j))))
ForEach(var) == ForBody(ForNext(ForIterator(var)), LastSlot(var))
for_statement(c) ==
    IF ~Check(SkipNewlines(c), "ID") THEN error(c)
    ELSE ForEach(ForVariable(Advance(SkipNewlines(BeginLoop(begin_scope(c))))))

return_statement(c) ==
    IF F(c).script THEN error(c)
    ELSE IF Cur(c)[1] \in {"NL", "EOF", "end"} THEN emit_return(c)
    ELSE Emit(expression(c), "RETURN", 0)

\* A loop's body has the depth of its loop, so that no locals are popped here.
break_statement(c) ==
    LET j == Emit(c, "JUMP", 0)
    IN  IF c.loops = <<>> THEN error(c)
        ELSE [j EXCEPT !.loops[Len(c.loops)].breaks = Append(@, Here(j))]
next_statement(c) ==
    IF c.loops = <<>> THEN error(c) ELSE emit_loop(c, Last(c.loops).start)

Counted(c) == [c EXCEPT !.fns[Len(c.fns)].arity = @ + 1]
NextParameter(f) == IF ~f.error /\ Check(f, ",") THEN Parameters(Advance(f)) ELSE f
Parameters(c) ==
    IF ~Check(SkipNewlines(c), "ID") THEN error(c)
    ELSE NextParameter(SkipNewlines(declare_variable(Counted(Advance(SkipNewlines(c))),
                                                     Cur(SkipNewlines(c))[2])))

\* What stands between ( and the end of the body, in a scope of its own.
Header(c) == Consume(IF Check(c, ")") THEN c ELSE Parameters(c), ")")
FunctionBody(c, name) ==
    Block(SkipNewlines(Header(Consume(begin_scope([c EXCEPT
              !.fns = Append(@, init_compiler(name, FALSE))]), "("))), {"end"})
Closure(body) ==
    Emit(Consume(end_compiler(body), "end"), "CLOSURE",
         <<Len(body.done) + 1, F(body).upvalues>>)
\* Outside functions and for loops a function is a global.
Declared(c, name) ==
    IF F(c).depth = 0
    THEN Emit(Closure(FunctionBody(c, name)), "DEFINE_GLOBAL", name)
    ELSE NoteLast(Closure(FunctionBody(declare_variable(c, name), name)))
fn_declaration(c) ==
    IF Check(c, "ID") THEN Declared(Advance(c), Cur(c)[2]) ELSE error(c)

Statement(k, c) ==
    CASE k = "fn" -> fn_declaration(c)
      [] k = "if" -> if_statement(c)
      [] k \in {"while", "until"} -> while_statement(c, k = "until")
      [] k = "for" -> for_statement(c)
      [] k = "loop" -> loop_statement(c)
      [] k = "return" -> return_statement(c)
      [] k = "break" -> break_statement(c)
      [] k = "next" -> next_statement(c)
declaration(c) ==
    IF Cur(c)[1] \in Keywords THEN Statement(Cur(c)[1], Advance(c))
    ELSE IF Check(c, "EOF") THEN c
    ELSE expression_statement(c)

\* The functions of the program, the script last; <<>> for NULL.
compile(toks) ==
    LET c == Block([toks |-> toks, pos |-> 1, error |-> FALSE,
                    fns |-> <<init_compiler("", TRUE)>>, loops |-> <<>>,
                    created_local |-> FALSE, done |-> <<>>], {})
    IN  IF c.error THEN <<>> ELSE end_compiler(c).done

=============================================================================
