----------------------------- MODULE MCLanguage -----------------------------
(***************************************************************************)
(* The programs of the runs, the compiler and the machine on their texts,  *)
(* and what these must have in common with the meaning of the trees.       *)
(***************************************************************************)
EXTENDS Compiler, Machine, Language

CONSTANTS Trees, Meanings

I(n) == <<"int", n>>
Minus(n) == <<"un", "-", I(n)>>
V(x) == <<"var", x>>
Op2(op, l, r) == <<"bin", op, l, r>>
Run1(f, e) == <<"call", V(f), <<e>>>>
Do(e) == <<"do", e>>
Set(x, e) == Do(<<"set", x, e>>)
Out(e) == Do(Run1("print", e))
If(c, b) == <<"if", <<c>>, <<b>>>>
Return(e) == <<"return", e>>
Add(x, n) == Set(x, Op2("+", V(x), n))
Fn(f, params, body) == <<"fn", f, params, body>>

-----------------------------------------------------------------------------
(* Operators: every pair of them, nested on the left and on the right.     *)

Ops == {"or", "&&", "|", "^", "&", "==", "<", ">=", "<<", ">>", "+", "-", "*", "%", "**"}
Unaries == {"-", "not", "~"}
OperatorCases ==
    {"left", "right", "mixed"} \X Ops \X Ops \cup {"of a pair", "in a pair"} \X Unaries \X Ops
Operators(case) ==
    LET f == case[2]
        g == case[3]
    IN  <<Out(CASE case[1] = "left" -> Op2(f, Op2(g, Minus(3), I(2)), I(2))
                [] case[1] = "right" -> Op2(f, I(3), Op2(g, I(2), I(2)))
                [] case[1] = "mixed" -> Op2(f, <<"nil", 0>>, Op2(g, <<"bool", TRUE>>, I(4)))
                [] case[1] = "of a pair" -> <<"un", f, Op2(g, I(5), I(3))>>
                [] case[1] = "in a pair" -> Op2(g, <<"un", f, I(5)>>, I(3)))>>

-----------------------------------------------------------------------------
(* Statements outside functions: loops around two statements of a pool.    *)

Is(x, n) == Op2("==", V(x), I(n))
Flow ==
    <<Out(V("i")), If(Is("i", 2), <<<<"break">>>>), If(Is("i", 1), <<<<"next">>>>),
      <<"if", <<Is("i", 1), Is("i", 2)>>, <<<<Out(I(10))>>, <<Out(I(20))>>, <<Add("j", I(5))>>>>>>,
      <<"while", Op2("<", V("j"), V("i")), <<Add("j", I(1)), If(Is("j", 2), <<<<"break">>>>)>>>>,
      Do(<<"put", V("m"), Minus(1), V("i")>>)>>
LoopCases == {"while", "until", "loop"} \X (DOMAIN Flow) \X (DOMAIN Flow)
Loops(case) ==
    LET body == <<Add("i", I(1)), Flow[case[2]], Flow[case[3]]>>
        loop == CASE case[1] = "while" -> <<"while", Op2("<", V("i"), I(3)), body>>
                  [] case[1] = "until" -> <<"until", Op2("==", V("i"), I(3)), body>>
                  [] case[1] = "loop" ->
                        <<"loop", body \o <<If(Op2(">", V("i"), I(2)), <<<<"break">>>>)>>>>
    IN  <<Set("i", I(0)), Set("j", I(0)), Set("m", <<"list", <<I(0), I(1)>>>>), loop,
          Out(V("i")), Out(V("j")), Out(V("m"))>>

-----------------------------------------------------------------------------
(* Functions: f has parameters, locals and closures over them; its locals  *)
(* are all declared before the first block (run lang_blocks: why).         *)

Call1(f, a) == <<"call", f, <<a>>>>
Call0(f) == <<"call", f, <<>>>>
Bump == Fn("bump", <<"x">>, <<Add("b", V("x")), Return(Op2("+", V("a"), V("b")))>>)
Deep == Fn("deep", <<>>,
            <<Set("d", I(7)),
              Fn("inner", <<"x">>, <<Add("a", V("x")), Add("b", I(1)), Add("d", V("b")),
                                     Return(Op2("+", V("a"), V("d")))>>),
              Return(V("inner"))>>)
Again == Fn("again", <<"k">>,
             <<If(Op2("<", V("k"), I(1)), <<Return(V("a"))>>),
               Return(Op2("+", V("k"), Call1(V("again"), Op2("-", V("k"), I(1)))))>>)

Bodies ==
    <<Out(Call1(V("bump"), I(2))), Add("b", V("n")), Out(Call1(Call0(V("deep")), I(3))),
      Out(Call1(V("again"), I(2))), Out(Call1(V("again"), I(9))),
      <<"while", Op2("<", V("a"), I(4)), <<Add("a", I(1)), Out(Call1(V("bump"), I(0)))>>>>,
      <<"for", "x", <<"list", <<I(1), I(2)>>>>, <<Add("b", V("x")), Out(V("x"))>>>>,
      If(Op2(">", V("b"), I(1)), <<Return(V("bump"))>>)>>
Results == <<V("bump"), Call0(V("deep")), <<"list", <<V("bump"), Call0(V("deep"))>>>>>>
\* One for to a function: the next would be declared in the wrong slots.
FunctionCases ==
    {case \in {"functions"} \X (DOMAIN Bodies) \X (DOMAIN Bodies) \X (DOMAIN Results) :
        Bodies[case[2]][1] # "for" \/ Bodies[case[3]][1] # "for"}
Functions(case) ==
    LET r == Results[case[4]]
        Get(h, i) == IF r[1] = "list" THEN <<"at", V(h), I(i)>> ELSE V(h)
    IN  <<Fn("f", <<"n">>,
             <<Set("a", V("n")), Set("b", I(1)), Bump, Deep, Again,
               Bodies[case[2]], Bodies[case[3]], Return(r)>>),
          Set("h", Call1(V("f"), I(1))), Set("k", Call1(V("f"), I(5))),
          Out(Call1(Get("h", 0), I(1))), Out(Call1(Get("k", 1), I(1))),
          Out(Call1(Get("h", 1), I(1)))>>

MapCases == {"maps"} \X {"p", "r"} \X {"p", "r"} \X {"q", "s"}
Maps(case) ==
    <<Set("m", <<"map", <<"p", "q">>, <<I(1), I(2)>>>>),
      Do(<<"dotput", V("m"), case[2], I(3)>>), Out(<<"dot", V("m"), case[3]>>), Out(V("m")),
      Out(<<"at", V("m"), <<"string", case[4]>>>>), Out(<<"at", V("m"), I(0)>>)>>

\* Functions that capture the variable of a loop, are called while it goes on
\* and when it is over, and may change it.  Such a function, g, is a local of the
\* body of a for and one slot above where the compiler looks for it (run
\* lang_blocks: why); the next local, which is g too, is looked for where g is.
CapturedCases == {"captured"} \X BOOLEAN \X (1 .. 3) \X (1 .. 5)
Kept == <<"at", V("m"), I(0)>>
LoopVariables(case) ==
    LET capture == Fn("g", <<>>, (IF case[2] THEN <<Add("x", I(10))>> ELSE <<>>) \o <<Return(V("x"))>>)
        during == <<Out(V("x")), Out(Call0(Kept)), Out(Call0(V("p"))),
                    If(Is("x", 2), <<<<"next">>>>), If(Is("x", 2), <<<<"break">>>>)>>
        body == <<capture, Set("p", V("g")), If(Is("x", case[3]), <<Do(<<"put", V("m"), I(0), V("p")>>)>>),
                  during[case[4]], Out(V("x"))>>
    IN  <<Set("m", <<"list", <<V("print")>> >>),
          <<"for", "x", <<"list", <<I(1), I(2), I(3)>> >>, body>>,
          Out(Call0(Kept)), Out(Call0(Kept))>>

MCTrees ==
    [case \in OperatorCases \cup LoopCases \cup FunctionCases \cup MapCases \cup CapturedCases |->
        CASE case \in OperatorCases -> Operators(case)
          [] case \in LoopCases -> Loops(case)
          [] case \in FunctionCases -> Functions(case)
          [] case \in MapCases -> Maps(case)
          [] case \in CapturedCases -> LoopVariables(case)]

MCCaptured == [case \in CapturedCases |-> LoopVariables(case)]

-----------------------------------------------------------------------------
(* Functions that declare variables in their blocks.                       *)

Main(body) == <<Fn("f", <<>>, body), Do(Call0(V("f")))>>
MCBlocks ==
    <<Main(<<Set("i", I(0)),
             <<"while", Op2("<", V("i"), I(2)),
               <<Set("t", V("i")), Out(V("t")), Add("i", I(1))>> >> >>),
      Main(<<If(<<"bool", FALSE>>, <<Set("a", I(1))>>), Set("b", I(2)), Out(V("b"))>>),
      Main(<< <<"for", "x", <<"list", <<I(1), I(2)>> >>, <<Set("y", V("x")), Out(V("y"))>> >> >>),
      << <<"for", "x", <<"list", <<I(1), I(2)>> >>,
           << <<"for", "y", <<"list", <<I(3), I(4)>> >>, <<Out(V("y"))>> >> >> >> >> >>

MCPrograms == [p \in DOMAIN Trees |-> compile(Text(Trees[p]))]
MCMeanings == [p \in DOMAIN Trees |-> Meaning(Trees[p])]
-----------------------------------------------------------------------------
(* Properties.                                                             *)

\* The compiled program prints, at every moment, a beginning of what its
\* source means, and ends in the way the source ends, having printed all of
\* it: jumps, precedences, slots and upvalues all lead where the scopes of
\* the text lead (compile and run, against Language).
AgreesWithSource ==
    program \in DOMAIN Trees =>
        /\ IsPrefix(out, Meanings[program].out)
        /\ status # "running" => status = Meanings[program].status /\ out = Meanings[program].out

\* When execution comes to the point where a local gets its slot, other than
\* around a loop, that slot is the top of the stack: what the compiler counts
\* and what the machine has pushed agree on every path through the function
\* (add_local, "value is already on stack in the correct slot position").
LocalsInTheirSlots ==
    [][program[1] # "captured" /\ status' = "running" /\ Op # "LOOP" =>
          \A note \in Function'.notes :
              note[1] = Frame'.ip => top' = Frame'.slots + note[2] + 1]_MachineVars
=============================================================================
