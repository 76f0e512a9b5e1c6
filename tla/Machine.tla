------------------------------ MODULE Machine -------------------------------
(***************************************************************************)
(* run() of vm.c: the stack machine that executes what compile produced.   *)
(* One action per group of opcodes.                                        *)
(*                                                                         *)
(* `stack' is the array vm.stack from its bottom as far as it has ever     *)
(* been written, `top' is stack_top: what lies above top is still there    *)
(* and is what a read above top returns.  Slots count from 0.  Values are  *)
(* pairs of a type and a content; lists, maps and upvalues are indices of  *)
(* `objs', and a closure carries the indices of its upvalues.  Floats and  *)
(* the integers' 48 bits are left out, as are the built-in methods; print  *)
(* is the one native, and `out' is what it has printed.                    *)
(***************************************************************************)
EXTENDS Values, FiniteSets

CONSTANTS Programs,   \* what compile returned for each program
          STACK_MAX,
          FRAMES_MAX

VARIABLES program,    \* which program runs
          functions,  \* what it was compiled to
          stack, top, frames, globals, objs,
          open,       \* vm.open_upvalues, a list of indices of objs
          out,
          status      \* "running", "ok", "runtime error" or "compile error"

MachineVars == <<program, functions, stack, top, frames, globals, objs, open, out, status>>

Zero == <<"zero", 0>>  \* what the array holds before anything is written

\* The frame that runs, its function and the next instruction.
Frame == Last(frames)
Function == functions[Frame.closure[2]]
Op == Function.code[Frame.ip + 1][1]
Operand == Function.code[Frame.ip + 1][2]

StackSlot(s) == IF s + 1 > Len(stack) THEN Zero ELSE stack[s + 1]
Peek(distance) == StackSlot(top - 1 - distance)
WithSlot(st, s, v) == IF s = Len(st) THEN Append(st, v) ELSE [st EXCEPT ![s + 1] = v]

\* Pop n values and push one.
Replace(n, v) ==
    /\ stack' = WithSlot(stack, top - n, v)
    /\ top' = top - n + 1
Ip(offset) == frames' = [frames EXCEPT ![Len(frames)].ip = @ + 1 + offset]

runtime_error ==
    /\ status' = "runtime error"
    /\ UNCHANGED <<program, functions, stack, top, frames, globals, objs, open, out>>

\* vm_push: at the limit nothing is stored and the machine stops before its
\* next instruction.
vm_push(v) ==
    IF top >= STACK_MAX
    THEN status' = "runtime error" /\ UNCHANGED <<stack, top>>
    ELSE Replace(0, v) /\ UNCHANGED status

-----------------------------------------------------------------------------
(* Upvalues.                                                               *)

Valued(u) == IF objs[u].slot >= 0 THEN StackSlot(objs[u].slot) ELSE objs[u].closed

\* capture_upvalue: the heap and the list with an upvalue for the slot, which
\* is found or made in its place; the list descends from the top of the stack.
capture_upvalue(heap, list, slot) ==
    LET found == {u \in Range(list) : heap[u].slot = slot}
        above == {i \in 1 .. Len(list) : heap[list[i]].slot > slot}
        at == IF above = {} THEN 1 ELSE Max(above) + 1
        new == Len(heap) + 1
    IN  IF found # {} THEN <<heap, list, Max(found)>>
        ELSE <<Append(heap, [slot |-> slot, closed |-> VAL_NIL]), InsertAt(list, at, new), new>>

\* close_upvalues: those at the front of the list whose slot is at or above.
Closing(slot) ==
    {i \in 1 .. Len(open) : \A j \in 1 .. i : objs[open[j]].slot >= slot}
close_upvalues(slot) ==
    LET closed == {open[i] : i \in Closing(slot)} IN
    /\ objs' = [u \in DOMAIN objs |->
                  IF u \in closed THEN [slot |-> -1, closed |-> StackSlot(objs[u].slot)]
                  ELSE objs[u]]
    /\ open' = SubSeq(open, Cardinality(closed) + 1, Len(open))

-----------------------------------------------------------------------------
(* The instructions.                                                       *)

Runs(ops) == status = "running" /\ Op \in ops

op_constant ==
    /\ Runs({"CONSTANT", "NIL"})
    /\ vm_push(IF Op = "NIL" THEN VAL_NIL ELSE Operand)
    /\ Ip(0) /\ UNCHANGED <<program, functions, globals, objs, open, out>>

op_binary ==
    /\ Runs({"BINARY"})
    /\ LET v == Binary(Operand, Peek(1), Peek(0)) IN
       IF v = NoValue THEN runtime_error
       ELSE Replace(2, v) /\ Ip(0) /\ UNCHANGED <<program, functions, globals, objs, open, out, status>>

op_unary ==
    /\ Runs({"UNARY"})
    /\ LET v == Negated(Operand, Peek(0)) IN
       IF v = NoValue THEN runtime_error
       ELSE Replace(1, v) /\ Ip(0) /\ UNCHANGED <<program, functions, globals, objs, open, out, status>>

op_pop ==
    /\ Runs({"POP"})
    /\ top' = top - 1
    /\ Ip(0) /\ UNCHANGED <<program, functions, stack, globals, objs, open, out, status>>

op_get_local ==
    /\ Runs({"GET_LOCAL"})
    /\ vm_push(StackSlot(Frame.slots + Operand))
    /\ Ip(0) /\ UNCHANGED <<program, functions, globals, objs, open, out>>

op_set_local ==
    /\ Runs({"SET_LOCAL"})
    /\ stack' = [stack EXCEPT ![Frame.slots + Operand + 1] = Peek(0)]
    /\ Ip(0) /\ UNCHANGED <<program, functions, top, globals, objs, open, out, status>>

op_get_global ==
    /\ Runs({"GET_GLOBAL"})
    /\ IF Operand \notin DOMAIN globals THEN runtime_error
       ELSE /\ vm_push(globals[Operand])
            /\ Ip(0) /\ UNCHANGED <<program, functions, globals, objs, open, out>>

op_set_global ==
    /\ Runs({"SET_GLOBAL", "DEFINE_GLOBAL"})
    /\ globals' = (Operand :> Peek(0)) @@ globals
    /\ top' = IF Op = "DEFINE_GLOBAL" THEN top - 1 ELSE top
    /\ Ip(0) /\ UNCHANGED <<program, functions, stack, objs, open, out, status>>

op_get_upvalue ==
    /\ Runs({"GET_UPVALUE"})
    /\ vm_push(Valued(Frame.closure[3][Operand]))
    /\ Ip(0) /\ UNCHANGED <<program, functions, globals, objs, open, out>>

op_set_upvalue ==
    /\ Runs({"SET_UPVALUE"})
    /\ LET u == Frame.closure[3][Operand] IN
       IF objs[u].slot >= 0
       THEN stack' = WithSlot(stack, objs[u].slot, Peek(0)) /\ UNCHANGED objs
       ELSE objs' = [objs EXCEPT ![u].closed = Peek(0)] /\ UNCHANGED stack
    /\ Ip(0) /\ UNCHANGED <<program, functions, top, globals, open, out, status>>

op_close_upvalue ==
    /\ Runs({"CLOSE_UPVALUE"})
    /\ close_upvalues(top - 1)
    /\ top' = top - 1
    /\ Ip(0) /\ UNCHANGED <<program, functions, stack, globals, out, status>>

op_jump ==
    /\ Runs({"JUMP", "JUMP_IF_FALSE", "LOOP"})
    /\ Ip(CASE Op = "LOOP" -> -Operand
            [] Op = "JUMP" \/ Falsy(Peek(0)) -> Operand
            [] OTHER -> 0)
    /\ UNCHANGED <<program, functions, stack, top, globals, objs, open, out, status>>

\* call_value: a closure, or the native print.
op_call ==
    /\ Runs({"CALL"})
    /\ LET callee == Peek(Operand)
           arity == functions[callee[2]].arity
           args == [i \in 1 .. Operand |-> Shown(Peek(Operand - i), objs)] IN
       \/ /\ callee[1] = "fn" /\ Operand = arity /\ Len(frames) < FRAMES_MAX
          /\ frames' = Append([frames EXCEPT ![Len(frames)].ip = @ + 1],
                              [closure |-> callee, ip |-> 0, slots |-> top - Operand - 1])
          /\ UNCHANGED <<program, functions, stack, top, globals, objs, open, out, status>>
       \/ /\ callee[1] = "print"
          /\ out' = Append(out, args)
          /\ Replace(Operand + 1, VAL_NIL)
          /\ Ip(0) /\ UNCHANGED <<program, functions, globals, objs, open, status>>
       \/ /\ IF callee[1] = "fn" THEN Operand # arity \/ Len(frames) = FRAMES_MAX
             ELSE callee[1] # "print"
          /\ runtime_error

\* The script's own return ends the run: call_depth is 0.
op_return ==
    /\ Runs({"RETURN"})
    /\ close_upvalues(Frame.slots)
    /\ frames' = Front(frames)
    /\ IF Len(frames) = 1
       THEN Replace(2, Peek(0)) /\ status' = "ok"
       ELSE /\ stack' = WithSlot(stack, Frame.slots, Peek(0))
            /\ top' = Frame.slots + 1
            /\ UNCHANGED status
    /\ UNCHANGED <<program, functions, globals, out>>

\* The closure is pushed before its upvalues are captured, so that a function
\* can capture the local it is about to be.
RECURSIVE Captured(_, _, _, _)
Captured(heap, list, ups, descriptors) ==
    IF descriptors = <<>> THEN <<heap, list, ups>>
    ELSE LET d == Head(descriptors)
             c == capture_upvalue(heap, list, Frame.slots + d.index)
         IN  IF d.is_local
             THEN Captured(c[1], c[2], Append(ups, c[3]), Tail(descriptors))
             ELSE Captured(heap, list, Append(ups, Frame.closure[3][d.index]),
                           Tail(descriptors))

op_closure ==
    /\ Runs({"CLOSURE"})
    /\ LET c == Captured(objs, open, <<>>, Operand[2]) IN
       /\ objs' = c[1]
       /\ open' = c[2]
       /\ vm_push(<<"fn", Operand[1], c[3]>>)
    /\ Ip(0) /\ UNCHANGED <<program, functions, globals, out>>

Items(n) == [i \in 1 .. n |-> Peek(n - i)]
Entries(n) == FoldLeft(LAMBDA m, i : WithField(m, Items(2 * n)[2 * i - 1][2], Items(2 * n)[2 * i]),
                       <<>>, [i \in 1 .. n |-> i])

op_new_list ==
    /\ Runs({"NEW_LIST"})
    /\ objs' = Append(objs, Items(Operand))
    /\ Replace(Operand, <<"list", Len(objs) + 1>>)
    /\ Ip(0) /\ UNCHANGED <<program, functions, globals, open, out, status>>

op_new_map ==
    /\ Runs({"NEW_MAP"})
    /\ IF \E i \in 1 .. Operand : Items(2 * Operand)[2 * i - 1][1] # "string"
       THEN runtime_error
       ELSE /\ objs' = Append(objs, Entries(Operand))
            /\ Replace(2 * Operand, <<"map", Len(objs) + 1>>)
            /\ Ip(0) /\ UNCHANGED <<program, functions, globals, open, out, status>>

\* Fields of lists and strings are built-in methods and left out, as is the
\* indexing of strings.
op_get_index ==
    /\ Runs({"GET_INDEX", "GET_FIELD"})
    /\ LET field == Op = "GET_FIELD"
           index == IF field THEN <<"string", Operand>> ELSE Peek(0)
           obj == IF field THEN Peek(0) ELSE Peek(1)
           pops == IF field THEN 1 ELSE 2
           heap == objs[obj[2]]
           Get(v) == Replace(pops, v) /\ Ip(0) /\ UNCHANGED <<program, functions, globals, objs, open, out, status>>
       IN  CASE obj[1] = "list" /\ ~field /\ InList(Len(heap), index) ->
                  Get(heap[Position(Len(heap), index)])
             [] obj[1] = "map" /\ index[1] = "string" -> Get(FieldOf(heap, index[2]))
             [] OTHER -> runtime_error

op_set_index ==
    /\ Runs({"SET_INDEX", "SET_FIELD"})
    /\ LET field == Op = "SET_FIELD"
           index == IF field THEN <<"string", Operand>> ELSE Peek(1)
           pops == IF field THEN 2 ELSE 3
           obj == Peek(pops - 1)
           heap == objs[obj[2]]
           Set(contents) == /\ objs' = [objs EXCEPT ![obj[2]] = contents]
                            /\ Replace(pops, Peek(0))
                            /\ Ip(0) /\ UNCHANGED <<program, functions, globals, open, out, status>>
       IN  CASE obj[1] = "list" /\ ~field /\ InList(Len(heap), index) ->
                  Set([heap EXCEPT ![Position(Len(heap), index)] = Peek(0)])
             [] obj[1] = "map" /\ index[1] = "string" ->
                  Set(WithField(heap, index[2], Peek(0)))
             [] OTHER -> runtime_error

\* An iterator is a list of the collection, an index and a marker.
op_iter_init ==
    /\ Runs({"ITER_INIT"})
    /\ objs' = Append(objs, <<Peek(0), <<"int", 0>>, <<"int", -9999>>>>)
    /\ Replace(1, <<"list", Len(objs) + 1>>)
    /\ Ip(0) /\ UNCHANGED <<program, functions, globals, open, out, status>>

\* iterator_next over a list; ObjMap has the loop over a map.
op_iter_next ==
    /\ Runs({"ITER_NEXT"})
    /\ LET iter == objs[Peek(0)[2]]
           list == objs[iter[1][2]]
           i == iter[2][2] + 1
       IN  IF Peek(0)[1] = "list" /\ Len(iter) >= 3 /\ iter[1][1] = "list" /\ i <= Len(list)
           THEN /\ vm_push(list[i])
                /\ objs' = [objs EXCEPT ![Peek(0)[2]][2] = <<"int", i>>]
                /\ Ip(0) /\ UNCHANGED <<program, functions, globals, open, out>>
           ELSE /\ Ip(Operand)
                /\ UNCHANGED <<program, functions, stack, top, globals, objs, open, out, status>>

\* vm_interpret: compile, push the script's closure and call it.
MachineInit ==
    /\ program \in DOMAIN Programs
    /\ functions = Programs[program]
    /\ status = IF functions = <<>> THEN "compile error" ELSE "running"
    /\ stack = <<<<"fn", Len(functions), <<>>>>>>
    /\ top = 1
    /\ frames = <<[closure |-> stack[1], ip |-> 0, slots |-> 0]>>
    /\ globals = [x \in {"print"} |-> <<"print", 0>>]
    /\ objs = <<>> /\ open = <<>> /\ out = <<>>

MachineNext ==
    \/ op_constant \/ op_binary \/ op_unary \/ op_pop
    \/ op_get_local \/ op_set_local \/ op_get_global \/ op_set_global
    \/ op_get_upvalue \/ op_set_upvalue \/ op_close_upvalue
    \/ op_jump \/ op_call \/ op_return \/ op_closure
    \/ op_new_list \/ op_new_map \/ op_get_index \/ op_set_index
    \/ op_iter_init \/ op_iter_next

MachineSpec == MachineInit /\ [][MachineNext]_MachineVars
=============================================================================
