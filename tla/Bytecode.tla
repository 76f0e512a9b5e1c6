------------------------------ MODULE Bytecode ------------------------------
(***************************************************************************)
(* A compiled project in one file: `vek build' collects the functions of   *)
(* app.ve and of the routes and the files of public/ (cmd_build.c), writes *)
(* them as bytes (vebc_writer.c), and `vek run' loads the entry function   *)
(* (vebc_loader.c).  A float stands for its eight bytes.  A digest is the  *)
(* text it was made from, so no two texts share one.                       *)
(***************************************************************************)
EXTENDS Integers, Sequences, SequencesExt, Text

CONSTANTS MaxStrings, MaxConstants, MaxFunctions, MaxAssets

NoName == <<>>
ScriptName == <<60, 115, 62>>
NilConstant == <<"nil", 0>>
Function(name, arity, upvalues, code, lines, constants) ==
    [name |-> name, arity |-> arity, upvalue_count |-> upvalues, code |-> code,
     lines |-> lines, constants |-> constants]

(* Collecting *)

vebc_builder_init == [strings |-> <<>>, constants |-> <<>>, functions |-> <<>>,
                      instructions |-> <<>>, line_entries |-> <<>>, assets |-> <<>>]
\* Strings are kept once; beyond the limit the first one stands for the rest.
add_string(b, s) ==
    IF s \in Range(b.strings) \/ Len(b.strings) >= MaxStrings THEN b
    ELSE [b EXCEPT !.strings = Append(@, s)]
string_index(b, s) ==
    IF s \in Range(b.strings) THEN (CHOOSE i \in DOMAIN b.strings : b.strings[i] = s) - 1 ELSE 0
\* One entry per run of instructions with the same line.
Changes(lines) == SelectSeq([i \in DOMAIN lines |-> <<i - 1, lines[i]>>],
                            LAMBDA e : e[1] = 0 \/ lines[e[1]] # e[2])
\* Constants of other types are skipped; a function is kept as the index of
\* the function that contains it.
add_constant(b, v) ==
    LET more == IF v[1] = "string" THEN add_string(b, v[2]) ELSE b
        c == IF v[1] = "string" THEN <<"string", string_index(more, v[2])>>
             ELSE IF v[1] = "function" THEN <<"func_ref", Len(b.functions)>> ELSE v
    IN  IF v[1] \notin {"int", "float", "string", "function", "bytes"} \/ Len(b.constants) >= MaxConstants THEN b
        ELSE [more EXCEPT !.constants = Append(@, c)]
vebc_builder_add_function(b, fn) ==
    LET name == IF fn.name = NoName THEN ScriptName ELSE fn.name
        named == add_string(b, name)
        entry == [name_idx |-> string_index(named, name), num_params |-> fn.arity,
                  num_upvalues |-> fn.upvalue_count, num_regs |-> fn.arity + 16,
                  code_offset |-> Len(b.instructions), code_length |-> Len(fn.code),
                  line_offset |-> Len(b.line_entries), line_length |-> Len(Changes(fn.lines))]
        body == [named EXCEPT !.instructions = @ \o fn.code, !.line_entries = @ \o Changes(fn.lines)]
    IN  IF Len(b.functions) >= MaxFunctions THEN b
        ELSE [FoldLeft(add_constant, body, fn.constants) EXCEPT !.functions = Append(@, entry)]
vebc_builder_add_asset(b, asset) ==
    LET named == add_string(b, asset.path) IN
    IF Len(b.assets) >= MaxAssets THEN b
    ELSE [named EXCEPT !.assets = Append(@, [path_idx |-> string_index(named, asset.path), data |-> asset.data])]

(* Writing *)

Bytes(n, width) == [i \in 1 .. width |-> (n \div 256 ^ (i - 1)) % 256]
U32(n) == Bytes(n, 4)
\* The writer keeps eight bytes, the upper four all ones below zero.
I64(n) == Bytes(n, 4) \o [i \in 1 .. 4 |-> IF n < 0 THEN 255 ELSE 0]
Sized(s) == U32(Len(s)) \o s
write_constant(c) ==
    CASE c[1] = "int" -> <<1>> \o I64(c[2])
      [] c[1] = "float" -> <<2>> \o I64(c[2])
      [] c[1] = "string" -> <<3>> \o U32(c[2])
      [] c[1] = "bytes" -> <<4>> \o Sized(c[2])
      [] c[1] = "func_ref" -> <<5>> \o U32(c[2])
write_function(f) ==
    U32(f.name_idx) \o Bytes(f.num_regs, 2) \o <<f.num_params, f.num_upvalues>>
    \o U32(f.code_offset) \o U32(f.code_length) \o U32(f.line_offset) \o U32(f.line_length)
Table(entries, Write(_)) ==
    U32(Len(entries)) \o FlattenSeq([i \in DOMAIN entries |-> Write(entries[i])])
\* Everything after the header; no upvalue is ever collected.
write_entry(e) == U32(e[1]) \o U32(e[2])
write_asset(a) == U32(a.path_idx) \o Sized(a.data)
Payload(b) ==
    Table(b.constants, write_constant) \o Table(b.strings, Sized) \o Table(b.functions, write_function)
    \o U32(0) \o Sized(b.instructions) \o Table(b.line_entries, write_entry) \o Table(b.assets, write_asset)
\* The size that is computed beforehand, and allocated.
RECURSIVE Sum_of(_)
Sum_of(sizes) == IF sizes = <<>> THEN 0 ELSE Head(sizes) + Sum_of(Tail(sizes))
ConstantSize(c) == 1 + (IF c[1] \in {"int", "float"} THEN 8 ELSE IF c[1] = "bytes" THEN 4 + Len(c[2]) ELSE 4)
SizeOf(b) ==
    64 + 4 + 4 + 4 + Len(b.functions) * 24 + 4 + 4 + Len(b.instructions) + 4 + Len(b.line_entries) * 8 + 4
    + Sum_of([i \in DOMAIN b.constants |-> ConstantSize(b.constants[i])])
    + Sum_of([i \in DOMAIN b.strings |-> 4 + Len(b.strings[i])])
    + Sum_of([i \in DOMAIN b.assets |-> 4 + 4 + Len(b.assets[i].data)])
sha256(bytes) == <<"sha256", bytes>>
vebc_builder_write(b) == [sha256 |-> sha256(Payload(b)), bytes |-> Payload(b)]

(* Loading *)

Value(bytes) == FoldRight(LAMBDA byte, n : 256 * n + byte, bytes, 0)
U32At(data, at) == Value(Cut(data, at, at + 3)) + 256 ^ 3 * (data[at + 3] % 128)
I64At(data, at) == IF data[at + 7] = 255 THEN U32At(data, at) - 2147483647 - 1 ELSE U32At(data, at)
Fits(data, at, n) == at + n - 1 <= Len(data)
\* The size of one entry of a table, or 0 if it is cut short.
EntrySize(data, at, kind) ==
    LET size == CASE kind = "constants" ->
                       (CASE data[at] \in {1, 2} -> 9
                          [] data[at] \in {3, 5} -> 5
                          [] data[at] = 4 -> IF Fits(data, at + 1, 4) THEN 5 + U32At(data, at + 1) ELSE 5)
                  [] kind = "strings" -> IF Fits(data, at, 4) THEN 4 + U32At(data, at) ELSE 4
                  [] kind = "functions" -> 24
                  [] kind = "upvalues" -> 6
                  [] kind = "instructions" -> 1
                  [] kind = "lines" -> 8
    IN  IF ~Fits(data, at, 1) THEN 0 ELSE IF Fits(data, at, size) THEN size ELSE 0
\* Where the n entries from a position start and end; <<>> if one is cut short.
RECURSIVE Entries(_, _, _, _)
Entries(data, at, n, kind) ==
    IF n = 0 THEN <<at>>
    ELSE IF EntrySize(data, at, kind) = 0 THEN <<>>
    ELSE LET rest == Entries(data, at + EntrySize(data, at, kind), n - 1, kind)
         IN  IF rest = <<>> THEN <<>> ELSE <<at>> \o rest
\* A table is its number of entries and the entries.
Section(data, before, kind) ==
    IF before = <<>> \/ ~Fits(data, Last(before), 4) THEN <<>>
    ELSE Entries(data, Last(before) + 4, U32At(data, Last(before)), kind)
Truncated == [ok |-> FALSE]
Kinds == <<"constants", "strings", "functions", "upvalues", "instructions", "lines">>
\* The sections, each from where the one before it ends.
Sections(data) ==
    FoldLeft(LAMBDA sections, kind : Append(sections, Section(data, Last(sections), kind)), <<<<1>>>>, Kinds)
Sectioned(data, s) ==
    IF s[7] = <<>> \/ ~Fits(data, Last(s[7]), 4) THEN Truncated
    ELSE [ok |-> TRUE, data |-> data, constants |-> Front(s[2]), strings |-> Front(s[3]),
          functions |-> Front(s[4]), instructions |-> Front(s[6]), lines |-> Front(s[7])]
vebc_load(file) == Sectioned(file.bytes, Sections(file.bytes))
vebc_verify(file) == file.sha256 = sha256(file.bytes)

StringAt(vf, index) ==
    LET at == vf.strings[index + 1] IN SubSeq(vf.data, at + 4, at + 3 + U32At(vf.data, at))
\* References to functions are not resolved.
ConstantAt(vf, at) ==
    CASE vf.data[at] = 1 -> <<"int", I64At(vf.data, at + 1)>>
      [] vf.data[at] = 2 -> <<"float", I64At(vf.data, at + 1)>>
      [] vf.data[at] = 3 -> <<"string", StringAt(vf, U32At(vf.data, at + 1))>>
      [] vf.data[at] = 4 -> <<"bytes", SubSeq(vf.data, at + 5, at + 4 + U32At(vf.data, at + 1))>>
      [] OTHER -> NilConstant
\* The line of an instruction: that of the last entry at or before it.
LineAt(vf, offset, length, i) ==
    LET entries == {e \in offset + 1 .. offset + length : U32At(vf.data, vf.lines[e]) <= i} IN
    IF entries = {} THEN 1
    ELSE U32At(vf.data, vf.lines[CHOOSE e \in entries : \A f \in entries : f <= e] + 4)
\* Only the first function is made again, with the constants of all of them.
vebc_to_function(vf) ==
    LET at == vf.functions[1]
        offset == U32At(vf.data, at + 8)
        length == U32At(vf.data, at + 12)
    IN  Function(StringAt(vf, U32At(vf.data, at)), vf.data[at + 6], vf.data[at + 7],
                 [i \in 1 .. length |-> vf.data[vf.instructions[offset + i]]],
                 [i \in 1 .. length |-> LineAt(vf, U32At(vf.data, at + 16), U32At(vf.data, at + 20), i - 1)],
                 [i \in DOMAIN vf.constants |-> ConstantAt(vf, vf.constants[i])])

(* Building and running *)

\* The files are app.ve and the routes; nothing is written when one of them
\* does not compile.
Broken == "broken"
Collected(files, assets) ==
    FoldLeft(vebc_builder_add_asset,
        FoldLeft(vebc_builder_add_function, vebc_builder_init, [i \in DOMAIN files |-> files[i].fn]), assets)
cmd_build_run(files, assets) ==
    IF Broken \in {files[i].is : i \in DOMAIN files} THEN [is |-> "none"]
    ELSE [is |-> "file", file |-> vebc_builder_write(Collected(files, assets))]
RunLoaded(file, vf) ==
    IF ~vf.ok \/ ~vebc_verify(file) \/ vf.functions = <<>> THEN [is |-> "error"]
    ELSE [is |-> "run", fn |-> vebc_to_function(vf)]
run_vebc_file(file) == RunLoaded(file, vebc_load(file))

(* Laws *)

\* What a constant of the entry function is after loading: a function has no
\* form in the file, although BYTECODE_SPEC.md:63 gives it one (CONST_FUNC_REF).
Loaded(v) == IF v[1] = "function" THEN NilConstant ELSE v
\* The built file runs the entry function: its name, code, lines and, up to
\* the limit and except functions, its constants; whatever the other files
\* and assets are.  The size computed for the file is the number of bytes
\* written, and a file that lost its end or a byte is not run.
RunsEntry(entry, ran, kept) ==
    /\ ran.is = "run"
    /\ ran.fn = [entry EXCEPT !.name = IF @ = NoName THEN ScriptName ELSE @, !.constants = ran.fn.constants]
    /\ Len(kept) <= Len(ran.fn.constants)
    /\ \A i \in DOMAIN kept : ran.fn.constants[i] = Loaded(kept[i])
BuiltLaw(entry, assets, b, file) ==
    /\ SizeOf(b) = 64 + Len(file.bytes)
    /\ RunsEntry(entry, run_vebc_file(file), Upto(entry.constants, MaxConstants))
    /\ \A k \in 0 .. Len(file.bytes) - 1 : \A short \in {[file EXCEPT !.bytes = Upto(@, k)]} :
          RunLoaded(short, vebc_load(short)).is = "error" /\ (assets = <<>> => ~vebc_load(short).ok)
    /\ run_vebc_file([file EXCEPT !.bytes[Len(file.bytes)] = (@ + 1) % 256]).is = "error"
BuildLaw(files, assets) ==
    LET built == cmd_build_run(files, assets) IN
    built.is = "file" => BuiltLaw(files[1].fn, assets, Collected(files, assets), built.file)
=============================================================================
