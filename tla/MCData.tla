-------------------------------- MODULE MCData --------------------------------
(***************************************************************************)
(* Data: the maps of the language, as a state machine, the functions of    *)
(* the library, on samples, and programs of the language, compiled and     *)
(* run.  `live' says which of the three a behaviour is about; a sample     *)
(* <<law, arguments>> is chosen at the start, and nothing may change it.   *)
(***************************************************************************)
EXTENDS ObjMap, MethodLaws, MCLanguage, TLC

CONSTANTS MaxChildren, MaxParams, MaxSegment,                  \* Router
          MaxStrings, MaxConstants, MaxFunctions, MaxAssets,   \* Bytecode
          MaxBlock, MAX_COLUMNS,                               \* Compression, Columns
          Exceptions    \* for each property of the library, the samples that break it

ASSUME LanguageLimits ==
    /\ MaxLocals \in Nat \ {0} /\ {STACK_MAX, FRAMES_MAX, MaxDepth} \subseteq Nat
    /\ FreshBinding \in BOOLEAN

VARIABLE live

dataVars == <<live, sample, vars, MachineVars>>

Web == INSTANCE Messages
Code == INSTANCE Encodings
Vebc == INSTANCE Bytecode
Fmt == INSTANCE Formatter
Html == INSTANCE Pages
Gzip == INSTANCE Compression
Sql == INSTANCE Columns

\* Strings are given by their hash codes.  In a table of four slots 0 and 8
\* collide, 7 and 15 collide and wrap around; in one of eight they still do.
HashIsName == [k \in Keys |-> k]

\* Values are only stored and returned.
Symmetry == Permutations(Values)

(* Samples: characters are codes for Methods, Encodings and Bytecode, and   *)
(* strings of one character, or a token, for the others.                   *)

Str(s) == <<"string", s>>

Strings == {<<>>, <<97>>, <<32, 97>>, <<97, 97, 97>>, <<66, 32, 98, 32>>, <<97, 0, 98, 97>>,
            <<97, 98, 97, 98, 97>>}
Scalars == {NilValue, I(0), I(-2), <<"float", 1>>, <<"bool", FALSE>>, <<"bool", TRUE>>,
            Str(<<>>), Str(<<97>>), Str(<<97, 98>>), <<"list", <<>>>>}
Lists == {<<>>} \cup {<<a, b>> : a, b \in Scalars} \cup {<<I(3), a, Str(<<97>>), I(3)>> : a \in Scalars}

MethodSamples ==
    ({"text"} \X Strings \X {<<>>, <<97>>, <<97, 97>>, <<97, 98, 97>>, <<32>>} \X {<<>>, <<97, 98>>})
    \cup ({"slice"} \X Strings \X (-4 .. 4) \X {-12, -1, 0, 3, 99, 107, 201})
    \cup ({"list"} \X Lists \X (-3 .. 4) \X {I(1)})
    \cup ({"order"} \X Scalars \X Scalars \X Scalars)

ASSUME SamplesAreInputs == MethodSamples \subseteq MethodInputs

Escaped == {Str(s) : s \in {<<>>, <<34>>, <<92, 110>>, <<10, 97, 92>>, <<1, 31, 47, 91>>,
                            <<117, 48, 233>>, <<93, 44>>, <<125, 58>>}}
Leaves == {NilValue, <<"bool", TRUE>>, I(0), I(-12), I(305), <<"float", 5>>, <<"float", -1>>, <<"float", 4>>}
          \cup Escaped
MapValues == {<<>>} \cup {(<<97>> :> v) @@ (k :> w) :
            k \in {<<34, 44>>, <<>>}, v \in Leaves, w \in {Str(<<34>>), <<"list", <<I(1)>>>>}}
Nested == Leaves \cup {<<"list", <<v, w>>>> :
                        v \in Leaves, w \in {I(7), <<"list", <<>>>>, <<"map", <<>>>>, <<"other", 0>>}}
          \cup {<<"map", m>> : m \in MapValues}
Bytes(n) == [i \in 1 .. n |-> (i * 37) % 256]

FunctionSamples ==
    LET constants == {I(0), I(-2), I(70000), <<"float", 5>>, Str(<<>>), Str(Vebc!ScriptName),
                      <<"bytes", <<1, 2>>>>, <<"function", 1>>}
    IN  {Vebc!Function(<<97>>, 2, 1, <<1, 200, 3>>, <<7, 7, 300>>,
            <<<<"function", 1>>, Str(<<97>>), I(1), Str(<<98>>)>>)}
        \cup {Vebc!Function(Vebc!NoName, 0, 0, <<9, 8>>, <<2, 1>>, <<a, b>>) : a, b \in constants}
Ok(f) == [is |-> "ok", fn |-> f]
OtherFiles == {<<>>, <<Ok(Vebc!Function(Vebc!NoName, 0, 0, <<5>>, <<1>>, <<Str(<<98>>), I(3)>>))>>,
               <<[is |-> Vebc!Broken]>>}
AssetSamples == {<<>>, <<[path |-> <<97>>, data |-> <<1, 2, 3>>], [path |-> <<47>>, data |-> <<>>]>>}

\* Programs for the formatter: lines of words, and what stands between words,
\* before lines and between lines.
X == <<"x">>
AssignLine == <<X, <<"=">>, <<"-">>, <<"1">>, <<"+">>, <<"(">>, <<"y">>, <<"*">>, <<"2">>, <<")">> >>
CallLine == << <<"f">>, <<"(">>, X, <<",">>, <<"\"", "a", " ", " ", "#", "\"">>, <<")">>, <<".">>, <<"y">> >>
LiteralLine == <<X, <<"=">>, <<"{">>, <<"k">>, <<":">>, <<"[">>, <<":", "s">>, <<",">>, <<"-">>, <<"1">>, <<"]">>, <<"}">> >>
IfLine == << <<"i", "f">>, <<"n", "o", "t">>, X, <<"=", "=">>, <<"1">> >>
FnLine == << <<"f", "n">>, <<"g">>, <<"(">>, X, <<")">> >>
ElseLine == << <<"e", "l", "s", "e">> >>
EndLine == << <<"e", "n", "d">> >>
Formatted ==
    {<<a, b>> : a, b \in {AssignLine, CallLine, LiteralLine}}
    \cup {<<IfLine, a, ElseLine, FnLine, b, EndLine, EndLine, CallLine>> : a, b \in {AssignLine, LiteralLine}}
    \cup {<<FnLine, IfLine, a, EndLine, EndLine, FnLine, EndLine, b>> : a, b \in {CallLine, LiteralLine}}
Spread(words, gap) == FlattenSeq([i \in DOMAIN words |-> words[i] \o gap])
Source(lines, gap, before, after) ==
    FlattenSeq([i \in DOMAIN lines |-> before \o Spread(lines[i], gap) \o after])
Betweens == {<<"\n">>, <<"\n", " ", "\n">>, <<"\n", "\n", "\t", "\n", "\n">>, <<"\n", " ", "#", " ", "c", " ", "\n">>,
             <<" ", "#", "\"", "c", " ", "\n">>}
FormatSamples == {"format"} \X Formatted \X {<<" ">>, <<" ", "\t", " ">>} \X {<<>>, <<" ", " ", " ">>} \X Betweens

\* Pages, markup, forms and paths.
Markup == UNION {[1 .. n -> {60, 62, 97, 47, 34}] : n \in 0 .. 4}
          \cup {<<60, 97, 32, 97, 61, 34, 62, 34, 62>>, <<60, 98, 60, 97, 62, 47>>, <<60, 60, 65, 47, 97, 32, 62>>}
Element(name, attrs, inside) == [is |-> "tag", name |-> name, attrs |-> attrs, inside |-> inside]
Words(s) == [is |-> "text", s |-> s]
Texts == {<<>>, <<60, 98, 62>>, <<38, 108, 116, 59>>, <<34, 39, 62>>}
PageTexts ==
    {<<Element(<<97>>, attrs, <<Words(t), Element(<<98, 114>>, <<>>, <<>>), Element(<<98>>, <<>>, <<Words(u)>>)>>),
       Words(u)>> : t, u \in Texts,
     attrs \in {<<>>} \cup {(<<99>> :> Str(v)) @@ (<<100>> :> w) : v \in Texts, w \in {I(3), NilValue}}}
FormFields == {<<>>} \cup
    {<<<<a, v>>, <<b, w>>>> : a, b \in {<<97>>, <<38, 61>>},
        v \in {<<97, 64, 98, 46, 99>>, <<45, 49, 50>>, <<49, 37, 50>>, <<97, 64, 98, 64, 46, 99>>},
        w \in {<<>>, <<32, 43, 233>>, <<64, 46, 97>>, <<97, 46, 98, 64, 46, 99>>}}
Rules == [required : BOOLEAN, min : {0, 2}, max : {2, 100}, type : {"none", "int", "email"}]
Steps(n) == UNION {[1 .. k -> {97, 47}] : k \in 0 .. n}
PageSamples ==
    ({"page"} \X PageTexts \X {{}, {<<97>>}, {<<97>>, <<98>>, <<98, 114>>}} \X {<<>>, <<97>> :> {<<99>>}})
    \cup ({"markup"} \X Markup \X {{}, {<<97>>}})
    \cup ({"flash"} \X Texts \X Texts)
    \cup ({"form"} \X FormFields \X Rules)
    \cup ({"path"} \X Steps(4) \X Steps(2) \X Steps(1))
    \cup ({"rows"} \X {<<>>, <<"a", "b">>, <<"a", "a", "b", "c">>, <<"b", "a", "c", "b">>}
           \X ({<<>>} \cup {<<<<a, b, a, I(5)>>, <<b, b, I(6), a>>>> : a, b \in Scalars}))
    \cup ({"gzip"} \X {Bytes(n) : n \in {0, 1, 3, 4, 7}} \X {<<>>, <<0, 0>>}
           \X {<<>>, <<103, 122, 105, 112>>, <<120, 44, 103, 122, 105, 112, 59>>, <<103, 122>>})

EncodingSamples ==
    ({"json"} \X Nested \X {<<>>, <<32, 10>>})
    \cup ({"session", "job"} \X (MapValues \cup {<<97>> :> <<"map", m>> : m \in MapValues}))
    \cup ({"frame"} \X {Bytes(n) : n \in {0, 1, 125, 126, 300}} \X {0, 9} \X {<<1, 255, 128, 7>>}
          \X {<<>>, <<129, 0>>})
    \cup {<<"frame", Bytes(65536), 1, <<1, 255, 128, 7>>, <<>>>>}
    \cup {<<"base64", Bytes(n)>> : n \in 0 .. 8}
    \cup ({"build"} \X FunctionSamples \X OtherFiles \X AssetSamples)
    \cup FormatSamples
    \cup PageSamples

Urls == {<<"http", "://", "h", ":", "80", "/", "a", "?", "b", "?">>,
         <<"http", "://", "h", "/", "a", "/", "c", "/">>, <<"http", "://", "h">>}
Request == <<"GET", " ", "/", " ", "HTTP/", Web!CRLF, Web!CRLF>>
WebBodies == {<<>>, <<Web!CRLF, Web!CRLF, "x", ":">>, Request}
Extras == {<<>>, ("X-A" :> <<>>) @@ ("Content-Type" :> <<"a", ":", " ">>)}
Post(path, h) == [path |-> path, method |-> <<"POST">>, handler |-> h]
Routes == {<<Post(<<"/">>, "h1"), Post(<<"/", ":", "x">>, "h2"), Post(<<"/", "a", "/", ":", "y">>, "h1")>>,
           <<Post(<<"/", ":", "y", "/", ":", "y">>, "h1"), Post(<<"/", "a">>, "h2")>>}
Answers ==
    {("h1" :> [is |-> "map", status |-> 200, type |-> "t", body |-> b]) @@ ("h2" :> a) :
        b \in WebBodies,
        a \in {[is |-> "failure"], [is |-> "other"], [is |-> "text", body |-> <<"x", Web!CRLF, Web!CRLF, "y">>],
               Web!native_server_json(<<"{", "}">>, 404)}}

Patterns == <<<<"/", "a">>, <<"/", ":", "x">>, <<"/", ":", "y">>, <<"/", "a", "/", "b">>,
              <<"/", "a", "/", ":", "x">>, <<"/", ":", "x", "/", "b">>, <<"/", ":", "y", "/", ":", "x">>,
              <<"/", ":", "x", "/", "b", "/", ":", "y">>>>
Paths == {<<"/">>, <<"/", "a", "/", "b">>, <<"/", "b">>, <<"/", "a", "/", "/", "b">>, <<"/", "b", "/", "a">>,
          <<"/", "a", "/", "b", "/", "a">>}
Route(i, method, h) == [path |-> Patterns[i], method |-> method, handler |-> h]

ExchangeSamples ==
    ({"request"} \X {"PUT"} \X Urls \X WebBodies \X Extras \X {<<>>, Request})
    \cup ({"response"} \X Routes \X Answers \X Urls \X {<<>>, <<"x">>} \X {1, 7})
    \cup {<<"chunks", s[1], s[2]>> : s \in {<<<<>>, <<>>>>, <<<<"chunked", "4">>, <<2>>>>,
             <<<<Web!CRLF, Web!CRLF, "x", ":">>, <<1, 3>>>>, <<Request, <<2, 2, 2, 1>>>>}}
    \cup {<<"route", <<Route(i, "GET", "h1"), Route(j, "GET", "h2"), Route(k, method, "h3")>>, "GET", path>> :
             i, j, k \in DOMAIN Patterns, method \in {"GET", "PUT"}, path \in Paths}

-----------------------------------------------------------------------------
EncodingLaw(s) ==
    CASE s[1] = "json" -> Code!JsonLaw(s[2], s[3])
      [] s[1] = "session" -> Code!SessionLaw(s[2])
      [] s[1] = "job" -> Code!JobLaw(s[2])
      [] s[1] = "page" -> Html!PageLaw(s[2], s[3], s[4])
      [] s[1] = "markup" -> Html!MarkupLaw(s[2], s[3])
      [] s[1] = "flash" -> Html!FlashLaw(s[2], s[3])
      [] s[1] = "form" -> Html!FormLaw(s[2], s[3])
      [] s[1] = "path" -> Html!PathLaw(s[2], s[3], s[4])
      [] s[1] = "rows" -> Sql!RowsLaw(s[2], s[3])
      [] s[1] = "gzip" -> Gzip!CompressionLaw(s[2], s[3], s[4])
      [] s[1] = "base64" -> Code!Base64Law(s[2])
      [] s[1] = "frame" -> Code!FrameLaw(s[2], s[3], s[4], s[5], {0, 1, 2, 3, 5, 9, 13})
      [] s[1] = "build" -> Vebc!BuildLaw(<<Ok(s[2])>> \o s[3], s[4])
      [] s[1] = "format" -> Fmt!FormatLaw(Source(s[2], s[3], s[4], s[5]))
ExchangeLaw(s) ==
    CASE s[1] = "request" -> Web!RequestLaw(s[2], s[3], s[4], s[5], s[6])
      [] s[1] = "response" -> Web!ResponseLaw(s[2], s[3], s[4], s[5], s[6])
      [] s[1] = "chunks" -> Web!ChunksLaw(s[2], s[3])
      [] s[1] = "route" -> Web!RouteLaw(s[2], s[3], s[4])

MCExceptions ==
    [encodings |-> {s \in EncodingSamples : ~EncodingLaw(s)},
     exchanges |-> {s \in ExchangeSamples : ~ExchangeLaw(s)}]

-----------------------------------------------------------------------------
NoProgram ==
    /\ program = <<"none">> /\ functions = <<>> /\ status = "ok"
    /\ stack = <<>> /\ top = 0 /\ frames = <<>> /\ globals = <<>>
    /\ objs = <<>> /\ open = <<>> /\ out = <<>>

DataInit ==
    /\ Init
    /\ \/ live = "map" /\ sample = <<>> /\ NoProgram
       \/ live = "library" /\ sample \in MethodSamples \cup EncodingSamples \cup ExchangeSamples /\ NoProgram
       \/ live = "language" /\ sample = <<>> /\ MachineInit

DataNext ==
    \/ live = "map" /\ Next /\ UNCHANGED <<live, sample, MachineVars>>
    \/ live = "language" /\ MachineNext /\ UNCHANGED <<live, sample, vars>>

DataSpec == DataInit /\ [][DataNext]_dataVars

-----------------------------------------------------------------------------
(* Properties.                                                             *)

\* What one part of the program writes, the part that reads it gets back: JSON,
\* the cookie of a session, the arguments of a job, the frames of a WebSocket,
\* the file of vek build, pages and forms, compressed bodies and the rows of a
\* query; nothing that is cut short is read as whole.  A program that vek fmt
\* wrote has the tokens and the comments on lines of their own that it had, and
\* stays as it is; it has none of the comments that followed code, and vek fmt
\* has warned of just these.  Of a file of vek build the functions inside
\* functions are not read back: they are nil, which is what vebc.c does with
\* them and not what BYTECODE_SPEC says (Bytecode, Loaded).
ReadBack == sample \notin Exceptions.encodings

\* A request of the client reaches the handler that its route means, with its
\* headers and its body, and the answer comes back, however the network cuts it.
ExchangeKept == sample \notin Exceptions.exchanges
=============================================================================
