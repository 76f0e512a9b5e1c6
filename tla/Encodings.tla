----------------------------- MODULE Encodings ------------------------------
(***************************************************************************)
(* How values are written and read back: JSON (stdlib_json.c), the signed  *)
(* cookie of a session (stdlib_session.c) and the arguments of a job       *)
(* (stdlib_jobs.c), over texts of bytes.  A floating-point number is       *)
(* counted in halves; exponents are left out.  A map is a function.        *)
(***************************************************************************)
EXTENDS Methods, Frames, TLC

Quote == 34
Backslash == 92
Comma == 44
Colon == 58
Dot == 46
Minus == 45
NoText == <<>>
True == <<116, 114, 117, 101>>
False == <<102, 97, 108, 115, 101>>
Null == <<110, 117, 108, 108>>
White == {32, 9, 10, 13}
Blank(p, i) == Skip(p, i, White)
\* The character after a backslash, and the one it stands for.
Escaped == <<<<Quote, Quote>>, <<Backslash, Backslash>>, <<110, 10>>, <<114, 13>>, <<116, 9>>>>
Code(c) == CHOOSE e \in Range(Escaped) : e[2] = c
Meaning_itself(pairs, c) == c
Meaning(pairs, c) ==
    IF \E i \in DOMAIN pairs : pairs[i][1] = c THEN (CHOOSE e \in Range(pairs) : e[1] = c)[2] ELSE c
Hex(n) == IF n < 10 THEN 48 + n ELSE 87 + n
Floating(v) == (IF v[2] < 0 THEN <<Minus>> ELSE <<>>)
    \o LET n == IF v[2] < 0 THEN -v[2] ELSE v[2] IN
       Digits(n \div 2) \o (IF n % 2 = 1 THEN <<Dot, 53>> ELSE <<>>)
KeysOf(m) == SetToSeq(DOMAIN m)
\* What is between the brackets: the parts, with a comma between two.
Listed(parts) == Joined(parts, <<Comma>>)

(* JSON *)

json_encode_string(s) ==
    <<Quote>> \o FlattenSeq([i \in DOMAIN s |->
        IF \E e \in Range(Escaped) : e[2] = s[i] THEN <<Backslash, Code(s[i])[1]>>
        ELSE IF s[i] < 32 THEN <<Backslash, 117, 48, 48, Hex(s[i] \div 16), Hex(s[i] % 16)>>
        ELSE <<s[i]>>]) \o <<Quote>>
RECURSIVE json_encode_value(_)
json_encode_value(v) ==
    CASE v[1] = "bool" -> IF v[2] THEN True ELSE False
      [] v[1] = "int" -> value_to_string(v)
      [] v[1] = "float" -> Floating(v)
      [] v[1] = "string" -> json_encode_string(v[2])
      [] v[1] = "list" -> <<91>> \o Listed([i \in DOMAIN v[2] |-> json_encode_value(v[2][i])]) \o <<93>>
      [] v[1] = "map" ->
            <<123>> \o Listed([i \in DOMAIN KeysOf(v[2]) |->
                json_encode_string(KeysOf(v[2])[i]) \o <<Colon>> \o json_encode_value(v[2][KeysOf(v[2])[i]])])
            \o <<125>>
      [] OTHER -> Null

\* A parser returns what it has read and the position after it, or Wrong.
Read(v, i) == [ok |-> TRUE, v |-> v, at |-> i]
Wrong == [ok |-> FALSE, v |-> NilValue, at |-> 0]
HexDigit(c) == IF c \in Digit THEN c - 48 ELSE IF c \in 97 .. 102 THEN c - 87
               ELSE IF c \in 65 .. 70 THEN c - 55 ELSE -1
UTF8(cp) ==
    IF cp < 128 THEN <<cp>>
    ELSE IF cp < 2048 THEN <<192 + cp \div 64, 128 + (cp % 64)>>
    ELSE <<224 + cp \div 4096, 128 + ((cp \div 64) % 64), 128 + (cp % 64)>>
Unescaped == Escaped \o <<<<98, 8>>, <<102, 12>>>>
RECURSIVE StringFrom(_, _, _)
StringFrom(p, i, read) ==
    LET four == IF i + 5 <= Len(p) THEN [k \in 1 .. 4 |-> HexDigit(p[i + 1 + k])] ELSE <<-1>>
        cp == FoldLeft(LAMBDA n, d : 16 * n + d, 0, four)
    IN  IF i > Len(p) THEN Wrong
        ELSE IF p[i] = Quote THEN Read(<<"string", read>>, i + 1)
        ELSE IF p[i] # Backslash THEN StringFrom(p, i + 1, Append(read, p[i]))
        ELSE IF i = Len(p) THEN Wrong
        ELSE IF p[i + 1] # 117 THEN StringFrom(p, i + 2, Append(read, Meaning(Unescaped, p[i + 1])))
        ELSE IF -1 \in Range(four) THEN Wrong
        ELSE StringFrom(p, i + 6, read \o UTF8(cp))
json_parse_string(p, i) == IF CodeAt(p, i) # Quote THEN Wrong ELSE StringFrom(p, i + 1, NoText)
json_parse_number(p, i) ==
    LET start == IF CodeAt(p, i) = Minus THEN i + 1 ELSE i
        whole == Skip(p, start, Digit)
        fraction == IF CodeAt(p, whole) = Dot THEN Skip(p, whole + 1, Digit) ELSE whole
        sign == IF start = i THEN 1 ELSE -1
        halves == 2 * Number(Cut(p, start, whole))
                    + (IF CodeAt(p, whole + 1) = 53 /\ fraction > whole THEN 1 ELSE 0)
    IN  Read(IF fraction > whole THEN <<"float", sign * halves>>
             ELSE IntValue(sign * Number(Cut(p, start, whole))), fraction)
Word(p, i, word, v) == IF IsAt(word, p, i) THEN Read(v, i + Len(word)) ELSE Wrong

RECURSIVE json_parse_value(_, _), json_parse_array(_, _, _), json_parse_object(_, _, _),
          Element(_, _, _), Field(_, _, _, _)
\* After an element: the end of the list, or another element.
Element(p, item, list) ==
    LET next == Blank(p, item.at) IN
    CASE ~item.ok -> Wrong
      [] CodeAt(p, next) = 93 -> Read(<<"list", Append(list, item.v)>>, next + 1)
      [] CodeAt(p, next) = Comma -> json_parse_array(p, next + 1, Append(list, item.v))
      [] OTHER -> Wrong
json_parse_array(p, i, list) == Element(p, json_parse_value(p, i), list)
Field(p, key, item, map) ==
    LET next == Blank(p, item.at)
        more == (key :> item.v) @@ map
    IN  CASE ~item.ok -> Wrong
          [] CodeAt(p, next) = 125 -> Read(<<"map", more>>, next + 1)
          [] CodeAt(p, next) = Comma -> json_parse_object(p, next + 1, more)
          [] OTHER -> Wrong
json_parse_object(p, i, map) ==
    LET key == json_parse_string(p, Blank(p, i))
        colon == Blank(p, key.at)
    IN  IF ~key.ok THEN Wrong
        ELSE IF CodeAt(p, colon) # Colon THEN Wrong
        ELSE Field(p, key.v[2], json_parse_value(p, colon + 1), map)
json_parse_value(p, j) ==
    LET i == Blank(p, j)
        c == CodeAt(p, i)
        first == CodeAt(p, Blank(p, i + 1))
    IN  IF i > Len(p) THEN Wrong
        ELSE CASE c = Quote -> json_parse_string(p, i)
               [] c = 91 -> IF first = 93 THEN Read(<<"list", NoText>>, Blank(p, i + 1) + 1)
                            ELSE json_parse_array(p, i + 1, NoText)
               [] c = 123 -> IF first = 125 THEN Read(<<"map", NoText>>, Blank(p, i + 1) + 1)
                             ELSE json_parse_object(p, i + 1, NoText)
               [] c = 116 -> Word(p, i, True, <<"bool", TRUE>>)
               [] c = 102 -> Word(p, i, False, <<"bool", FALSE>>)
               [] c = 110 -> Word(p, i, Null, NilValue)
               [] c \in Digit \cup {Minus} -> json_parse_number(p, i)
               [] OTHER -> Wrong
native_json_decode(p) == json_parse_value(p, 1).v

\* What a value is after it has been written and read: a float without a
\* fraction is written like an integer, a function or a bytes object as null.
RECURSIVE Kept(_)
Kept(v) ==
    CASE v[1] = "float" -> IF v[2] % 2 = 0 THEN IntValue(v[2] \div 2) ELSE v
      [] v[1] = "list" -> <<"list", [i \in DOMAIN v[2] |-> Kept(v[2][i])]>>
      [] v[1] = "map" -> <<"map", [k \in DOMAIN v[2] |-> Kept(v[2][k])]>>
      [] v[1] \in {"bool", "int", "string"} -> v
      [] OTHER -> NilValue

(* The session in its cookie *)

session_json_encode_string(s) ==
    <<Quote>> \o FlattenSeq([i \in DOMAIN s |->
        IF \E e \in Range(Escaped) : e[2] = s[i] THEN <<Backslash, Code(s[i])[1]>> ELSE <<s[i]>>]) \o <<Quote>>
session_json_encode_value(v) ==
    CASE v[1] \in {"bool", "int", "float"} -> json_encode_value(v)
      [] v[1] = "string" -> session_json_encode_string(v[2])
      [] OTHER -> Null
session_map_to_json(m) ==
    <<123>> \o Listed([i \in DOMAIN KeysOf(m) |->
        session_json_encode_string(KeysOf(m)[i]) \o <<Colon>> \o session_json_encode_value(m[KeysOf(m)[i]])])
    \o <<125>>

\* A parser that never fails: what is missing is nil, what is left is ignored.
RECURSIVE SessionString(_, _, _)
SessionString(p, i, read) ==
    IF i > Len(p) THEN Read(<<"string", read>>, i)
    ELSE IF p[i] = Quote THEN Read(<<"string", read>>, i + 1)
    ELSE IF p[i] = Backslash /\ i < Len(p)
         THEN SessionString(p, i + 2, Append(read, Meaning(Escaped, p[i + 1])))
    ELSE SessionString(p, i + 1, Append(read, p[i]))
SessionValue(p, j) ==
    LET i == Blank(p, j)
        c == CodeAt(p, i)
    IN  CASE c = Quote -> SessionString(p, i + 1, NoText)
          [] c \in Digit \cup {Minus} -> json_parse_number(p, i)
          [] IsAt(True, p, i) -> Read(<<"bool", TRUE>>, i + 4)
          [] IsAt(False, p, i) -> Read(<<"bool", FALSE>>, i + 5)
          [] IsAt(Null, p, i) -> Read(NilValue, i + 4)
          [] OTHER -> Read(NilValue, i)
RECURSIVE SessionFields(_, _, _)
SessionFields(p, j, map) ==
    LET i == Blank(p, j)
        key == SessionString(p, i + 1, NoText)
        colon == Blank(p, key.at)
        item == SessionValue(p, colon + 1)
        next == Blank(p, item.at)
        more == (key.v[2] :> item.v) @@ map
    IN  IF CodeAt(p, i) # Quote THEN map
        ELSE IF CodeAt(p, colon) # Colon THEN map
        ELSE IF CodeAt(p, next) = Comma THEN SessionFields(p, next + 1, more) ELSE more
SessionObject(p) ==
    LET i == Blank(p, 1) IN
    IF CodeAt(p, i) # 123 THEN [ok |-> FALSE] ELSE [ok |-> TRUE, map |-> SessionFields(p, i + 1, <<>>)]

(* The arguments of a job (stdlib_jobs.c): a map in JSON, kept as a C string *)

RECURSIVE jobs_json_value(_)
jobs_json_value(v) ==
    IF v[1] # "map" THEN session_json_encode_value(v)
    ELSE <<123>> \o Listed([i \in DOMAIN KeysOf(v[2]) |->
             session_json_encode_string(KeysOf(v[2])[i]) \o <<Colon>> \o jobs_json_value(v[2][KeysOf(v[2])[i]])])
         \o <<125>>
encode_map_to_json(m) == CString(jobs_json_value(<<"map", m>>))

Closed(p, i, map) ==
    LET end == Blank(p, i) IN Read(<<"map", map>>, IF CodeAt(p, end) = 125 THEN end + 1 ELSE end)
RECURSIVE jp_parse_value(_, _), JobFields(_, _, _)
\* A colon may be missing; what is not a field ends the map.
JobFields(p, j, map) ==
    LET i == Blank(p, j)
        key == SessionString(p, i + 1, NoText)
        colon == Blank(p, key.at)
        item == jp_parse_value(p, IF CodeAt(p, colon) = Colon THEN colon + 1 ELSE colon)
        next == Blank(p, item.at)
        more == (key.v[2] :> item.v) @@ map
    IN  IF CodeAt(p, i) # Quote THEN Closed(p, i, map)
        ELSE IF CodeAt(p, next) = Comma THEN JobFields(p, next + 1, more) ELSE Closed(p, next, more)
jp_parse_value(p, j) ==
    LET i == Blank(p, j)
        first == Blank(p, i + 1)
    IN  IF CodeAt(p, i) # 123 THEN SessionValue(p, i)
        ELSE IF CodeAt(p, first) = 125 THEN Read(<<"map", NoText>>, first + 1)
        ELSE JobFields(p, i + 1, NoText)

\* What of an argument reaches the handler: no list does.
RECURSIVE KeptByJob(_)
KeptByJob(v) ==
    CASE v[1] = "map" -> <<"map", [k \in DOMAIN v[2] |-> KeptByJob(v[2][k])]>>
      [] v[1] = "list" -> NilValue
      [] OTHER -> Kept(v)

(* Laws *)

\* What encode writes decode reads, white space around it or not; and no
\* beginning of a string, list or map is taken for a value.
JsonLaw(v, pad) ==
    /\ native_json_decode(pad \o json_encode_value(v) \o pad) = Kept(v)
    /\ v[1] \in {"string", "list", "map"} =>
           \A n \in 0 .. Len(json_encode_value(v)) - 1 : native_json_decode(Upto(json_encode_value(v), n)) = NilValue
\* The data of a session come back from its cookie, what a session cannot
\* hold as nil; the separator of the signature is not in the text before it.
SessionLaw(m) ==
    LET text == base64_encode(session_map_to_json(m))
        read == base64_decode(text)
        data == SessionObject(read.bytes)
    IN  /\ Dot \notin Range(text)
        /\ read.ok /\ data.ok
        /\ data.map = [k \in DOMAIN m |-> IF m[k][1] \in {"list", "map"} THEN NilValue ELSE Kept(m[k])]
\* A handler gets the arguments its job was enqueued with, lists excepted,
\* unless a NUL in a string ends the text.
JobLaw(m) ==
    NoNul(jobs_json_value(<<"map", m>>)) =>
        jp_parse_value(encode_map_to_json(m), 1) =
            Read(KeptByJob(<<"map", m>>), Len(encode_map_to_json(m)) + 1)
=============================================================================
