-------------------------------- MODULE Pages --------------------------------
(***************************************************************************)
(* What pages are made of, over sequences of bytes: the tag helpers of     *)
(* stdlib_view.c, stdlib_sanitize.c, which reads markup, the forms of      *)
(* stdlib_form.c, and the names of stdlib_path.c and stdlib_slug.c.        *)
(* The order of the fields of a map is left open.                          *)
(***************************************************************************)
EXTENDS Methods, TLC

Lt == 60
Gt == 62
Amp == 38
Mark == 34
Slash == 47
Blank == 32
Equals == 61
Entities == (Amp :> <<38, 97, 109, 112, 59>>) @@ (Lt :> <<38, 108, 116, 59>>) @@ (Gt :> <<38, 103, 116, 59>>)
            @@ (Mark :> <<38, 113, 117, 111, 116, 59>>) @@ (39 :> <<38, 35, 51, 57, 59>>)
Attr(s) == FlattenSeq([i \in DOMAIN s |-> IF s[i] \in DOMAIN Entities THEN Entities[s[i]] ELSE <<s[i]>>])
Ordered(m) == SetToSeq(DOMAIN m)

(* View: a tree of nodes is what the closures of a page call, in order.     *)

builder_write_escaped(s) == Attr(s)
IsVoid(name) == name \in {<<98, 114>>, <<104, 114>>}   \* br, hr and eleven more
builder_write_attrs(attrs) ==
    FlattenSeq([i \in DOMAIN Ordered(attrs) |->
        LET name == Ordered(attrs)[i] IN
        <<Blank>> \o name \o <<Equals, Mark>>
        \o (CASE attrs[name][1] = "string" -> builder_write_escaped(attrs[name][2])
              [] attrs[name][1] \in {"int", "bool"} -> value_to_string(attrs[name])
              [] OTHER -> <<>>)
        \o <<Mark>>])
RECURSIVE html_tag_helper(_)
html_tag_helper(node) ==
    CASE node.is = "raw" -> node.s
      [] node.is = "text" -> builder_write_escaped(node.s)
      [] node.is = "tag" ->
            <<Lt>> \o node.name \o builder_write_attrs(node.attrs) \o <<Gt>>
            \o (IF IsVoid(node.name) THEN <<>>
                ELSE FlattenSeq([i \in DOMAIN node.inside |-> html_tag_helper(node.inside[i])])
                     \o <<Lt, Slash>> \o node.name \o <<Gt>>)
\* A message of flash.render_inline, the names of its tag and class in short:
\* the type goes into the class as it is.
flash_item(type, message) ==
    <<Lt, 100, Blank, 99, Equals, Mark>> \o type \o <<Mark, Gt>> \o Attr(message) \o <<Lt, Slash, 100, Gt>>

(* Sanitize *)

tag_name_eq(a, b) == lower(a) = lower(b)
is_tag_allowed(name, tags) == \E t \in tags : tag_name_eq(name, t)
is_attr_allowed(name, attr, config) ==
    \E t \in DOMAIN config : tag_name_eq(name, t) /\ \E a \in config[t] : tag_name_eq(attr, a)

\* After the end of the tag that position i is in.
PastTag(s, i) == Until(s, i, {Gt}) + 1
AttributeValue(s, i) ==
    IF CodeAt(s, i) # Equals THEN [has |-> FALSE, value |-> <<>>, next |-> i]
    ELSE IF CodeAt(s, i + 1) \in {Mark, 39}
    THEN LET end == Until(s, i + 2, {s[i + 1]}) IN
         [has |-> TRUE, value |-> Cut(s, i + 2, end), next |-> end + 1]
    ELSE LET end == Until(s, i + 1, {Blank, Gt}) IN
         [has |-> TRUE, value |-> Cut(s, i + 1, end), next |-> end]
Apostrophes(s) == FlattenSeq([i \in DOMAIN s |-> IF s[i] = 39 THEN <<39>> ELSE Attr(<<s[i]>>)])
RECURSIVE AllowedAttributes(_, _, _, _)
AllowedAttributes(s, j, name, config) ==
    LET i == Skip(s, j, {Blank})
        after == Until(s, i, {Equals, Blank, Gt, Slash})
        attr == Cut(s, i, after)
        given == AttributeValue(s, after)
        kept == attr # <<>> /\ is_attr_allowed(name, attr, config)
    IN  IF CodeAt(s, i) \in {-1, Gt, Slash} THEN <<>>
        ELSE (IF ~kept THEN <<>>
              ELSE IF given.has THEN <<Blank>> \o attr \o <<Equals, Mark>> \o Apostrophes(given.value) \o <<Mark>>
              ELSE <<Blank>> \o attr)
             \o AllowedAttributes(s, given.next, name, config)
\* Where the attributes end, for what is skipped after them.
RECURSIVE AttributesEnd(_, _)
AttributesEnd(s, j) ==
    LET i == Skip(s, j, {Blank}) IN
    IF CodeAt(s, i) \in {-1, Gt, Slash} THEN i
    ELSE AttributesEnd(s, AttributeValue(s, Until(s, i, {Equals, Blank, Gt, Slash})).next)

RECURSIVE SanitizedFrom(_, _, _, _)
SanitizedFrom(s, i, tags, config) ==
    LET closing == CodeAt(s, i + 1) = Slash
        start == IF closing THEN i + 2 ELSE i + 1
        end == Until(s, start, {Blank, Gt, Slash, 10})
        name == Cut(s, start, end)
    IN  IF i > Len(s) THEN <<>>
        ELSE IF s[i] # Lt THEN <<s[i]>> \o SanitizedFrom(s, i + 1, tags, config)
        ELSE IF name = <<>> THEN Entities[Lt] \o SanitizedFrom(s, i + 1, tags, config)
        ELSE IF ~is_tag_allowed(name, tags) THEN SanitizedFrom(s, PastTag(s, end), tags, config)
        ELSE IF closing
        THEN <<Lt, Slash>> \o name \o <<Gt>> \o SanitizedFrom(s, PastTag(s, end), tags, config)
        ELSE <<Lt>> \o name \o AllowedAttributes(s, end, name, config) \o <<Gt>>
             \o SanitizedFrom(s, PastTag(s, AttributesEnd(s, end)), tags, config)
native_sanitize_html(s, tags, config) == SanitizedFrom(s, 1, tags, config)

RECURSIVE StripFrom(_, _)
StripFrom(s, i) ==
    IF i > Len(s) THEN <<>>
    ELSE IF s[i] = Lt THEN StripFrom(s, PastTag(s, i)) ELSE <<s[i]>> \o StripFrom(s, i + 1)
native_sanitize_strip(s) == StripFrom(s, 1)

(* Forms *)

Percent == 37
Plus == 43
hex_digit(c) == IF c \in Digit THEN c - 48 ELSE IF c \in 65 .. 70 THEN c - 55
                ELSE IF c \in 97 .. 102 THEN c - 87 ELSE -1
RECURSIVE url_decode(_, _)
url_decode(s, i) ==
    LET hi == hex_digit(CodeAt(s, i + 1))
        lo == hex_digit(CodeAt(s, i + 2))
    IN  IF i > Len(s) THEN <<>>
        ELSE IF s[i] = Percent /\ i + 2 <= Len(s) /\ hi >= 0 /\ lo >= 0
        THEN <<16 * hi + lo>> \o url_decode(s, i + 3)
        ELSE <<IF s[i] = Plus THEN Blank ELSE s[i]>> \o url_decode(s, i + 1)
Pair(segment) ==
    LET eq == Until(segment, 1, {Equals}) IN
    url_decode(Cut(segment, 1, eq), 1) :> url_decode(From(segment, eq + 1), 1)
\* The last of two fields with one name counts.
parse_form_body(body) ==
    LET segments == Parts(body, <<Amp>>)
        used == IF Last(segments) = <<>> THEN Front(segments) ELSE segments
    IN  FoldLeft(LAMBDA map, segment : Pair(segment) @@ map, <<>>, used)

\* The first "@" and the first "." after it have something on both sides.
is_valid_email(s) ==
    LET at == Until(s, 1, {64})
        dot == Until(s, at + 1, {46})
    IN  1 < at /\ at + 1 < dot /\ dot < Len(s)
is_valid_int(s) ==
    LET start == IF CodeAt(s, 1) \in {45, Plus} THEN 2 ELSE 1 IN
    start <= Len(s) /\ Skip(s, start, Digit) = Len(s) + 1
\* The errors of one field, in the order in which they are found.
Absent(v) == v[1] # "string" \/ v[2] = <<>>
FieldErrors(v, rule) ==
    IF Absent(v) THEN (IF rule.required THEN <<"is required">> ELSE <<>>)
    ELSE (IF Len(v[2]) < rule.min THEN <<"must be at least">> ELSE <<>>)
         \o (IF Len(v[2]) > rule.max THEN <<"must be at most">> ELSE <<>>)
         \o (IF rule.type = "email" /\ ~is_valid_email(v[2]) THEN <<"must be a valid email">> ELSE <<>>)
         \o (IF rule.type = "int" /\ ~is_valid_int(v[2]) THEN <<"must be an integer">> ELSE <<>>)
native_form_validate(data, rules) ==
    FlattenSeq([i \in DOMAIN Ordered(rules) |->
        LET field == Ordered(rules)[i]
            errors == FieldErrors(IF field \in DOMAIN data THEN data[field] ELSE NilValue, rules[field])
        IN  [k \in DOMAIN errors |-> [field |-> field, message |-> errors[k]]]])

(* Paths and slugs *)

SlashAt(s, i) == CodeAt(s, i) = Slash
\* A part without one slash before it, the first part excepted, and one after it.
Inner(part, first) ==
    LET start == IF ~first /\ SlashAt(part, 1) THEN 2 ELSE 1
        end == IF Len(part) >= start /\ SlashAt(part, Len(part)) THEN Len(part) ELSE Len(part) + 1
    IN  Cut(part, start, end)
native_path_join(parts) ==
    LET buf == FoldLeft(LAMBDA b, part : (IF b = <<>> THEN <<>> ELSE Append(b, Slash)) \o Inner(part, FALSE),
                        Inner(parts[1], TRUE), Tail(parts))
    IN  IF SlashAt(parts[1], 1) /\ ~SlashAt(buf, 1) THEN <<Slash>> \o buf ELSE buf
native_path_normalize(s) ==
    LET single == FoldLeft(LAMBDA b, c : IF c = Slash /\ b # <<>> /\ Last(b) = Slash THEN b ELSE Append(b, c), <<>>, s)
    IN  IF Len(single) > 1 /\ Last(single) = Slash THEN Front(single) ELSE single
\* Where the last segment ends and begins.
RECURSIVE SegmentEnd(_, _), SegmentStart(_, _)
SegmentEnd(s, i) == IF i > 1 /\ SlashAt(s, i) THEN SegmentEnd(s, i - 1) ELSE i
SegmentStart(s, i) == IF i > 1 /\ ~SlashAt(s, i - 1) THEN SegmentStart(s, i - 1) ELSE i
LastSegment(s) == SegmentStart(s, SegmentEnd(s, Len(s)))
native_path_basename(s) ==
    IF s = <<>> THEN <<>> ELSE Cut(s, LastSegment(s), SegmentEnd(s, Len(s)) + 1)
native_path_dirname(s) ==
    IF s = <<>> THEN <<46>>
    ELSE IF LastSegment(s) = 1 THEN (IF SlashAt(s, 1) THEN <<Slash>> ELSE <<46>>)
    ELSE IF LastSegment(s) = 2 THEN Upto(s, 1) ELSE Upto(s, LastSegment(s) - 2)

native_slug_make(s) ==
    LET Word(c) == c \in Digit \cup 97 .. 122
        slug == FoldLeft(LAMBDA b, c : IF Word(c) THEN Append(b, c)
                                       ELSE IF b = <<>> \/ Last(b) = 45 THEN b ELSE Append(b, 45),
                         <<>>, lower(s))
    IN  IF slug # <<>> /\ Last(slug) = 45 THEN Front(slug) ELSE slug

-----------------------------------------------------------------------------
(* What they owe each other.                                               *)

html(page) == FlattenSeq([i \in DOMAIN page |-> html_tag_helper(page[i])])
\* A page with only some tags and attributes: the others leave what they hold.
\* The values of attributes have been escaped already.
Attributes(attrs, names) ==
    [a \in DOMAIN attrs \cap names |-> IF attrs[a][1] = "string" THEN <<"string", Attr(attrs[a][2])>> ELSE attrs[a]]
RECURSIVE Pruned(_, _, _)
Pruned(page, tags, config) ==
    FlattenSeq([i \in DOMAIN page |->
        LET node == page[i] IN
        IF node.is # "tag" THEN <<node>>
        ELSE IF node.name \in tags
        THEN <<[node EXCEPT !.inside = Pruned(node.inside, tags, config),
                            !.attrs = Attributes(@, IF node.name \in DOMAIN config THEN config[node.name] ELSE {})]>>
        ELSE IF IsVoid(node.name) THEN <<>> ELSE Pruned(node.inside, tags, config)])

\* sanitize.html takes a page that the view has written for what it is,
\* however its texts look, and strip leaves nothing but them.
PageLaw(page, tags, config) ==
    /\ native_sanitize_html(html(page), tags, config) = html(Pruned(page, tags, config))
    /\ native_sanitize_strip(html(page)) = html(Pruned(page, {}, <<>>))
\* And whatever the markup: once sanitized it stays as it is, only tags that
\* are allowed are left, and a stripped text has none.
MarkupLaw(s, tags) ==
    LET once == native_sanitize_html(s, tags, <<>>) IN
    /\ native_sanitize_html(once, tags, <<>>) = once
    /\ Lt \in Range(once) => \E t \in tags : Find(t, lower(once), 1) # 0
    /\ Lt \notin Range(native_sanitize_strip(s))
FlashLaw(type, message) ==
    Gt \notin Range(type) => native_sanitize_strip(flash_item(type, message)) = Attr(message)

\* What a browser sends for the fields of a form.
HexDigitOf(n) == IF n < 10 THEN 48 + n ELSE 55 + n
UrlEncoded(s) ==
    FlattenSeq([i \in DOMAIN s |->
        IF s[i] = Blank THEN <<Plus>> ELSE IF s[i] \in Digit \cup 97 .. 122 THEN <<s[i]>>
        ELSE <<Percent, HexDigitOf(s[i] \div 16), HexDigitOf(s[i] % 16)>>])
Body(fields) ==
    Joined([i \in DOMAIN fields |-> UrlEncoded(fields[i][1]) \o <<Equals>> \o UrlEncoded(fields[i][2])], <<Amp>>)
\* The fields of a form arrive as they were filled in, and are accepted just
\* when each of them is what its rule says.
IsEmail(s) ==
    \E i, j \in DOMAIN s :
        /\ 1 < i /\ i + 1 < j /\ j < Len(s) /\ s[i] = 64 /\ s[j] = 46
        /\ \A k \in 1 .. j - 1 : IF k < i THEN s[k] # 64 ELSE s[k] # 46
IsInteger(s) ==
    /\ \E n \in {0, 1} : /\ n < Len(s) /\ (n = 1 => s[1] \in {45, Plus})
                        /\ \A i \in n + 1 .. Len(s) : s[i] \in Digit
    /\ to_i(Append(s, 48)) = 10 * to_i(s)
Conforms(v, rule) ==
    IF Absent(v) THEN ~rule.required
    ELSE /\ Len(v[2]) \in rule.min .. rule.max
         /\ rule.type = "email" => IsEmail(v[2])
         /\ rule.type = "int" => IsInteger(v[2])
FormLaw(fields, rule) ==
    LET parsed == parse_form_body(Body(fields))
        data == [k \in DOMAIN parsed |-> <<"string", parsed[k]>>]
        rules == [k \in {f[1] : f \in Range(fields)} \cup {<<122>>} |-> rule]
        errors == native_form_validate(data, rules)
    IN  /\ DOMAIN parsed = {f[1] : f \in Range(fields)}
        /\ \A i \in DOMAIN fields :
              (\A j \in i + 1 .. Len(fields) : fields[j][1] # fields[i][1]) => parsed[fields[i][1]] = fields[i][2]
        /\ {e.field : e \in Range(errors)}
              = {k \in DOMAIN rules : ~Conforms(IF k \in DOMAIN data THEN data[k] ELSE NilValue, rule)}

\* The parts of a path make the path again, and joining is associative.
PathLaw(a, b, c) ==
    LET whole == native_path_normalize(a)
        dir == native_path_dirname(a)
    IN  /\ native_path_normalize(whole) = whole
        /\ a # <<>> => \/ native_path_normalize(native_path_join(<<dir, native_path_basename(a)>>)) = whole
                       \/ dir = <<46>> /\ native_path_basename(a) = whole
        /\ native_path_normalize(native_path_join(<<a, b, c>>))
              = native_path_normalize(native_path_join(<<native_path_join(<<a, b>>), c>>))
        /\ native_slug_make(native_slug_make(a)) = native_slug_make(a)
=============================================================================
