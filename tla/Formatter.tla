----------------------------- MODULE Formatter ------------------------------
(***************************************************************************)
(* The tokens of the language (lexer.c) and `vek fmt' (formatter.c, the    *)
(* function fmt_format).  A text is a sequence of one-character strings;   *)
(* the message of an error token, which the formatter writes into the      *)
(* program, is one more character.                                         *)
(***************************************************************************)
EXTENDS Integers, Sequences, SequencesExt, FiniteSetsExt, Text

Newline == "\n"
Letters == {"a", "b", "d", "e", "f", "i", "l", "n", "o", "r", "s", "t", "u", "x", "y", "E", "_"}
Digits == {"0", "1", "2"}
Message == "message"

\* The type of a token, and its text: keywords of every kind that the formatter
\* tells apart, and the operators.
Keywords ==
    {<<"fn", <<"f", "n">>>>, <<"if", <<"i", "f">>>>, <<"do", <<"d", "o">>>>, <<"or", <<"o", "r">>>>,
     <<"for", <<"f", "o", "r">>>>, <<"in", <<"i", "n">>>>, <<"end", <<"e", "n", "d">>>>,
     <<"else", <<"e", "l", "s", "e">>>>, <<"return", <<"r", "e", "t", "u", "r", "n">>>>}
Operators ==
    {<<c, <<c>>>> : c \in {"(", ")", "[", "]", "{", "}", ",", ".", ";", "+", "-", "*", "<", ">", "=", "!", "?", "|"}}
    \cup {<<"==", <<"=", "=">>>>, <<"!=", <<"!", "=">>>>, <<"<=", <<"<", "=">>>>, <<">=", <<">", "=">>>>,
          <<"||", <<"|", "|">>>>, <<"..", <<".", ".">>>>, <<"...", <<".", ".", ".">>>>, <<"->", <<"-", ">">>>>,
          <<"=>", <<"=", ">">>>>, <<"?.", <<"?", ".">>>>, <<"?:", <<"?", ":">>>>, <<"<<", <<"<", "<">>>>,
          <<">>", <<">", ">">>>>, <<"+=", <<"+", "=">>>>, <<"-=", <<"-", "=">>>>, <<"*=", <<"*", "=">>>>,
          <<"**", <<"*", "*">>>>}
is_block_opener == {"fn", "if", "for", "do"}
is_continuation == {"else"}
is_binary_operator == {"+", "-", "*", "<", ">", "=", "|", "==", "!=", "<=", ">=", "||", "..", "<<", ">>",
                       "+=", "-=", "*=", "**", "or"}
is_callable == {"identifier", ")", "]", "string"}

(* The lexer *)

\* The token that ends before position `at'.  The type of an operator is its text.
Token(s, from, at, type) == [type |-> type, text |-> Cut(s, from, at), at |-> at]
Error(at) == [type |-> "error", text |-> <<Message>>, at |-> at]
Interpolation(at) == [type |-> "interpolation", text |-> <<"#", "{">>, at |-> at]

skip_whitespace(s, i) ==
    LET j == Skip(s, i, {" ", "\t", "\r"}) IN IF CharAt(s, j) = "#" THEN Until(s, j, {Newline}) ELSE j
scan_identifier(s, i) ==
    LET end == Skip(s, i, Letters \cup Digits)
        at == IF CharAt(s, end) = "?" /\ CharAt(s, end + 1) \notin {".", ":"} THEN end + 1 ELSE end
        keyword == {k \in Keywords : k[2] = Cut(s, i, at)}
    IN  Token(s, i, at, IF keyword = {} THEN "identifier" ELSE (CHOOSE k \in keyword : TRUE)[1])
scan_number(s, i) ==
    LET whole == Skip(s, i, Digits \cup {"_"})
        is_float == CharAt(s, whole) = "." /\ CharAt(s, whole + 1) \in Digits
        fraction == IF is_float THEN Skip(s, whole + 1, Digits \cup {"_"}) ELSE whole
        exponent == CharAt(s, fraction) \in {"e", "E"}
        digits == IF CharAt(s, fraction + 1) \in {"+", "-"} THEN fraction + 2 ELSE fraction + 1
    IN  IF ~exponent THEN Token(s, i, fraction, IF is_float THEN "float" ELSE "int")
        ELSE IF CharAt(s, digits) \notin Digits THEN Error(digits)
        ELSE Token(s, i, Skip(s, digits, Digits), "float")
RECURSIVE StringEnd(_, _, _)
StringEnd(s, i, stops) ==
    LET stop == Until(s, i, stops) IN
    CASE CharAt(s, stop) = "\\" -> StringEnd(s, stop + 2, stops)
      [] CharAt(s, stop) = "#" /\ CharAt(s, stop + 1) # "{" -> StringEnd(s, stop + 1, stops)
      [] OTHER -> stop
\* The text before an interpolation is in no token.
scan_string(s, i) ==
    LET end == StringEnd(s, i + 1, {s[i], "\\"} \cup (IF s[i] = "\"" THEN {"#"} ELSE {})) IN
    CASE CharAt(s, end) = s[i] -> Token(s, i, end + 1, "string")
      [] CharAt(s, end) = "#" -> Interpolation(end + 2)
      [] OTHER -> Error(Len(s) + 1)
scan_symbol(s, i) ==
    LET end == StringEnd(s, i + 2, {"\"", "\\"}) IN
    IF CharAt(s, i + 1) = "\"" THEN (IF end > Len(s) THEN Error(end) ELSE Token(s, i, end + 1, "symbol"))
    ELSE IF CharAt(s, i + 1) \in Letters THEN Token(s, i, Skip(s, i + 1, Letters \cup Digits), "symbol")
    ELSE Token(s, i, i + 1, ":")
scan_operator(s, i) ==
    LET found == {o \in Operators : IsAt(o[2], s, i)} IN
    IF found = {} THEN Error(i + 1)
    ELSE LET o == CHOOSE o \in found : \A p \in found : Len(p[2]) <= Len(o[2]) IN Token(s, i, i + Len(o[2]), o[1])
lexer_next_token(s, start) ==
    LET i == skip_whitespace(s, start)
        c == CharAt(s, i)
    IN  CASE i > Len(s) -> Token(s, i, i, "eof")
          [] c \in Letters -> scan_identifier(s, i)
          [] c \in Digits -> scan_number(s, i)
          [] c = Newline -> Token(s, i, i + 1, "newline")
          [] c = ":" -> scan_symbol(s, i)
          [] c \in {"\"", "'"} -> scan_string(s, i)
          [] OTHER -> scan_operator(s, i)
RECURSIVE TokensFrom(_, _)
TokensFrom(s, i) ==
    LET token == lexer_next_token(s, i) IN
    IF token.type = "eof" THEN <<>> ELSE <<token>> \o TokensFrom(s, token.at)
Tokens(s) == TokensFrom(s, 1)

(* Layout *)

Blanks == {" ", "\t", "\r"}
is_blank(line) == \A i \in DOMAIN line : line[i] \in Blanks
is_comment(line) == ~is_blank(line) /\ line[Skip(line, 1, Blanks)] = "#"
RECURSIVE Trimmed(_, _)
Trimmed(s, chars) == IF s # <<>> /\ Last(s) \in chars THEN Trimmed(Front(s), chars) ELSE s
get_comment_text(line) == Trimmed(From(line, Skip(line, 1, {" ", "\t"})), Blanks)
Spaces(indent) == [i \in 1 .. 2 * indent |-> " "]
Less(n) == IF n > 0 THEN n - 1 ELSE 0

\* Is there a space between the i-th token and the one before it, on one line.
Spaced(tokens, i) ==
    LET type == tokens[i].type
        prev == tokens[i - 1].type
        sign == prev \in {"-", "+"} /\ i >= 3
    IN  /\ type \notin {",", ";", ")", "]", "}", ".", ":"}
        /\ prev \notin {"(", "[", "{", "."}
        /\ ~(type \in {"(", "["} /\ prev \in is_callable)
        /\ type \notin is_binary_operator /\ sign =>
               tokens[i - 2].type \notin {"(", "[", ","} \cup is_binary_operator

\* st.out ends with a line if st.started does not hold.
code_emit_newline(st) == [st EXCEPT !.out = Append(Trimmed(@, {" "}), Newline), !.started = FALSE]
code_emit_indent(st) ==
    IF st.started THEN st ELSE [st EXCEPT !.out = @ \o Spaces(st.indent_level), !.started = TRUE]
code_emit_token(st, text) == LET on == code_emit_indent(st) IN [on EXCEPT !.out = @ \o text]
code_emit_space(st) ==
    IF st.started /\ st.out # <<>> /\ Last(st.out) \notin {" ", Newline} THEN [st EXCEPT !.out = Append(@, " ")] ELSE st

NewlineToken(st) ==
    LET blanks == IF st.prev_was_newline THEN st.blank_lines + 1 ELSE 0
        on == IF blanks <= 1 THEN code_emit_newline(st) ELSE st
    IN  [on EXCEPT !.blank_lines = blanks, !.prev_was_newline = TRUE]
\* What closes or continues a block is written one level further left, and a
\* function that follows another one after an empty line.
Before(st, type) ==
    LET closed == IF type # "end" THEN st
                  ELSE [st EXCEPT !.indent_level = Less(@), !.fn_depth = Less(@),
                                  !.had_fn_block = @ \/ st.fn_depth = 1]
        left == IF type \in is_continuation THEN [closed EXCEPT !.indent_level = Less(@)] ELSE closed
        apart == type = "fn" /\ left.fn_depth = 0 /\ left.had_fn_block /\ left.prev_was_newline
                   /\ left.blank_lines = 0 /\ left.out # <<>>
    IN  [(IF apart THEN code_emit_newline(left) ELSE left) EXCEPT !.blank_lines = 0]
After(st, type) ==
    [st EXCEPT !.indent_level = IF type \in is_block_opener \cup is_continuation THEN @ + 1 ELSE @,
               !.fn_depth = IF type = "fn" THEN @ + 1 ELSE @, !.prev_was_newline = FALSE]
Spacing(tokens, st, i) ==
    IF ~st.prev_was_newline /\ i > 1 /\ Spaced(tokens, i) THEN code_emit_space(st) ELSE st
Formatted(tokens, st, i) ==
    CASE tokens[i].type = "error" -> code_emit_token(st, tokens[i].text)
      [] tokens[i].type = "newline" -> NewlineToken(st)
      [] OTHER -> After(code_emit_token(Spacing(tokens, Before(st, tokens[i].type), i), tokens[i].text),
                        tokens[i].type)
FormatTokens(tokens, indent) ==
    FoldLeft(LAMBDA st, i : Formatted(tokens, st, i),
             [out |-> <<>>, indent_level |-> indent, started |-> FALSE, prev_was_newline |-> TRUE,
              blank_lines |-> 0, fn_depth |-> 0, had_fn_block |-> FALSE],
             [i \in DOMAIN tokens |-> i])
format_code_block(code, indent) == FormatTokens(Tokens(code), indent)

(* Files *)

split_lines(source) ==
    LET lines == Parts(source, <<Newline>>) IN IF Last(lines) = <<>> THEN Front(lines) ELSE lines
\* Is there a # outside the quotes of a line of code: `vek fmt' warns that the
\* comment may be lost.
RECURSIVE CommentAfter(_, _)
CommentAfter(line, i) ==
    LET stop == Until(line, i, {"'", "\"", "#"}) IN
    /\ stop <= Len(line)
    /\ line[stop] = "#" \/ CommentAfter(line, StringEnd(line, stop + 1, {line[stop], "\\"}) + 1)
has_inline_comment(line) == ~is_blank(line) /\ ~is_comment(line) /\ CommentAfter(line, 1)
Ended(s) == IF s # <<>> /\ Last(s) # Newline THEN Append(s, Newline) ELSE s
RECURSIVE CodeEnd(_, _), FormatLines(_, _, _, _)
CodeEnd(lines, i) ==
    IF i > Len(lines) THEN i ELSE IF is_blank(lines[i]) \/ is_comment(lines[i]) THEN i ELSE CodeEnd(lines, i + 1)
\* The lines from the i-th on; `blank' says whether the one before was empty.
AfterBlock(lines, end, block) == Ended(block.out) \o FormatLines(lines, end, block.indent_level, FALSE)
CodeBlock(lines, i, end, indent) ==
    AfterBlock(lines, end, format_code_block(
        FlattenSeq([j \in 1 .. end - i |-> Append(lines[i + j - 1], Newline)]), indent))
FormatLines(lines, i, indent, blank) ==
    IF i > Len(lines) THEN <<>>
    ELSE IF is_blank(lines[i])
         THEN (IF blank THEN <<>> ELSE <<Newline>>) \o FormatLines(lines, i + 1, indent, TRUE)
    ELSE IF is_comment(lines[i])
         THEN Spaces(indent) \o get_comment_text(lines[i]) \o <<Newline>> \o FormatLines(lines, i + 1, indent, FALSE)
    ELSE CodeBlock(lines, i, CodeEnd(lines, i), indent)
RECURSIVE LastLine(_)
LastLine(s) ==
    IF Len(s) > 1 /\ Last(s) = Newline /\ s[Len(s) - 1] = Newline THEN LastLine(Front(s))
    ELSE IF s = <<>> THEN <<Newline>> ELSE Ended(s)
fmt_format(source) == LastLine(Trimmed(FormatLines(split_lines(source), 1, 0, FALSE), {" ", "\t"}))

(* Laws *)

\* The tokens that count: an empty line is as good as several.
Meaningful(tokens) ==
    LET kept == SelectSeq([i \in DOMAIN tokens |-> i],
                    LAMBDA i : tokens[i].type # "newline" \/ (i > 1 /\ tokens[i - 1].type # "newline"))
    IN  [k \in DOMAIN kept |-> [type |-> tokens[kept[k]].type, text |-> tokens[kept[k]].text]]
Comments(s) == LET lines == SelectSeq(split_lines(s), is_comment) IN
               [i \in DOMAIN lines |-> get_comment_text(lines[i])]
\* A program that is one for the lexer, with no text of more than one line.
Valid(tokens) == \A i \in DOMAIN tokens :
    /\ tokens[i].type \notin {"error", "interpolation"}
    /\ tokens[i].type # "newline" => Newline \notin ToSet(tokens[i].text)
\* The lines of code on which the lexer skips a comment.
Remarked(s) ==
    SelectSeq(split_lines(s), LAMBDA line :
        LET tokens == Tokens(line) IN
        tokens # <<>> /\ CharAt(line, Skip(line, Last(tokens).at, Blanks)) = "#")
\* Formatting keeps the tokens, the ends of the lines and the comments that
\* have a line of their own, and formatting again changes nothing.  The comments
\* that follow code are all lost, and just for their lines there is a warning.
KeptBy(source, formatted) ==
    /\ Meaningful(Tokens(formatted)) = Meaningful(Tokens(Append(source, Newline)))
    /\ Comments(formatted) = Comments(source)
    /\ Remarked(formatted) = <<>>
    /\ Remarked(source) = SelectSeq(split_lines(source), has_inline_comment)
    /\ fmt_format(formatted) = formatted
FormatLaw(source) == Valid(Tokens(source)) => KeptBy(source, fmt_format(source))
=============================================================================
