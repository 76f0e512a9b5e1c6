------------------------------ MODULE Messages ------------------------------
(***************************************************************************)
(* What a message of HTTP says, from the client (stdlib_http_client.c)     *)
(* through the parser (http_parser.c), the router and the request that a   *)
(* handler gets (stdlib_http_server.c), to the response (http_server.c)    *)
(* and what the client makes of it.  A message is a sequence of words and  *)
(* separators; its length is their number.  Maps are functions.            *)
(***************************************************************************)
EXTENDS TLC, Router

CRLF == "CRLF"
NoText == <<>>
Nothing == [is |-> "nil"]
MaxBody == 8
\* The numbers of the messages: lengths, ports and status codes.
Numbers == 0 .. 2 * MaxBody \cup {80, 200, 404, 443, 500}
MaxHeaders == 6

Lowercase == [x \in {"Host"} |-> "host"] @@ [x \in {"Connection"} |-> "connection"]
    @@ [x \in {"Content-Length"} |-> "content-length"]
    @@ [x \in {"Content-Type"} |-> "content-type"]
    @@ [x \in {"Transfer-Encoding"} |-> "transfer-encoding"] @@ [x \in {"X-A"} |-> "x-a"]
tolower(name) == IF name \in DOMAIN Lowercase THEN Lowercase[name] ELSE name
Decimal(n) == ToString(n)
\* atol, and the parser's loop over the digits: what is no number counts 0.
NumberOf(word) ==
    LET set == {n \in Numbers : Decimal(n) = word} IN IF set = {} THEN 0 ELSE Max(set)
Overlay(f, g) == g @@ f
Mapped(pairs) == FoldLeft(LAMBDA f, p : Overlay(f, p[1] :> p[2]), <<>>, pairs)
Pairs(f) == [i \in 1 .. Cardinality(DOMAIN f) |->
                <<SetToSeq(DOMAIN f)[i], f[SetToSeq(DOMAIN f)[i]]>>]
Line(words) == words \o <<CRLF>>
Header(name, value) == Line(<<name, ":", " ">> \o value)
RECURSIVE Lines(_)
Lines(headers) ==
    IF headers = <<>> THEN <<>>
    ELSE Header(headers[1][1], headers[1][2]) \o Lines(Tail(headers))

(* The client's request *)

parse_url(url) ==
    LET end == Until(url, 3, {"/", ":"})
        slash == Until(url, end, {"/"})
    IN  IF Upto(url, 2) \notin {<<"http", "://">>, <<"https", "://">>} \/ end = 3 THEN Nothing
        ELSE [is_https |-> url[1] = "https", host |-> Cut(url, 3, end),
              port |-> IF CharAt(url, end) = ":" THEN NumberOf(CharAt(url, end + 1))
                       ELSE IF url[1] = "https" THEN 443 ELSE 80,
              path |-> IF slash <= Len(url) THEN From(url, slash) ELSE <<"/">>]
build_request(method, url, body, extra) ==
    Line(<<method, " ">> \o url.path \o <<" ", "HTTP/", "1", ".", "1">>)
    \o Header("Host", url.host) \o Header("Connection", <<"close">>)
    \o (IF body = NoText THEN <<>> ELSE Header("Content-Length", <<Decimal(Len(body))>>))
    \o Lines(Pairs(extra)) \o <<CRLF>> \o body

(* The parser *)

Incomplete == [is |-> "incomplete"]
Malformed == [is |-> "error"]
HeaderLines(buf, from, end) ==
    IF from >= end THEN <<>> ELSE Parts(Cut(buf, from, end), <<CRLF>>)
HasColon(line) == ":" \in Range(line)
HeaderOf(line) ==
    LET colon == Until(line, 1, {":"})
    IN  <<Cut(line, 1, colon), From(line, Skip(line, colon + 1, {" "}))>>
IsHeader_cased(h, name) == h[1] = <<name>>
IsHeader(h, name) == Len(h[1]) = 1 /\ tolower(h[1][1]) = name
Length(headers) ==
    LET set == {i \in DOMAIN headers : IsHeader(headers[i], "content-length")} IN
    IF set = {} THEN 0 ELSE NumberOf(CharAt(headers[Max(set)][2], 1))
keep_alive(headers, version) ==
    LET set == {i \in DOMAIN headers : IsHeader(headers[i], "connection")}
        told == {i \in set : headers[i][2] \in {<<"close">>, <<"keep-alive">>}}
    IN  IF set = {} THEN version = <<"1", ".", "1">>
        ELSE told # {} /\ headers[Max(told)][2] = <<"keep-alive">>
Request(buf, method_end, path_end, line_end, header_end) ==
    LET path == Cut(buf, method_end + 1, path_end)
        query == Until(path, 1, {"?"})
        lines == HeaderLines(buf, line_end + 1, header_end)
        headers == [i \in DOMAIN lines |-> HeaderOf(lines[i])]
        length == Length(headers)
        body == header_end + 2
    IN  IF ~(\A i \in DOMAIN lines : HasColon(lines[i])) THEN Malformed
        ELSE IF Len(headers) > MaxHeaders \/ length > MaxBody THEN Malformed
        ELSE IF Len(buf) + 1 - body < length THEN Incomplete
        ELSE [method |-> Cut(buf, 1, method_end), path |-> Cut(path, 1, query),
              query |-> From(path, query + 1), headers |-> headers,
              keep_alive |-> keep_alive(headers, Cut(buf, path_end + 2, line_end)),
              body |-> Cut(buf, body, body + length), bytes_consumed |-> body + length - 1]
parse_request(buf) ==
    LET header_end == Find(<<CRLF, CRLF>>, buf, 1)
        line_end == Find(<<CRLF>>, buf, 1)
        method_end == Until(buf, 1, {" ", CRLF})
        path_end == Until(buf, method_end + 1, {" ", CRLF})
    IN  IF header_end = 0 THEN Incomplete
        ELSE IF path_end >= line_end \/ CharAt(buf, path_end + 1) # "HTTP/" THEN Malformed
        ELSE Request(buf, method_end, path_end, line_end, header_end)

(* The handler's request, its answer, and the response *)

build_request_map(req, params) ==
    [method |-> req.method, path |-> req.path, query |-> req.query, body |-> req.body,
     headers |-> Mapped([i \in DOMAIN req.headers |->
                    <<[j \in DOMAIN req.headers[i][1] |-> tolower(req.headers[i][1][j])],
                      req.headers[i][2]>>]),
     params |-> Mapped(params)]
StatusText == <<[status |-> 200, text |-> "OK"], [status |-> 404, text |-> "Not Found"]>>
status_text_for(code) ==
    IF \E i \in DOMAIN StatusText : StatusText[i].status = code
    THEN (CHOOSE s \in Range(StatusText) : s.status = code).text ELSE "Unknown"
http_response_send(code, type, body, keep) ==
    Line(<<"HTTP/", "1", ".", "1", " ", Decimal(code), " ", status_text_for(code)>>)
    \o Header("Date", <<"now">>) \o Header("Content-Length", <<Decimal(Len(body))>>)
    \o Header("Content-Type", <<type>>)
    \o Header("Connection", <<IF keep THEN "keep-alive" ELSE "close">>) \o <<CRLF>> \o body
\* A handler returns a text, a map with or without a status and a body, or
\* anything else; or it fails.
vek_http_handler(answer, keep) ==
    CASE answer.is = "failure" -> http_response_send(500, "text/plain", <<"500">>, keep)
      [] answer.is = "text" -> http_response_send(200, "text/html", answer.body, keep)
      [] answer.is = "map" -> http_response_send(answer.status, answer.type, answer.body, keep)
      [] answer.is = "other" -> http_response_send(200, "text/plain", NoText, keep)
native_server_json(data, code) ==
    [is |-> "map", status |-> code, type |-> "application/json", body |-> data]
\* handlers gives each handler's answer.
on_data_vek(router, handlers, req) ==
    LET found == router_match(router, req.method, req.path) IN
    IF found[1] = NoHandler THEN http_response_send(404, "text/plain", <<"404">>, req.keep_alive)
    ELSE vek_http_handler(handlers[found[1]], req.keep_alive)

(* The client again *)

\* A host has some addresses; each of them refuses, does not answer in time,
\* or connects, at once or in the end.
Connects(outcome) == outcome \in {"at once", "in time"}
tcp_connect(outcomes) ==
    IF \E i \in DOMAIN outcomes : Connects(outcomes[i])
    THEN Min({i \in DOMAIN outcomes : Connects(outcomes[i])}) ELSE 0
\* recv until the end of the stream, an error or a timeout, alike.
recv_all(pieces) == FlattenSeq(pieces)
RECURSIVE Decoded(_, _)
Decoded(raw, cp) ==
    LET end == Find(<<CRLF>>, raw, cp)
        size == NumberOf(CharAt(raw, cp))
        data == Upto(From(raw, end + 1), size)
        next == end + 1 + Len(data)
    IN  IF cp > Len(raw) \/ raw[cp] = CRLF \/ end = 0 \/ size = 0 THEN <<>>
        ELSE data \o Decoded(raw, IF CharAt(raw, next) = CRLF THEN next + 1 ELSE next)
\* What follows the headers, or, when they are cut short, nothing.  The word
\* chunked is searched from the value of transfer-encoding to the end.
build_response(raw) ==
    LET line == Find(<<CRLF>>, raw, 1)
        blank == Until(raw, 1, {" "})
        code == IF line > 0 /\ raw[1] = "HTTP/" /\ blank < line THEN NumberOf(raw[blank + 1]) ELSE 0
        found == Find(<<CRLF, CRLF>>, raw, line)
        end == IF found > 0 THEN found ELSE Max({i \in DOMAIN raw : raw[i] = CRLF})
        lines == SelectSeq(HeaderLines(raw, line + 1, end), HasColon)
        headers == [i \in DOMAIN lines |-> HeaderOf(lines[i])]
        remaining == IF found > 0 THEN From(raw, found + 2) ELSE <<>>
        chunked == \E i \in DOMAIN headers :
            /\ IsHeader(headers[i], "transfer-encoding") /\ headers[i][2] # <<>>
            /\ "chunked" \in Range(FlattenSeq(From(lines, i)) \o remaining)
        sized == \E i \in DOMAIN headers : IsHeader(headers[i], "content-length")
    IN  IF line = 0 THEN Nothing
        ELSE IF code = 0 THEN Nothing
        ELSE [is |-> "response", status |-> code,
              headers |-> Mapped([i \in DOMAIN headers |-> <<tolower(headers[i][1][1]), headers[i][2]>>]),
              body |-> IF chunked THEN Decoded(remaining, 1)
                       ELSE IF sized THEN Upto(remaining, Length(headers)) ELSE remaining]
\* connection and pieces are what the network does.
do_http_request(method, url, body, extra, connection, pieces) ==
    LET u == parse_url(url) IN
    IF u = Nothing THEN Nothing
    ELSE IF u.is_https \/ tcp_connect(connection) = 0 \/ recv_all(pieces) = <<>> THEN Nothing
    ELSE build_response(recv_all(pieces))

-----------------------------------------------------------------------------
\* A request is understood as it was meant, however it is cut on the way and
\* whatever follows it.
Understood(method, path, body, extra, map) ==
    /\ map.method = <<method>> /\ map.body = body
    /\ map.path \o (IF "?" \in Range(path) THEN <<"?">> ELSE <<>>) \o map.query = path
    /\ \A name \in DOMAIN extra : map.headers[<<tolower(name)>>] = extra[name]
Consumed(text, req) == req.bytes_consumed = Len(text) /\ ~req.keep_alive
Whole(text, rest) ==
    /\ Consumed(text, parse_request(text \o rest))
    /\ \A n \in 0 .. Len(text) - 1 : parse_request(Upto(text, n)) = Incomplete
RequestLaw(method, url, body, extra, rest) ==
    LET text == build_request(method, parse_url(url), body, extra) IN
    /\ Understood(method, parse_url(url).path, body, extra, build_request_map(parse_request(text \o rest), <<>>))
    /\ Whole(text, rest)
\* The client gets the answer of the handler of its route, and of an answer
\* that is cut short a part.
Answered(whole, answer) ==
    /\ answer.is = "map" => whole.status = answer.status
    /\ answer.is \in {"map", "text"} => whole.body = answer.body
    /\ answer.is = "failure" => whole.status = 500
Received(raw, first, n, url) ==
    do_http_request("POST", url, NoText, <<>>, <<"refuses", "in time">>, <<Upto(raw, first), Cut(raw, first + 1, n + 1)>>)
PartOf(got, whole) == got # Nothing => got.status = whole.status /\ IsPrefix(got.body, whole.body)
RoundTrip(router, answers, chosen, req, url, first, raw, whole) ==
    /\ chosen[1] = NoHandler => whole.status = 404
    /\ chosen[1] # NoHandler =>
          /\ Answered(whole, answers[chosen[1]])
          /\ build_request_map(req, router_match(router, <<"POST">>, req.path)[2]).params = Mapped(chosen[2])
    /\ \A n \in first .. Len(raw) : PartOf(Received(raw, first, n, url), whole)
Answering(routes, router, answers, req, url, first, raw) ==
    RoundTrip(router, answers, Chosen(routes, <<"POST">>, req.path), req, url, first, raw,
              Received(raw, first, Len(raw), url))
Asking(routes, router, answers, req, url, first) ==
    Answering(routes, router, answers, req, url, first, on_data_vek(router, answers, req))
ResponseLaw(routes, answers, url, body, first) ==
    Asking(routes, Routed(routes), answers,
           parse_request(build_request("POST", parse_url(url), body, <<>>)), url, first)
\* Other servers send a body in chunks of any size.
RECURSIVE Chunks(_, _)
Chunks(body, sizes) ==
    IF sizes = <<>> THEN <<"0", CRLF, CRLF>>
    ELSE Line(<<Decimal(sizes[1])>>) \o Line(Upto(body, sizes[1]))
         \o Chunks(From(body, sizes[1] + 1), Tail(sizes))
Arrives(raw, body) ==
    /\ build_response(raw).body = body
    /\ \A n \in DOMAIN raw : \A got \in {build_response(Upto(raw, n))} :
          got # Nothing => IsPrefix(got.body, body)
ChunksLaw(body, sizes) ==
    Arrives(Line(<<"HTTP/", "1", ".", "1", " ", "200">>) \o Header("Transfer-Encoding", <<"chunked">>)
            \o <<CRLF>> \o Chunks(body, sizes), body)
=============================================================================
