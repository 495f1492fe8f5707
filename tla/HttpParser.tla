----------------------------- MODULE HttpParser -----------------------------
(* handler/http/http_parser.c as operators: a parser is the record          *)
(* struct http_parser (flags as a set, method as its string), the input of  *)
(* one call of http_parser_execute() is a string, and a call returns the    *)
(* parser, the callbacks it made and the number of bytes it consumed.       *)
(* Built with HTTP_PARSER_STRICT, the default of http_parser.h.             *)
(*                                                                          *)
(* The context c of a call is a record: p the parser, seg the input, i the  *)
(* position of the current byte, mark the start of the text each data       *)
(* callback will report (0: none), log the callbacks made so far, how the   *)
(* last byte was left ("next", "again": reexecute, "error", "ret"), n the   *)
(* value returned by "ret", bad TRUE once an assert() failed.               *)
EXTENDS Naturals, Sequences, FiniteSets

CONSTANTS ULLONG_MAX,             \* 2^64 - 1 in the code
          HTTP_MAX_HEADER_SIZE,   \* 80 * 1024 in the code
          SKIPBODY                \* on_headers_complete() returns 1

ASSUME LimitsAssumption == /\ ULLONG_MAX \in Nat /\ ULLONG_MAX > 16
                           /\ HTTP_MAX_HEADER_SIZE \in Nat \ {0}
                           /\ SKIPBODY \in BOOLEAN

At(s, i) == IF i \in 1..Len(s) THEN SubSeq(s, i, i) ELSE ""
CharsOf(s) == {SubSeq(s, i, i) : i \in 1..Len(s)}

CR == "\r"
LF == "\n"
HT == "\t"
Low == "abcdefghijklmnopqrstuvwxyz"
Up == "ABCDEFGHIJKLMNOPQRSTUVWXYZ"
HexDigits == "0123456789abcdef"
Upper == [u \in CharsOf(Up) |->
            At(Low, CHOOSE i \in 1..26 : At(Up, i) = u)]
HexVal == [d \in CharsOf(HexDigits) |->
             (CHOOSE i \in 1..16 : At(HexDigits, i) = d) - 1]
Alpha == CharsOf(Low) \cup CharsOf(Up)
Num == CharsOf("0123456789")
\* (and the back quote, which no input of a model has)
Tokens == Alpha \cup Num \cup CharsOf("!#$%&'*+-.^_|~")
UserInfo == Alpha \cup Num \cup CharsOf("-_.!~*'()%;:&=+$,")
UrlChar == (Tokens \ {"#"}) \cup CharsOf("\"(),/:;<=>@[\\]{}")

\* c | 0x20, on the bytes that occur: a tab becomes a parenthesis.
LOWER(ch) == IF ch \in DOMAIN Upper THEN Upper[ch] ELSE IF ch = HT THEN ")" ELSE ch
TOKEN(ch) == IF ch \in Tokens THEN LOWER(ch) ELSE ""
unhex(ch) == IF LOWER(ch) \in DOMAIN HexVal THEN HexVal[LOWER(ch)] ELSE 16

-----------------------------------------------------------------------------
(* States.                                                                  *)

UrlStates == {"req_path", "req_schema", "req_schema_slash",
              "req_schema_slash_slash", "req_server_start", "req_server",
              "req_server_with_at", "req_query_string_start",
              "req_query_string", "req_fragment_start", "req_fragment"}
BodyStates == {"chunk_data", "chunk_data_almost_done", "chunk_data_done",
               "body_identity", "body_identity_eof", "message_done"}
PARSING_HEADER(s) == s \notin BodyStates

DataCb == {"header_field", "header_value", "url", "body", "status"}
NoMark == [d \in DataCb |-> 0]

http_parser_init(t) ==
  [type |-> t, flags |-> {}, hstate |-> "general", index |-> 0, nread |-> 0,
   state |-> CASE t = "REQUEST" -> "start_req" [] t = "RESPONSE" -> "start_res"
               [] OTHER -> "start_req_or_res",
   clen |-> 0, major |-> 0, minor |-> 0, status |-> 0, method |-> "DELETE",
   errno |-> "OK", upgrade |-> FALSE]

\* An end of file ends a response without a length: the status tells.
http_message_needs_eof(p) ==
  /\ p.type # "REQUEST"
  /\ ~ (p.status \div 100 = 1 \/ p.status \in {204, 304} \/ "SKIPBODY" \in p.flags)
  /\ ~ ("CHUNKED" \in p.flags \/ p.clen # ULLONG_MAX)

http_should_keep_alive(p) ==
  /\ IF p.major > 0 /\ p.minor > 0 THEN "CLOSE" \notin p.flags
                                   ELSE "KEEP_ALIVE" \in p.flags
  /\ ~ http_message_needs_eof(p)

NEW_MESSAGE(p) ==
  IF ~ http_should_keep_alive(p) THEN "dead"
  ELSE IF p.type = "REQUEST" THEN "start_req" ELSE "start_res"

parse_url_char(s, ch) ==
  CASE ch \in {" ", CR, LF, HT} -> "dead"
    [] s = "req_spaces_before_url" /\ ch \in {"/", "*"} -> "req_path"
    [] s \in {"req_spaces_before_url", "req_schema"} /\ ch \in Alpha -> "req_schema"
    [] s = "req_schema" /\ ch = ":" -> "req_schema_slash"
    [] s = "req_schema_slash" /\ ch = "/" -> "req_schema_slash_slash"
    [] s = "req_schema_slash_slash" /\ ch = "/" -> "req_server_start"
    [] s = "req_server_with_at" /\ ch = "@" -> "dead"
    [] s \in {"req_server_with_at", "req_server_start", "req_server"} ->
         (CASE ch = "/" -> "req_path"
            [] ch = "?" -> "req_query_string_start"
            [] ch = "@" -> "req_server_with_at"
            [] ch \in UserInfo \cup {"[", "]"} -> "req_server"
            [] OTHER -> "dead")
    [] s = "req_path" /\ ch \in UrlChar -> "req_path"
    [] s = "req_path" /\ ch = "?" -> "req_query_string_start"
    [] s \in {"req_query_string_start", "req_query_string"} /\ ch \in UrlChar \cup {"?"}
         -> "req_query_string"
    [] s \in {"req_path", "req_query_string_start", "req_query_string"} /\ ch = "#"
         -> "req_fragment_start"
    [] s = "req_fragment_start" /\ ch = "#" -> s
    [] s \in {"req_fragment_start", "req_fragment"} /\ ch \in UrlChar \cup {"?", "#"}
         -> "req_fragment"
    [] OTHER -> "dead"

-----------------------------------------------------------------------------
(* The macros of http_parser_execute().                                     *)

Goto(c, s) == [c EXCEPT !.p.state = s]
Again(c, s) == [c EXCEPT !.p.state = s, !.how = "again"]
Fail(c, e) == [c EXCEPT !.p.errno = e, !.how = "error"]
STRICT_CHECK(c, wrong, good) == IF wrong THEN Fail(c, "STRICT") ELSE good
MARK(c, d) == [c EXCEPT !.mark[d] = IF @ = 0 THEN c.i ELSE @]
CALLBACK_NOTIFY(c, cb) == [c EXCEPT !.log = Append(@, <<cb, "">>)]

\* The data callback d reports the text from its mark up to byte `to'.
CALLBACK_DATA(c, d, to) ==
  IF c.mark[d] = 0 THEN c
  ELSE [c EXCEPT !.log = Append(@, <<d, SubSeq(c.seg, c.mark[d], to)>>),
                 !.mark[d] = 0]

\* COUNT_HEADER_SIZE: the byte that makes a header too long is an error.
COUNT_HEADER_SIZE(c, v) ==
  IF c.p.nread + v > HTTP_MAX_HEADER_SIZE
  THEN [Fail(c, "HEADER_OVERFLOW") EXCEPT !.p.nread = c.p.nread + v]
  ELSE [c EXCEPT !.p.nread = @ + v]

-----------------------------------------------------------------------------
(* One byte, by state.                                                      *)

Fresh(c) == [c EXCEPT !.p.flags = {}, !.p.clen = ULLONG_MAX]
Expect(c, ch, want, s) == STRICT_CHECK(c, ch # want, Goto(c, s))

\* The first digit, and a further digit, of a version or a status code.
First(c, f, ch, digits, e, s) ==
  IF ch \in digits THEN [Goto(c, s) EXCEPT !.p[f] = HexVal[ch]] ELSE Fail(c, e)
More(c, f, ch, e) ==
  IF ch \notin Num \/ c.p[f] * 10 + HexVal[ch] > 999 THEN Fail(c, e)
  ELSE [c EXCEPT !.p[f] = @ * 10 + HexVal[ch]]

FirstMethod == [C |-> "CONNECT", D |-> "DELETE", G |-> "GET", H |-> "HEAD",
                L |-> "LOCK", M |-> "MKCOL", N |-> "NOTIFY", O |-> "OPTIONS",
                P |-> "POST", R |-> "REPORT", S |-> "SUBSCRIBE", T |-> "TRACE",
                U |-> "UNLOCK"]

StartOf(c, ch) ==
  CASE c.p.state = "dead" ->
         IF ch \in {CR, LF} THEN c ELSE Fail(c, "CLOSED_CONNECTION")
    [] c.p.state = "start_req_or_res" ->
         (CASE ch \in {CR, LF} -> c
            [] ch = "H" -> CALLBACK_NOTIFY(Goto(Fresh(c), "res_or_resp_H"), "message_begin")
            [] OTHER -> [Again(Fresh(c), "start_req") EXCEPT !.p.type = "REQUEST"])
    [] c.p.state = "res_or_resp_H" ->
         (CASE ch = "T" -> [Goto(c, "res_HT") EXCEPT !.p.type = "RESPONSE"]
            [] ch = "E" -> [Goto(c, "req_method") EXCEPT !.p.type = "REQUEST",
                                       !.p.method = "HEAD", !.p.index = 2]
            [] OTHER -> Fail(c, "INVALID_CONSTANT"))
    [] c.p.state = "start_res" ->
         (CASE ch = "H" -> CALLBACK_NOTIFY(Goto(Fresh(c), "res_H"), "message_begin")
            [] ch \in {CR, LF} -> CALLBACK_NOTIFY(Fresh(c), "message_begin")
            [] OTHER -> Fail(Fresh(c), "INVALID_CONSTANT"))

start_req(c, ch) ==
  CASE ch \in {CR, LF} -> c
    [] ch \in DOMAIN FirstMethod ->
         CALLBACK_NOTIFY([Goto(Fresh(c), "req_method") EXCEPT
                            !.p.method = FirstMethod[ch], !.p.index = 1], "message_begin")
    [] OTHER -> Fail(Fresh(c), "INVALID_METHOD")

StatusVersion(c, ch) ==
  CASE c.p.state = "res_H" -> Expect(c, ch, "T", "res_HT")
    [] c.p.state = "res_HT" -> Expect(c, ch, "T", "res_HTT")
    [] c.p.state = "res_HTT" -> Expect(c, ch, "P", "res_HTTP")
    [] c.p.state = "res_HTTP" -> Expect(c, ch, "/", "res_first_http_major")
    [] c.p.state = "res_first_http_major" ->
         First(c, "major", ch, Num, "INVALID_VERSION", "res_http_major")
    [] c.p.state = "res_http_major" ->
         IF ch = "." THEN Goto(c, "res_first_http_minor")
         ELSE More(c, "major", ch, "INVALID_VERSION")
    [] c.p.state = "res_first_http_minor" ->
         First(c, "minor", ch, Num, "INVALID_VERSION", "res_http_minor")
    [] c.p.state = "res_http_minor" ->
         IF ch = " " THEN Goto(c, "res_first_status_code")
         ELSE More(c, "minor", ch, "INVALID_VERSION")

StatusCode(c, ch) ==
  CASE c.p.state = "res_first_status_code" ->
         IF ch = " " THEN c
         ELSE First(c, "status", ch, Num, "INVALID_STATUS", "res_status_code")
    [] c.p.state = "res_status_code" ->
         (CASE ch = " " -> Goto(c, "res_status_start")
            [] ch = CR -> Goto(c, "res_line_almost_done")
            [] ch = LF -> Goto(c, "header_field_start")
            [] OTHER -> More(c, "status", ch, "INVALID_STATUS"))
    [] c.p.state = "res_status_start" ->
         (CASE ch = CR -> Goto(c, "res_line_almost_done")
            [] ch = LF -> Goto(c, "header_field_start")
            [] OTHER -> [Goto(MARK(c, "status"), "res_status") EXCEPT !.p.index = 0])
    [] c.p.state = "res_status" ->
         (CASE ch = CR -> CALLBACK_DATA(Goto(c, "res_line_almost_done"), "status", c.i - 1)
            [] ch = LF -> CALLBACK_DATA(Goto(c, "header_field_start"), "status", c.i - 1)
            [] OTHER -> c)
    [] c.p.state = "res_line_almost_done" -> Expect(c, ch, LF, "header_field_start")

\* <method, index, byte, method>: the other methods with the same beginning.
Sibling == {<<"CONNECT", 1, "H", "CHECKOUT">>, <<"CONNECT", 2, "P", "COPY">>,
            <<"MKCOL", 1, "O", "MOVE">>, <<"MKCOL", 1, "E", "MERGE">>,
            <<"MKCOL", 1, "-", "M-SEARCH">>, <<"MKCOL", 2, "A", "MKACTIVITY">>,
            <<"MKCOL", 3, "A", "MKCALENDAR">>, <<"SUBSCRIBE", 1, "E", "SEARCH">>,
            <<"POST", 1, "R", "PROPFIND">>, <<"POST", 1, "U", "PUT">>,
            <<"POST", 1, "A", "PATCH">>, <<"PUT", 2, "R", "PURGE">>,
            <<"UNLOCK", 2, "S", "UNSUBSCRIBE">>, <<"PROPFIND", 4, "P", "PROPPATCH">>}

req_method(c, ch) ==
  LET m == c.p.method
      other == {s \in Sibling : s[1] = m /\ s[2] = c.p.index /\ s[3] = ch}
  IN CASE ch = " " /\ c.p.index = Len(m) ->
            [Goto(c, "req_spaces_before_url") EXCEPT !.p.index = @ + 1]
       [] ch = At(m, c.p.index + 1) -> [c EXCEPT !.p.index = @ + 1]
       [] ch # At(m, c.p.index + 1) /\ other # {} ->
            [c EXCEPT !.p.index = @ + 1, !.p.method = (CHOOSE s \in other : TRUE)[4]]
       [] OTHER -> Fail(c, "INVALID_METHOD")

UrlByte(c, s, ch) ==
  IF parse_url_char(s, ch) = "dead" THEN Fail(Goto(c, "dead"), "INVALID_URL")
  ELSE Goto(c, parse_url_char(s, ch))

RequestUrl(c, ch) ==
  CASE c.p.state = "req_spaces_before_url" /\ ch = " " -> c
    [] c.p.state = "req_spaces_before_url" /\ ch # " " ->
         UrlByte(MARK(c, "url"), IF c.p.method = "CONNECT" THEN "req_server_start"
                                 ELSE "req_spaces_before_url", ch)
    [] c.p.state \in {"req_schema", "req_schema_slash", "req_schema_slash_slash",
                      "req_server_start"} ->
         IF ch \in {" ", CR, LF} THEN Fail(c, "INVALID_URL") ELSE UrlByte(c, c.p.state, ch)
    [] OTHER ->
         (CASE ch = " " -> CALLBACK_DATA(Goto(c, "req_http_start"), "url", c.i - 1)
            [] ch \in {CR, LF} ->
                 [CALLBACK_DATA(Goto(c, IF ch = CR THEN "req_line_almost_done"
                                        ELSE "header_field_start"), "url", c.i - 1)
                    EXCEPT !.p.major = 0, !.p.minor = 9]
            [] OTHER -> UrlByte(c, c.p.state, ch))

RequestVersion(c, ch) ==
  CASE c.p.state = "req_http_start" ->
         (CASE ch = "H" -> Goto(c, "req_http_H") [] ch = " " -> c
            [] OTHER -> Fail(c, "INVALID_CONSTANT"))
    [] c.p.state = "req_http_H" -> Expect(c, ch, "T", "req_http_HT")
    [] c.p.state = "req_http_HT" -> Expect(c, ch, "T", "req_http_HTT")
    [] c.p.state = "req_http_HTT" -> Expect(c, ch, "P", "req_http_HTTP")
    [] c.p.state = "req_http_HTTP" -> Expect(c, ch, "/", "req_first_http_major")
    [] c.p.state = "req_first_http_major" ->
         First(c, "major", ch, Num \ {"0"}, "INVALID_VERSION", "req_http_major")
    [] c.p.state = "req_http_major" ->
         IF ch = "." THEN Goto(c, "req_first_http_minor")
         ELSE More(c, "major", ch, "INVALID_VERSION")
    [] c.p.state = "req_first_http_minor" ->
         First(c, "minor", ch, Num, "INVALID_VERSION", "req_http_minor")
    [] c.p.state = "req_http_minor" ->
         (CASE ch = CR -> Goto(c, "req_line_almost_done")
            [] ch = LF -> Goto(c, "header_field_start")
            [] OTHER -> More(c, "minor", ch, "INVALID_VERSION"))
    [] c.p.state = "req_line_almost_done" ->
         IF ch = LF THEN Goto(c, "header_field_start") ELSE Fail(c, "LF_EXPECTED")

-----------------------------------------------------------------------------
(* Header fields.                                                           *)

FieldWord == [matching_connection |-> <<"connection", "connection">>,
              matching_proxy_connection |-> <<"proxy-connection", "connection">>,
              matching_content_length |-> <<"content-length", "content_length">>,
              matching_transfer_encoding |-> <<"transfer-encoding", "transfer_encoding">>,
              matching_upgrade |-> <<"upgrade", "upgrade">>]
ValueWord == [matching_transfer_encoding_chunked |->
                 <<"chunked", "transfer_encoding_chunked", "general">>,
              matching_connection_keep_alive |->
                 <<"keep-alive", "connection_keep_alive", "matching_connection_token">>,
              matching_connection_close |->
                 <<"close", "connection_close", "matching_connection_token">>,
              matching_connection_upgrade |->
                 <<"upgrade", "connection_upgrade", "matching_connection_token">>]
HeaderFlag == [connection_keep_alive |-> "KEEP_ALIVE", connection_close |-> "CLOSE",
               connection_upgrade |-> "CONNECTION_UPGRADE",
               transfer_encoding_chunked |-> "CHUNKED"]

\* Mutant: the last byte of a word is not waited for.
MatchShort(p, ch, word, done, otherwise) ==
  [p EXCEPT !.index = @ + 1,
            !.hstate = CASE ch # At(word, p.index + 2) -> otherwise
                         [] p.index + 3 = Len(word) -> done
                         [] OTHER -> @]

\* The next byte of a word matched so far: the last byte completes it, a wrong
\* one gives it up.
Match(p, ch, word, done, otherwise) ==
  [p EXCEPT !.index = @ + 1,
            !.hstate = CASE ch # At(word, p.index + 2) -> otherwise
                         [] p.index + 2 = Len(word) -> done
                         [] OTHER -> @]

header_field_start(c, ch) ==
  CASE ch = CR -> Goto(c, "headers_almost_done")
    [] ch = LF -> Again(c, "headers_almost_done")
    [] TOKEN(ch) = "" -> Fail(c, "INVALID_HEADER_TOKEN")
    [] OTHER -> [Goto(MARK(c, "header_field"), "header_field") EXCEPT
                   !.p.index = 0,
                   !.p.hstate = CASE TOKEN(ch) = "c" -> "C"
                                  [] TOKEN(ch) = "p" -> "matching_proxy_connection"
                                  [] TOKEN(ch) = "t" -> "matching_transfer_encoding"
                                  [] TOKEN(ch) = "u" -> "matching_upgrade"
                                  [] OTHER -> "general"]

FieldByte(p, ch) ==
  CASE p.hstate = "general" -> p
    [] p.hstate \in {"C", "CO", "CON"} ->
         [p EXCEPT !.index = @ + 1,
                   !.hstate = CASE @ = "C" /\ ch = "o" -> "CO"
                                [] @ = "CO" /\ ch = "n" -> "CON"
                                [] @ = "CON" /\ ch = "n" -> "matching_connection"
                                [] @ = "CON" /\ ch = "t" -> "matching_content_length"
                                [] OTHER -> "general"]
    [] p.hstate \in DOMAIN FieldWord ->
         Match(p, ch, FieldWord[p.hstate][1], FieldWord[p.hstate][2], "general")
    [] p.hstate \in {"connection", "content_length", "transfer_encoding", "upgrade"} ->
         [p EXCEPT !.hstate = "general"]
    [] OTHER -> [p EXCEPT !.hstate = "assert"]

RECURSIVE FieldLoop(_, _, _)
FieldLoop(p, seg, j) ==
  IF TOKEN(At(seg, j)) = "" THEN <<p, j>>
  ELSE FieldLoop(FieldByte(p, TOKEN(At(seg, j))), seg, j + 1)

\* The loop has stopped at byte c.i, which is no token or behind the input;
\* the input's last byte is counted a second time.
FieldEnd(c) ==
  CASE c.how = "error" -> c
    [] c.i > Len(c.seg) -> [c EXCEPT !.i = @ - 1]
    [] At(c.seg, c.i) = ":" ->
         CALLBACK_DATA(Goto(c, "header_value_discard_ws"), "header_field", c.i - 1)
    [] OTHER -> Fail(c, "INVALID_HEADER_TOKEN")
header_field(c, r) ==
  FieldEnd(COUNT_HEADER_SIZE([c EXCEPT !.p = r[1], !.i = r[2],
                                       !.bad = @ \/ r[1].hstate = "assert"], r[2] - c.i))

header_value_start(c, ch) ==
  LET low == LOWER(ch)
      to(h) == [Goto(MARK(c, "header_value"), "header_value") EXCEPT
                  !.p.index = 0, !.p.hstate = h]
  IN CASE c.p.hstate = "upgrade" -> [to("general") EXCEPT !.p.flags = @ \cup {"UPGRADE"}]
       [] c.p.hstate = "transfer_encoding" ->
            to(IF low = "c" THEN "matching_transfer_encoding_chunked" ELSE "general")
       [] c.p.hstate = "content_length" ->
            IF ch \in Num THEN [to("content_length") EXCEPT !.p.clen = HexVal[ch]]
            ELSE Fail(to("content_length"), "INVALID_CONTENT_LENGTH")
       [] c.p.hstate = "connection" ->
            to(CASE low = "k" -> "matching_connection_keep_alive"
                 [] low = "c" -> "matching_connection_close"
                 [] low = "u" -> "matching_connection_upgrade"
                 [] OTHER -> "matching_connection_token")
       [] c.p.hstate = "matching_connection_token_start" -> to(c.p.hstate)
       [] OTHER -> to("general")

ValueByte(p, ch, low) ==
  CASE p.hstate \in {"connection", "transfer_encoding"} -> [p EXCEPT !.hstate = "assert"]
    [] p.hstate = "content_length" ->
         (CASE ch = " " -> p
            [] ch \notin Num \/ (ULLONG_MAX - 10) \div 10 < p.clen ->
                 [p EXCEPT !.errno = "INVALID_CONTENT_LENGTH"]
            [] OTHER -> [p EXCEPT !.clen = (@ * 10 + HexVal[ch]) % (ULLONG_MAX + 1)])
    [] p.hstate \in DOMAIN ValueWord ->
         Match(p, low, ValueWord[p.hstate][1], ValueWord[p.hstate][2], ValueWord[p.hstate][3])
    [] p.hstate = "matching_connection_token_start" ->
         [p EXCEPT !.hstate = CASE low = "k" -> "matching_connection_keep_alive"
                                [] low = "c" -> "matching_connection_close"
                                [] low = "u" -> "matching_connection_upgrade"
                                [] low \in Tokens -> "matching_connection_token"
                                [] low = " " -> @
                                [] OTHER -> "general"]
    [] p.hstate = "matching_connection_token" ->
         IF ch = "," THEN [p EXCEPT !.hstate = "matching_connection_token_start", !.index = 0]
         ELSE p
    [] p.hstate = "transfer_encoding_chunked" ->
         IF ch = " " THEN p ELSE [p EXCEPT !.hstate = "general"]
    [] p.hstate \in {"connection_keep_alive", "connection_close", "connection_upgrade"} ->
         (CASE ch = "," -> [p EXCEPT !.flags = @ \cup {HeaderFlag[p.hstate]}, !.index = 0,
                                     !.hstate = "matching_connection_token_start"]
            [] ch = " " -> p
            [] OTHER -> [p EXCEPT !.hstate = "matching_connection_token"])
    [] OTHER -> [p EXCEPT !.hstate = "general"]

\* memchr() of the next end of line, as far as it looks.
NextBreak(seg, j) ==
  LET B == {k \in j..Len(seg) : k < j + HTTP_MAX_HEADER_SIZE /\ At(seg, k) \in {CR, LF}}
  IN IF B = {} THEN Len(seg) + 1 ELSE CHOOSE k \in B : \A b \in B : k <= b

RECURSIVE ValueLoop(_, _, _)
ValueLoop(p, seg, j) ==
  CASE p.errno # "OK" -> <<p, j - 1>>
    [] At(seg, j) \in {CR, LF, ""} -> <<p, j>>
    [] p.hstate = "general" -> ValueLoop(p, seg, NextBreak(seg, j))
    [] OTHER -> ValueLoop(ValueByte(p, At(seg, j), LOWER(At(seg, j))), seg, j + 1)

ValueEnd(c, v) ==
  CASE c.p.errno # "OK" -> [c EXCEPT !.how = "error"]
    [] At(c.seg, c.i) = CR ->
         COUNT_HEADER_SIZE(CALLBACK_DATA(Goto(c, "header_almost_done"), "header_value",
                                         c.i - 1), v)
    [] At(c.seg, c.i) = LF ->
         IF c.p.nread + v > HTTP_MAX_HEADER_SIZE
         THEN COUNT_HEADER_SIZE(Goto(c, "header_almost_done"), v)
         ELSE CALLBACK_DATA([Again(c, "header_almost_done") EXCEPT !.p.nread = @ + v],
                            "header_value", c.i - 1)
    [] c.p.nread + v > HTTP_MAX_HEADER_SIZE -> COUNT_HEADER_SIZE(c, v)
    [] OTHER -> [c EXCEPT !.p.nread = @ + v, !.i = @ - 1]
header_value(c, r) ==
  ValueEnd([c EXCEPT !.p = r[1], !.i = r[2], !.bad = @ \/ r[1].hstate = "assert"],
           r[2] - c.i)

\* The header has ended: what it said becomes a flag.
FlagHeader(c) ==
  [c EXCEPT !.p.flags = @ \cup (IF c.p.hstate \in DOMAIN HeaderFlag
                                THEN {HeaderFlag[c.p.hstate]} ELSE {})]

HeaderLine(c, ch) ==
  CASE c.p.state = "header_field_start" -> header_field_start(c, ch)
    [] c.p.state = "header_field" -> header_field(c, FieldLoop(c.p, c.seg, c.i))
    [] c.p.state = "header_value_discard_ws" ->
         (CASE ch \in {" ", HT} -> c
            [] ch = CR -> Goto(c, "header_value_discard_ws_almost_done")
            [] ch = LF -> Goto(c, "header_value_discard_lws")
            [] OTHER -> header_value_start(c, ch))
    [] c.p.state = "header_value_start" -> header_value_start(c, ch)
    [] c.p.state = "header_value" -> header_value(c, ValueLoop(c.p, c.seg, c.i))
    [] c.p.state = "header_almost_done" -> Expect(c, ch, LF, "header_value_lws")
    [] c.p.state = "header_value_lws" ->
         IF ch \in {" ", HT} THEN Again(c, "header_value_start")
         ELSE Again(FlagHeader(c), "header_field_start")
    [] c.p.state = "header_value_discard_ws_almost_done" ->
         Expect(c, ch, LF, "header_value_discard_lws")
    [] c.p.state = "header_value_discard_lws" ->
         IF ch \in {" ", HT} THEN Goto(c, "header_value_discard_ws")
         ELSE CALLBACK_DATA(MARK(Again(FlagHeader(c), "header_field_start"),
                                 "header_value"), "header_value", c.i - 1)

-----------------------------------------------------------------------------
(* The end of the headers, and the body.                                    *)

headers_almost_done(c, ch) ==
  STRICT_CHECK(c, ch # LF,
    IF "TRAILING" \in c.p.flags
    THEN CALLBACK_NOTIFY(Again(c, "message_done"), "chunk_complete")
    ELSE CALLBACK_NOTIFY([Again(c, "headers_done") EXCEPT
           !.p.upgrade = {"UPGRADE", "CONNECTION_UPGRADE"} \subseteq c.p.flags
                            \/ c.p.method = "CONNECT",
           !.p.flags = @ \cup (IF SKIPBODY THEN {"SKIPBODY"} ELSE {})],
         "headers_complete"))

Complete(c) == CALLBACK_NOTIFY(Goto(c, NEW_MESSAGE(c.p)), "message_complete")

headers_done(c, ch) ==
  LET d == [c EXCEPT !.p.nread = 0]
      hasBody == "CHUNKED" \in c.p.flags \/ c.p.clen \notin {0, ULLONG_MAX}
  IN STRICT_CHECK(c, ch # LF,
       CASE c.p.upgrade /\ (c.p.method = "CONNECT" \/ "SKIPBODY" \in c.p.flags \/ ~ hasBody) ->
              [Complete(d) EXCEPT !.how = "ret"]
         [] OTHER ->
              (CASE "SKIPBODY" \in c.p.flags -> Complete(d)
                 [] "SKIPBODY" \notin c.p.flags /\ "CHUNKED" \in c.p.flags ->
                      Goto(d, "chunk_size_start")
                 [] OTHER ->
                      (CASE c.p.clen = 0 -> Complete(d)
                         [] c.p.clen \notin {0, ULLONG_MAX} -> Goto(d, "body_identity")
                         [] c.p.clen = ULLONG_MAX ->
                              IF c.p.type = "REQUEST" \/ ~ http_message_needs_eof(c.p)
                              THEN Complete(d) ELSE Goto(d, "body_identity_eof"))))

\* The next bytes of a body whose length is known.
Take(c, k) == [MARK(c, "body") EXCEPT !.p.clen = @ - k, !.i = @ + k - 1,
                 !.bad = @ \/ c.p.clen \in {0, ULLONG_MAX}]
ToRead(c) == IF c.p.clen < Len(c.seg) - c.i + 1 THEN c.p.clen ELSE Len(c.seg) - c.i + 1

body_identity(c) ==
  IF c.p.clen = 0 THEN CALLBACK_DATA(Again(c, "message_done"), "body", c.i) ELSE c
chunk_data(c) == IF c.p.clen = 0 THEN Goto(c, "chunk_data_almost_done") ELSE c

Body(c, ch) ==
  CASE c.p.state = "headers_almost_done" -> headers_almost_done(c, ch)
    [] c.p.state = "headers_done" -> headers_done(c, ch)
    [] c.p.state = "body_identity" -> body_identity(Take(c, ToRead(c)))
    [] c.p.state = "body_identity_eof" -> [MARK(c, "body") EXCEPT !.i = Len(c.seg)]
    [] c.p.state = "message_done" ->
         [Complete(c) EXCEPT !.how = IF c.p.upgrade THEN "ret" ELSE @]

Chunk(c, ch) ==
  CASE c.p.state = "chunk_size_start" ->
         LET d == [c EXCEPT !.bad = @ \/ c.p.nread # 1]
         IN IF unhex(ch) = 16 THEN Fail(d, "INVALID_CHUNK_SIZE")
            ELSE [Goto(d, "chunk_size") EXCEPT !.p.clen = unhex(ch)]
    [] c.p.state = "chunk_size" ->
         (CASE ch = CR -> Goto(c, "chunk_size_almost_done")
            [] ch \in {";", " "} -> Goto(c, "chunk_parameters")
            [] ch \notin {CR, ";", " "} /\ unhex(ch) = 16 -> Fail(c, "INVALID_CHUNK_SIZE")
            [] unhex(ch) < 16 ->
                 IF (ULLONG_MAX - 16) \div 16 < c.p.clen THEN Fail(c, "INVALID_CONTENT_LENGTH")
                 ELSE [c EXCEPT !.p.clen = (@ * 16 + unhex(ch)) % (ULLONG_MAX + 1)])
    [] c.p.state = "chunk_parameters" ->
         IF ch = CR THEN Goto(c, "chunk_size_almost_done") ELSE c
    [] c.p.state = "chunk_size_almost_done" ->
         STRICT_CHECK(c, ch # LF, CALLBACK_NOTIFY(
           IF c.p.clen = 0
           THEN [Goto(c, "header_field_start") EXCEPT
                   !.p.nread = 0, !.p.flags = @ \cup {"TRAILING"}]
           ELSE [Goto(c, "chunk_data") EXCEPT !.p.nread = 0], "chunk_header"))
    [] c.p.state = "chunk_data" -> chunk_data(Take(c, ToRead(c)))
    [] c.p.state = "chunk_data_almost_done" ->
         STRICT_CHECK(c, ch # CR,
                      [CALLBACK_DATA(Goto(c, "chunk_data_done"), "body", c.i - 1)
                         EXCEPT !.bad = @ \/ c.p.clen # 0])
    [] c.p.state = "chunk_data_done" ->
         STRICT_CHECK(c, ch # LF, CALLBACK_NOTIFY(
           [Goto(c, "chunk_size_start") EXCEPT !.p.nread = 0], "chunk_complete"))

-----------------------------------------------------------------------------
(* The loop over the input.                                                 *)

StartStates == {"dead", "start_req_or_res", "res_or_resp_H", "start_res"}
StatusVersionStates == {"res_H", "res_HT", "res_HTT", "res_HTTP", "res_first_http_major",
                        "res_http_major", "res_first_http_minor", "res_http_minor"}
StatusCodeStates == {"res_first_status_code", "res_status_code", "res_status_start",
                     "res_status", "res_line_almost_done"}
VersionStates == {"req_http_start", "req_http_H", "req_http_HT", "req_http_HTT",
                  "req_http_HTTP", "req_first_http_major", "req_http_major",
                  "req_first_http_minor", "req_http_minor", "req_line_almost_done"}
ChunkStates == {"chunk_size_start", "chunk_size", "chunk_parameters",
                "chunk_size_almost_done", "chunk_data", "chunk_data_almost_done",
                "chunk_data_done"}
EndStates == {"headers_almost_done", "headers_done", "body_identity",
              "body_identity_eof", "message_done"}

Step(c, ch) ==
  CASE c.p.state \in StartStates -> StartOf(c, ch)
    [] c.p.state \in StatusVersionStates -> StatusVersion(c, ch)
    [] c.p.state \in StatusCodeStates -> StatusCode(c, ch)
    [] c.p.state = "start_req" -> start_req(c, ch)
    [] c.p.state = "req_method" -> req_method(c, ch)
    [] c.p.state \in UrlStates \cup {"req_spaces_before_url"} -> RequestUrl(c, ch)
    [] c.p.state \in VersionStates -> RequestVersion(c, ch)
    [] c.p.state \in ChunkStates -> Chunk(c, ch)
    [] c.p.state \in EndStates -> Body(c, ch)
    [] OTHER -> HeaderLine(c, ch)

\* The next byte is counted while it is a header's.
Count(c) == IF PARSING_HEADER(c.p.state) THEN COUNT_HEADER_SIZE(c, 1) ELSE c
StepCounted(c) == IF c.how = "error" THEN c ELSE Step(c, At(c.seg, c.i))

RECURSIVE Run(_)
Run(c) ==
  CASE c.how = "again" -> Run(Step([c EXCEPT !.how = "next"], At(c.seg, c.i)))
    [] c.how = "next" /\ c.i < Len(c.seg) ->
         Run(StepCounted(Count([c EXCEPT !.i = @ + 1])))
    [] OTHER -> c

\* The callbacks for the text that goes on in the next input.
Leftover(c) ==
  CALLBACK_DATA(CALLBACK_DATA(CALLBACK_DATA(CALLBACK_DATA(CALLBACK_DATA(
    [c EXCEPT !.bad = @ \/ Cardinality({d \in DataCb : c.mark[d] # 0}) > 1],
    "header_field", c.i), "header_value", c.i), "url", c.i), "body", c.i), "status", c.i)

Result(c) ==
  CASE c.how = "error" -> [p |-> c.p, log |-> c.log, n |-> c.i - 1, bad |-> c.bad]
    [] c.how = "ret" -> [p |-> c.p, log |-> c.log, n |-> c.i, bad |-> c.bad]
    [] OTHER -> LET d == Leftover(c)
                IN [p |-> d.p, log |-> d.log, n |-> Len(d.seg), bad |-> d.bad]

\* Mutant: a header's value cut by the end of the last input is not taken up.
BeginBare(p, seg) ==
  [p |-> p, seg |-> seg, i |-> 0, log |-> << >>, how |-> "next", bad |-> FALSE,
   mark |-> [NoMark EXCEPT !["header_field"] = IF p.state = "header_field" THEN 1 ELSE 0,
                           !["url"] = IF p.state \in UrlStates THEN 1 ELSE 0,
                           !["status"] = IF p.state = "res_status" THEN 1 ELSE 0]]

\* Mutant: the count of the header's bytes starts again with each call.
BeginZero(p, seg) ==
  [p |-> [p EXCEPT !.nread = 0], seg |-> seg, i |-> 0, log |-> << >>, how |-> "next",
   bad |-> FALSE,
   mark |-> [d \in DataCb |-> CASE d = p.state -> 1 [] d = "url" /\ p.state \in UrlStates -> 1
                                [] d = "status" /\ p.state = "res_status" -> 1 [] OTHER -> 0]]

Begin(p, seg) ==
  [p |-> p, seg |-> seg, i |-> 0, log |-> << >>, how |-> "next", bad |-> FALSE,
   mark |-> [NoMark EXCEPT !["header_field"] = IF p.state = "header_field" THEN 1 ELSE 0,
                           !["header_value"] = IF p.state = "header_value" THEN 1 ELSE 0,
                           !["url"] = IF p.state \in UrlStates THEN 1 ELSE 0,
                           !["status"] = IF p.state = "res_status" THEN 1 ELSE 0]]

\* The end of file.
Eof(p) ==
  [p |-> IF p.state \in {"body_identity_eof", "dead", "start_req_or_res", "start_res",
                         "start_req"}
         THEN p ELSE [p EXCEPT !.errno = "INVALID_EOF_STATE"],
   log |-> IF p.state = "body_identity_eof" THEN <<<<"message_complete", "">>>> ELSE << >>,
   n |-> IF p.state \in {"body_identity_eof", "dead", "start_req_or_res", "start_res",
                         "start_req"} THEN 0 ELSE 1,
   bad |-> FALSE]

http_parser_execute(p, seg) ==
  CASE p.errno # "OK" -> [p |-> p, log |-> << >>, n |-> 0, bad |-> FALSE]
    [] p.errno = "OK" /\ seg = "" -> Eof(p)
    [] OTHER -> Result(Run(Begin(p, seg)))
=============================================================================
