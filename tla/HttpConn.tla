------------------------------ MODULE HttpConn ------------------------------
(* A connection of handler/http_pubsub.c: what the peer sends arrives in    *)
(* pieces that TCP may cut anywhere, http_psub_read() gives each piece to   *)
(* the parser, and the callbacks build the session.                         *)
(*                                                                          *)
(* A stream is what one peer sends: its text, its type ("RESPONSE" is the   *)
(* view of a client of this server), the callbacks it means, with the text  *)
(* of a data callback in one piece, the parts of its urls, and, if it is an *)
(* answer of this server, what it answers.                                  *)
EXTENDS Json

CONSTANTS Streams,   \* a set of records [type, text, means, urls, answer, well]
          Pieces,    \* the sizes recv() may return, besides all there is
          HTTP_BUFFER_SIZE,   \* the size of a connection's output buffer
          MAX_RESPONSE        \* that of the buffer an answer is put together in

ASSUME StreamsAssumption ==
  /\ \A s \in Streams : DOMAIN s = {"type", "text", "means", "urls", "answer", "well"}
  /\ Pieces \subseteq Nat \ {0}
  /\ HTTP_BUFFER_SIZE \in Nat /\ MAX_RESPONSE \in Nat

VARIABLES stream,    \* what the peer of the connection sends
          pos,       \* how much of it has arrived
          parser,    \* the descriptor's struct http_parser
          log,       \* the callbacks made, adjacent pieces of a text joined
          url,       \* sess->url, and whether 0, 1 or more pieces made it up
          handled,   \* the urls http_on_msg_complete() worked on
          bad,       \* an assert() of the parser failed
          open

vars == <<stream, pos, parser, log, url, handled,  bad, open>>

-----------------------------------------------------------------------------
(* The session's callbacks.                                                 *)

\* From the code of a space on; the back quote, which no stream has, is a mark.
Printable == " !\"#$%&'()*+,-./0123456789:;<=>?@ABCDEFGHIJKLMNOPQRSTUVWXYZ[\\]^_?"
             \o "abcdefghijklmnopqrstuvwxyz{|}~"

\* uri_decode(): a plus is a space, %xx a byte, and a wrong escape ends it.
RECURSIVE uri_decode(_)
uri_decode(s) ==
  CASE s = "" -> ""
    [] At(s, 1) = "+" -> " " \o uri_decode(SubSeq(s, 2, Len(s)))
    [] At(s, 1) = "%" ->
         IF unhex(At(s, 2)) = 16 \/ unhex(At(s, 3)) = 16 THEN ""
         ELSE At(Printable, 16 * unhex(At(s, 2)) + unhex(At(s, 3)) - 31)
                \o uri_decode(SubSeq(s, 4, Len(s)))
    [] OTHER -> At(s, 1) \o uri_decode(SubSeq(s, 2, Len(s)))

\* http_on_url(): each piece of the url takes the place of the one before.
http_on_url(u, text) == [text |-> uri_decode(text), pieces |-> IF u.pieces = 0 THEN 1 ELSE 2]

\* The callbacks of one call, in order, on the session <url, handled>.
RECURSIVE Session(_, _)
Session(s, cbs) ==
  IF cbs = << >> THEN s
  ELSE Session(CASE cbs[1][1] = "url" -> [s EXCEPT !.url = http_on_url(@, cbs[1][2])]
                 [] cbs[1][1] = "message_complete" ->
                      [url |-> [s.url EXCEPT !.pieces = 0],
                       handled |-> Append(s.handled, s.url)]
                 [] OTHER -> s, Tail(cbs))

\* A log in which adjacent pieces of one text are one callback.
RECURSIVE Join(_, _)
Join(l, cbs) ==
  IF cbs = << >> THEN l
  ELSE Join(IF l # << >> /\ cbs[1][1] \in DataCb /\ l[Len(l)][1] = cbs[1][1]
            THEN [l EXCEPT ![Len(l)][2] = @ \o cbs[1][2]] ELSE Append(l, cbs[1]),
            Tail(cbs))

-----------------------------------------------------------------------------
(* Operations.                                                              *)

NoUrl == [text |-> "", pieces |-> 0]

Init ==
  /\ stream \in Streams /\ pos = 0 /\ parser = http_parser_init(stream.type)
  /\ log = << >> /\ url = NoUrl /\ handled = << >> /\ bad = FALSE /\ open = TRUE

\* http_psub_accept(): a new connection, with a new parser and session.
http_psub_accept ==
  /\ ~ open
  /\ stream' \in Streams /\ pos' = 0 /\ parser' = http_parser_init(stream'.type)
  /\ log' = << >> /\ url' = NoUrl /\ handled' = << >> /\ open' = TRUE
  /\ UNCHANGED bad

\* http_psub_read(): the peer has closed, or one piece more is parsed; bytes
\* left over are an error unless the message asked for another protocol.
http_psub_read ==
  /\ open
  /\ \/ /\ pos = Len(stream.text)
        /\ open' = FALSE
        /\ UNCHANGED <<stream, pos, parser, log, url, handled,  bad>>
     \/ \E k \in {j \in Pieces : pos + j <= Len(stream.text)}
                   \cup {Len(stream.text) - pos} :
          /\ k > 0
          /\ \E r \in {http_parser_execute(parser, SubSeq(stream.text, pos + 1, pos + k))} :
               /\ parser' = r.p
               /\ log' = Join(log, r.log)
               /\ \E s \in {Session([url |-> url, handled |-> handled], r.log)} :
                    url' = s.url /\ handled' = s.handled
               /\ bad' = (bad \/ r.bad)
               /\ open' = (r.p.upgrade \/ r.n = k)
          /\ pos' = pos + k
          /\ UNCHANGED stream

Next == http_psub_accept \/ http_psub_read

Spec == Init /\ [][Next]_vars
-----------------------------------------------------------------------------
(* http_response.h: the text of an answer, "" when it does not fit.         *)

ErrMsg(code) == CASE code = 200 -> "OK" [] code = 400 -> "Bad Request"
                  [] code = 401 -> "Unauthorized" [] code = 403 -> "Forbidden"
                  [] code = 404 -> "Not Found" [] OTHER -> "Unknown"

RECURSIVE AddFields(_, _, _)
AddFields(buf, fields, max_len) ==
  IF fields = << >> THEN buf
  ELSE LET line == fields[1][1] \o ": " \o fields[1][2] \o CR \o LF
       IN IF max_len - 2 <= Len(buf) + Len(line) THEN ""
          ELSE AddFields(buf \o line, Tail(fields), max_len)

http_msg_response(max_len, rep) ==
  LET head == "HTTP/1.1 " \o ToString(rep.err_code) \o " " \o ErrMsg(rep.err_code) \o CR \o LF
               \o "Server: zeroser" \o CR \o LF
               \o "Content-Type: " \o rep.mime_type \o CR \o LF
               \o "Content-Length: " \o ToString(Len(rep.content)) \o CR \o LF
      buf == AddFields(head, Append(rep.fields, <<"Connection", "close">>), max_len)
  IN IF buf = "" \/ Len(buf) + 2 + Len(rep.content) > max_len THEN ""
     ELSE buf \o CR \o LF \o rep.content

\* What a buffer holds after text was written behind the content b of it:
\* text that does not fit is refused whole.
buffer_write(b, text) == IF HTTP_BUFFER_SIZE - Len(b) <= Len(text) THEN b ELSE b \o text

\* The message that answers a.  A message longer than MAX_RESPONSE, whose length
\* of -1 the code goes on with, is none of this model's.
Message(a) ==
  http_msg_response(MAX_RESPONSE,
    [err_code |-> 200, mime_type |-> "text", fields |-> << >>,
     content |-> json_serialize_to_string(http_psub_content(a)).text])

\* http_psub_on_response(): the output buffer is emptied and takes the message.
\* With nothing in it, http_psub_write() sends 0 bytes, which it takes for a
\* failure: the client gets no byte and the connection is closed.
http_psub_on_response(a) == buffer_write("", Message(a))

-----------------------------------------------------------------------------
(* Properties.                                                              *)

\* The first k bytes of a stream, parsed in one call.
AloneResult(r) == [p |-> r.p, log |-> Join(<< >>, r.log), n |-> r.n]
Whole == [s \in Streams |->
            [k \in 0..Len(s.text) |->
               IF k = 0 THEN [p |-> http_parser_init(s.type), log |-> << >>, n |-> 0]
               ELSE AloneResult(http_parser_execute(http_parser_init(s.type),
                                                    SubSeq(s.text, 1, k)))]]
Now == Whole[stream][pos]

\* Wherever TCP cuts the stream, http_parser_execute() reaches the same verdict,
\* the same state and the same callbacks as in a single call, except that a
\* header may be refused as too long, and that bytes behind an upgrade are
\* dropped only when they came in the same piece.
SplitIndependent ==
  \/ parser.errno = "HEADER_OVERFLOW"
  \/ Now.p.upgrade /\ Now.n < pos
  \/ /\ parser.errno = Now.p.errno
     /\ parser.errno = "OK" => /\ [parser EXCEPT !.nread = 0] = [Now.p EXCEPT !.nread = 0]
                               /\ log = Now.log

\* No header longer than HTTP_MAX_HEADER_SIZE is accepted however it is cut, and
\* the bytes counted twice at a cut never make up more than the header itself.
HeaderCounted ==
  parser.errno = "OK" /\ Now.p.errno = "OK" /\ ~ Now.p.upgrade =>
    Now.p.nread <= parser.nread /\ parser.nread <= 2 * Now.p.nread

\* A well-formed stream, in whatever pieces, is understood as it was meant:
\* all of its messages, headers and bodies, and nothing else; and whatever the
\* stream, no assert() of http_parser.c fails: on the counted bytes of a chunk's
\* size, the length of a body, the marks at the end of a call.
Understood ==
  /\ ~ bad
  /\ stream.well /\ pos = Len(stream.text) /\ parser.errno # "HEADER_OVERFLOW" =>
       parser.errno = "OK" /\ log = stream.means

Urls(l) == SelectSeq(l, LAMBDA e : e[1] = "url")

\* What http_on_msg_complete() works on is the url the peer sent, or, when TCP cut
\* it, some end of it, and never a part of another request's; and in the url the
\* callbacks reported, in however many pieces, http_parser_parse_url() finds the
\* parts the peer made it of, the host between the userinfo and the port among
\* them.
UrlsFound ==
  stream.well /\ stream.type = "REQUEST" => \A i \in 1..Len(handled) :
    /\ LET sent == Urls(stream.means)[i][2]
       IN \E k \in 1..Len(sent) + 1 :
            /\ handled[i].text = uri_decode(SubSeq(sent, k, Len(sent)))
            /\ handled[i].pieces = 1 => k = 1
    /\ LET buf == Urls(log)[i][2]
           meant == stream.urls[i]
           found == http_parser_parse_url(buf, meant.schema = "" /\ meant.host # "")
       IN found.rc = "ok" /\ \A f \in DOMAIN meant : Part(buf, found.u, f) = meant[f]

\* http_parser.h:79-81: "It will be called arbitrarily many times for each string.
\* E.G. you might get 10 callbacks for "on_url" each providing just a few
\* characters more data."  So the pieces together are the url, and the session
\* works on all of it.  http_on_url() keeps the last piece only.
UrlWhole ==
  stream.well /\ stream.type = "REQUEST" => \A i \in 1..Len(handled) :
    handled[i].text = uri_decode(Urls(stream.means)[i][2])

Bodies(l) == SelectSeq(l, LAMBDA e : e[1] = "body")

\* The strings of a value that came from a user.
RECURSIVE Strings(_)
Strings(v) ==
  CASE v.type = "string" -> {v.string}
    [] v.type = "array" -> UNION {Strings(v.items[i]) : i \in 1..Len(v.items)}
    [] v.type = "object" -> UNION {Strings(v.members[i][2]) : i \in 1..Len(v.members)}
    [] OTHER -> {}

\* An answer, made to text and to a message, put into the output buffer, cut by
\* TCP and parsed again, gives the client the value it was made of: quotes,
\* backslashes and line ends in names and messages included.  It is lost, whole,
\* only when the message is as long as the buffer or longer, and refused only for
\* a byte below 0x20 that has no escape, which json_serialize_string() writes as
\* it is.  The text fits the buffer json_serialization_size() computes for it,
\* and a published message is told apart from its author unless the author's name
\* has a colon.
AnswerMeans ==
  LET a == stream.answer
      v == http_psub_content(a)
      json == json_serialize_to_string(v)
      lost == Bodies(log) = << >>
      got == json_parse_string(Bodies(log)[1][2])
  IN stream.type = "RESPONSE" /\ stream.well /\ pos = Len(stream.text) /\ parser.errno = "OK" =>
       /\ Len(json.text) + 1 = json.size
       /\ lost <=> Len(Message(a)) >= HTTP_BUFFER_SIZE
       /\ ~ lost =>
          IF \E s \in Strings(v) : Control \in CharsOf(s) THEN got = None ELSE got = v
       /\ ~ lost /\ a.action = "ACT_REP_SUB" /\ got # None =>
            \A f \in {"user", "msg"} :
              LET at == json_object_get_value(got.members, f)
              IN ":" \in CharsOf(a.user) \/ ~ is_valid_utf8(a[f]) \/ at = String(a[f])
=============================================================================
