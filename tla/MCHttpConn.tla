----------------------------- MODULE MCHttpConn -----------------------------
(* HttpConn for TLC: messages as records, the text they are sent as and the *)
(* callbacks they mean.                                                     *)
EXTENDS HttpConn

NL == CR \o LF
RECURSIVE Lines(_)
Lines(hs) == IF hs = << >> THEN ""
             ELSE hs[1][1] \o ": " \o hs[1][2] \o NL \o Lines(Tail(hs))
RECURSIVE FieldsMeant(_)
FieldsMeant(hs) ==
  IF hs = << >> THEN << >>
  ELSE <<<<"header_field", hs[1][1]>>, <<"header_value", hs[1][2]>>>> \o FieldsMeant(Tail(hs))
RECURSIVE ChunkText(_), ChunkMeant(_)
ChunkText(cs) ==
  IF cs = << >> THEN "0" \o NL
  ELSE SubSeq("0123456789", Len(cs[1]) + 1, Len(cs[1]) + 1) \o ";x" \o NL \o cs[1] \o NL
         \o ChunkText(Tail(cs))
ChunkMeant(cs) ==
  IF cs = << >> THEN <<<<"chunk_header", "">>>>
  ELSE <<<<"chunk_header", "">>, <<"body", cs[1]>>, <<"chunk_complete", "">>>>
         \o ChunkMeant(Tail(cs))

\* A url as its parts, and its text.
Url(schema, userinfo, host, port, path, query, fragment) ==
  [schema |-> schema, userinfo |-> userinfo, host |-> host, port |-> port,
   path |-> path, query |-> query, fragment |-> fragment]
Path(path) == Url("", "", "", "", path, "", "")
Behind(c, part) == IF part = "" THEN "" ELSE c \o part
UrlText(u) ==
  (IF u.schema = "" THEN "" ELSE u.schema \o "://")
    \o (IF u.userinfo = "" THEN "" ELSE u.userinfo \o "@")
    \o (IF ":" \in CharsOf(u.host) THEN "[" \o u.host \o "]" ELSE u.host)
    \o Behind(":", u.port) \o u.path \o Behind("?", u.query) \o Behind("#", u.fragment)

Begun(u) == <<<<"message_begin", "">>, <<"url", UrlText(u)>>>>
Headers(hs) == FieldsMeant(hs) \o <<<<"headers_complete", "">>>>
Completed == <<<<"message_complete", "">>>>

\* A request without a body, with one of known length, and with chunks.
Line(m, u) == m \o " " \o UrlText(u) \o " HTTP/1.1" \o NL
Plain(m, u, hs) ==
  [text |-> Line(m, u) \o Lines(hs) \o NL, urls |-> <<u>>,
   means |-> Begun(u) \o Headers(hs) \o Completed]
Sized(m, u, b) ==
  LET hs == <<<<"Content-Length", ToString(Len(b))>>>>
  IN [text |-> Line(m, u) \o Lines(hs) \o NL \o b,
      urls |-> <<u>>, means |-> Begun(u) \o Headers(hs) \o (IF b = "" THEN << >> ELSE <<<<"body", b>>>>)
                  \o Completed]
Chunked(m, u, cs, trailer) ==
  LET hs == <<<<"Transfer-Encoding", "chunked">>>>
  IN [text |-> Line(m, u) \o Lines(hs) \o NL \o ChunkText(cs) \o Lines(trailer) \o NL,
      urls |-> <<u>>, means |-> Begun(u) \o Headers(hs) \o ChunkMeant(cs) \o FieldsMeant(trailer)
                  \o <<<<"chunk_complete", "">>>> \o Completed]

\* One request behind the other on the connection.
Piped(a, b) == [text |-> a.text \o b.text, means |-> a.means \o b.means, urls |-> a.urls \o b.urls]
NoAnswer == [action |-> "none"]
Sent(a) == a @@ [type |-> "REQUEST", answer |-> NoAnswer, well |-> TRUE]
Bad(type, t) == [type |-> type, text |-> t, means |-> << >>, urls |-> << >>,
                 answer |-> NoAnswer, well |-> FALSE]
Wrong(t) == Bad("REQUEST", t)

\* An answer of this server, as its own parser reads it; one that does not fit
\* the output buffer is no message at all.
Answer(a) ==
  LET content == json_serialize_to_string(http_psub_content(a)).text
      text == http_psub_on_response(a)
  IN
  [type |-> "RESPONSE", text |-> text, well |-> TRUE, urls |-> << >>, answer |-> a,
   means |-> IF text = "" THEN << >>
             ELSE <<<<"message_begin", "">>, <<"status", "OK">>>>
     \o Headers(<<<<"Server", "zeroser">>, <<"Content-Type", "text">>,
                  <<"Content-Length", ToString(Len(content))>>, <<"Connection", "close">>>>)
     \o <<<<"body", content>>>> \o Completed]

Methods == {"DELETE", "GET", "HEAD", "POST", "PUT", "OPTIONS", "TRACE", "COPY",
            "LOCK", "MKCOL", "MOVE", "PROPFIND", "PROPPATCH", "SEARCH", "UNLOCK", "REPORT",
            "MKACTIVITY", "CHECKOUT", "MERGE", "M-SEARCH", "NOTIFY", "SUBSCRIBE",
            "UNSUBSCRIBE", "PATCH", "PURGE", "MKCALENDAR"}

Told(action, msg) == [action |-> action, msg |-> msg, cookie |-> "abc"]
Answers ==
  {Told("ACT_LOGIN", "success"), Told("ACT_PUB", "error"), Told("", "no: \n\t"),
   [action |-> "ACT_LIST_USER", list |-> << >>],
   [action |-> "ACT_LIST_TOPIC",
    list |-> <<[name |-> "a\"b", members |-> 0, last_active |-> 10],
               [name |-> "c~", members |-> 12, last_active |-> 0]>>],
   [action |-> "ACT_LIST_USER", list |-> <<[name |-> "u\\n", fds |-> 1, last_active |-> 9],
                                           [name |-> "", fds |-> 0, last_active |-> 0]>>]}
    \cup {[action |-> "ACT_REP_SUB", user |-> u, msg |-> m] :
             u \in {"u", "a:b", "~"}, m \in {"", "x: \\\"", "^"}}

StreamSet ==
  {Sent(Plain(m, Path("/"), << >>)) : m \in Methods}
    \cup {Sent(Plain("GET", Url("http", i, h, p, t[1], t[2], "f?#"), << >>)) :
              i \in {"", "u:p"}, h \in {"a.b", "::1"}, p \in {"", "65535"},
              t \in {<<"/x", "">>, <<"", "y?z">>, <<"/x", "y?z">>}}
    \cup {Sent(Piped(Plain("GET", Path("/a%20b"), <<<<"Cookie", "z=1">>>>),
                     Plain("GET", Url("http", "u", "h", "1", "/", "q", "f"), << >>))),
          Sent(Piped(Sized("POST", Path("/p"), "xyz"), Sized("PUT", Path("*"), ""))),
          Sent(Piped(Chunked("POST", Path("/c"), <<"ab", "c">>, <<<<"Tr", "">>>>),
                     Plain("GET", Path("/"), <<<<"Connection", "a, close">>>>))),
          Sent(Plain("CONNECT", Url("", "", "h", "1", "", "", ""), << >>)),
          Sent(Plain("GET", Path("/w"), <<<<"Upgrade", "w">>, <<"Connection", "Upgrade">>>>)),
          Sent(Plain("GET", Path("/long"), <<<<"Field", "a value of some length that">>,
                                       <<"Folded", "goes on">>>>))}
    \cup {Answer(a) : a \in Answers}
    \cup {Wrong("GET / HTTP/1.1\r\nConnection: close\r\n\r\nGET"),
          Wrong("GET /\r\n\r\nPOST /x HTTP/2.0\n Bad"),
          Wrong("GET / HTTP/1.0\r\nContent-Length: 250\r\n\r\n"),
          Wrong("PUT / HTTP/1.1\r\nTransfer-Encoding: chunked\r\n\r\nff\r\n"),
          Wrong("PUT / HTTP/1.1\r\nConnection: keep-alive,\tclose\r\n x\r\n\r\n\r\nG"),
          Wrong("CONNECT h:1 HTTP/1.1\r\n\r\nother"),
          Wrong("GET / HTTP/1.0\nProxy-Connection:\n keep-alive\nA:\n\nTRACE @"),
          Bad("BOTH", "HTTP/1.0 200 OK\r\nTransfer-Encoding: x\r\n\r\nto the end"),
          Bad("BOTH", "HEAD / HTTP/1.1\r\n\r\nHXX"),
          Bad("RESPONSE", "\nHTTP/1.1 204\r\nContent-Length: 7\n\nHTTP/1.1 5x")}
=============================================================================
