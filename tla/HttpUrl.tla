------------------------------ MODULE HttpUrl ------------------------------
(* http_parser_parse_url() and http_parse_host() of http_parser.c: where the *)
(* parts of a url are.  The struct http_parser_url is a function u on the    *)
(* fields that are set (field_set is its domain) to where each starts and    *)
(* how long it is.                                                           *)
EXTENDS HttpParser

HostChar == Alpha \cup Num \cup {".", "-"}
HexChar == {ch \in Alpha \cup Num : unhex(ch) < 16}

http_parse_host_char(s, ch) ==
  CASE s \in {"userinfo", "userinfo_start"} ->
         (CASE ch = "@" -> "host_start" [] ch \in UserInfo -> "userinfo" [] OTHER -> "dead")
    [] s = "host_start" ->
         (CASE ch = "[" -> "host_v6_start" [] ch \in HostChar -> "host" [] OTHER -> "dead")
    [] s = "host" /\ ch \in HostChar -> "host"
    [] s \in {"host", "host_v6_end"} /\ ch = ":" -> "port_start"
    [] s = "host_v6" /\ ch = "]" -> "host_v6_end"
    [] s \in {"host_v6", "host_v6_start"} /\ ch \in HexChar \cup {":", "."} -> "host_v6"
    [] s \in {"port", "port_start"} /\ ch \in Num -> "port"
    [] OTHER -> "dead"

\* The field a host state counts in; the others count in none.
HostField == [host |-> "host", host_v6 |-> "host", port |-> "port", userinfo |-> "userinfo"]

\* The field f grows by the byte at i, or starts there.
Counted(u, f, i, starts) ==
  [g \in DOMAIN u \cup {f} |->
     IF g # f THEN u[g]
     ELSE [off |-> IF starts THEN i ELSE u[f].off,
           len |-> IF starts /\ f # "host" THEN 1 ELSE u[f].len + 1]]

\* The host's text is cut into userinfo, host and port.
http_parse_host(buf, u, found_at) ==
  LET first == u["host"].off
      last == first + u["host"].len - 1
      at[i \in first - 1..last] ==
        IF i < first
        THEN [s |-> IF found_at THEN "userinfo_start" ELSE "host_start",
              u |-> [u EXCEPT !["host"].len = 0]]
        ELSE LET old == at[i - 1]
                 s == http_parse_host_char(old.s, At(buf, i))
             IN [s |-> s,
                 u |-> IF s \notin DOMAIN HostField THEN old.u
                       ELSE Counted(old.u, HostField[s], i, s # old.s)]
      end == at[last]
  IN [rc |-> IF end.s \in {"dead", "host_start", "host_v6_start", "host_v6", "port_start",
                           "userinfo", "userinfo_start"} THEN 1 ELSE 0,
      u |-> end.u]

\* The field of a state of the url; delimiters are in none.
UrlField == [req_schema |-> "schema", req_server_with_at |-> "host", req_server |-> "host",
             req_path |-> "path", req_query_string |-> "query", req_fragment |-> "fragment"]

Part(buf, u, f) ==
  IF f \in DOMAIN u THEN SubSeq(buf, u[f].off, u[f].off + u[f].len - 1) ELSE ""

\* The number a port reads as.
PortOf(digits) ==
  LET v[i \in 0..Len(digits)] == IF i = 0 THEN 0 ELSE 10 * v[i - 1] + HexVal[At(digits, i)]
  IN v[Len(digits)]

\* Mutant: the userinfo is not looked for.
AtSeen_Never(old, s) == FALSE

\* Whether an at sign was met.
AtSeen(old, s) == old \/ s = "req_server_with_at"

\* A url with a schema and no server makes http_parse_host() read a field that
\* was never set: "undefined".
http_parser_parse_url(buf, is_connect) ==
  LET at[i \in 0..Len(buf)] ==
        IF i = 0
        THEN [s |-> IF is_connect THEN "req_server_start" ELSE "req_spaces_before_url",
              u |-> << >>, old_uf |-> "", found_at |-> FALSE]
        ELSE LET old == at[i - 1]
                 s == IF old.s = "dead" THEN "dead" ELSE parse_url_char(old.s, At(buf, i))
                 new == [old EXCEPT !.s = s, !.found_at = AtSeen(@, s)]
             IN IF s \notin DOMAIN UrlField THEN new
                ELSE LET f == UrlField[s] IN
                     IF f = old.old_uf THEN [new EXCEPT !.u[f].len = @ + 1]
                     ELSE [new EXCEPT !.old_uf = f,
                             !.u = [g \in DOMAIN @ \cup {f} |->
                                      IF g = f THEN [off |-> i, len |-> 1] ELSE @[g]]]
      end == at[Len(buf)]
      host == IF "host" \in DOMAIN end.u THEN http_parse_host(buf, end.u, end.found_at)
              ELSE [rc |-> IF "schema" \in DOMAIN end.u THEN 2 ELSE 0, u |-> end.u]
  IN [rc |-> CASE end.s = "dead" -> "refused"
               [] host.rc = 2 -> "undefined"
               [] host.rc = 1 -> "refused"
               [] is_connect /\ DOMAIN host.u # {"host", "port"} -> "refused"
               [] "port" \in DOMAIN host.u /\ PortOf(Part(buf, host.u, "port")) > 2^16 - 1
                    -> "refused"
               [] OTHER -> "ok",
      u |-> host.u]
=============================================================================
