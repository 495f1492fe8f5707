------------------------------- MODULE Routing -------------------------------
(***************************************************************************)
(* The UDP router (src/src/handler_udp/routing.c and routing/): processes  *)
(* that pass packets on by the first rule that matches the destination,    *)
(* and acknowledge the packets for themselves, over a network that loses,  *)
(* duplicates and reorders datagrams.                                      *)
(*                                                                         *)
(* An address is <<ip, port>>.  A rule's regular expression is the set of  *)
(* addresses it matches.  A datagram has the address it is sent to, its    *)
(* length and the packet it carries; the copy a network makes of it is     *)
(* told apart by the number in its packet.                                 *)
(*                                                                         *)
(* Nothing registers a packet_trip, so retry() never runs and the table    *)
(* tasks is always empty: every acknowledgement is "meaningless".          *)
(***************************************************************************)
EXTENDS Integers, Sequences, FiniteSets, SequencesExt

CONSTANTS
  Router,      \* the router processes
  Interfaces,  \* Interfaces[r]: the ip addresses of r's interfaces
  PortOf,      \* PortOf[r]: the port of r's listener
  Rules,       \* Rules[r]: the configured rules, in order
  Outgoing,    \* the datagrams the clients send, each at most once
  Stray,       \* the bytes that may lie behind a packet in memory
  max_packet,  \* router_setting.max_packet
  R_BUFF_SIZE, \* the size of the receive buffer
  MaxSends,    \* bound: datagrams the clients send
  MaxCopies    \* bound: datagrams the network copies

VARIABLES
  routes,      \* routes[r]: the registered rules
  local_ports, \* local_ports[r]: the ports of the hash table
  up,          \* the routers whose socket is open and has its buffer
  echo_conn,   \* echo_conn[r]: _stat.conn of the echo handler in r's process
  net,         \* the datagrams on their way
  posted,      \* the datagrams the clients have sent
  delivered,   \* the packets proc_mine() took for this router (history)
  refused,     \* the datagrams counted in router_stat.broken (history)
  twice,       \* the datagrams the network copied (history)
  missed       \* the last step was a lookup of a port that failed (history)

routeVars == <<routes, local_ports, up, echo_conn, net, posted, delivered, refused, twice,
          missed>>

HEADER_SIZE == 24
CTL_SEND == 1
CTL_ACK == 2
STAR == "*"

(***************************************************************************)
(* Starting a router                                                       *)
(***************************************************************************)

\* route_register_config() keeps a rule unless a field is too long, the
\* regular expression or the remote address do not parse.  Its answer is
\* ignored: the rules behind a refused one still apply.
Registered(rule) ==
  /\ ~rule.long
  /\ rule.regex
  /\ rule.remote = STAR \/ rule.parses
route_register_config(rules) == SelectSeq(rules, Registered)

RouteInit ==
  /\ routes = [r \in Router |-> << >>]
  /\ local_ports = [r \in Router |-> {}]
  /\ up = {}
  /\ echo_conn = [r \in Router |-> 0]
  /\ net = {} /\ posted = {}
  /\ delivered = {} /\ refused = {} /\ twice = {}
  /\ missed = FALSE

\* config_load() reads the rules, protocol_bind_all() opens the socket, and
\* routing_init() registers its port; then the loop runs.
Start(r) ==
  /\ routes[r] = << >> /\ r \notin up
  /\ routes' = [routes EXCEPT ![r] = route_register_config(Rules[r])]
  /\ local_ports' = [local_ports EXCEPT ![r] = {PortOf[r]}]
  /\ up' = up \cup {r}
  /\ missed' = FALSE
  /\ UNCHANGED <<echo_conn, net, posted, delivered, refused, twice>>

(***************************************************************************)
(* Tables                                                                  *)
(***************************************************************************)
\* Mutant: the list of the interfaces stays empty.
is_mine_ip_None(r, ip) == FALSE
is_mine_ip(r, ip) == ip \in Interfaces[r]

\* HASH_FIND_INT() reads four bytes of a two byte port: the two behind it
\* are whatever the stack holds, so a port that is there may be missed.
get_local_port(r, port) == IF port \in local_ports[r] THEN BOOLEAN ELSE {FALSE}

\* The first rule that matches, as a set of at most one.
route_get_by_dst(r, addr) ==
  LET hits == {i \in DOMAIN routes[r] : addr \in routes[r][i].match}
  IN  {routes[r][i] : i \in {j \in hits : \A k \in hits : j <= k}}

(***************************************************************************)
(* The checksum: the complement of the one's complement sum of the data in *)
(* 16-bit words, the low byte first.  The code adds up 8, 4, 2 and 1 bytes *)
(* at a time with the carry brought round, which is the same sum.  The     *)
(* last byte is read whenever the length is no multiple of 8, so when the  *)
(* length is even it is the stray byte behind the data.                    *)
(***************************************************************************)
WordSum(data) ==
  LET add[i \in 0 .. Len(data) \div 2] ==
        IF i = 0 THEN 0 ELSE add[i - 1] + data[2 * i - 1] + 256 * data[2 * i]
  IN  add[Len(data) \div 2]
\* Mutant: every datum counts the byte behind it.
TailByte_Always(data, stray) ==
  IF Len(data) % 2 = 1 THEN data[Len(data)] + stray ELSE stray
TailByte(data, stray) ==
  IF Len(data) % 2 = 1 THEN data[Len(data)]
  ELSE IF Len(data) % 8 # 0 THEN stray ELSE 0
Folded(sum) == IF sum = 0 THEN 0 ELSE ((sum - 1) % 65535) + 1
tcp_checksum(data, stray) == 65535 - Folded(WordSum(data) + TailByte(data, stray))

\* The fields of a packet and of a datagram.
IsPacket(pk) ==
  /\ pk = [frameSize |-> pk.frameSize, src |-> pk.src, dst |-> pk.dst,
           seq |-> pk.seq, control |-> pk.control, checksum |-> pk.checksum,
           data |-> pk.data, copy |-> pk.copy]
  /\ pk.frameSize \in Nat /\ pk.data \in Seq(0 .. 255) /\ pk.copy \in {0, 1}
IsDatagram(d) ==
  d = [to |-> d.to, len |-> d.len, pk |-> d.pk] /\ d.len \in Nat /\ IsPacket(d.pk)

\* Clients send packets with the right checksum, whatever else is wrong.
ASSUME RoutingAssumption ==
  /\ \A d \in Outgoing :
       /\ IsDatagram(d) /\ d.pk.copy = 0
       /\ d.pk.checksum = tcp_checksum(d.pk.data, 0)
  /\ max_packet \in Nat /\ R_BUFF_SIZE \in Nat

(***************************************************************************)
(* Sending                                                                 *)
(***************************************************************************)
Datagram(addr, pk) == [to |-> addr, len |-> pk.frameSize, pk |-> pk]

\* send_packet() to the rule's router, send_packet_direct() for "*".
Forward(rule, pk) == Datagram(IF rule.remote = STAR THEN pk.dst ELSE rule.remote, pk)

\* Mutant: the acknowledgement keeps the direction of the packet.
AckOf_SameWay(pk) ==
  [frameSize |-> HEADER_SIZE, src |-> pk.src, dst |-> pk.dst,
   seq |-> pk.seq, control |-> CTL_ACK, checksum |-> 0,
   data |-> << >>, copy |-> pk.copy]
AckOf(pk) ==
  [frameSize |-> HEADER_SIZE, src |-> pk.dst, dst |-> pk.src,
   seq |-> pk.seq, control |-> CTL_ACK, checksum |-> 0,
   data |-> << >>, copy |-> pk.copy]

\* The rules are asked for the source, where the acknowledgement goes.
ack_response(r, pk) ==
  {Forward(rule, AckOf(pk)) : rule \in route_get_by_dst(r, pk.src)}

\* What proc_mine() sends; an acknowledgement finds no task.
proc_mine(r, pk) == IF pk.control = CTL_SEND THEN ack_response(r, pk) ELSE {}

(***************************************************************************)
(* Receiving                                                               *)
(***************************************************************************)

\* What recvfrom() returns of the length of a datagram.
Received(d) == IF d.len > R_BUFF_SIZE THEN R_BUFF_SIZE ELSE d.len

\* routing_parse() accepts the packet of d, stray being the byte behind it.
WellFormed(d, stray) ==
  /\ d.pk.frameSize <= max_packet
  /\ d.pk.frameSize = Received(d)
  /\ tcp_checksum(d.pk.data, stray) = d.pk.checksum

\* routing_proc(): the packet is for this router, or goes on.  rest are the
\* other datagrams on their way.
ProcMine(r, pk, rest) ==
  /\ is_mine_ip(r, pk.dst[1])
  /\ TRUE \in get_local_port(r, pk.dst[2])
  /\ net' = rest \cup proc_mine(r, pk)
  /\ delivered' = delivered \cup {pk}
  /\ missed' = FALSE
ProcOther(r, pk, rest) ==
  /\ is_mine_ip(r, pk.dst[1]) => FALSE \in get_local_port(r, pk.dst[2])
  /\ net' = rest \cup {Forward(rule, pk) : rule \in route_get_by_dst(r, pk.dst)}
  /\ missed' = (is_mine_ip(r, pk.dst[1]) /\ pk.dst[2] \in local_ports[r])
  /\ UNCHANGED delivered

\* The kernel hands r the datagrams sent to its socket.
Arrived(r) ==
  {d \in net : r \in up /\ d.to[1] \in Interfaces[r] /\ d.to[2] = PortOf[r]}

\* routing_read(), the three ways routing_parse() takes.
ReadPacket(r, d) ==
  /\ Received(d) >= HEADER_SIZE
  /\ \E stray \in Stray : WellFormed(d, stray)
  /\ ProcMine(r, d.pk, net \ {d}) \/ ProcOther(r, d.pk, net \ {d})
  /\ UNCHANGED <<routes, local_ports, up, echo_conn, posted, refused, twice>>
ReadBroken(r, d) ==
  /\ Received(d) >= HEADER_SIZE
  /\ \E stray \in Stray : ~WellFormed(d, stray)
  /\ net' = net \ {d}
  /\ refused' = refused \cup {d}
  /\ missed' = FALSE
  /\ UNCHANGED <<routes, local_ports, up, echo_conn, posted, delivered, twice>>
ReadShort(r, d) ==
  /\ Received(d) \in 1 .. HEADER_SIZE - 1
  /\ net' = net \ {d}
  /\ missed' = FALSE
  /\ UNCHANGED <<routes, local_ports, up, echo_conn, posted, delivered, refused, twice>>

\* routing_read() takes an empty datagram, or a failing recvfrom(), for the
\* end of the connection: it closes the socket and calls echo_disconnect(),
\* which frees the buffer and counts one TCP echo connection less, although
\* none was counted for the socket.
ReadClose(r, d) ==
  /\ net' = net \ {d}
  /\ up' = up \ {r}
  /\ echo_conn' = [echo_conn EXCEPT ![r] = @ - 1]
  /\ missed' = FALSE
  /\ UNCHANGED <<routes, local_ports, posted, delivered, refused, twice>>
ReadEmpty(r, d) == Received(d) = 0 /\ ReadClose(r, d)

Read(r) ==
  \E d \in Arrived(r) :
    ReadPacket(r, d) \/ ReadBroken(r, d) \/ ReadShort(r, d) \/ ReadEmpty(r, d)

\* The kernel finds a datagram damaged after it reported it: recvfrom() fails.
ReadFails(r) == \E d \in Arrived(r) : ReadClose(r, d)

(***************************************************************************)
(* Clients and the network                                                 *)
(***************************************************************************)
Send(d) ==
  /\ Cardinality(posted) < MaxSends
  /\ posted' = posted \cup {d}
  /\ net' = net \cup {d}
  /\ missed' = FALSE
  /\ UNCHANGED <<routes, local_ports, up, echo_conn, delivered, refused, twice>>

Duplicate(d) ==
  /\ d.pk.copy = 0 /\ Cardinality(twice) < MaxCopies /\ d \notin twice
  /\ twice' = twice \cup {d}
  /\ net' = net \cup {[d EXCEPT !.pk.copy = 1]}
  /\ missed' = FALSE
  /\ UNCHANGED <<routes, local_ports, up, echo_conn, posted, delivered, refused>>

\* A datagram reaches a client or a closed port, or is lost.
Leave(d) ==
  /\ net' = net \ {d}
  /\ missed' = FALSE
  /\ UNCHANGED <<routes, local_ports, up, echo_conn, posted, delivered, refused, twice>>
Elsewhere == {d \in net : \A r \in Router : d \notin Arrived(r)}

RouteNext ==
  \/ \E r \in Router : Start(r) \/ Read(r) \/ ReadFails(r)
  \/ \E d \in Outgoing \ posted : Send(d)
  \/ \E d \in net : Duplicate(d) \/ Leave(d)

\* The loop of a running router reads what arrives; what goes elsewhere is
\* gone some time.
RouteSpec ==
  /\ RouteInit /\ [][RouteNext]_routeVars
  /\ \A r \in Router : WF_routeVars(Read(r))
  /\ WF_routeVars(\E d \in Elsewhere : Leave(d))

(***************************************************************************)
(* Properties                                                              *)
(***************************************************************************)

\* The packet the client sent, whatever copy of it this is.
Original(pk) == [pk EXCEPT !.copy = 0]
SentPackets == {d.pk : d \in posted}

(* An acknowledgement on its way, unless a client made it, answers a       *)
(* packet that reached the router it was addressed to: it names that       *)
(* packet, comes from where the packet was going and goes to where it came *)
(* from, however many routers, copies and losses lie between               *)
(* (proto_routing.c:91-168).                                               *)
AckAnswersDelivery ==
  \A d \in net : d.pk.control = CTL_ACK =>
    \/ Original(d.pk) \in SentPackets
    \/ \E pk \in delivered :
         /\ pk.control = CTL_SEND /\ Original(pk) \in SentPackets
         /\ pk.seq = d.pk.seq /\ pk.src = d.pk.dst /\ pk.dst = d.pk.src

(* What is refused as broken (proto_routing.c:231-259): a datagram whose   *)
(* lengths are wrong, an acknowledgement of a router, whose checksum is    *)
(* set to 0 and that of no data is 65535, or a packet for whose data the   *)
(* checksum takes in the byte behind it.  All others pass at every hop.    *)
RefusedForCause ==
  \A d \in refused :
    \/ d.pk.frameSize # d.len \/ d.len > R_BUFF_SIZE \/ d.pk.frameSize > max_packet
    \/ d.pk.control = CTL_ACK /\ Original(d.pk) \notin SentPackets
    \/ Len(d.pk.data) % 2 = 0 /\ Len(d.pk.data) % 8 # 0

(* The network empties: no packet travels between the routers for ever.    *)
(* A packet carries no hop count, so this rests on the rules, and on a     *)
(* router that recognises its own packets: one whose port is missed again  *)
(* and again may be sent by a router to itself (proto_routing.c:172-217).  *)
Settles == <>[](net = {}) \/ []<>missed
=============================================================================
