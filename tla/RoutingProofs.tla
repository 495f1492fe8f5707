----------------------------- MODULE RoutingProofs -----------------------------
(***************************************************************************)
(* Proofs about Routing for any routers, rules and clients, and any loss,  *)
(* copying and order of the datagrams: where an acknowledgement comes      *)
(* from, and why a datagram is refused.                                    *)
(***************************************************************************)
EXTENDS Routing, TLAPS

----------------------------------------------------------------------------
(* Packets and their copies.                                               *)

\* A packet differs from its original at most in the number of the copy.
LEMMA OriginalFacts ==
  ASSUME NEW pk, IsPacket(pk)
  PROVE  /\ IsPacket(Original(pk))
         /\ Original(pk).control = pk.control /\ Original(pk).checksum = pk.checksum
         /\ Original(pk).data = pk.data /\ Original(pk).seq = pk.seq
         /\ Original(pk).src = pk.src /\ Original(pk).dst = pk.dst
         /\ pk.copy = 0 => Original(pk) = pk
BY DEF IsPacket, Original

\* The network's copy has the same original.
LEMMA CopyFacts ==
  ASSUME NEW d, IsDatagram(d),
         NEW c, c = [d EXCEPT !.pk.copy = 1]
  PROVE  /\ IsDatagram(c) /\ Original(c.pk) = Original(d.pk)
         /\ c.pk.control = d.pk.control /\ c.pk.checksum = d.pk.checksum
         /\ c.pk.data = d.pk.data /\ c.pk.seq = d.pk.seq
         /\ c.pk.src = d.pk.src /\ c.pk.dst = d.pk.dst
<1> DEFINE q == [d.pk EXCEPT !.copy = 1]
<1>1. /\ d = [to |-> d.to, len |-> d.len, pk |-> d.pk]
      /\ d.len \in Nat /\ IsPacket(d.pk)
  BY DEF IsDatagram
<1>2. /\ IsPacket(q) /\ q.control = d.pk.control /\ q.checksum = d.pk.checksum
      /\ q.data = d.pk.data /\ q.seq = d.pk.seq /\ q.src = d.pk.src /\ q.dst = d.pk.dst
  BY <1>1 DEF IsPacket
<1>3. Original(q) = Original(d.pk)
  BY <1>1 DEF IsPacket, Original
<1>4. c = [d EXCEPT !.pk = q]
  OBVIOUS
<1> HIDE DEF q
<1>5. c = [to |-> d.to, len |-> d.len, pk |-> q]
  BY <1>1, <1>4
<1>6. IsDatagram(c) /\ c.pk = q
  BY <1>1, <1>2, <1>5 DEF IsDatagram
<1> QED
  BY <1>2, <1>3, <1>6

\* A router that passes a packet on leaves it as it is.
LEMMA ForwardFacts ==
  ASSUME NEW rule, NEW pk, IsPacket(pk)
  PROVE  IsDatagram(Forward(rule, pk)) /\ Forward(rule, pk).pk = pk
BY DEF IsDatagram, IsPacket, Forward, Datagram

\* The acknowledgement of a packet.
LEMMA AckFacts ==
  ASSUME NEW pk, IsPacket(pk)
  PROVE  /\ IsPacket(AckOf(pk))
         /\ AckOf(pk).control = CTL_ACK /\ AckOf(pk).checksum = 0
         /\ AckOf(pk).data = << >> /\ AckOf(pk).seq = pk.seq
         /\ AckOf(pk).src = pk.dst /\ AckOf(pk).dst = pk.src
<1>1. << >> \in Seq(0 .. 255)
  OBVIOUS
<1> QED
  BY <1>1 DEF IsPacket, AckOf, HEADER_SIZE

\* The checksum of no data is 65535, so that an acknowledgement of a router, which
\* carries 0, is told from one that a client made.
LEMMA ChecksumOfNothing ==
  ASSUME NEW stray PROVE tcp_checksum(<< >>, stray) = 65535
<1>1. WordSum(<< >>) = 0
  <2> DEFINE F(g) == [i \in 0 .. Len(<< >>) \div 2 |->
                        IF i = 0 THEN 0
                        ELSE g[i - 1] + << >>[2 * i - 1] + 256 * << >>[2 * i]]
             add == CHOOSE g : g = F(g)
  <2>1. Len(<< >>) \div 2 = 0
    OBVIOUS
  <2>2. WordSum(<< >>) = add[0]
    BY <2>1 DEF WordSum
  <2>3. \E g : g = F(g)
    <3>1. [i \in 0 .. 0 |-> 0] = F([i \in 0 .. 0 |-> 0])
      BY <2>1
    <3> QED
      BY <3>1
  <2>4. add = F(add)
    BY <2>3
  <2> HIDE DEF add
  <2>5. add[0] = 0
    BY <2>1, <2>4
  <2> QED
    BY <2>2, <2>5
<1>2. TailByte(<< >>, stray) = 0
  BY DEF TailByte
<1> QED
  BY <1>1, <1>2 DEF tcp_checksum, Folded

\* The byte behind the data counts only if the length is even and no multiple of 8.
LEMMA StrayCounts ==
  ASSUME NEW data, NEW s1, NEW s2,
         ~ (Len(data) % 2 = 0 /\ Len(data) % 8 # 0), Len(data) \in Nat
  PROVE  tcp_checksum(data, s1) = tcp_checksum(data, s2)
<1>1. TailByte(data, s1) = TailByte(data, s2)
  BY DEF TailByte
<1> QED
  BY <1>1 DEF tcp_checksum
----------------------------------------------------------------------------
(* Where the packets on their way come from.  An acknowledgement of a      *)
(* router carries no data and the checksum 0.                              *)

FromClient(pk) == Original(pk) \in SentPackets
Bounced(pk) == pk.control = CTL_ACK /\ pk.checksum = 0 /\ pk.data = << >>
Answers(pk) ==
  \E q \in delivered :
    /\ q.control = CTL_SEND /\ FromClient(q)
    /\ q.seq = pk.seq /\ q.src = pk.dst /\ q.dst = pk.src

Typed ==
  /\ posted \subseteq Outgoing
  /\ \A d \in net \cup refused : IsDatagram(d)
Origins == \A d \in net : FromClient(d.pk) \/ (Bounced(d.pk) /\ Answers(d.pk))
Causes ==
  \A d \in refused :
    \/ d.pk.frameSize # d.len \/ d.len > R_BUFF_SIZE \/ d.pk.frameSize > max_packet
    \/ Bounced(d.pk)
    \/ Len(d.pk.data) % 2 = 0 /\ Len(d.pk.data) % 8 # 0
RoutingInv == Typed /\ Origins /\ Causes

\* A packet of a client is as the client made it.
LEMMA ClientFacts ==
  ASSUME posted \subseteq Outgoing, NEW pk, IsPacket(pk), FromClient(pk)
  PROVE  pk.checksum = tcp_checksum(pk.data, 0)
<1>1. PICK e \in posted : Original(pk) = e.pk
  BY DEF FromClient, SentPackets
<1>2. e.pk.checksum = tcp_checksum(e.pk.data, 0)
  BY RoutingAssumption
<1> QED
  BY <1>1, <1>2, OriginalFacts

\* The acknowledgement of a router is none that a client sent.
LEMMA BouncedIsNotSent ==
  ASSUME posted \subseteq Outgoing, NEW pk, IsPacket(pk), Bounced(pk)
  PROVE  ~ FromClient(pk)
BY ClientFacts, ChecksumOfNothing DEF Bounced

\* What was sent and delivered stays so, and the rest of a step's datagrams keep
\* their origin.
LEMMA OriginsKept ==
  ASSUME posted \subseteq posted', delivered \subseteq delivered', NEW pk,
         FromClient(pk) \/ (Bounced(pk) /\ Answers(pk))
  PROVE  FromClient(pk)' \/ (Bounced(pk) /\ Answers(pk)')
BY DEF FromClient, SentPackets, Answers
----------------------------------------------------------------------------
(* The steps.                                                              *)

\* Most steps leave datagrams out, or add one whose origin is known.
LEMMA NetStep ==
  ASSUME RoutingInv, posted \subseteq posted', posted' \subseteq Outgoing,
         delivered \subseteq delivered', refused' = refused,
         \A d \in net' : d \in net \/
           (IsDatagram(d) /\ (FromClient(d.pk)' \/ (Bounced(d.pk) /\ Answers(d.pk)')))
  PROVE  RoutingInv'
<1>1. Typed'
  BY DEF RoutingInv, Typed
<1>2. Origins'
  <2> SUFFICES ASSUME NEW d \in net'
               PROVE  FromClient(d.pk)' \/ (Bounced(d.pk) /\ Answers(d.pk)')
    BY DEF Origins
  <2>1. CASE d \in net
    BY <2>1, OriginsKept DEF RoutingInv, Origins
  <2> QED
    BY <2>1
<1>3. Causes'
  BY DEF RoutingInv, Causes
<1> QED
  BY <1>1, <1>2, <1>3 DEF RoutingInv

\* A router takes a sound packet: forwards, delivers or drops it.
LEMMA ReadPacketStep ==
  ASSUME RoutingInv, NEW r \in Router, NEW d \in net, ReadPacket(r, d)
  PROVE  RoutingInv'
<1>1. /\ IsDatagram(d) /\ IsPacket(d.pk) /\ posted \subseteq Outgoing
      /\ FromClient(d.pk) \/ (Bounced(d.pk) /\ Answers(d.pk))
  BY DEF RoutingInv, Typed, Origins, IsDatagram
<1>2. posted' = posted /\ refused' = refused
  BY DEF ReadPacket
<1>3. CASE ProcMine(r, d.pk, net \ {d})
  <2>1. delivered' = delivered \cup {d.pk}
    BY <1>3 DEF ProcMine
  <2>2. ASSUME NEW e \in net', e \notin net
        PROVE  IsDatagram(e) /\ Bounced(e.pk) /\ Answers(e.pk)'
    <3>1. e \in proc_mine(r, d.pk)
      BY <1>3, <2>2 DEF ProcMine
    <3>2. d.pk.control = CTL_SEND
      BY <3>1 DEF proc_mine
    <3>3. PICK rule \in route_get_by_dst(r, d.pk.src) : e = Forward(rule, AckOf(d.pk))
      BY <3>1, <3>2 DEF proc_mine, ack_response
    <3>4. IsDatagram(e) /\ e.pk = AckOf(d.pk)
      BY <1>1, <3>3, AckFacts, ForwardFacts
    <3>5. FromClient(d.pk)
      BY <1>1, <3>2 DEF Bounced, CTL_ACK, CTL_SEND
    <3>6. FromClient(d.pk)'
      BY <1>2, <3>5 DEF FromClient, SentPackets
    <3>7. /\ e.pk.control = CTL_ACK /\ e.pk.checksum = 0 /\ e.pk.data = << >>
          /\ e.pk.seq = d.pk.seq /\ e.pk.src = d.pk.dst /\ e.pk.dst = d.pk.src
      BY <1>1, <3>4, AckFacts
    <3>8. d.pk \in delivered'
      BY <2>1
    <3> QED
      BY <3>2, <3>4, <3>6, <3>7, <3>8 DEF Bounced, Answers
  <2> QED
    BY <1>1, <1>2, <2>1, <2>2, NetStep
<1>4. CASE ProcOther(r, d.pk, net \ {d})
  <2>1. delivered' = delivered
    BY <1>4 DEF ProcOther
  <2>2. ASSUME NEW e \in net', e \notin net
        PROVE  IsDatagram(e) /\ e.pk = d.pk
    <3>1. PICK rule \in route_get_by_dst(r, d.pk.dst) : e = Forward(rule, d.pk)
      BY <1>4, <2>2 DEF ProcOther
    <3> QED
      BY <1>1, <3>1, ForwardFacts
  <2>3. FromClient(d.pk)' \/ (Bounced(d.pk) /\ Answers(d.pk)')
    BY <1>1, <1>2, <2>1, OriginsKept
  <2>4. ASSUME NEW e \in net', e \notin net
        PROVE  FromClient(e.pk)' \/ (Bounced(e.pk) /\ Answers(e.pk)')
    BY <2>2, <2>3, <2>4
  <2> QED
    BY <1>1, <1>2, <2>1, <2>2, <2>4, NetStep
<1> QED
  BY <1>3, <1>4 DEF ReadPacket

\* A router refuses a packet.
LEMMA ReadBrokenStep ==
  ASSUME RoutingInv, NEW r \in Router, NEW d \in net, ReadBroken(r, d)
  PROVE  RoutingInv'
<1>1. /\ IsDatagram(d) /\ IsPacket(d.pk) /\ posted \subseteq Outgoing
      /\ FromClient(d.pk) \/ (Bounced(d.pk) /\ Answers(d.pk))
  BY DEF RoutingInv, Typed, Origins, IsDatagram
<1>2. /\ net' = net \ {d} /\ refused' = refused \cup {d}
      /\ posted' = posted /\ delivered' = delivered
  BY DEF ReadBroken
<1>3. \/ d.pk.frameSize # d.len \/ d.len > R_BUFF_SIZE \/ d.pk.frameSize > max_packet
      \/ Bounced(d.pk)
      \/ Len(d.pk.data) % 2 = 0 /\ Len(d.pk.data) % 8 # 0
  <2>1. PICK stray \in Stray : ~ WellFormed(d, stray)
    BY DEF ReadBroken
  <2>2. CASE tcp_checksum(d.pk.data, stray) = d.pk.checksum
    <3>1. d.pk.frameSize \in Nat /\ d.len \in Nat
      BY <1>1 DEF IsPacket, IsDatagram
    <3>2. ~ (d.pk.frameSize <= max_packet) \/ d.pk.frameSize # Received(d)
      BY <2>1, <2>2 DEF WellFormed
    <3>3. max_packet \in Nat /\ R_BUFF_SIZE \in Nat
      BY RoutingAssumption
    <3>4. CASE d.len > R_BUFF_SIZE
      BY <3>4
    <3>5. CASE ~ (d.len > R_BUFF_SIZE)
      <4>1. Received(d) = d.len
        BY <3>5 DEF Received
      <4>2. ~ (d.pk.frameSize <= max_packet) => d.pk.frameSize > max_packet
        BY <3>1, <3>3
      <4> QED
        BY <3>2, <4>1, <4>2
    <3> QED
      BY <3>4, <3>5
  <2>3. CASE tcp_checksum(d.pk.data, stray) # d.pk.checksum /\ FromClient(d.pk)
    <3>1. tcp_checksum(d.pk.data, stray) # tcp_checksum(d.pk.data, 0)
      BY <1>1, <2>3, ClientFacts
    <3>2. Len(d.pk.data) \in Nat
      BY <1>1 DEF IsPacket
    <3> QED
      BY <3>1, <3>2, StrayCounts
  <2>4. CASE Bounced(d.pk)
    BY <2>4
  <2> QED
    BY <1>1, <2>2, <2>3, <2>4
<1>4. Typed'
  BY <1>1, <1>2 DEF RoutingInv, Typed
<1>5. Origins'
  BY <1>2, OriginsKept DEF RoutingInv, Origins
<1>6. Causes'
  BY <1>2, <1>3 DEF RoutingInv, Causes
<1> QED
  BY <1>4, <1>5, <1>6 DEF RoutingInv

\* The network copies a datagram.
LEMMA DuplicateStep ==
  ASSUME RoutingInv, NEW d \in net, Duplicate(d)
  PROVE  RoutingInv'
<1> DEFINE c == [d EXCEPT !.pk.copy = 1]
<1>1. /\ net' = net \cup {c}
      /\ posted' = posted /\ delivered' = delivered /\ refused' = refused
  BY DEF Duplicate
<1>2. /\ IsDatagram(d) /\ posted \subseteq Outgoing
      /\ FromClient(d.pk) \/ (Bounced(d.pk) /\ Answers(d.pk))
  BY DEF RoutingInv, Typed, Origins
<1>3. /\ IsDatagram(c) /\ Original(c.pk) = Original(d.pk)
      /\ c.pk.control = d.pk.control /\ c.pk.checksum = d.pk.checksum
      /\ c.pk.data = d.pk.data /\ c.pk.seq = d.pk.seq
      /\ c.pk.src = d.pk.src /\ c.pk.dst = d.pk.dst
  BY <1>2, CopyFacts
<1> HIDE DEF c
<1>4. FromClient(c.pk) \/ (Bounced(c.pk) /\ Answers(c.pk))
  BY <1>2, <1>3 DEF FromClient, Bounced, Answers
<1>5. FromClient(c.pk)' \/ (Bounced(c.pk) /\ Answers(c.pk)')
  BY <1>1, <1>4, OriginsKept DEF c
<1> QED
  BY <1>1, <1>2, <1>3, <1>5, NetStep

\* A client sends.
LEMMA SendStep ==
  ASSUME RoutingInv, NEW d \in Outgoing, Send(d)
  PROVE  RoutingInv'
<1>1. /\ net' = net \cup {d} /\ posted' = posted \cup {d}
      /\ delivered' = delivered /\ refused' = refused
  BY DEF Send
<1>2. IsDatagram(d) /\ d.pk.copy = 0 /\ IsPacket(d.pk)
  BY RoutingAssumption DEF IsDatagram
<1>3. Original(d.pk) = d.pk
  BY <1>2, OriginalFacts
<1>4. FromClient(d.pk)'
  BY <1>1, <1>3 DEF FromClient, SentPackets
<1>5. posted' \subseteq Outgoing
  BY <1>1 DEF RoutingInv, Typed
<1> QED
  BY <1>1, <1>2, <1>4, <1>5, NetStep

(* Whatever the routers pass on comes from a client or answers a packet    *)
(* that arrived, and whatever they refuse has one of three causes.         *)
THEOREM RoutingInvariant == RouteSpec => []RoutingInv
<1>1. RouteInit => RoutingInv
  BY DEF RouteInit, RoutingInv, Typed, Origins, Causes
<1>2. RoutingInv /\ [RouteNext]_routeVars => RoutingInv'
  <2> SUFFICES ASSUME RoutingInv, [RouteNext]_routeVars PROVE RoutingInv'
    OBVIOUS
  <2>0. posted \subseteq Outgoing
    BY DEF RoutingInv, Typed
  <2>1. ASSUME NEW r \in Router, Start(r) PROVE RoutingInv'
    BY <2>0, <2>1, NetStep DEF Start
  <2>2. ASSUME NEW r \in Router, NEW d \in net, ReadShort(r, d) \/ ReadClose(r, d)
        PROVE  RoutingInv'
    BY <2>0, <2>2, NetStep DEF ReadShort, ReadClose
  <2>3. ASSUME NEW r \in Router, Read(r) \/ ReadFails(r) PROVE RoutingInv'
    <3>1. PICK d \in net :
            ReadPacket(r, d) \/ ReadBroken(r, d) \/ ReadShort(r, d) \/ ReadClose(r, d)
      BY <2>3 DEF Read, ReadFails, ReadEmpty, Arrived
    <3> QED
      BY <2>2, <3>1, ReadPacketStep, ReadBrokenStep
  <2>4. ASSUME NEW d \in net, Leave(d) PROVE RoutingInv'
    BY <2>0, <2>4, NetStep DEF Leave
  <2>5. CASE UNCHANGED routeVars
    BY <2>0, <2>5, NetStep DEF routeVars
  <2> QED
    BY <2>1, <2>3, <2>4, <2>5, DuplicateStep, SendStep DEF RouteNext
<1> QED
  BY <1>1, <1>2, PTL DEF RouteSpec

(* An acknowledgement that no client made answers a packet that reached    *)
(* the router it was addressed to (proto_routing.c:91-168).                *)
THEOREM AcksAnswerDeliveries == RouteSpec => []AckAnswersDelivery
<1>1. RoutingInv => AckAnswersDelivery
  BY DEF RoutingInv, Origins, AckAnswersDelivery, FromClient, Answers
<1> QED
  BY <1>1, RoutingInvariant, PTL

(* What is refused is malformed, the acknowledgement of a router, or its   *)
(* checksum takes in a byte behind it (proto_routing.c:231-259).           *)
THEOREM RefusalsHaveCause == RouteSpec => []RefusedForCause
<1>1. RoutingInv => RefusedForCause
  <2> SUFFICES ASSUME RoutingInv, NEW d \in refused
               PROVE  \/ d.pk.frameSize # d.len \/ d.len > R_BUFF_SIZE
                      \/ d.pk.frameSize > max_packet
                      \/ d.pk.control = CTL_ACK /\ Original(d.pk) \notin SentPackets
                      \/ Len(d.pk.data) % 2 = 0 /\ Len(d.pk.data) % 8 # 0
    BY DEF RefusedForCause
  <2>1. IsPacket(d.pk) /\ posted \subseteq Outgoing
    BY DEF RoutingInv, Typed, IsDatagram
  <2>2. Bounced(d.pk) => d.pk.control = CTL_ACK /\ Original(d.pk) \notin SentPackets
    BY <2>1, BouncedIsNotSent DEF Bounced, FromClient
  <2> QED
    BY <2>2 DEF RoutingInv, Causes
<1> QED
  BY <1>1, RoutingInvariant, PTL
=============================================================================
