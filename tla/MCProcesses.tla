----------------------------- MODULE MCProcesses -----------------------------
(***************************************************************************)
(* Three parts for TLC in which processes or handlers run side by side:    *)
(* the workers of a listener (Prefork), a process and its signal handlers  *)
(* (SignalQueue), and routers on a network (Routing).  They share no state *)
(* and a behaviour is one of a single part, so that one run visits the     *)
(* states of each and not their products.                                  *)
(*                                                                         *)
(* Routing has two routers and a client behind each.  Router r1 sends what *)
(* is for r2's side there and everything else directly; r2 sends r1's side *)
(* to r1, the rest of its own side directly, and has a rule that does not  *)
(* parse.                                                                  *)
(***************************************************************************)
EXTENDS Prefork, SignalQueue, Routing

CONSTANTS r1, r2

Routers == {r1, r2}
RouterIps == [r \in Routers |-> IF r = r1 THEN {"a"} ELSE {"b"}]
RouterPort == [r \in Routers |-> 1]
A == <<"a", 1>>
B == <<"b", 1>>
H == <<"h", 2>>
G == <<"g", 2>>

Rule(match, remote) ==
  [match |-> match, remote |-> remote, long |-> FALSE, regex |-> TRUE,
   parses |-> remote # STAR]
RuleTables ==
  [r \in Routers |->
     IF r = r1 THEN <<Rule({B, G}, B), Rule({A, B, H, G}, STAR)>>
     ELSE <<[Rule({A, B, H, G}, B) EXCEPT !.parses = FALSE],
            Rule({A, H}, A), Rule({G}, STAR)>>]

Packet(src, dst, seq, control, data) ==
  [frameSize |-> HEADER_SIZE + Len(data), src |-> src, dst |-> dst, seq |-> seq,
   control |-> control, checksum |-> tcp_checksum(data, 0), data |-> data, copy |-> 0]

(* A packet through both routers, one for the far router, whose data has   *)
(* an even length, one for the near router, an acknowledgement, and        *)
(* datagrams whose lengths are wrong.                                      *)
Through == Packet(H, G, 1, CTL_SEND, <<7>>)
ForFar  == Packet(H, B, 2, CTL_SEND, <<7, 255>>)
ForNear == Packet(G, A, 3, CTL_SEND, << >>)
Datagrams ==
  {Datagram(A, Through), Datagram(A, ForFar), Datagram(B, ForNear),
   Datagram(B, Packet(G, B, 4, CTL_ACK, << >>)),
   [Datagram(A, Packet(H, G, 5, CTL_SEND, <<7>>)) EXCEPT !.len = @ + 16],
   [Datagram(A, Packet(H, G, 6, CTL_SEND, <<7>>)) EXCEPT !.len = 10],
   [Datagram(B, Packet(G, H, 7, CTL_SEND, <<7>>)) EXCEPT !.len = 0]}
StrayBytes == {0, 9}

----------------------------------------------------------------------------
(* One part per behaviour.                                                 *)

VARIABLE part
allVars == <<part, forkVars, vars, routeVars>>

PartsInit ==
  /\ part \in {"prefork", "signals", "routing"}
  /\ ForkInit /\ Init /\ RouteInit
  /\ part = "prefork" \/ kind = "tcp"

Fork(act)  == part = "prefork" /\ act /\ UNCHANGED <<part, vars, routeVars>>
Sigs(act)  == part = "signals" /\ act /\ UNCHANGED <<part, forkVars, routeVars>>
Route(act) == part = "routing" /\ act /\ UNCHANGED <<part, forkVars, vars>>

PartsNext ==
  \/ Fork(Connect)
  \/ \E w \in Worker : \/ Fork(PollWait(w)) \/ Fork(Accept(w))
                       \/ Fork(UdpRead(w)) \/ Fork(UdpClose(w))
  \/ \E s \in Sig : Sigs(Raise(s)) \/ Sigs(Deliver(s)) \/ Sigs(signal_register(s))
  \/ Sigs(HandlerTest) \/ Sigs(HandlerLoad) \/ Sigs(HandlerStoreLen)
  \/ Sigs(HandlerStoreSlot) \/ Sigs(HandlerReturn)
  \/ Sigs(signal_process_queue) \/ Sigs(ProcessEntry)
  \/ Sigs(ProcessEnd) \/ Sigs(PollAndTest)
  \/ \E r \in Router : Route(Start(r)) \/ Route(Read(r)) \/ Route(ReadFails(r))
  \/ \E d \in Outgoing \ posted : Route(Send(d))
  \/ \E d \in net : Route(Duplicate(d)) \/ Route(Leave(d))

\* The fairness of ForkSpec, Spec and RouteSpec.
PartsSpec ==
  /\ PartsInit /\ [][PartsNext]_allVars
  /\ \A w \in Worker : WF_allVars(Fork(Step(w)))
  /\ WF_allVars(Sigs(Process))
  /\ \A s \in Sig : WF_allVars(Sigs(Deliver(s)))
  /\ \A r \in Router : WF_allVars(Route(Read(r)))
  /\ WF_allVars(Route(\E d \in Elsewhere : Leave(d)))
=============================================================================
