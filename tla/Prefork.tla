-------------------------------- MODULE Prefork --------------------------------
(***************************************************************************)
(* Fork mode (global.nbproc > 1 in src/src/zeroserv.c): main() binds the   *)
(* listener, forks the workers and exits; every worker opens an epoll      *)
(* descriptor of its own (poll_fork), arms the shared listener             *)
(* (protocol_enable_all) and runs the loop.  The kernel wakes every worker *)
(* that watches the listener; the one that calls accept() first gets the   *)
(* connection and the others get EAGAIN.                                   *)
(*                                                                         *)
(* The same holds for a UDP listener (src/src/proto_udp.c), whose read     *)
(* callback is the handler itself: the worker that calls recvfrom() first  *)
(* gets the datagram.  kind says which of the two the listener is.         *)
(*                                                                         *)
(* Only the listener matters here, so FD has one element and a worker is   *)
(* its poller.                                                             *)
(***************************************************************************)
EXTENDS PollerOps

CONSTANTS
  Listener,     \* the shared listening descriptor
  Worker,       \* the forked processes, global.nbproc of them
  MaxConnects   \* bound: connections or datagrams of the peers

ASSUME PreforkAssumption == FD = {Listener} /\ MaxConnects \in Nat

VARIABLES
  kind,      \* "tcp" or "udp"
  poll,      \* poll[w]: the worker's poller
  epoll,     \* epoll[w]: what the worker's epoll descriptor watches
  phase,     \* "loop" or "accept" (poll_do() has a listener event to dispatch)
  closed,    \* the workers that closed their copy of the descriptor
  conn,      \* conn[w]: what UDP closes added to _stat.conn in the worker
  backlog,   \* the socket's connections or datagrams, shared by all workers
  connects,  \* connections or datagrams made so far
  last,      \* the worker that accepted or received last (history)
  emptied    \* an empty datagram was received (history)

forkVars == <<kind, poll, epoll, phase, closed, conn, backlog, connects, last, emptied>>

\* udp_enable(), and tcp_enable() likewise: EV_FD_SET on the listener.
udp_enable(p) == fd_set(p, Listener, "RD")

ForkInit ==
  /\ kind \in {"tcp", "udp"}
  /\ poll = [w \in Worker |-> udp_enable(poll_init)]
  /\ epoll = [w \in Worker |-> [fd \in FD |-> {}]]
  /\ phase = [w \in Worker |-> "loop"]
  /\ closed = {}
  /\ conn = [w \in Worker |-> 0]
  /\ backlog = << >>
  /\ connects = 0
  /\ last = {}
  /\ emptied = FALSE

\* poll_do(): the listener has at most one change to replay; then sleep until
\* the listener is readable or the wait times out.  The event of a descriptor
\* this worker closed is skipped.
PollWait(w) ==
  /\ phase[w] = "loop"
  /\ LET p == poll[w]
         k == IF p.chg = << >> THEN epoll[w] ELSE flush_ctl(p, epoll[w], FD, 1)
         q == IF p.chg = << >> THEN p ELSE flush_end(flush_ptr(p, 1))
     IN  /\ poll' = [poll EXCEPT ![w] = q]
         /\ epoll' = [epoll EXCEPT ![w] = k]
         /\ phase' = [phase EXCEPT ![w] = IF /\ "RD" \in k[Listener] /\ backlog # << >>
                                             /\ w \notin closed
                                          THEN "accept" ELSE "loop"]
  /\ UNCHANGED <<kind, closed, conn, backlog, connects, last, emptied>>

\* The bits of the value event_accept() leaves in the return register when
\* accept() fails: errno, EAGAIN = 11 = ZB_CLOSE_RD | ZB_CLOSE_WR | ZB_SET_WR.
EAGAIN_flags == {"CLOSE_RD", "CLOSE_WR", "SET_WR"}

\* Mutant: a worker that accepted stops listening as well.
accept_ret_Greedy(n) ==
  IF n > 0 THEN {"CLOSE_RD"} ELSE EAGAIN_flags

\* What event_accept() returns, the accept queue holding n connections.
accept_ret(n) == IF n > 0 THEN {} ELSE EAGAIN_flags

\* Dispatch of the listener's event: event_accept(), then recheck_state() twice
\* with its result, since a listener's event has no EPOLLOUT.
Accept(w) ==
  /\ phase[w] = "accept" /\ kind = "tcp"
  /\ LET ret == accept_ret(Len(backlog))
         p   == recheck_flags(poll[w], Listener, ret)
     IN  poll' = [poll EXCEPT ![w] = recheck_flags(p, Listener, ret)]
  /\ backlog' = IF backlog = << >> THEN backlog ELSE Tail(backlog)
  /\ last' = IF backlog = << >> THEN last ELSE {w}
  /\ phase' = [phase EXCEPT ![w] = "loop"]
  /\ UNCHANGED <<kind, epoll, closed, conn, connects, emptied>>

\* Dispatch of a datagram to echo_udp_read(): it is sent back, and the callback
\* returns ZB_NOP.
UdpRead(w) ==
  /\ phase[w] = "accept" /\ kind = "udp"
  /\ backlog # << >> /\ Head(backlog) = "data"
  /\ backlog' = Tail(backlog)
  /\ last' = {w}
  /\ phase' = [phase EXCEPT ![w] = "loop"]
  /\ UNCHANGED <<kind, poll, epoll, closed, conn, connects, emptied>>

\* recvfrom() fails because another worker was faster, or returns 0 for an empty
\* datagram: echo_udp_read() takes both for a disconnect, calls fd_delete() and
\* echo_disconnect(), which counts one TCP echo connection less.
\* close() does not end epoll's interest, since the other workers still hold
\* the socket.
UdpClose(w) ==
  /\ phase[w] = "accept" /\ kind = "udp"
  /\ backlog # << >> => Head(backlog) = "empty"
  /\ backlog' = IF backlog = << >> THEN backlog ELSE Tail(backlog)
  /\ emptied' = (emptied \/ backlog # << >>)
  /\ poll' = [poll EXCEPT ![w] = fd_clo(@, Listener)]
  /\ closed' = closed \cup {w}
  /\ conn' = [conn EXCEPT ![w] = @ - 1]
  /\ phase' = [phase EXCEPT ![w] = "loop"]
  /\ UNCHANGED <<kind, epoll, connects, last>>

Connect ==
  /\ connects < MaxConnects
  /\ connects' = connects + 1
  /\ \E x \in IF kind = "tcp" THEN {"conn"} ELSE {"data", "empty"} :
       backlog' = Append(backlog, x)
  /\ UNCHANGED <<kind, poll, epoll, phase, closed, conn, last, emptied>>

Step(w) == PollWait(w) \/ Accept(w) \/ UdpRead(w) \/ UdpClose(w)

ForkNext == Connect \/ \E w \in Worker : Step(w)

\* Every worker is scheduled and its wait times out.
ForkSpec == ForkInit /\ [][ForkNext]_forkVars /\ \A w \in Worker : WF_forkVars(Step(w))

----------------------------------------------------------------------------

Armed(w) == "RD" \in poll[w].evts[Listener]

\* Losing the race for a connection costs a worker its listener, and losing the
\* race for a datagram its socket, but never the last
\* one: the worker that accepted or received most recently still listens.  Only
\* an empty datagram can take the socket from the last worker (client.c:48,
\* echo_udp.c:62).
LastListens ==
  \/ emptied
  \/ /\ \A w \in last : Armed(w) /\ w \notin closed
     /\ last = {} => \A w \in Worker : Armed(w)

\* A connection or a datagram in the shared queue is taken by some worker, unless
\* an empty datagram made workers close the socket.
AcceptProgress == (backlog # << >>) ~> (backlog = << >> \/ emptied)

=============================================================================
