---------------------------- MODULE EventLoopProofs ----------------------------
(***************************************************************************)
(* Proofs about EventLoop for any descriptors, listeners and limits: what  *)
(* a batch of events, the descriptor table, the change list and the        *)
(* kernel's interest list have to do with each other while descriptors are *)
(* closed and their numbers used again.                                    *)
(***************************************************************************)
EXTENDS EventLoop, PollerOpsProofs, FiniteSetTheorems

----------------------------------------------------------------------------
(* The server s between two callbacks.                                     *)

Fields(s) ==
  s = [poll |-> s.poll, epoll |-> s.epoll, open |-> s.open, state |-> s.state,
       owner |-> s.owner, buf |-> s.buf, conn |-> s.conn, maxfd |-> s.maxfd,
       gen |-> s.gen, left |-> s.left]

Typed(s) ==
  /\ s.poll \in PollerType
  /\ s.epoll \in [FD -> Masks]
  /\ s.open \subseteq FD
  /\ s.state \in [FD -> {"close", "listen", "conn"}]
  /\ s.owner \in [FD -> FD]
  /\ s.buf \in [FD -> {"null", "live", "freed"}]
  /\ s.conn \in Int
  /\ s.gen \in [FD -> Nat]
  /\ s.left \subseteq FD

\* The table and the kernel agree, and a connection has its buffer.
States(s) ==
  \A fd \in FD :
    /\ s.state[fd] = "listen" <=> fd \in Listeners
    /\ fd \in s.open <=> s.state[fd] # "close"
    /\ s.state[fd] = "conn" => s.buf[fd] = "live"

EchoOf(s) == {fd \in FD : s.state[fd] = "conn" /\ s.owner[fd] \in EchoListeners}
Counted(s) == s.conn = Cardinality(EchoOf(s))

\* Nothing is recorded or known of a closed descriptor, but for those a failed
\* http_write() left armed, and an echo connection is always to be read.
Watched(s) ==
  /\ Recorded(s.poll)
  /\ \A fd \in FD \ s.left : InStep(s.poll, s.epoll, fd)
  /\ \A fd \in FD \ s.open : s.epoll[fd] = {}
  /\ \A fd \in FD \ (s.open \cup s.left) : s.poll.evts[fd] = {}
  /\ \A fd \in EchoOf(s) : "RD" \in s.poll.evts[fd]

ServerInv(s) == Fields(s) /\ Typed(s) /\ States(s) /\ Counted(s) /\ Watched(s)

----------------------------------------------------------------------------
(* The batch.  Each descriptor has at most one event in a batch, and only  *)
(* the callbacks of its own event close it.                                *)

EventsOf(s, b, c, ret) ==
  /\ \A e \in b \cup c : e.fd \in FD /\ (e.fd \in Listeners => e.ev = {"RD"})
  /\ \A e \in b : s.state[e.fd] # "close" /\ s.gen[e.fd] = e.gen
  /\ \A e \in c : s.state[e.fd] # "close" =>
       s.gen[e.fd] = e.gen /\ ret \in {ZB_NOP, ZB_SET_WR}
  /\ \A e, f \in b \cup c : e.fd = f.fd => e = f
  /\ b \cap c = {}

Events == EventsOf(srv, batch, cur, zb_ret)

EventLoopInv ==
  /\ pc \in {"loop", "events", "done"}
  /\ pc # "events" => batch = {} /\ cur = {}
  /\ Events
  /\ pc # "done" => ServerInv(srv)
  /\ pc = "done" => Counted(srv) /\ \A fd \in Conns : srv.buf[fd] = "live"

----------------------------------------------------------------------------

\* accept() hands out a number that is free.
LEMMA LeastIsMember ==
  ASSUME NEW S, S \subseteq Nat, S # {}
  PROVE  Min(S) \in S
BY LeastNatural DEF Min

----------------------------------------------------------------------------
(* The server between two callbacks.                                       *)

\* t is s after the callbacks of an event of fd: the other descriptors in use
\* keep their connection, and fd is not given to another one.
Kin(s, t, fd) ==
  /\ \A g \in FD : s.state[g] # "close" /\ g # fd =>
       t.state[g] = s.state[g] /\ t.gen[g] = s.gen[g]
  /\ s.state[fd] = "close" => t.state[fd] = "close"
  /\ s.state[fd] # "close" /\ t.state[fd] # "close" => t.gen[fd] = s.gen[fd]

\* A step that leaves the table alone, and one after another.
LEMMA KinChain ==
  ASSUME NEW s, NEW t, NEW u, NEW fd \in FD
  PROVE  /\ t.state = s.state /\ t.gen = s.gen => Kin(s, t, fd)
         /\ Kin(s, t, fd) /\ Kin(t, u, fd) => Kin(s, u, fd)
<1>1. t.state = s.state /\ t.gen = s.gen => Kin(s, t, fd)
  BY DEF Kin
<1>2. ASSUME Kin(s, t, fd), Kin(t, u, fd) PROVE Kin(s, u, fd)
  BY <1>2 DEF Kin
<1> QED
  BY <1>1, <1>2

\* Wishes about a descriptor in use, or about one left armed.
LEMMA PollStep ==
  ASSUME NEW s, ServerInv(s), NEW q, NEW fd \in FD, Wished(s.poll, q, fd),
         fd \in s.open \cup s.left,
         fd \in EchoOf(s) => "RD" \in q.evts[fd]
  PROVE  ServerInv([s EXCEPT !.poll = q])
<1> DEFINE t == [s EXCEPT !.poll = q]
<1>1. /\ t.poll = q /\ t.epoll = s.epoll /\ t.open = s.open /\ t.state = s.state
      /\ t.owner = s.owner /\ t.buf = s.buf /\ t.conn = s.conn /\ t.maxfd = s.maxfd
      /\ t.gen = s.gen /\ t.left = s.left /\ Fields(t)
  BY DEF ServerInv, Fields
<1> HIDE DEF t
<1>2. Typed(t)
  BY <1>1 DEF ServerInv, Typed, Wished
<1>3. States(t)
  BY <1>1 DEF ServerInv, States
<1>4. EchoOf(t) = EchoOf(s)
  BY <1>1 DEF EchoOf
<1>5. Counted(t)
  BY <1>1, <1>4 DEF ServerInv, Counted
<1>6. Watched(t)
  <2>1. Recorded(q) /\ \A g \in FD \ s.left : InStep(q, s.epoll, g)
    BY DEF ServerInv, Watched, Wished, Typed
  <2>2. \A g \in FD \ (s.open \cup s.left) : q.evts[g] = {}
    BY DEF ServerInv, Watched, Wished
  <2>3. \A g \in EchoOf(s) : "RD" \in q.evts[g]
    <3>1. EchoOf(s) \subseteq FD
      BY DEF EchoOf
    <3> QED
      BY <3>1 DEF ServerInv, Watched, Wished
  <2> QED
    BY <1>1, <1>4, <2>1, <2>2, <2>3 DEF ServerInv, Watched
<1> QED
  BY <1>1, <1>2, <1>3, <1>5, <1>6 DEF ServerInv, t

\* http_write() failed: the number may be armed again after it was closed.
LEMMA LeftStep ==
  ASSUME NEW s, ServerInv(s), NEW fd \in FD
  PROVE  ServerInv([s EXCEPT !.left = @ \cup {fd}])
<1> DEFINE t == [s EXCEPT !.left = @ \cup {fd}]
<1>1. /\ t.poll = s.poll /\ t.epoll = s.epoll /\ t.open = s.open /\ t.state = s.state
      /\ t.owner = s.owner /\ t.buf = s.buf /\ t.conn = s.conn /\ t.maxfd = s.maxfd
      /\ t.gen = s.gen /\ t.left = s.left \cup {fd} /\ Fields(t)
  BY DEF ServerInv, Fields
<1> HIDE DEF t
<1>2. Typed(t)
  BY <1>1 DEF ServerInv, Typed
<1>3. States(t)
  BY <1>1 DEF ServerInv, States
<1>4. EchoOf(t) = EchoOf(s)
  BY <1>1 DEF EchoOf
<1>5. Counted(t)
  BY <1>1, <1>4 DEF ServerInv, Counted
<1>6. Watched(t)
  BY <1>1, <1>4 DEF ServerInv, Watched
<1> QED
  BY <1>1, <1>2, <1>3, <1>5, <1>6 DEF ServerInv, t

\* The open echo connections are finitely many.
LEMMA EchoFinite ==
  ASSUME NEW s
  PROVE  IsFiniteSet(EchoOf(s)) /\ EchoOf(s) \subseteq FD
<1>1. EchoOf(s) \in SUBSET FD /\ IsFiniteSet(FD)
  BY EventLoopAssumption DEF EchoOf
<1> QED
  BY <1>1, FS_Subset

\* fd_delete() and disconnect(): the number is free and nothing is left of it.
LEMMA DeleteStep ==
  ASSUME NEW s, ServerInv(s), NEW fd \in FD, s.state[fd] = "conn"
  PROVE  LET t == disconnect(fd_delete(s, fd), fd)
         IN  /\ ServerInv(t) /\ Kin(s, t, fd)
             /\ t.state[fd] = "close"
             /\ s.owner[fd] \notin EchoListeners => t = http_disconnect(fd_delete(s, fd), fd)
<1> DEFINE t == disconnect(fd_delete(s, fd), fd)
           echo == s.owner[fd] \in EchoListeners
<1>1. /\ t.poll = fd_clo(s.poll, fd) /\ t.epoll = [s.epoll EXCEPT ![fd] = {}]
      /\ t.open = s.open \ {fd} /\ t.left = s.left \ {fd}
      /\ t.state = [s.state EXCEPT ![fd] = "close"]
      /\ t.owner = s.owner /\ t.gen = s.gen
      /\ t.buf = [s.buf EXCEPT ![fd] = IF echo THEN "null" ELSE "freed"]
      /\ t.conn = IF echo THEN s.conn - 1 ELSE s.conn
      /\ Fields(t)
  BY DEF ServerInv, Fields, disconnect, fd_delete, echo_disconnect, http_disconnect
<1>2. ~ echo => t = http_disconnect(fd_delete(s, fd), fd)
  BY DEF ServerInv, Fields, disconnect, fd_delete
<1> HIDE DEF t
<1>3. /\ s.poll \in PollerType /\ s.epoll \in [FD -> Masks] /\ s.open \subseteq FD
      /\ s.state \in [FD -> {"close", "listen", "conn"}]
      /\ s.owner \in [FD -> FD] /\ s.buf \in [FD -> {"null", "live", "freed"}]
      /\ s.conn \in Int /\ s.gen \in [FD -> Nat] /\ s.left \subseteq FD
  BY DEF ServerInv, Typed
<1>4. /\ t.epoll \in [FD -> Masks] /\ t.epoll[fd] = {}
      /\ \A g \in FD : g # fd => t.epoll[g] = s.epoll[g]
  BY <1>1, <1>3 DEF Masks
<1>5. /\ t.poll \in PollerType /\ Recorded(t.poll) /\ InStep(t.poll, t.epoll, fd)
      /\ t.poll.evts = [s.poll.evts EXCEPT ![fd] = {}]
      /\ \A g \in FD : g # fd /\ InStep(s.poll, t.epoll, g) => InStep(t.poll, t.epoll, g)
  <2>1. Recorded(s.poll)
    BY DEF ServerInv, Watched
  <2> DEFINE p == s.poll
             k == t.epoll
  <2>2. p \in PollerType /\ Recorded(p) /\ k \in [FD -> Masks] /\ k[fd] = {}
    BY <1>3, <1>4, <2>1
  <2> HIDE DEF p, k
  <2>3. /\ fd_clo(p, fd) \in PollerType /\ Recorded(fd_clo(p, fd)) /\ InStep(fd_clo(p, fd), k, fd)
        /\ fd_clo(p, fd).evts = [p.evts EXCEPT ![fd] = {}]
        /\ \A g \in FD : g # fd /\ InStep(p, k, g) => InStep(fd_clo(p, fd), k, g)
    BY <2>2, CloForgets
  <2>4. t.poll = fd_clo(p, fd)
    BY <1>1 DEF p
  <2>5. /\ t.poll \in PollerType /\ Recorded(t.poll) /\ InStep(t.poll, k, fd)
        /\ t.poll.evts = [p.evts EXCEPT ![fd] = {}]
        /\ \A g \in FD : g # fd /\ InStep(p, k, g) => InStep(t.poll, k, g)
    BY <2>3, <2>4
  <2> QED
    BY <2>5 DEF p, k
<1>6. Typed(t)
  BY <1>1, <1>3, <1>4, <1>5 DEF Typed
<1>7. /\ t.state[fd] = "close"
      /\ \A g \in FD : g # fd => t.state[g] = s.state[g] /\ t.buf[g] = s.buf[g]
  BY <1>1, <1>3
<1>8. States(t)
  <2>1. fd \notin Listeners
    BY DEF ServerInv, States
  <2> QED
    BY <1>1, <1>7, <2>1 DEF ServerInv, States
<1>9. EchoOf(t) = EchoOf(s) \ {fd} /\ (fd \in EchoOf(s) <=> echo)
  BY <1>1, <1>7 DEF EchoOf
<1>10. Counted(t)
  <2>1. Cardinality(EchoOf(s) \ {fd}) =
          IF fd \in EchoOf(s) THEN Cardinality(EchoOf(s)) - 1 ELSE Cardinality(EchoOf(s))
    BY EchoFinite, FS_RemoveElement
  <2> QED
    BY <1>1, <1>9, <2>1 DEF ServerInv, Counted
<1>11. Watched(t)
  <2>1. \A g \in FD : g # fd => (InStep(s.poll, s.epoll, g) => InStep(s.poll, t.epoll, g))
    BY <1>4 DEF InStep
  <2>2. \A g \in FD \ t.left : InStep(t.poll, t.epoll, g)
    BY <1>1, <1>5, <2>1 DEF ServerInv, Watched
  <2>3. \A g \in FD \ t.open : t.epoll[g] = {}
    BY <1>1, <1>4 DEF ServerInv, Watched
  <2>4. s.poll.evts \in [FD -> Masks]
    BY <1>3, PollerFields
  <2>5. t.poll.evts[fd] = {} /\ \A g \in FD : g # fd => t.poll.evts[g] = s.poll.evts[g]
    BY <1>5, <2>4
  <2>6. \A g \in FD \ (t.open \cup t.left) : t.poll.evts[g] = {}
    <3> SUFFICES ASSUME NEW g \in FD, g # fd, g \notin t.open \cup t.left
                 PROVE  s.poll.evts[g] = {}
      BY <2>5
    <3>1. g \notin s.open \cup s.left
      BY <1>1
    <3> QED
      BY <3>1 DEF ServerInv, Watched
  <2>7. \A g \in EchoOf(t) : "RD" \in t.poll.evts[g]
    BY <1>9, <2>5, EchoFinite DEF ServerInv, Watched
  <2> QED
    BY <1>5, <2>2, <2>3, <2>6, <2>7 DEF Watched
<1>12. Kin(s, t, fd)
  BY <1>1, <1>7 DEF Kin
<1> QED
  BY <1>1, <1>2, <1>6, <1>7, <1>8, <1>10, <1>11, <1>12 DEF ServerInv, t

\* The acceptor with a number left: the new connection has the lowest free
\* number, and is to be read; or it is refused and closed again.
LEMMA AcceptStep ==
  ASSUME NEW s, ServerInv(s), NEW fd \in Listeners, FreeFDs(s) # {}
  PROVE  LET r == accept_conn(s, fd)
         IN  ServerInv(r.s) /\ Kin(s, r.s, fd) /\ r.ret = ZB_NOP
<1> DEFINE r   == accept_conn(s, fd)
           t   == r.s
           nfd == Min(FreeFDs(s))
           q   == fd_set(s.poll, nfd, "RD")
           echo == fd \in EchoListeners
           cb  == accept_cb(s, fd, nfd)
           b   == [s EXCEPT !.buf = [@ EXCEPT ![nfd] = "live"]]
           max == Max({s.maxfd, nfd + 1})
<1>1. nfd \in FD /\ nfd \notin s.open /\ fd \in FD
  <2>1. FreeFDs(s) \subseteq Nat /\ FreeFDs(s) \subseteq FD
    BY EventLoopAssumption DEF FreeFDs
  <2>2. Min(FreeFDs(s)) \in FreeFDs(s)
    BY <2>1, LeastIsMember
  <2> QED
    BY <2>2, EventLoopAssumption DEF FreeFDs
<1>2. /\ s.poll \in PollerType /\ s.epoll \in [FD -> Masks] /\ s.open \subseteq FD
      /\ s.state \in [FD -> {"close", "listen", "conn"}]
      /\ s.owner \in [FD -> FD] /\ s.buf \in [FD -> {"null", "live", "freed"}]
      /\ s.conn \in Int /\ s.gen \in [FD -> Nat] /\ s.left \subseteq FD
  BY DEF ServerInv, Typed
<1>3. s.state[nfd] = "close" /\ s.state[fd] = "listen" /\ fd # nfd /\ nfd \notin Listeners
  BY <1>1 DEF ServerInv, States
<1>4. r.ret = ZB_NOP
  BY DEF accept_conn
<1>5. CASE echo /\ ~ (s.conn < MaxConn)
  <2>1. t = [s EXCEPT !.buf = [@ EXCEPT ![nfd] = "live"]]
    <3> HIDE DEF nfd
    <3>1. s.conn >= MaxConn
      BY <1>2, <1>5, EventLoopAssumption
    <3>2. cb.s = b /\ ~ cb.nop
      BY <1>5, <3>1 DEF accept_cb, echo_accept, ServerInv, Fields
    <3> HIDE DEF cb, b
    <3>3. t = IF cb.nop THEN t ELSE cb.s
      BY DEF accept_conn, cb, nfd
    <3> HIDE DEF r
    <3> QED
      BY <3>2, <3>3 DEF b
  <2> HIDE DEF r, nfd
  <2>2. /\ t.poll = s.poll /\ t.epoll = s.epoll /\ t.open = s.open /\ t.state = s.state
        /\ t.owner = s.owner /\ t.conn = s.conn /\ t.gen = s.gen /\ t.left = s.left
        /\ t.buf = [s.buf EXCEPT ![nfd] = "live"] /\ Fields(t)
    BY <2>1 DEF ServerInv, Fields
  <2> HIDE DEF t
  <2>3. Typed(t)
    BY <1>2, <2>2 DEF Typed
  <2>4. States(t)
    BY <1>1, <1>2, <2>2 DEF ServerInv, States
  <2>5. EchoOf(t) = EchoOf(s)
    BY <2>2 DEF EchoOf
  <2>6. Counted(t) /\ Watched(t)
    BY <2>2, <2>5 DEF ServerInv, Counted, Watched
  <2>7. ServerInv(t) /\ Kin(s, t, fd)
    BY <2>2, <2>3, <2>4, <2>6 DEF ServerInv, Kin
  <2> QED
    BY <1>4, <2>7 DEF r, t
<1>6. CASE ~ echo \/ s.conn < MaxConn
  <2>1. /\ t.poll = q /\ t.epoll = s.epoll /\ t.left = s.left
        /\ t.open = s.open \cup {nfd}
        /\ t.state = [s.state EXCEPT ![nfd] = "conn"]
        /\ t.owner = [s.owner EXCEPT ![nfd] = fd]
        /\ t.gen = [s.gen EXCEPT ![nfd] = @ + 1]
        /\ t.buf = [s.buf EXCEPT ![nfd] = "live"]
        /\ t.conn = IF echo THEN s.conn + 1 ELSE s.conn
        /\ Fields(t)
    <3> DEFINE c == IF echo THEN s.conn + 1 ELSE s.conn
    <3> HIDE DEF nfd
    <3>1. cb.s = [b EXCEPT !.conn = c] /\ cb.nop
      <4>1. CASE echo
        <5>1. s.conn < MaxConn /\ ~ (s.conn >= MaxConn)
          BY <1>2, <1>6, <4>1, EventLoopAssumption
        <5> QED
          BY <4>1, <5>1 DEF accept_cb, echo_accept, ServerInv, Fields
      <4>2. CASE ~ echo
        BY <4>2 DEF accept_cb, http_accept, ServerInv, Fields
      <4> QED
        BY <4>1, <4>2
    <3>2. b = [poll |-> s.poll, epoll |-> s.epoll, open |-> s.open, state |-> s.state,
               owner |-> s.owner, buf |-> [s.buf EXCEPT ![nfd] = "live"], conn |-> s.conn,
               maxfd |-> s.maxfd, gen |-> s.gen, left |-> s.left]
      BY DEF ServerInv, Fields
    <3> HIDE DEF cb, b, c
    <3>3. cb.s = [poll |-> s.poll, epoll |-> s.epoll, open |-> s.open, state |-> s.state,
                  owner |-> s.owner, buf |-> [s.buf EXCEPT ![nfd] = "live"], conn |-> c,
                  maxfd |-> s.maxfd, gen |-> s.gen, left |-> s.left]
      BY <3>1, <3>2
    <3> DEFINE new == [fd_insert(cb.s, nfd) EXCEPT
                        !.open  = @ \cup {nfd},
                        !.state = [@ EXCEPT ![nfd] = "conn"],
                        !.owner = [@ EXCEPT ![nfd] = fd],
                        !.gen   = [@ EXCEPT ![nfd] = s.gen[nfd] + 1]]
    <3>4. t = IF cb.nop THEN EV_FD_SET(new, nfd, "RD") ELSE cb.s
      BY DEF accept_conn, cb, nfd
    <3>5. fd_insert(cb.s, nfd) = [cb.s EXCEPT !.maxfd = max]
      BY <3>3 DEF fd_insert
    <3> HIDE DEF max
    <3>6. new = [poll |-> s.poll, epoll |-> s.epoll, open |-> s.open \cup {nfd},
                 state |-> [s.state EXCEPT ![nfd] = "conn"],
                 owner |-> [s.owner EXCEPT ![nfd] = fd],
                 buf |-> [s.buf EXCEPT ![nfd] = "live"], conn |-> c, maxfd |-> max,
                 gen |-> [s.gen EXCEPT ![nfd] = @ + 1], left |-> s.left]
      <4> DEFINE ins == fd_insert(cb.s, nfd)
      <4>1. ins = [poll |-> s.poll, epoll |-> s.epoll, open |-> s.open, state |-> s.state,
                   owner |-> s.owner, buf |-> [s.buf EXCEPT ![nfd] = "live"], conn |-> c,
                   maxfd |-> max, gen |-> s.gen, left |-> s.left]
        BY <3>3, <3>5
      <4> DEFINE op == ins.open \cup {nfd}
                 st == [ins.state EXCEPT ![nfd] = "conn"]
                 ow == [ins.owner EXCEPT ![nfd] = fd]
                 ge == [ins.gen EXCEPT ![nfd] = s.gen[nfd] + 1]
                 bu == [s.buf EXCEPT ![nfd] = "live"]
      <4>2. new = [ins EXCEPT !.open = op, !.state = st, !.owner = ow, !.gen = ge]
        OBVIOUS
      <4> HIDE DEF ins
      <4>3. ins.open = s.open /\ ins.state = s.state /\ ins.owner = s.owner /\ ins.gen = s.gen
        BY <4>1
      <4>4. /\ op = s.open \cup {nfd} /\ st = [s.state EXCEPT ![nfd] = "conn"]
            /\ ow = [s.owner EXCEPT ![nfd] = fd] /\ ge = [s.gen EXCEPT ![nfd] = s.gen[nfd] + 1]
        BY <4>3
      <4> HIDE DEF new, op, st, ow, ge, bu
      <4>5. ins = [poll |-> s.poll, epoll |-> s.epoll, open |-> s.open, state |-> s.state,
                   owner |-> s.owner, buf |-> bu, conn |-> c,
                   maxfd |-> max, gen |-> s.gen, left |-> s.left]
        BY <4>1 DEF bu
      <4>6. new = [poll |-> s.poll, epoll |-> s.epoll, open |-> op, state |-> st,
                   owner |-> ow, buf |-> bu, conn |-> c, maxfd |-> max, gen |-> ge,
                   left |-> s.left]
        BY <4>2, <4>5
      <4> QED
        BY <4>4, <4>6 DEF bu
    <3> HIDE DEF new, r
    <3>7. t = [poll |-> q, epoll |-> s.epoll, open |-> s.open \cup {nfd},
               state |-> [s.state EXCEPT ![nfd] = "conn"],
               owner |-> [s.owner EXCEPT ![nfd] = fd],
               buf |-> [s.buf EXCEPT ![nfd] = "live"], conn |-> c, maxfd |-> max,
               gen |-> [s.gen EXCEPT ![nfd] = @ + 1], left |-> s.left]
      <4>1. t = [new EXCEPT !.poll = fd_set(new.poll, nfd, "RD")]
        BY <3>1, <3>4 DEF EV_FD_SET
      <4>2. new.poll = s.poll
        BY <3>6
      <4>3. t = [new EXCEPT !.poll = q]
        BY <4>1, <4>2
      <4> HIDE DEF t, q
      <4> QED
        BY <3>6, <4>3
    <3> HIDE DEF t, q
    <3> QED
      BY <3>7 DEF Fields, c
  <2>2. Wished(s.poll, q, nfd) /\ q.evts[nfd] = s.poll.evts[nfd] \cup {"RD"}
    <3>1. Recorded(s.poll) /\ "RD" \in Dir
      BY DEF ServerInv, Watched, Dir
    <3> HIDE DEF nfd
    <3> QED
      BY <1>1, <1>2, <3>1, SetWished
  <2> HIDE DEF r, nfd, t, q
  <2>3. Typed(t)
    <3>1. q \in PollerType
      BY <2>2 DEF Wished
    <3>2. t.gen \in [FD -> Nat]
      BY <1>1, <1>2, <2>1
    <3>3. t.conn \in Int
      BY <1>2, <2>1
    <3> QED
      BY <1>1, <1>2, <2>1, <3>1, <3>2, <3>3 DEF Typed
  <2>4. /\ t.state[nfd] = "conn" /\ t.buf[nfd] = "live" /\ t.owner[nfd] = fd
        /\ \A g \in FD : g # nfd => /\ t.state[g] = s.state[g] /\ t.buf[g] = s.buf[g]
                                    /\ t.owner[g] = s.owner[g] /\ t.gen[g] = s.gen[g]
    BY <1>1, <1>2, <2>1
  <2>5. States(t)
    BY <1>1, <1>3, <2>1, <2>4 DEF ServerInv, States
  <2>6. EchoOf(t) = (IF echo THEN EchoOf(s) \cup {nfd} ELSE EchoOf(s)) /\ nfd \notin EchoOf(s)
    BY <1>1, <1>3, <2>4 DEF EchoOf
  <2>7. Counted(t)
    <3>1. Cardinality(EchoOf(s) \cup {nfd}) = Cardinality(EchoOf(s)) + 1
      BY <2>6, EchoFinite, FS_AddElement
    <3> QED
      BY <2>1, <2>6, <3>1 DEF ServerInv, Counted
  <2>8. Watched(t)
    <3>1. Recorded(q) /\ \A g \in FD \ s.left : InStep(q, s.epoll, g)
      BY <1>2, <2>2 DEF ServerInv, Watched, Wished
    <3>2. \A g \in FD \ (s.open \cup {nfd} \cup s.left) : q.evts[g] = {}
      BY <2>2 DEF ServerInv, Watched, Wished
    <3>3. \A g \in EchoOf(t) : "RD" \in q.evts[g]
      BY <2>2, <2>6, EchoFinite DEF ServerInv, Watched, Wished
    <3>4. \A g \in FD \ t.open : t.epoll[g] = {}
      BY <2>1 DEF ServerInv, Watched
    <3> QED
      BY <2>1, <3>1, <3>2, <3>3, <3>4 DEF Watched
  <2>9. Kin(s, t, fd)
    BY <1>1, <1>3, <2>4 DEF Kin
  <2> QED
    BY <1>4, <2>1, <2>3, <2>5, <2>7, <2>8, <2>9 DEF ServerInv, r, t
<1> QED
  BY <1>5, <1>6

----------------------------------------------------------------------------
(* The callbacks of an event of fd, and what the loop does with a result.  *)

\* A result r the loop can apply.
Applicable(r, fd) ==
  /\ ServerInv(r.s)
  /\ r.ret = ZB_CLOSE => r.s.state[fd] = "conn"
  /\ r.ret # ZB_CLOSE /\ r.ret # ZB_NOP => fd \in r.s.open \cup r.s.left
  /\ r.ret # ZB_CLOSE /\ "CLOSE_RD" \in r.ret => fd \notin EchoOf(r.s)

\* The results are told apart by their flags.
LEMMA ResultsDiffer ==
  /\ ZB_NOP # ZB_CLOSE /\ ZB_SET_WR # ZB_CLOSE /\ ZB_CLOSE_WR # ZB_CLOSE
  /\ ZB_MINUS1 # ZB_CLOSE /\ ZB_SET_WR # ZB_NOP
  /\ \A flag \in {ZB_NOP, ZB_SET_WR, ZB_CLOSE_WR} : "CLOSE_RD" \notin flag
<1>1. "CLOSE_RD" \in ZB_CLOSE /\ "SET_WR" \notin ZB_CLOSE
  BY DEF ZB_CLOSE
<1>2. "SET_WR" \in ZB_MINUS1 /\ "SET_WR" \in ZB_SET_WR
  BY DEF ZB_MINUS1, Flags, ZB_SET_WR
<1>3. /\ "CLOSE_RD" \notin ZB_NOP /\ "CLOSE_RD" \notin ZB_SET_WR /\ "CLOSE_RD" \notin ZB_CLOSE_WR
      /\ "SET_WR" \notin ZB_NOP
  BY DEF ZB_NOP, ZB_SET_WR, ZB_CLOSE_WR
<1> QED
  BY <1>1, <1>2, <1>3

\* recheck_state()
LEMMA RecheckStep ==
  ASSUME NEW r, NEW fd \in FD, Applicable(r, fd)
  PROVE  LET t == recheck_state(r.s, fd, r.ret)
         IN  /\ ServerInv(t) /\ Kin(r.s, t, fd)
             /\ r.ret = ZB_CLOSE => t.state[fd] = "close"
<1> DEFINE s == r.s
           t == recheck_state(s, fd, r.ret)
<1>1. ServerInv(s)
  BY DEF Applicable
<1>2. CASE r.ret = ZB_CLOSE
  <2>1. t = disconnect(fd_delete(s, fd), fd) /\ s.state[fd] = "conn"
    BY <1>2 DEF recheck_state, Applicable
  <2> HIDE DEF s
  <2>2. ServerInv(t) /\ Kin(s, t, fd) /\ t.state[fd] = "close"
    BY <1>1, <2>1, DeleteStep
  <2> QED
    BY <2>2 DEF s
<1>3. CASE r.ret # ZB_CLOSE
  <2> DEFINE p == s.poll
             q == recheck_flags(p, fd, r.ret)
  <2>1. t = [s EXCEPT !.poll = q]
    BY <1>3 DEF recheck_state
  <2>2. p \in PollerType /\ Recorded(p)
    BY <1>1 DEF ServerInv, Typed, Watched
  <2>3. s = [poll |-> p, epoll |-> s.epoll, open |-> s.open, state |-> s.state,
             owner |-> s.owner, buf |-> s.buf, conn |-> s.conn, maxfd |-> s.maxfd,
             gen |-> s.gen, left |-> s.left]
    BY <1>1 DEF ServerInv, Fields
  <2>4. fd \in EchoOf(s) => "RD" \in p.evts[fd] /\ "CLOSE_RD" \notin r.ret
    BY <1>1, <1>3 DEF ServerInv, Watched, Applicable
  <2>5. r.ret # {} => fd \in s.open \cup s.left
    BY <1>3 DEF Applicable, ZB_NOP
  <2> HIDE DEF p
  <2>6. /\ Wished(p, q, fd)
        /\ "RD" \in p.evts[fd] /\ "CLOSE_RD" \notin r.ret => "RD" \in q.evts[fd]
        /\ r.ret = {} => q = p
    BY <2>2, RecheckWished
  <2> HIDE DEF s, q, t
  <2>7. t.state = s.state /\ t.gen = s.gen
    BY <2>1, <2>3
  <2>8. Kin(s, t, fd)
    BY <2>7, KinChain
  <2>9. ServerInv(t)
    <3>1. CASE r.ret = {}
      <4>1. t = s
        BY <2>1, <2>3, <2>6, <3>1
      <4> QED
        BY <1>1, <4>1
    <3>2. CASE r.ret # {}
      <4>1. Wished(s.poll, q, fd)
        BY <2>6 DEF p
      <4> QED
        BY <1>1, <2>1, <2>4, <2>5, <2>6, <3>2, <4>1, PollStep
    <3> QED
      BY <3>1, <3>2
  <2> QED
    BY <1>3, <2>8, <2>9 DEF s, t
<1> QED
  BY <1>2, <1>3

\* A callback that only says what it wants.
LEMMA PlainResult ==
  ASSUME NEW s, ServerInv(s), NEW fd \in FD, s.state[fd] # "close",
         NEW ret \in {ZB_NOP, ZB_SET_WR, ZB_CLOSE_WR, ZB_CLOSE},
         ret = ZB_CLOSE => fd \notin Listeners
  PROVE  LET r == [s |-> s, ret |-> ret]
         IN  Applicable(r, fd) /\ Kin(s, r.s, fd)
<1>1. fd \in s.open /\ (fd \notin Listeners => s.state[fd] = "conn")
  BY DEF ServerInv, States, Typed
<1>2. Kin(s, s, fd)
  BY KinChain
<1>3. ret # ZB_CLOSE => "CLOSE_RD" \notin ret
  BY ResultsDiffer
<1> DEFINE r == [s |-> s, ret |-> ret]
<1>4. r.s = s /\ r.ret = ret
  OBVIOUS
<1> HIDE DEF r
<1>5. Applicable(r, fd)
  BY <1>1, <1>3, <1>4 DEF Applicable
<1> QED
  BY <1>2, <1>4, <1>5 DEF r

\* The read callbacks: the acceptor, echo and http.
LEMMA ReadStep ==
  ASSUME NEW s, ServerInv(s), NEW fd \in FD, s.state[fd] # "close",
         NEW r \in ReadCb(s, fd)
  PROVE  /\ Applicable(r, fd) /\ Kin(s, r.s, fd)
         /\ r.ret \in {ZB_NOP, ZB_SET_WR, ZB_CLOSE}
<1>1. CASE fd \in Listeners
  <2>1. r = event_accept(s, fd)
    BY <1>1 DEF ReadCb
  <2>2. CASE FreeFDs(s) = {}
    <3>1. r = [s |-> s, ret |-> ZB_SET_WR]
      BY <2>1, <2>2 DEF event_accept
    <3>2. LET x == [s |-> s, ret |-> ZB_SET_WR] IN Applicable(x, fd) /\ Kin(s, x.s, fd)
      BY PlainResult, ResultsDiffer
    <3> QED
      BY <3>1, <3>2
  <2>3. CASE FreeFDs(s) # {}
    <3>1. r = accept_conn(s, fd)
      BY <2>1, <2>3 DEF event_accept
    <3>2. ServerInv(r.s) /\ Kin(s, r.s, fd) /\ r.ret = ZB_NOP
      BY <1>1, <2>3, <3>1, AcceptStep
    <3> QED
      BY <3>2, ResultsDiffer DEF Applicable
  <2> QED
    BY <2>2, <2>3
<1>2. CASE fd \notin Listeners /\ s.owner[fd] \in EchoListeners
  <2>1. PICK ret \in {ZB_SET_WR, ZB_CLOSE} : r = [s |-> s, ret |-> ret]
    BY <1>2 DEF ReadCb, echo_read
  <2>2. LET x == [s |-> s, ret |-> ret] IN Applicable(x, fd) /\ Kin(s, x.s, fd)
    BY <1>2, <2>1, PlainResult
  <2> QED
    BY <2>1, <2>2
<1>3. CASE fd \notin Listeners /\ s.owner[fd] \notin EchoListeners
  <2> DEFINE a == EV_FD_SET(s, fd, "WR")
  <2>1. PICK t \in {s, EV_FD_CLR(a, fd, "RD"), EV_FD_CLR(s, fd, "RD")} :
          r = [s |-> t, ret |-> ZB_NOP]
    BY <1>3 DEF ReadCb, http_read
  <2>2. fd \in s.open /\ fd \notin EchoOf(s)
    BY <1>3 DEF EchoOf, ServerInv, States, Typed
  <2>3. ASSUME NEW u, ServerInv(u), fd \in u.open, fd \notin EchoOf(u), NEW d \in Dir
        PROVE  /\ ServerInv(EV_FD_SET(u, fd, d)) /\ ServerInv(EV_FD_CLR(u, fd, d))
               /\ LET v == EV_FD_SET(u, fd, d)
                  IN  v.state = u.state /\ v.gen = u.gen /\ v.open = u.open /\ v.owner = u.owner
               /\ LET v == EV_FD_CLR(u, fd, d)
                  IN  v.state = u.state /\ v.gen = u.gen
    <3>1. u.poll \in PollerType /\ Recorded(u.poll)
      BY <2>3 DEF ServerInv, Typed, Watched
    <3>2. Wished(u.poll, fd_set(u.poll, fd, d), fd) /\ Wished(u.poll, fd_clr(u.poll, fd, d), fd)
      BY <3>1, SetWished, ClrWished
    <3>3. ServerInv([u EXCEPT !.poll = fd_set(u.poll, fd, d)])
      BY <2>3, <3>2, PollStep
    <3>4. ServerInv([u EXCEPT !.poll = fd_clr(u.poll, fd, d)])
      BY <2>3, <3>2, PollStep
    <3>5. Fields(u)
      BY <2>3 DEF ServerInv
    <3> QED
      BY <3>3, <3>4, <3>5 DEF EV_FD_SET, EV_FD_CLR, Fields
  <2>4. "RD" \in Dir /\ "WR" \in Dir
    BY DEF Dir
  <2>5. /\ ServerInv(a) /\ fd \in a.open /\ fd \notin EchoOf(a)
        /\ a.state = s.state /\ a.gen = s.gen
    BY <2>2, <2>3, <2>4 DEF EchoOf
  <2> HIDE DEF a
  <2>6. ServerInv(t) /\ t.state = s.state /\ t.gen = s.gen
    BY <2>1, <2>2, <2>3, <2>4, <2>5
  <2>7. r.s = t /\ r.ret = ZB_NOP
    BY <2>1
  <2> QED
    BY <2>6, <2>7, KinChain, ResultsDiffer DEF Applicable
<1> QED
  BY <1>1, <1>2, <1>3

\* The write callbacks.
LEMMA WriteStep ==
  ASSUME NEW s, ServerInv(s), NEW fd \in FD, s.state[fd] = "conn",
         NEW r \in WriteCb(s, fd)
  PROVE  Applicable(r, fd) /\ Kin(s, r.s, fd)
<1>0. fd \notin Listeners
  BY DEF ServerInv, States
<1>1. CASE s.owner[fd] \in EchoListeners
  <2>1. PICK ret \in {ZB_NOP, ZB_CLOSE_WR, ZB_CLOSE} : r = [s |-> s, ret |-> ret]
    BY <1>1 DEF WriteCb, echo_write
  <2>2. LET x == [s |-> s, ret |-> ret] IN Applicable(x, fd) /\ Kin(s, x.s, fd)
    BY <1>0, <2>1, PlainResult
  <2> QED
    BY <2>1, <2>2
<1>2. CASE s.owner[fd] \notin EchoListeners
  <2> DEFINE c == http_disconnect(fd_delete(s, fd), fd)
             l == [c EXCEPT !.left = @ \cup {fd}]
  <2>1. \/ r = [s |-> s, ret |-> ZB_NOP]
        \/ r = [s |-> c, ret |-> ZB_NOP]
        \/ r = [s |-> l, ret |-> ZB_MINUS1]
    BY <1>2 DEF WriteCb, http_write
  <2>2. ServerInv(c) /\ Kin(s, c, fd) /\ c.state[fd] = "close"
    BY <1>2, DeleteStep
  <2> HIDE DEF c
  <2>3. ServerInv(l)
    BY <2>2, LeftStep
  <2>4. l.state = c.state /\ l.gen = c.gen /\ fd \in l.left
    BY <2>2 DEF ServerInv, Fields
  <2> HIDE DEF l
  <2>5. Kin(s, l, fd) /\ fd \notin EchoOf(l)
    BY <2>2, <2>4, KinChain DEF EchoOf
  <2>6. Kin(s, s, fd)
    BY KinChain
  <2> QED
    BY <2>1, <2>2, <2>3, <2>4, <2>5, <2>6, ResultsDiffer DEF Applicable
<1> QED
  BY <1>1, <1>2

----------------------------------------------------------------------------
(* The loop.                                                               *)

\* The callbacks of one event leave the events of the others valid.
LEMMA EventsKept ==
  ASSUME NEW s, NEW t, NEW fd \in FD, Kin(s, t, fd), NEW b, NEW c, NEW b2, NEW c2,
         NEW ret, NEW ret2, EventsOf(s, b, c, ret),
         b2 \subseteq b, c2 \subseteq b \cup c,
         \A e \in b2 : e.fd # fd,
         \A e \in c2 : e.fd = fd /\ (t.state[fd] # "close" =>
                         s.state[fd] # "close" /\ s.gen[fd] = e.gen /\ ret2 \in {ZB_NOP, ZB_SET_WR})
  PROVE  EventsOf(t, b2, c2, ret2)
<1>1. b2 \cup c2 \subseteq b \cup c
  OBVIOUS
<1>2. \A e \in b2 : e.fd \in FD /\ s.state[e.fd] # "close" /\ s.gen[e.fd] = e.gen /\ e.fd # fd
  BY DEF EventsOf
<1>3. \A e \in b2 : t.state[e.fd] # "close" /\ t.gen[e.fd] = e.gen
  BY <1>2 DEF Kin
<1>4. \A e \in c2 : t.state[e.fd] # "close" =>
        t.gen[e.fd] = e.gen /\ ret2 \in {ZB_NOP, ZB_SET_WR}
  BY DEF Kin
<1>5. b2 \cap c2 = {}
  OBVIOUS
<1> QED
  BY <1>1, <1>3, <1>4, <1>5 DEF EventsOf

\* poll_do() replays the changes, sleeps and collects a batch.
LEMMA PollWaitStep ==
  ASSUME EventLoopInv, PollWait
  PROVE  /\ EventLoopInv'
         /\ \A fd \in FD : fd \in srv.open /\ fd \notin srv.left => srv'.epoll[fd] = srv.poll.evts[fd]
<1> DEFINE f == fd_flush_changes(srv.poll, srv.epoll, srv.open)
<1>1. /\ pc = "loop" /\ pc' = "events" /\ cur' = cur /\ zb_ret' = zb_ret
      /\ srv' = [srv EXCEPT !.poll = f.poll, !.epoll = f.epoll]
      /\ \E ev \in [{fd \in FD \ Listeners : f.epoll[fd] # {}} -> SUBSET Dir] :
           batch' = {[fd |-> fd, ev |-> ev[fd], gen |-> srv.gen[fd]] :
                       fd \in {g \in DOMAIN ev : ev[g] # {}}}
                    \cup {[fd |-> l, ev |-> {"RD"}, gen |-> srv.gen[l]] :
                             l \in ReadyListeners(f.epoll)}
  <2> HIDE DEF f
  <2>1. PICK h \in {f} :
          /\ srv' = [srv EXCEPT !.poll = h.poll, !.epoll = h.epoll]
          /\ \E ev \in [{fd \in FD \ Listeners : h.epoll[fd] # {}} -> SUBSET Dir] :
               /\ \A fd \in DOMAIN ev : ev[fd] \in Reported(h.epoll, fd)
               /\ batch' = {[fd |-> fd, ev |-> ev[fd], gen |-> srv.gen[fd]] :
                              fd \in {g \in DOMAIN ev : ev[g] # {}}}
                           \cup {[fd |-> l, ev |-> {"RD"}, gen |-> srv.gen[l]] :
                                    l \in ReadyListeners(h.epoll)}
    BY Zenon DEF PollWait, f
  <2>2. h = f
    BY <2>1
  <2>3. pc = "loop" /\ pc' = "events" /\ cur' = cur /\ zb_ret' = zb_ret
    BY DEF PollWait
  <2> QED
    BY <2>1, <2>2, <2>3, Zenon
<1>2. ServerInv(srv) /\ batch = {} /\ cur = {}
  BY <1>1 DEF EventLoopInv
<1>3. /\ srv.poll \in PollerType /\ srv.epoll \in [FD -> Masks] /\ srv.open \subseteq FD
      /\ Recorded(srv.poll)
  BY <1>2 DEF ServerInv, Typed, Watched
<1>4. /\ f.poll \in PollerType /\ Recorded(f.poll) /\ f.poll.evts = srv.poll.evts
      /\ f.epoll \in [FD -> Masks]
      /\ \A fd \in FD : f.epoll[fd] = srv.poll.evts[fd] => InStep(f.poll, f.epoll, fd)
      /\ \A fd \in FD : fd \notin srv.open => f.epoll[fd] = srv.epoll[fd]
      /\ \A fd \in FD : fd \in srv.open /\ InStep(srv.poll, srv.epoll, fd)
                          => f.epoll[fd] = srv.poll.evts[fd]
  <2> DEFINE p == srv.poll
             k == srv.epoll
             o == srv.open
  <2>1. p \in PollerType /\ Recorded(p) /\ k \in [FD -> Masks]
    BY <1>3
  <2> HIDE DEF p, k, o
  <2>2. LET h == fd_flush_changes(p, k, o)
        IN  /\ h.poll \in PollerType /\ Recorded(h.poll) /\ h.poll.evts = p.evts
            /\ h.epoll \in [FD -> Masks]
            /\ \A fd \in FD : h.epoll[fd] = p.evts[fd] => InStep(h.poll, h.epoll, fd)
            /\ \A fd \in FD : fd \notin o => h.epoll[fd] = k[fd]
            /\ \A fd \in FD : fd \in o /\ InStep(p, k, fd) => h.epoll[fd] = p.evts[fd]
    BY <2>1, FlushFacts
  <2> QED
    BY <2>2 DEF p, k, o
<1> HIDE DEF f
<1>5. /\ srv'.poll = f.poll /\ srv'.epoll = f.epoll /\ srv'.open = srv.open
      /\ srv'.state = srv.state /\ srv'.owner = srv.owner /\ srv'.buf = srv.buf
      /\ srv'.conn = srv.conn /\ srv'.gen = srv.gen /\ srv'.left = srv.left /\ Fields(srv')
  BY <1>1, <1>2 DEF ServerInv, Fields
<1>6. \A fd \in FD : fd \in srv.open /\ fd \notin srv.left => f.epoll[fd] = srv.poll.evts[fd]
  BY <1>2, <1>4 DEF ServerInv, Watched
<1>7. \A fd \in FD : fd \notin srv.open => f.epoll[fd] = {}
  BY <1>2, <1>4 DEF ServerInv, Watched
<1>8. ServerInv(srv')
  <2> DEFINE t == srv'
  <2>1. Typed(t) /\ States(t)
    BY <1>2, <1>4, <1>5 DEF ServerInv, Typed, States
  <2>2. EchoOf(t) = EchoOf(srv)
    BY <1>5 DEF EchoOf
  <2>3. Counted(t)
    BY <1>2, <1>5, <2>2 DEF ServerInv, Counted
  <2>4. \A fd \in FD \ srv.left : f.epoll[fd] = srv.poll.evts[fd]
    BY <1>2, <1>6, <1>7 DEF ServerInv, Watched
  <2>5. Watched(t)
    BY <1>2, <1>4, <1>5, <1>7, <2>2, <2>4 DEF ServerInv, Watched
  <2> QED
    BY <1>5, <2>1, <2>3, <2>5 DEF ServerInv
<1>9. \A e \in batch' : /\ e.fd \in FD /\ (e.fd \in Listeners => e.ev = {"RD"})
                        /\ srv.state[e.fd] # "close" /\ e.gen = srv.gen[e.fd]
  <2>1. PICK ev \in [{fd \in FD \ Listeners : f.epoll[fd] # {}} -> SUBSET Dir] :
          batch' = {[fd |-> fd, ev |-> ev[fd], gen |-> srv.gen[fd]] :
                      fd \in {g \in DOMAIN ev : ev[g] # {}}}
                   \cup {[fd |-> l, ev |-> {"RD"}, gen |-> srv.gen[l]] :
                            l \in ReadyListeners(f.epoll)}
    BY <1>1
  <2> SUFFICES ASSUME NEW e \in batch'
               PROVE  /\ e.fd \in FD /\ (e.fd \in Listeners => e.ev = {"RD"})
                      /\ srv.state[e.fd] # "close" /\ e.gen = srv.gen[e.fd]
    OBVIOUS
  <2>2. CASE \E fd \in DOMAIN ev : e = [fd |-> fd, ev |-> ev[fd], gen |-> srv.gen[fd]]
    <3>1. PICK fd \in FD \ Listeners : /\ e = [fd |-> fd, ev |-> ev[fd], gen |-> srv.gen[fd]]
                                       /\ f.epoll[fd] # {}
      BY <2>2
    <3>2. fd \in srv.open
      BY <1>7, <3>1
    <3> QED
      BY <1>2, <3>1, <3>2 DEF ServerInv, States
  <2>3. CASE \E l \in Listeners : e = [fd |-> l, ev |-> {"RD"}, gen |-> srv.gen[l]]
    <3>1. PICK l \in Listeners : e = [fd |-> l, ev |-> {"RD"}, gen |-> srv.gen[l]]
      BY <2>3
    <3>2. l \in FD /\ srv.state[l] # "close"
      BY <1>2, EventLoopAssumption DEF ServerInv, States
    <3> QED
      BY <3>1, <3>2
  <2> QED
    BY <2>1, <2>2, <2>3 DEF ReadyListeners
<1>10. \A e, g \in batch' : e.fd = g.fd => e = g
  <2>1. PICK ev \in [{fd \in FD \ Listeners : f.epoll[fd] # {}} -> SUBSET Dir] :
          batch' = {[fd |-> fd, ev |-> ev[fd], gen |-> srv.gen[fd]] :
                      fd \in {g \in DOMAIN ev : ev[g] # {}}}
                   \cup {[fd |-> l, ev |-> {"RD"}, gen |-> srv.gen[l]] :
                            l \in ReadyListeners(f.epoll)}
    BY <1>1
  <2>2. \A e \in batch' :
          e = [fd |-> e.fd, gen |-> srv.gen[e.fd],
               ev |-> IF e.fd \in Listeners THEN {"RD"} ELSE ev[e.fd]]
    BY <2>1 DEF ReadyListeners
  <2> QED
    BY <2>2
<1>11. EventsOf(srv', batch', cur', zb_ret')
  BY <1>1, <1>2, <1>5, <1>9, <1>10 DEF EventsOf
<1>12. Events'
  BY <1>11 DEF Events
<1> QED
  BY <1>1, <1>5, <1>6, <1>8, <1>12 DEF EventLoopInv

\* The read half of an event.
LEMMA ReadHalfStep ==
  ASSUME EventLoopInv, NEW e \in batch, ReadHalf(e)
  PROVE  EventLoopInv'
<1>1. /\ pc = "events" /\ pc' = "events" /\ cur = {} /\ batch' = batch \ {e}
      /\ ServerInv(srv) /\ EventsOf(srv, batch, cur, zb_ret)
  BY DEF EventLoopInv, ReadHalf, Events
<1>2. e.fd \in FD /\ srv.state[e.fd] # "close" /\ srv.gen[e.fd] = e.gen
  BY <1>1 DEF EventsOf
<1>3. PICK r \in (IF "RD" \in e.ev THEN ReadCb(srv, e.fd) ELSE {[s |-> srv, ret |-> ZB_NOP]}) :
        srv' = recheck_state(r.s, e.fd, r.ret) /\ zb_ret' = r.ret /\ cur' = {e}
  BY <1>2 DEF ReadHalf
<1> DEFINE fd == e.fd
           s == srv
<1>4. /\ Applicable(r, fd) /\ Kin(s, r.s, fd) /\ r.ret \in {ZB_NOP, ZB_SET_WR, ZB_CLOSE}
  <2>0. fd \in FD /\ s.state[fd] # "close" /\ ServerInv(s)
    BY <1>1, <1>2
  <2>1. CASE "RD" \in e.ev
    <3>1. r \in ReadCb(s, fd)
      BY <1>3, <2>1
    <3> HIDE DEF fd, s
    <3> QED
      BY <2>0, <3>1, ReadStep
  <2>2. CASE "RD" \notin e.ev
    <3>1. r = [s |-> s, ret |-> ZB_NOP]
      BY <1>3, <2>2
    <3> HIDE DEF fd, s
    <3>2. LET x == [s |-> s, ret |-> ZB_NOP] IN Applicable(x, fd) /\ Kin(s, x.s, fd)
      BY <2>0, PlainResult, ResultsDiffer
    <3> QED
      BY <3>1, <3>2
  <2> QED
    BY <2>1, <2>2
<1> DEFINE t == recheck_state(r.s, fd, r.ret)
<1>5. ServerInv(t) /\ Kin(r.s, t, fd) /\ (r.ret = ZB_CLOSE => t.state[fd] = "close")
  <2>1. fd \in FD
    BY <1>2
  <2> HIDE DEF fd
  <2> QED
    BY <1>4, <2>1, RecheckStep
<1>6. srv' = t
  BY <1>3
<1> HIDE DEF t
<1>7. Kin(s, t, fd)
  BY <1>2, <1>4, <1>5, KinChain
<1>8. EventsOf(t, batch \ {e}, {e}, r.ret)
  <2> DEFINE b2 == batch \ {e}
             c2 == {e}
  <2>1. \A g \in b2 : g.fd # fd
    BY <1>1 DEF EventsOf
  <2>2. b2 \subseteq batch /\ c2 \subseteq batch \cup cur
    OBVIOUS
  <2>3. \A g \in c2 : g.fd = fd /\ (t.state[fd] # "close" =>
          s.state[fd] # "close" /\ s.gen[fd] = g.gen /\ r.ret \in {ZB_NOP, ZB_SET_WR})
    BY <1>2, <1>4, <1>5
  <2>4. fd \in FD /\ EventsOf(s, batch, cur, zb_ret)
    BY <1>1, <1>2
  <2> HIDE DEF b2, c2, fd, s
  <2>5. EventsOf(t, b2, c2, r.ret)
    BY <1>7, <2>1, <2>2, <2>3, <2>4, EventsKept
  <2> QED
    BY <2>5 DEF b2, c2
<1>9. EventsOf(srv', batch', cur', zb_ret')
  BY <1>1, <1>3, <1>6, <1>8
<1>10. Events'
  BY <1>9 DEF Events
<1> QED
  BY <1>1, <1>5, <1>6, <1>10 DEF EventLoopInv

\* The write half of an event.
LEMMA WriteHalfStep ==
  ASSUME EventLoopInv, WriteHalf
  PROVE  EventLoopInv'
<1>1. /\ pc = "events" /\ pc' = "events" /\ cur' = {} /\ batch' = batch
      /\ ServerInv(srv) /\ EventsOf(srv, batch, cur, zb_ret)
  BY DEF EventLoopInv, WriteHalf, Events
<1>2. PICK e \in cur :
        IF srv.state[e.fd] = "close" THEN srv' = srv
        ELSE \E r \in (IF "WR" \in e.ev THEN WriteCb(srv, e.fd) ELSE {[s |-> srv, ret |-> zb_ret]}) :
               srv' = recheck_state(r.s, e.fd, r.ret)
  BY DEF WriteHalf
<1>3. e.fd \in FD /\ (e.fd \in Listeners => e.ev = {"RD"})
  BY <1>1 DEF EventsOf
<1> DEFINE fd == e.fd
           s == srv
<1>4. ServerInv(srv') /\ Kin(s, srv', fd)
  <2>1. CASE s.state[fd] = "close"
    BY <1>1, <1>2, <1>3, <2>1, KinChain
  <2>2. CASE s.state[fd] # "close"
    <3>1. PICK r \in (IF "WR" \in e.ev THEN WriteCb(s, fd) ELSE {[s |-> s, ret |-> zb_ret]}) :
            srv' = recheck_state(r.s, fd, r.ret)
      BY <1>2, <2>2
    <3>2. Applicable(r, fd) /\ Kin(s, r.s, fd)
      <4>0. fd \in FD /\ s.state[fd] # "close" /\ ServerInv(s)
        BY <1>1, <1>3, <2>2
      <4>1. CASE "WR" \in e.ev
        <5>1. r \in WriteCb(s, fd)
          BY <3>1, <4>1
        <5>2. fd \notin Listeners
          BY <1>3, <4>1
        <5> HIDE DEF fd, s
        <5>3. s.state[fd] = "conn"
          BY <4>0, <5>2 DEF ServerInv, States, Typed
        <5> QED
          BY <4>0, <5>1, <5>3, WriteStep
      <4>2. CASE "WR" \notin e.ev
        <5>1. r = [s |-> s, ret |-> zb_ret]
          BY <3>1, <4>2
        <5>2. zb_ret \in {ZB_NOP, ZB_SET_WR}
          BY <1>1, <2>2 DEF EventsOf
        <5> HIDE DEF fd, s
        <5>3. LET x == [s |-> s, ret |-> zb_ret] IN Applicable(x, fd) /\ Kin(s, x.s, fd)
          BY <4>0, <5>2, PlainResult, ResultsDiffer
        <5> QED
          BY <5>1, <5>3
      <4> QED
        BY <4>1, <4>2
    <3> DEFINE t == recheck_state(r.s, fd, r.ret)
    <3>3. fd \in FD /\ srv' = t
      BY <1>3, <3>1
    <3> HIDE DEF fd, s
    <3>4. ServerInv(t) /\ Kin(r.s, t, fd)
      BY <3>2, <3>3, RecheckStep
    <3> HIDE DEF t
    <3> QED
      BY <3>2, <3>3, <3>4, KinChain
  <2> QED
    BY <2>1, <2>2
<1>5. EventsOf(srv', batch, {}, ZB_NOP)
  <2>1. \A g \in batch : g.fd # fd
    <3> SUFFICES ASSUME NEW g \in batch, g.fd = fd PROVE FALSE
      OBVIOUS
    <3>1. g = e /\ batch \cap cur = {}
      BY <1>1 DEF EventsOf
    <3> QED
      BY <3>1
  <2> QED
    BY <1>1, <1>3, <1>4, <2>1, EventsKept
<1>6. EventsOf(srv', batch', cur', zb_ret')
  BY <1>1, <1>5 DEF WriteHalf
<1>7. Events'
  BY <1>6 DEF Events
<1> QED
  BY <1>1, <1>4, <1>7 DEF EventLoopInv

\* The batch is done: another turn of the loop, or the end of the process.
LEMMA EndOfBatchStep ==
  ASSUME EventLoopInv, EndOfBatch
  PROVE  EventLoopInv'
<1>1. /\ pc = "events" /\ batch = {} /\ cur = {} /\ batch' = {} /\ cur' = {}
      /\ ServerInv(srv)
  BY DEF EventLoopInv, EndOfBatch
<1>2. Events'
  BY <1>1 DEF Events, EventsOf
<1>3. CASE ~ stop
  BY <1>1, <1>2, <1>3 DEF EventLoopInv, EndOfBatch
<1>4. CASE stop
  <2>1. /\ pc' = "done"
        /\ srv' = [srv EXCEPT !.epoll = [fd \in FD |-> {}], !.open = @ \ Listeners]
    BY <1>4 DEF EndOfBatch
  <2>2. srv'.state = srv.state /\ srv'.owner = srv.owner /\ srv'.buf = srv.buf
        /\ srv'.conn = srv.conn
    BY <1>1, <2>1 DEF ServerInv, Fields
  <2>3. EchoOf(srv') = EchoOf(srv)
    BY <2>2 DEF EchoOf
  <2>4. Counted(srv')
    BY <1>1, <2>2, <2>3 DEF ServerInv, Counted
  <2>5. \A fd \in Conns' : srv'.buf[fd] = "live"
    BY <1>1, <2>2 DEF ServerInv, States, Conns
  <2> QED
    BY <1>1, <1>2, <2>1, <2>4, <2>5 DEF EventLoopInv
<1> QED
  BY <1>3, <1>4

\* Every step keeps the invariant.
LEMMA NextInv ==
  ASSUME EventLoopInv, [Next]_vars
  PROVE  EventLoopInv'
<1>1. CASE PollWait
  BY <1>1, PollWaitStep
<1>2. ASSUME NEW e \in batch, ReadHalf(e) PROVE EventLoopInv'
  BY <1>2, ReadHalfStep
<1>3. CASE WriteHalf
  BY <1>3, WriteHalfStep
<1>4. CASE EndOfBatch
  BY <1>4, EndOfBatchStep
<1>5. CASE UNCHANGED <<srv, batch, cur, zb_ret, pc>>
  BY <1>5 DEF EventLoopInv, Events, Counted, Conns, EchoOf
<1> QED
  BY <1>1, <1>2, <1>3, <1>4, <1>5 DEF Next, Loop, Connect, Signal, vars

----------------------------------------------------------------------------
(* Start.                                                                  *)

\* The poller after wishes about listeners only.
Arms(p) ==
  /\ p \in PollerType /\ Recorded(p)
  /\ \A fd \in FD : InStep(p, [g \in FD |-> {}], fd)
  /\ \A fd \in FD : fd \notin Listeners => p.evts[fd] = {}

\* tcp_enable(), in whichever order the listeners are.
LEMMA EnableFacts ==
  ASSUME NEW listeners \in SetToSeqs(Listeners)
  PROVE  Arms(tcp_enable(listeners))
<1> DEFINE n == Len(listeners)
           F(g) == [i \in 0 .. n |-> IF i = 0 THEN poll_init
                                     ELSE fd_set(g[i - 1], listeners[i], "RD")]
           armed == CHOOSE g : g = F(g)
<1>1. n \in Nat /\ \A i \in 1 .. n : listeners[i] \in FD /\ listeners[i] \in Listeners
  <2>1. IsFiniteSet(Listeners) /\ Listeners \subseteq FD
    BY EventLoopAssumption, FS_Subset
  <2>2. Cardinality(Listeners) \in Nat
    BY <2>1, FS_CardinalityType
  <2>3. listeners \in [1 .. Cardinality(Listeners) -> Listeners]
    BY DEF SetToSeqs
  <2>4. n = Cardinality(Listeners)
    BY <2>2, <2>3
  <2> QED
    BY <2>1, <2>2, <2>3, <2>4
<1>2. tcp_enable(listeners) = armed[n]
  BY DEF tcp_enable
<1> HIDE DEF n
<1>3. poll_init \in PollerType /\ "RD" \in Dir
  <2>1. << >> \in Seq(Entry) /\ {} \in Masks
    BY DEF Masks
  <2> QED
    BY <2>1 DEF poll_init, PollerType, Dir
<1>4. \E g : g = F(g)
  <2> DEFINE G == [i \in 1 .. n |-> [d \in PollerType |-> fd_set(d, listeners[i], "RD")]]
  <2>1. \A i \in 1 .. n, d \in PollerType : fd_set(d, listeners[i], "RD") \in PollerType
    BY <1>1, <1>3, FdSetFacts
  <2>2. /\ G \in [1 .. n -> [PollerType -> PollerType]]
        /\ \A i \in 1 .. n, d \in PollerType : G[i][d] = fd_set(d, listeners[i], "RD")
    BY <2>1
  <2> HIDE DEF G
  <2>3. PICK a : Iterates(a, n, PollerType, poll_init, G)
    BY <1>1, <1>3, <2>2, IterationExists
  <2>4. \A i \in 0 .. n : i # 0 => i \in 1 .. n /\ i - 1 \in 0 .. n
    BY <1>1
  <2>5. \A i \in 0 .. n : a[i] = IF i = 0 THEN poll_init
                                 ELSE fd_set(a[i - 1], listeners[i], "RD")
    BY <2>2, <2>3, <2>4 DEF Iterates
  <2>6. a = [i \in 0 .. n |-> a[i]]
    BY <2>3 DEF Iterates
  <2> QED
    BY <2>5, <2>6
<1>5. armed = F(armed)
  BY <1>4
<1> HIDE DEF armed
<1>6. \A i \in 0 .. n : armed[i] = IF i = 0 THEN poll_init
                                   ELSE fd_set(armed[i - 1], listeners[i], "RD")
  BY <1>5
<1> DEFINE T == {i \in 0 .. n : Arms(armed[i])}
<1>7. 0 \in T
  <2>1. 0 \in 0 .. n /\ armed[0] = poll_init
    BY <1>1, <1>6
  <2>2. /\ poll_init.evts = [fd \in FD |-> {}] /\ poll_init.ptr = [fd \in FD |-> 0]
        /\ poll_init.chg = << >> /\ 1 .. Len(poll_init.chg) = {}
    BY DEF poll_init
  <2>3. Recorded(poll_init)
    BY <2>2 DEF Recorded
  <2>4. \A fd \in FD : InStep(poll_init, [g \in FD |-> {}], fd)
    BY <2>2 DEF InStep
  <2>5. Arms(poll_init)
    BY <1>3, <2>2, <2>3, <2>4 DEF Arms
  <2> QED
    BY <2>1, <2>5
<1>8. ASSUME NEW i \in 0 .. n, i # 0, i - 1 \in T PROVE i \in T
  <2> DEFINE p == armed[i - 1]
             l == listeners[i]
             q == fd_set(p, l, "RD")
  <2>1. Arms(p)
    BY <1>8
  <2>2. i \in 1 .. n
    BY <1>1, <1>8
  <2>3. l \in FD /\ l \in Listeners /\ armed[i] = q
    BY <1>1, <1>6, <1>8, <2>2
  <2> HIDE DEF p, l
  <2>4. Wished(p, q, l)
    BY <1>3, <2>1, <2>3, SetWished DEF Arms
  <2> HIDE DEF q
  <2> DEFINE k == [g \in FD |-> {}]
  <2>5. k \in [FD -> Masks]
    BY DEF Masks
  <2>6. \A fd \in FD : InStep(p, k, fd)
    BY <2>1 DEF Arms
  <2> HIDE DEF k
  <2>7. \A fd \in FD : InStep(q, k, fd)
    BY <2>4, <2>5, <2>6 DEF Wished
  <2>8. \A fd \in FD : fd \notin Listeners => q.evts[fd] = {}
    BY <2>1, <2>3, <2>4 DEF Arms, Wished
  <2>9. Arms(q)
    BY <2>4, <2>7, <2>8 DEF Arms, Wished, k
  <2> QED
    BY <2>3, <2>9
<1> HIDE DEF T
<1>9. n \in T
  <2>1. \A i \in 0 .. n : i \in T
    BY <1>1, <1>7, <1>8, IndexInduction
  <2> QED
    BY <1>1, <2>1
<1> QED
  BY <1>2, <1>9 DEF T

\* The invariant holds at the start.
LEMMA InitInv ==
  ASSUME Init
  PROVE  EventLoopInv
<1>1. PICK listeners \in SetToSeqs(Listeners) :
        srv = [poll  |-> tcp_enable(listeners),
               epoll |-> [fd \in FD |-> {}],
               open  |-> Listeners,
               state |-> [fd \in FD |-> IF fd \in Listeners THEN "listen" ELSE "close"],
               owner |-> [fd \in FD |-> fd],
               buf   |-> [fd \in FD |-> "null"],
               conn  |-> 0,
               maxfd |-> Max(Listeners) + 1,
               gen   |-> [fd \in FD |-> 0],
               left  |-> {}]
  BY DEF Init
<1> DEFINE p == tcp_enable(listeners)
           m == Max(Listeners) + 1
<1>2. Arms(p)
  BY EnableFacts
<1> HIDE DEF p, m
<1>3. /\ srv.poll = p /\ srv.epoll = [fd \in FD |-> {}] /\ srv.open = Listeners
      /\ srv.state = [fd \in FD |-> IF fd \in Listeners THEN "listen" ELSE "close"]
      /\ srv.owner = [fd \in FD |-> fd] /\ srv.buf = [fd \in FD |-> "null"]
      /\ srv.conn = 0 /\ srv.gen = [fd \in FD |-> 0] /\ srv.left = {} /\ Fields(srv)
  <2>1. srv = [poll  |-> p,
               epoll |-> [fd \in FD |-> {}],
               open  |-> Listeners,
               state |-> [fd \in FD |-> IF fd \in Listeners THEN "listen" ELSE "close"],
               owner |-> [fd \in FD |-> fd],
               buf   |-> [fd \in FD |-> "null"],
               conn  |-> 0,
               maxfd |-> m,
               gen   |-> [fd \in FD |-> 0],
               left  |-> {}]
    BY <1>1 DEF p, m
  <2> QED
    BY <2>1 DEF Fields
<1>4. Listeners \subseteq FD
  BY EventLoopAssumption
<1>5. Typed(srv)
  BY <1>2, <1>3, <1>4 DEF Typed, Arms, Masks
<1>6. States(srv)
  BY <1>3, <1>4 DEF States
<1>7. EchoOf(srv) = {}
  BY <1>3 DEF EchoOf
<1>8. Counted(srv)
  BY <1>3, <1>7, FS_EmptySet DEF Counted
<1>9. Watched(srv)
  <2> DEFINE k == [fd \in FD |-> {}]
  <2>1. \A fd \in FD : k[fd] = {}
    OBVIOUS
  <2>2. srv.epoll = k /\ \A fd \in FD : InStep(p, k, fd)
    BY <1>2, <1>3 DEF Arms
  <2> HIDE DEF k
  <2>3. Recorded(p) /\ \A fd \in FD : fd \notin Listeners => p.evts[fd] = {}
    BY <1>2 DEF Arms
  <2> QED
    BY <1>3, <1>7, <2>1, <2>2, <2>3 DEF Watched
<1>10. /\ pc = "loop" /\ batch = {} /\ cur = {}
  BY DEF Init
<1>11. Events
  BY <1>10 DEF Events, EventsOf
<1> QED
  BY <1>3, <1>5, <1>6, <1>8, <1>9, <1>10, <1>11 DEF EventLoopInv, ServerInv

----------------------------------------------------------------------------
(* What holds of the server, for every number of descriptors, listeners,   *)
(* connections and events.                                                 *)

\* The inductive invariant: the table, the kernel, the change list, the counter
\* of connections and the events of the batch belong together.
THEOREM EventLoopInvariant == Spec => []EventLoopInv
<1>1. Init => EventLoopInv
  BY InitInv
<1>2. EventLoopInv /\ [Next]_vars => EventLoopInv'
  BY NextInv
<1> QED
  BY <1>1, <1>2, PTL DEF Spec

\* Whatever the callbacks of a batch close and accept, poll_do() dispatches no
\* event to a connection younger than the event.
THEOREM EventsNeverStale == Spec => []NoStaleEvent
<1>1. EventLoopInv => NoStaleEvent
  BY DEF EventLoopInv, Events, EventsOf, NoStaleEvent
<1> QED
  BY <1>1, EventLoopInvariant, PTL

\* fdtab[], the kernel's descriptors, the buffers and _stat.conn agree between
\* any two callbacks.
THEOREM ConnectionsAccounted == Spec => []ConnsAccounted
<1>1. ASSUME EventLoopInv PROVE ConnsAccounted
  <2>1. EchoConns = EchoOf(srv)
    BY DEF EchoConns, Conns, EchoOf
  <2>2. CASE pc = "done"
    BY <1>1, <2>1, <2>2 DEF EventLoopInv, ConnsAccounted, Counted
  <2>3. CASE pc # "done"
    <3>1. ServerInv(srv)
      BY <1>1, <2>3 DEF EventLoopInv
    <3>2. \A fd \in Conns : srv.buf[fd] = "live"
      BY <3>1 DEF ServerInv, States, Conns
    <3>3. srv.open = Conns \cup Listeners
      BY <3>1, EventLoopAssumption DEF ServerInv, States, Typed, Conns
    <3>4. srv.conn = Cardinality(EchoConns)
      BY <2>1, <3>1 DEF ServerInv, Counted
    <3> QED
      BY <3>2, <3>3, <3>4 DEF ConnsAccounted
  <2> QED
    BY <2>2, <2>3
<1> QED
  BY <1>1, EventLoopInvariant, PTL

\* A closed number carries no wanted event into its next connection, unless a
\* failed http_write() armed it after it closed it.
THEOREM ReusedNumbersUnset == Spec => []ReusedAppearsUnset
<1>1. EventLoopInv => ReusedAppearsUnset
  BY DEF EventLoopInv, ServerInv, Watched, ReusedAppearsUnset
<1> QED
  BY <1>1, EventLoopInvariant, PTL

\* fd_flush_changes() leaves every connection watched for what its handler
\* waits for, and every echo connection for reading, before each epoll_wait().
THEOREM ConnectionsWatched == Spec => NoneForgotten
<1> DEFINE A == pc = "loop" /\ pc' = "events" =>
                  \A fd \in Conns \ srv.left :
                    /\ srv'.epoll[fd] = srv.poll.evts[fd]
                    /\ fd \in EchoConns => "RD" \in srv'.epoll[fd]
<1>1. ASSUME EventLoopInv, [Next]_vars PROVE [A]_vars
  <2> SUFFICES ASSUME pc = "loop", pc' = "events", NEW fd \in Conns \ srv.left
               PROVE  /\ srv'.epoll[fd] = srv.poll.evts[fd]
                      /\ fd \in EchoConns => "RD" \in srv'.epoll[fd]
    OBVIOUS
  <2>1. PollWait
    BY <1>1 DEF Next, Loop, ReadHalf, WriteHalf, EndOfBatch, Connect, Signal, vars
  <2>2. ServerInv(srv)
    BY <1>1 DEF EventLoopInv
  <2>3. fd \in FD /\ fd \in srv.open /\ fd \notin srv.left
    BY <2>2 DEF ServerInv, States, Conns
  <2>4. srv'.epoll[fd] = srv.poll.evts[fd]
    BY <1>1, <2>1, <2>3, PollWaitStep
  <2>5. fd \in EchoConns => "RD" \in srv.poll.evts[fd]
    BY <2>2 DEF ServerInv, Watched, EchoConns, Conns, EchoOf
  <2> QED
    BY <2>4, <2>5
<1>2. []EventLoopInv /\ [][Next]_vars => [][A]_vars
  <2> HIDE DEF A
  <2> QED
    BY <1>1, PTL
<1> QED
  BY <1>2, EventLoopInvariant, PTL DEF Spec, NoneForgotten

=============================================================================
