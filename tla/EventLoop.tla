------------------------------- MODULE EventLoop -------------------------------
(***************************************************************************)
(* The single-threaded server loop: fd table (src/src/fd.c), dispatch of a *)
(* batch of epoll events (poll_do, recheck_state in src/src/poller.c),     *)
(* acceptor (src/src/client.c) and the connection handlers echo and http.  *)
(*                                                                         *)
(* The question is descriptor reuse.  A batch of events is collected once  *)
(* and dispatched one by one, while the callbacks close descriptors and    *)
(* the acceptor is handed the same numbers again; the change list is only  *)
(* replayed before the next epoll_wait().                                  *)
(*                                                                         *)
(* The server is one record, so that a callback is a function from server  *)
(* to server:                                                              *)
(*   s.poll    the poller (PollerOps)      s.epoll  the kernel's interest  *)
(*   s.open    open descriptors (kernel)   s.state  fdtab[].state          *)
(*   s.owner   fdtab[].owner               s.buf    fdtab[].cb[].b         *)
(*   s.conn    _stat.conn of echo          s.maxfd  maxfd                  *)
(*   s.gen     connections fd was given to so far (history)                *)
(*   s.left    numbers a failed http_write() left armed (history)          *)
(***************************************************************************)
EXTENDS PollerOps, SequencesExt

CONSTANTS
  EchoListeners,  \* listening descriptors of the echo handler
  HttpListeners,  \* listening descriptors of the http handler
  MaxConn,        \* max_conn of the echo handler (_stat.max_conn)
  MaxConnects     \* bound: connections made by peers

Listeners == EchoListeners \cup HttpListeners

ASSUME EventLoopAssumption ==
  /\ FD \subseteq Nat /\ IsFiniteSet(FD)
  /\ Listeners \subseteq FD
  /\ EchoListeners \cap HttpListeners = {}
  /\ MaxConn \in Nat
  /\ MaxConnects \in Nat

VARIABLES
  srv,       \* the server's memory and descriptors
  batch,     \* events returned by epoll_wait() and not yet dispatched
  cur,       \* the event whose write half is due, or {}
  zb_ret,    \* the callback result carried from the read to the write half
  backlog,   \* connections waiting in each listener's accept queue
  connects,  \* connections made so far
  stop,      \* _is_stop
  pc         \* "loop", "events", "done"

vars == <<srv, batch, cur, zb_ret, backlog, connects, stop, pc>>

----------------------------------------------------------------------------
(* Callback results (enum of src/src/type/fd.h) as sets of flags.          *)

Flags       == {"CLOSE_RD", "CLOSE_WR", "SET_RD", "SET_WR"}
ZB_NOP      == {}
ZB_CLOSE_WR == {"CLOSE_WR"}
ZB_SET_WR   == {"SET_WR"}
ZB_CLOSE    == {"CLOSE_RD", "CLOSE_WR"}
ZB_MINUS1   == Flags      \* http_write()'s -1 has every bit set

----------------------------------------------------------------------------
(* fd.c                                                                    *)

\* One past the highest descriptor in use, as the loop of fd_delete leaves it.
ShrinkMaxfd(state, maxfd) ==
  LET used == {f \in FD : f < maxfd /\ state[f] # "close"}
  IN  IF used = {} THEN 0 ELSE Max(used) + 1

\* Mutant: EV_FD_CLO is missing.
fd_delete_NoClo(s, fd) ==
  LET state == [s.state EXCEPT ![fd] = "close"]
  IN  [s EXCEPT !.epoll = [@ EXCEPT ![fd] = {}],
                !.open  = @ \ {fd},
                !.left  = @ \ {fd},
                !.state = state,
                !.maxfd = ShrinkMaxfd(state, @)]

fd_delete(s, fd) ==
  LET state == [s.state EXCEPT ![fd] = "close"]
  IN  [s EXCEPT !.poll  = fd_clo(@, fd),
                !.epoll = [@ EXCEPT ![fd] = {}],
                !.open  = @ \ {fd},
                !.left  = @ \ {fd},
                !.state = state,
                !.maxfd = ShrinkMaxfd(state, @)]

fd_insert(s, fd) == [s EXCEPT !.maxfd = Max({@, fd + 1})]

EV_FD_SET(s, fd, dir) == [s EXCEPT !.poll = fd_set(@, fd, dir)]
EV_FD_CLR(s, fd, dir) == [s EXCEPT !.poll = fd_clr(@, fd, dir)]

----------------------------------------------------------------------------
(* Disconnect callbacks.  "null" and "freed" both mean no usable buffer;   *)
(* http leaves the dangling pointers in the table.                         *)

echo_disconnect(s, fd) ==
  [s EXCEPT !.buf = [@ EXCEPT ![fd] = "null"], !.conn = @ - 1]

http_disconnect(s, fd) == [s EXCEPT !.buf = [@ EXCEPT ![fd] = "freed"]]

disconnect(s, fd) ==
  IF s.owner[fd] \in EchoListeners THEN echo_disconnect(s, fd)
                                   ELSE http_disconnect(s, fd)

----------------------------------------------------------------------------
(* recheck_state(): what the loop does with a callback's result.           *)

recheck_state(s, fd, flag) ==
  IF flag = ZB_CLOSE THEN disconnect(fd_delete(s, fd), fd)
                     ELSE [s EXCEPT !.poll = recheck_flags(@, fd, flag)]

----------------------------------------------------------------------------
(* Read and write callbacks: the set of [s, ret] each may end in, over     *)
(* everything recv() and send() may report.                                *)

echo_read(s, fd)  == {[s |-> s, ret |-> r] : r \in {ZB_SET_WR, ZB_CLOSE}}

echo_write(s, fd) == {[s |-> s, ret |-> r] : r \in {ZB_NOP, ZB_CLOSE_WR, ZB_CLOSE}}

\* Data that completes the request arms the answer and stops reading, data
\* that does not changes nothing, and a closed or failed peer stops reading.
http_read(s, fd) ==
  {[s |-> t, ret |-> ZB_NOP] :
     t \in {s, EV_FD_CLR(EV_FD_SET(s, fd, "WR"), fd, "RD"), EV_FD_CLR(s, fd, "RD")}}

\* Mutant: a complete answer frees the buffers and leaves the descriptor open.
http_write_NoDelete(s, fd) ==
  {[s |-> s, ret |-> ZB_NOP], [s |-> http_disconnect(s, fd), ret |-> ZB_NOP]}

\* A partial answer keeps the connection; a complete one closes it and
\* returns 0; a failed send closes it and returns -1.
http_write(s, fd) ==
  LET closed == http_disconnect(fd_delete(s, fd), fd)
  IN  {[s |-> s,      ret |-> ZB_NOP],
       [s |-> closed, ret |-> ZB_NOP],
       [s |-> [closed EXCEPT !.left = @ \cup {fd}], ret |-> ZB_MINUS1]}

----------------------------------------------------------------------------
(* client.c: the read callback of a listener.                              *)

\* accept() hands out the lowest free number.
FreeFDs(s) == FD \ s.open

echo_accept(s, nfd) ==
  [s   |-> [s EXCEPT !.buf = [@ EXCEPT ![nfd] = "live"],
                     !.conn = IF @ >= MaxConn THEN @ ELSE @ + 1],
   nop |-> s.conn < MaxConn]

http_accept(s, nfd) ==
  [s |-> [s EXCEPT !.buf = [@ EXCEPT ![nfd] = "live"]], nop |-> TRUE]

accept_cb(s, fd, nfd) ==
  IF fd \in EchoListeners THEN echo_accept(s, nfd) ELSE http_accept(s, nfd)

\* The acceptor once accept() succeeded.
accept_conn(s, fd) ==
  LET nfd == Min(FreeFDs(s))
      r   == accept_cb(s, fd, nfd)
      ins == fd_insert(r.s, nfd)
      new == [ins EXCEPT
               !.open  = @ \cup {nfd},
               !.state = [@ EXCEPT ![nfd] = "conn"],
               !.owner = [@ EXCEPT ![nfd] = fd],
               !.gen   = [@ EXCEPT ![nfd] = s.gen[nfd] + 1]]
  IN  [s   |-> IF r.nop THEN EV_FD_SET(new, nfd, "RD") ELSE r.s,
       ret |-> ZB_NOP]

\* Mutant: the new connection is not armed for reading.
event_accept_NoSet(s, fd) ==
  IF FreeFDs(s) = {} THEN [s |-> s, ret |-> ZB_SET_WR]
  ELSE LET r == accept_conn(s, fd)
       IN  [r EXCEPT !.s = [@ EXCEPT !.poll = s.poll]]

\* Mutant: the connection with the highest number makes room for a new one.
event_accept_Evicts(s, fd) ==
  LET old == s.open \ Listeners
      t   == IF old = {} THEN s ELSE disconnect(fd_delete(s, Max(old)), Max(old))
  IN  IF FreeFDs(t) = {} THEN [s |-> t, ret |-> ZB_SET_WR] ELSE accept_conn(t, fd)

\* Mutant: a refused connection stops the listener.
event_accept_Disarms(s, fd) ==
  IF FreeFDs(s) = {} THEN [s |-> s, ret |-> {"CLOSE_RD"}]
  ELSE LET r == accept_conn(s, fd)
       IN  IF r.s.conn = s.conn THEN [r EXCEPT !.ret = {"CLOSE_RD"}] ELSE r

\* With no number left accept() fails with EMFILE and event_accept() returns
\* without a value; the debug build, the default configuration, returns errno,
\* and EMFILE (24) carries the bit ZB_SET_WR.  Prefork.tla has the other error.
event_accept(s, fd) ==
  IF FreeFDs(s) = {} THEN [s |-> s, ret |-> ZB_SET_WR] ELSE accept_conn(s, fd)

----------------------------------------------------------------------------
(* The loop.                                                               *)

ReadCb(s, fd) ==
  IF fd \in Listeners THEN {event_accept(s, fd)}
  ELSE IF s.owner[fd] \in EchoListeners THEN echo_read(s, fd) ELSE http_read(s, fd)

WriteCb(s, fd) ==
  IF s.owner[fd] \in EchoListeners THEN echo_write(s, fd) ELSE http_write(s, fd)

\* The callbacks an event makes poll_do() call.  EPOLLERR and EPOLLHUP, which
\* the kernel reports whatever the mask, call both; {} stands for no event.
Reported(k, fd) == SUBSET k[fd] \cup {Dir}

\* A listener is readable when a connection waits.
ReadyListeners(k) == {l \in Listeners : "RD" \in k[l] /\ backlog[l] > 0}

\* tcp_enable() arms the listeners in the order of their list.
tcp_enable(listeners) ==
  LET armed[i \in 0 .. Len(listeners)] ==
        IF i = 0 THEN poll_init ELSE fd_set(armed[i - 1], listeners[i], "RD")
  IN  armed[Len(listeners)]

\* The list is in the order of the configuration.
Init ==
  /\ \E listeners \in SetToSeqs(Listeners) :
       srv = [poll  |-> tcp_enable(listeners),
              epoll |-> [fd \in FD |-> {}],
              open  |-> Listeners,
              state |-> [fd \in FD |-> IF fd \in Listeners THEN "listen" ELSE "close"],
              owner |-> [fd \in FD |-> fd],
              buf   |-> [fd \in FD |-> "null"],
              conn  |-> 0,
              maxfd |-> Max(Listeners) + 1,
              gen   |-> [fd \in FD |-> 0],
              left  |-> {}]
  /\ batch = {}
  /\ cur = {}
  /\ zb_ret = ZB_NOP
  /\ backlog = [l \in Listeners |-> 0]
  /\ connects = 0
  /\ stop = FALSE
  /\ pc = "loop"

\* poll_do() up to the loop over the events: replay the changes, sleep, and
\* collect what the kernel reports of each descriptor.  Peers decide which
\* connections are ready.
PollWait ==
  /\ pc = "loop"
  /\ \E f \in {fd_flush_changes(srv.poll, srv.epoll, srv.open)} :
       /\ srv' = [srv EXCEPT !.poll = f.poll, !.epoll = f.epoll]
       /\ \E ev \in [{fd \in FD \ Listeners : f.epoll[fd] # {}} -> SUBSET Dir] :
            /\ \A fd \in DOMAIN ev : ev[fd] \in Reported(f.epoll, fd)
            /\ batch' = {[fd |-> fd, ev |-> ev[fd], gen |-> srv.gen[fd]] :
                           fd \in {g \in DOMAIN ev : ev[g] # {}}}
                        \cup {[fd |-> l, ev |-> {"RD"}, gen |-> srv.gen[l]] :
                                 l \in ReadyListeners(f.epoll)}
  /\ pc' = "events"
  /\ UNCHANGED <<cur, zb_ret, backlog, connects, stop>>

\* Dispatch of one event, first half: skip a closed descriptor, call the read
\* callback, apply its result.
ReadHalf(e) ==
  /\ pc = "events"
  /\ cur = {}
  /\ e \in batch
  /\ batch' = batch \ {e}
  /\ IF srv.state[e.fd] = "close"
     THEN UNCHANGED <<srv, cur, zb_ret, backlog>>
     ELSE \E r \in (IF "RD" \in e.ev THEN ReadCb(srv, e.fd)
                                     ELSE {[s |-> srv, ret |-> ZB_NOP]}) :
            /\ srv' = recheck_state(r.s, e.fd, r.ret)
            /\ zb_ret' = r.ret
            /\ cur' = {e}
            /\ backlog' = IF e.fd \in Listeners /\ FreeFDs(srv) # {}
                          THEN [backlog EXCEPT ![e.fd] = @ - 1]
                          ELSE backlog
  /\ UNCHANGED <<connects, stop, pc>>

\* Second half: the descriptor may be closed by now; otherwise call the write
\* callback and apply its result, or the read result a second time.
WriteHalf ==
  /\ pc = "events"
  /\ \E e \in cur :
       IF srv.state[e.fd] = "close"
       THEN UNCHANGED srv
       ELSE \E r \in (IF "WR" \in e.ev THEN WriteCb(srv, e.fd)
                                       ELSE {[s |-> srv, ret |-> zb_ret]}) :
              srv' = recheck_state(r.s, e.fd, r.ret)
  /\ cur' = {}
  /\ zb_ret' = ZB_NOP
  /\ UNCHANGED <<batch, backlog, connects, stop, pc>>

\* End of poll_do(): leave proc_center() when a signal asked for it, then
\* env_deinit(): poll_term() and tcp_unbind().
EndOfBatch ==
  /\ pc = "events"
  /\ batch = {} /\ cur = {}
  /\ pc' = IF stop THEN "done" ELSE "loop"
  /\ srv' = IF stop THEN [srv EXCEPT !.epoll = [fd \in FD |-> {}], !.open = @ \ Listeners]
                    ELSE srv
  /\ UNCHANGED <<batch, cur, zb_ret, backlog, connects, stop>>

\* Peers and signals.
Connect(l) ==
  /\ pc # "done"
  /\ connects < MaxConnects
  /\ connects' = connects + 1
  /\ backlog' = [backlog EXCEPT ![l] = @ + 1]
  /\ UNCHANGED <<srv, batch, cur, zb_ret, stop, pc>>

Signal ==
  /\ pc # "done"
  /\ ~ stop
  /\ stop' = TRUE
  /\ UNCHANGED <<srv, batch, cur, zb_ret, backlog, connects, pc>>

Loop == PollWait \/ (\E e \in batch : ReadHalf(e)) \/ WriteHalf \/ EndOfBatch

Next == Loop \/ (\E l \in Listeners : Connect(l)) \/ Signal

\* The process is scheduled: poll_do() waits at most MAX_DELAY_MS for events,
\* so the loop always takes its next step.
Spec == Init /\ [][Next]_vars /\ WF_vars(Loop)

----------------------------------------------------------------------------
(* Properties.                                                             *)

Conns == {fd \in FD : srv.state[fd] = "conn"}
EchoConns == {fd \in Conns : srv.owner[fd] \in EchoListeners}

\* An event collected for one connection is never dispatched to a later
\* connection that was given the same number while the batch was processed.
NoStaleEvent ==
  \A e \in batch \cup cur :
    srv.state[e.fd] # "close" => srv.gen[e.fd] = e.gen

\* A callback never runs on a connection whose buffer disconnect() freed, the
\* table and the kernel agree on which descriptors are in use, and _stat.conn
\* counts the open echo connections, so that echo_accept()'s limit is neither
\* exceeded nor used up by closed ones.
ConnsAccounted ==
  /\ \A fd \in Conns : srv.buf[fd] = "live"
  /\ pc # "done" => srv.open = Conns \cup Listeners
  /\ srv.conn = Cardinality(EchoConns)

\* When the process goes to sleep no connection is forgotten by the kernel:
\* the epoll_ctl() calls of fd_flush_changes() left each echo connection,
\* however often and by whichever handler its number was used since the last
\* flush, watched for reading, and each http connection for the directions it
\* waits for; but for the numbers a failed http_write() left armed.
NoneForgotten ==
  [][pc = "loop" /\ pc' = "events" =>
       \A fd \in Conns \ srv.left :
         /\ srv'.epoll[fd] = srv.poll.evts[fd]
         /\ fd \in EchoConns => "RD" \in srv'.epoll[fd]]_vars

\* The comment of __fd_clo(): "the FD will appear as previously unset".  A
\* number that is free carries no wanted event into its next connection, unless
\* http_write() closed it itself and returned -1, whose bits arm it again.
ReusedAppearsUnset ==
  pc # "done" => \A fd \in FD \ (srv.open \cup srv.left) : srv.poll.evts[fd] = {}

\* The comment of __fd_clo() as it stands: every closed number appears unset.
ClosedAppearsUnset ==
  pc # "done" => \A fd \in FD \ srv.open : srv.poll.evts[fd] = {}

\* chg_list has room for global.maxconn entries (poll_init), alloc_chg_list()
\* does not look (its limit is compiled out), and entries of closed numbers stay
\* until the flush.  With one entry per descriptor and event the list never
\* outgrows the descriptors, but by one for each number that a failed
\* http_write() closed and left armed.
ListFits == Len(srv.poll.chg) <= Cardinality(FD) + Cardinality(srv.left)

\* A waiting connection is accepted or refused, unless the server is stopped
\* or has no descriptor left.
Exhausted == FreeFDs(srv) = {}
AcceptProgress ==
  \A l \in Listeners : (backlog[l] > 0) ~> (backlog[l] = 0 \/ stop \/ Exhausted)

=============================================================================
