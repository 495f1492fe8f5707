-------------------------------- MODULE PubSub --------------------------------
(***************************************************************************)
(* The publish/subscribe handlers, plain text (src/src/handler/pubsub.c)   *)
(* and http (src/src/handler/http_pubsub.c), run by the event loop.        *)
(*                                                                         *)
(* Connections come and go and reuse descriptor numbers, while topics and  *)
(* accounts (PubSubModel) remember the numbers.  What links the two is     *)
(* model_acc_offline() on disconnect and, for topics, model_pub()'s test   *)
(* of the output buffer.                                                   *)
(***************************************************************************)
EXTENDS PubSubModel

CONSTANTS
  Kinds,      \* handlers with a listener: a subset of {"psub", "http"}
  MaxConn,    \* max_conn (the handlers share one _stat)
  MaxLogins,  \* bound: logins of one connection
  MaxEvents,  \* bound: events in one batch
  MaxAccepts  \* bound: connections made in all

ASSUME PubSubAssumption ==
  /\ Kinds \subseteq {"psub", "http"}
  /\ OutCap \in Nat \ {0, 1} /\ PlainLen \subseteq Nat \ {0} /\ HttpLen \subseteq Nat \ {0}
  /\ MaxConn \in Nat /\ MaxLogins \in Nat /\ MaxEvents \in Nat /\ MaxAccepts \in Nat

VARIABLES
  s,      \* the server's memory, as PubSubModel describes it; s.open are the
          \* open descriptors, s.epoll the kernel's interest list, s.conn is
          \* _stat.conn
  batch,  \* events of the current batch still to dispatch
  lst,    \* listeners of the current batch still to dispatch
  last,   \* the last step's successful publish, as [t, fd, len], or NoPub (history)
  accepts,  \* connections made so far
  pc      \* "loop" or "events"

vars == <<s, batch, lst, last, accepts, pc>>

NoPub    == [t |-> "none", fd |-> "none", len |-> Short]
ZB_CLOSE == {"CLOSE_RD", "CLOSE_WR"}

Init ==
  /\ s = [poll |-> poll_init, epoll |-> [fd \in FD |-> {}], open |-> {}, conn |-> 0,
          kind |-> [fd \in FD |-> "none"], wrb |-> [fd \in FD |-> FALSE],
          out |-> [fd \in FD |-> EmptyBuffer],
          accounts |-> << >>, afds |-> [a \in Account |-> << >>],
          topics |-> {}, tfds |-> [t \in Topic |-> << >>], cookies |-> {},
          me |-> [fd \in FD |-> << >>], subs |-> [fd \in FD |-> {}],
          twice |-> {}, stale |-> {}]
  /\ batch = {} /\ lst = {} /\ last = NoPub /\ accepts = 0 /\ pc = "loop"

----------------------------------------------------------------------------
(* Accept and disconnect.                                                  *)

\* Plain text allocates its buffers before it tests the limit, and keeps them
\* when it refuses the connection; http tests first.
accept(m, k, nfd) ==
  LET b == [m EXCEPT !.wrb[nfd] = TRUE, !.out[nfd] = EmptyBuffer]
  IN  IF m.conn >= MaxConn
      THEN IF k = "psub" THEN [b EXCEPT !.stale = @ \cup {nfd}] ELSE m
      ELSE [b EXCEPT !.conn      = @ + 1,
                     !.open      = @ \cup {nfd},
                     !.kind[nfd] = k,
                     !.poll      = fd_set(@, nfd, "RD"),
                     !.stale     = @ \ {nfd}]

\* Frees and clears the input buffer only.
psub_disconnect(m, fd) == model_acc_offline([m EXCEPT !.conn = @ - 1], fd)

\* Mutant: as psub_disconnect(), the output buffer's pointer is kept.
http_psub_disconnect_KeepsBuf(m, fd) == model_acc_offline([m EXCEPT !.conn = @ - 1], fd)

http_psub_disconnect(m, fd) ==
  [model_acc_offline([m EXCEPT !.conn = @ - 1], fd) EXCEPT
     !.wrb[fd] = FALSE,
     !.out[fd] = EmptyBuffer]

close_conn(m, fd) ==
  LET d == [m EXCEPT !.poll      = fd_clo(@, fd),
                     !.epoll[fd] = {},
                     !.open      = @ \ {fd},
                     !.me[fd]    = << >>,
                     !.subs[fd]  = {}]
  IN  IF m.kind[fd] = "psub" THEN psub_disconnect(d, fd) ELSE http_psub_disconnect(d, fd)

recheck_state(m, fd, flag) ==
  IF flag = ZB_CLOSE THEN close_conn(m, fd)
                     ELSE [m EXCEPT !.poll = recheck_flags(@, fd, flag)]

----------------------------------------------------------------------------
(* Read and write callbacks: the possible [s, ret, pub].                   *)

Result(m, ret, pub) == [s |-> m, ret |-> ret, pub |-> pub]

\* Commands a client may send; MaxLogins bounds the logins.
Sent(m, fd) ==
  {c \in Commands : c.op = "login" /\ c.pass => Len(m.me[fd]) < MaxLogins}

process(m, fd, c) ==
  LET r == model_process(m, fd, c)
  IN  Result(r.s, r.ret,
             IF c.op = "pub" /\ r.ok THEN [t |-> c.arg, fd |-> fd, len |-> c.len] ELSE NoPub)

\* Several commands in one read are several reads here; of their results the
\* code returns the last.
psub_read(m, fd) ==
  {Result(m, ZB_CLOSE, NoPub)} \cup {process(m, fd, c) : c \in Sent(m, fd)}

\* A request with a session cookie logs the connection in first.  The result
\* of the command only enables directions, which on_response() did already.
http_psub_read(m, fd) ==
  LET with(a) == IF a = NoAcct THEN m ELSE login(m, fd, a)
      ids     == {NoAcct} \cup (IF Len(m.me[fd]) < MaxLogins THEN m.cookies ELSE {})
  IN  {Result(m, ZB_CLOSE, NoPub), Result(m, {}, NoPub)}
      \cup UNION {{[process(with(a), fd, c) EXCEPT !.ret = {}] : c \in Sent(with(a), fd)}
                    : a \in ids}

\* send() of an empty buffer returns 0, which counts as a failure.  A partial
\* send keeps the buffer and the direction.
write(m, fd) ==
  {Result(m, ZB_CLOSE, NoPub)} \cup
  (IF m.out[fd].data = << >> THEN {}
   ELSE {Result(m, {"SET_WR"}, NoPub),
         Result([m EXCEPT !.out[fd] = EmptyBuffer], {"CLOSE_WR"}, NoPub)})

ReadCb(m, fd) == IF m.kind[fd] = "psub" THEN psub_read(m, fd) ELSE http_psub_read(m, fd)

----------------------------------------------------------------------------
(* The loop.                                                               *)

Reported(k, fd) == IF k[fd] = {} THEN {} ELSE SUBSET k[fd] \cup {Dir}

PollWait ==
  /\ pc = "loop"
  /\ \E f \in {fd_flush_changes(s.poll, s.epoll, s.open)} :
       /\ s' = [s EXCEPT !.poll = f.poll, !.epoll = f.epoll]
       /\ lst' \in {l \in SUBSET Kinds : Cardinality(l) <= MaxAccepts - accepts}
       /\ \E n \in 0 .. MaxEvents - Cardinality(lst') : \E ready \in kSubset(n, FD) :
          \E ev \in [ready -> SUBSET Dir \ {{}}] :
            /\ \A fd \in ready : ev[fd] \in Reported(f.epoll, fd)
            /\ batch' = {[fd |-> fd, ev |-> ev[fd]] : fd \in ready}
  /\ last' = NoPub
  /\ pc' = "events"
  /\ UNCHANGED accepts

\* One connection event: read half, then write half unless it is closed.
Dispatch(e) ==
  /\ pc = "events" /\ e \in batch
  /\ batch' = batch \ {e}
  /\ IF e.fd \notin s.open
     THEN UNCHANGED s /\ last' = NoPub
     ELSE \E r \in (IF "RD" \in e.ev THEN ReadCb(s, e.fd) ELSE {Result(s, {}, NoPub)}) :
          \E m \in {recheck_state(r.s, e.fd, r.ret)} :
            /\ last' = r.pub
            /\ IF e.fd \notin m.open
               THEN s' = m
               ELSE \E w \in (IF "WR" \in e.ev THEN write(m, e.fd)
                                               ELSE {Result(m, r.ret, NoPub)}) :
                      s' = recheck_state(w.s, e.fd, w.ret)
  /\ UNCHANGED <<lst, accepts, pc>>

\* accept() returns the lowest free number; nothing here depends on which free
\* one it is, so any is taken.
Accept(k) ==
  /\ pc = "events" /\ k \in lst
  /\ accepts' = accepts + 1
  /\ lst' = lst \ {k}
  /\ \E nfd \in FD \ s.open : s' = accept(s, k, nfd)
  /\ last' = NoPub
  /\ UNCHANGED <<batch, pc>>

\* A listener's event with no descriptor left has no effect on a connection.
EndOfBatch ==
  /\ pc = "events" /\ batch = {}
  /\ lst = {} \/ FD = s.open
  /\ pc' = "loop" /\ lst' = {} /\ last' = NoPub
  /\ UNCHANGED <<s, batch, accepts>>

Next ==
  \/ PollWait
  \/ \E e \in batch : Dispatch(e)
  \/ \E k \in Kinds : Accept(k)
  \/ EndOfBatch

Spec == Init /\ [][Next]_vars

----------------------------------------------------------------------------
(* Properties.                                                             *)

\* What becomes of the output buffer b of a connection when message t of length
\* len is published to it.  http: a message that fits takes the place of what was
\* there, one that does not leaves an empty buffer, whose sending closes the
\* connection.  Plain text: the message comes once behind what was there if it
\* fits, and nothing but a newline does if not.
Delivered(b, kind, t, len) ==
  IF kind = "http"
  THEN IF len.http < OutCap THEN {<<t>>} ELSE {<< >>}
  ELSE LET d == IF b.r + len.plain < OutCap THEN Append(b.data, t) ELSE b.data
       IN  {d, Append(d, Newline)}

\* model_pub() reaches every connection that subscribed and did not leave,
\* whatever numbers closed connections left in the topic, and each once: the
\* message is delivered to its output buffer and its write event is wanted.
SubscribersServed ==
  [][last' # NoPub =>
       \A c \in s'.open \ {last'.fd} :
         last'.t \in s'.subs[c] =>
           /\ s'.out[c].data \in Delivered(s.out[c], s.kind[c], last'.t, last'.len)
           /\ "WR" \in s'.poll.evts[c]]_vars

\* A connection acts as an account only if it logged in as that account
\* itself: logins of earlier connections on the same number are gone.  Numbers
\* on which some connection logged in twice are excepted, as a login inserts the
\* number again and a disconnect removes it once.
NoInheritedLogin ==
  \A fd \in FD \ s.twice :
    LET a == account_get_by_fd(s, fd)
    IN  a # NoAcct => fd \in s.open /\ \E i \in DOMAIN s.me[fd] : s.me[fd][i] = a

\* "trick detect close fd" (model_pub): among the descriptors a topic
\* remembers, a missing output buffer tells the closed ones from the others; of
\* the plain-text ones, whose buffers psub_disconnect() does not clear, and of
\* those a refused plain-text connection got a buffer on, it does at least
\* condemn none that is open.
TrickDetectsClosed ==
  \A t \in s.topics : \A i \in DOMAIN s.tfds[t] :
    LET fd == s.tfds[t][i] IN
    /\ ~ s.wrb[fd] => fd \notin s.open
    /\ s.kind[fd] = "http" /\ fd \notin s.open \cup s.stale => ~ s.wrb[fd]

\* A publish leaves no descriptor in the topic that an http connection closed,
\* so that the message cannot be sent to, and the next connection cannot
\* inherit, a closed one; a buffer left by a refused plain-text connection keeps
\* the number in.
PublishPrunes ==
  last # NoPub => \A i \in DOMAIN s.tfds[last.t] :
    LET fd == s.tfds[last.t][i]
    IN  fd \in s.open \cup s.stale \cup {last.fd} \/ s.kind[fd] = "psub"

=============================================================================
