---------------------------- MODULE PubSubProofs ----------------------------
(***************************************************************************)
(* Proofs about PubSub for any descriptors, accounts, topics and limits:   *)
(* what topics and accounts, which remember descriptor numbers, know of    *)
(* the connections behind the numbers while these are closed and reused.   *)
(***************************************************************************)
EXTENDS PubSub, PollerOpsProofs, SequenceTheorems

----------------------------------------------------------------------------
(* The server's memory m between two events.                               *)

Fields(m) ==
  m = [poll |-> m.poll, epoll |-> m.epoll, open |-> m.open, conn |-> m.conn,
       kind |-> m.kind, wrb |-> m.wrb, out |-> m.out,
       accounts |-> m.accounts, afds |-> m.afds, topics |-> m.topics,
       tfds |-> m.tfds, cookies |-> m.cookies, me |-> m.me, subs |-> m.subs,
       twice |-> m.twice, stale |-> m.stale]

\* An output buffer.
Buffer == [data : Seq(Topic \cup {Reply, Newline}), r : Nat]

Typed(m) ==
  /\ m.poll \in PollerType /\ Recorded(m.poll)
  /\ m.epoll \in [FD -> Masks]
  /\ m.open \subseteq FD
  /\ m.conn \in Int
  /\ m.kind \in [FD -> {"none", "psub", "http"}]
  /\ m.wrb \in [FD -> BOOLEAN]
  /\ m.out \in [FD -> Buffer]
  /\ m.accounts \in Seq(Account)
  /\ m.afds \in [Account -> Seq(FD)]
  /\ m.topics \subseteq Topic
  /\ m.tfds \in [Topic -> Seq(FD)]
  /\ m.cookies \subseteq Account
  /\ m.me \in [FD -> Seq(Account)]
  /\ m.subs \in [FD -> SUBSET Topic]
  /\ m.twice \subseteq FD
  /\ m.stale \subseteq FD

\* An open descriptor has a handler and a buffer, and a closed one has a buffer
\* only if it was a plain-text connection's or a refused one's.
Buffers(m) ==
  \A fd \in FD :
    /\ fd \in m.open => m.wrb[fd] /\ m.kind[fd] # "none"
    /\ m.kind[fd] # "psub" /\ fd \notin m.open \cup m.stale => ~ m.wrb[fd]

\* x is in the vector v at most once.
Once(v, x) == \A i, j \in DOMAIN v : v[i] = x /\ v[j] = x => i = j

\* A topic remembers a number once, and the numbers of all its subscribers.
Lists(m) ==
  /\ \A t \in Topic, fd \in FD :
       Once(m.tfds[t], fd) /\ (vector_is_exist(m.tfds[t], fd) => m.kind[fd] # "none")
  /\ \A fd \in FD : \A t \in m.subs[fd] : fd \in m.open /\ vector_is_exist(m.tfds[t], fd)

\* fd, if an account has it at all, is an open connection that logged in as this
\* account only, and the account has it once.
OwnLogin(m, fd) ==
  /\ Len(m.me[fd]) <= 1
  /\ \A a \in Account :
       Once(m.afds[a], fd) /\ (vector_is_exist(m.afds[a], fd) => m.me[fd] = <<a>>)

\* Only accounts of the list have descriptors or cookies.
Logins(m) ==
  /\ \A a \in m.cookies : account_exists(m, a)
  /\ \A a \in Account : m.afds[a] # << >> => account_exists(m, a)
  /\ \A fd \in FD : fd \notin m.open => m.me[fd] = << >>
  /\ \A fd \in FD \ m.twice : OwnLogin(m, fd)

MemInv(m) == Fields(m) /\ Typed(m) /\ Buffers(m) /\ Lists(m) /\ Logins(m)

----------------------------------------------------------------------------
(* What a publish l did.                                                   *)

\* An output buffer b of a handler of this kind after an answer.
Responded(b, kind, t, len) ==
  IF kind = "psub" THEN buffer_write(buffer_write(b, t, len.plain), Newline, 1)
                   ELSE buffer_write(EmptyBuffer, t, len.http)

\* Between m and r fd got the message about t, once.
Got(m, r, fd, t, len) ==
  /\ r.out[fd] = Responded(m.out[fd], m.kind[fd], t, len)
  /\ "WR" \in r.poll.evts[fd]

\* The publish left numbers with a buffer only in the topic.
Pruned(r, l) ==
  l # NoPub =>
    /\ l.t \in Topic /\ l.fd \in FD /\ l.len \in Lengths
    /\ \A fd \in FD \ {l.fd} : vector_is_exist(r.tfds[l.t], fd) => r.wrb[fd]

\* Every open descriptor of the topic got the message, and the others were
\* dropped.
Published(m, r, l) ==
  /\ Pruned(r, l)
  /\ l # NoPub =>
       \A c \in r.open \ {l.fd} : vector_is_exist(r.tfds[l.t], c) => Got(m, r, c, l.t, l.len)

PubSubInv ==
  /\ MemInv(s)
  /\ \A e \in batch : e.fd \in FD
  /\ Pruned(s, last)

----------------------------------------------------------------------------
(* Vectors of descriptors.                                                 *)

\* A sequence without its element at i.
LEMMA RemoveAtFacts ==
  ASSUME NEW S, NEW v \in Seq(S), NEW i \in 1 .. Len(v)
  PROVE  /\ RemoveAt(v, i) \in Seq(S) /\ Len(RemoveAt(v, i)) = Len(v) - 1
         /\ \A k \in 1 .. Len(v) - 1 : RemoveAt(v, i)[k] = IF k < i THEN v[k] ELSE v[k + 1]
<1> DEFINE n == Len(v)
           a == SubSeq(v, 1, i - 1)
           b == SubSeq(v, i + 1, n)
<1>1. n \in Nat /\ i \in Nat /\ 1 <= i /\ i <= n /\ \A k \in 1 .. n : v[k] \in S
  OBVIOUS
<1> HIDE DEF n
<1>2. /\ a \in Seq(S) /\ Len(a) = i - 1
      /\ \A k \in 1 .. i - 1 : a[k] = v[k]
  <2>1. \A k \in 1 .. i - 1 : v[k] \in S
    BY <1>1
  <2>2. /\ a \in Seq(S) /\ Len(a) = IF 1 <= i - 1 THEN i - 1 - 1 + 1 ELSE 0
        /\ \A k \in 1 .. i - 1 - 1 + 1 : a[k] = v[1 + k - 1]
    <3>1. 1 \in Int /\ i - 1 \in Int
      BY <1>1
    <3> QED
      BY <2>1, <3>1, SubSeqProperties
  <2>3. i - 1 - 1 + 1 = i - 1 /\ \A k \in 1 .. i - 1 : 1 + k - 1 = k
    BY <1>1
  <2> QED
    BY <1>1, <2>2, <2>3
<1>3. /\ b \in Seq(S) /\ Len(b) = n - i
      /\ \A k \in 1 .. n - i : b[k] = v[i + k]
  <2>1. \A k \in i + 1 .. n : v[k] \in S
    BY <1>1
  <2>2. /\ b \in Seq(S) /\ Len(b) = IF i + 1 <= n THEN n - (i + 1) + 1 ELSE 0
        /\ \A k \in 1 .. n - (i + 1) + 1 : b[k] = v[(i + 1) + k - 1]
    <3>1. i + 1 \in Int /\ n \in Int
      BY <1>1
    <3> QED
      BY <2>1, <3>1, SubSeqProperties
  <2>3. n - (i + 1) + 1 = n - i /\ \A k \in 1 .. n - i : (i + 1) + k - 1 = i + k
    BY <1>1
  <2> QED
    BY <1>1, <2>2, <2>3
<1>4. RemoveAt(v, i) = a \o b
  BY DEF RemoveAt, n
<1> HIDE DEF a, b
<1>5. /\ a \o b \in Seq(S) /\ Len(a \o b) = Len(a) + Len(b)
      /\ \A k \in 1 .. Len(a) + Len(b) :
           (a \o b)[k] = IF k <= Len(a) THEN a[k] ELSE b[k - Len(a)]
  BY <1>2, <1>3, ConcatProperties
<1>6. Len(a) + Len(b) = n - 1
  BY <1>1, <1>2, <1>3
<1>7. ASSUME NEW k \in 1 .. n - 1
      PROVE  (a \o b)[k] = IF k < i THEN v[k] ELSE v[k + 1]
  <2>1. CASE k < i
    <3>1. k <= i - 1 /\ k \in 1 .. i - 1
      BY <1>1, <2>1
    <3>2. (a \o b)[k] = a[k]
      BY <1>2, <1>5, <1>6, <3>1
    <3> QED
      BY <1>2, <2>1, <3>1, <3>2
  <2>2. CASE ~ (k < i)
    <3>1. ~ (k <= i - 1) /\ k - (i - 1) \in 1 .. n - i /\ i + (k - (i - 1)) = k + 1
      BY <1>1, <2>2
    <3>2. (a \o b)[k] = b[k - (i - 1)]
      BY <1>2, <1>5, <1>6, <3>1
    <3> QED
      BY <1>3, <2>2, <3>1, <3>2
  <2> QED
    BY <2>1, <2>2
<1> QED
  BY <1>4, <1>5, <1>6, <1>7 DEF n

\* w is v without the first x at i.
Without(v, x, i, w) ==
  /\ i \in 1 .. Len(v) /\ v[i] = x
  /\ Len(w) = Len(v) - 1
  /\ \A k \in 1 .. Len(v) - 1 : w[k] = IF k < i THEN v[k] ELSE v[k + 1]

\* vector_remove() removes one x if there is one.
LEMMA VectorRemove ==
  ASSUME NEW S, NEW v \in Seq(S), NEW x
  PROVE  /\ vector_remove(v, x) \in Seq(S)
         /\ ~ vector_is_exist(v, x) => vector_remove(v, x) = v
         /\ vector_is_exist(v, x) => \E i : Without(v, x, i, vector_remove(v, x))
<1>1. CASE ~ vector_is_exist(v, x)
  BY <1>1 DEF vector_remove
<1>2. CASE vector_is_exist(v, x)
  <2> DEFINE I == {i \in DOMAIN v : v[i] = x}
             i == Min(I)
  <2>1. I \subseteq Nat /\ I # {} /\ DOMAIN v = 1 .. Len(v)
    BY <1>2 DEF vector_is_exist
  <2>2. i \in I
    BY <2>1, LeastNatural DEF Min
  <2>3. vector_remove(v, x) = RemoveAt(v, i)
    BY <1>2 DEF vector_remove
  <2>4. i \in 1 .. Len(v) /\ v[i] = x
    BY <2>1, <2>2
  <2> HIDE DEF i
  <2>5. RemoveAt(v, i) \in Seq(S) /\ Without(v, x, i, RemoveAt(v, i))
    BY <2>4, RemoveAtFacts DEF Without
  <2> QED
    BY <1>2, <2>3, <2>5
<1> QED
  BY <1>1, <1>2

\* What vector_remove(v, x) leaves: the other members, each as often as before,
\* and no x if there was but one.
LEMMA RemoveLeaves ==
  ASSUME NEW S, NEW v \in Seq(S), NEW x
  PROVE  LET w == vector_remove(v, x)
         IN  /\ w \in Seq(S)
             /\ \A y : vector_is_exist(w, y) => vector_is_exist(v, y)
             /\ \A y : y # x /\ vector_is_exist(v, y) => vector_is_exist(w, y)
             /\ \A y : Once(v, y) => Once(w, y)
             /\ Once(v, x) => ~ vector_is_exist(w, x)
<1> DEFINE w == vector_remove(v, x)
           n == Len(v)
<1>1. /\ w \in Seq(S)
      /\ ~ vector_is_exist(v, x) => w = v
      /\ vector_is_exist(v, x) => \E i : Without(v, x, i, w)
  BY VectorRemove
<1> HIDE DEF w
<1>2. CASE ~ vector_is_exist(v, x)
  BY <1>1, <1>2 DEF w
<1>3. CASE vector_is_exist(v, x)
  <2>1. PICK i : Without(v, x, i, w)
    BY <1>1, <1>3
  <2>2. /\ n \in Nat /\ DOMAIN v = 1 .. n /\ DOMAIN w = 1 .. n - 1
        /\ i \in 1 .. n /\ v[i] = x
        /\ \A k \in 1 .. n - 1 : w[k] = IF k < i THEN v[k] ELSE v[k + 1]
    <3>1. DOMAIN w = 1 .. Len(w) /\ DOMAIN v = 1 .. n /\ n \in Nat
      BY <1>1
    <3> QED
      BY <2>1, <3>1 DEF Without
  <2> HIDE DEF n
  <2> DEFINE at(k) == IF k < i THEN k ELSE k + 1
  <2>3. \A k \in 1 .. n - 1 : at(k) \in 1 .. n /\ at(k) # i /\ w[k] = v[at(k)]
    BY <2>2
  <2>4. \A k, l \in 1 .. n - 1 : at(k) = at(l) => k = l
    BY <2>2
  <2>5. \A j \in 1 .. n : j # i => \E k \in 1 .. n - 1 : at(k) = j
    <3> SUFFICES ASSUME NEW j \in 1 .. n, j # i PROVE \E k \in 1 .. n - 1 : at(k) = j
      OBVIOUS
    <3> DEFINE k == IF j < i THEN j ELSE j - 1
    <3>1. k \in 1 .. n - 1 /\ at(k) = j
      BY <2>2
    <3> QED
      BY <3>1
  <2> HIDE DEF at
  <2>6. \A y : vector_is_exist(w, y) => vector_is_exist(v, y)
    BY <2>2, <2>3 DEF vector_is_exist
  <2>7. \A y : y # x /\ vector_is_exist(v, y) => vector_is_exist(w, y)
    <3> SUFFICES ASSUME NEW y, y # x, NEW j \in 1 .. n, v[j] = y
                 PROVE  vector_is_exist(w, y)
      BY <2>2 DEF vector_is_exist
    <3>1. PICK k \in 1 .. n - 1 : at(k) = j
      BY <2>2, <2>5
    <3> QED
      BY <2>2, <2>3, <3>1 DEF vector_is_exist
  <2>8. \A y : Once(v, y) => Once(w, y)
    BY <2>2, <2>3, <2>4 DEF Once
  <2>9. Once(v, x) => ~ vector_is_exist(w, x)
    BY <2>2, <2>3 DEF Once, vector_is_exist
  <2> QED
    BY <1>1, <2>6, <2>7, <2>8, <2>9 DEF w
<1> QED
  BY <1>2, <1>3

\* vector_insert() adds x behind the others.
LEMMA InsertAdds ==
  ASSUME NEW S, NEW v \in Seq(S), NEW x \in S
  PROVE  LET w == vector_insert(v, x)
         IN  /\ w \in Seq(S)
             /\ \A y : vector_is_exist(w, y) <=> vector_is_exist(v, y) \/ y = x
             /\ \A y : y # x /\ Once(v, y) => Once(w, y)
             /\ ~ vector_is_exist(v, x) => Once(w, x)
<1> DEFINE w == vector_insert(v, x)
           n == Len(v)
<1>1. /\ w \in Seq(S) /\ n \in Nat /\ DOMAIN v = 1 .. n /\ DOMAIN w = 1 .. n + 1
      /\ w[n + 1] = x /\ \A k \in 1 .. n : w[k] = v[k]
  BY DEF vector_insert
<1> HIDE DEF w, n
<1>2. /\ \A k \in 1 .. n + 1 : k = n + 1 \/ k \in 1 .. n
      /\ \A k \in 1 .. n : k \in 1 .. n + 1
      /\ n + 1 \in 1 .. n + 1
  BY <1>1
<1>3. \A y : vector_is_exist(w, y) <=> vector_is_exist(v, y) \/ y = x
  BY <1>1, <1>2 DEF vector_is_exist
<1>4. \A y : y # x /\ Once(v, y) => Once(w, y)
  BY <1>1, <1>2 DEF Once
<1>5. ~ vector_is_exist(v, x) => Once(w, x)
  BY <1>1, <1>2 DEF Once, vector_is_exist
<1> QED
  BY <1>1, <1>3, <1>4, <1>5 DEF w

----------------------------------------------------------------------------
(* Answers.                                                                *)

SameModel(m, r) ==
  /\ r.accounts = m.accounts /\ r.afds = m.afds /\ r.topics = m.topics
  /\ r.tfds = m.tfds /\ r.cookies = m.cookies /\ r.me = m.me /\ r.subs = m.subs
  /\ r.twice = m.twice

SameConns(m, r) ==
  /\ r.open = m.open /\ r.conn = m.conn /\ r.kind = m.kind
  /\ r.wrb = m.wrb /\ r.stale = m.stale

\* The part of the memory that belongs to the poller and the buffers.
Served(m) ==
  /\ m.poll \in PollerType /\ Recorded(m.poll)
  /\ m.out \in [FD -> Buffer]

\* r is m after an answer to fd about t.
Answered(m, r, fd, t, len) ==
  /\ Fields(r) /\ SameModel(m, r) /\ SameConns(m, r) /\ r.epoll = m.epoll
  /\ Served(r) /\ Got(m, r, fd, t, len)
  /\ \A g \in FD : g # fd => r.out[g] = m.out[g] /\ r.poll.evts[g] = m.poll.evts[g]
  /\ m.poll.evts[fd] \subseteq r.poll.evts[fd]

\* The lengths of an answer.
LEMMA LengthFacts ==
  /\ Short.plain \in Nat /\ Short.http \in Nat
  /\ \A len \in Lengths : len.plain \in Nat /\ len.http \in Nat
  /\ OutCap \in Nat
BY PubSubAssumption DEF Lengths, Short

\* buffer_write() keeps a buffer one.
LEMMA WriteType ==
  ASSUME NEW b \in Buffer, NEW x \in Topic \cup {Reply, Newline}, NEW n \in Nat
  PROVE  buffer_write(b, x, n) \in Buffer
<1> DEFINE D == Topic \cup {Reply, Newline}
<1>1. b.data \in Seq(D) /\ b.r \in Nat /\ x \in D
  BY DEF Buffer
<1> HIDE DEF D
<1>2. Append(b.data, x) \in Seq(D) /\ b.r + n \in Nat
  BY <1>1
<1> QED
  BY <1>2 DEF buffer_write, Buffer, D

LEMMA EmptyType == EmptyBuffer \in Buffer
BY DEF EmptyBuffer, Buffer

\* on_response() of either handler.
LEMMA ResponseAnswers ==
  ASSUME NEW m, Fields(m), Served(m), NEW fd \in FD, NEW t \in Topic \cup {Reply},
         NEW len, len.plain \in Nat, len.http \in Nat
  PROVE  Answered(m, on_response(m, fd, t, len), fd, t, len)
<1> DEFINE o == Responded(m.out[fd], m.kind[fd], t, len)
           q == fd_set(m.poll, fd, "WR")
           r == on_response(m, fd, t, len)
<1>1. m.out[fd] \in Buffer /\ 1 \in Nat
  BY DEF Served
<1>2. t \in Topic \cup {Reply, Newline} /\ Newline \in Topic \cup {Reply, Newline}
  OBVIOUS
<1>3. o \in Buffer
  <2>1. buffer_write(m.out[fd], t, len.plain) \in Buffer /\ EmptyBuffer \in Buffer
    BY <1>1, <1>2, WriteType, EmptyType
  <2>2. /\ buffer_write(buffer_write(m.out[fd], t, len.plain), Newline, 1) \in Buffer
        /\ buffer_write(EmptyBuffer, t, len.http) \in Buffer
    BY <1>1, <1>2, <2>1, WriteType
  <2> QED
    BY <2>2 DEF Responded
<1>4. /\ q \in PollerType /\ Recorded(q)
      /\ \A g \in FD : g # fd => q.evts[g] = m.poll.evts[g]
      /\ q.evts[fd] = m.poll.evts[fd] \cup {"WR"}
  <2>1. m.poll \in PollerType /\ Recorded(m.poll) /\ "WR" \in Dir
    BY DEF Served, Dir
  <2> QED
    BY <2>1, SetWished DEF Wished
<1>5. r = [m EXCEPT !.out = [m.out EXCEPT ![fd] = o], !.poll = q]
  BY DEF on_response, psub_on_response, http_psub_on_response, Responded
<1> HIDE DEF q, o, r
<1>6. /\ Fields(r) /\ SameModel(m, r) /\ SameConns(m, r) /\ r.epoll = m.epoll
      /\ r.poll = q /\ r.out = [m.out EXCEPT ![fd] = o]
  BY <1>5 DEF Fields, SameModel, SameConns
<1>7. /\ r.out \in [FD -> Buffer] /\ r.out[fd] = o
      /\ \A g \in FD : g # fd => r.out[g] = m.out[g]
  BY <1>3, <1>6 DEF Served
<1>8. Served(r)
  BY <1>4, <1>6, <1>7 DEF Served
<1>9. Got(m, r, fd, t, len)
  BY <1>4, <1>6, <1>7 DEF Got, o
<1> QED
  BY <1>4, <1>6, <1>7, <1>8, <1>9 DEF Answered, r

\* An answer changes nothing the invariant is about.
LEMMA AnswerKeeps ==
  ASSUME NEW m, NEW r, MemInv(m), Fields(r), SameModel(m, r), SameConns(m, r),
         Served(r), r.epoll \in [FD -> Masks]
  PROVE  MemInv(r)
<1>1. Typed(r)
  BY DEF MemInv, Typed, Served, SameModel, SameConns
<1>2. Buffers(r)
  BY DEF MemInv, Buffers, Served, SameConns
<1>3. Lists(r)
  BY DEF MemInv, Lists, SameModel, SameConns
<1>4. Logins(r)
  BY DEF MemInv, Logins, OwnLogin, SameModel, SameConns, account_exists
<1> QED
  BY <1>1, <1>2, <1>3, <1>4 DEF MemInv

\* on_response() keeps the invariant.
LEMMA ResponseInv ==
  ASSUME NEW m, MemInv(m), NEW fd \in FD, NEW t \in Topic \cup {Reply},
         NEW len, len.plain \in Nat, len.http \in Nat
  PROVE  /\ MemInv(on_response(m, fd, t, len))
         /\ Answered(m, on_response(m, fd, t, len), fd, t, len)
<1>1. Fields(m) /\ Served(m) /\ m.epoll \in [FD -> Masks]
  BY DEF MemInv, Served, Typed, Buffers
<1> DEFINE r == on_response(m, fd, t, len)
<1>2. Answered(m, r, fd, t, len)
  BY <1>1, ResponseAnswers
<1> HIDE DEF r
<1>3. MemInv(r)
  BY <1>1, <1>2, AnswerKeeps DEF Answered
<1> QED
  BY <1>2, <1>3 DEF r

----------------------------------------------------------------------------
(* Accounts.                                                               *)

\* The descriptor of an account that account_get_by_fd() finds; if it finds
\* none, no account has it.
LEMMA AccountByFd ==
  ASSUME NEW m, MemInv(m), NEW fd \in FD
  PROVE  LET a == account_get_by_fd(m, fd)
         IN  /\ a # NoAcct => a \in Account /\ account_exists(m, a) /\ vector_is_exist(m.afds[a], fd)
             /\ a = NoAcct => \A b \in Account : ~ vector_is_exist(m.afds[b], fd)
<1> DEFINE has == {i \in DOMAIN m.accounts : vector_is_exist(m.afds[m.accounts[i]], fd)}
           a == account_get_by_fd(m, fd)
<1>1. /\ m.accounts \in Seq(Account) /\ DOMAIN m.accounts = 1 .. Len(m.accounts)
      /\ \A i \in DOMAIN m.accounts : m.accounts[i] \in Account
  <2>1. m.accounts \in Seq(Account)
    BY DEF MemInv, Typed
  <2> QED
    BY <2>1
<1>2. a = IF has = {} THEN NoAcct ELSE m.accounts[Min(has)]
  BY DEF account_get_by_fd
<1>3. has # {} => Min(has) \in has
  <2>1. has \subseteq Nat
    BY <1>1
  <2> HIDE DEF has
  <2> QED
    BY <2>1, LeastNatural DEF Min
<1>4. CASE has # {}
  <2> DEFINE i == Min(has)
  <2>1. i \in DOMAIN m.accounts /\ vector_is_exist(m.afds[m.accounts[i]], fd)
    BY <1>3, <1>4
  <2>2. a = m.accounts[i]
    BY <1>2, <1>4
  <2> HIDE DEF i, a, has
  <2>3. a \in Account /\ account_exists(m, a) /\ vector_is_exist(m.afds[a], fd) /\ a # NoAcct
    BY <1>1, <2>1, <2>2, NoAcctAssumption DEF account_exists
  <2> QED
    BY <2>3 DEF a
<1>5. CASE has = {}
  <2>1. a = NoAcct
    BY <1>2, <1>5
  <2>2. ASSUME NEW b \in Account, vector_is_exist(m.afds[b], fd) PROVE FALSE
    <3>1. m.afds[b] # << >>
      BY <2>2 DEF vector_is_exist
    <3>2. PICK i \in DOMAIN m.accounts : m.accounts[i] = b
      BY <3>1 DEF MemInv, Logins, account_exists
    <3> QED
      BY <1>5, <2>2, <3>2
  <2> QED
    BY <2>1, <2>2
<1> QED
  BY <1>4, <1>5

\* logup adds an account without descriptors.
LEMMA CreateStep ==
  ASSUME NEW m, MemInv(m), NEW a \in Account
  PROVE  LET r == model_acc_create(m, a).s
         IN  MemInv(r) /\ SameConns(m, r)
<1> DEFINE r == model_acc_create(m, a).s
<1>1. CASE account_exists(m, a)
  <2>1. r = m
    BY <1>1 DEF model_acc_create
  <2> QED
    BY <2>1 DEF SameConns
<1>2. CASE ~ account_exists(m, a)
  <2>1. r = [m EXCEPT !.accounts = Append(m.accounts, a)]
    BY <1>2 DEF model_acc_create
  <2> HIDE DEF r
  <2>2. m.accounts \in Seq(Account)
    BY DEF MemInv, Typed
  <2>3. /\ Append(m.accounts, a) \in Seq(Account)
        /\ \A i \in DOMAIN m.accounts : i \in DOMAIN Append(m.accounts, a)
                                        /\ Append(m.accounts, a)[i] = m.accounts[i]
    BY <2>2
  <2>4. /\ Fields(r) /\ r.accounts = Append(m.accounts, a) /\ r.afds = m.afds
        /\ r.topics = m.topics /\ r.tfds = m.tfds /\ r.cookies = m.cookies
        /\ r.me = m.me /\ r.subs = m.subs /\ r.twice = m.twice
        /\ SameConns(m, r) /\ r.poll = m.poll /\ r.out = m.out /\ r.epoll = m.epoll
    BY <2>1 DEF MemInv, Fields, SameConns
  <2>5. Typed(r)
    BY <2>3, <2>4 DEF MemInv, Typed, SameConns
  <2>6. Buffers(r) /\ Lists(r)
    BY <2>4 DEF MemInv, Buffers, Lists, SameConns
  <2>7. \A b : account_exists(m, b) => account_exists(r, b)
    BY <2>3, <2>4 DEF account_exists
  <2>8. Logins(r)
    BY <2>4, <2>7 DEF MemInv, Logins, OwnLogin, SameConns
  <2> QED
    BY <2>4, <2>5, <2>6, <2>8 DEF MemInv, r
<1> QED
  BY <1>1, <1>2

\* A login: a number that a connection logs in on for the second time is given
\* up, any other is now its account's.
LEMMA LoginStep ==
  ASSUME NEW m, MemInv(m), NEW fd \in m.open, NEW a \in Account, account_exists(m, a)
  PROVE  LET r == login(m, fd, a)
         IN  /\ MemInv(r) /\ SameConns(m, r) /\ r.accounts = m.accounts
             /\ r.cookies = m.cookies /\ r.out = m.out
<1> DEFINE r == login(m, fd, a)
           v == vector_insert(m.afds[a], fd)
           l == Append(m.me[fd], a)
<1>1. /\ fd \in FD /\ m.afds \in [Account -> Seq(FD)] /\ m.afds[a] \in Seq(FD)
      /\ m.me \in [FD -> Seq(Account)] /\ m.me[fd] \in Seq(Account)
  BY DEF MemInv, Typed
<1>2. /\ v \in Seq(FD)
      /\ \A g \in FD : vector_is_exist(v, g) <=> vector_is_exist(m.afds[a], g) \/ g = fd
      /\ \A g \in FD : g # fd /\ Once(m.afds[a], g) => Once(v, g)
      /\ ~ vector_is_exist(m.afds[a], fd) => Once(v, fd)
  <2>1. /\ v \in Seq(FD)
        /\ \A y : vector_is_exist(v, y) <=> vector_is_exist(m.afds[a], y) \/ y = fd
        /\ \A y : y # fd /\ Once(m.afds[a], y) => Once(v, y)
        /\ ~ vector_is_exist(m.afds[a], fd) => Once(v, fd)
    BY <1>1, InsertAdds
  <2> HIDE DEF v
  <2> QED
    BY <2>1
<1>3. l \in Seq(Account) /\ (m.me[fd] = << >> => l = <<a>> /\ Len(l) <= 1)
  <2>1. Append(<< >>, a) = <<a>> /\ Len(<<a>>) = 1
    OBVIOUS
  <2>2. l \in Seq(Account)
    BY <1>1
  <2>3. m.me[fd] = << >> => l = <<a>>
    BY <2>1
  <2> QED
    BY <2>1, <2>2, <2>3
<1>4. r = [m EXCEPT !.afds = [m.afds EXCEPT ![a] = v], !.me = [m.me EXCEPT ![fd] = l],
                    !.twice = IF m.me[fd] = << >> THEN m.twice ELSE m.twice \cup {fd}]
  BY DEF login
<1> HIDE DEF r, v, l
<1>5. /\ Fields(r) /\ r.accounts = m.accounts /\ r.topics = m.topics
      /\ r.tfds = m.tfds /\ r.cookies = m.cookies /\ r.subs = m.subs
      /\ SameConns(m, r) /\ r.poll = m.poll /\ r.out = m.out /\ r.epoll = m.epoll
      /\ r.afds = [m.afds EXCEPT ![a] = v] /\ r.me = [m.me EXCEPT ![fd] = l]
      /\ r.twice = IF m.me[fd] = << >> THEN m.twice ELSE m.twice \cup {fd}
  BY <1>4 DEF MemInv, Fields, SameConns
<1>6. /\ r.afds \in [Account -> Seq(FD)] /\ r.afds[a] = v
      /\ \A b \in Account : b # a => r.afds[b] = m.afds[b]
      /\ r.me \in [FD -> Seq(Account)] /\ r.me[fd] = l
      /\ \A g \in FD : g # fd => r.me[g] = m.me[g]
      /\ r.twice \subseteq FD /\ m.twice \subseteq r.twice
      /\ fd \notin r.twice => m.me[fd] = << >>
  BY <1>1, <1>2, <1>3, <1>5 DEF MemInv, Typed
<1>7. Typed(r)
  BY <1>5, <1>6 DEF MemInv, Typed, SameConns
<1>8. Buffers(r) /\ Lists(r)
  BY <1>5 DEF MemInv, Buffers, Lists, SameConns
<1>9. ASSUME NEW g \in FD \ r.twice PROVE OwnLogin(r, g)
  <2>1. g \in FD \ m.twice /\ OwnLogin(m, g)
    BY <1>6 DEF MemInv, Logins
  <2>2. CASE g # fd
    <3>1. \A b \in Account : /\ Once(r.afds[b], g)
                             /\ vector_is_exist(r.afds[b], g) => vector_is_exist(m.afds[b], g)
      BY <1>2, <1>6, <2>1, <2>2 DEF OwnLogin
    <3>2. r.me[g] = m.me[g]
      BY <1>6, <2>2
    <3> QED
      BY <2>1, <3>1, <3>2 DEF OwnLogin
  <2>3. CASE g = fd
    <3>1. m.me[fd] = << >>
      BY <1>6, <2>3
    <3>2. \A b \in Account : ~ vector_is_exist(m.afds[b], fd)
      BY <2>1, <2>3, <3>1 DEF OwnLogin
    <3>3. r.me[fd] = <<a>> /\ Len(r.me[fd]) <= 1
      BY <1>3, <1>6, <3>1
    <3>4. Once(r.afds[a], fd)
      BY <1>2, <1>6, <3>2
    <3>5. \A b \in Account : b # a => Once(r.afds[b], fd) /\ ~ vector_is_exist(r.afds[b], fd)
      BY <1>6, <2>1, <2>3, <3>2 DEF OwnLogin
    <3> QED
      BY <2>3, <3>3, <3>4, <3>5 DEF OwnLogin
  <2> QED
    BY <2>2, <2>3
<1>10. Logins(r)
  <2>1. \A b : account_exists(m, b) <=> account_exists(r, b)
    BY <1>5 DEF account_exists
  <2>2. \A b \in Account : r.afds[b] # << >> => account_exists(r, b)
    BY <1>6, <2>1 DEF MemInv, Logins
  <2>3. \A b \in r.cookies : account_exists(r, b)
    BY <1>5, <2>1 DEF MemInv, Logins
  <2>4. \A g \in FD : g \notin r.open => r.me[g] = << >>
    BY <1>5, <1>6 DEF MemInv, Logins, SameConns
  <2> QED
    BY <1>9, <2>2, <2>3, <2>4 DEF Logins
<1> QED
  BY <1>5, <1>7, <1>8, <1>10 DEF MemInv, r

----------------------------------------------------------------------------
(* Topics.                                                                 *)

\* A step that changes the topics only keeps the invariant if it keeps Lists.
LEMMA TopicStep ==
  ASSUME NEW m, NEW r, MemInv(m), Fields(r), SameConns(m, r),
         r.poll = m.poll, r.out = m.out, r.epoll = m.epoll,
         r.accounts = m.accounts, r.afds = m.afds, r.cookies = m.cookies,
         r.me = m.me, r.twice = m.twice,
         r.topics \subseteq Topic, r.tfds \in [Topic -> Seq(FD)],
         r.subs \in [FD -> SUBSET Topic], Lists(r)
  PROVE  MemInv(r)
<1>1. Typed(r)
  BY DEF MemInv, Typed, SameConns
<1>2. Buffers(r)
  BY DEF MemInv, Buffers, SameConns
<1>3. Logins(r)
  BY DEF MemInv, Logins, OwnLogin, SameConns, account_exists
<1> QED
  BY <1>1, <1>2, <1>3 DEF MemInv

\* create subscribes, to the topic it may have made; so does sub, to a topic
\* there is.
LEMMA SubStep ==
  ASSUME NEW m, MemInv(m), NEW fd \in m.open, NEW t \in Topic, NEW T \in SUBSET Topic
  PROVE  LET r == topic_sub([m EXCEPT !.topics = T], fd, t)
         IN  MemInv(r) /\ SameConns(m, r) /\ r.topics = T
<1> DEFINE r == topic_sub([m EXCEPT !.topics = T], fd, t)
           v == IF vector_is_exist(m.tfds[t], fd) THEN m.tfds[t]
                ELSE vector_insert(m.tfds[t], fd)
<1>1. /\ fd \in FD /\ m.tfds \in [Topic -> Seq(FD)] /\ m.tfds[t] \in Seq(FD)
      /\ m.subs \in [FD -> SUBSET Topic] /\ m.kind[fd] # "none"
      /\ \A u \in Topic, g \in FD : Once(m.tfds[u], g)
  BY DEF MemInv, Typed, Buffers, Lists
<1>2. /\ v \in Seq(FD)
      /\ \A g \in FD : vector_is_exist(v, g) <=> vector_is_exist(m.tfds[t], g) \/ g = fd
      /\ \A g \in FD : Once(v, g)
  <2>1. CASE vector_is_exist(m.tfds[t], fd)
    BY <1>1, <2>1
  <2>2. CASE ~ vector_is_exist(m.tfds[t], fd)
    <3> DEFINE w == vector_insert(m.tfds[t], fd)
    <3>1. v = w
      BY <2>2
    <3>2. /\ w \in Seq(FD)
          /\ \A y : vector_is_exist(w, y) <=> vector_is_exist(m.tfds[t], y) \/ y = fd
          /\ \A y : y # fd /\ Once(m.tfds[t], y) => Once(w, y)
          /\ ~ vector_is_exist(m.tfds[t], fd) => Once(w, fd)
      BY <1>1, InsertAdds
    <3> HIDE DEF v, w
    <3> QED
      BY <1>1, <2>2, <3>1, <3>2
  <2> QED
    BY <2>1, <2>2
<1>3. r = [m EXCEPT !.topics = T, !.tfds = [m.tfds EXCEPT ![t] = v],
                    !.subs = [m.subs EXCEPT ![fd] = m.subs[fd] \cup {t}]]
  BY DEF topic_sub, MemInv, Fields
<1> HIDE DEF r, v
<1>4. /\ Fields(r) /\ SameConns(m, r) /\ r.poll = m.poll /\ r.out = m.out
      /\ r.epoll = m.epoll /\ r.accounts = m.accounts /\ r.afds = m.afds
      /\ r.cookies = m.cookies /\ r.me = m.me /\ r.twice = m.twice
      /\ r.topics = T /\ r.tfds = [m.tfds EXCEPT ![t] = v]
      /\ r.subs = [m.subs EXCEPT ![fd] = m.subs[fd] \cup {t}]
  BY <1>3 DEF MemInv, Fields, SameConns
<1>5. /\ r.tfds \in [Topic -> Seq(FD)] /\ r.tfds[t] = v
      /\ \A u \in Topic : u # t => r.tfds[u] = m.tfds[u]
      /\ r.subs \in [FD -> SUBSET Topic] /\ r.subs[fd] = m.subs[fd] \cup {t}
      /\ \A g \in FD : g # fd => r.subs[g] = m.subs[g]
  BY <1>1, <1>2, <1>4
<1>6. Lists(r)
  <2>1. ASSUME NEW u \in Topic, NEW g \in FD
        PROVE  Once(r.tfds[u], g) /\ (vector_is_exist(r.tfds[u], g) => r.kind[g] # "none")
    BY <1>1, <1>2, <1>4, <1>5 DEF MemInv, Lists, SameConns
  <2>2. ASSUME NEW g \in FD, NEW u \in r.subs[g]
        PROVE  g \in r.open /\ vector_is_exist(r.tfds[u], g)
    <3>1. u \in Topic
      BY <1>5
    <3>2. CASE u \in m.subs[g]
      BY <1>2, <1>4, <1>5, <3>1, <3>2 DEF MemInv, Lists, SameConns
    <3>3. CASE u \notin m.subs[g]
      <4>1. u = t /\ g = fd
        BY <1>5, <2>2, <3>3
      <4> QED
        BY <1>2, <1>4, <1>5, <4>1 DEF SameConns
    <3> QED
      BY <3>2, <3>3
  <2> QED
    BY <2>1, <2>2 DEF Lists
<1>7. MemInv(r)
  BY <1>4, <1>5, <1>6, TopicStep
<1> QED
  BY <1>4, <1>7 DEF r

\* delete empties the topic's list and ends its subscriptions.
LEMMA DeleteStep ==
  ASSUME NEW m, MemInv(m), NEW t \in Topic
  PROVE  LET r == model_topic_delete(m, t).s
         IN  MemInv(r) /\ SameConns(m, r)
<1> DEFINE r == model_topic_delete(m, t).s
<1>1. CASE t \notin m.topics
  <2>1. r = m
    BY <1>1 DEF model_topic_delete
  <2> QED
    BY <2>1 DEF SameConns
<1>2. CASE t \in m.topics
  <2>1. r = [m EXCEPT !.topics = m.topics \ {t}, !.tfds = [m.tfds EXCEPT ![t] = << >>],
                      !.subs = [fd \in FD |-> m.subs[fd] \ {t}]]
    BY <1>2 DEF model_topic_delete
  <2> HIDE DEF r
  <2>2. /\ Fields(r) /\ SameConns(m, r) /\ r.poll = m.poll /\ r.out = m.out
        /\ r.epoll = m.epoll /\ r.accounts = m.accounts /\ r.afds = m.afds
        /\ r.cookies = m.cookies /\ r.me = m.me /\ r.twice = m.twice
        /\ r.topics = m.topics \ {t} /\ r.tfds = [m.tfds EXCEPT ![t] = << >>]
        /\ r.subs = [fd \in FD |-> m.subs[fd] \ {t}]
    BY <2>1 DEF MemInv, Fields, SameConns
  <2>3. /\ m.topics \subseteq Topic /\ m.tfds \in [Topic -> Seq(FD)]
        /\ m.subs \in [FD -> SUBSET Topic] /\ << >> \in Seq(FD)
    BY DEF MemInv, Typed
  <2>4. /\ r.topics \subseteq Topic /\ r.tfds \in [Topic -> Seq(FD)]
        /\ r.tfds[t] = << >> /\ r.subs \in [FD -> SUBSET Topic]
        /\ \A u \in Topic : u # t => r.tfds[u] = m.tfds[u]
        /\ \A g \in FD : r.subs[g] = m.subs[g] \ {t}
    BY <2>2, <2>3
  <2>5. \A g : ~ vector_is_exist(<< >>, g) /\ Once(<< >>, g)
    BY DEF vector_is_exist, Once
  <2>6. \A u \in Topic, g \in FD :
          Once(r.tfds[u], g) /\ (vector_is_exist(r.tfds[u], g) => r.kind[g] # "none")
    BY <2>2, <2>4, <2>5 DEF MemInv, Lists, SameConns
  <2>7. ASSUME NEW g \in FD, NEW u \in r.subs[g]
        PROVE  g \in r.open /\ vector_is_exist(r.tfds[u], g)
    <3>1. u \in m.subs[g] /\ u # t /\ u \in Topic
      BY <2>3, <2>4, <2>7
    <3> QED
      BY <2>2, <2>4, <3>1 DEF MemInv, Lists, SameConns
  <2>8. Lists(r)
    BY <2>6, <2>7 DEF Lists
  <2>9. MemInv(r)
    BY <2>2, <2>4, <2>8, TopicStep
  <2> QED
    BY <2>2, <2>9 DEF r
<1> QED
  BY <1>1, <1>2

\* The list of a topic loses one number, and the connection behind it its
\* subscription if it had one.
LEMMA ShrinkStep ==
  ASSUME NEW m, MemInv(m), NEW fd \in FD, NEW t \in Topic, NEW S \in SUBSET Topic,
         S = m.subs[fd] \ {t}
  PROVE  LET r == [m EXCEPT !.tfds = [m.tfds EXCEPT ![t] = vector_remove(m.tfds[t], fd)],
                            !.subs = [m.subs EXCEPT ![fd] = S]]
         IN  MemInv(r) /\ SameConns(m, r)
<1> DEFINE v == vector_remove(m.tfds[t], fd)
           r == [m EXCEPT !.tfds = [m.tfds EXCEPT ![t] = v],
                          !.subs = [m.subs EXCEPT ![fd] = S]]
<1>1. /\ m.tfds \in [Topic -> Seq(FD)] /\ m.tfds[t] \in Seq(FD) /\ m.topics \subseteq Topic
      /\ m.subs \in [FD -> SUBSET Topic]
      /\ \A u \in Topic, g \in FD : Once(m.tfds[u], g)
  BY DEF MemInv, Typed, Lists
<1>2. /\ v \in Seq(FD)
      /\ \A g \in FD : vector_is_exist(v, g) => vector_is_exist(m.tfds[t], g)
      /\ \A g \in FD : g # fd /\ vector_is_exist(m.tfds[t], g) => vector_is_exist(v, g)
      /\ \A g \in FD : Once(v, g)
  BY <1>1, RemoveLeaves
<1>3. r = [m EXCEPT !.tfds = [m.tfds EXCEPT ![t] = v], !.subs = [m.subs EXCEPT ![fd] = S]]
  OBVIOUS
<1> HIDE DEF v, r
<1>4. /\ Fields(r) /\ SameConns(m, r) /\ r.poll = m.poll /\ r.out = m.out
      /\ r.epoll = m.epoll /\ r.accounts = m.accounts /\ r.afds = m.afds
      /\ r.cookies = m.cookies /\ r.me = m.me /\ r.twice = m.twice
      /\ r.topics = m.topics /\ r.tfds = [m.tfds EXCEPT ![t] = v]
      /\ r.subs = [m.subs EXCEPT ![fd] = S]
  BY <1>3 DEF MemInv, Fields, SameConns
<1>5. /\ r.tfds \in [Topic -> Seq(FD)] /\ r.tfds[t] = v
      /\ \A u \in Topic : u # t => r.tfds[u] = m.tfds[u]
      /\ r.subs \in [FD -> SUBSET Topic] /\ r.subs[fd] = m.subs[fd] \ {t}
      /\ \A g \in FD : g # fd => r.subs[g] = m.subs[g]
  BY <1>1, <1>2, <1>4
<1>6. ASSUME NEW u \in Topic, NEW g \in FD
      PROVE  Once(r.tfds[u], g) /\ (vector_is_exist(r.tfds[u], g) => r.kind[g] # "none")
  <2>1. Once(m.tfds[u], g) /\ (vector_is_exist(m.tfds[u], g) => r.kind[g] # "none")
    BY <1>4 DEF MemInv, Lists, SameConns
  <2> QED
    BY <1>2, <1>5, <2>1
<1>7. ASSUME NEW g \in FD, NEW u \in r.subs[g]
      PROVE  g \in r.open /\ vector_is_exist(r.tfds[u], g)
  <2>1. u \in m.subs[g] /\ u \in Topic /\ (u # t \/ g # fd)
    BY <1>1, <1>5, <1>7
  <2> QED
    BY <1>2, <1>4, <1>5, <2>1 DEF MemInv, Lists, SameConns
<1>8. Lists(r)
  BY <1>6, <1>7 DEF Lists
<1>9. MemInv(r)
  <2>1. r.topics \subseteq Topic
    BY <1>1, <1>4
  <2> QED
    BY <1>4, <1>5, <1>8, <2>1, TopicStep
<1> QED
  BY <1>4, <1>9 DEF r, v

----------------------------------------------------------------------------
(* Publishing.                                                             *)

\* The memory after a turn of the loop of model_pub().
Turn(x, t, len, k) == publish_to(x, x.tfds[t][k], t, len)

\* a[i] is the memory after i of k turns of a loop over n subscribers.
Turns(a, k, n, m, t, len) ==
  a = [i \in 0 .. k |-> IF i = 0 THEN m ELSE Turn(a[i - 1], t, len, n + 1 - i)]

\* The loop has such a run.
LEMMA TurnsExist ==
  ASSUME NEW n \in Nat, NEW m, NEW t, NEW len
  PROVE  \E a : Turns(a, n, n, m, t, len)
<1> DEFINE T == {k \in 0 .. n : \E a : Turns(a, k, n, m, t, len)}
<1>1. 0 \in T
  <2> DEFINE a == [i \in 0 .. 0 |-> m]
  <2>1. 0 \in 0 .. n /\ \A i \in 0 .. 0 : i = 0
    OBVIOUS
  <2>2. Turns(a, 0, n, m, t, len)
    BY <2>1 DEF Turns
  <2> QED
    BY <2>1, <2>2
<1>2. ASSUME NEW k \in 0 .. n, k # 0, k - 1 \in T PROVE k \in T
  <2>1. PICK b : Turns(b, k - 1, n, m, t, len)
    BY <1>2
  <2> DEFINE c == Turn(b[k - 1], t, len, n + 1 - k)
             a == [i \in 0 .. k |-> IF i = k THEN c ELSE b[i]]
             F(g, i) == IF i = 0 THEN m ELSE Turn(g[i - 1], t, len, n + 1 - i)
  <2>2. /\ k \in Nat
        /\ \A i \in 0 .. k : i # 0 => i - 1 \in 0 .. k /\ i - 1 # k
        /\ \A i \in 0 .. k : i # k => i \in 0 .. k - 1
    BY <1>2
  <2>3. \A i \in 0 .. k - 1 : b[i] = F(b, i)
    BY <2>1 DEF Turns
  <2>4. \A i \in 0 .. k : a[i] = IF i = k THEN c ELSE b[i]
    OBVIOUS
  <2>5. c = F(b, k)
    BY <1>2
  <2> HIDE DEF c
  <2>6. a = [i \in 0 .. k |-> a[i]]
    OBVIOUS
  <2> HIDE DEF a
  <2>7. ASSUME NEW i \in 0 .. k PROVE a[i] = F(a, i)
    <3>1. i # 0 => a[i - 1] = b[i - 1]
      BY <2>2, <2>4
    <3>2. F(a, i) = F(b, i)
      BY <3>1
    <3>3. a[i] = F(b, i)
      <4> HIDE DEF F
      <4> QED
        BY <2>2, <2>3, <2>4, <2>5
    <3> QED
      BY <3>2, <3>3
  <2>8. Turns(a, k, n, m, t, len)
    BY <2>6, <2>7 DEF Turns
  <2> QED
    BY <2>8
<1> HIDE DEF T
<1>3. n \in T
  BY <1>1, <1>2, IndexInduction
<1> QED
  BY <1>3 DEF T

\* publish_all() is the end of such a run.
LEMMA PublishTurns ==
  ASSUME NEW m, NEW t, NEW len, Len(m.tfds[t]) \in Nat
  PROVE  \E a : LET n == Len(m.tfds[t])
                IN  Turns(a, n, n, m, t, len) /\ publish_all(m, t, len) = a[n]
<1> DEFINE n == Len(m.tfds[t])
           F(g) == [i \in 0 .. n |->
                      IF i = 0 THEN m ELSE publish_to(g[i - 1], g[i - 1].tfds[t][n + 1 - i], t, len)]
           after == CHOOSE g : g = F(g)
<1>1. publish_all(m, t, len) = after[n]
  BY DEF publish_all
<1>2. \A g : g = F(g) <=> Turns(g, n, n, m, t, len)
  BY DEF Turns, Turn
<1>3. \E g : g = F(g)
  <2> HIDE DEF F, n
  <2>1. \E g : Turns(g, n, n, m, t, len)
    BY TurnsExist DEF n
  <2> QED
    BY <1>2, <2>1
<1> HIDE DEF F
<1>4. after = F(after)
  BY <1>3
<1>5. Turns(after, n, n, m, t, len)
  BY <1>2, <1>4
<1> QED
  BY <1>1, <1>5

\* Where the loop stands with k numbers of the list to go: the others have a
\* buffer and got the message, and these still have their buffers as they were.
AtTurn(x, m, t, len, k) ==
  /\ MemInv(x) /\ SameConns(m, x)
  /\ k \in 0 .. Len(x.tfds[t])
  /\ \A j \in 1 .. Len(x.tfds[t]) : j > k =>
       x.wrb[x.tfds[t][j]] /\ Got(m, x, x.tfds[t][j], t, len)
  /\ \A j \in 1 .. Len(x.tfds[t]) : j <= k => x.out[x.tfds[t][j]] = m.out[x.tfds[t][j]]

\* A turn answers the k-th number or drops it.
LEMMA TurnStep ==
  ASSUME NEW m, NEW x, NEW t \in Topic, NEW len \in Lengths, NEW k \in Nat, k # 0, AtTurn(x, m, t, len, k)
  PROVE  AtTurn(Turn(x, t, len, k), m, t, len, k - 1)
<1> DEFINE w == x.tfds[t]
           n == Len(w)
           c == w[k]
           y == Turn(x, t, len, k)
<1>1. /\ w \in Seq(FD) /\ n \in Nat /\ DOMAIN w = 1 .. n /\ k \in 1 .. n
      /\ \A j \in 1 .. n : w[j] \in FD
      /\ k - 1 \in Nat /\ k - 1 <= n
  <2>1. w \in Seq(FD)
    BY DEF AtTurn, MemInv, Typed
  <2>2. n \in Nat /\ DOMAIN w = 1 .. n /\ \A j \in 1 .. n : w[j] \in FD
    BY <2>1
  <2>3. k \in 0 .. n
    BY DEF AtTurn
  <2> HIDE DEF w, n
  <2> QED
    BY <2>1, <2>2, <2>3
<1>2. c \in FD /\ MemInv(x) /\ Once(w, c)
  BY <1>1 DEF AtTurn, MemInv, Lists
<1>3. /\ \A j \in 1 .. n : j > k => x.wrb[w[j]] /\ Got(m, x, w[j], t, len)
      /\ \A j \in 1 .. n : j <= k => x.out[w[j]] = m.out[w[j]]
      /\ x.kind = m.kind
  BY DEF AtTurn, SameConns
<1>a. \A j \in 1 .. n : w[j] = c => j = k
  BY <1>1, <1>2 DEF Once
<1>4. CASE x.wrb[c]
  <2>1. y = on_response(x, c, t, len)
    BY <1>4 DEF Turn, publish_to
  <2> HIDE DEF y
  <2>2. t \in Topic \cup {Reply} /\ len.plain \in Nat /\ len.http \in Nat
    BY LengthFacts
  <2>3. MemInv(y) /\ Answered(x, y, c, t, len)
    <3> HIDE DEF c
    <3> QED
      BY <1>2, <2>1, <2>2, ResponseInv
  <2>4. y.tfds = x.tfds /\ y.wrb = x.wrb /\ SameConns(m, y)
    BY <2>3 DEF Answered, SameModel, SameConns, AtTurn
  <2>5. ASSUME NEW j \in 1 .. n, j > k - 1 PROVE y.wrb[w[j]] /\ Got(m, y, w[j], t, len)
    <3>1. CASE w[j] = c
      <4>1. x.out[c] = m.out[c] /\ x.kind[c] = m.kind[c]
        BY <1>1, <1>3
      <4> QED
        BY <1>4, <2>3, <2>4, <3>1, <4>1 DEF Answered, Got
    <3>2. CASE w[j] # c
      <4>1. j > k
        BY <1>1, <2>5, <3>2
      <4>2. x.wrb[w[j]] /\ Got(m, x, w[j], t, len) /\ w[j] \in FD
        BY <1>1, <1>3, <4>1
      <4>3. y.out[w[j]] = x.out[w[j]] /\ y.poll.evts[w[j]] = x.poll.evts[w[j]]
        BY <2>3, <3>2, <4>2 DEF Answered
      <4> QED
        BY <2>4, <4>2, <4>3 DEF Got
    <3> QED
      BY <3>1, <3>2
  <2>6. k - 1 \in 0 .. n
    BY <1>1
  <2>7. ASSUME NEW j \in 1 .. n, j <= k - 1 PROVE y.out[w[j]] = m.out[w[j]]
    <3>1. j <= k /\ j # k
      BY <1>1, <2>7
    <3>2. w[j] # c /\ w[j] \in FD /\ x.out[w[j]] = m.out[w[j]]
      BY <1>1, <1>3, <1>a, <3>1
    <3> QED
      BY <2>3, <3>2 DEF Answered
  <2> HIDE DEF c
  <2> QED
    BY <2>3, <2>4, <2>5, <2>6, <2>7 DEF AtTurn, y
<1>5. CASE ~ x.wrb[c]
  <2> DEFINE u == vector_remove(w, c)
             z == [x EXCEPT !.tfds = [x.tfds EXCEPT ![t] = u],
                            !.subs = [x.subs EXCEPT ![c] = x.subs[c] \ {t}]]
  <2>1. y = [x EXCEPT !.tfds = [x.tfds EXCEPT ![t] = u]]
    BY <1>5 DEF Turn, publish_to
  <2>2. x.subs[c] = {} /\ x.subs \in [FD -> SUBSET Topic]
    <3>1. c \notin x.open
      BY <1>2, <1>5 DEF MemInv, Buffers
    <3> QED
      BY <1>2, <3>1 DEF MemInv, Lists, Typed
  <2>3. [x.subs EXCEPT ![c] = x.subs[c] \ {t}] = x.subs
    BY <1>2, <2>2
  <2>4. MemInv(z) /\ SameConns(x, z)
    <3>1. x.subs[c] \ {t} \in SUBSET Topic
      BY <2>2
    <3> HIDE DEF c, u
    <3> QED
      BY <1>2, <3>1, ShrinkStep DEF u
  <2> HIDE DEF u, y
  <2>5. y = z
    BY <1>2, <2>1, <2>3 DEF MemInv, Fields
  <2>6. y.tfds[t] = u /\ y.wrb = x.wrb /\ y.out = x.out /\ y.poll = x.poll
    <3>1. x.tfds \in [Topic -> Seq(FD)]
      BY <1>2 DEF MemInv, Typed
    <3> QED
      BY <1>2, <2>1, <3>1 DEF MemInv, Fields
  <2> HIDE DEF z
  <2>7. PICK i : Without(w, c, i, u)
    <3>1. vector_is_exist(w, c)
      BY <1>1 DEF vector_is_exist
    <3> QED
      BY <1>1, <3>1, VectorRemove DEF u
  <2>8. i = k
    BY <1>1, <1>2, <2>7 DEF Without, Once
  <2>9. Len(u) = n - 1 /\ \A j \in 1 .. n - 1 : u[j] = IF j < k THEN w[j] ELSE w[j + 1]
    BY <2>7, <2>8 DEF Without
  <2>10. ASSUME NEW j \in 1 .. n - 1, j > k - 1 PROVE y.wrb[u[j]] /\ Got(m, y, u[j], t, len)
    <3>1. u[j] = w[j + 1] /\ j + 1 \in 1 .. n /\ j + 1 > k
      BY <1>1, <2>9, <2>10
    <3>2. x.wrb[u[j]] /\ Got(m, x, u[j], t, len)
      BY <1>3, <3>1
    <3> QED
      BY <2>6, <3>2 DEF Got
  <2>11. k - 1 \in 0 .. n - 1
    BY <1>1
  <2>12. MemInv(y) /\ SameConns(m, y)
    BY <2>4, <2>5 DEF SameConns, AtTurn
  <2>13. ASSUME NEW j \in 1 .. n - 1, j <= k - 1 PROVE y.out[u[j]] = m.out[u[j]]
    <3>1. u[j] = w[j] /\ j \in 1 .. n /\ j <= k
      BY <1>1, <2>9, <2>13
    <3> QED
      BY <1>3, <2>6, <3>1
  <2>14. AtTurn(y, m, t, len, k - 1)
    BY <2>6, <2>9, <2>10, <2>11, <2>12, <2>13 DEF AtTurn
  <2> QED
    BY <2>14 DEF y
<1> QED
  BY <1>4, <1>5

\* The whole loop: every number left in the topic's list has a buffer, and got
\* the message.
LEMMA PublishAll ==
  ASSUME NEW m, MemInv(m), NEW t \in Topic, NEW len \in Lengths
  PROVE  AtTurn(publish_all(m, t, len), m, t, len, 0)
<1> DEFINE n == Len(m.tfds[t])
<1>1. n \in Nat
  <2>1. m.tfds[t] \in Seq(FD)
    BY DEF MemInv, Typed
  <2> QED
    BY <2>1
<1>2. PICK a : Turns(a, n, n, m, t, len) /\ publish_all(m, t, len) = a[n]
  BY <1>1, PublishTurns
<1> DEFINE T == {i \in 0 .. n : AtTurn(a[i], m, t, len, n - i)}
<1>3. 0 \in T
  <2>1. a[0] = m /\ 0 \in 0 .. n /\ n - 0 = n
    BY <1>1, <1>2 DEF Turns
  <2>2. SameConns(m, m) /\ n \in 0 .. n /\ \A j \in 1 .. n : ~ (j > n)
    BY <1>1 DEF SameConns
  <2>3. AtTurn(m, m, t, len, n)
    BY <2>2 DEF AtTurn
  <2> QED
    BY <2>1, <2>3
<1> HIDE DEF n
<1>4. ASSUME NEW i \in 0 .. n, i # 0, i - 1 \in T PROVE i \in T
  <2>1. a[i] = Turn(a[i - 1], t, len, n + 1 - i)
    BY <1>2, <1>4 DEF Turns
  <2>2. n - (i - 1) = n + 1 - i /\ n + 1 - i \in Nat /\ n + 1 - i # 0 /\ (n + 1 - i) - 1 = n - i
    BY <1>1, <1>4
  <2>3. AtTurn(a[i - 1], m, t, len, n + 1 - i)
    BY <1>4, <2>2
  <2>4. AtTurn(a[i], m, t, len, (n + 1 - i) - 1)
    BY <2>1, <2>2, <2>3, TurnStep
  <2> QED
    BY <2>2, <2>4
<1>5. n \in T
  <2> HIDE DEF T
  <2> QED
    BY <1>1, <1>3, <1>4, IndexInduction
<1>6. AtTurn(a[n], m, t, len, 0)
  BY <1>1, <1>5
<1> QED
  BY <1>2, <1>6

----------------------------------------------------------------------------
(* Commands.                                                               *)

\* What a command, or the steps of an event of fd, make of m.
Kept(m, r) == MemInv(r) /\ SameConns(m, r)

LEMMA KeptChain ==
  ASSUME NEW m, NEW r, NEW q
  PROVE  /\ MemInv(m) => Kept(m, m)
         /\ Kept(m, r) /\ Kept(r, q) => Kept(m, q)
BY DEF Kept, SameConns

\* A command about a topic there is.
LEMMA SubCommand ==
  ASSUME NEW m, MemInv(m), NEW fd \in m.open, NEW t \in Topic
  PROVE  /\ Kept(m, model_topic_create(m, fd, t).s)
         /\ Kept(m, model_sub(m, fd, t).s)
         /\ Kept(m, model_unsub(m, fd, t).s)
<1>1. m.topics \subseteq Topic /\ m.subs \in [FD -> SUBSET Topic] /\ fd \in FD
  BY DEF MemInv, Typed
<1>2. Kept(m, m)
  BY KeptChain
<1>3. Kept(m, model_topic_create(m, fd, t).s)
  <2> DEFINE T == m.topics \cup {t}
  <2>1. T \in SUBSET Topic
    BY <1>1
  <2>2. model_topic_create(m, fd, t).s = topic_sub([m EXCEPT !.topics = T], fd, t)
    BY DEF model_topic_create
  <2> HIDE DEF T
  <2> QED
    BY <2>1, <2>2, SubStep DEF Kept
<1>4. Kept(m, model_sub(m, fd, t).s)
  <2>1. model_sub(m, fd, t).s = m \/ model_sub(m, fd, t).s = topic_sub(m, fd, t)
    BY DEF model_sub
  <2>2. m = [m EXCEPT !.topics = m.topics]
    BY DEF MemInv, Fields
  <2>3. m.topics \in SUBSET Topic
    BY <1>1
  <2>4. Kept(m, topic_sub([m EXCEPT !.topics = m.topics], fd, t))
    BY <2>3, SubStep DEF Kept
  <2>5. Kept(m, topic_sub(m, fd, t))
    BY <2>2, <2>4
  <2> QED
    BY <1>2, <2>1, <2>5
<1>5. Kept(m, model_unsub(m, fd, t).s)
  <2> DEFINE r == [m EXCEPT !.tfds = [m.tfds EXCEPT ![t] = vector_remove(m.tfds[t], fd)],
                            !.subs = [m.subs EXCEPT ![fd] = m.subs[fd] \ {t}]]
  <2>1. model_unsub(m, fd, t).s = m \/ model_unsub(m, fd, t).s = r
    BY DEF model_unsub
  <2>2. m.subs[fd] \ {t} \in SUBSET Topic
    BY <1>1
  <2>3. Kept(m, r)
    BY <1>1, <2>2, ShrinkStep DEF Kept
  <2> HIDE DEF r
  <2> QED
    BY <1>2, <2>1, <2>3
<1> QED
  BY <1>3, <1>4, <1>5

\* A publish by fd reaches the topic's open connections.
LEMMA PubCommand ==
  ASSUME NEW m, MemInv(m), NEW fd \in m.open, NEW t \in Topic, NEW len \in Lengths
  PROVE  LET r == model_pub(m, fd, t, len)
         IN  Kept(m, r.s) /\ (r.ok => Published(m, r.s, [t |-> t, fd |-> fd, len |-> len]))
<1> DEFINE r == model_pub(m, fd, t, len)
           x == publish_all(m, t, len)
           l == [t |-> t, fd |-> fd, len |-> len]
<1>1. AtTurn(x, m, t, len, 0)
  BY PublishAll
<1>2. (r.s = m /\ r.ok = FALSE) \/ r.s = x
  BY DEF model_pub
<1> HIDE DEF r, x
<1>3. Kept(m, x) /\ Kept(m, m)
  BY <1>1, KeptChain DEF AtTurn, Kept
<1>4. Published(m, x, l)
  <2>1. /\ x.tfds[t] \in Seq(FD) /\ fd \in FD
    BY <1>1 DEF AtTurn, MemInv, Typed
  <2>2. DOMAIN x.tfds[t] = 1 .. Len(x.tfds[t]) /\ \A j \in 1 .. Len(x.tfds[t]) : j > 0
    BY <2>1
  <2>3. \A g : vector_is_exist(x.tfds[t], g) => x.wrb[g] /\ Got(m, x, g, t, len)
    BY <1>1, <2>2 DEF AtTurn, vector_is_exist
  <2>4. l.t = t /\ l.fd = fd /\ l.len = len
    OBVIOUS
  <2> HIDE DEF l
  <2> QED
    BY <2>1, <2>3, <2>4 DEF Published, Pruned
<1> QED
  BY <1>2, <1>3, <1>4 DEF r

\* The commands.
LEMMA ExecuteStep ==
  ASSUME NEW m, MemInv(m), NEW fd \in m.open, NEW c \in Commands
  PROVE  LET r == execute(m, fd, c)
         IN  /\ Kept(m, r.s)
             /\ c.op = "pub" /\ r.ok => Published(m, r.s, [t |-> c.arg, fd |-> fd, len |-> c.len])
<1> DEFINE r == execute(m, fd, c)
<1>1. CASE c \in [op : {"logup"}, arg : Account]
  <2>1. c.op = "logup" /\ c.arg \in Account
    BY <1>1
  <2>2. r = model_acc_create(m, c.arg)
    BY <2>1 DEF execute
  <2> HIDE DEF r
  <2>3. Kept(m, r.s)
    BY <2>1, <2>2, CreateStep DEF Kept
  <2> QED
    BY <2>1, <2>3 DEF r
<1>2. CASE c \in [op : {"login"}, arg : Account, pass : BOOLEAN]
  <2>1. c.op = "login" /\ c.arg \in Account
    BY <1>2
  <2>2. r = model_acc_auth(m, fd, c.arg, c.pass)
    BY <2>1 DEF execute
  <2> HIDE DEF r
  <2>3. r.s = m \/ (account_exists(m, c.arg) /\ r.s = login(m, fd, c.arg))
    BY <2>2 DEF model_acc_auth
  <2>4. Kept(m, r.s)
    BY <2>1, <2>3, LoginStep, KeptChain DEF Kept
  <2> QED
    BY <2>1, <2>4 DEF r
<1>3. CASE c \in [op : {"create", "delete", "sub", "unsub"}, arg : Topic]
  <2>1. c.arg \in Topic /\ c.op \in {"create", "delete", "sub", "unsub"}
    BY <1>3
  <2>2. CASE c.op = "create"
    <3>1. r = model_topic_create(m, fd, c.arg)
      BY <2>2 DEF execute
    <3> QED
      BY <2>1, <2>2, <3>1, SubCommand
  <2>3. CASE c.op = "delete"
    <3>1. r = model_topic_delete(m, c.arg)
      BY <2>3 DEF execute
    <3> QED
      BY <2>1, <2>3, <3>1, DeleteStep DEF Kept
  <2>4. CASE c.op = "sub"
    <3>1. r = model_sub(m, fd, c.arg)
      BY <2>4 DEF execute
    <3> QED
      BY <2>1, <2>4, <3>1, SubCommand
  <2>5. CASE c.op = "unsub"
    <3>1. r = model_unsub(m, fd, c.arg)
      BY <2>5 DEF execute
    <3> QED
      BY <2>1, <2>5, <3>1, SubCommand
  <2> QED
    BY <2>1, <2>2, <2>3, <2>4, <2>5
<1>5. CASE c \in [op : {"pub"}, arg : Topic, len : Lengths]
  <2>1. c.op = "pub" /\ c.arg \in Topic /\ c.len \in Lengths
    BY <1>5
  <2>2. r = model_pub(m, fd, c.arg, c.len)
    BY <2>1 DEF execute
  <2> QED
    BY <2>1, <2>2, PubCommand
<1>4. CASE c \in [op : {"login_noauth", "logup_noauth"}] \cup [op : {"other"}, len : Lengths]
  <2>1. c.op \in {"login_noauth", "logup_noauth", "other"}
    BY <1>4
  <2>2. r = [s |-> m, ok |-> TRUE]
    BY <2>1 DEF execute
  <2>3. r.s = m /\ c.op # "pub"
    BY <2>1, <2>2
  <2> HIDE DEF r
  <2> QED
    BY <2>3, KeptChain DEF r
<1> QED
  BY <1>1, <1>2, <1>3, <1>4, <1>5 DEF Commands

\* A cookie is issued for an account of the list only.
LEMMA CookieStep ==
  ASSUME NEW m, MemInv(m), NEW fd \in FD, NEW c
  PROVE  LET r == issue_cookie(m, fd, c)
         IN  /\ Kept(m, r)
             /\ r.tfds = m.tfds /\ r.subs = m.subs /\ r.out = m.out /\ r.poll = m.poll
<1> DEFINE r == issue_cookie(m, fd, c)
           a == account_get_by_fd(m, fd)
<1>1. r = m \/ (a # NoAcct /\ r = [m EXCEPT !.cookies = m.cookies \cup {a}])
  BY DEF issue_cookie
<1>2. a # NoAcct => a \in Account /\ account_exists(m, a)
  BY AccountByFd
<1> HIDE DEF a, r
<1>3. CASE r = m
  BY <1>3, KeptChain DEF r
<1>4. CASE a # NoAcct /\ r = [m EXCEPT !.cookies = m.cookies \cup {a}]
  <2>1. /\ Fields(r) /\ r.accounts = m.accounts /\ r.afds = m.afds
        /\ r.topics = m.topics /\ r.tfds = m.tfds /\ r.me = m.me /\ r.subs = m.subs
        /\ r.twice = m.twice /\ r.cookies = m.cookies \cup {a}
        /\ SameConns(m, r) /\ r.poll = m.poll /\ r.out = m.out /\ r.epoll = m.epoll
    BY <1>4 DEF MemInv, Fields, SameConns
  <2>2. Typed(r)
    BY <1>2, <1>4, <2>1 DEF MemInv, Typed, SameConns
  <2>3. Buffers(r) /\ Lists(r)
    BY <2>1 DEF MemInv, Buffers, Lists, SameConns
  <2>4. Logins(r)
    <3>1. \A b : account_exists(m, b) <=> account_exists(r, b)
      BY <2>1 DEF account_exists
    <3>2. \A b \in r.cookies : account_exists(r, b)
      BY <1>2, <1>4, <2>1, <3>1 DEF MemInv, Logins
    <3>3. \A g \in FD \ r.twice : OwnLogin(r, g)
      BY <2>1 DEF MemInv, Logins, OwnLogin
    <3> QED
      BY <2>1, <3>1, <3>2, <3>3 DEF MemInv, Logins, SameConns
  <2> QED
    BY <2>1, <2>2, <2>3, <2>4 DEF MemInv, Kept, r
<1> QED
  BY <1>1, <1>3, <1>4

\* l is nothing, or a publish by fd.
By(l, fd) == l = NoPub \/ l.fd = fd

\* What happened to the topics' other connections is not undone by a step that
\* concerns the publisher only.
LEMMA PublishedStays ==
  ASSUME NEW b, NEW m, NEW r, NEW fd, NEW l, By(l, fd), Published(b, m, l), r.tfds = m.tfds,
         r.open \subseteq m.open,
         \A g \in FD : g # fd => /\ r.wrb[g] = m.wrb[g] /\ r.out[g] = m.out[g]
                                 /\ r.poll.evts[g] = m.poll.evts[g],
         m.open \subseteq FD
  PROVE  Published(b, r, l)
<1> SUFFICES ASSUME l # NoPub
             PROVE  /\ l.t \in Topic /\ l.fd \in FD /\ l.len \in Lengths
                    /\ \A c \in r.open \ {l.fd} :
                         vector_is_exist(r.tfds[l.t], c) => Got(b, r, c, l.t, l.len)
                    /\ \A g \in FD \ {l.fd} : vector_is_exist(r.tfds[l.t], g) => r.wrb[g]
  BY DEF Published, Pruned
<1>1. l.fd = fd
  BY DEF By
<1> QED
  BY <1>1 DEF Published, Pruned, Got

\* model_process(): a command, its answer and what the loop gets.
LEMMA ProcessStep ==
  ASSUME NEW m, MemInv(m), NEW fd \in m.open, NEW c \in Commands
  PROVE  LET r == process(m, fd, c)
         IN  Kept(m, r.s) /\ Published(m, r.s, r.pub) /\ By(r.pub, fd)
<1> DEFINE e == execute(m, fd, c)
           i == issue_cookie(e.s, fd, c)
           o == on_response(i, fd, Reply, AnswerLength(c))
           l == [t |-> c.arg, fd |-> fd, len |-> c.len]
           r == process(m, fd, c)
<1>1. /\ Kept(m, e.s)
      /\ c.op = "pub" /\ e.ok => Published(m, e.s, l)
  BY ExecuteStep
<1>2. /\ r.s = IF c.op = "sub" /\ e.ok THEN e.s ELSE o
      /\ r.pub = IF c.op = "pub" /\ e.ok THEN l ELSE NoPub
  BY DEF process, model_process, Result
<1> HIDE DEF e, r, i, o
<1>3. fd \in FD /\ MemInv(e.s) /\ Reply \in Topic \cup {Reply}
  BY <1>1 DEF Kept, MemInv, Typed
<1>4. /\ Kept(e.s, i) /\ i.tfds = e.s.tfds /\ i.out = e.s.out /\ i.poll = e.s.poll
  BY <1>3, CookieStep DEF i
<1>5. MemInv(o) /\ Answered(i, o, fd, Reply, AnswerLength(c))
  <2>1. AnswerLength(c).plain \in Nat /\ AnswerLength(c).http \in Nat
    <3>1. c.op = "other" => c.len \in Lengths
      BY DEF Commands
    <3> QED
      BY <3>1, LengthFacts DEF AnswerLength
  <2> QED
    BY <1>3, <1>4, <2>1, ResponseInv DEF o, Kept
<1>6. Kept(i, o)
  BY <1>5 DEF Kept, Answered
<1>7. Kept(m, o) /\ Kept(m, e.s)
  BY <1>1, <1>4, <1>6, KeptChain
<1>8. l.fd = fd /\ By(l, fd) /\ By(NoPub, fd) /\ \A x : Published(m, x, NoPub)
  BY DEF By, Published, Pruned
<1> HIDE DEF l
<1>9. ASSUME c.op = "pub", e.ok PROVE Published(m, o, l)
  <2>1. Published(m, e.s, l)
    BY <1>1, <1>9
  <2>2. /\ o.tfds = e.s.tfds /\ o.open = e.s.open /\ o.wrb = e.s.wrb /\ e.s.open \subseteq FD
        /\ \A g \in FD : g # fd => o.out[g] = e.s.out[g] /\ o.poll.evts[g] = e.s.poll.evts[g]
    BY <1>3, <1>4, <1>5 DEF Answered, SameModel, SameConns, Kept, MemInv, Typed
  <2> QED
    BY <1>8, <2>1, <2>2, PublishedStays
<1>10. Kept(m, r.s)
  BY <1>2, <1>7
<1>11. CASE c.op = "pub" /\ e.ok
  <2>1. r.s = o /\ r.pub = l
    BY <1>2, <1>11
  <2> QED
    BY <1>8, <1>9, <1>10, <1>11, <2>1 DEF r
<1>12. CASE ~ (c.op = "pub" /\ e.ok)
  BY <1>2, <1>8, <1>10, <1>12 DEF r
<1> QED
  BY <1>11, <1>12

----------------------------------------------------------------------------
(* The handlers' callbacks.                                                *)

\* What the read callback of fd results in.
LEMMA ReadStep ==
  ASSUME NEW m, MemInv(m), NEW fd \in m.open, NEW r \in ReadCb(m, fd)
  PROVE  Kept(m, r.s) /\ Published(m, r.s, r.pub) /\ By(r.pub, fd)
<1> DEFINE Good(x) == Kept(m, x.s) /\ Published(m, x.s, x.pub) /\ By(x.pub, fd)
<1>1. \A ret : Good(Result(m, ret, NoPub))
  BY KeptChain DEF Result, Published, Pruned, By
<1>2. ASSUME NEW w, Kept(m, w), w.out = m.out, NEW c \in Commands
      PROVE  Good(process(w, fd, c)) /\ Good([process(w, fd, c) EXCEPT !.ret = {}])
  <2> DEFINE q == process(w, fd, c)
             z == [q EXCEPT !.ret = {}]
  <2>1. MemInv(w) /\ fd \in w.open
    BY <1>2 DEF Kept, SameConns
  <2>2. Kept(w, q.s) /\ Published(w, q.s, q.pub) /\ By(q.pub, fd)
    BY <2>1, ProcessStep
  <2>3. z.s = q.s /\ z.pub = q.pub
    BY DEF process, Result
  <2> HIDE DEF q, z
  <2>4. Kept(m, q.s)
    BY <1>2, <2>2, KeptChain
  <2>5. Published(m, q.s, q.pub)
    BY <1>2, <2>2 DEF Published, Got, Kept, SameConns
  <2> QED
    BY <2>2, <2>3, <2>4, <2>5 DEF q, z
<1>3. CASE m.kind[fd] = "psub"
  <2>1. r \in psub_read(m, fd)
    BY <1>3 DEF ReadCb
  <2>2. Kept(m, m)
    BY KeptChain
  <2>3. Sent(m, fd) \subseteq Commands
    BY DEF Sent
  <2>4. r = Result(m, ZB_CLOSE, NoPub) \/ \E c \in Sent(m, fd) : r = process(m, fd, c)
    BY <2>1 DEF psub_read
  <2> HIDE DEF Good
  <2>5. Good(r)
    BY <1>1, <1>2, <2>2, <2>3, <2>4
  <2> QED
    BY <2>5 DEF Good
<1>4. CASE m.kind[fd] # "psub"
  <2> DEFINE with(a) == IF a = NoAcct THEN m ELSE login(m, fd, a)
             ids == {NoAcct} \cup (IF Len(m.me[fd]) < MaxLogins THEN m.cookies ELSE {})
  <2>1. r \in http_psub_read(m, fd)
    BY <1>4 DEF ReadCb
  <2>2. \/ r = Result(m, ZB_CLOSE, NoPub) \/ r = Result(m, {}, NoPub)
        \/ \E a \in ids : \E c \in Sent(with(a), fd) :
             r = [process(with(a), fd, c) EXCEPT !.ret = {}]
    <3> DEFINE P(a) == {[process(with(a), fd, c) EXCEPT !.ret = {}] : c \in Sent(with(a), fd)}
    <3>1. r \in {Result(m, ZB_CLOSE, NoPub), Result(m, {}, NoPub)} \cup UNION {P(a) : a \in ids}
      BY <2>1 DEF http_psub_read
    <3> HIDE DEF P, ids, with
    <3>2. r = Result(m, ZB_CLOSE, NoPub) \/ r = Result(m, {}, NoPub) \/ \E a \in ids : r \in P(a)
      BY <3>1
    <3> QED
      BY <3>2 DEF P
  <2>3. ASSUME NEW a \in ids PROVE Kept(m, with(a)) /\ with(a).out = m.out
    <3>1. CASE a = NoAcct
      BY <3>1, KeptChain
    <3>2. CASE a # NoAcct
      <4>1. a \in m.cookies
        BY <2>3, <3>2
      <4>2. a \in Account /\ account_exists(m, a)
        BY <4>1 DEF MemInv, Typed, Logins
      <4>3. Kept(m, login(m, fd, a)) /\ login(m, fd, a).out = m.out
        BY <4>2, LoginStep DEF Kept
      <4> QED
        BY <3>2, <4>3
    <3> QED
      BY <3>1, <3>2
  <2>4. \A w : Sent(w, fd) \subseteq Commands
    BY DEF Sent
  <2> HIDE DEF Good, with, ids
  <2>5. Good(r)
    BY <1>1, <1>2, <2>2, <2>3, <2>4
  <2> QED
    BY <2>5 DEF Good
<1> QED
  BY <1>3, <1>4

\* fd_delete() and disconnect: the connection's logins and subscriptions end,
\* and an http connection's buffer with them; the others are as before.
LEMMA CloseStep ==
  ASSUME NEW m, MemInv(m), NEW fd \in m.open
  PROVE  LET r == close_conn(m, fd)
         IN  /\ MemInv(r) /\ r.open = m.open \ {fd} /\ r.tfds = m.tfds
             /\ \A g \in FD : g # fd => /\ r.wrb[g] = m.wrb[g] /\ r.out[g] = m.out[g]
                                        /\ r.poll.evts[g] = m.poll.evts[g]
<1> DEFINE r == close_conn(m, fd)
           q == fd_clo(m.poll, fd)
           d == [m EXCEPT !.poll  = q,
                          !.epoll = [m.epoll EXCEPT ![fd] = {}],
                          !.open  = m.open \ {fd},
                          !.me    = [m.me EXCEPT ![fd] = << >>],
                          !.subs  = [m.subs EXCEPT ![fd] = {}]]
           x == [d EXCEPT !.conn = d.conn - 1]
           a == account_get_by_fd(m, fd)
           http == m.kind[fd] # "psub"
           f == model_acc_offline(x, fd)
<1>1. fd \in FD /\ Fields(m) /\ Typed(m)
  BY DEF MemInv, Typed
<1>2. /\ q \in PollerType /\ Recorded(q)
      /\ \A g \in FD : g # fd => q.evts[g] = m.poll.evts[g]
  <2> DEFINE k == [g \in FD |-> {}]
  <2>1. k \in [FD -> Masks] /\ k[fd] = {}
    BY <1>1 DEF Masks
  <2> HIDE DEF k
  <2>2. m.poll \in PollerType /\ Recorded(m.poll) /\ m.poll.evts \in [FD -> Masks]
    BY <1>1, PollerFields DEF Typed
  <2>3. q \in PollerType /\ Recorded(q) /\ q.evts = [m.poll.evts EXCEPT ![fd] = {}]
    BY <1>1, <2>1, <2>2, CloForgets
  <2> QED
    BY <2>2, <2>3
<1>3. r = IF http THEN [f EXCEPT !.wrb = [f.wrb EXCEPT ![fd] = FALSE],
                                  !.out = [f.out EXCEPT ![fd] = EmptyBuffer]]
                  ELSE f
  BY DEF close_conn, psub_disconnect, http_psub_disconnect
<1> HIDE DEF q, r
<1>4. /\ Fields(x) /\ x.poll = q /\ x.epoll = [m.epoll EXCEPT ![fd] = {}]
      /\ x.open = m.open \ {fd} /\ x.conn = m.conn - 1 /\ x.kind = m.kind
      /\ x.wrb = m.wrb /\ x.out = m.out /\ x.accounts = m.accounts /\ x.afds = m.afds
      /\ x.topics = m.topics /\ x.tfds = m.tfds /\ x.cookies = m.cookies
      /\ x.me = [m.me EXCEPT ![fd] = << >>] /\ x.subs = [m.subs EXCEPT ![fd] = {}]
      /\ x.twice = m.twice /\ x.stale = m.stale
  <2>1. d = [m EXCEPT !.poll  = q,
                      !.epoll = [m.epoll EXCEPT ![fd] = {}],
                      !.open  = m.open \ {fd},
                      !.me    = [m.me EXCEPT ![fd] = << >>],
                      !.subs  = [m.subs EXCEPT ![fd] = {}]]
    OBVIOUS
  <2>2. x = [d EXCEPT !.conn = d.conn - 1]
    OBVIOUS
  <2> HIDE DEF d, x
  <2>3. /\ Fields(d) /\ d.poll = q /\ d.epoll = [m.epoll EXCEPT ![fd] = {}]
        /\ d.open = m.open \ {fd} /\ d.conn = m.conn /\ d.kind = m.kind
        /\ d.wrb = m.wrb /\ d.out = m.out /\ d.accounts = m.accounts /\ d.afds = m.afds
        /\ d.topics = m.topics /\ d.tfds = m.tfds /\ d.cookies = m.cookies
        /\ d.me = [m.me EXCEPT ![fd] = << >>] /\ d.subs = [m.subs EXCEPT ![fd] = {}]
        /\ d.twice = m.twice /\ d.stale = m.stale
    BY <1>1, <2>1 DEF Fields
  <2> QED
    BY <2>2, <2>3 DEF Fields
<1> HIDE DEF d, x
<1>5. account_get_by_fd(x, fd) = a
  BY <1>4 DEF account_get_by_fd
<1>6. f = IF a = NoAcct THEN x
          ELSE [x EXCEPT !.afds = [x.afds EXCEPT ![a] = vector_remove(x.afds[a], fd)]]
  BY <1>5 DEF model_acc_offline
<1>7. /\ a # NoAcct => a \in Account /\ account_exists(m, a) /\ vector_is_exist(m.afds[a], fd)
      /\ a = NoAcct => \A b \in Account : ~ vector_is_exist(m.afds[b], fd)
  BY <1>1, AccountByFd
<1> HIDE DEF a, f, http
<1> DEFINE A == IF a = NoAcct THEN m.afds
                ELSE [m.afds EXCEPT ![a] = vector_remove(m.afds[a], fd)]
           W == IF http THEN [m.wrb EXCEPT ![fd] = FALSE] ELSE m.wrb
           O == IF http THEN [m.out EXCEPT ![fd] = EmptyBuffer] ELSE m.out
<1>8. f = [x EXCEPT !.afds = A]
  BY <1>4, <1>6 DEF Fields
<1> HIDE DEF A
<1>9. r = [x EXCEPT !.afds = A, !.wrb = W, !.out = O]
  BY <1>3, <1>4, <1>8 DEF Fields
<1> HIDE DEF W, O
<1>10. /\ Fields(r) /\ r.poll = q /\ r.epoll = [m.epoll EXCEPT ![fd] = {}]
       /\ r.open = m.open \ {fd} /\ r.conn = m.conn - 1 /\ r.kind = m.kind
       /\ r.wrb = W /\ r.out = O /\ r.accounts = m.accounts /\ r.afds = A
       /\ r.topics = m.topics /\ r.tfds = m.tfds /\ r.cookies = m.cookies
       /\ r.me = [m.me EXCEPT ![fd] = << >>] /\ r.subs = [m.subs EXCEPT ![fd] = {}]
       /\ r.twice = m.twice /\ r.stale = m.stale
  BY <1>4, <1>9 DEF Fields
<1>11. /\ W \in [FD -> BOOLEAN] /\ (http => ~ W[fd])
       /\ \A g \in FD : g # fd => W[g] = m.wrb[g]
  BY <1>1 DEF W, Typed
<1>12. /\ O \in [FD -> Buffer]
       /\ \A g \in FD : g # fd => O[g] = m.out[g]
  <2>1. m.out \in [FD -> Buffer] /\ EmptyBuffer \in Buffer
    BY <1>1, EmptyType DEF Typed
  <2>2. O = m.out \/ O = [m.out EXCEPT ![fd] = EmptyBuffer]
    BY DEF O
  <2> QED
    BY <1>1, <2>1, <2>2
<1>13. /\ A \in [Account -> Seq(FD)]
       /\ \A b \in Account, g \in FD :
            /\ vector_is_exist(A[b], g) => vector_is_exist(m.afds[b], g)
            /\ Once(m.afds[b], g) => Once(A[b], g)
       /\ a # NoAcct /\ Once(m.afds[a], fd) => ~ vector_is_exist(A[a], fd)
  <2>1. m.afds \in [Account -> Seq(FD)]
    BY <1>1 DEF Typed
  <2>2. CASE a = NoAcct
    BY <2>1, <2>2 DEF A
  <2>3. CASE a # NoAcct
    <3> DEFINE w == vector_remove(m.afds[a], fd)
    <3>1. a \in Account /\ m.afds[a] \in Seq(FD)
      BY <1>7, <2>1, <2>3
    <3>2. /\ w \in Seq(FD)
          /\ \A y : vector_is_exist(w, y) => vector_is_exist(m.afds[a], y)
          /\ \A y : Once(m.afds[a], y) => Once(w, y)
          /\ Once(m.afds[a], fd) => ~ vector_is_exist(w, fd)
      BY <3>1, RemoveLeaves
    <3>3. A = [m.afds EXCEPT ![a] = w]
      BY <2>3 DEF A
    <3> HIDE DEF w
    <3>4. A[a] = w /\ \A b \in Account : b # a => A[b] = m.afds[b]
      BY <2>1, <3>1, <3>3
    <3>5. A \in [Account -> Seq(FD)]
      BY <2>1, <3>1, <3>2, <3>3
    <3> QED
      BY <3>2, <3>4, <3>5
  <2> QED
    BY <2>2, <2>3
<1>14. /\ r.me \in [FD -> Seq(Account)] /\ r.me[fd] = << >>
       /\ \A g \in FD : g # fd => r.me[g] = m.me[g]
       /\ r.subs \in [FD -> SUBSET Topic] /\ r.subs[fd] = {}
       /\ \A g \in FD : g # fd => r.subs[g] = m.subs[g]
       /\ r.epoll \in [FD -> Masks]
  <2>1. << >> \in Seq(Account) /\ {} \in Masks
    BY DEF Masks
  <2> QED
    BY <1>1, <1>10, <2>1 DEF Typed
<1>15. Typed(r)
  BY <1>1, <1>2, <1>10, <1>11, <1>12, <1>13, <1>14 DEF Typed
<1>16. Buffers(r)
  <2> SUFFICES ASSUME NEW g \in FD
               PROVE  /\ g \in r.open => r.wrb[g] /\ r.kind[g] # "none"
                      /\ r.kind[g] # "psub" /\ g \notin r.open \cup r.stale => ~ r.wrb[g]
    BY DEF Buffers
  <2>1. CASE g = fd
    <3>1. g \notin r.open
      BY <1>10, <1>12, <2>1
    <3>2. r.kind[g] # "psub" => http
      BY <1>10, <2>1 DEF http
    <3>3. http => ~ r.wrb[g]
      BY <1>10, <1>11, <2>1
    <3> QED
      BY <3>1, <3>2, <3>3
  <2>2. CASE g # fd
    <3>1. /\ r.out[g] = m.out[g] /\ r.wrb[g] = m.wrb[g] /\ r.kind = m.kind
          /\ r.stale = m.stale /\ (g \in r.open <=> g \in m.open)
      BY <1>10, <1>11, <1>12, <2>2
    <3> QED
      BY <3>1 DEF MemInv, Buffers
  <2> QED
    BY <2>1, <2>2
<1>17. Lists(r)
  <2>1. ASSUME NEW g \in FD, NEW t \in r.subs[g]
        PROVE  g \in r.open /\ vector_is_exist(r.tfds[t], g)
    <3>1. g # fd /\ t \in m.subs[g]
      BY <1>14, <2>1
    <3> QED
      BY <1>10, <3>1 DEF MemInv, Lists
  <2> QED
    BY <1>10, <2>1 DEF MemInv, Lists
<1>18. Logins(r)
  <2>1. \A b : account_exists(m, b) <=> account_exists(r, b)
    BY <1>10 DEF account_exists
  <2>2. ASSUME NEW b \in Account, A[b] # << >> PROVE account_exists(m, b)
    <3>1. A[b] \in Seq(FD)
      BY <1>13
    <3>2. Len(A[b]) # 0
      BY <2>2, <3>1
    <3>3. 1 \in DOMAIN A[b] /\ A[b][1] \in FD
      BY <3>1, <3>2
    <3>4. vector_is_exist(m.afds[b], A[b][1])
      BY <1>13, <3>3 DEF vector_is_exist
    <3>5. m.afds[b] # << >>
      BY <3>4 DEF vector_is_exist
    <3> QED
      BY <3>5 DEF MemInv, Logins
  <2>3. ASSUME NEW g \in FD \ r.twice PROVE OwnLogin(r, g)
    <3>1. OwnLogin(m, g)
      BY <1>10 DEF MemInv, Logins
    <3>2. \A b \in Account : Once(r.afds[b], g)
      BY <1>10, <1>13, <3>1 DEF OwnLogin
    <3>3. CASE g # fd
      BY <1>10, <1>13, <1>14, <3>1, <3>2, <3>3 DEF OwnLogin
    <3>4. CASE g = fd
      <4>1. Len(r.me[g]) <= 1
        BY <1>14, <3>4
      <4>2. ASSUME NEW b \in Account, vector_is_exist(r.afds[b], fd) PROVE FALSE
        <5>1. vector_is_exist(m.afds[b], fd)
          BY <1>1, <1>10, <1>13, <4>2
        <5>2. a # NoAcct /\ a \in Account /\ vector_is_exist(m.afds[a], fd)
          BY <1>7, <5>1
        <5>3. m.me[fd] = <<b>> /\ m.me[fd] = <<a>>
          BY <3>1, <3>4, <5>1, <5>2 DEF OwnLogin
        <5>4. a = b
          BY <5>3
        <5>5. Once(m.afds[a], fd)
          BY <3>1, <3>4, <5>2 DEF OwnLogin
        <5> QED
          BY <1>10, <1>13, <4>2, <5>2, <5>4, <5>5
      <4> QED
        BY <3>2, <3>4, <4>1, <4>2 DEF OwnLogin
    <3> QED
      BY <3>3, <3>4
  <2>4. \A g \in FD : g \notin r.open => r.me[g] = << >>
    BY <1>10, <1>14 DEF MemInv, Logins
  <2>5. \A b \in r.cookies : account_exists(r, b)
    BY <1>10, <2>1 DEF MemInv, Logins
  <2> QED
    BY <1>10, <2>1, <2>2, <2>3, <2>4, <2>5 DEF Logins
<1>19. MemInv(r)
  BY <1>10, <1>15, <1>16, <1>17, <1>18 DEF MemInv
<1> QED
  BY <1>2, <1>10, <1>11, <1>12, <1>19 DEF r

\* recheck_state() of any result.
LEMMA RecheckStep ==
  ASSUME NEW b, NEW m, MemInv(m), NEW fd \in m.open, NEW flag, NEW l, Published(b, m, l), By(l, fd)
  PROVE  LET r == recheck_state(m, fd, flag)
         IN  MemInv(r) /\ r.open \subseteq m.open /\ Published(b, r, l)
<1> DEFINE r == recheck_state(m, fd, flag)
           q == recheck_flags(m.poll, fd, flag)
<1>1. fd \in FD /\ m.open \subseteq FD
  BY DEF MemInv, Typed
<1>2. CASE flag = ZB_CLOSE
  <2>1. r = close_conn(m, fd)
    BY <1>2 DEF recheck_state
  <2> HIDE DEF r
  <2>2. /\ MemInv(r) /\ r.open = m.open \ {fd} /\ r.tfds = m.tfds
        /\ \A g \in FD : g # fd => /\ r.wrb[g] = m.wrb[g] /\ r.out[g] = m.out[g]
                                   /\ r.poll.evts[g] = m.poll.evts[g]
    BY <2>1, CloseStep
  <2>3. r.open \subseteq m.open
    BY <2>2
  <2>4. Published(b, r, l)
    BY <1>1, <2>2, <2>3, PublishedStays
  <2> QED
    BY <2>2, <2>3, <2>4 DEF r
<1>3. CASE flag # ZB_CLOSE
  <2>1. r = [m EXCEPT !.poll = q]
    BY <1>3 DEF recheck_state
  <2>2. m.poll \in PollerType /\ Recorded(m.poll) /\ m.epoll \in [FD -> Masks]
    BY DEF MemInv, Typed
  <2>3. q \in PollerType /\ Recorded(q) /\ \A g \in FD : g # fd => q.evts[g] = m.poll.evts[g]
    BY <1>1, <2>2, RecheckWished DEF Wished
  <2> HIDE DEF r, q
  <2>4. /\ Fields(r) /\ SameModel(m, r) /\ SameConns(m, r) /\ r.epoll = m.epoll
        /\ r.poll = q /\ r.out = m.out
    BY <2>1 DEF MemInv, Fields, SameModel, SameConns
  <2>5. Served(r)
    BY <2>3, <2>4 DEF MemInv, Typed, Buffers, Served
  <2>6. MemInv(r)
    BY <2>2, <2>4, <2>5, AnswerKeeps
  <2>7. r.open \subseteq m.open /\ r.tfds = m.tfds /\ r.wrb = m.wrb
    BY <2>4 DEF SameConns, SameModel
  <2>8. Published(b, r, l)
    BY <1>1, <2>3, <2>4, <2>7, PublishedStays
  <2> QED
    BY <2>6, <2>7, <2>8 DEF r
<1> QED
  BY <1>2, <1>3

\* What the write callback of fd results in.
LEMMA WriteStep ==
  ASSUME NEW b, NEW m, MemInv(m), NEW fd \in m.open, NEW w \in write(m, fd),
         NEW l, Published(b, m, l), By(l, fd)
  PROVE  Kept(m, w.s) /\ Published(b, w.s, l)
<1> DEFINE r == [m EXCEPT !.out = [m.out EXCEPT ![fd] = EmptyBuffer]]
<1>1. fd \in FD /\ m.open \subseteq FD
  BY DEF MemInv, Typed
<1>2. w.s = m \/ w.s = r
  BY DEF write, Result
<1>3. Kept(m, m)
  BY KeptChain
<1>4. Kept(m, r) /\ Published(b, r, l)
  <2>1. r = [m EXCEPT !.out = [m.out EXCEPT ![fd] = EmptyBuffer]]
    OBVIOUS
  <2> HIDE DEF r
  <2>2. /\ Fields(r) /\ SameModel(m, r) /\ SameConns(m, r) /\ r.epoll = m.epoll
        /\ r.poll = m.poll /\ r.out = [m.out EXCEPT ![fd] = EmptyBuffer]
    BY <2>1 DEF MemInv, Fields, SameModel, SameConns
  <2>3. m.out \in [FD -> Buffer] /\ EmptyBuffer \in Buffer
    BY EmptyType DEF MemInv, Typed
  <2>4. /\ r.out \in [FD -> Buffer] /\ r.out[fd] = EmptyBuffer
        /\ \A g \in FD : g # fd => r.out[g] = m.out[g]
    BY <1>1, <2>2, <2>3
  <2>6. Served(r) /\ r.epoll \in [FD -> Masks]
    BY <2>2, <2>4 DEF MemInv, Typed, Buffers, Served
  <2>7. MemInv(r)
    BY <2>2, <2>6, AnswerKeeps
  <2>8. r.open \subseteq m.open /\ r.tfds = m.tfds /\ r.wrb = m.wrb
    BY <2>2 DEF SameConns, SameModel
  <2>9. Published(b, r, l)
    BY <1>1, <2>2, <2>4, <2>8, PublishedStays
  <2> QED
    BY <2>2, <2>7, <2>9 DEF Kept
<1> QED
  BY <1>2, <1>3, <1>4

----------------------------------------------------------------------------
(* The loop.                                                               *)

\* accept() of a connection on a free number, or its refusal.
LEMMA AcceptStep ==
  ASSUME NEW m, MemInv(m), NEW k \in Kinds, NEW fd \in FD \ m.open
  PROVE  MemInv(accept(m, k, fd))
<1> DEFINE r == accept(m, k, fd)
           W == [m.wrb EXCEPT ![fd] = TRUE]
           O == [m.out EXCEPT ![fd] = EmptyBuffer]
           b == [m EXCEPT !.wrb = W, !.out = O]
<1>1. Fields(m) /\ Typed(m) /\ k \in {"psub", "http"}
  BY PubSubAssumption DEF MemInv
<1>2. /\ W \in [FD -> BOOLEAN] /\ W[fd] = TRUE /\ \A g \in FD : g # fd => W[g] = m.wrb[g]
  BY <1>1 DEF Typed
<1>3. /\ O \in [FD -> Buffer]
      /\ \A g \in FD : g # fd => O[g] = m.out[g]
  <2>1. m.out \in [FD -> Buffer] /\ EmptyBuffer \in Buffer
    BY <1>1, EmptyType DEF Typed
  <2> QED
    BY <2>1
<1>4. b = [m EXCEPT !.wrb = W, !.out = O]
  OBVIOUS
<1>5. r = IF m.conn >= MaxConn
          THEN IF k = "psub" THEN [b EXCEPT !.stale = b.stale \cup {fd}] ELSE m
          ELSE [b EXCEPT !.conn  = b.conn + 1,
                         !.open  = b.open \cup {fd},
                         !.kind  = [b.kind EXCEPT ![fd] = k],
                         !.poll  = fd_set(b.poll, fd, "RD"),
                         !.stale = b.stale \ {fd}]
  BY DEF accept
<1> HIDE DEF W, O, b, r
<1>6. /\ Fields(b) /\ SameModel(m, b) /\ b.poll = m.poll /\ b.epoll = m.epoll
      /\ b.open = m.open /\ b.conn = m.conn /\ b.kind = m.kind /\ b.stale = m.stale
      /\ b.wrb = W /\ b.out = O
  BY <1>1, <1>4 DEF Fields, SameModel
<1>7. CASE m.conn >= MaxConn /\ k # "psub"
  BY <1>5, <1>7 DEF r
<1>8. CASE m.conn >= MaxConn /\ k = "psub"
  <2>1. r = [b EXCEPT !.stale = b.stale \cup {fd}]
    BY <1>5, <1>8
  <2>2. /\ Fields(r) /\ SameModel(m, r) /\ r.poll = m.poll /\ r.epoll = m.epoll
        /\ r.open = m.open /\ r.conn = m.conn /\ r.kind = m.kind
        /\ r.wrb = W /\ r.out = O /\ r.stale = m.stale \cup {fd}
    BY <1>6, <2>1 DEF Fields, SameModel
  <2>3. Typed(r)
    BY <1>1, <1>2, <1>3, <2>2 DEF Typed, SameModel
  <2>4. Buffers(r)
    <3> SUFFICES ASSUME NEW g \in FD
                 PROVE  /\ g \in r.open => r.wrb[g] /\ r.kind[g] # "none"
                        /\ r.kind[g] # "psub" /\ g \notin r.open \cup r.stale => ~ r.wrb[g]
      BY DEF Buffers
    <3>1. CASE g = fd
      BY <1>3, <2>2, <3>1
    <3>2. CASE g # fd
      <4>1. r.out[g] = m.out[g] /\ r.wrb[g] = m.wrb[g] /\ (g \in r.stale <=> g \in m.stale)
        BY <1>2, <1>3, <2>2, <3>2
      <4> QED
        BY <2>2, <4>1 DEF MemInv, Buffers
    <3> QED
      BY <3>1, <3>2
  <2>5. Lists(r)
    BY <2>2 DEF MemInv, Lists, SameModel
  <2>6. Logins(r)
    BY <2>2 DEF MemInv, Logins, OwnLogin, SameModel, account_exists
  <2> QED
    BY <2>2, <2>3, <2>4, <2>5, <2>6 DEF MemInv, r
<1>9. CASE ~ (m.conn >= MaxConn)
  <2> DEFINE q == fd_set(m.poll, fd, "RD")
             K == [m.kind EXCEPT ![fd] = k]
  <2>1. q \in PollerType /\ Recorded(q)
    <3>1. m.poll \in PollerType /\ Recorded(m.poll) /\ "RD" \in Dir
      BY <1>1 DEF Typed, Dir
    <3> QED
      BY <3>1, SetWished DEF Wished
  <2>2. /\ K \in [FD -> {"none", "psub", "http"}] /\ K[fd] # "none"
        /\ \A g \in FD : g # fd => K[g] = m.kind[g]
    BY <1>1 DEF Typed
  <2>3. r = [b EXCEPT !.conn = m.conn + 1, !.open = m.open \cup {fd}, !.kind = K,
                      !.poll = q, !.stale = m.stale \ {fd}]
    BY <1>5, <1>6, <1>9
  <2> HIDE DEF q, K
  <2>4. /\ Fields(r) /\ SameModel(m, r) /\ r.poll = q /\ r.epoll = m.epoll
        /\ r.open = m.open \cup {fd} /\ r.conn = m.conn + 1 /\ r.kind = K
        /\ r.wrb = W /\ r.out = O /\ r.stale = m.stale \ {fd}
    BY <1>6, <2>3 DEF Fields, SameModel
  <2>5. Typed(r)
    BY <1>1, <1>2, <1>3, <2>1, <2>2, <2>4 DEF Typed, SameModel
  <2>6. Buffers(r)
    <3> SUFFICES ASSUME NEW g \in FD
                 PROVE  /\ g \in r.open => r.wrb[g] /\ r.kind[g] # "none"
                        /\ r.kind[g] # "psub" /\ g \notin r.open \cup r.stale => ~ r.wrb[g]
      BY DEF Buffers
    <3>1. CASE g = fd
      BY <1>2, <1>3, <2>2, <2>4, <3>1
    <3>2. CASE g # fd
      <4>1. /\ r.out[g] = m.out[g] /\ r.wrb[g] = m.wrb[g] /\ (g \in r.stale <=> g \in m.stale)
            /\ (g \in r.open <=> g \in m.open) /\ r.kind[g] = m.kind[g]
        BY <1>2, <1>3, <2>2, <2>4, <3>2
      <4> QED
        BY <4>1 DEF MemInv, Buffers
    <3> QED
      BY <3>1, <3>2
  <2>7. Lists(r)
    <3>1. \A g \in FD : m.kind[g] # "none" => r.kind[g] # "none"
      BY <2>2, <2>4
    <3>2. m.open \subseteq r.open
      BY <2>4
    <3> QED
      BY <2>4, <3>1, <3>2 DEF MemInv, Lists, SameModel
  <2>8. Logins(r)
    <3>1. \A g \in FD : g \notin r.open => g \notin m.open
      BY <2>4
    <3> QED
      BY <2>4, <3>1 DEF MemInv, Logins, OwnLogin, SameModel, account_exists
  <2> QED
    BY <2>4, <2>5, <2>6, <2>7, <2>8 DEF MemInv, r
<1> QED
  BY <1>7, <1>8, <1>9

\* The server starts without connections, accounts and topics.
LEMMA InitInv == Init => PubSubInv
<1> SUFFICES ASSUME Init PROVE PubSubInv
  OBVIOUS
<1>1. Fields(s)
  BY DEF Init, Fields
<1>2. poll_init \in PollerType /\ Recorded(poll_init)
  <2> DEFINE E == [fd \in FD |-> {}]
             Z == [fd \in FD |-> 0]
  <2>1. E \in [FD -> Masks] /\ Z \in [FD -> Nat] /\ << >> \in Seq(Entry)
    BY DEF Masks
  <2>2. /\ poll_init = [evts |-> E, chg |-> << >>, ptr |-> Z]
        /\ 1 .. Len(<< >>) = {} /\ \A fd \in FD : Z[fd] = 0
    BY DEF poll_init
  <2> HIDE DEF E, Z
  <2>3. poll_init \in PollerType
    BY <2>1, <2>2 DEF PollerType
  <2>4. poll_init.ptr = Z /\ poll_init.chg = << >>
    BY <2>2
  <2> QED
    BY <2>2, <2>3, <2>4 DEF Recorded
<1>3. /\ EmptyBuffer \in Buffer /\ << >> \in Seq(Account) /\ << >> \in Seq(FD)
      /\ {} \in Masks /\ Len(<< >>) = 0 /\ Len(<< >>) <= 1
      /\ \A x : ~ vector_is_exist(<< >>, x) /\ Once(<< >>, x)
  BY EmptyType DEF Masks, vector_is_exist, Once
<1>4. /\ s.poll = poll_init /\ s.epoll = [fd \in FD |-> {}] /\ s.open = {} /\ s.conn = 0
      /\ s.kind = [fd \in FD |-> "none"] /\ s.wrb = [fd \in FD |-> FALSE]
      /\ s.out = [fd \in FD |-> EmptyBuffer] /\ s.accounts = << >>
      /\ s.afds = [a \in Account |-> << >>] /\ s.topics = {}
      /\ s.tfds = [t \in Topic |-> << >>] /\ s.cookies = {}
      /\ s.me = [fd \in FD |-> << >>] /\ s.subs = [fd \in FD |-> {}]
      /\ s.twice = {} /\ s.stale = {}
  BY DEF Init
<1>5. Typed(s)
  BY <1>2, <1>3, <1>4 DEF Typed
<1>6. Buffers(s)
  BY <1>3, <1>4 DEF Buffers
<1>7. Lists(s)
  BY <1>3, <1>4 DEF Lists
<1>8. Logins(s)
  BY <1>3, <1>4 DEF Logins, OwnLogin
<1>9. batch = {} /\ last = NoPub
  BY DEF Init
<1> QED
  BY <1>1, <1>5, <1>6, <1>7, <1>8, <1>9 DEF PubSubInv, MemInv, Pruned

\* poll_do() up to the events: the poller's change list is replayed, and the
\* events are about descriptors.
LEMMA PollWaitStep ==
  ASSUME PubSubInv, PollWait
  PROVE  PubSubInv'
<1>1. MemInv(s) /\ s.poll \in PollerType /\ Recorded(s.poll) /\ s.epoll \in [FD -> Masks]
  BY DEF PubSubInv, MemInv, Typed
<1> DEFINE f == fd_flush_changes(s.poll, s.epoll, s.open)
<1>2. f.poll \in PollerType /\ Recorded(f.poll) /\ f.epoll \in [FD -> Masks]
  BY <1>1, FlushFacts
<1>3. s' = [s EXCEPT !.poll = f.poll, !.epoll = f.epoll]
  BY DEF PollWait
<1>4. \A e \in batch' : e.fd \in FD
  <2>1. \A n : kSubset(n, FD) \subseteq SUBSET FD
    BY DEF kSubset
  <2>2. PICK n : \E ready \in kSubset(n, FD) : \E ev \in [ready -> SUBSET Dir \ {{}}] :
          batch' = {[fd |-> fd, ev |-> ev[fd]] : fd \in ready}
    BY DEF PollWait
  <2>3. PICK ready \in kSubset(n, FD) : \E ev \in [ready -> SUBSET Dir \ {{}}] :
          batch' = {[fd |-> fd, ev |-> ev[fd]] : fd \in ready}
    BY <2>2
  <2>4. PICK ev \in [ready -> SUBSET Dir \ {{}}] :
          batch' = {[fd |-> fd, ev |-> ev[fd]] : fd \in ready}
    BY <2>3
  <2>5. ready \subseteq FD
    BY <2>1
  <2> QED
    BY <2>4, <2>5
<1>5. last' = NoPub
  BY DEF PollWait
<1> HIDE DEF f
<1>6. /\ Fields(s') /\ SameModel(s, s') /\ SameConns(s, s') /\ s'.epoll = f.epoll
      /\ s'.poll = f.poll /\ s'.out = s.out
  BY <1>1, <1>3 DEF MemInv, Fields, SameModel, SameConns
<1>7. Served(s')
  BY <1>1, <1>2, <1>6 DEF MemInv, Typed, Buffers, Served
<1>8. MemInv(s')
  BY <1>1, <1>2, <1>6, <1>7, AnswerKeeps
<1>9. Pruned(s', last')
  BY <1>5 DEF Pruned
<1> QED
  BY <1>4, <1>8, <1>9 DEF PubSubInv

\* One event: the read half, what the loop makes of its result, and, unless
\* that closed the connection, the write half.
LEMMA DispatchStep ==
  ASSUME PubSubInv, NEW e \in batch, Dispatch(e)
  PROVE  PubSubInv' /\ s'.open \subseteq s.open /\ Published(s, s', last')
<1>1. MemInv(s) /\ \A d \in batch : d.fd \in FD
  BY DEF PubSubInv
<1>2. \A d \in batch' : d.fd \in FD
  BY <1>1 DEF Dispatch
<1>3. CASE e.fd \notin s.open
  <2>1. s' = s /\ last' = NoPub
    BY <1>3 DEF Dispatch
  <2>2. Published(s, s', last')
    BY <2>1 DEF Published, Pruned
  <2> QED
    BY <1>1, <1>2, <2>1, <2>2 DEF PubSubInv, Published
<1>4. CASE e.fd \in s.open
  <2> DEFINE fd == e.fd
             R == IF "RD" \in e.ev THEN ReadCb(s, fd) ELSE {Result(s, {}, NoPub)}
             W(m, ret) == IF "WR" \in e.ev THEN write(m, fd) ELSE {Result(m, ret, NoPub)}
  <2>1. PICK r \in R : LET m == recheck_state(r.s, fd, r.ret)
                       IN  /\ last' = r.pub
                           /\ IF fd \notin m.open THEN s' = m
                              ELSE \E w \in W(m, r.ret) : s' = recheck_state(w.s, fd, w.ret)
    BY <1>4 DEF Dispatch
  <2> DEFINE m == recheck_state(r.s, fd, r.ret)
             l == r.pub
  <2>2. Kept(s, r.s) /\ Published(s, r.s, l) /\ By(l, fd)
    <3>1. CASE "RD" \in e.ev
      BY <1>1, <1>4, <3>1, ReadStep
    <3>2. CASE "RD" \notin e.ev
      <4>1. r.s = s /\ l = NoPub
        BY <3>2 DEF Result
      <4> QED
        BY <1>1, <4>1, KeptChain DEF Published, Pruned, By
    <3> QED
      BY <3>1, <3>2
  <2>3. last' = l /\ (fd \notin m.open => s' = m)
        /\ (fd \in m.open => \E w \in W(m, r.ret) : s' = recheck_state(w.s, fd, w.ret))
    BY <2>1
  <2> HIDE DEF R, l
  <2>4. MemInv(m) /\ m.open \subseteq s.open /\ Published(s, m, l)
    <3>1. MemInv(r.s) /\ fd \in r.s.open /\ r.s.open = s.open
      BY <1>4, <2>2 DEF Kept, SameConns
    <3> QED
      BY <2>2, <3>1, RecheckStep
  <2> HIDE DEF m, fd
  <2>5. MemInv(s') /\ s'.open \subseteq s.open /\ Published(s, s', l)
    <3>1. CASE fd \notin m.open
      BY <2>3, <2>4, <3>1
    <3>2. CASE fd \in m.open
      <4>1. PICK w \in W(m, r.ret) : s' = recheck_state(w.s, fd, w.ret)
        BY <2>3, <3>2
      <4>2. Kept(m, w.s) /\ Published(s, w.s, l)
        <5>1. CASE "WR" \in e.ev
          BY <2>2, <2>4, <3>2, <5>1, WriteStep
        <5>2. CASE "WR" \notin e.ev
          <6>1. w.s = m
            BY <5>2 DEF Result
          <6> QED
            BY <2>4, <6>1, KeptChain
        <5> QED
          BY <5>1, <5>2
      <4>3. MemInv(w.s) /\ fd \in w.s.open /\ w.s.open = m.open
        BY <3>2, <4>2 DEF Kept, SameConns
      <4> QED
        BY <2>2, <2>4, <4>1, <4>2, <4>3, RecheckStep
    <3> QED
      BY <3>1, <3>2
  <2> QED
    BY <1>2, <2>3, <2>5 DEF PubSubInv, Published
<1> QED
  BY <1>3, <1>4

\* Every step keeps the invariant.
LEMMA NextInv ==
  ASSUME PubSubInv, [Next]_vars
  PROVE  PubSubInv'
<1>1. CASE PollWait
  BY <1>1, PollWaitStep
<1>2. ASSUME NEW e \in batch, Dispatch(e) PROVE PubSubInv'
  BY <1>2, DispatchStep
<1>3. ASSUME NEW k \in Kinds, Accept(k) PROVE PubSubInv'
  <2>1. PICK fd \in FD \ s.open : s' = accept(s, k, fd)
    BY <1>3 DEF Accept
  <2>2. MemInv(s')
    BY <2>1, AcceptStep DEF PubSubInv
  <2>3. last' = NoPub /\ batch' = batch
    BY <1>3 DEF Accept
  <2>4. Pruned(s', last')
    BY <2>3 DEF Pruned
  <2> QED
    BY <2>2, <2>3, <2>4 DEF PubSubInv
<1>4. CASE EndOfBatch
  <2>1. s' = s /\ batch' = batch /\ last' = NoPub
    BY <1>4 DEF EndOfBatch
  <2>2. Pruned(s', last')
    BY <2>1 DEF Pruned
  <2> QED
    BY <2>1, <2>2 DEF PubSubInv
<1>5. CASE UNCHANGED vars
  BY <1>5 DEF vars, PubSubInv
<1> QED
  BY <1>1, <1>2, <1>3, <1>4, <1>5 DEF Next

----------------------------------------------------------------------------
(* The theorems.                                                           *)

\* Between two events, topics, accounts, buffers and connections belong
\* together, and the last publish left no number without a buffer in its topic.
THEOREM PubSubInvariant == Spec => []PubSubInv
<1>1. Init => PubSubInv
  BY InitInv
<1>2. PubSubInv /\ [Next]_vars => PubSubInv'
  BY NextInv
<1> QED
  BY <1>1, <1>2, PTL DEF Spec

\* model_pub()'s test of the output buffer condemns no open descriptor, and
\* finds every closed one of the http handler that no refused plain-text
\* connection left a buffer on.
THEOREM BuffersTellClosed == Spec => []TrickDetectsClosed
<1>1. PubSubInv => TrickDetectsClosed
  <2> SUFFICES ASSUME PubSubInv, NEW t \in s.topics, NEW i \in DOMAIN s.tfds[t]
               PROVE  LET fd == s.tfds[t][i]
                      IN  /\ ~ s.wrb[fd] => fd \notin s.open
                          /\ s.kind[fd] = "http" /\ fd \notin s.open \cup s.stale => ~ s.wrb[fd]
    BY DEF TrickDetectsClosed
  <2>1. s.tfds[t] \in Seq(FD)
    BY DEF PubSubInv, MemInv, Typed
  <2>2. s.tfds[t][i] \in FD
    BY <2>1
  <2> QED
    BY <2>2 DEF PubSubInv, MemInv, Buffers
<1> QED
  BY <1>1, PubSubInvariant, PTL

\* What a handler makes of its buffer is what the property says.
LEMMA RespondedDelivers ==
  ASSUME NEW b \in Buffer, NEW kind \in {"none", "psub", "http"}, kind # "none",
         NEW t \in Topic, NEW len \in Lengths
  PROVE  Responded(b, kind, t, len).data \in Delivered(b, kind, t, len)
<1>1. /\ OutCap \in Nat /\ len.plain \in Nat /\ len.http \in Nat /\ b.r \in Nat
  BY LengthFacts DEF Buffer
<1>2. CASE kind = "http"
  <2>1. EmptyBuffer.data = << >> /\ EmptyBuffer.r = 0
    BY DEF EmptyBuffer
  <2>2. Responded(b, kind, t, len)
          = IF OutCap <= len.http THEN EmptyBuffer ELSE [data |-> <<t>>, r |-> len.http]
    BY <1>1, <1>2, <2>1 DEF Responded, buffer_write
  <2> QED
    BY <1>1, <1>2, <2>1, <2>2 DEF Delivered
<1>3. CASE kind = "psub"
  <2> DEFINE d == IF b.r + len.plain < OutCap THEN Append(b.data, t) ELSE b.data
             x == buffer_write(b, t, len.plain)
             y == buffer_write(x, Newline, 1)
  <2>1. x.data = d
    BY <1>1 DEF buffer_write
  <2> HIDE DEF x, d
  <2>2. y.data = x.data \/ y.data = Append(x.data, Newline)
    BY DEF buffer_write
  <2>3. Responded(b, kind, t, len) = y /\ Delivered(b, kind, t, len) = {d, Append(d, Newline)}
    BY <1>3 DEF Responded, Delivered, x, d
  <2> HIDE DEF y
  <2> QED
    BY <2>1, <2>2, <2>3
<1> QED
  BY <1>2, <1>3

\* A publish reaches every open connection that subscribed, and each once,
\* whatever it drops from the list it walks.
THEOREM PublishReaches == Spec => SubscribersServed
<1> DEFINE Served2 ==
      last' # NoPub =>
        \A c \in s'.open \ {last'.fd} :
          last'.t \in s'.subs[c] =>
            /\ s'.out[c].data \in Delivered(s.out[c], s.kind[c], last'.t, last'.len)
            /\ "WR" \in s'.poll.evts[c]
<1>1. PubSubInv /\ PubSubInv' /\ Next => Served2
  <2> SUFFICES ASSUME PubSubInv, PubSubInv', Next, last' # NoPub,
                      NEW c \in s'.open \ {last'.fd}, last'.t \in s'.subs[c]
               PROVE  /\ s'.out[c].data \in Delivered(s.out[c], s.kind[c], last'.t, last'.len)
                      /\ "WR" \in s'.poll.evts[c]
    OBVIOUS
  <2>1. PICK e \in batch : Dispatch(e)
    BY DEF Next, PollWait, Accept, EndOfBatch
  <2>2. Published(s, s', last')
    BY <2>1, DispatchStep
  <2>3. c \in FD
    BY DEF PubSubInv, MemInv, Typed
  <2>4. vector_is_exist(s'.tfds[last'.t], c)
    BY <2>3 DEF PubSubInv, MemInv, Lists
  <2>5. Got(s, s', c, last'.t, last'.len) /\ last'.t \in Topic /\ last'.len \in Lengths
    BY <2>2, <2>4 DEF Published, Pruned
  <2>6. s.out[c] \in Buffer /\ s.kind[c] \in {"none", "psub", "http"}
    BY <2>3 DEF PubSubInv, MemInv, Typed
  <2>7. s.kind[c] # "none"
    <3>1. c \in s.open
      BY <2>1, DispatchStep
    <3> QED
      BY <2>3, <3>1 DEF PubSubInv, MemInv, Buffers
  <2> QED
    BY <2>5, <2>6, <2>7, RespondedDelivers DEF Got
<1>2. PubSubInv /\ [Next]_vars => PubSubInv'
  BY NextInv
<1>3. PubSubInv /\ PubSubInv' /\ [Next]_vars => [Served2]_vars
  BY <1>1
<1> QED
  BY <1>2, <1>3, PubSubInvariant, PTL DEF Spec, SubscribersServed

\* A publish drops the closed descriptors it can tell.
THEOREM PublishDropsClosed == Spec => []PublishPrunes
<1>1. PubSubInv => PublishPrunes
  <2> SUFFICES ASSUME PubSubInv, last # NoPub, NEW i \in DOMAIN s.tfds[last.t]
               PROVE  LET fd == s.tfds[last.t][i]
                      IN  fd \in s.open \cup s.stale \cup {last.fd} \/ s.kind[fd] = "psub"
    BY DEF PublishPrunes
  <2> DEFINE fd == s.tfds[last.t][i]
  <2>1. last.t \in Topic
    BY DEF PubSubInv, Pruned
  <2>2. s.tfds[last.t] \in Seq(FD)
    BY <2>1 DEF PubSubInv, MemInv, Typed
  <2>3. fd \in FD /\ vector_is_exist(s.tfds[last.t], fd)
    BY <2>2 DEF vector_is_exist
  <2> HIDE DEF fd
  <2>4. fd # last.fd => s.wrb[fd]
    BY <2>3 DEF PubSubInv, Pruned
  <2>5. s.wrb[fd] => s.kind[fd] = "psub" \/ fd \in s.open \cup s.stale
    BY <2>3 DEF PubSubInv, MemInv, Buffers
  <2> QED
    BY <2>4, <2>5 DEF fd
<1> QED
  BY <1>1, PubSubInvariant, PTL

\* No connection acts as an account it did not log in to, unless a connection
\* logged in twice on its number.
THEOREM LoginsNotInherited == Spec => []NoInheritedLogin
<1>1. PubSubInv => NoInheritedLogin
  <2> SUFFICES ASSUME PubSubInv, NEW fd \in FD \ s.twice,
                      account_get_by_fd(s, fd) # NoAcct
               PROVE  /\ fd \in s.open
                      /\ \E i \in DOMAIN s.me[fd] : s.me[fd][i] = account_get_by_fd(s, fd)
    BY DEF NoInheritedLogin
  <2> DEFINE a == account_get_by_fd(s, fd)
  <2>1. a \in Account /\ vector_is_exist(s.afds[a], fd)
    BY AccountByFd DEF PubSubInv
  <2> HIDE DEF a
  <2>2. s.me[fd] = <<a>>
    BY <2>1 DEF PubSubInv, MemInv, Logins, OwnLogin
  <2>3. fd \in s.open
    BY <2>2 DEF PubSubInv, MemInv, Logins
  <2>4. 1 \in DOMAIN s.me[fd] /\ s.me[fd][1] = a
    BY <2>2
  <2> QED
    BY <2>3, <2>4 DEF a
<1> QED
  BY <1>1, PubSubInvariant, PTL

=============================================================================
