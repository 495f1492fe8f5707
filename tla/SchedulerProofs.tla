---------------------------- MODULE SchedulerProofs ----------------------------
(***************************************************************************)
(* Proofs about Scheduler for any tasks, timeouts and range of the date:   *)
(* no timer is lost, none is placed after its date, no freed task is       *)
(* queued, and the scan returns the next date.                             *)
(***************************************************************************)
EXTENDS Scheduler, SequenceTheorems, FiniteSetTheorems, WellFoundedInduction, TLAPS

----------------------------------------------------------------------------
(* Ticks.                                                                  *)

\* The difference of two ticks, without the wrap.
LEMMA TickDifference ==
  ASSUME NEW t1 \in Tick, NEW t2 \in Tick
  PROVE  (t1 - t2) % N = IF t1 >= t2 THEN t1 - t2 ELSE t1 - t2 + N
<1>1. N \in Nat /\ N > 2
  BY TicksAssumption
<1> QED
  BY <1>1 DEF Tick

\* Of two ticks one is before or equal to the other; never is neither.
LEMMA TickTotal ==
  ASSUME NEW t1 \in Tick, NEW t2 \in Tick, ~ tick_is_lt(t1, t2)
  PROVE  tick_is_le(t2, t1)
<1>1. N \in Nat /\ N > 2 /\ N = 2 * Half /\ Half \in Nat
  BY TicksAssumption DEF Half
<1>2. /\ (t1 - t2) % N = IF t1 >= t2 THEN t1 - t2 ELSE t1 - t2 + N
      /\ (t2 - t1) % N = IF t2 >= t1 THEN t2 - t1 ELSE t2 - t1 + N
  BY TickDifference
<1>3. t1 \in Int /\ t2 \in Int
  BY <1>1 DEF Tick
<1> QED
  BY <1>1, <1>2, <1>3 DEF tick_is_le, tick_is_lt

\* A date that is set is a tick and not eternity.
LEMMA TickAdd ==
  ASSUME NEW t \in Tick, NEW d \in Timeouts
  PROVE  tick_add(t, d) \in Tick /\ tick_isset(tick_add(t, d))
<1>1. N \in Nat /\ N > 2 /\ d \in Nat
  BY TicksAssumption, SchedulerAssumption
<1>2. t \in Nat
  BY <1>1 DEF Tick
<1>3. (t + d) % N \in 0 .. N - 1
  BY <1>1, <1>2
<1> QED
  BY <1>1, <1>3 DEF tick_add, tick_isset, TICK_ETERNITY, Tick

----------------------------------------------------------------------------
(* Queues: sequences that hold every task at most once.                    *)

Once(s) == \A i, j \in 1 .. Len(s) : s[i] = s[j] => i = j

\* A set of naturals that is not empty has a least member.
LEMMA MinFacts ==
  ASSUME NEW S, S \subseteq Nat, S # {}
  PROVE  Min(S) \in S /\ \A x \in S : Min(S) <= x
<1> DEFINE Less == OpToRel(<, Nat)
<1>1. PICK m \in S : \A k \in S : ~ (<<k, m>> \in Less)
  <2>1. IsWellFoundedOn(Less, Nat)
    BY NatLessThanWellFounded
  <2> HIDE DEF Less
  <2> QED
    BY <2>1, WFMin
<1>2. \A k \in S : <<k, m>> \in Nat \X Nat /\ (k < m => <<k, m>> \in Less)
  BY DEF OpToRel
<1>3. \A k \in S : m <= k
  <2> HIDE DEF Less
  <2> SUFFICES ASSUME NEW k \in S PROVE ~ (k < m)
    OBVIOUS
  <2> QED
    BY <1>1, <1>2
<1> QED
  BY <1>3 DEF Min

\* A sequence without its member at k.
LEMMA RemoveAtFacts ==
  ASSUME NEW S, NEW s \in Seq(S), NEW k \in 1 .. Len(s)
  PROVE  /\ RemoveAt(s, k) \in Seq(S) /\ Len(RemoveAt(s, k)) = Len(s) - 1
         /\ \A i \in 1 .. Len(s) - 1 :
              RemoveAt(s, k)[i] = IF i < k THEN s[i] ELSE s[i + 1]
<1> DEFINE r == RemoveAt(s, k)
           n == Len(s)
           a == SubSeq(s, 1, k - 1)
           b == SubSeq(s, k + 1, n)
<1>0. n \in Nat /\ k \in 1 .. n
  OBVIOUS
<1>1. /\ a \in Seq(S) /\ Len(a) = k - 1
      /\ \A i \in 1 .. k - 1 : a[i] = s[i]
  BY <1>0
<1>2. /\ b \in Seq(S) /\ Len(b) = n - k
      /\ \A i \in 1 .. n - k : b[i] = s[i + k]
  BY <1>0
<1>3. r = a \o b
  BY DEF RemoveAt
<1> HIDE DEF a, b, r
<1>4. /\ r \in Seq(S) /\ Len(r) = (k - 1) + (n - k)
      /\ \A i \in 1 .. (k - 1) + (n - k) :
           r[i] = IF i <= k - 1 THEN a[i] ELSE b[i - (k - 1)]
  <2> DEFINE c == a \o b
  <2>1. /\ c \in Seq(S) /\ Len(c) = Len(a) + Len(b)
        /\ \A i \in 1 .. Len(a) + Len(b) :
             c[i] = IF i <= Len(a) THEN a[i] ELSE b[i - Len(a)]
    BY <1>1, <1>2, ConcatProperties, Zenon
  <2> HIDE DEF c
  <2>2. c = r
    BY <1>3 DEF c
  <2> QED
    BY <1>1, <1>2, <2>1, <2>2, Zenon
<1> HIDE DEF n
<1>5. (k - 1) + (n - k) = n - 1
  BY <1>0
<1>6. /\ r \in Seq(S) /\ Len(r) = n - 1
      /\ \A i \in 1 .. n - 1 : r[i] = IF i < k THEN s[i] ELSE s[i + 1]
  BY <1>0, <1>1, <1>2, <1>4, <1>5
<1> QED
  BY <1>6 DEF n, r

\* RemoveFirst takes out the task, and nothing else.
LEMMA RemoveFirstFacts ==
  ASSUME NEW S, NEW s \in Seq(S), Once(s), NEW t,
         NEW r, r = RemoveFirst(s, t)
  PROVE  /\ r \in Seq(S) /\ Once(r)
         /\ \A u : Contains(r, u) <=> Contains(s, u) /\ u # t
<1>1. CASE ~ Contains(s, t)
  BY <1>1 DEF RemoveFirst, Contains
<1>2. CASE Contains(s, t)
  <2> DEFINE I == {i \in 1 .. Len(s) : s[i] = t}
             k == Min(I)
             n == Len(s)
  <2>0. n \in Nat
    OBVIOUS
  <2>1. k \in I
    <3>1. I \subseteq Nat /\ I # {}
      BY <1>2 DEF Contains
    <3> QED
      BY <3>1, MinFacts
  <2>2. r = RemoveAt(s, k)
    BY <1>2 DEF RemoveFirst, SelectInSeq, Contains
  <2>3. k \in 1 .. n /\ s[k] = t
    BY <2>1
  <2> HIDE DEF k, I
  <2>7. /\ r \in Seq(S) /\ Len(r) = n - 1
        /\ \A i \in 1 .. n - 1 : r[i] = IF i < k THEN s[i] ELSE s[i + 1]
    <3>1. k \in 1 .. Len(s)
      BY <2>3
    <3>2. /\ RemoveAt(s, k) \in Seq(S) /\ Len(RemoveAt(s, k)) = Len(s) - 1
          /\ \A i \in 1 .. Len(s) - 1 :
               RemoveAt(s, k)[i] = IF i < k THEN s[i] ELSE s[i + 1]
      BY <3>1, RemoveAtFacts
    <3> HIDE DEF n
    <3> QED
      BY <2>2, <3>2 DEF n
  <2> HIDE DEF n
  <2>8. Once(r)
    BY <2>0, <2>3, <2>7 DEF Once, n
  <2>9. ASSUME NEW u, Contains(r, u) PROVE Contains(s, u) /\ u # t
    <3>1. PICK i \in 1 .. n - 1 : r[i] = u
      BY <2>7, <2>9 DEF Contains
    <3>2. u = IF i < k THEN s[i] ELSE s[i + 1]
      BY <2>7, <3>1
    <3> QED
      BY <2>0, <2>3, <3>1, <3>2 DEF Contains, Once, n
  <2>10. ASSUME NEW u, Contains(s, u), u # t PROVE Contains(r, u)
    <3>1. PICK i \in 1 .. n : s[i] = u
      BY <2>10 DEF Contains, n
    <3>2. i # k
      BY <2>3, <2>10, <3>1
    <3>3. CASE i < k
      <4>1. i \in 1 .. n - 1 /\ r[i] = u
        BY <2>0, <2>3, <2>7, <3>1, <3>3
      <4> QED
        BY <2>7, <4>1 DEF Contains
    <3>4. CASE i > k
      <4>1. i - 1 \in 1 .. n - 1 /\ r[i - 1] = u
        BY <2>0, <2>3, <2>7, <3>1, <3>4
      <4> QED
        BY <2>7, <4>1 DEF Contains
    <3> QED
      BY <2>0, <2>3, <3>1, <3>2, <3>3, <3>4
  <2> QED
    BY <2>7, <2>8, <2>9, <2>10
<1> QED
  BY <1>1, <1>2

\* r is the sequence s with t put in behind its first k members.
IsPut(r, s, t, k) ==
  /\ Len(r) = Len(s) + 1
  /\ \A i \in 1 .. Len(s) + 1 :
       r[i] = IF i <= k THEN s[i] ELSE IF i = k + 1 THEN t ELSE s[i - 1]

\* What a member put into a sequence does to the places of the others.
LEMMA PutFacts ==
  ASSUME NEW S, NEW s \in Seq(S), NEW t \in S, NEW k \in 0 .. Len(s)
  PROVE  LET r == SubSeq(s, 1, k) \o <<t>> \o SubSeq(s, k + 1, Len(s))
         IN  r \in Seq(S) /\ IsPut(r, s, t, k)
<1> DEFINE n == Len(s)
           a == SubSeq(s, 1, k)
           b == SubSeq(s, k + 1, n)
           c == a \o <<t>>
           r == c \o b
<1>1. n \in Nat /\ k \in Nat /\ k <= n
  OBVIOUS
<1>2. /\ a \in Seq(S) /\ Len(a) = k
      /\ \A i \in 1 .. k : a[i] = s[i]
  BY <1>1
<1>3. /\ b \in Seq(S) /\ Len(b) = n - k
      /\ \A i \in 1 .. n - k : b[i] = s[i + k]
  BY <1>1
<1> HIDE DEF a, b
<1>4. <<t>> \in Seq(S) /\ Len(<<t>>) = 1 /\ <<t>>[1] = t
  OBVIOUS
<1>5. /\ c \in Seq(S) /\ Len(c) = k + 1
      /\ \A i \in 1 .. k + 1 : c[i] = IF i <= k THEN a[i] ELSE <<t>>[i - k]
  <2>1. /\ c \in Seq(S) /\ Len(c) = Len(a) + Len(<<t>>)
        /\ \A i \in 1 .. Len(a) + Len(<<t>>) : c[i] = IF i <= Len(a) THEN a[i] ELSE <<t>>[i - Len(a)]
    BY <1>2, <1>4, ConcatProperties, Zenon
  <2> QED
    BY <1>2, <1>4, <2>1, Zenon
<1> HIDE DEF c
<1>6. /\ r \in Seq(S) /\ Len(r) = (k + 1) + (n - k)
      /\ \A i \in 1 .. (k + 1) + (n - k) : r[i] = IF i <= k + 1 THEN c[i] ELSE b[i - (k + 1)]
  <2>1. /\ r \in Seq(S) /\ Len(r) = Len(c) + Len(b)
        /\ \A i \in 1 .. Len(c) + Len(b) : r[i] = IF i <= Len(c) THEN c[i] ELSE b[i - Len(c)]
    BY <1>3, <1>5, ConcatProperties, Zenon
  <2> QED
    BY <1>3, <1>5, <2>1, Zenon
<1> HIDE DEF r, n
<1>7. (k + 1) + (n - k) = n + 1
  BY <1>1
<1>8. ASSUME NEW i \in 1 .. n + 1
      PROVE  r[i] = IF i <= k THEN s[i] ELSE IF i = k + 1 THEN t ELSE s[i - 1]
  <2>1. CASE i <= k
    <3>1. i \in 1 .. k /\ i \in 1 .. k + 1 /\ i <= k + 1
      BY <1>1, <2>1
    <3> QED
      BY <1>2, <1>5, <1>6, <1>7, <2>1, <3>1
  <2>2. CASE i = k + 1
    BY <1>1, <1>4, <1>5, <1>6, <1>7, <2>2
  <2>3. CASE i > k + 1
    <3>1. i - (k + 1) \in 1 .. n - k /\ (i - (k + 1)) + k = i - 1 /\ ~ (i <= k + 1) /\ ~ (i <= k)
      BY <1>1, <2>3
    <3> QED
      BY <1>3, <1>6, <1>7, <2>3, <3>1
  <2> QED
    BY <1>1, <2>1, <2>2, <2>3
<1> QED
  <2>1. Len(r) = n + 1
    BY <1>6, <1>7
  <2>2. r \in Seq(S) /\ IsPut(r, s, t, k)
    BY <1>6, <1>8, <2>1 DEF IsPut, n
  <2> QED
    BY <2>2 DEF r, c, a, b, n

\* A task that is put among others is the only new member.
LEMMA InsertFacts ==
  ASSUME NEW S, NEW s \in Seq(S), Once(s), NEW t, ~ Contains(s, t),
         NEW k \in 0 .. Len(s), NEW r \in Seq(S), IsPut(r, s, t, k)
  PROVE  /\ Once(r)
         /\ \A u : Contains(r, u) <=> Contains(s, u) \/ u = t
<1>1. /\ Len(s) \in Nat /\ k \in Nat /\ k <= Len(s)
      /\ Len(r) = Len(s) + 1
      /\ \A i \in 1 .. Len(s) + 1 :
           r[i] = IF i <= k THEN s[i] ELSE IF i = k + 1 THEN t ELSE s[i - 1]
  BY DEF IsPut
<1>2. \A i \in 1 .. Len(s) : s[i] # t
  BY DEF Contains
<1>3. Once(r)
  <2> SUFFICES ASSUME NEW i \in 1 .. Len(s) + 1, NEW j \in 1 .. Len(s) + 1, r[i] = r[j]
               PROVE  i = j
    BY <1>1 DEF Once
  <2> DEFINE At(x) == IF x <= k THEN x ELSE x - 1
  <2>1. ASSUME NEW x \in 1 .. Len(s) + 1, x # k + 1
        PROVE  At(x) \in 1 .. Len(s) /\ r[x] = s[At(x)] /\ r[x] # t
    <3>1. CASE x <= k
      BY <1>1, <1>2, <3>1
    <3>2. CASE x > k + 1
      BY <1>1, <1>2, <3>2
    <3> QED
      BY <1>1, <2>1, <3>1, <3>2
  <2>2. r[k + 1] = t
    BY <1>1
  <2>3. CASE i # k + 1 /\ j # k + 1
    <3>1. At(i) = At(j)
      BY <2>1, <2>3 DEF Once
    <3> QED
      BY <1>1, <2>3, <3>1
  <2> QED
    BY <1>1, <2>1, <2>2, <2>3
<1>4. ASSUME NEW u, Contains(r, u) PROVE Contains(s, u) \/ u = t
  <2>1. PICK i \in 1 .. Len(s) + 1 : r[i] = u
    BY <1>1, <1>4 DEF Contains
  <2>2. CASE i <= k
    BY <1>1, <2>1, <2>2 DEF Contains
  <2>3. CASE i > k + 1
    <3>1. i - 1 \in 1 .. Len(s) /\ s[i - 1] = u
      BY <1>1, <2>1, <2>3
    <3> QED
      BY <3>1 DEF Contains
  <2>4. CASE i = k + 1
    BY <1>1, <2>1, <2>4
  <2> QED
    BY <1>1, <2>1, <2>2, <2>3, <2>4
<1>5. Contains(r, t)
  <2>1. k + 1 \in 1 .. Len(r) /\ r[k + 1] = t
    BY <1>1
  <2> QED
    BY <2>1 DEF Contains
<1>6. ASSUME NEW u, Contains(s, u) PROVE Contains(r, u)
  <2>1. PICK i \in 1 .. Len(s) : s[i] = u
    BY <1>6 DEF Contains
  <2>2. CASE i <= k
    <3>1. i \in 1 .. Len(r) /\ r[i] = u
      BY <1>1, <2>1, <2>2
    <3> QED
      BY <3>1 DEF Contains
  <2>3. CASE i > k
    <3>1. i + 1 \in 1 .. Len(r) /\ r[i + 1] = u
      BY <1>1, <2>1, <2>3
    <3> QED
      BY <3>1 DEF Contains
  <2> QED
    BY <1>1, <2>1, <2>2, <2>3
<1> QED
  BY <1>3, <1>4, <1>5, <1>6

\* The run queue takes a task at its end, and gives the one at its head.
LEMMA AppendFacts ==
  ASSUME NEW S, NEW s \in Seq(S), Once(s), NEW t \in S, ~ Contains(s, t),
         NEW r, r = Append(s, t)
  PROVE  /\ r \in Seq(S) /\ Once(r)
         /\ \A u : Contains(r, u) <=> Contains(s, u) \/ u = t
<1>1. /\ Len(s) \in Nat /\ r \in Seq(S) /\ Len(r) = Len(s) + 1
      /\ \A i \in 1 .. Len(s) : r[i] = s[i]
      /\ r[Len(s) + 1] = t
  OBVIOUS
<1>2. \A i \in 1 .. Len(s) : s[i] # t
  BY DEF Contains
<1>3. Once(r)
  BY <1>1, <1>2 DEF Once
<1>4. ASSUME NEW u PROVE Contains(r, u) <=> Contains(s, u) \/ u = t
  BY <1>1 DEF Contains
<1> QED
  BY <1>1, <1>3, <1>4

\* What is left of a queue without repetitions when its head is taken.
LEMMA HeadFacts ==
  ASSUME NEW S, NEW s \in Seq(S), Once(s), s # << >>,
         NEW h, h = Head(s), NEW r, r = Tail(s)
  PROVE  /\ h \in S /\ Contains(s, h)
         /\ r \in Seq(S) /\ Once(r)
         /\ \A u : Contains(r, u) <=> Contains(s, u) /\ u # h
<1>1. /\ Len(s) \in Nat /\ Len(s) > 0 /\ h = s[1] /\ h \in S
      /\ r \in Seq(S) /\ Len(r) = Len(s) - 1
      /\ \A i \in 1 .. Len(s) - 1 : r[i] = s[i + 1]
  OBVIOUS
<1>2. Contains(s, h)
  BY <1>1 DEF Contains
<1>3. Once(r)
  BY <1>1 DEF Once
<1>4. ASSUME NEW u, Contains(r, u) PROVE Contains(s, u) /\ u # h
  <2>1. PICK i \in 1 .. Len(s) - 1 : r[i] = u
    BY <1>1, <1>4 DEF Contains
  <2>2. i + 1 \in 1 .. Len(s) /\ s[i + 1] = u /\ i + 1 # 1
    BY <1>1, <2>1
  <2> QED
    BY <1>1, <2>2 DEF Contains, Once
<1>5. ASSUME NEW u, Contains(s, u), u # h PROVE Contains(r, u)
  <2>1. PICK i \in 1 .. Len(s) : s[i] = u
    BY <1>5 DEF Contains
  <2>2. i - 1 \in 1 .. Len(s) - 1 /\ r[i - 1] = u
    BY <1>1, <1>5, <2>1
  <2> QED
    BY <1>1, <2>2 DEF Contains
<1> QED
  BY <1>1, <1>2, <1>3, <1>4, <1>5

----------------------------------------------------------------------------
(* The invariant.  A task is queued at most once, the scan holds a queued  *)
(* timer, and whatever is queued is allocated.                             *)

TypeOK ==
  /\ now \in Tick /\ alive \subseteq Task
  /\ expire \in [Task -> Tick] /\ key \in [Task -> Tick]
  /\ timers \in Seq(Task) /\ rq \in Seq(Task)
Queues == Once(timers) /\ Once(rq)
Held ==
  /\ pc # "scan" => eb = None
  /\ eb = None \/ Contains(timers, eb)
NoFreedTask == \A t \in Task : task_in_wq(t) \/ task_in_rq(t) => t \in alive

SchedulerInv == TypeOK /\ Queues /\ Held /\ NoFreedTask /\ KeyMinorant /\ NoLostTimer

----------------------------------------------------------------------------
(* The operations on one task.                                             *)

\* Where eb32_insert() puts t: behind k nodes whose keys are not above, and
\* before one whose key is.
LEMMA PlaceAt ==
  ASSUME NEW s \in Seq(Task), NEW t \in Task, NEW date \in Tick,
         key \in [Task -> Tick], NEW r, r = eb32_insert(s, t, date)
  PROVE  \E k \in 0 .. Len(s) :
           /\ r \in Seq(Task) /\ IsPut(r, s, t, k)
           /\ \A i \in 1 .. k : key[s[i]] <= date
           /\ k < Len(s) => key[s[k + 1]] > date
<1> DEFINE gt == {j \in DOMAIN s : key[s[j]] > date}
           n  == Len(s)
<1>1. n \in Nat /\ DOMAIN s = 1 .. n /\ \A i \in 1 .. n : s[i] \in Task
  OBVIOUS
<1>2. date \in Int /\ \A i \in 1 .. n : key[s[i]] \in Int
  <2>1. N \in Nat
    BY TicksAssumption
  <2> HIDE DEF n
  <2> QED
    BY <1>1, <2>1 DEF Tick
<1>3. CASE gt = {}
  <2>1. r = Append(s, t)
    BY <1>3 DEF eb32_insert
  <2>2. /\ r \in Seq(Task) /\ Len(r) = n + 1
        /\ \A i \in 1 .. n : r[i] = s[i]
        /\ r[n + 1] = t
    BY <2>1
  <2> HIDE DEF n
  <2>3. IsPut(r, s, t, n)
    BY <1>1, <2>2 DEF IsPut, n
  <2>4. \A i \in 1 .. n : key[s[i]] <= date
    BY <1>1, <1>2, <1>3
  <2>5. n \in 0 .. n /\ ~ (n < n)
    BY <1>1
  <2> QED
    BY <2>2, <2>3, <2>4, <2>5 DEF n
<1>4. CASE gt # {}
  <2> DEFINE m == Min(gt)
  <2>1. m \in gt /\ \A x \in gt : m <= x
    <3>1. gt \subseteq Nat
      BY <1>1
    <3> HIDE DEF gt
    <3> QED
      BY <1>4, <3>1, MinFacts
  <2>2. r = InsertAt(s, m, t)
    BY <1>4 DEF eb32_insert
  <2> HIDE DEF m
  <2>3. m \in 1 .. n /\ key[s[m]] > date
    BY <1>1, <2>1
  <2>4. \A i \in 1 .. m - 1 : key[s[i]] <= date
    <3> SUFFICES ASSUME NEW i \in 1 .. m - 1 PROVE key[s[i]] <= date
      OBVIOUS
    <3>1. i \in 1 .. n /\ ~ (m <= i)
      BY <1>1, <2>3
    <3>2. i \notin gt
      BY <2>1, <3>1
    <3> QED
      BY <1>1, <1>2, <3>1, <3>2
  <2> HIDE DEF gt
  <2>5. m - 1 \in 0 .. n /\ (m - 1) + 1 = m
    <3> HIDE DEF n
    <3> QED
      BY <1>1, <2>3
  <2>6. r = SubSeq(s, 1, m - 1) \o <<t>> \o SubSeq(s, (m - 1) + 1, n)
    BY <2>2, <2>5 DEF InsertAt
  <2>7. r \in Seq(Task) /\ IsPut(r, s, t, m - 1)
    <3> DEFINE k == m - 1
    <3>1. k \in 0 .. Len(s) /\ r = SubSeq(s, 1, k) \o <<t>> \o SubSeq(s, k + 1, Len(s))
      BY <2>5, <2>6
    <3> HIDE DEF k
    <3>2. r \in Seq(Task) /\ IsPut(r, s, t, k)
      BY <3>1, PutFacts, Zenon
    <3> QED
      BY <3>2 DEF k
  <2> QED
    BY <2>3, <2>4, <2>5, <2>7
<1> QED
  BY <1>3, <1>4

\* __task_queue() puts t in the tree under date, and moves no other task.
LEMMA PlaceFacts ==
  ASSUME TypeOK, Queues, NEW t \in Task, NEW date \in Tick, __task_queue(t, date)
  PROVE  /\ timers' \in Seq(Task) /\ Once(timers')
         /\ \A u : Contains(timers', u) <=> Contains(timers, u) \/ u = t
         /\ key' = [key EXCEPT ![t] = date] /\ key' \in [Task -> Tick]
<1> DEFINE s == RemoveFirst(timers, t)
<1>1. /\ s \in Seq(Task) /\ Once(s)
      /\ \A u : Contains(s, u) <=> Contains(timers, u) /\ u # t
  BY RemoveFirstFacts DEF TypeOK, Queues
<1> HIDE DEF s
<1>2. timers' = eb32_insert(s, t, date)
  BY DEF __task_queue, s
<1>3. PICK k \in 0 .. Len(s) : timers' \in Seq(Task) /\ IsPut(timers', s, t, k)
  BY <1>1, <1>2, PlaceAt DEF TypeOK
<1>4. /\ Once(timers')
      /\ \A u : Contains(timers', u) <=> Contains(s, u) \/ u = t
  BY <1>1, <1>3, InsertFacts
<1>5. key' = [key EXCEPT ![t] = date] /\ key' \in [Task -> Tick]
  BY DEF __task_queue, TypeOK
<1> QED
  BY <1>1, <1>3, <1>4, <1>5

\* task_queue() gives t a place that is not after date.
LEMMA TaskQueueFacts ==
  ASSUME TypeOK, Queues, NEW t \in Task, NEW date \in Tick, tick_isset(date),
         task_queue(t, date)
  PROVE  /\ timers' \in Seq(Task) /\ Once(timers')
         /\ \A u : Contains(timers', u) <=> Contains(timers, u) \/ u = t
         /\ key' \in [Task -> Tick] /\ tick_is_le(key'[t], date)
         /\ \A u \in Task : u # t => key'[u] = key[u]
<1>1. CASE ~ task_in_wq(t) \/ tick_is_lt(date, key[t])
  <2>1. __task_queue(t, date)
    BY <1>1 DEF task_queue
  <2>2. key'[t] = date /\ \A u \in Task : u # t => key'[u] = key[u]
    BY <2>1, PlaceFacts DEF TypeOK
  <2> QED
    BY <2>1, <2>2, PlaceFacts DEF tick_is_le
<1>2. CASE ~ (~ task_in_wq(t) \/ tick_is_lt(date, key[t]))
  <2>1. timers' = timers /\ key' = key
    BY <1>2 DEF task_queue
  <2>2. Contains(timers, t) /\ key[t] \in Tick
    BY <1>2 DEF task_in_wq, TypeOK
  <2>3. tick_is_le(key[t], date)
    BY <1>2, <2>2, TickTotal
  <2> QED
    BY <2>1, <2>2, <2>3 DEF TypeOK, Queues
<1> QED
  BY <1>1, <1>2

\* __task_wakeup() puts a task into the run queue once.
LEMMA WakeupFacts ==
  ASSUME NEW s \in Seq(Task), Once(s), NEW t \in Task,
         NEW r, r = task_wakeup(s, t)
  PROVE  /\ r \in Seq(Task) /\ Once(r)
         /\ \A u : Contains(r, u) <=> Contains(s, u) \/ u = t
<1>1. CASE Contains(s, t)
  BY <1>1 DEF task_wakeup
<1>2. CASE ~ Contains(s, t)
  <2>1. r = Append(s, t)
    BY <1>2 DEF task_wakeup
  <2> QED
    BY <1>2, <2>1, AppendFacts
<1> QED
  BY <1>1, <1>2

\* The nodes the scan takes from the tree are queued.
LEMMA NextFacts ==
  ASSUME TypeOK, Queues, NEW t, Contains(timers, t)
  PROVE  eb32_next(t) = None \/ (Contains(timers, eb32_next(t)) /\ eb32_next(t) # t)
<1>1. Len(timers) \in Nat /\ DOMAIN timers = 1 .. Len(timers)
  BY DEF TypeOK
<1>2. PICK i \in 1 .. Len(timers) :
        timers[i] = t /\ i = CHOOSE j \in DOMAIN timers : timers[j] = t
  BY <1>1 DEF Contains
<1>3. eb32_next(t) = IF i = Len(timers) THEN None ELSE timers[i + 1]
  BY <1>2 DEF eb32_next
<1>4. CASE i # Len(timers)
  <2> DEFINE n == Len(timers)
  <2>0. n \in Nat /\ i \in 1 .. n /\ i # n
    BY <1>1, <1>4
  <2> HIDE DEF n
  <2>1. i + 1 \in 1 .. n /\ i + 1 # i
    BY <2>0
  <2>2. timers[i + 1] # t
    BY <1>2, <2>1 DEF Queues, Once, n
  <2> QED
    BY <1>3, <1>4, <2>1, <2>2 DEF Contains, n
<1> QED
  BY <1>3, <1>4

\* The first timer the scan of wake_expired_tasks() meets is a queued one.
LEMMA FirstFacts ==
  ASSUME TypeOK
  PROVE  /\ eb32_first = None \/ Contains(timers, eb32_first)
         /\ \A x : eb32_lookup_ge(x) = None \/ Contains(timers, eb32_lookup_ge(x))
<1>1. Len(timers) \in Nat /\ DOMAIN timers = 1 .. Len(timers)
  BY DEF TypeOK
<1>2. eb32_first = None \/ Contains(timers, eb32_first)
  <2>1. timers # << >> => 1 \in 1 .. Len(timers)
    BY DEF TypeOK
  <2> QED
    BY <2>1 DEF eb32_first, Contains
<1>3. ASSUME NEW x, eb32_lookup_ge(x) # None
      PROVE  Contains(timers, eb32_lookup_ge(x))
  <2> DEFINE ge == {j \in DOMAIN timers : key[timers[j]] >= x}
  <2>1. ge # {} /\ eb32_lookup_ge(x) = timers[Min(ge)]
    BY <1>3 DEF eb32_lookup_ge
  <2>2. ge \subseteq Nat
    BY <1>1
  <2>3. Min(ge) \in ge
    BY <2>1, <2>2, MinFacts
  <2>4. ge \subseteq 1 .. Len(timers)
    BY <1>1
  <2> HIDE DEF ge
  <2> QED
    BY <2>1, <2>3, <2>4 DEF Contains
<1> QED
  BY <1>2, <1>3

----------------------------------------------------------------------------
(* The steps of the scan.                                                  *)

\* What a step must show.
LEMMA StepFacts ==
  ASSUME now' \in Tick, alive' \subseteq Task,
         expire' \in [Task -> Tick], key' \in [Task -> Tick],
         timers' \in Seq(Task), Once(timers'), rq' \in Seq(Task), Once(rq'),
         pc' # "scan" => eb' = None,
         eb' = None \/ Contains(timers', eb'),
         \A t \in Task : Contains(timers', t) \/ Contains(rq', t) => t \in alive',
         \A t \in Task : Contains(timers', t) /\ tick_isset(expire'[t])
                           => tick_is_le(key'[t], expire'[t]),
         \A t \in alive' : tick_isset(expire'[t])
                             => Contains(timers', t) \/ Contains(rq', t)
  PROVE  SchedulerInv'
BY DEF SchedulerInv, TypeOK, Queues, Held, NoFreedTask, KeyMinorant, NoLostTimer,
       task_in_wq, task_in_rq

\* What a step may use.
LEMMA InvFacts ==
  ASSUME SchedulerInv
  PROVE  /\ TypeOK /\ Queues /\ Held
         /\ now \in Tick /\ alive \subseteq Task
         /\ expire \in [Task -> Tick] /\ key \in [Task -> Tick]
         /\ timers \in Seq(Task) /\ Once(timers) /\ rq \in Seq(Task) /\ Once(rq)
         /\ \A t \in Task : Contains(timers, t) \/ Contains(rq, t) => t \in alive
         /\ \A t \in Task : Contains(timers, t) /\ tick_isset(expire[t])
                              => tick_is_le(key[t], expire[t])
         /\ \A t \in alive : tick_isset(expire[t]) => Contains(timers, t) \/ Contains(rq, t)
BY DEF SchedulerInv, TypeOK, Queues, Held, NoFreedTask, KeyMinorant, NoLostTimer,
       task_in_wq, task_in_rq

\* The timer under the scan is queued, allocated and has a place.
LEMMA ScannedFacts ==
  ASSUME SchedulerInv, Due
  PROVE  /\ Scanned \in Task /\ Contains(timers, Scanned)
         /\ pc = "scan"
         /\ eb32_next(Scanned) = None
              \/ (Contains(timers, eb32_next(Scanned)) /\ eb32_next(Scanned) # Scanned)
<1>1. Contains(timers, Scanned)
  BY InvFacts, FirstFacts DEF Due, Scanned, Held
<1>2. Scanned \in Task
  BY <1>1, InvFacts DEF Contains
<1> QED
  BY <1>1, <1>2, InvFacts, NextFacts DEF Due

\* wake_expired_tasks() starts its scan.
LEMMA WakeStartStep == SchedulerInv /\ WakeStart => SchedulerInv'
<1> SUFFICES ASSUME SchedulerInv, WakeStart PROVE SchedulerInv'
  OBVIOUS
<1>1. eb' = None \/ Contains(timers, eb')
  BY InvFacts, FirstFacts DEF WakeStart
<1> QED
  BY <1>1, InvFacts, StepFacts DEF WakeStart

\* The scan wakes an expired task.
LEMMA WakeTaskStep == SchedulerInv /\ WakeTask => SchedulerInv'
<1> SUFFICES ASSUME SchedulerInv, WakeTask PROVE SchedulerInv'
  OBVIOUS
<1>0. Due
  BY DEF WakeTask
<1>1. PICK t \in Task : t = Scanned /\ Contains(timers, t)
  BY <1>0, ScannedFacts
<1>2. /\ timers' = RemoveFirst(timers, t) /\ rq' = task_wakeup(rq, t)
      /\ eb' = eb32_next(t) /\ pc' = pc /\ pc = "scan"
      /\ UNCHANGED <<now, alive, expire, key>>
  BY <1>0, <1>1, ScannedFacts DEF WakeTask
<1>3. /\ timers' \in Seq(Task) /\ Once(timers')
      /\ \A u : Contains(timers', u) <=> Contains(timers, u) /\ u # t
  BY <1>2, InvFacts, RemoveFirstFacts
<1>4. /\ rq' \in Seq(Task) /\ Once(rq')
      /\ \A u : Contains(rq', u) <=> Contains(rq, u) \/ u = t
  BY <1>2, InvFacts, WakeupFacts
<1>5. eb' = None \/ Contains(timers', eb')
  BY <1>0, <1>1, <1>2, <1>3, ScannedFacts
<1> QED
  BY <1>1, <1>2, <1>3, <1>4, <1>5, InvFacts, StepFacts

\* The scan takes a task whose date was cleared off the tree.
LEMMA DropTaskStep == SchedulerInv /\ DropTask => SchedulerInv'
<1> SUFFICES ASSUME SchedulerInv, DropTask PROVE SchedulerInv'
  OBVIOUS
<1>0. Due
  BY DEF DropTask
<1>1. PICK t \in Task : t = Scanned /\ Contains(timers, t)
  BY <1>0, ScannedFacts
<1>2. /\ timers' = RemoveFirst(timers, t) /\ ~ tick_isset(expire[t])
      /\ eb' = eb32_next(t) /\ pc' = pc /\ pc = "scan"
      /\ UNCHANGED <<now, alive, expire, key, rq>>
  BY <1>0, <1>1, ScannedFacts DEF DropTask
<1>3. /\ timers' \in Seq(Task) /\ Once(timers')
      /\ \A u : Contains(timers', u) <=> Contains(timers, u) /\ u # t
  BY <1>2, InvFacts, RemoveFirstFacts
<1>4. eb' = None \/ Contains(timers', eb')
  BY <1>0, <1>1, <1>2, <1>3, ScannedFacts
<1> QED
  BY <1>1, <1>2, <1>3, <1>4, InvFacts, StepFacts

\* The scan moves a task whose date is later than its place.
LEMMA MoveTaskStep == SchedulerInv /\ MoveTask => SchedulerInv'
<1> SUFFICES ASSUME SchedulerInv, MoveTask PROVE SchedulerInv'
  OBVIOUS
<1>0. Due
  BY DEF MoveTask
<1>1. PICK t \in Task : t = Scanned /\ Contains(timers, t)
  BY <1>0, ScannedFacts
<1>2. /\ __task_queue(t, expire[t]) /\ expire[t] \in Tick
      /\ eb' \in {t, eb32_next(t)} /\ (eb' = t \/ eb32_next(t) # None)
      /\ pc' = pc /\ pc = "scan"
      /\ UNCHANGED <<now, alive, expire, rq>>
  BY <1>0, <1>1, ScannedFacts, InvFacts DEF MoveTask, Requeue
<1>3. /\ timers' \in Seq(Task) /\ Once(timers')
      /\ \A u : Contains(timers', u) <=> Contains(timers, u) \/ u = t
      /\ key' = [key EXCEPT ![t] = expire[t]] /\ key' \in [Task -> Tick]
  BY <1>2, InvFacts, PlaceFacts
<1>4. eb' = None \/ Contains(timers', eb')
  BY <1>0, <1>1, <1>2, <1>3, ScannedFacts
<1>5. \A u \in Task : Contains(timers', u) /\ tick_isset(expire'[u])
                        => tick_is_le(key'[u], expire'[u])
  BY <1>2, <1>3, InvFacts DEF tick_is_le
<1> QED
  BY <1>1, <1>2, <1>3, <1>4, <1>5, InvFacts, StepFacts

----------------------------------------------------------------------------
(* The steps that run tasks.                                               *)

\* The date of t is set and t is queued under it: task_queue() after an
\* assignment to expire, in a callback or in process().
LEMMA SetDate ==
  ASSUME SchedulerInv, NEW t \in Task, NEW e \in Tick, tick_isset(e),
         expire' = [expire EXCEPT ![t] = e], task_queue(t, e),
         now' \in Tick, pc' = pc, eb' = eb, pc # "scan",
         alive' \subseteq Task, alive' = alive \cup {t},
         rq' \in Seq(Task), Once(rq'),
         \A u : u # t => (Contains(rq', u) <=> Contains(rq, u))
  PROVE  SchedulerInv'
<1>1. /\ timers' \in Seq(Task) /\ Once(timers')
      /\ \A u : Contains(timers', u) <=> Contains(timers, u) \/ u = t
      /\ key' \in [Task -> Tick] /\ tick_is_le(key'[t], e)
      /\ \A u \in Task : u # t => key'[u] = key[u]
  BY InvFacts, TaskQueueFacts
<1>2. expire' \in [Task -> Tick] /\ expire'[t] = e /\ \A u \in Task : u # t => expire'[u] = expire[u]
  BY InvFacts
<1>3. eb' = None /\ (pc' # "scan" => eb' = None)
  BY InvFacts DEF Held
<1>4. \A u \in Task : Contains(timers', u) \/ Contains(rq', u) => u \in alive'
  BY <1>1, InvFacts
<1>5. \A u \in Task : Contains(timers', u) /\ tick_isset(expire'[u])
                        => tick_is_le(key'[u], expire'[u])
  BY <1>1, <1>2, InvFacts
<1>6. \A u \in alive' : tick_isset(expire'[u]) => Contains(timers', u) \/ Contains(rq', u)
  BY <1>1, <1>2, InvFacts
<1> QED
  BY <1>1, <1>2, <1>3, <1>4, <1>5, <1>6, StepFacts

\* The task that runs is allocated and leaves the run queue.
LEMMA RunningFacts ==
  ASSUME SchedulerInv, Running
  PROVE  /\ Head(rq) \in Task /\ Head(rq) \in alive
         /\ Tail(rq) \in Seq(Task) /\ Once(Tail(rq))
         /\ \A u : Contains(Tail(rq), u) <=> Contains(rq, u) /\ u # Head(rq)
         /\ pc = "running" /\ eb = None
<1>1. rq # << >> /\ pc = "running" /\ eb = None
  BY InvFacts DEF Running, Held
<1>2. /\ Head(rq) \in Task /\ Contains(rq, Head(rq))
      /\ Tail(rq) \in Seq(Task) /\ Once(Tail(rq))
      /\ \A u : Contains(Tail(rq), u) <=> Contains(rq, u) /\ u # Head(rq)
  BY <1>1, InvFacts, HeadFacts
<1> QED
  BY <1>1, <1>2, InvFacts

\* process() may have woken up the task it ran.
LEMMA AfterRun ==
  ASSUME SchedulerInv, Running, NEW self \in BOOLEAN,
         rq' = IF self THEN task_wakeup(Tail(rq), Head(rq)) ELSE Tail(rq)
  PROVE  /\ rq' \in Seq(Task) /\ Once(rq')
         /\ \A u : u # Head(rq) => (Contains(rq', u) <=> Contains(rq, u))
<1>1. CASE self
  <2>1. rq' = task_wakeup(Tail(rq), Head(rq))
    BY <1>1
  <2> QED
    BY <2>1, RunningFacts, WakeupFacts
<1>2. CASE ~ self
  BY <1>2, RunningFacts
<1> QED
  BY <1>1, <1>2

\* process() returns with an expired date.
LEMMA RunAgainStep == SchedulerInv /\ RunAgain => SchedulerInv'
<1> SUFFICES ASSUME SchedulerInv, RunAgain PROVE SchedulerInv'
  OBVIOUS
<1>1. PICK d \in Timeouts, self \in BOOLEAN :
        /\ expire' = [expire EXCEPT ![Head(rq)] = tick_add(now, d)]
        /\ task_queue(Head(rq), tick_add(now, d))
        /\ rq' = IF self THEN task_wakeup(Tail(rq), Head(rq)) ELSE Tail(rq)
  BY DEF RunAgain
<1>2. /\ Running /\ UNCHANGED <<now, alive, pc, eb>>
  BY DEF RunAgain
<1>3. tick_add(now, d) \in Tick /\ tick_isset(tick_add(now, d))
  BY InvFacts, TickAdd
<1>4. /\ rq' \in Seq(Task) /\ Once(rq')
      /\ \A u : u # Head(rq) => (Contains(rq', u) <=> Contains(rq, u))
  BY <1>1, <1>2, AfterRun
<1>5. Head(rq) \in Task /\ alive \cup {Head(rq)} = alive /\ pc # "scan"
  BY <1>2, RunningFacts
<1> QED
  BY <1>1, <1>2, <1>3, <1>4, <1>5, InvFacts, SetDate

\* process() returns with a date to come, or none.
LEMMA RunSleepStep == SchedulerInv /\ RunSleep => SchedulerInv'
<1> SUFFICES ASSUME SchedulerInv, RunSleep PROVE SchedulerInv'
  OBVIOUS
<1>1. PICK self \in BOOLEAN :
        rq' = IF self THEN task_wakeup(Tail(rq), Head(rq)) ELSE Tail(rq)
  BY DEF RunSleep
<1>2. /\ Running /\ expire' = [expire EXCEPT ![Head(rq)] = TICK_ETERNITY]
      /\ UNCHANGED <<now, alive, key, timers, pc, eb>>
  BY DEF RunSleep
<1>3. /\ rq' \in Seq(Task) /\ Once(rq')
      /\ \A u : u # Head(rq) => (Contains(rq', u) <=> Contains(rq, u))
  BY <1>1, <1>2, AfterRun
<1>4. PICK t \in Task : t = Head(rq) /\ t \in alive /\ pc # "scan" /\ eb = None
  BY <1>2, RunningFacts
<1>5. TICK_ETERNITY \in Tick
  BY TicksAssumption DEF TICK_ETERNITY, Tick
<1>6. /\ expire' \in [Task -> Tick] /\ ~ tick_isset(expire'[t])
      /\ \A u \in Task : u # t => expire'[u] = expire[u]
  BY <1>2, <1>4, <1>5, InvFacts DEF tick_isset
<1>7. \A u \in Task : Contains(timers', u) \/ Contains(rq', u) => u \in alive'
  BY <1>2, <1>3, <1>4, InvFacts
<1>8. \A u \in alive' : tick_isset(expire'[u]) => Contains(timers', u) \/ Contains(rq', u)
  BY <1>2, <1>3, <1>4, <1>6, InvFacts
<1>9. \A u \in Task : Contains(timers', u) /\ tick_isset(expire'[u])
                        => tick_is_le(key'[u], expire'[u])
  BY <1>2, <1>6, InvFacts
<1> QED
  BY <1>2, <1>3, <1>4, <1>6, <1>7, <1>8, <1>9, InvFacts, StepFacts

\* A task that is freed leaves both queues.
LEMMA FreeTask ==
  ASSUME SchedulerInv, NEW t \in Task, alive' = alive \ {t},
         timers' = RemoveFirst(timers, t), rq' \in Seq(Task), Once(rq'),
         \A u : Contains(rq', u) <=> Contains(rq, u) /\ u # t,
         UNCHANGED <<now, expire, key, pc, eb>>, pc # "scan"
  PROVE  SchedulerInv'
<1>1. /\ timers' \in Seq(Task) /\ Once(timers')
      /\ \A u : Contains(timers', u) <=> Contains(timers, u) /\ u # t
  BY InvFacts, RemoveFirstFacts
<1>2. eb' = None
  BY InvFacts DEF Held
<1>3. \A u \in Task : Contains(timers', u) \/ Contains(rq', u) => u \in alive'
  BY <1>1, InvFacts
<1>4. \A u \in alive' : tick_isset(expire'[u]) => Contains(timers', u) \/ Contains(rq', u)
  BY <1>1, InvFacts
<1> QED
  BY <1>1, <1>2, <1>3, <1>4, InvFacts, StepFacts

\* process() frees its own task.
LEMMA RunGoneStep == SchedulerInv /\ RunGone => SchedulerInv'
<1> SUFFICES ASSUME SchedulerInv, RunGone PROVE SchedulerInv'
  OBVIOUS
<1>1. /\ Running /\ alive' = alive \ {Head(rq)} /\ timers' = RemoveFirst(timers, Head(rq))
      /\ rq' = Tail(rq) /\ UNCHANGED <<now, expire, key, pc, eb>>
  BY DEF RunGone
<1>2. pc # "scan"
  BY <1>1, RunningFacts
<1> QED
  BY <1>1, <1>2, RunningFacts, FreeTask

----------------------------------------------------------------------------
(* The callbacks.                                                          *)

\* A callback allocates a task, or changes a date without queueing.
LEMMA TaskNewStep ==
  ASSUME SchedulerInv, NEW t \in Task, NEW d \in Timeouts, TaskNew(t, d) \/ TaskSet(t, d)
  PROVE  SchedulerInv'
<1>1. tick_add(now, d) \in Tick /\ tick_isset(tick_add(now, d))
  BY InvFacts, TickAdd
<1>2. /\ pc = "events" /\ alive' = alive \cup {t}
      /\ expire' = [expire EXCEPT ![t] = tick_add(now, d)]
      /\ task_queue(t, tick_add(now, d))
      /\ UNCHANGED <<now, rq, pc, eb>>
  BY DEF TaskNew, TaskSet
<1> QED
  BY <1>1, <1>2, InvFacts, SetDate

\* A callback calls task_schedule().
LEMMA TaskScheduleStep ==
  ASSUME SchedulerInv, NEW t \in Task, NEW d \in Timeouts, task_schedule(t, d)
  PROVE  SchedulerInv'
<1> DEFINE when == tick_add(now, d)
           e == IF task_in_wq(t) THEN tick_first(when, expire[t]) ELSE when
<1>1. when \in Tick /\ tick_isset(when)
  BY InvFacts, TickAdd
<1>2. expire[t] \in Tick
  BY InvFacts
<1>3. e \in Tick /\ tick_isset(e)
  <2> HIDE DEF when
  <2> QED
    BY <1>1, <1>2 DEF tick_first
<1>4. /\ pc = "events" /\ t \in alive
      /\ expire' = [expire EXCEPT ![t] = e]
      /\ IF ~ task_in_wq(t) \/ tick_is_lt(e, key[t])
         THEN __task_queue(t, e) ELSE UNCHANGED <<timers, key>>
      /\ UNCHANGED <<now, alive, rq, pc, eb>>
  BY DEF task_schedule
<1> HIDE DEF e
<1>5. task_queue(t, e)
  BY <1>3, <1>4 DEF task_queue
<1>6. alive' = alive \cup {t}
  BY <1>4
<1> QED
  BY <1>3, <1>4, <1>5, <1>6, InvFacts, SetDate

\* A callback calls task_wakeup().
LEMMA TaskWakeupStep ==
  ASSUME SchedulerInv, NEW t \in Task, TaskWakeup(t)
  PROVE  SchedulerInv'
<1>1. /\ pc = "events" /\ t \in alive /\ rq' = task_wakeup(rq, t)
      /\ UNCHANGED <<now, alive, expire, key, timers, pc, eb>>
  BY DEF TaskWakeup
<1>2. /\ rq' \in Seq(Task) /\ Once(rq')
      /\ \A u : Contains(rq', u) <=> Contains(rq, u) \/ u = t
  BY <1>1, InvFacts, WakeupFacts
<1> QED
  BY <1>1, <1>2, InvFacts, StepFacts DEF Held

\* A callback deletes and frees a task.
LEMMA TaskDeleteStep ==
  ASSUME SchedulerInv, NEW t \in Task, TaskDelete(t)
  PROVE  SchedulerInv'
<1>1. /\ pc = "events" /\ alive' = alive \ {t}
      /\ timers' = RemoveFirst(timers, t) /\ rq' = RemoveFirst(rq, t)
      /\ UNCHANGED <<now, expire, key, pc, eb>>
  BY DEF TaskDelete
<1>2. /\ rq' \in Seq(Task) /\ Once(rq')
      /\ \A u : Contains(rq', u) <=> Contains(rq, u) /\ u # t
  BY <1>1, InvFacts, RemoveFirstFacts
<1> QED
  BY <1>1, <1>2, FreeTask

\* The steps that touch no task: the clock, and the turns of the loop.
LEMMA LoopStep ==
  ASSUME SchedulerInv, UNCHANGED <<alive, expire, key, timers, rq>>, now' \in Tick,
         pc' # "scan" => eb' = None, eb' \in {None, eb}
  PROVE  SchedulerInv'
BY InvFacts, StepFacts DEF Held

\* The clock advances while poll_do() sleeps.
LEMMA ClockStep ==
  ASSUME SchedulerInv, pc = "poll", Wait
  PROVE  SchedulerInv'
<1>1. PICK d \in 0 .. MaxAdvance : now' = (now + d) % N
  BY DEF Wait
<1>2. now' \in Tick
  <2>1. N \in Nat /\ N > 2 /\ now \in Nat /\ d \in Nat
    BY InvFacts, TicksAssumption, SchedulerAssumption DEF Tick
  <2> QED
    BY <1>1, <2>1 DEF Tick
<1> QED
  BY <1>2, InvFacts, LoopStep DEF Wait, Held

----------------------------------------------------------------------------
(* No sequence of scans, runs and callbacks queues a task twice, leaves a  *)
(* freed task queued, places a timer after its date or forgets one.        *)
THEOREM SchedulerInvariant == Spec => []SchedulerInv
<1>1. Init => SchedulerInv
  <2> SUFFICES ASSUME Init PROVE SchedulerInv
    OBVIOUS
  <2>1. 0 \in Tick
    BY TicksAssumption DEF Tick
  <2>2. /\ << >> \in Seq(Task) /\ Once(<< >>) /\ \A u : ~ Contains(<< >>, u)
    BY DEF Once, Contains
  <2> QED
    BY <2>1, <2>2 DEF Init, SchedulerInv, TypeOK, Queues, Held, NoFreedTask,
       KeyMinorant, NoLostTimer, task_in_wq, task_in_rq, TICK_ETERNITY
<1>2. SchedulerInv /\ [Next]_vars => SchedulerInv'
  <2> SUFFICES ASSUME SchedulerInv, [Next]_vars PROVE SchedulerInv'
    OBVIOUS
  <2>1. CASE WakeReturn \/ RunStart \/ RunEnd \/ PollReturn \/ UNCHANGED vars
    BY <2>1, InvFacts, LoopStep DEF WakeReturn, RunStart, RunEnd, PollReturn, vars, Held
  <2>2. CASE PollTimed \/ PollForever
    BY <2>2, ClockStep DEF PollTimed, PollForever
  <2>3. CASE Callback
    BY <2>3, TaskNewStep, TaskScheduleStep, TaskWakeupStep, TaskDeleteStep DEF Callback
  <2> QED
    BY <2>1, <2>2, <2>3, WakeStartStep, WakeTaskStep, DropTaskStep, MoveTaskStep,
       RunAgainStep, RunSleepStep, RunGoneStep DEF Next, Loop
<1> QED
  BY <1>1, <1>2, PTL DEF Spec

(* The place of a task in the tree is never after its date, however the    *)
(* date moves and wraps (task.h:78, task.c:80-112, task.h:200-231).        *)
THEOREM PlacesPrecedeDates == Spec => []KeyMinorant
<1>1. SchedulerInv => KeyMinorant
  BY DEF SchedulerInv
<1> QED
  BY <1>1, SchedulerInvariant, PTL

(* An allocated task with a date is in the tree or in the run queue        *)
(* (task.c:118-251).                                                       *)
THEOREM TimersKept == Spec => []NoLostTimer
<1>1. SchedulerInv => NoLostTimer
  BY DEF SchedulerInv
<1> QED
  BY <1>1, SchedulerInvariant, PTL

(* A queue of the scheduler holds no freed task (task.h:115-156,           *)
(* task.c:221-235).                                                        *)
THEOREM FreedTasksGone == Spec => []NoFreedTask
<1>1. SchedulerInv => NoFreedTask
  BY DEF SchedulerInv
<1> QED
  BY <1>1, SchedulerInvariant, PTL

----------------------------------------------------------------------------
(* The order of the tree and the scan over it.                             *)

\* u comes before v in s.
Before(s, u, v) == \E i, j \in 1 .. Len(s) : i < j /\ s[i] = u /\ s[j] = v

\* The tree is ordered by the unsigned keys.
Sorted == \A u, v \in Task : Before(timers, u, v) => key[u] <= key[v]

\* The scan is at c, between its start and the end of the tree: behind it are
\* only timers of the second pass, and any at the start itself.
FirstPass(c) ==
  /\ key[c] >= ScanFrom
  /\ \A u \in Task : Before(timers, u, c) => key[u] <= ScanFrom

\* The scan is at the beginning of the tree, and the first pass left nothing.
SecondPass(c) ==
  \A u \in Task : ~ Before(timers, u, c) /\ (Contains(timers, u) => key[u] <= ScanFrom)

\* The scan is at a task it has just moved across the wrap, and will stop there:
\* either it left others out, or the task is the first of the second pass.
Stopping(c) ==
  /\ tick_is_lt(now, key[c])
  /\ \/ hop = c
     \/ \A u \in Task : Contains(timers, u) => key[c] <= key[u] /\ key[u] <= ScanFrom

ScanOK ==
  pc = "scan" /\ Scanned # None =>
    FirstPass(Scanned) \/ SecondPass(Scanned) \/ Stopping(Scanned)

ScanInv == Sorted /\ ScanOK /\ WakeComplete

\* Two members of a queue are in some order, and in one only.
LEMMA BeforeTotal ==
  ASSUME NEW s \in Seq(Task), Once(s), NEW u, NEW v, Contains(s, u), Contains(s, v), u # v
  PROVE  (Before(s, u, v) \/ Before(s, v, u)) /\ ~ (Before(s, u, v) /\ Before(s, v, u))
<1>1. Len(s) \in Nat
  OBVIOUS
<1>2. PICK i \in 1 .. Len(s) : s[i] = u
  BY DEF Contains
<1>3. PICK j \in 1 .. Len(s) : s[j] = v
  BY DEF Contains
<1>4. i < j \/ j < i
  BY <1>1, <1>2, <1>3
<1>5. \A x, y \in 1 .. Len(s) : s[x] = u /\ s[y] = v => x = i /\ y = j
  BY <1>2, <1>3 DEF Once
<1>6. i < j => ~ (j < i)
  BY <1>1, <1>2, <1>3
<1> QED
  BY <1>2, <1>3, <1>4, <1>5, <1>6 DEF Before

\* Members in some order are members.
LEMMA BeforeMembers ==
  ASSUME NEW s \in Seq(Task), Once(s), NEW u, NEW v, Before(s, u, v)
  PROVE  Contains(s, u) /\ Contains(s, v) /\ u # v /\ u \in Task /\ v \in Task
<1>1. Len(s) \in Nat
  OBVIOUS
<1>2. PICK i, j \in 1 .. Len(s) : i < j /\ s[i] = u /\ s[j] = v
  BY DEF Before
<1>3. u # v
  BY <1>1, <1>2 DEF Once
<1> QED
  BY <1>2, <1>3 DEF Contains

\* Nothing comes before the first.
LEMMA FirstOrder ==
  ASSUME NEW s \in Seq(Task), Once(s), s # << >>
  PROVE  s[1] \in Task /\ Contains(s, s[1]) /\ \A u : ~ Before(s, u, s[1])
<1>1. Len(s) \in Nat /\ Len(s) >= 1
  OBVIOUS
<1>2. \A i, j \in 1 .. Len(s) : i < j /\ s[j] = s[1] => FALSE
  BY <1>1 DEF Once
<1> QED
  BY <1>1, <1>2 DEF Before, Contains

\* What the removal of a task does to the order of the others: nothing.
LEMMA RemoveOrder ==
  ASSUME NEW s \in Seq(Task), Once(s), NEW t, NEW r, r = RemoveFirst(s, t),
         NEW u, NEW v, Before(r, u, v)
  PROVE  Before(s, u, v) /\ u # t /\ v # t
<1>1. /\ r \in Seq(Task) /\ Once(r)
      /\ \A x : Contains(r, x) <=> Contains(s, x) /\ x # t
  BY RemoveFirstFacts
<1>2. u # t /\ v # t
  BY <1>1, BeforeMembers
<1>3. CASE ~ Contains(s, t)
  <2>1. r = s
    BY <1>3 DEF RemoveFirst, Contains
  <2> QED
    BY <1>2, <2>1
<1>4. CASE Contains(s, t)
  <2> DEFINE I == {i \in 1 .. Len(s) : s[i] = t}
             k == Min(I)
             n == Len(s)
  <2>0. n \in Nat
    OBVIOUS
  <2>1. k \in I
    <3>1. I \subseteq Nat /\ I # {}
      BY <1>4 DEF Contains
    <3> QED
      BY <3>1, MinFacts
  <2>2. r = RemoveAt(s, k)
    BY <1>4 DEF RemoveFirst, SelectInSeq, Contains
  <2>3. k \in 1 .. n
    BY <2>1
  <2> HIDE DEF k, I
  <2>4. Len(r) = n - 1 /\ \A i \in 1 .. n - 1 : r[i] = IF i < k THEN s[i] ELSE s[i + 1]
    <3>1. k \in 1 .. Len(s)
      BY <2>3
    <3>2. /\ RemoveAt(s, k) \in Seq(Task) /\ Len(RemoveAt(s, k)) = Len(s) - 1
          /\ \A i \in 1 .. Len(s) - 1 :
               RemoveAt(s, k)[i] = IF i < k THEN s[i] ELSE s[i + 1]
      BY <3>1, RemoveAtFacts
    <3> HIDE DEF n
    <3> QED
      BY <2>2, <3>2 DEF n
  <2>5. PICK i, j \in 1 .. Len(r) : i < j /\ r[i] = u /\ r[j] = v
    BY DEF Before
  <2> HIDE DEF n
  <2> DEFINE At(x) == IF x < k THEN x ELSE x + 1
  <2>6. At(i) \in 1 .. n /\ At(j) \in 1 .. n /\ At(i) < At(j)
    BY <2>0, <2>3, <2>4, <2>5
  <2>7. s[At(i)] = u /\ s[At(j)] = v
    BY <2>4, <2>5
  <2> HIDE DEF At
  <2> QED
    BY <1>2, <2>6, <2>7 DEF Before, n
<1> QED
  BY <1>3, <1>4

\* What __task_queue() does to the order: t comes behind the keys up to its
\* own and before the higher ones, the others stay.
LEMMA PlaceOrder ==
  ASSUME TypeOK, Queues, Sorted, NEW t \in Task, NEW date \in Tick, __task_queue(t, date),
         NEW u, NEW v, Before(timers', u, v)
  PROVE  \/ u # t /\ v # t /\ Before(timers, u, v)
         \/ u # t /\ v = t /\ Contains(timers, u) /\ key[u] <= date
         \/ u = t /\ v # t /\ Contains(timers, v) /\ key[v] > date
<1> DEFINE s == RemoveFirst(timers, t)
           n == Len(s)
<1>1. /\ s \in Seq(Task) /\ Once(s)
      /\ \A x : Contains(s, x) <=> Contains(timers, x) /\ x # t
  BY RemoveFirstFacts DEF TypeOK, Queues
<1>2. ASSUME NEW x, NEW y, Before(s, x, y) PROVE Before(timers, x, y)
  BY <1>2, RemoveOrder DEF TypeOK, Queues
<1> HIDE DEF s
<1>3. timers' = eb32_insert(s, t, date) /\ key \in [Task -> Tick]
  BY DEF __task_queue, s, TypeOK
<1>4. PICK k \in 0 .. n :
        /\ timers' \in Seq(Task) /\ IsPut(timers', s, t, k)
        /\ \A i \in 1 .. k : key[s[i]] <= date
        /\ k < n => key[s[k + 1]] > date
  BY <1>1, <1>3, PlaceAt
<1>5. n \in Nat /\ k \in Nat /\ k <= n /\ \A i \in 1 .. n : s[i] \in Task /\ s[i] # t /\ Contains(timers, s[i])
  <2>1. n \in Nat /\ \A i \in 1 .. n : s[i] \in Task /\ Contains(s, s[i])
    BY <1>1 DEF Contains
  <2> QED
    BY <1>1, <1>4, <2>1
<1>6. date \in Int /\ \A x \in Task : key[x] \in Int
  BY <1>3, TicksAssumption DEF Tick
<1> HIDE DEF n
<1>7. ASSUME NEW i \in 1 .. n, NEW j \in 1 .. n, i < j
      PROVE  Before(timers, s[i], s[j]) /\ key[s[i]] <= key[s[j]]
  <2>1. Before(s, s[i], s[j])
    BY <1>7 DEF Before, n
  <2> QED
    BY <1>2, <1>5, <2>1 DEF Sorted
<1>8. ASSUME NEW i \in 1 .. n, i > k PROVE key[s[i]] > date
  <2>1. k + 1 \in 1 .. n /\ k < n /\ (i = k + 1 \/ k + 1 < i)
    BY <1>5, <1>8
  <2>2. key[s[k + 1]] > date /\ key[s[k + 1]] \in Int /\ key[s[i]] \in Int
    BY <1>4, <1>5, <1>6, <2>1
  <2>3. CASE k + 1 < i
    BY <1>6, <1>7, <2>1, <2>2, <2>3
  <2> QED
    BY <2>1, <2>2, <2>3
<1>9. PICK i, j \in 1 .. n + 1 : i < j /\ timers'[i] = u /\ timers'[j] = v
  BY <1>4 DEF Before, IsPut, n
<1>10. \A x \in 1 .. n + 1 :
         timers'[x] = IF x <= k THEN s[x] ELSE IF x = k + 1 THEN t ELSE s[x - 1]
  BY <1>4 DEF IsPut, n
<1>11. CASE i # k + 1 /\ j # k + 1
  <2> DEFINE At(x) == IF x <= k THEN x ELSE x - 1
  <2>1. At(i) \in 1 .. n /\ At(j) \in 1 .. n /\ At(i) < At(j)
    BY <1>5, <1>9, <1>11
  <2>2. u = s[At(i)] /\ v = s[At(j)]
    BY <1>5, <1>9, <1>10, <1>11
  <2> HIDE DEF At
  <2> QED
    BY <1>5, <1>7, <2>1, <2>2
<1>12. CASE i = k + 1
  <2>1. j - 1 \in 1 .. n /\ j - 1 > k /\ ~ (j <= k) /\ j # k + 1 /\ ~ (i <= k)
    BY <1>5, <1>9, <1>12
  <2>2. u = t /\ v = s[j - 1]
    BY <1>9, <1>10, <1>12, <2>1
  <2> QED
    BY <1>5, <1>8, <2>1, <2>2
<1>13. CASE j = k + 1
  <2>1. i \in 1 .. k /\ i \in 1 .. n /\ i <= k /\ ~ (j <= k)
    BY <1>5, <1>9, <1>13
  <2>2. v = t /\ u = s[i]
    BY <1>9, <1>10, <1>13, <2>1
  <2> QED
    BY <1>4, <1>5, <2>1, <2>2
<1> QED
  BY <1>11, <1>12, <1>13

\* The node behind t: what comes before it is t or comes before t.
LEMMA NextOrder ==
  ASSUME TypeOK, Queues, NEW t \in Task, Contains(timers, t)
  PROVE  LET n == eb32_next(t)
         IN  /\ n = None => \A u : Contains(timers, u) /\ u # t => Before(timers, u, t)
             /\ n # None => /\ n \in Task /\ Contains(timers, n) /\ Before(timers, t, n)
                            /\ \A u : Before(timers, u, n) => u = t \/ Before(timers, u, t)
<1> DEFINE m == Len(timers)
           n == eb32_next(t)
<1>1. m \in Nat /\ DOMAIN timers = 1 .. m /\ \A j \in 1 .. m : timers[j] \in Task
  BY DEF TypeOK
<1>2. PICK i \in 1 .. m :
        timers[i] = t /\ i = CHOOSE j \in DOMAIN timers : timers[j] = t
  BY <1>1 DEF Contains
<1>3. n = IF i = m THEN None ELSE timers[i + 1]
  BY <1>2 DEF eb32_next
<1> HIDE DEF n
<1>4. \A j, l \in 1 .. m : timers[j] = timers[l] => j = l
  BY DEF Queues, Once
<1>5. CASE i = m
  <2>1. n = None
    BY <1>3, <1>5
  <2>2. ASSUME NEW u, Contains(timers, u), u # t PROVE Before(timers, u, t)
    <3>1. PICK j \in 1 .. m : timers[j] = u
      BY <2>2 DEF Contains
    <3> HIDE DEF m
    <3>2. j < i
      <4>1. j # i
        BY <1>2, <2>2, <3>1
      <4> QED
        BY <1>1, <1>5, <3>1, <4>1
    <3> QED
      BY <1>2, <3>1, <3>2 DEF Before, m
  <2>3. n # None => FALSE
    BY <2>1
  <2> QED
    BY <2>2, <2>3 DEF n
<1>6. CASE i # m
  <2> HIDE DEF m
  <2>1. i + 1 \in 1 .. m /\ i < i + 1 /\ n = timers[i + 1]
    BY <1>1, <1>2, <1>3, <1>6
  <2>2. n \in Task /\ n # None /\ Contains(timers, n) /\ Before(timers, t, n)
    BY <1>1, <1>2, <2>1, NoneAssumption DEF Before, Contains, m
  <2>3. ASSUME NEW u, Before(timers, u, n) PROVE u = t \/ Before(timers, u, t)
    <3>1. PICK j, l \in 1 .. m : j < l /\ timers[j] = u /\ timers[l] = n
      BY <2>3 DEF Before, m
    <3>2. l = i + 1
      BY <1>4, <2>1, <3>1
    <3>3. j = i \/ j < i
      BY <1>1, <1>2, <3>1, <3>2
    <3> QED
      BY <1>2, <3>1, <3>3 DEF Before, m
  <2> QED
    BY <2>2, <2>3 DEF n
<1> QED
  BY <1>5, <1>6

\* Where the scan starts: no timer before it has a key from x on.
LEMMA LookupOrder ==
  ASSUME TypeOK, Queues, NEW x \in Tick
  PROVE  LET c == eb32_lookup_ge(x)
         IN  /\ c = None => \A u \in Task : Contains(timers, u) => key[u] < x
             /\ c # None => /\ c \in Task /\ Contains(timers, c) /\ key[c] >= x
                            /\ \A u \in Task : Before(timers, u, c) => key[u] < x
<1> DEFINE ge == {j \in DOMAIN timers : key[timers[j]] >= x}
           c == eb32_lookup_ge(x)
           m == Len(timers)
<1>1. m \in Nat /\ DOMAIN timers = 1 .. m /\ \A j \in 1 .. m : timers[j] \in Task
  BY DEF TypeOK
<1>2. x \in Int /\ \A u \in Task : key[u] \in Int
  BY TicksAssumption DEF TypeOK, Tick
<1>3. c = IF ge = {} THEN None ELSE timers[Min(ge)]
  BY DEF eb32_lookup_ge
<1>4. \A j \in 1 .. m : j \in ge <=> key[timers[j]] >= x
  BY <1>1
<1>5. ge \subseteq Nat /\ ge \subseteq 1 .. m
  BY <1>1
<1> HIDE DEF c, ge, m
<1>6. CASE ge = {}
  <2>1. ASSUME NEW u \in Task, Contains(timers, u) PROVE key[u] < x
    <3>1. PICK j \in 1 .. m : timers[j] = u
      BY <2>1 DEF Contains, m
    <3> QED
      BY <1>2, <1>4, <1>6, <3>1
  <2>2. c = None
    BY <1>3, <1>6
  <2>3. c # None => FALSE
    BY <2>2
  <2> QED
    BY <2>1, <2>3 DEF c
<1>7. CASE ge # {}
  <2>1. Min(ge) \in ge /\ \A j \in ge : Min(ge) <= j
    BY <1>5, <1>7, MinFacts
  <2>2. PICK i \in 1 .. m : i = Min(ge)
    BY <1>5, <2>1
  <2>3. c = timers[i] /\ c \in Task /\ Contains(timers, c) /\ key[c] >= x
    BY <1>1, <1>3, <1>4, <1>7, <2>1, <2>2 DEF Contains, m
  <2>4. c # None
    BY <2>3, NoneAssumption
  <2>5. ASSUME NEW u \in Task, Before(timers, u, c) PROVE key[u] < x
    <3>1. PICK j, l \in 1 .. m : j < l /\ timers[j] = u /\ timers[l] = c
      BY <2>5 DEF Before, m
    <3>2. l = i
      BY <2>3, <3>1 DEF Queues, Once, m
    <3>3. ~ (i <= j)
      BY <1>1, <3>1, <3>2
    <3>4. j \notin ge
      BY <2>1, <2>2, <3>3
    <3> QED
      BY <1>2, <1>4, <3>1, <3>4
  <2> QED
    BY <2>3, <2>4, <2>5 DEF c
<1> QED
  BY <1>6, <1>7

\* The start of the scan and the future, without the wrap.
LEMMA ScanArithmetic ==
  ASSUME now \in Tick
  PROVE  /\ N \in Nat /\ Half \in Nat /\ N = 2 * Half /\ now \in 0 .. N - 1
         /\ ScanFrom \in Tick
         /\ ScanFrom = IF now >= Half THEN now - Half ELSE now + Half
         /\ \A k \in Tick :
              /\ k \in 0 .. N - 1
              /\ tick_is_lt(now, k) <=> (IF now >= k THEN now - k >= Half ELSE now - k + N >= Half)
<1>1. N \in Nat /\ N > 2 /\ N = 2 * Half /\ Half \in Nat
  BY TicksAssumption DEF Half
<1>2. now \in 0 .. N - 1 /\ \A k \in Tick : k \in 0 .. N - 1
  BY DEF Tick
<1> HIDE DEF Half
<1>3. Half \in Tick
  BY <1>1 DEF Tick
<1>4. (now - Half) % N = IF now >= Half THEN now - Half ELSE now - Half + N
  BY <1>3, TickDifference
<1>5. ScanFrom = IF now >= Half THEN now - Half ELSE now + Half
  BY <1>1, <1>2, <1>4 DEF ScanFrom
<1>6. ScanFrom \in Tick
  BY <1>1, <1>2, <1>5 DEF Tick
<1>7. ASSUME NEW k \in Tick
      PROVE  tick_is_lt(now, k) <=> (IF now >= k THEN now - k >= Half ELSE now - k + N >= Half)
  <2>1. (now - k) % N = IF now >= k THEN now - k ELSE now - k + N
    BY TickDifference
  <2> QED
    BY <2>1 DEF tick_is_lt
<1> QED
  BY <1>1, <1>2, <1>5, <1>6, <1>7

\* No step but those of the scan is followed by a scan.
LEMMA NoScan ==
  ASSUME pc' # "scan" PROVE ScanOK'
BY DEF ScanOK

\* At the end of the tree the second pass starts.
LEMMA AtEnd ==
  ASSUME now \in Tick, now' = now, eb' = None, timers' \in Seq(Task), Once(timers'),
         \A u \in Task : Contains(timers', u) => key'[u] <= ScanFrom
  PROVE  ScanOK'
<1>1. ScanFrom' = ScanFrom
  BY DEF ScanFrom
<1>2. CASE timers' = << >>
  BY <1>2 DEF ScanOK, Scanned, eb32_first
<1>3. CASE timers' # << >>
  <2>0. PICK c \in Task : c = timers'[1]
    BY <1>3, FirstOrder
  <2>1. Scanned' = c
    BY <1>3, <2>0 DEF Scanned, eb32_first
  <2>2. \A u : ~ Before(timers', u, c)
    BY <1>3, <2>0, FirstOrder
  <2>3. SecondPass(c)'
    BY <1>1, <2>2 DEF SecondPass
  <2> QED
    BY <2>1, <2>3 DEF ScanOK
<1> QED
  BY <1>2, <1>3

\* The scan is at a node.
LEMMA AtNode ==
  ASSUME NEW c \in Task, eb' = c, FirstPass(c)' \/ SecondPass(c)' \/ Stopping(c)'
  PROVE  ScanOK'
<1>1. Scanned' = c
  BY NoneAssumption DEF Scanned
<1> QED
  BY <1>1 DEF ScanOK

\* What the scan knows of a timer that is due.
LEMMA DueFacts ==
  ASSUME SchedulerInv, ScanOK, Due
  PROVE  /\ Scanned \in Task /\ Contains(timers, Scanned) /\ pc = "scan"
         /\ ~ tick_is_lt(now, key[Scanned]) /\ key[Scanned] \in Tick
         /\ FirstPass(Scanned) \/ SecondPass(Scanned)
<1>1. Scanned \in Task /\ Contains(timers, Scanned) /\ pc = "scan"
  BY ScannedFacts
<1>2. Scanned # None
  BY <1>1, NoneAssumption
<1>3. ~ tick_is_lt(now, key[Scanned])
  BY <1>2 DEF Due
<1>4. key[Scanned] \in Tick
  BY <1>1, InvFacts
<1> QED
  BY <1>1, <1>2, <1>3, <1>4 DEF ScanOK, Stopping

\* wake_expired_tasks() starts its scan half a range back.
LEMMA StartOK ==
  ASSUME SchedulerInv, WakeStart PROVE ScanOK'
<1> DEFINE c == eb32_lookup_ge(ScanFrom)
<1>1. TypeOK /\ Queues /\ now \in Tick /\ key \in [Task -> Tick] /\ timers \in Seq(Task) /\ Once(timers)
  BY InvFacts
<1>2. ScanFrom \in Tick
  BY <1>1, ScanArithmetic
<1>3. /\ c = None => \A u \in Task : Contains(timers, u) => key[u] < ScanFrom
      /\ c # None => /\ c \in Task /\ Contains(timers, c) /\ key[c] >= ScanFrom
                     /\ \A u \in Task : Before(timers, u, c) => key[u] < ScanFrom
  BY <1>1, <1>2, LookupOrder
<1>4. ScanFrom \in Int /\ \A u \in Task : key[u] \in Int
  BY <1>1, <1>2, TicksAssumption DEF Tick
<1>5. eb' = c /\ UNCHANGED <<now, key, timers>> /\ ScanFrom' = ScanFrom
  BY DEF WakeStart, ScanFrom
<1> HIDE DEF c
<1>6. CASE c = None
  <2>1. \A u \in Task : Contains(timers', u) => key'[u] <= ScanFrom
    BY <1>3, <1>4, <1>5, <1>6
  <2> QED
    BY <1>1, <1>5, <1>6, <2>1, AtEnd
<1>7. CASE c # None
  <2>0. PICK d \in Task : d = c
    BY <1>3, <1>7
  <2>1. key[d] >= ScanFrom /\ \A u \in Task : Before(timers, u, d) => key[u] <= ScanFrom
    BY <1>3, <1>4, <1>7, <2>0
  <2>2. FirstPass(d)'
    BY <1>5, <2>1 DEF FirstPass
  <2> QED
    BY <1>5, <2>0, <2>2, AtNode
<1> QED
  BY <1>6, <1>7

\* The scan takes a timer off the tree and goes on at the next one.
LEMMA UnlinkOK ==
  ASSUME SchedulerInv, Sorted, ScanOK, Due,
         timers' = RemoveFirst(timers, Scanned), eb' = eb32_next(Scanned),
         key' = key, now' = now
  PROVE  ScanOK'
<1>0. TypeOK /\ Queues /\ now \in Tick /\ key \in [Task -> Tick] /\ timers \in Seq(Task) /\ Once(timers)
  BY InvFacts
<1>1. PICK c \in Task : c = Scanned
  BY DueFacts
<1>2. Contains(timers, c) /\ (FirstPass(c) \/ SecondPass(c))
  BY <1>1, DueFacts
<1> DEFINE n == eb32_next(c)
<1>3. /\ n = None => \A u : Contains(timers, u) /\ u # c => Before(timers, u, c)
      /\ n # None => /\ n \in Task /\ Contains(timers, n) /\ Before(timers, c, n)
                     /\ \A u : Before(timers, u, n) => u = c \/ Before(timers, u, c)
  BY <1>0, <1>2, NextOrder
<1>4. /\ timers' \in Seq(Task) /\ Once(timers')
      /\ \A u : Contains(timers', u) <=> Contains(timers, u) /\ u # c
  BY <1>0, <1>1, RemoveFirstFacts
<1>5. ASSUME NEW u, NEW v, Before(timers', u, v) PROVE Before(timers, u, v) /\ u # c /\ v # c
  BY <1>0, <1>1, <1>5, RemoveOrder
<1>6. eb' = n /\ ScanFrom' = ScanFrom
  BY <1>1 DEF ScanFrom
<1> HIDE DEF n
<1>7. ScanFrom \in Int /\ \A u \in Task : key[u] \in Int
  BY <1>0, ScanArithmetic, TicksAssumption DEF Tick
<1>8. CASE n = None
  <2>1. \A u \in Task : Contains(timers', u) => key'[u] <= ScanFrom
    BY <1>2, <1>3, <1>4, <1>8 DEF FirstPass, SecondPass
  <2> QED
    BY <1>0, <1>4, <1>6, <1>8, <2>1, AtEnd
<1>9. CASE n # None
  <2>0. PICK d \in Task : d = n
    BY <1>3, <1>9
  <2>1. \A u : Before(timers', u, d) => Before(timers, u, c)
    BY <1>3, <1>5, <1>9, <2>0
  <2>2. CASE FirstPass(c)
    <3>1. key[c] >= ScanFrom /\ key[c] <= key[d]
      BY <1>3, <1>9, <2>0, <2>2 DEF FirstPass, Sorted
    <3>2. key[d] >= ScanFrom
      BY <1>7, <3>1
    <3>3. \A u \in Task : Before(timers', u, d) => key[u] <= ScanFrom
      BY <2>1, <2>2 DEF FirstPass
    <3>4. FirstPass(d)'
      BY <1>6, <3>2, <3>3 DEF FirstPass
    <3> QED
      BY <1>6, <2>0, <3>4, AtNode
  <2>3. CASE SecondPass(c)
    <3>1. SecondPass(d)'
      BY <1>4, <1>6, <2>1, <2>3 DEF SecondPass
    <3> QED
      BY <1>6, <2>0, <3>1, AtNode
  <2> QED
    BY <1>2, <2>2, <2>3
<1> QED
  BY <1>8, <1>9

\* The scan moves a task to its date, and goes on at the next timer or at the
\* task itself.
LEMMA MoveOK ==
  ASSUME SchedulerInv, Sorted, ScanOK, MoveTask PROVE ScanOK'
<1>0. /\ TypeOK /\ Queues /\ now \in Tick /\ key \in [Task -> Tick] /\ expire \in [Task -> Tick]
      /\ timers \in Seq(Task) /\ Once(timers)
  BY InvFacts
<1>a. Due
  BY DEF MoveTask
<1>1. PICK c \in Task : c = Scanned
  BY <1>a, DueFacts
<1>2. /\ Contains(timers, c) /\ (FirstPass(c) \/ SecondPass(c))
      /\ ~ tick_is_lt(now, key[c]) /\ key[c] \in Tick
  BY <1>1, <1>a, DueFacts
<1> DEFINE n == eb32_next(c)
           e == expire[c]
<1>3. /\ n = None => \A u : Contains(timers, u) /\ u # c => Before(timers, u, c)
      /\ n # None => /\ n \in Task /\ Contains(timers, n) /\ Before(timers, c, n)
                     /\ \A u : Before(timers, u, n) => u = c \/ Before(timers, u, c)
  BY <1>0, <1>2, NextOrder
<1>4. /\ __task_queue(c, e) /\ e \in Tick
      /\ eb' = (IF n = None \/ key[n] > e THEN c ELSE n)
      /\ now' = now /\ expire' = expire /\ ScanFrom' = ScanFrom
  BY <1>0, <1>1 DEF MoveTask, Requeue, ScanFrom
<1>5. tick_is_lt(now, e)
  <2>1. ~ tick_is_expired(e, now) /\ tick_isset(e)
    BY <1>1 DEF MoveTask
  <2>2. ~ tick_is_le(e, now)
    BY <2>1 DEF tick_is_expired
  <2> QED
    BY <1>0, <1>4, <2>2, TickTotal
<1>6. /\ key' = [key EXCEPT ![c] = e]
      /\ \A u : Contains(timers', u) <=> Contains(timers, u) \/ u = c
  BY <1>0, <1>4, PlaceFacts
<1>7. key'[c] = e /\ \A u \in Task : u # c => key'[u] = key[u]
  BY <1>0, <1>6
<1>8. ASSUME NEW u, NEW v, Before(timers', u, v)
      PROVE  \/ u # c /\ v # c /\ Before(timers, u, v)
             \/ u # c /\ v = c /\ Contains(timers, u) /\ key[u] <= e
             \/ u = c /\ v # c /\ Contains(timers, v) /\ key[v] > e
  BY <1>0, <1>4, <1>8, PlaceOrder
<1> HIDE DEF n, e
<1>9. /\ N \in Nat /\ Half \in Nat /\ N = 2 * Half /\ now \in 0 .. N - 1
      /\ ScanFrom = IF now >= Half THEN now - Half ELSE now + Half
      /\ e \in 0 .. N - 1 /\ key[c] \in 0 .. N - 1
      /\ IF now >= e THEN now - e >= Half ELSE now - e + N >= Half
      /\ ~ (IF now >= key[c] THEN now - key[c] >= Half ELSE now - key[c] + N >= Half)
  BY <1>0, <1>2, <1>4, <1>5, ScanArithmetic
<1>10. ScanFrom \in Int /\ e \in Int /\ \A u \in Task : key[u] \in Int
  BY <1>0, <1>4, ScanArithmetic, TicksAssumption DEF Tick
<1>11. key[c] # ScanFrom
  BY <1>9
<1>12. SecondPass(c) => e <= ScanFrom
  <2>1. SecondPass(c) => key[c] <= ScanFrom
    BY <1>2 DEF SecondPass
  <2> QED
    BY <1>9, <1>11, <2>1
<1>13. CASE n # None /\ ~ (key[n] > e)
  <2>0. PICK d \in Task : d = n
    BY <1>3, <1>13
  <2>1. eb' = d /\ Before(timers, c, d) /\ d # c
    BY <1>0, <1>3, <1>4, <1>13, <2>0, BeforeMembers
  <2>2. ASSUME NEW u, Before(timers', u, d) PROVE u # c /\ Before(timers, u, c)
    BY <1>3, <1>8, <1>10, <1>13, <2>0, <2>1, <2>2
  <2>3. CASE FirstPass(c)
    <3>1. key[c] >= ScanFrom /\ key[c] <= key[d]
      BY <2>1, <2>3 DEF FirstPass, Sorted
    <3>2. key'[d] >= ScanFrom
      BY <1>7, <1>10, <2>1, <3>1
    <3>3. \A u \in Task : Before(timers', u, d) => key'[u] <= ScanFrom
      BY <1>7, <2>2, <2>3 DEF FirstPass
    <3>4. FirstPass(d)'
      BY <1>4, <3>2, <3>3 DEF FirstPass
    <3> QED
      BY <2>1, <3>4, AtNode
  <2>4. CASE SecondPass(c)
    <3>1. \A u \in Task : ~ Before(timers', u, d)
      BY <2>2, <2>4 DEF SecondPass
    <3>2. \A u \in Task : Contains(timers', u) => key'[u] <= ScanFrom
      BY <1>6, <1>7, <1>12, <2>4 DEF SecondPass
    <3>3. SecondPass(d)'
      BY <1>4, <3>1, <3>2 DEF SecondPass
    <3> QED
      BY <2>1, <3>3, AtNode
  <2> QED
    BY <1>2, <2>3, <2>4
<1>14. CASE n = None \/ key[n] > e
  <2>1. eb' = c
    BY <1>4, <1>14
  \* What is before c now was before it already.
  <2>2. ASSUME NEW u \in Task, Before(timers', u, c) PROVE u # c /\ Before(timers, u, c)
    <3>1. u # c /\ Contains(timers, u) /\ key[u] <= e
      BY <1>8, <2>2
    <3>2. CASE n = None
      BY <1>3, <3>1, <3>2
    <3>3. CASE n # None
      <4>1. n \in Task /\ Contains(timers, n) /\ key[n] > e
        BY <1>3, <1>14, <3>3
      <4>2. u # n /\ ~ Before(timers, n, u)
        BY <1>10, <3>1, <4>1 DEF Sorted
      <4>3. Before(timers, u, n)
        BY <1>0, <3>1, <4>1, <4>2, BeforeTotal
      <4> QED
        BY <1>3, <3>1, <3>3, <4>3
    <3> QED
      BY <3>2, <3>3
  <2>3. CASE FirstPass(c)
    <3>1. CASE e >= ScanFrom
      <4>1. \A u \in Task : Before(timers', u, c) => key'[u] <= ScanFrom
        BY <1>7, <2>2, <2>3 DEF FirstPass
      <4>2. FirstPass(c)'
        BY <1>4, <1>7, <3>1, <4>1 DEF FirstPass
      <4> QED
        BY <2>1, <4>2, AtNode
    <3>2. CASE e < ScanFrom
      <4>1. tick_is_lt(now, key[c])'
        BY <1>4, <1>5, <1>7 DEF tick_is_lt
      <4>2. /\ hop' = IF Comes(Behind(c), e) THEN c ELSE None
            /\ Behind(c) = IF n # None THEN n
                           ELSE IF RemoveFirst(timers, c) = << >> THEN None
                                ELSE RemoveFirst(timers, c)[1]
        BY <1>1, <1>14 DEF MoveTask, Behind, n, e
      \* How far from the start of the scan a place is.
      <4>3. ASSUME NEW b \in Task, Behind(c) = b
            PROVE  /\ key[b] >= ScanFrom \/ key[b] < e => hop' = c
        <5>1. /\ key[b] \in Tick /\ key[b] \in 0 .. N - 1 /\ ScanFrom \in Tick
          BY <1>0, ScanArithmetic
        <5>2. /\ (key[b] - ScanFrom) % N
                   = IF key[b] >= ScanFrom THEN key[b] - ScanFrom ELSE key[b] - ScanFrom + N
              /\ (e - ScanFrom) % N
                   = IF e >= ScanFrom THEN e - ScanFrom ELSE e - ScanFrom + N
          BY <1>4, <5>1, TickDifference
        <5>3. Comes(b, e) <=> (key[b] - ScanFrom) % N < (e - ScanFrom) % N
          BY NoneAssumption DEF Comes, FromStart
        <5>4. ScanFrom \in 0 .. N - 1
          BY <1>9
        <5>5. key[b] >= ScanFrom \/ key[b] < e => Comes(b, e)
          BY <1>9, <3>2, <5>1, <5>2, <5>3, <5>4
        <5> QED
          BY <4>2, <4>3, <5>5
      <4>4. CASE n # None
        <5>1. PICK b \in Task : b = n
          BY <1>3, <4>4
        <5>2. key[b] >= key[c] /\ key[c] >= ScanFrom
          BY <1>3, <2>3, <4>4, <5>1 DEF Sorted, FirstPass
        <5>3. key[b] >= ScanFrom
          BY <1>10, <5>2
        <5>4. hop' = c
          BY <4>2, <4>3, <4>4, <5>1, <5>3
        <5>5. Stopping(c)'
          BY <4>1, <5>4 DEF Stopping
        <5> QED
          BY <2>1, <5>5, AtNode
      <4>5. CASE n = None
        <5> DEFINE others == RemoveFirst(timers, c)
        <5>1. /\ others \in Seq(Task) /\ Once(others)
              /\ \A u : Contains(others, u) <=> Contains(timers, u) /\ u # c
          BY <1>0, RemoveFirstFacts
        <5>2. \A u : Contains(timers', u) => u = c \/ Contains(others, u)
          BY <1>6, <5>1
        <5>3. \A u \in Task : Contains(others, u) => u # c /\ key[u] <= ScanFrom
          BY <1>3, <2>3, <4>5, <5>1 DEF FirstPass
        <5>4. Behind(c) = IF others = << >> THEN None ELSE others[1]
          BY <4>2, <4>5
        <5> HIDE DEF others
        <5>5. CASE others = << >>
          <6>1. \A u : ~ Contains(others, u)
            BY <5>5 DEF Contains
          <6>2. \A u \in Task : Contains(timers', u) => u = c
            BY <5>2, <6>1
          <6>3. \A u \in Task : Contains(timers', u) => key'[c] <= key'[u] /\ key'[u] <= ScanFrom'
            BY <1>4, <1>7, <1>10, <3>2, <6>2
          <6>4. Stopping(c)'
            BY <4>1, <6>3 DEF Stopping
          <6> QED
            BY <2>1, <6>4, AtNode
        <5>6. CASE others # << >>
          <6>1. PICK b \in Task : /\ b = others[1] /\ Contains(others, b)
                                  /\ \A u : ~ Before(others, u, b)
            BY <5>1, <5>6, FirstOrder
          <6>2. Behind(c) = b
            BY <5>4, <5>6, <6>1
          <6>3. CASE key[b] >= ScanFrom \/ key[b] < e
            <7>1. hop' = c
              BY <4>3, <6>2, <6>3
            <7>2. Stopping(c)'
              BY <4>1, <7>1 DEF Stopping
            <7> QED
              BY <2>1, <7>2, AtNode
          <6>4. CASE ~ (key[b] >= ScanFrom \/ key[b] < e)
            <7>1. ASSUME NEW u \in Task, Contains(others, u)
                  PROVE  key[b] <= key[u]
              <8>1. CASE u = b
                BY <1>10, <8>1
              <8>2. CASE u # b
                <9>1. Before(others, b, u)
                  BY <5>1, <6>1, <7>1, <8>2, BeforeTotal
                <9>2. Before(timers, b, u)
                  BY <1>0, <9>1, RemoveOrder DEF others
                <9> QED
                  BY <9>2 DEF Sorted
              <8> QED
                BY <8>1, <8>2
            <7>2. \A u \in Task : Contains(timers', u) => key'[c] <= key'[u] /\ key'[u] <= ScanFrom'
              BY <1>4, <1>7, <1>10, <3>2, <5>2, <5>3, <6>4, <7>1
            <7>3. Stopping(c)'
              BY <4>1, <7>2 DEF Stopping
            <7> QED
              BY <2>1, <7>3, AtNode
          <6> QED
            BY <6>3, <6>4
        <5> QED
          BY <5>5, <5>6
      <4> QED
        BY <4>4, <4>5
    <3> QED
      BY <1>10, <3>1, <3>2
  <2>4. CASE SecondPass(c)
    <3>1. \A u \in Task : ~ Before(timers', u, c)
      BY <2>2, <2>4 DEF SecondPass
    <3>2. \A u \in Task : Contains(timers', u) => key'[u] <= ScanFrom
      BY <1>6, <1>7, <1>12, <2>4 DEF SecondPass
    <3>3. SecondPass(c)'
      BY <1>4, <3>1, <3>2 DEF SecondPass
    <3> QED
      BY <2>1, <3>3, AtNode
  <2> QED
    BY <1>2, <2>3, <2>4
<1> QED
  BY <1>13, <1>14

\* The comparison of ticks, without the wrap.
LEMMA TickOrder ==
  ASSUME NEW t1 \in Tick, NEW t2 \in Tick
  PROVE  tick_is_le(t1, t2)
           <=> t1 = t2 \/ (IF t1 >= t2 THEN t1 - t2 >= Half ELSE t1 - t2 + N >= Half)
<1>1. (t1 - t2) % N = IF t1 >= t2 THEN t1 - t2 ELSE t1 - t2 + N
  BY TickDifference
<1> QED
  BY <1>1 DEF tick_is_le, tick_is_lt

\* The scan stops: the date it returns.
LEMMA ReturnOK ==
  ASSUME SchedulerInv, Sorted, ScanOK, WakeReturn PROVE WakeComplete'
<1>0. /\ TypeOK /\ Queues /\ now \in Tick /\ key \in [Task -> Tick]
      /\ timers \in Seq(Task) /\ Once(timers)
  BY InvFacts
<1>1. /\ pc = "scan" /\ ~ Due
      /\ next' = IF Scanned = None THEN TICK_ETERNITY ELSE key[Scanned]
      /\ UNCHANGED <<now, expire, key, timers, hop>> /\ ScanFrom' = ScanFrom
  BY DEF WakeReturn, ScanFrom
<1>2. CASE Scanned = None
  <2>1. timers = << >>
    <3>1. timers # << >> => eb32_first \in Task
      BY <1>0, FirstOrder DEF eb32_first
    <3>2. eb32_first = None
      BY <1>2 DEF Scanned
    <3> QED
      BY <3>1, <3>2, NoneAssumption
  <2> QED
    BY <1>1, <1>2, <2>1 DEF WakeComplete
<1>3. CASE Scanned # None
  <2>1. Contains(timers, Scanned)
    BY <1>3, InvFacts, FirstFacts DEF Scanned, Held
  <2>2. PICK i \in DOMAIN timers : timers[i] = Scanned
    BY <1>0, <2>1 DEF Contains
  <2>3. PICK c \in Task : c = Scanned /\ Contains(timers, c)
    BY <1>0, <2>1, <2>2
  <2>4. tick_is_lt(now, key[c]) /\ next' = key[c]
    BY <1>1, <1>3, <2>3 DEF Due
  <2>5. FirstPass(c) \/ SecondPass(c) \/ Stopping(c)
    BY <1>1, <1>3, <2>3 DEF ScanOK
  <2>6. /\ N \in Nat /\ Half \in Nat /\ N = 2 * Half /\ now \in 0 .. N - 1
        /\ ScanFrom = IF now >= Half THEN now - Half ELSE now + Half
        /\ key[c] \in 0 .. N - 1
        /\ IF now >= key[c] THEN now - key[c] >= Half ELSE now - key[c] + N >= Half
    BY <1>0, <2>4, ScanArithmetic
  <2>7. ASSUME NEW u \in Task, Contains(timers, u), key[c] # ScanFrom, hop # c
        PROVE  tick_is_lt(now, key[u]) /\ Ahead(key[c]) <= Ahead(key[u])
    <3>1. /\ key[u] \in 0 .. N - 1 /\ key[c] \in Tick /\ key[u] \in Tick
      BY <1>0, ScanArithmetic
    <3>2. u # c /\ ~ Before(timers, u, c) => key[c] <= key[u]
      BY <1>0, <2>3, <2>7, BeforeTotal DEF Sorted
    <3>3. /\ Ahead(key[c]) = IF key[c] >= now THEN key[c] - now ELSE key[c] - now + N
          /\ Ahead(key[u]) = IF key[u] >= now THEN key[u] - now ELSE key[u] - now + N
          /\ tick_is_lt(now, key[u])
               <=> IF now >= key[u] THEN now - key[u] >= Half ELSE now - key[u] + N >= Half
      BY <1>0, <3>1, TickDifference, ScanArithmetic DEF Ahead
    <3>4. CASE FirstPass(c)
      <4>1. key[c] >= ScanFrom
        BY <3>4 DEF FirstPass
      <4>2. CASE Before(timers, u, c)
        <5>1. key[u] <= ScanFrom
          BY <3>4, <4>2 DEF FirstPass
        <5> QED
          BY <2>6, <2>7, <3>1, <3>3, <4>1, <5>1
      <4>3. CASE ~ Before(timers, u, c)
        <5>1. u = c \/ key[c] <= key[u]
          BY <3>2, <4>3
        <5>2. key[c] <= key[u]
          BY <2>6, <5>1
        <5> QED
          BY <2>6, <2>7, <3>1, <3>3, <4>1, <5>2
      <4> QED
        BY <4>2, <4>3
    <3>5. ASSUME key[u] <= ScanFrom, key[c] <= ScanFrom, u = c \/ key[c] <= key[u]
          PROVE  tick_is_lt(now, key[u]) /\ Ahead(key[c]) <= Ahead(key[u])
      <4>1. key[c] <= key[u]
        BY <2>6, <3>5
      <4> QED
        BY <2>6, <2>7, <3>1, <3>3, <3>5, <4>1
    <3>6. CASE SecondPass(c)
      BY <2>3, <2>7, <3>2, <3>5, <3>6 DEF SecondPass
    <3>7. CASE Stopping(c)
      BY <2>3, <2>7, <3>5, <3>7 DEF Stopping
    <3> QED
      BY <2>5, <3>4, <3>6, <3>7
  <2>8. \A j \in DOMAIN timers : timers[j] \in Task /\ Contains(timers, timers[j])
    BY <1>0 DEF Contains
  <2>9. key[c] = ScanFrom => Ahead(key[c]) = Half
    <3>1. (key[c] - now) % N = IF key[c] >= now THEN key[c] - now ELSE key[c] - now + N
      BY <1>0, TickDifference
    <3> QED
      BY <2>6, <3>1 DEF Ahead
  <2>10. \/ \A j \in DOMAIN timers :
               tick_is_lt(now, key[timers[j]]) /\ Ahead(key[c]) <= Ahead(key[timers[j]])
         \/ hop = c
         \/ Ahead(key[c]) = Half
    BY <2>7, <2>8, <2>9
  <2>11. /\ timers' = timers /\ key' = key /\ now' = now /\ hop' = hop
         /\ next' = key[timers[i]] /\ c = timers[i] /\ timers # << >>
    BY <1>1, <2>2, <2>3, <2>4
  <2>12. /\ tick_is_lt(now, next)' <=> tick_is_lt(now, key[c])
         /\ \A x : Ahead(x)' = Ahead(x)
         /\ \A j \in DOMAIN timers :
              tick_is_lt(now, key[timers[j]])' <=> tick_is_lt(now, key[timers[j]])
    BY <2>4, <2>11 DEF tick_is_lt, Ahead
  <2> QED
    BY <2>2, <2>4, <2>10, <2>11, <2>12 DEF WakeComplete, Ahead, tick_is_lt
<1> QED
  BY <1>2, <1>3

\* A removal keeps the order of the tree.
LEMMA RemoveSorted ==
  ASSUME SchedulerInv, Sorted, NEW t, timers' = RemoveFirst(timers, t), key' = key
  PROVE  Sorted'
<1>1. timers \in Seq(Task) /\ Once(timers)
  BY InvFacts
<1>2. \A u, v : Before(timers', u, v) => Before(timers, u, v)
  BY <1>1, RemoveOrder
<1> QED
  BY <1>2 DEF Sorted

\* __task_queue() keeps the order of the tree.
LEMMA PlaceSorted ==
  ASSUME SchedulerInv, Sorted, NEW t \in Task, NEW date \in Tick, __task_queue(t, date)
  PROVE  Sorted'
<1>1. TypeOK /\ Queues /\ key \in [Task -> Tick]
  BY InvFacts
<1>2. key' = [key EXCEPT ![t] = date]
  BY DEF __task_queue
<1>3. key'[t] = date /\ \A u \in Task : u # t => key'[u] = key[u]
  BY <1>1, <1>2
<1>4. date \in Int /\ \A u \in Task : key[u] \in Int
  BY <1>1, TicksAssumption DEF Tick
<1> SUFFICES ASSUME NEW u \in Task, NEW v \in Task, Before(timers', u, v)
             PROVE  key'[u] <= key'[v]
  BY DEF Sorted
<1>5. \/ u # t /\ v # t /\ Before(timers, u, v)
      \/ u # t /\ v = t /\ Contains(timers, u) /\ key[u] <= date
      \/ u = t /\ v # t /\ Contains(timers, v) /\ key[v] > date
  BY <1>1, PlaceOrder
<1> QED
  BY <1>3, <1>4, <1>5 DEF Sorted

\* task_queue() keeps the order of the tree.
LEMMA QueueSorted ==
  ASSUME SchedulerInv, Sorted, NEW t \in Task, NEW date \in Tick, task_queue(t, date)
  PROVE  Sorted'
<1>1. CASE __task_queue(t, date)
  BY <1>1, PlaceSorted
<1>2. CASE UNCHANGED <<timers, key>>
  BY <1>2 DEF Sorted
<1> QED
  BY <1>1, <1>2 DEF task_queue

\* task_schedule() keeps the order of the tree.
LEMMA ScheduleSorted ==
  ASSUME SchedulerInv, Sorted, NEW t \in Task, NEW d \in Timeouts, task_schedule(t, d)
  PROVE  Sorted'
<1> DEFINE when == tick_add(now, d)
           e == IF task_in_wq(t) THEN tick_first(when, expire[t]) ELSE when
<1>1. when \in Tick /\ tick_isset(when) /\ expire[t] \in Tick
  BY InvFacts, TickAdd
<1>2. e \in Tick
  <2> HIDE DEF when
  <2> QED
    BY <1>1 DEF tick_first
<1>3. IF ~ task_in_wq(t) \/ tick_is_lt(e, key[t])
      THEN __task_queue(t, e) ELSE UNCHANGED <<timers, key>>
  BY DEF task_schedule
<1> HIDE DEF e
<1>4. CASE __task_queue(t, e)
  BY <1>2, <1>4, PlaceSorted
<1>5. CASE UNCHANGED <<timers, key>>
  BY <1>5 DEF Sorted
<1> QED
  BY <1>3, <1>4, <1>5

\* No step disturbs the order of the tree.
LEMMA SortedStep ==
  ASSUME SchedulerInv, Sorted, [Next]_vars PROVE Sorted'
<1>1. CASE \/ WakeStart \/ WakeReturn \/ RunStart \/ RunSleep \/ RunEnd \/ PollReturn
           \/ PollTimed \/ PollForever \/ (\E t \in Task : TaskWakeup(t)) \/ UNCHANGED vars
  <2>1. timers' = timers /\ key' = key
    BY <1>1 DEF WakeStart, WakeReturn, RunStart, RunSleep, RunEnd, PollReturn, PollTimed,
       PollForever, Wait, TaskWakeup, vars
  <2> QED
    BY <2>1 DEF Sorted
<1>2. CASE WakeTask \/ DropTask \/ RunGone \/ \E t \in Task : TaskDelete(t)
  <2>1. PICK t : timers' = RemoveFirst(timers, t) /\ key' = key
    BY <1>2 DEF WakeTask, DropTask, RunGone, TaskDelete
  <2> QED
    BY <2>1, RemoveSorted
<1>3. CASE MoveTask
  <2>1. Due
    BY <1>3 DEF MoveTask
  <2>2. PICK t \in Task : t = Scanned
    BY <2>1, ScannedFacts
  <2>3. __task_queue(t, expire[t]) /\ expire[t] \in Tick
    BY <1>3, <2>2, InvFacts DEF MoveTask, Requeue
  <2> QED
    BY <2>3, PlaceSorted
<1>4. CASE RunAgain
  <2>1. Running
    BY <1>4 DEF RunAgain
  <2>2. PICK t \in Task : t = Head(rq)
    BY <2>1, RunningFacts
  <2>3. PICK d \in Timeouts : task_queue(t, tick_add(now, d))
    BY <1>4, <2>2 DEF RunAgain
  <2>4. tick_add(now, d) \in Tick
    BY InvFacts, TickAdd
  <2> QED
    BY <2>3, <2>4, QueueSorted
<1>5. ASSUME NEW t \in Task, NEW d \in Timeouts, TaskNew(t, d) \/ TaskSet(t, d)
      PROVE  Sorted'
  <2>1. task_queue(t, tick_add(now, d)) /\ tick_add(now, d) \in Tick
    BY <1>5, InvFacts, TickAdd DEF TaskNew, TaskSet
  <2> QED
    BY <2>1, QueueSorted
<1>6. CASE Callback
  BY <1>1, <1>2, <1>5, <1>6, ScheduleSorted DEF Callback
<1> QED
  BY <1>1, <1>2, <1>3, <1>4, <1>6 DEF Next, Loop

\* What a step leaves of the scan.
LEMMA ScanStep ==
  ASSUME SchedulerInv, Sorted, ScanOK, [Next]_vars PROVE ScanOK'
<1>1. CASE WakeTask \/ DropTask
  <2>1. /\ Due /\ timers' = RemoveFirst(timers, Scanned) /\ eb' = eb32_next(Scanned)
        /\ key' = key /\ now' = now
    BY <1>1 DEF WakeTask, DropTask
  <2> QED
    BY <2>1, UnlinkOK
<1>2. CASE UNCHANGED vars
  <2>1. UNCHANGED <<now, expire, key, timers, pc, eb, hop>>
    BY <1>2 DEF vars
  <2> QED
    BY <2>1 DEF ScanOK, Scanned, eb32_first, FirstPass, SecondPass, Stopping, ScanFrom,
       tick_is_lt, Before, Contains
<1>3. CASE WakeReturn \/ RunStart \/ RunEnd \/ PollReturn \/ PollTimed \/ PollForever
  <2>1. pc' # "scan"
    BY <1>3 DEF WakeReturn, RunStart, RunEnd, PollReturn, PollTimed, PollForever, Wait
  <2> QED
    BY <2>1, NoScan
<1>4. CASE RunAgain \/ RunSleep \/ RunGone
  <2>1. pc' # "scan"
    BY <1>4 DEF RunAgain, RunSleep, RunGone, Running
  <2> QED
    BY <2>1, NoScan
<1>5. CASE Callback
  <2>1. pc' # "scan"
    BY <1>5 DEF Callback, TaskWakeup, TaskDelete, TaskNew, TaskSet, task_schedule
  <2> QED
    BY <2>1, NoScan
<1> QED
  BY <1>1, <1>2, <1>3, <1>4, <1>5, StartOK, MoveOK DEF Next, Loop

\* Only wake_expired_tasks() ends with a date for the run queue.
LEMMA WakeStep ==
  ASSUME SchedulerInv, ScanInv, [Next]_vars PROVE WakeComplete'
<1>1. CASE WakeReturn
  BY <1>1, ReturnOK DEF ScanInv
<1>2. CASE UNCHANGED vars
  <2>1. UNCHANGED <<now, expire, key, timers, pc, next, hop>>
    BY <1>2 DEF vars
  <2> QED
    BY <2>1 DEF ScanInv, WakeComplete, Ahead, tick_is_lt
<1>3. pc' # "run" => WakeComplete'
  BY DEF WakeComplete
<1>4. CASE WakeStart \/ WakeTask \/ DropTask \/ MoveTask
  BY <1>3, <1>4 DEF WakeStart, WakeTask, DropTask, MoveTask, Due
<1>5. CASE RunStart \/ RunEnd \/ PollReturn \/ PollTimed \/ PollForever
  BY <1>3, <1>5 DEF RunStart, RunEnd, PollReturn, PollTimed, PollForever, Wait
<1>6. CASE RunAgain \/ RunSleep \/ RunGone
  BY <1>3, <1>6 DEF RunAgain, RunSleep, RunGone, Running
<1>7. CASE Callback
  BY <1>3, <1>7 DEF Callback, TaskWakeup, TaskDelete, TaskNew, TaskSet, task_schedule
<1> QED
  BY <1>1, <1>2, <1>4, <1>5, <1>6, <1>7 DEF Next, Loop

(* What wake_expired_tasks() returns (task.c:118-171): the place of the    *)
(* first timer to come, and no timer left is due, for any tasks, dates and *)
(* range of the date, but for a scan that ends at the task with which it   *)
(* has just left others out (hop), and for a date exactly half a range     *)
(* away.                                                                   *)
THEOREM ScanReturnsNext == Spec => []WakeComplete
<1>1. Init => ScanInv
  <2> SUFFICES ASSUME Init PROVE ScanInv
    OBVIOUS
  <2>1. \A u, v : ~ Before(<< >>, u, v)
    BY DEF Before
  <2> QED
    BY <2>1 DEF Init, ScanInv, Sorted, ScanOK, WakeComplete
<1>2. SchedulerInv /\ ScanInv /\ [Next]_vars => ScanInv'
  BY SortedStep, ScanStep, WakeStep DEF ScanInv
<1>3. ScanInv => WakeComplete
  BY DEF ScanInv
<1> QED
  BY <1>1, <1>2, <1>3, SchedulerInvariant, PTL DEF Spec
=============================================================================
