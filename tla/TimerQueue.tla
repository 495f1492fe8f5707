----------------------------- MODULE TimerQueue -----------------------------
(***************************************************************************)
(* What the scheduler expects of its timer tree: a queue in the order of   *)
(* the keys, in which a new entry comes behind every entry with its key.   *)
(* EbTree implements it; Scheduler is written in terms of it.              *)
(***************************************************************************)
EXTENDS Integers, Sequences, FiniteSets, SequencesExt

CONSTANTS Node,  \* the entries
          Key    \* the keys

VARIABLES queue, \* the entries that are queued, in order
          key    \* the key of every entry

tqVars == <<queue, key>>

TQInit == queue = << >> /\ key \in [Node -> Key]

\* The queue q with n at the place k gives it, behind the keys equal to k.
Placed(q, kf, n, k) ==
  LET before == {i \in DOMAIN q : kf[q[i]] <= k}
  IN  InsertAt(q, Cardinality(before) + 1, n)

\* An entry is queued, or moved, under the key k.
Put(n, k) ==
  /\ key' = [key EXCEPT ![n] = k]
  /\ \E q \in {Remove(queue, n)} : queue' = Placed(q, key, n, k)

\* An entry leaves the queue.
Take(n) ==
  /\ UNCHANGED key
  /\ Contains(queue, n)
  /\ queue' = Remove(queue, n)

TQNext == \E n \in Node : Take(n) \/ \E k \in Key : Put(n, k)

TQSpec == TQInit /\ [][TQNext]_tqVars
=============================================================================
