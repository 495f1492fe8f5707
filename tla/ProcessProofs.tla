----------------------------- MODULE ProcessProofs -----------------------------
(***************************************************************************)
(* Proofs about the process: the signals it queues (SignalQueue), for      *)
(* every set of signals and every nesting of their handlers; and the       *)
(* listener its forked workers share (Prefork): losing the race for a      *)
(* connection never costs the last worker its listener, for any number of  *)
(* workers and connections.                                                *)
(***************************************************************************)
EXTENDS SignalQueue, Prefork, PollerOpsProofs, FiniteSetTheorems

----------------------------------------------------------------------------
(* SignalQueue: the inductive invariant.                                   *)

Steps == {"test", "load", "len", "slot", "count"}
Frame == [sig : Sig, at : Steps, idx : Nat]
n     == Len(frames)

TypeOK ==
  /\ registered \subseteq Sig /\ pending \subseteq registered
  /\ frames \in Seq(Frame)
  /\ queue \in [0 .. MAX_SIGNAL - 1 -> Sig \cup {NoSig}]
  /\ len \in 0 .. MAX_SIGNAL
  /\ count \in [Sig -> Nat]
  /\ cur_pos \in Nat
  /\ raced \subseteq Sig

\* Handlers of different signals only, none while every signal is blocked, and
\* only of registered signals.
Nesting ==
  /\ \A i, j \in 1 .. n : frames[i].sig = frames[j].sig => i = j
  /\ pc = "process" => frames = << >>
  /\ \A i \in 1 .. n : frames[i].sig \in registered
  /\ \A s \in Sig : count[s] > 0 => s \in registered

\* A handler on its way to a slot found its signal not queued.
Adding(i) == frames[i].at \in {"load", "len", "slot"}
Fresh == \A i \in 1 .. n : Adding(i) => count[frames[i].sig] = 0

\* The index a handler loaded is still in the queue or its end, slots are
\* reserved once, and a handler that interrupts another loads no lower index.
Indices ==
  /\ \A i \in 1 .. n : frames[i].at = "len" => frames[i].idx <= len
  /\ \A i \in 1 .. n : frames[i].at = "slot" => frames[i].idx < len
  /\ \A i, j \in 1 .. n : i < j /\ frames[j].at = "len" =>
       /\ frames[i].at = "len" => frames[i].idx <= frames[j].idx
       /\ frames[i].at = "slot" => frames[i].idx < frames[j].idx
  /\ \A i, j \in 1 .. n :
       frames[i].at = "slot" /\ frames[j].at = "slot" /\ frames[i].idx = frames[j].idx => i = j

\* s was received: counted, or about to be counted by a handler that is past the
\* queue.
Past(s) == \E i \in 1 .. n : frames[i].sig = s /\ frames[i].at = "count"
Received(s) == count[s] > 0 \/ Past(s)

\* The slots that hold a signal hold different ones, all received.
Slots ==
  /\ \A p \in Written : queue[p] \in Sig /\ (pc = "process" \/ Received(queue[p]))
  /\ \A p, q \in Written : queue[p] = queue[q] => p = q

\* __signal_process_queue() has handled the entries before cur_pos.
Processing ==
  pc = "process" =>
    \A p \in Written : IF p < cur_pos THEN count[queue[p]] = 0 ELSE count[queue[p]] > 0

\* The handler that is about to store an older length takes p out of the queue.
Condemned(p) == \E i \in 1 .. n : frames[i].at = "len" /\ frames[i].idx <= p

\* A handler that did not hit the window interrupted no other one in it.
Unhurt ==
  \A j \in 1 .. n :
    /\ frames[j].sig \notin raced
    /\ Adding(j) \/ (frames[j].at = "test" /\ count[frames[j].sig] = 0)
    => \A i \in 1 .. j - 1 : frames[i].at # "len"

\* What was received outside the window is in the queue to stay.
Kept ==
  \A s \in Sig \ raced : Received(s) =>
    \E p \in Written : queue[p] = s /\ ~ Condemned(p)

\* The handler of s is above one that loaded the length, and takes an index from
\* there on.
Doomed(s) ==
  \E i, j \in 1 .. n :
    /\ i < j /\ frames[i].at = "len"
    /\ frames[j].sig = s /\ count[s] = 0
    /\ \/ frames[j].at \in {"test", "load"}
       \/ frames[j].at \in {"len", "slot"} /\ frames[i].idx <= frames[j].idx

\* s was received, and what the queue has of it goes.
Dropped(s) == Received(s) /\ \A p \in Written : queue[p] = s => Condemned(p)

\* What was received in the window is lost, or will be.
Lost == \A s \in raced : Dropped(s) \/ Doomed(s)

SignalInv ==
  /\ TypeOK /\ Nesting /\ Fresh /\ Indices /\ Slots /\ Processing
  /\ Unhurt /\ Kept /\ Lost

----------------------------------------------------------------------------
(* Facts about the operators.                                              *)

\* A slot is written when it is below the length and no handler has it
\* reserved, before and after a step.
LEMMA WrittenDef ==
  /\ \A p : p \in Written <=>
       p \in 0 .. len - 1 /\ \A i \in 1 .. n : frames[i].at = "slot" => frames[i].idx # p
  /\ \A p : p \in Written' <=>
       p \in 0 .. len' - 1 /\ \A i \in 1 .. n' : frames'[i].at = "slot" => frames'[i].idx # p
BY DEF Written, n

\* One frame's fields.
LEMMA FrameType ==
  ASSUME TypeOK
  PROVE  /\ n \in Nat
         /\ \A i \in 1 .. n : /\ frames[i] \in Frame
                              /\ frames[i].sig \in Sig
                              /\ frames[i].at \in Steps
                              /\ frames[i].idx \in Nat
<1>1. n \in Nat /\ \A i \in 1 .. n : frames[i] \in Frame
  BY DEF TypeOK, n
<1> QED
  BY <1>1 DEF Frame

\* A step of the innermost handler changes its program counter and its index,
\* and no other handler.
LEMMA GotoFacts ==
  ASSUME TypeOK, frames # << >>, NEW at \in Steps, NEW idx \in Nat, Goto(at, idx)
  PROVE  /\ n \in Nat /\ n \in 1 .. n /\ n' = n /\ Top = frames[n]
         /\ frames' \in Seq(Frame)
         /\ frames'[n].sig = frames[n].sig
         /\ frames'[n].at = at /\ frames'[n].idx = idx
         /\ \A i \in 1 .. n : i # n => i < n /\ frames'[i] = frames[i]
         /\ \A i \in 1 .. n : frames'[i].sig = frames[i].sig
<1>1. n \in Nat /\ n \in 1 .. n /\ Top = frames[n]
  BY DEF TypeOK, n, Top
<1> DEFINE f == [sig |-> frames[n].sig, at |-> at, idx |-> idx]
<1>2. f \in Frame
  BY <1>1, FrameType DEF Frame
<1>3. f.sig = frames[n].sig /\ f.at = at /\ f.idx = idx
  OBVIOUS
<1>4. frames' = [frames EXCEPT ![n] = f]
  BY <1>1 DEF Goto, n
<1> HIDE DEF f
<1>5. frames' \in Seq(Frame) /\ n' = n
  BY <1>1, <1>2, <1>4 DEF TypeOK, n
<1>6. frames'[n] = f /\ \A i \in 1 .. n : i # n => i < n /\ frames'[i] = frames[i]
  <2>1. \A i \in 1 .. n : i # n => i < n
    BY <1>1
  <2> QED
    BY <1>1, <1>4, <2>1 DEF TypeOK, n
<1> QED
  BY <1>1, <1>3, <1>5, <1>6

\* Handlers that leave, or move on from the queue, keep the order of the indices.
LEMMA SameIndices ==
  ASSUME Indices, len' = len,
         \A i \in 1 .. n' : frames'[i].at \in {"len", "slot"} =>
           i \in 1 .. n /\ frames'[i] = frames[i]
  PROVE  Indices'
<1>1. /\ \A i \in 1 .. n' : frames'[i].at = "len" => frames'[i].idx <= len'
      /\ \A i \in 1 .. n' : frames'[i].at = "slot" => frames'[i].idx < len'
  BY DEF Indices
<1>2. \A i, j \in 1 .. n' : i < j /\ frames'[j].at = "len" =>
        /\ frames'[i].at = "len" => frames'[i].idx <= frames'[j].idx
        /\ frames'[i].at = "slot" => frames'[i].idx < frames'[j].idx
  BY DEF Indices
<1>3. \A i, j \in 1 .. n' :
        frames'[i].at = "slot" /\ frames'[j].at = "slot" /\ frames'[i].idx = frames'[j].idx => i = j
  BY DEF Indices
<1> QED
  BY <1>1, <1>2, <1>3 DEF Indices

\* signal.c: "the signal queue does not need to be deeper than the number of
\* signals": while a handler has a fresh signal and no slot yet, the slots below
\* the length belong to other signals, so that there is room.
LEMMA Room ==
  ASSUME SignalInv, NEW k \in 1 .. n,
         frames[k].at \in {"test", "load", "len"}, count[frames[k].sig] = 0
  PROVE  len < MAX_SIGNAL
<1> USE DEF SignalInv
<1> DEFINE s == frames[k].sig
           Reserves(i, p) == frames[i].at = "slot" /\ frames[i].idx = p
           f == [p \in 0 .. len - 1 |->
                   IF p \in Written THEN queue[p]
                   ELSE frames[CHOOSE i \in 1 .. n : Reserves(i, p)].sig]
<1>0. /\ n \in Nat /\ len \in Nat /\ s \in Sig
      /\ \A i \in 1 .. n : frames[i].sig \in Sig
  BY FrameType DEF TypeOK
<1>1. pc # "process"
  BY <1>0 DEF Nesting, n
<1>2. \A p \in Written : queue[p] \in Sig \ {s} /\ Received(queue[p])
  <2>1. ~ Received(s)
    BY <1>0 DEF Received, Past, Nesting
  <2> QED
    BY <1>1, <2>1 DEF Slots
<1>3. ASSUME NEW p \in 0 .. len - 1, p \notin Written
      PROVE  \E i \in 1 .. n : Reserves(i, p) /\ f[p] = frames[i].sig
  <2>1. \E i \in 1 .. n : Reserves(i, p)
    BY <1>3, WrittenDef
  <2>2. PICK i \in 1 .. n : i = CHOOSE j \in 1 .. n : Reserves(j, p)
    BY <2>1
  <2>3. Reserves(i, p)
    BY <2>1, <2>2
  <2>4. f[p] = frames[i].sig
    BY <1>3, <2>2
  <2> QED
    BY <2>3, <2>4
<1>4. ASSUME NEW i \in 1 .. n, NEW p, Reserves(i, p)
      PROVE  frames[i].sig \in Sig \ {s} /\ ~ Received(frames[i].sig)
  <2>1. i # k
    BY <1>4
  <2>2. count[frames[i].sig] = 0
    BY <1>4 DEF Fresh, Adding
  <2>3. ~ Past(frames[i].sig)
    BY <1>4 DEF Past, Nesting
  <2> QED
    BY <1>0, <2>1, <2>2, <2>3 DEF Received, Nesting
<1>5. \A p \in Written : p \in 0 .. len - 1 /\ f[p] = queue[p]
  BY WrittenDef
<1>6. f \in [0 .. len - 1 -> Sig \ {s}]
  <2>1. \A p \in 0 .. len - 1 : f[p] \in Sig \ {s}
    BY <1>2, <1>3, <1>4, <1>5
  <2> QED
    BY <2>1
<1>7. ASSUME NEW p \in 0 .. len - 1, NEW q \in 0 .. len - 1, f[p] = f[q]
      PROVE  p = q
  <2>1. CASE p \in Written /\ q \in Written
    BY <1>5, <1>7, <2>1 DEF Slots
  <2>2. CASE p \notin Written /\ q \notin Written
    <3>1. PICK i \in 1 .. n : Reserves(i, p) /\ f[p] = frames[i].sig
      BY <1>3, <2>2
    <3>2. PICK j \in 1 .. n : Reserves(j, q) /\ f[q] = frames[j].sig
      BY <1>3, <2>2
    <3>3. i = j
      BY <1>7, <3>1, <3>2 DEF Nesting
    <3> QED
      BY <3>1, <3>2, <3>3
  <2>3. CASE p \in Written /\ q \notin Written
    <3>1. PICK j \in 1 .. n : Reserves(j, q) /\ f[q] = frames[j].sig
      BY <1>3, <2>3
    <3> QED
      BY <1>2, <1>4, <1>5, <1>7, <2>3, <3>1
  <2>4. CASE p \notin Written /\ q \in Written
    <3>1. PICK j \in 1 .. n : Reserves(j, p) /\ f[p] = frames[j].sig
      BY <1>3, <2>4
    <3> QED
      BY <1>2, <1>4, <1>5, <1>7, <2>4, <3>1
  <2> QED
    BY <2>1, <2>2, <2>3, <2>4
<1> DEFINE S == 0 .. len - 1
           T == Sig \ {s}
<1>8. /\ IsFiniteSet(S) /\ Cardinality(S) = len
      /\ IsFiniteSet(T) /\ Cardinality(T) = Cardinality(Sig) - 1
      /\ Cardinality(Sig) \in Nat /\ Cardinality(Sig) <= MAX_SIGNAL
  <2>1. IsFiniteSet(S) /\ Cardinality(S) = len
    <3>1. IsFiniteSet(S) /\ Cardinality(S) = IF 0 > len - 1 THEN 0 ELSE len - 1 - 0 + 1
      BY <1>0, FS_Interval
    <3> HIDE DEF S
    <3> QED
      BY <1>0, <3>1
  <2>2. IsFiniteSet(T) /\ Cardinality(T) = Cardinality(Sig) - 1
    BY <1>0, SignalAssumption, FS_RemoveElement
  <2>3. Cardinality(Sig) \in Nat /\ Cardinality(Sig) <= MAX_SIGNAL
    BY SignalAssumption, FS_CardinalityType
  <2> QED
    BY <2>1, <2>2, <2>3
<1>9. ~ (Cardinality(T) < Cardinality(S))
  <2>1. f \in [S -> T] /\ \A p, q \in S : f[p] = f[q] => p = q
    BY <1>6, <1>7
  <2> HIDE DEF f, S, T
  <2> QED
    BY <1>8, <2>1, FS_PigeonHole
<1> HIDE DEF S, T
<1> QED
  BY <1>0, <1>8, <1>9, SignalAssumption

----------------------------------------------------------------------------
(* The kernel.                                                             *)

\* A new handler is the innermost one.
LEMMA DeliverInv ==
  ASSUME SignalInv, NEW s \in Sig, Deliver(s)
  PROVE  SignalInv'
<1> USE DEF SignalInv
<1> DEFINE f == [sig |-> s, at |-> "test", idx |-> 0]
<1>1. /\ s \in pending \ Blocked /\ pending' = pending \ {s}
      /\ frames' = Append(frames, f)
      /\ raced' = IF count[s] = 0 /\ \E i \in 1 .. n : frames[i].at = "len"
                  THEN raced \cup {s} ELSE raced
      /\ UNCHANGED <<registered, sent, queue, len, count, pc, cur_pos, is_stop>>
  BY DEF Deliver, n
<1>2. f \in Frame /\ f.sig = s /\ f.at = "test"
  BY DEF Frame, Steps
<1> HIDE DEF f
<1>3. /\ n \in Nat /\ n' = n + 1 /\ frames' \in Seq(Frame)
      /\ frames'[n + 1].sig = s /\ frames'[n + 1].at = "test"
      /\ \A i \in 1 .. n : frames'[i] = frames[i]
      /\ \A i : i \in 1 .. n' <=> i \in 1 .. n \/ i = n + 1
  <2>1. n \in Nat /\ n' = n + 1 /\ frames' \in Seq(Frame)
    BY <1>1, <1>2 DEF TypeOK, n
  <2>2. frames'[n + 1] = f /\ \A i \in 1 .. n : frames'[i] = frames[i]
    BY <1>1, <1>2 DEF TypeOK, n
  <2> QED
    BY <1>2, <2>1, <2>2
<1>4. pc # "process" /\ \A i \in 1 .. n : frames[i].sig # s
  BY <1>1 DEF Blocked, InHandler, n
<1>5. \A p : p \in Written' <=> p \in Written
  <2> SUFFICES ASSUME NEW p PROVE p \in Written' <=> p \in Written
    OBVIOUS
  <2>1. (\A i \in 1 .. n' : frames'[i].at = "slot" => frames'[i].idx # p)
          <=> (\A i \in 1 .. n : frames[i].at = "slot" => frames[i].idx # p)
    BY <1>3
  <2> QED
    BY <1>1, <2>1, WrittenDef
<1>6. \A t : Received(t)' <=> Received(t)
  BY <1>1, <1>3 DEF Received, Past
<1>7. \A p : Condemned(p)' <=> Condemned(p)
  BY <1>1, <1>3 DEF Condemned
<1>8. TypeOK'
  BY <1>1, <1>3 DEF TypeOK
<1>9. Nesting' /\ Fresh' /\ Indices'
  <2>1. Nesting'
    <3>1. \A i, j \in 1 .. n' : frames'[i].sig = frames'[j].sig => i = j
      <4>1. \A i, j \in 1 .. n : frames'[i].sig = frames'[j].sig => i = j
        BY <1>3 DEF Nesting
      <4>2. \A i \in 1 .. n : frames'[i].sig # s
        BY <1>3, <1>4
      <4> QED
        BY <1>3, <4>1, <4>2
    <3>2. \A i \in 1 .. n' : frames'[i].sig \in registered'
      BY <1>1, <1>3 DEF Nesting, TypeOK
    <3> QED
      BY <1>1, <1>4, <3>1, <3>2 DEF Nesting
  <2>2. Fresh'
    <3> SUFFICES ASSUME NEW i \in 1 .. n', Adding(i)' PROVE count'[frames'[i].sig] = 0
      BY DEF Fresh
    <3>1. i \in 1 .. n
      BY <1>3 DEF Adding
    <3>2. frames'[i] = frames[i] /\ Adding(i)
      BY <1>3, <3>1 DEF Adding
    <3> QED
      BY <1>1, <3>1, <3>2 DEF Fresh
  <2>3. Indices'
    <3>1. /\ \A i \in 1 .. n' : frames'[i].at = "len" => frames'[i].idx <= len'
          /\ \A i \in 1 .. n' : frames'[i].at = "slot" => frames'[i].idx < len'
      BY <1>1, <1>3 DEF Indices
    <3>2. \A i, j \in 1 .. n' : i < j /\ frames'[j].at = "len" =>
            /\ frames'[i].at = "len" => frames'[i].idx <= frames'[j].idx
            /\ frames'[i].at = "slot" => frames'[i].idx < frames'[j].idx
      <4> SUFFICES ASSUME NEW i \in 1 .. n', NEW j \in 1 .. n', i < j, frames'[j].at = "len"
                   PROVE  /\ frames'[i].at = "len" => frames'[i].idx <= frames'[j].idx
                          /\ frames'[i].at = "slot" => frames'[i].idx < frames'[j].idx
        OBVIOUS
      <4>1. i \in 1 .. n /\ j \in 1 .. n /\ frames'[i] = frames[i] /\ frames'[j] = frames[j]
        BY <1>3
      <4> QED
        BY <4>1 DEF Indices
    <3>3. \A i, j \in 1 .. n' :
            frames'[i].at = "slot" /\ frames'[j].at = "slot" /\ frames'[i].idx = frames'[j].idx => i = j
      <4> SUFFICES ASSUME NEW i \in 1 .. n', NEW j \in 1 .. n', frames'[i].at = "slot",
                          frames'[j].at = "slot", frames'[i].idx = frames'[j].idx
                   PROVE  i = j
        OBVIOUS
      <4>1. i \in 1 .. n /\ j \in 1 .. n /\ frames'[i] = frames[i] /\ frames'[j] = frames[j]
        BY <1>3
      <4> QED
        BY <4>1 DEF Indices
    <3> QED
      BY <3>1, <3>2, <3>3 DEF Indices
  <2> QED
    BY <2>1, <2>2, <2>3
<1>10. Slots' /\ Processing'
  BY <1>1, <1>4, <1>5, <1>6 DEF Slots, Processing
<1>11. Unhurt'
  <2> SUFFICES ASSUME NEW j \in 1 .. n', NEW i \in 1 .. j - 1,
                      frames'[j].sig \notin raced',
                      Adding(j)' \/ (frames'[j].at = "test" /\ count'[frames'[j].sig] = 0)
               PROVE  frames'[i].at # "len"
    BY <1>3 DEF Unhurt
  <2>1. CASE j \in 1 .. n
    <3>1. i \in 1 .. n /\ frames'[i] = frames[i] /\ frames'[j] = frames[j]
      BY <1>3, <2>1
    <3>2. frames[j].sig \notin raced
      BY <1>1, <3>1
    <3>3. Adding(j) \/ (frames[j].at = "test" /\ count[frames[j].sig] = 0)
      BY <1>1, <3>1 DEF Adding
    <3> QED
      BY <2>1, <3>1, <3>2, <3>3 DEF Unhurt
  <2>2. CASE j = n + 1
    <3>1. i \in 1 .. n /\ frames'[i] = frames[i]
      BY <1>3, <2>2
    <3>2. frames'[j].sig = s /\ count[s] = 0
      BY <1>1, <1>3, <2>2 DEF Adding
    <3>3. s \notin raced'
      BY <3>2
    <3> QED
      BY <1>1, <3>1, <3>2, <3>3
  <2> QED
    BY <1>3, <2>1, <2>2
<1>12. Kept'
  BY <1>1, <1>5, <1>6, <1>7 DEF Kept
<1>13. Lost'
  <2> SUFFICES ASSUME NEW t \in raced' PROVE Dropped(t)' \/ Doomed(t)'
    BY DEF Lost
  <2>1. Dropped(t) => Dropped(t)'
    BY <1>1, <1>5, <1>6, <1>7 DEF Dropped
  <2>2. Doomed(t) => Doomed(t)'
    <3> SUFFICES ASSUME Doomed(t) PROVE Doomed(t)'
      OBVIOUS
    <3>1. PICK i \in 1 .. n, j \in 1 .. n :
            /\ i < j /\ frames[i].at = "len"
            /\ frames[j].sig = t /\ count[t] = 0
            /\ \/ frames[j].at \in {"test", "load"}
               \/ frames[j].at \in {"len", "slot"} /\ frames[i].idx <= frames[j].idx
      BY DEF Doomed
    <3>2. i \in 1 .. n' /\ j \in 1 .. n' /\ frames'[i] = frames[i] /\ frames'[j] = frames[j]
      BY <1>3
    <3>3. /\ frames'[i].at = "len" /\ frames'[j].sig = t /\ count'[t] = 0
          /\ \/ frames'[j].at \in {"test", "load"}
             \/ frames'[j].at \in {"len", "slot"} /\ frames'[i].idx <= frames'[j].idx
      BY <1>1, <3>1, <3>2
    <3> QED
      BY <3>1, <3>2, <3>3 DEF Doomed
  <2>3. CASE t \notin raced
    <3>1. t = s /\ count[s] = 0
      BY <1>1, <2>3
    <3>2. PICK i \in 1 .. n : frames[i].at = "len"
      BY <1>1, <2>3
    <3>3. n + 1 \in 1 .. n' /\ i \in 1 .. n' /\ i < n + 1 /\ frames'[i] = frames[i]
      BY <1>3
    <3>4. /\ frames'[i].at = "len" /\ frames'[n + 1].at = "test"
          /\ frames'[n + 1].sig = t /\ count'[t] = 0
      BY <1>1, <1>3, <3>1, <3>2, <3>3
    <3> DEFINE k == n + 1
    <3>5. /\ i \in 1 .. n' /\ k \in 1 .. n' /\ i < k /\ frames'[i].at = "len"
          /\ frames'[k].sig = t /\ count'[t] = 0 /\ frames'[k].at \in {"test", "load"}
      BY <3>3, <3>4
    <3> HIDE DEF k
    <3> QED
      BY <3>5 DEF Doomed
  <2> QED
    BY <2>1, <2>2, <2>3 DEF Lost
<1> QED
  BY <1>8, <1>9, <1>10, <1>11, <1>12, <1>13

----------------------------------------------------------------------------
(* signal_handler().                                                       *)

\* The test finds room, and a signal that is counted in the queue or lost.
LEMMA HandlerTestInv ==
  ASSUME SignalInv, HandlerTest
  PROVE  SignalInv'
<1> USE DEF SignalInv
<1> DEFINE at == IF NotQueued(Top.sig) /\ len < MAX_SIGNAL THEN "load" ELSE "count"
<1>1. /\ frames # << >> /\ Top.at = "test" /\ Goto(at, 0)
      /\ UNCHANGED <<registered, sent, pending, queue, len, count, pc, cur_pos, is_stop, raced>>
  BY DEF HandlerTest
<1>2. at \in Steps /\ 0 \in Nat
  BY DEF Steps
<1>3. /\ n \in Nat /\ n \in 1 .. n /\ n' = n /\ Top = frames[n]
      /\ frames' \in Seq(Frame)
      /\ frames'[n].at = at /\ frames'[n].idx = 0
      /\ \A i \in 1 .. n : i # n => i < n /\ frames'[i] = frames[i]
      /\ \A i \in 1 .. n : frames'[i].sig = frames[i].sig
  <2> HIDE DEF at
  <2> QED
    BY <1>1, <1>2, GotoFacts
<1> DEFINE s == frames[n].sig
<1>4. /\ frames[n].at = "test" /\ s \in Sig
      /\ at = IF count[s] = 0 THEN "load" ELSE "count"
  <2>1. frames[n].at = "test" /\ s \in Sig
    BY <1>1, <1>3, FrameType
  <2>2. count[s] = 0 => len < MAX_SIGNAL
    BY <1>3, <2>1, Room
  <2> QED
    BY <1>3, <2>1, <2>2 DEF NotQueued
<1> HIDE DEF at
<1>5. pc # "process"
  BY <1>1 DEF Nesting
<1>6. \A p : p \in Written' <=> p \in Written
  BY <1>1, <1>3, <1>4, WrittenDef
<1>7. \A t \in Sig : Received(t)' <=> Received(t)
  <2> SUFFICES ASSUME NEW t \in Sig PROVE Received(t)' <=> Received(t)
    OBVIOUS
  <2>1. count' = count /\ count[s] \in Nat
    BY <1>1, <1>4 DEF TypeOK
  <2>2. \A i \in 1 .. n : i # n => frames'[i].at = frames[i].at
    BY <1>3
  <2>3. Past(t) => Past(t)'
    <3> SUFFICES ASSUME NEW i \in 1 .. n, frames[i].sig = t, frames[i].at = "count"
                 PROVE  Past(t)'
      BY DEF Past
    <3>1. i # n
      BY <1>4
    <3> QED
      BY <1>3, <2>2, <3>1 DEF Past
  <2>4. Past(t)' => Past(t) \/ count[t] > 0
    <3> SUFFICES ASSUME NEW i \in 1 .. n', frames'[i].sig = t, frames'[i].at = "count"
                 PROVE  Past(t) \/ count[t] > 0
      BY DEF Past
    <3>1. CASE i = n
      <4>1. t = s /\ count[s] # 0
        BY <1>3, <1>4, <3>1
      <4> QED
        BY <2>1, <4>1
    <3>2. CASE i # n
      BY <1>3, <2>2, <3>2 DEF Past
    <3> QED
      BY <3>1, <3>2
  <2> QED
    BY <2>1, <2>3, <2>4 DEF Received
<1>8. \A p : Condemned(p)' <=> Condemned(p)
  BY <1>1, <1>3, <1>4 DEF Condemned
<1>9. TypeOK'
  BY <1>1, <1>3 DEF TypeOK
<1>10. Nesting'
  BY <1>1, <1>3 DEF Nesting
<1>11. Fresh'
  BY <1>1, <1>3, <1>4 DEF Fresh, Adding
<1>12. Indices'
  <2>1. \A i \in 1 .. n : frames'[i].at \in {"len", "slot"} => i # n /\ frames'[i] = frames[i]
    BY <1>3, <1>4
  <2>2. /\ \A i \in 1 .. n' : frames'[i].at = "len" => frames'[i].idx <= len'
        /\ \A i \in 1 .. n' : frames'[i].at = "slot" => frames'[i].idx < len'
    BY <1>1, <1>3, <2>1 DEF Indices
  <2>3. \A i, j \in 1 .. n' : i < j /\ frames'[j].at = "len" =>
          /\ frames'[i].at = "len" => frames'[i].idx <= frames'[j].idx
          /\ frames'[i].at = "slot" => frames'[i].idx < frames'[j].idx
    BY <1>3, <2>1 DEF Indices
  <2>4. \A i, j \in 1 .. n' :
          frames'[i].at = "slot" /\ frames'[j].at = "slot" /\ frames'[i].idx = frames'[j].idx => i = j
    BY <1>3, <2>1 DEF Indices
  <2> QED
    BY <2>2, <2>3, <2>4 DEF Indices
<1>13. Slots' /\ Processing'
  BY <1>1, <1>5, <1>6, <1>7 DEF Slots, Processing
<1>14. Unhurt'
  BY <1>1, <1>3, <1>4 DEF Unhurt, Adding
<1>15. Kept'
  BY <1>1, <1>6, <1>7, <1>8 DEF Kept
<1>16. Lost'
  <2>1. ASSUME NEW t \in raced, Dropped(t) PROVE Dropped(t)'
    BY <1>1, <1>6, <1>7, <1>8, <2>1 DEF Dropped, TypeOK
  <2>2. ASSUME NEW t \in raced, Doomed(t) PROVE Doomed(t)'
    BY <1>1, <1>3, <1>4, <2>2 DEF Doomed
  <2> QED
    BY <1>1, <2>1, <2>2 DEF Lost
<1> QED
  BY <1>9, <1>10, <1>11, <1>12, <1>13, <1>14, <1>15, <1>16

\* The loaded length is an index no lower than any a handler below holds.
LEMMA HandlerLoadInv ==
  ASSUME SignalInv, HandlerLoad
  PROVE  SignalInv'
<1> USE DEF SignalInv
<1>1. /\ frames # << >> /\ Top.at = "load" /\ Goto("len", len)
      /\ UNCHANGED <<registered, sent, pending, queue, len, count, pc, cur_pos, is_stop, raced>>
  BY DEF HandlerLoad
<1>2. /\ n \in Nat /\ n \in 1 .. n /\ n' = n
      /\ frames[n].at = "load" /\ frames' \in Seq(Frame)
      /\ frames'[n].at = "len" /\ frames'[n].idx = len
      /\ \A i \in 1 .. n : i # n => i < n /\ frames'[i] = frames[i]
      /\ \A i \in 1 .. n : frames'[i].sig = frames[i].sig
  <2>1. "len" \in Steps /\ len \in Nat
    BY DEF Steps, TypeOK
  <2> QED
    BY <1>1, <2>1, GotoFacts
<1>3. pc # "process"
  BY <1>1 DEF Nesting
<1>4. \A p : p \in Written' <=> p \in Written
  BY <1>1, <1>2, WrittenDef
<1>5. \A t \in Sig : Received(t)' <=> Received(t)
  BY <1>1, <1>2 DEF Received, Past
<1>6. \A p \in Written : Condemned(p)' <=> Condemned(p)
  <2> SUFFICES ASSUME NEW p \in Written PROVE Condemned(p)' <=> Condemned(p)
    OBVIOUS
  <2>1. p < len
    BY WrittenDef DEF TypeOK
  <2>2. len \in Nat /\ p \in Nat
    BY WrittenDef DEF TypeOK
  <2> QED
    BY <1>2, <2>1, <2>2 DEF Condemned
<1>7. TypeOK'
  BY <1>1, <1>2 DEF TypeOK
<1>8. Nesting'
  BY <1>1, <1>2 DEF Nesting
<1>9. Fresh'
  BY <1>1, <1>2 DEF Fresh, Adding
<1>10. Indices'
  <2>1. \A i \in 1 .. n : frames[i].idx \in Nat /\ len \in Nat
    BY FrameType DEF TypeOK
  <2>2. /\ \A i \in 1 .. n' : frames'[i].at = "len" => frames'[i].idx <= len'
        /\ \A i \in 1 .. n' : frames'[i].at = "slot" => frames'[i].idx < len'
    <3> SUFFICES ASSUME NEW i \in 1 .. n
                 PROVE  /\ frames'[i].at = "len" => frames'[i].idx <= len
                        /\ frames'[i].at = "slot" => frames'[i].idx < len
      BY <1>1, <1>2
    <3>1. CASE i = n
      BY <1>2, <2>1, <3>1
    <3>2. CASE i # n
      BY <1>2, <3>2 DEF Indices
    <3> QED
      BY <3>1, <3>2
  <2>3. \A i, j \in 1 .. n' : i < j /\ frames'[j].at = "len" =>
          /\ frames'[i].at = "len" => frames'[i].idx <= frames'[j].idx
          /\ frames'[i].at = "slot" => frames'[i].idx < frames'[j].idx
    <3> SUFFICES ASSUME NEW i \in 1 .. n, NEW j \in 1 .. n, i < j, frames'[j].at = "len"
                 PROVE  /\ frames'[i].at = "len" => frames'[i].idx <= frames'[j].idx
                        /\ frames'[i].at = "slot" => frames'[i].idx < frames'[j].idx
      BY <1>2
    <3>0. i # n /\ frames'[i] = frames[i]
      BY <1>2
    <3>1. CASE j = n
      BY <1>2, <3>0, <3>1 DEF Indices
    <3>2. CASE j # n
      BY <1>2, <3>0, <3>2 DEF Indices
    <3> QED
      BY <3>1, <3>2
  <2>4. \A i, j \in 1 .. n' :
          frames'[i].at = "slot" /\ frames'[j].at = "slot" /\ frames'[i].idx = frames'[j].idx => i = j
    BY <1>2 DEF Indices
  <2> QED
    BY <2>2, <2>3, <2>4 DEF Indices
<1>11. Slots' /\ Processing'
  BY <1>1, <1>3, <1>4, <1>5 DEF Slots, Processing
<1>12. Unhurt'
  BY <1>1, <1>2 DEF Unhurt, Adding
<1>13. Kept'
  BY <1>1, <1>4, <1>5, <1>6 DEF Kept
<1>14. Lost'
  <2>1. ASSUME NEW t \in raced, Dropped(t) PROVE Dropped(t)'
    BY <1>1, <1>4, <1>5, <1>6, <2>1 DEF Dropped, TypeOK
  <2>2. ASSUME NEW t \in raced, Doomed(t) PROVE Doomed(t)'
    <3>1. PICK i \in 1 .. n, j \in 1 .. n :
            /\ i < j /\ frames[i].at = "len"
            /\ frames[j].sig = t /\ count[t] = 0
            /\ \/ frames[j].at \in {"test", "load"}
               \/ frames[j].at \in {"len", "slot"} /\ frames[i].idx <= frames[j].idx
      BY <2>2 DEF Doomed
    <3>2. /\ frames'[i] = frames[i] /\ i \in 1 .. n' /\ j \in 1 .. n'
          /\ frames'[j].sig = t /\ count'[t] = 0
      BY <1>1, <1>2, <3>1
    <3>3. \/ frames'[j].at \in {"test", "load"}
          \/ frames'[j].at \in {"len", "slot"} /\ frames'[i].idx <= frames'[j].idx
      <4>1. CASE j = n
        BY <1>2, <3>1, <3>2, <4>1 DEF Indices
      <4>2. CASE j # n
        <5>1. frames'[j] = frames[j]
          BY <1>2, <4>2
        <5> QED
          BY <3>1, <3>2, <5>1
      <4> QED
        BY <4>1, <4>2
    <3> QED
      BY <3>1, <3>2, <3>3 DEF Doomed
  <2> QED
    BY <1>1, <2>1, <2>2 DEF Lost
<1> QED
  BY <1>7, <1>8, <1>9, <1>10, <1>11, <1>12, <1>13, <1>14

\* The stored length cuts the queue back to the loaded index: the slots from there
\* on, those of the handlers in between, are gone.
LEMMA HandlerStoreLenInv ==
  ASSUME SignalInv, HandlerStoreLen
  PROVE  SignalInv'
<1> USE DEF SignalInv
<1> DEFINE x == frames[n].idx
<1>1. /\ frames # << >> /\ Top.at = "len" /\ len' = Top.idx + 1
      /\ Goto("slot", Top.idx)
      /\ UNCHANGED <<registered, sent, pending, queue, count, pc, cur_pos, is_stop, raced>>
  BY DEF HandlerStoreLen
<1>2. /\ n \in Nat /\ n \in 1 .. n /\ n' = n /\ frames' \in Seq(Frame)
      /\ frames[n].at = "len" /\ x \in Nat /\ len' = x + 1
      /\ frames'[n].at = "slot" /\ frames'[n].idx = x
      /\ \A i \in 1 .. n : i # n => i < n /\ frames'[i] = frames[i]
      /\ \A i \in 1 .. n : frames'[i].sig = frames[i].sig
  <2>1. n \in Nat /\ n \in 1 .. n /\ Top = frames[n]
    BY <1>1 DEF TypeOK, n, Top
  <2>2. "slot" \in Steps /\ x \in Nat /\ Goto("slot", x)
    BY <1>1, <2>1, FrameType DEF Steps
  <2> HIDE DEF x
  <2>3. /\ n' = n /\ frames' \in Seq(Frame)
        /\ frames'[n].at = "slot" /\ frames'[n].idx = x
        /\ \A i \in 1 .. n : i # n => i < n /\ frames'[i] = frames[i]
        /\ \A i \in 1 .. n : frames'[i].sig = frames[i].sig
    BY <1>1, <2>2, GotoFacts
  <2> QED
    BY <1>1, <2>1, <2>2, <2>3 DEF x
<1>3. pc # "process" /\ len \in Nat /\ x <= len /\ x < MAX_SIGNAL
  <2>1. pc # "process" /\ len \in Nat /\ x <= len
    BY <1>1, <1>2 DEF Nesting, TypeOK, Indices
  <2>2. len < MAX_SIGNAL
    BY <1>2, Room DEF Fresh, Adding
  <2> QED
    BY <1>2, <2>1, <2>2, SignalAssumption
<1>4. \A p : p \in Written' <=> p \in Written /\ p < x
  <2> SUFFICES ASSUME NEW p PROVE p \in Written' <=> p \in Written /\ p < x
    OBVIOUS
  <2>1. (\A i \in 1 .. n' : frames'[i].at = "slot" => frames'[i].idx # p)
          <=> p # x /\ (\A i \in 1 .. n : frames[i].at = "slot" => frames[i].idx # p)
    BY <1>2
  <2>2. p \in 0 .. len' - 1 /\ p # x <=> p \in 0 .. len - 1 /\ p < x
    BY <1>2, <1>3
  <2> QED
    BY <2>1, <2>2, WrittenDef
<1>5. \A t \in Sig : Received(t)' <=> Received(t)
  BY <1>1, <1>2 DEF Received, Past
<1>6. \A p \in Written' : Condemned(p)' <=> Condemned(p)
  <2> SUFFICES ASSUME NEW p \in Written' PROVE Condemned(p)' <=> Condemned(p)
    OBVIOUS
  <2>1. p \in Nat /\ ~ (x <= p)
    BY <1>2, <1>4, WrittenDef
  <2>2. \A i \in 1 .. n : /\ frames'[i].at = "len" <=> frames[i].at = "len" /\ i # n
                         /\ i # n => frames'[i].idx = frames[i].idx
    BY <1>2
  <2> QED
    BY <1>2, <2>1, <2>2 DEF Condemned
<1>7. TypeOK'
  <2>1. len' \in 0 .. MAX_SIGNAL
    <3>1. len' = x + 1 /\ x \in Nat /\ x < MAX_SIGNAL
      BY <1>2, <1>3
    <3> HIDE DEF x
    <3> QED
      BY <3>1, SignalAssumption
  <2> QED
    BY <1>1, <1>2, <2>1 DEF TypeOK
<1>8. Nesting'
  BY <1>1, <1>2 DEF Nesting
<1>9. Fresh'
  BY <1>1, <1>2 DEF Fresh, Adding
<1>10. Indices'
  <2>1. \A i \in 1 .. n : i # n =>
          /\ frames[i].at = "len" => frames[i].idx <= x
          /\ frames[i].at = "slot" => frames[i].idx < x
    BY <1>2 DEF Indices
  <2>2. \A i \in 1 .. n : frames[i].idx \in Nat
    BY FrameType
  <2>3. /\ \A i \in 1 .. n' : frames'[i].at = "len" => frames'[i].idx <= len'
        /\ \A i \in 1 .. n' : frames'[i].at = "slot" => frames'[i].idx < len'
    <3> SUFFICES ASSUME NEW i \in 1 .. n
                 PROVE  /\ frames'[i].at = "len" => frames'[i].idx <= len'
                        /\ frames'[i].at = "slot" => frames'[i].idx < len'
      BY <1>2
    <3>1. CASE i = n
      <4>1. frames'[i].at = "slot" /\ frames'[i].idx = x
        BY <1>2, <3>1
      <4>2. x \in Nat /\ len' = x + 1
        BY <1>2
      <4> HIDE DEF x
      <4> QED
        BY <4>1, <4>2
    <3>2. CASE i # n
      <4>1. /\ frames'[i] = frames[i] /\ frames[i].idx \in Nat
            /\ frames[i].at = "len" => frames[i].idx <= x
            /\ frames[i].at = "slot" => frames[i].idx < x
        BY <1>2, <2>1, <2>2, <3>2
      <4>2. x \in Nat /\ len' = x + 1
        BY <1>2
      <4> HIDE DEF x
      <4> QED
        BY <4>1, <4>2
    <3> QED
      BY <3>1, <3>2
  <2>4. \A i, j \in 1 .. n' : i < j /\ frames'[j].at = "len" =>
          /\ frames'[i].at = "len" => frames'[i].idx <= frames'[j].idx
          /\ frames'[i].at = "slot" => frames'[i].idx < frames'[j].idx
    BY <1>2 DEF Indices
  <2>5. \A i, j \in 1 .. n' :
          frames'[i].at = "slot" /\ frames'[j].at = "slot" /\ frames'[i].idx = frames'[j].idx => i = j
    <3> SUFFICES ASSUME NEW i \in 1 .. n, NEW j \in 1 .. n, frames'[i].at = "slot",
                        frames'[j].at = "slot", frames'[i].idx = frames'[j].idx
                 PROVE  i = j
      BY <1>2
    <3>1. \A k \in 1 .. n : k # n /\ frames'[k].at = "slot" => frames'[k].idx # x
      <4> SUFFICES ASSUME NEW k \in 1 .. n, k # n, frames'[k].at = "slot"
                   PROVE  frames'[k].idx # x
        OBVIOUS
      <4>1. frames'[k] = frames[k] /\ frames[k].idx \in Nat /\ frames[k].at = "slot"
        BY <1>2, <2>2
      <4>2. x \in Nat /\ frames[k].idx < x
        BY <1>2, <2>1, <4>1
      <4> HIDE DEF x
      <4> QED
        BY <4>1, <4>2
    <3>2. CASE i # n /\ j # n
      BY <1>2, <3>2 DEF Indices
    <3>3. CASE i = n \/ j = n
      BY <1>2, <3>1, <3>3
    <3> QED
      BY <3>2, <3>3
  <2> QED
    BY <2>3, <2>4, <2>5 DEF Indices
<1>11. Slots' /\ Processing'
  BY <1>1, <1>3, <1>4, <1>5 DEF Slots, Processing
<1>12. Unhurt'
  <2> SUFFICES ASSUME NEW j \in 1 .. n, frames'[j].sig \notin raced',
                      Adding(j)' \/ (frames'[j].at = "test" /\ count'[frames'[j].sig] = 0),
                      NEW i \in 1 .. j - 1
               PROVE  frames'[i].at # "len"
    BY <1>2 DEF Unhurt
  <2>1. i \in 1 .. n /\ i # n
    BY <1>2
  <2>2. frames'[i] = frames[i] /\ frames'[j].sig = frames[j].sig
    BY <1>2, <2>1
  <2>3. Adding(j) \/ (frames[j].at = "test" /\ count[frames[j].sig] = 0)
    <3>1. CASE j = n
      BY <1>2, <3>1 DEF Adding
    <3>2. CASE j # n
      <4>1. frames'[j] = frames[j]
        BY <1>2, <3>2
      <4> QED
        BY <1>1, <4>1 DEF Adding
    <3> QED
      BY <3>1, <3>2
  <2>4. frames[j].sig \notin raced
    BY <1>1, <2>2
  <2>5. frames[i].at # "len"
    BY <2>3, <2>4 DEF Unhurt
  <2> QED
    BY <2>2, <2>5
<1>13. Kept'
  <2> SUFFICES ASSUME NEW t \in Sig \ raced, Received(t)
               PROVE  \E p \in Written' : queue'[p] = t /\ ~ Condemned(p)'
    BY <1>1, <1>5 DEF Kept
  <2>1. PICK p \in Written : queue[p] = t /\ ~ Condemned(p)
    BY DEF Kept
  <2>2. ~ (x <= p) /\ p \in Nat
    BY <1>2, <2>1, WrittenDef DEF Condemned
  <2>3. p \in Written'
    BY <1>2, <1>4, <2>2
  <2> QED
    BY <1>1, <1>6, <2>1, <2>3
<1>14. Lost'
  <2>1. ASSUME NEW t \in raced, Dropped(t) PROVE Dropped(t)'
    BY <1>1, <1>4, <1>5, <1>6, <2>1 DEF Dropped, TypeOK
  <2>2. ASSUME NEW t \in raced, Doomed(t) PROVE Doomed(t)'
    <3>1. PICK i \in 1 .. n, j \in 1 .. n :
            /\ i < j /\ frames[i].at = "len"
            /\ frames[j].sig = t /\ count[t] = 0
            /\ \/ frames[j].at \in {"test", "load"}
               \/ frames[j].at \in {"len", "slot"} /\ frames[i].idx <= frames[j].idx
      BY <2>2 DEF Doomed
    <3>2. /\ frames'[i] = frames[i] /\ i \in 1 .. n' /\ j \in 1 .. n'
          /\ frames'[j].sig = t /\ count'[t] = 0
      BY <1>1, <1>2, <3>1
    <3>3. \/ frames'[j].at \in {"test", "load"}
          \/ frames'[j].at \in {"len", "slot"} /\ frames'[i].idx <= frames'[j].idx
      <4>1. CASE j = n
        BY <1>2, <3>1, <3>2, <4>1
      <4>2. CASE j # n
        <5>1. frames'[j] = frames[j]
          BY <1>2, <4>2
        <5> QED
          BY <3>1, <3>2, <5>1
      <4> QED
        BY <4>1, <4>2
    <3> QED
      BY <3>1, <3>2, <3>3 DEF Doomed
  <2> QED
    BY <1>1, <2>1, <2>2 DEF Lost
<1> QED
  BY <1>7, <1>8, <1>9, <1>10, <1>11, <1>12, <1>13, <1>14

\* The reserved slot gets the signal, which no other slot holds.
LEMMA HandlerStoreSlotInv ==
  ASSUME SignalInv, HandlerStoreSlot
  PROVE  SignalInv'
<1> USE DEF SignalInv
<1>0. PICK x, s : x = frames[n].idx /\ s = frames[n].sig
  OBVIOUS
<1>1. /\ frames # << >> /\ Top.at = "slot" /\ queue' = [queue EXCEPT ![Top.idx] = Top.sig]
      /\ Goto("count", Top.idx)
      /\ UNCHANGED <<registered, sent, pending, len, count, pc, cur_pos, is_stop, raced>>
  BY DEF HandlerStoreSlot
<1>2. /\ n \in Nat /\ n \in 1 .. n /\ n' = n /\ frames' \in Seq(Frame)
      /\ frames[n].at = "slot" /\ x \in Nat /\ s \in Sig
      /\ queue' = [queue EXCEPT ![x] = s]
      /\ frames'[n].at = "count"
      /\ \A i \in 1 .. n : i # n => i < n /\ frames'[i] = frames[i]
      /\ \A i \in 1 .. n : frames'[i].sig = frames[i].sig
  <2>1. n \in Nat /\ n \in 1 .. n /\ Top = frames[n]
    BY <1>1 DEF TypeOK, n, Top
  <2>2. "count" \in Steps /\ x \in Nat /\ s \in Sig /\ Goto("count", x)
    BY <1>0, <1>1, <2>1, FrameType DEF Steps
  <2>3. /\ n' = n /\ frames' \in Seq(Frame)
        /\ frames'[n].at = "count"
        /\ \A i \in 1 .. n : i # n => i < n /\ frames'[i] = frames[i]
        /\ \A i \in 1 .. n : frames'[i].sig = frames[i].sig
    BY <1>1, <2>2, GotoFacts
  <2> QED
    BY <1>0, <1>1, <2>1, <2>2, <2>3
<1>3. /\ pc # "process" /\ len \in 0 .. MAX_SIGNAL /\ x \in 0 .. len - 1
      /\ x \in 0 .. MAX_SIGNAL - 1
  <2>1. pc # "process" /\ len \in 0 .. MAX_SIGNAL /\ x < len
    BY <1>0, <1>1, <1>2 DEF Nesting, TypeOK, Indices
  <2> QED
    BY <1>2, <2>1, SignalAssumption
<1>4. /\ queue'[x] = s /\ \A p \in 0 .. MAX_SIGNAL - 1 : p # x => queue'[p] = queue[p]
      /\ queue' \in [0 .. MAX_SIGNAL - 1 -> Sig \cup {NoSig}]
  <2> QED
    BY <1>2, <1>3 DEF TypeOK
<1>5. ~ Received(s)
  <2>1. count[s] = 0
    BY <1>0, <1>2 DEF Fresh, Adding
  <2>2. ~ Past(s)
    BY <1>0, <1>2 DEF Past, Nesting
  <2> QED
    BY <2>1, <2>2 DEF Received
<1>6. x \notin Written /\ \A p : p \in Written' <=> p \in Written \/ p = x
  <2>1. x \notin Written
    BY <1>0, <1>2, WrittenDef
  <2>2. \A i \in 1 .. n : i # n /\ frames[i].at = "slot" => frames[i].idx # x
    BY <1>0, <1>2 DEF Indices
  <2> SUFFICES ASSUME NEW p PROVE p \in Written' <=> p \in Written \/ p = x
    BY <2>1
  <2>3. (\A i \in 1 .. n' : frames'[i].at = "slot" => frames'[i].idx # p)
          <=> p = x \/ (\A i \in 1 .. n : frames[i].at = "slot" => frames[i].idx # p)
    BY <1>0, <1>2, <2>2
  <2> QED
    BY <1>1, <1>3, <2>3, WrittenDef
<1>7. \A p \in Written : queue'[p] = queue[p] /\ queue[p] \in Sig /\ Received(queue[p])
  <2>1. \A p \in Written : p \in 0 .. MAX_SIGNAL - 1
    BY WrittenDef, SignalAssumption DEF TypeOK
  <2> QED
    BY <1>3, <1>4, <1>6, <2>1 DEF Slots
<1>8. \A t \in Sig : Received(t)' <=> Received(t) \/ t = s
  <2> SUFFICES ASSUME NEW t \in Sig PROVE Received(t)' <=> Received(t) \/ t = s
    OBVIOUS
  <2>1. \A i \in 1 .. n : /\ frames'[i].sig = frames[i].sig
                         /\ frames'[i].at = "count" <=> frames[i].at = "count" \/ i = n
    BY <1>0, <1>2
  <2>2. Past(t)' <=> Past(t) \/ t = s
    BY <1>0, <1>2, <2>1 DEF Past
  <2> QED
    BY <1>1, <2>2 DEF Received
<1>9. \A p : Condemned(p)' <=> Condemned(p)
  BY <1>2 DEF Condemned
<1>10. TypeOK'
  BY <1>1, <1>2, <1>4 DEF TypeOK
<1>11. Nesting'
  BY <1>1, <1>2 DEF Nesting
<1>12. Fresh'
  BY <1>1, <1>2 DEF Fresh, Adding
<1>13. Indices'
  <2>1. \A i \in 1 .. n' : frames'[i].at \in {"len", "slot"} =>
          i \in 1 .. n /\ frames'[i] = frames[i]
    BY <1>2
  <2> QED
    BY <1>1, <1>2, <2>1, SameIndices
<1>14. Slots' /\ Processing'
  <2>1. ASSUME NEW p \in Written' PROVE queue'[p] \in Sig /\ Received(queue[p])'
    <3>1. CASE p = x
      <4>1. Received(s)' /\ queue'[p] = s
        BY <1>2, <1>4, <1>8, <3>1
      <4> QED
        BY <1>2, <4>1 DEF Received, Past
    <3>2. CASE p # x
      <4>1. queue'[p] = queue[p] /\ queue[p] \in Sig /\ Received(queue[p])'
        BY <1>6, <1>7, <1>8, <3>2 DEF Received, Past
      <4> QED
        BY <4>1
    <3> QED
      BY <3>1, <3>2
  <2>2. ASSUME NEW p \in Written', NEW q \in Written', queue'[p] = queue'[q] PROVE p = q
    BY <1>4, <1>5, <1>6, <1>7, <2>2 DEF Slots
  <2> QED
    BY <1>1, <1>3, <2>1, <2>2 DEF Slots, Processing
<1>15. Unhurt'
  BY <1>1, <1>2 DEF Unhurt, Adding
<1>16. Kept'
  <2> SUFFICES ASSUME NEW t \in Sig \ raced, Received(t)'
               PROVE  \E p \in Written' : queue'[p] = t /\ ~ Condemned(p)'
    BY <1>1 DEF Kept
  <2>1. CASE t = s
    <3>1. \A i \in 1 .. n : frames[i].at # "len"
      BY <1>0, <1>2, <2>1 DEF Unhurt, Adding
    <3>2. ~ Condemned(x)'
      BY <1>9, <3>1 DEF Condemned
    <3> QED
      BY <1>4, <1>6, <2>1, <3>2
  <2>2. CASE t # s
    <3>1. PICK p \in Written : queue[p] = t /\ ~ Condemned(p)
      BY <1>8, <2>2 DEF Kept
    <3>2. p \in Written' /\ queue'[p] = t /\ ~ Condemned(p)'
      BY <1>6, <1>7, <1>9, <3>1
    <3> QED
      BY <3>2
  <2> QED
    BY <2>1, <2>2
<1>17. Lost'
  <2>1. ASSUME NEW t \in raced, Dropped(t) PROVE Dropped(t)'
    <3>1. t \in Sig /\ t # s
      BY <1>5, <2>1 DEF Dropped, TypeOK
    <3> QED
      BY <1>4, <1>6, <1>7, <1>8, <1>9, <2>1, <3>1 DEF Dropped
  <2>2. ASSUME NEW t \in raced, Doomed(t) PROVE Dropped(t)' \/ Doomed(t)'
    <3>1. PICK i \in 1 .. n, j \in 1 .. n :
            /\ i < j /\ frames[i].at = "len"
            /\ frames[j].sig = t /\ count[t] = 0
            /\ \/ frames[j].at \in {"test", "load"}
               \/ frames[j].at \in {"len", "slot"} /\ frames[i].idx <= frames[j].idx
      BY <2>2 DEF Doomed
    <3>2. CASE j = n
      <4>1. t = s /\ frames[i].at = "len" /\ frames[i].idx <= x
        BY <1>0, <1>2, <3>1, <3>2
      <4>2. Condemned(x)
        BY <4>1 DEF Condemned
      <4>3. \A p \in Written' : queue'[p] = s => p = x
        BY <1>5, <1>6, <1>7
      <4> QED
        BY <1>2, <1>8, <1>9, <4>1, <4>2, <4>3 DEF Dropped
    <3>3. CASE j # n
      <4>1. /\ frames'[i] = frames[i] /\ frames'[j] = frames[j] /\ count'[t] = 0
            /\ i \in 1 .. n' /\ j \in 1 .. n'
        BY <1>1, <1>2, <3>1, <3>3
      <4>2. /\ frames'[i].at = "len" /\ frames'[j].sig = t
            /\ \/ frames'[j].at \in {"test", "load"}
               \/ frames'[j].at \in {"len", "slot"} /\ frames'[i].idx <= frames'[j].idx
        BY <3>1, <4>1
      <4> QED
        BY <3>1, <4>1, <4>2 DEF Doomed
    <3> QED
      BY <3>2, <3>3
  <2> QED
    BY <1>1, <2>1, <2>2 DEF Lost
<1> QED
  BY <1>10, <1>11, <1>12, <1>13, <1>14, <1>15, <1>16, <1>17

\* The innermost handler counts its signal and is gone.
LEMMA HandlerReturnInv ==
  ASSUME SignalInv, HandlerReturn
  PROVE  SignalInv'
<1> USE DEF SignalInv
<1>0. PICK s : s = frames[n].sig
  OBVIOUS
<1>1. /\ frames # << >> /\ Top.at = "count"
      /\ count' = [count EXCEPT ![Top.sig] = @ + 1]
      /\ frames' = SubSeq(frames, 1, Len(frames) - 1)
      /\ UNCHANGED <<registered, sent, pending, queue, len, pc, cur_pos, is_stop, raced>>
  BY DEF HandlerReturn
<1>2. /\ n \in Nat /\ n \in 1 .. n /\ Top = frames[n]
      /\ frames' \in Seq(Frame) /\ n' = n - 1
      /\ \A i \in 1 .. n' : frames'[i] = frames[i]
      /\ \A i : i \in 1 .. n' <=> i \in 1 .. n /\ i # n
  <2>1. n \in Nat /\ n \in 1 .. n /\ Top = frames[n]
    BY <1>1 DEF TypeOK, n, Top
  <2>2. frames' \in Seq(Frame) /\ n' = n - 1 /\ \A i \in 1 .. n - 1 : frames'[i] = frames[i]
    <3>1. frames \in Seq(Frame) /\ frames' = SubSeq(frames, 1, n - 1) /\ n = Len(frames)
      BY <1>1 DEF TypeOK, n
    <3>2. n - 1 \in Nat /\ \A i \in 1 .. n - 1 : i \in 1 .. n
      BY <2>1
    <3>3. frames' \in Seq(Frame)
      BY <3>1, <3>2
    <3>4. Len(frames') = n - 1
      BY <3>1, <3>2
    <3>5. \A i \in 1 .. n - 1 : frames'[i] = frames[i]
      BY <3>1, <3>2
    <3> QED
      BY <3>3, <3>4, <3>5 DEF n
  <2> QED
    BY <2>1, <2>2
<1>3. /\ s \in Sig /\ frames[n].at = "count" /\ count'[s] > 0 /\ count' \in [Sig -> Nat]
      /\ \A t \in Sig : t # s => count'[t] = count[t]
  <2>1. s \in Sig /\ frames[n].at = "count" /\ count' = [count EXCEPT ![s] = @ + 1]
    BY <1>0, <1>1, <1>2, FrameType
  <2> QED
    BY <2>1 DEF TypeOK
<1>4. pc # "process"
  BY <1>1 DEF Nesting
<1>5. \A p : p \in Written' <=> p \in Written
  <2> SUFFICES ASSUME NEW p PROVE p \in Written' <=> p \in Written
    OBVIOUS
  <2>1. (\A i \in 1 .. n' : frames'[i].at = "slot" => frames'[i].idx # p)
          <=> (\A i \in 1 .. n : frames[i].at = "slot" => frames[i].idx # p)
    BY <1>2, <1>3
  <2> QED
    BY <1>1, <2>1, WrittenDef
<1>6. \A t \in Sig : Received(t)' <=> Received(t)
  <2>1. Received(s) /\ Received(s)'
    BY <1>0, <1>2, <1>3 DEF Received, Past
  <2>2. ASSUME NEW t \in Sig, t # s PROVE Received(t)' <=> Received(t)
    <3>1. Past(t)' <=> Past(t)
      BY <1>0, <1>2, <2>2 DEF Past
    <3> QED
      BY <1>3, <2>2, <3>1 DEF Received
  <2> QED
    BY <2>1, <2>2
<1>7. \A p : Condemned(p)' <=> Condemned(p)
  BY <1>2, <1>3 DEF Condemned
<1>s. \A i \in 1 .. n' : frames'[i].sig # s /\ frames'[i].sig \in Sig
  BY <1>0, <1>2, FrameType DEF Nesting
<1>8. TypeOK'
  BY <1>1, <1>2, <1>3 DEF TypeOK
<1>9. Nesting'
  <2>1. \A i, j \in 1 .. n' : frames'[i].sig = frames'[j].sig => i = j
    BY <1>2 DEF Nesting
  <2>2. \A i \in 1 .. n' : frames'[i].sig \in registered
    BY <1>2 DEF Nesting
  <2>3. \A t \in Sig : count'[t] > 0 => t \in registered
    BY <1>0, <1>2, <1>3 DEF Nesting
  <2> QED
    BY <1>1, <1>4, <2>1, <2>2, <2>3 DEF Nesting
<1>10. Fresh'
  BY <1>2, <1>3, <1>s DEF Fresh, Adding
<1>11. Indices'
  <2>1. \A i \in 1 .. n' : frames'[i].at \in {"len", "slot"} =>
          i \in 1 .. n /\ frames'[i] = frames[i]
    BY <1>2
  <2> QED
    BY <1>1, <2>1, SameIndices
<1>12. Slots' /\ Processing'
  BY <1>1, <1>4, <1>5, <1>6 DEF Slots, Processing
<1>13. Unhurt'
  <2> SUFFICES ASSUME NEW j \in 1 .. n', NEW i \in 1 .. j - 1,
                      frames'[j].sig \notin raced',
                      Adding(j)' \/ (frames'[j].at = "test" /\ count'[frames'[j].sig] = 0)
               PROVE  frames'[i].at # "len"
    BY DEF Unhurt
  <2>1. /\ j \in 1 .. n /\ i \in 1 .. n' /\ frames'[i] = frames[i] /\ frames'[j] = frames[j]
    BY <1>2
  <2>2. frames[j].sig \notin raced /\ count'[frames[j].sig] = count[frames[j].sig]
    BY <1>1, <1>3, <1>s, <2>1
  <2>3. Adding(j) \/ (frames[j].at = "test" /\ count[frames[j].sig] = 0)
    BY <2>1, <2>2 DEF Adding
  <2> QED
    BY <2>1, <2>2, <2>3 DEF Unhurt
<1>14. Kept'
  BY <1>1, <1>5, <1>6, <1>7 DEF Kept
<1>15. Lost'
  <2>1. ASSUME NEW t \in raced, Dropped(t) PROVE Dropped(t)'
    BY <1>1, <1>5, <1>6, <1>7, <2>1 DEF Dropped, TypeOK
  <2>2. ASSUME NEW t \in raced, Doomed(t) PROVE Doomed(t)'
    <3>1. PICK i \in 1 .. n, j \in 1 .. n :
            /\ i < j /\ frames[i].at = "len"
            /\ frames[j].sig = t /\ count[t] = 0
            /\ \/ frames[j].at \in {"test", "load"}
               \/ frames[j].at \in {"len", "slot"} /\ frames[i].idx <= frames[j].idx
      BY <2>2 DEF Doomed
    <3>2. j # n /\ i # n
      BY <1>2, <1>3, <3>1
    <3>3. /\ i \in 1 .. n' /\ j \in 1 .. n' /\ frames'[i] = frames[i] /\ frames'[j] = frames[j]
      BY <1>2, <3>2
    <3>4. count'[t] = 0
      BY <1>3, <1>s, <3>1, <3>3 DEF TypeOK
    <3>5. /\ frames'[i].at = "len" /\ frames'[j].sig = t
          /\ \/ frames'[j].at \in {"test", "load"}
             \/ frames'[j].at \in {"len", "slot"} /\ frames'[i].idx <= frames'[j].idx
      BY <3>1, <3>3
    <3> QED
      BY <3>1, <3>3, <3>4, <3>5 DEF Doomed
  <2> QED
    BY <1>1, <2>1, <2>2 DEF Lost
<1> QED
  BY <1>8, <1>9, <1>10, <1>11, <1>12, <1>13, <1>14, <1>15

----------------------------------------------------------------------------
(* The main program, which runs when no handler does.                      *)

\* Without a handler the invariant is about the queue and the counts only.
Quiet ==
  /\ \A p : p \in Written <=> p \in 0 .. len - 1
  /\ \A p, q \in 0 .. len - 1 : queue[p] = queue[q] => p = q
  /\ \A p \in 0 .. len - 1 : queue[p] \in Sig /\ (pc = "process" \/ count[queue[p]] > 0)
  /\ \A t \in Sig \ raced : count[t] > 0 => \E p \in 0 .. len - 1 : queue[p] = t
  /\ \A t \in raced : count[t] > 0 /\ \A p \in 0 .. len - 1 : queue[p] # t
  /\ \A t \in Sig : count[t] > 0 => t \in registered
  /\ pc = "process" =>
       \A p \in 0 .. len - 1 : IF p < cur_pos THEN count[queue[p]] = 0 ELSE count[queue[p]] > 0

\* With no handler running the invariant says where every signal is.
LEMMA QuietInv ==
  ASSUME SignalInv, frames = << >>
  PROVE  Quiet
<1> USE DEF SignalInv
<1>1. n = 0 /\ 1 .. n = {}
  BY DEF n
<1>2. \A p : p \in Written <=> p \in 0 .. len - 1
  BY <1>1, WrittenDef
<1>3. /\ \A t : Received(t) <=> count[t] > 0
      /\ \A p : ~ Condemned(p)
      /\ \A t : ~ Doomed(t)
  BY <1>1 DEF Received, Past, Condemned, Doomed
<1> QED
  BY <1>2, <1>3 DEF Quiet, Slots, Kept, Lost, Dropped, Nesting, Processing, TypeOK

\* When the last handler has returned this is the invariant again.
LEMMA QuietBack ==
  ASSUME frames' = << >>, TypeOK', Quiet'
  PROVE  SignalInv'
<1>1. n' = 0 /\ 1 .. n' = {}
  BY DEF n
<1>2. \A p : p \in Written' <=> p \in 0 .. len' - 1
  BY <1>1, WrittenDef
<1>3. /\ \A t : Received(t)' <=> count'[t] > 0
      /\ \A p : ~ Condemned(p)'
  BY <1>1 DEF Received, Past, Condemned
<1>4. Nesting' /\ Fresh' /\ Indices' /\ Unhurt'
  BY <1>1 DEF Nesting, Fresh, Indices, Unhurt, Quiet
<1>5. Slots' /\ Processing'
  BY <1>2, <1>3 DEF Slots, Processing, Quiet, Received
<1>6. Kept' /\ Lost'
  BY <1>2, <1>3 DEF Kept, Lost, Dropped, Quiet
<1> QED
  BY <1>4, <1>5, <1>6 DEF SignalInv

\* Registering clears the count of a signal that could not be received so far.
LEMMA RegisterInv ==
  ASSUME SignalInv, NEW s \in Sig, signal_register(s)
  PROVE  SignalInv'
<1>1. /\ frames = << >> /\ pc = "init" /\ s \notin registered
      /\ registered' = registered \cup {s}
      /\ count' = [count EXCEPT ![s] = 0]
      /\ pc' # "process"
      /\ UNCHANGED <<sent, pending, frames, queue, len, cur_pos, is_stop, raced>>
  BY DEF signal_register
<1>2. Quiet /\ TypeOK
  BY <1>1, QuietInv DEF SignalInv
<1>3. count' = count
  BY <1>1, <1>2 DEF Quiet, TypeOK
<1>4. TypeOK'
  BY <1>1, <1>2, <1>3 DEF TypeOK
<1>5. Written' = Written
  BY <1>1 DEF Written
<1>6. Quiet'
  BY <1>1, <1>2, <1>3, <1>5 DEF Quiet
<1> QED
  BY <1>1, <1>4, <1>6, QuietBack

\* From the test of the queue to the end of the loop over it.
LEMMA ProcessInv ==
  ASSUME SignalInv, signal_process_queue \/ ProcessEntry \/ ProcessEnd
  PROVE  SignalInv'
<1>1. frames = << >> /\ frames' = << >> /\ UNCHANGED <<registered, sent, pending, queue, raced>>
  BY DEF signal_process_queue, ProcessEntry, ProcessEnd
<1>2. Quiet /\ TypeOK
  BY <1>1, QuietInv DEF SignalInv
<1>w. \A p : p \in Written' <=> p \in 0 .. len' - 1
  <2>1. 1 .. n' = {}
    BY <1>1 DEF n
  <2> QED
    BY <2>1, WrittenDef
<1>3. CASE signal_process_queue
  <2>1. /\ pc = "loop" /\ pc' \in {"poll", "process"} /\ cur_pos' = 0 /\ UNCHANGED <<len, count>>
    BY <1>3 DEF signal_process_queue
  <2>2. TypeOK'
    BY <1>1, <1>2, <2>1 DEF TypeOK
  <2>3. Quiet'
    BY <1>1, <1>2, <1>w, <2>1 DEF Quiet
  <2> QED
    BY <1>1, <2>2, <2>3, QuietBack
<1>4. CASE ProcessEntry
  <2>1. PICK s : s = queue[cur_pos]
    OBVIOUS
  <2>2. /\ pc = "process" /\ cur_pos < len /\ count' = [count EXCEPT ![s] = 0]
        /\ cur_pos' = cur_pos + 1 /\ UNCHANGED <<len, pc>>
    BY <1>4, <2>1 DEF ProcessEntry
  <2>3. cur_pos \in 0 .. len - 1 /\ s \in Sig /\ len \in Nat /\ cur_pos \in Nat
    BY <1>2, <2>1, <2>2 DEF TypeOK, Quiet
  <2>4. /\ count' \in [Sig -> Nat] /\ count'[s] = 0
        /\ \A t \in Sig : t # s => count'[t] = count[t]
    BY <1>2, <2>2, <2>3 DEF TypeOK
  <2>5. TypeOK'
    BY <1>1, <1>2, <2>2, <2>4 DEF TypeOK
  <2>6. \A p \in 0 .. len - 1 : queue[p] = s <=> p = cur_pos
    BY <1>2, <2>1, <2>3 DEF Quiet
  <2>7. \A p \in 0 .. len - 1 : IF p < cur_pos' THEN count'[queue[p]] = 0 ELSE count'[queue[p]] > 0
    <3> SUFFICES ASSUME NEW p \in 0 .. len - 1
                 PROVE  IF p < cur_pos + 1 THEN count'[queue[p]] = 0 ELSE count'[queue[p]] > 0
      BY <2>2
    <3>1. queue[p] \in Sig /\ IF p < cur_pos THEN count[queue[p]] = 0 ELSE count[queue[p]] > 0
      BY <1>2, <2>2 DEF Quiet
    <3>2. CASE p = cur_pos
      BY <2>3, <2>4, <2>6, <3>2
    <3>3. CASE p # cur_pos
      <4>1. p < cur_pos + 1 <=> p < cur_pos
        BY <2>3, <3>3
      <4> QED
        BY <2>4, <2>6, <3>1, <3>3, <4>1
    <3> QED
      BY <3>2, <3>3
  <2>8. \A t \in Sig \ raced : count'[t] > 0 => \E p \in 0 .. len - 1 : queue[p] = t
    BY <1>2, <2>4 DEF Quiet
  <2>9. \A t \in raced : count'[t] > 0 /\ \A p \in 0 .. len - 1 : queue[p] # t
    <3> SUFFICES ASSUME NEW t \in raced
                 PROVE  count'[t] > 0 /\ \A p \in 0 .. len - 1 : queue[p] # t
      OBVIOUS
    <3>1. t \in Sig /\ count[t] > 0 /\ \A p \in 0 .. len - 1 : queue[p] # t
      BY <1>2 DEF Quiet, TypeOK
    <3>2. t # s
      BY <2>3, <2>6, <3>1
    <3> QED
      BY <2>4, <3>1, <3>2
  <2>10. \A t \in Sig : count'[t] > 0 => t \in registered
    BY <1>2, <2>4 DEF Quiet
  <2>11. Quiet'
    BY <1>1, <1>2, <1>w, <2>2, <2>7, <2>8, <2>9, <2>10 DEF Quiet
  <2> QED
    BY <1>1, <2>5, <2>11, QuietBack
<1>5. CASE ProcessEnd
  <2>1. /\ pc = "process" /\ ~ (cur_pos < len) /\ len' = 0 /\ pc' = "poll"
        /\ UNCHANGED <<count, cur_pos>>
    BY <1>5 DEF ProcessEnd
  <2>2. TypeOK'
    BY <1>1, <1>2, <2>1, SignalAssumption DEF TypeOK
  <2>3. \A p \in 0 .. len - 1 : count[queue[p]] = 0
    <3>1. \A p \in 0 .. len - 1 : p < cur_pos
      BY <1>2, <2>1 DEF TypeOK
    <3> QED
      BY <1>2, <2>1, <3>1 DEF Quiet
  <2>4. \A t \in Sig : count[t] > 0 => t \in raced
    BY <1>2, <2>3 DEF Quiet
  <2>5. 0 .. len' - 1 = {}
    BY <2>1
  <2>6. Quiet'
    BY <1>1, <1>2, <1>w, <2>1, <2>4, <2>5 DEF Quiet
  <2> QED
    BY <1>1, <2>2, <2>6, QuietBack
<1> QED
  BY <1>3, <1>4, <1>5

----------------------------------------------------------------------------

\* Steps that touch neither the handlers nor the queue.
LEMMA IdleInv ==
  ASSUME SignalInv, TypeOK',
         UNCHANGED <<registered, frames, queue, len, count, cur_pos, raced>>,
         pc' = "process" <=> pc = "process"
  PROVE  SignalInv'
<1>1. n' = n /\ Written' = Written
  BY DEF n, Written
<1>2. Nesting' /\ Fresh' /\ Indices' /\ Unhurt'
  BY <1>1 DEF SignalInv, Nesting, Fresh, Indices, Unhurt, Adding
<1>3. \A t : (Received(t)' <=> Received(t)) /\ (Doomed(t)' <=> Doomed(t))
  BY <1>1 DEF Received, Past, Doomed
<1>4. \A p : Condemned(p)' <=> Condemned(p)
  BY <1>1 DEF Condemned
<1>5. Slots' /\ Processing'
  BY <1>1, <1>3 DEF SignalInv, Slots, Processing
<1>6. Kept' /\ Lost'
  BY <1>1, <1>3, <1>4 DEF SignalInv, Kept, Lost, Dropped
<1> QED
  BY <1>2, <1>5, <1>6 DEF SignalInv

\* Every step keeps the invariant.
LEMMA NextInv ==
  ASSUME SignalInv, [Next]_vars
  PROVE  SignalInv'
<1>1. ASSUME NEW s \in Sig, Raise(s) PROVE SignalInv'
  <2>1. TypeOK'
    BY <1>1 DEF SignalInv, TypeOK, Raise
  <2> QED
    BY <1>1, <2>1, IdleInv DEF Raise
<1>2. ASSUME NEW s \in Sig, Deliver(s) PROVE SignalInv'
  BY <1>2, DeliverInv
<1>3. ASSUME NEW s \in Sig, signal_register(s) PROVE SignalInv'
  BY <1>3, RegisterInv
<1>4. CASE Handler
  BY <1>4, HandlerTestInv, HandlerLoadInv, HandlerStoreLenInv, HandlerStoreSlotInv,
     HandlerReturnInv DEF Handler
<1>5. CASE signal_process_queue \/ ProcessEntry \/ ProcessEnd
  BY <1>5, ProcessInv
<1>6. CASE PollAndTest
  <2>1. TypeOK'
    BY <1>6 DEF SignalInv, TypeOK, PollAndTest
  <2> QED
    BY <1>6, <2>1, IdleInv DEF PollAndTest
<1>7. CASE UNCHANGED vars
  <2>1. TypeOK'
    BY <1>7 DEF SignalInv, TypeOK, vars
  <2> QED
    BY <1>7, <2>1, IdleInv DEF vars
<1> QED
  BY <1>1, <1>2, <1>3, <1>4, <1>5, <1>6, <1>7 DEF Next, Process, MainLoop

\* The invariant holds at the start.
LEMMA InitInv == Init => SignalInv
<1> SUFFICES ASSUME Init PROVE SignalInv
  OBVIOUS
<1>1. n = 0 /\ 1 .. n = {} /\ len = 0 /\ 0 .. len - 1 = {} /\ pc = "init"
  BY DEF Init, n
<1>2. TypeOK
  <2>1. << >> \in Seq(Frame)
    OBVIOUS
  <2> QED
    BY <2>1, SignalAssumption DEF Init, TypeOK
<1>3. \A p : p \notin Written
  BY <1>1, WrittenDef
<1>4. \A t \in Sig : ~ Received(t) /\ count[t] = 0
  BY <1>1 DEF Init, Received, Past
<1>5. raced = {}
  BY DEF Init
<1> QED
  BY <1>1, <1>2, <1>3, <1>4, <1>5 DEF SignalInv, Nesting, Fresh, Indices, Slots,
     Processing, Unhurt, Kept, Lost

\* The inductive invariant, for every set of signals and every nesting.
THEOREM SignalInvariant == Spec => []SignalInv
<1>1. SignalInv /\ [Next]_vars => SignalInv'
  BY NextInv
<1> QED
  BY <1>1, InitInv, PTL DEF Spec

\* signal.c: "All occurrences of a same signal are grouped", "the signal queue
\* does not need to be deeper than the number of signals": both hold however the
\* handlers interrupt each other.
THEOREM QueueSoundAlways == Spec => []QueueSound
<1>1. SignalInv => QueueSound
  <2> SUFFICES ASSUME SignalInv PROVE QueueSound
    OBVIOUS
  <2>1. \A i, j \in Written : queue[i] = queue[j] => i = j
    BY DEF SignalInv, Slots
  <2>2. \A p \in Written : queue[p] # NoSig
    BY SignalAssumption DEF SignalInv, Slots
  <2>3. \A s : Past(s) => s \in InHandler
    BY DEF Past, InHandler, n
  <2>4. \A p \in Written : pc = "process" \/ count[queue[p]] > 0 \/ queue[p] \in InHandler
    BY <2>3 DEF SignalInv, Slots, Received
  <2>5. \A s \in Queued : s # NoSig /\ (pc = "process" \/ count[s] > 0 \/ s \in InHandler)
    BY <2>2, <2>4 DEF Queued
  <2>6. \A i \in 1 .. Len(frames) :
          frames[i].at = "test" /\ NotQueued(frames[i].sig) => len < MAX_SIGNAL
    BY Room DEF NotQueued, n
  <2> QED
    BY <2>1, <2>5, <2>6 DEF QueueSound
<1> QED
  BY <1>1, SignalInvariant, PTL

\* The race on "signal_queue[signal_queue_len++] = sig" is the only way to lose a
\* signal.
THEOREM OnlyTheRaceLoses == Spec => []OnlyRacedLost
<1>1. SignalInv => OnlyRacedLost
  <2> SUFFICES ASSUME SignalInv, frames = << >>, NEW s \in Sig
               PROVE  count[s] > 0 => s \in Queued \cup raced
    BY DEF OnlyRacedLost
  <2>1. Quiet
    BY QuietInv
  <2>2. s \in Queued <=> \E p \in 0 .. len - 1 : queue[p] = s
    BY <2>1 DEF Quiet, Queued
  <2> QED
    BY <2>1, <2>2 DEF Quiet
<1> QED
  BY <1>1, SignalInvariant, PTL

----------------------------------------------------------------------------
(* Prefork: the inductive invariant.                                       *)

\* What peers put into the socket's queue.
Arrival == IF kind = "tcp" THEN {"conn"} ELSE {"data", "empty"}

ForkTypeOK ==
  /\ kind \in {"tcp", "udp"}
  /\ poll \in [Worker -> PollerType]
  /\ epoll \in [Worker -> [FD -> Masks]]
  /\ phase \in [Worker -> {"loop", "accept"}]
  /\ closed \subseteq Worker
  /\ backlog \in Seq(Arrival)
  /\ last \subseteq Worker
  /\ emptied \in BOOLEAN

\* The poller p has told the kernel, whose mask is k, everything about the
\* listener, or its one change remembers the kernel's mask.
ListenerInStep(p, k) ==
  \/ /\ p.chg = << >> /\ p.ptr[Listener] = 0
     /\ k[Listener] = p.evts[Listener]
  \/ /\ p.chg = <<[fd |-> Listener, prev |-> k[Listener]]>>
     /\ p.ptr[Listener] = 1

\* A worker that has an event to dispatch still listens.
Dispatching(w) == Armed(w) /\ w \notin closed

\* The worker that took the last item, and before the first one every worker,
\* listens, and if it has an event to dispatch, the item is still there: only
\* another worker could have taken it, and would be the last one then.
Safe(w) ==
  /\ Armed(w) /\ w \notin closed
  /\ phase[w] = "accept" => backlog # << >>

PreforkInv ==
  /\ ForkTypeOK
  /\ \A w \in Worker : w \notin closed => ListenerInStep(poll[w], epoll[w])
  /\ \A w \in Worker : phase[w] = "accept" => Dispatching(w)
  /\ \/ emptied
     \/ \A w \in Worker : (last = {} \/ w \in last) => Safe(w)

----------------------------------------------------------------------------
(* One worker's poller.                                                    *)

\* A wish about the listener is recorded with the kernel's mask, or leaves the
\* older record alone.
LEMMA ChangeInStep ==
  ASSUME NEW p \in PollerType, NEW k \in [FD -> Masks], NEW mask \in Masks,
         ListenerInStep(p, k)
  PROVE  /\ ChangeMask(p, Listener, mask) \in PollerType
         /\ ListenerInStep(ChangeMask(p, Listener, mask), k)
<1>1. Listener \in FD
  BY PreforkAssumption
<1>2. ChangeMask(p, Listener, mask) \in PollerType
  BY <1>1, ChangeMaskType
<1> DEFINE q == ChangeMask(p, Listener, mask)
<1>3. CASE p.chg = << >> /\ p.ptr[Listener] = 0 /\ k[Listener] = p.evts[Listener]
  <2>1. /\ q.chg = Append(p.chg, [fd |-> Listener, prev |-> p.evts[Listener]])
        /\ q.ptr = [p.ptr EXCEPT ![Listener] = Len(p.chg) + 1]
    BY <1>1, <1>3 DEF ChangeMask, alloc_chg_list
  <2>2. q.chg = <<[fd |-> Listener, prev |-> k[Listener]]>>
    BY <1>3, <2>1
  <2>3. q.ptr[Listener] = 1
    BY <1>1, <1>3, <2>1 DEF PollerType
  <2> QED
    BY <1>2, <2>2, <2>3 DEF ListenerInStep
<1>4. CASE /\ p.chg = <<[fd |-> Listener, prev |-> k[Listener]]>>
           /\ p.ptr[Listener] = 1
  <2>1. q.chg = p.chg /\ q.ptr = p.ptr
    BY <1>4 DEF ChangeMask, alloc_chg_list
  <2> QED
    BY <1>2, <1>4, <2>1 DEF ListenerInStep
<1> QED
  BY <1>3, <1>4 DEF ListenerInStep

\* So is a wish for one direction.
LEMMA SetClrInStep ==
  ASSUME NEW p \in PollerType, NEW k \in [FD -> Masks], NEW dir \in Dir,
         ListenerInStep(p, k)
  PROVE  /\ fd_set(p, Listener, dir) \in PollerType
         /\ ListenerInStep(fd_set(p, Listener, dir), k)
         /\ fd_clr(p, Listener, dir) \in PollerType
         /\ ListenerInStep(fd_clr(p, Listener, dir), k)
<1>1. /\ p.evts[Listener] \cup {dir} \in Masks
      /\ p.evts[Listener] \ {dir} \in Masks
  BY PreforkAssumption DEF PollerType, Masks
<1>2. /\ fd_set(p, Listener, dir) \in PollerType
      /\ ListenerInStep(fd_set(p, Listener, dir), k)
  <2> DEFINE m == p.evts[Listener] \cup {dir}
  <2>1. ChangeMask(p, Listener, m) \in PollerType /\ ListenerInStep(ChangeMask(p, Listener, m), k)
    <3>1. m \in Masks
      BY <1>1
    <3> HIDE DEF m
    <3> QED
      BY <3>1, ChangeInStep
  <2> QED
    BY <2>1 DEF fd_set
<1>3. /\ fd_clr(p, Listener, dir) \in PollerType
      /\ ListenerInStep(fd_clr(p, Listener, dir), k)
  <2> DEFINE m == p.evts[Listener] \ {dir}
  <2>1. ChangeMask(p, Listener, m) \in PollerType /\ ListenerInStep(ChangeMask(p, Listener, m), k)
    <3>1. m \in Masks
      BY <1>1
    <3> HIDE DEF m
    <3> QED
      BY <3>1, ChangeInStep
  <2> QED
    BY <2>1 DEF fd_clr
<1> QED
  BY <1>2, <1>3

\* And whatever a callback returns.
LEMMA RecheckInStep ==
  ASSUME NEW p \in PollerType, NEW k \in [FD -> Masks], NEW flag,
         ListenerInStep(p, k)
  PROVE  /\ recheck_flags(p, Listener, flag) \in PollerType
         /\ ListenerInStep(recheck_flags(p, Listener, flag), k)
<1> DEFINE clr(q, f, d) == IF f \in flag THEN fd_clr(q, Listener, d) ELSE q
           set(q, f, d) == IF f \in flag THEN fd_set(q, Listener, d) ELSE q
           Good(q) == q \in PollerType /\ ListenerInStep(q, k)
<1>1. ASSUME NEW q, Good(q), NEW f, NEW d \in Dir
      PROVE  Good(clr(q, f, d)) /\ Good(set(q, f, d))
  BY <1>1, SetClrInStep
<1>2. "RD" \in Dir /\ "WR" \in Dir
  BY DEF Dir
<1> DEFINE a == clr(p, "CLOSE_RD", "RD")
           b == clr(a, "CLOSE_WR", "WR")
           c == set(b, "SET_RD", "RD")
           e == set(c, "SET_WR", "WR")
<1>3. recheck_flags(p, Listener, flag) = e
  BY DEF recheck_flags
<1> HIDE DEF clr, set, Good
<1>4. Good(p)
  BY DEF Good
<1>5. Good(a)
  BY <1>1, <1>2, <1>4
<1>6. Good(b)
  BY <1>1, <1>2, <1>5
<1>7. Good(c)
  BY <1>1, <1>2, <1>6
<1>8. Good(e)
  BY <1>1, <1>2, <1>7
<1> QED
  BY <1>3, <1>8 DEF Good

\* poll_do() brings the kernel's mask up to date.
LEMMA FlushInStep ==
  ASSUME NEW p \in PollerType, NEW k \in [FD -> Masks], ListenerInStep(p, k)
  PROVE  LET k2 == IF p.chg = << >> THEN k ELSE flush_ctl(p, k, FD, 1)
             q  == IF p.chg = << >> THEN p ELSE flush_end(flush_ptr(p, 1))
         IN  /\ k2[Listener] = p.evts[Listener]
             /\ ListenerInStep(q, k2)
<1>1. Listener \in FD /\ p.evts[Listener] \in Masks /\ k[Listener] \in Masks
  BY PreforkAssumption DEF PollerType
<1>2. CASE p.chg = << >> /\ p.ptr[Listener] = 0 /\ k[Listener] = p.evts[Listener]
  BY <1>2 DEF ListenerInStep
<1>3. CASE /\ p.chg = <<[fd |-> Listener, prev |-> k[Listener]]>>
           /\ p.ptr[Listener] = 1
  <2> DEFINE q == flush_end(flush_ptr(p, 1))
             k2 == flush_ctl(p, k, FD, 1)
  <2>1. p.chg # << >> /\ p.chg[1].fd = Listener /\ p.chg[1].prev = k[Listener]
    BY <1>3
  <2>2. k2[Listener] = p.evts[Listener]
    BY <1>1, <2>1 DEF flush_ctl, epoll_ctl
  <2>3. /\ q.chg = << >> /\ q.evts = p.evts
        /\ q.ptr = [p.ptr EXCEPT ![Listener] = 0]
    BY <2>1 DEF flush_end, flush_ptr
  <2>4. q.ptr[Listener] = 0
    BY <1>1, <2>3 DEF PollerType
  <2> QED
    BY <2>1, <2>2, <2>3, <2>4 DEF ListenerInStep
<1> QED
  BY <1>2, <1>3 DEF ListenerInStep

----------------------------------------------------------------------------
(* One step per action.  Each proof shows the types, then that no worker   *)
(* loses the protection the other conjuncts give it.                       *)

\* A sleep brings the worker's mask up to date: an event can only be reported
\* to a worker that listens.
LEMMA PollWaitInv ==
  ASSUME PreforkInv, NEW w \in Worker, PollWait(w)
  PROVE  PreforkInv'
<1> USE DEF PreforkInv, ForkTypeOK
<1> DEFINE p == poll[w]
           k == IF p.chg = << >> THEN epoll[w] ELSE flush_ctl(p, epoll[w], FD, 1)
           q == IF p.chg = << >> THEN p ELSE flush_end(flush_ptr(p, 1))
<1>1. /\ poll' = [poll EXCEPT ![w] = q]
      /\ epoll' = [epoll EXCEPT ![w] = k]
      /\ phase' = [phase EXCEPT ![w] = IF /\ "RD" \in k[Listener] /\ backlog # << >>
                                          /\ w \notin closed
                                       THEN "accept" ELSE "loop"]
      /\ UNCHANGED <<kind, closed, backlog, connects, last, emptied>>
  BY DEF PollWait
<1>2. p \in PollerType /\ epoll[w] \in [FD -> Masks]
  OBVIOUS
<1>3. k \in [FD -> Masks] /\ q \in PollerType /\ q.evts = p.evts
  <2>1. CASE p.chg = << >>
    BY <1>2, <2>1
  <2>2. CASE p.chg # << >>
    <3>1. p.chg \in Seq(Entry)
      BY <1>2 DEF PollerType
    <3>2. 1 \in 1 .. Len(p.chg)
      BY <2>2, <3>1
    <3>3. flush_ctl(p, epoll[w], FD, 1) \in [FD -> Masks] /\ flush_ptr(p, 1) \in PollerType
      BY <1>2, <3>2, FlushTypes
    <3>4. flush_end(flush_ptr(p, 1)) \in PollerType
      <4>1. << >> \in Seq(Entry)
        OBVIOUS
      <4> QED
        BY <3>3, <4>1 DEF flush_end, PollerType
    <3>5. flush_end(flush_ptr(p, 1)).evts = p.evts
      BY DEF flush_end, flush_ptr
    <3> QED
      BY <2>2, <3>3, <3>4, <3>5
  <2> QED
    BY <2>1, <2>2
<1>4. w \notin closed => k[Listener] = p.evts[Listener] /\ ListenerInStep(q, k)
  BY <1>2, FlushInStep
<1> HIDE DEF k, q
<1>5. ForkTypeOK'
  BY <1>1, <1>3 DEF Arrival
<1>6. \A v \in Worker : v \notin closed' => ListenerInStep(poll'[v], epoll'[v])
  BY <1>1, <1>4
<1>7. \A v \in Worker : Armed(v)' <=> Armed(v)
  BY <1>1, <1>3 DEF Armed
<1>8. \A v \in Worker : phase'[v] = "accept" => Dispatching(v)'
  BY <1>1, <1>4, <1>7 DEF Dispatching, Armed
<1>9. \A v \in Worker : Safe(v) => Safe(v)'
  BY <1>1, <1>7 DEF Safe
<1> QED
  BY <1>1, <1>5, <1>6, <1>8, <1>9

\* A worker that takes a connection keeps its listener and is the last one; a
\* worker that finds the queue empty was not protected.
LEMMA AcceptInv ==
  ASSUME PreforkInv, NEW w \in Worker, Accept(w)
  PROVE  PreforkInv'
<1> USE DEF PreforkInv, ForkTypeOK
<1> DEFINE ret == accept_ret(Len(backlog))
           p == recheck_flags(poll[w], Listener, ret)
           q == recheck_flags(p, Listener, ret)
<1>1. /\ phase[w] = "accept" /\ kind = "tcp"
      /\ poll' = [poll EXCEPT ![w] = q]
      /\ backlog' = IF backlog = << >> THEN backlog ELSE Tail(backlog)
      /\ last' = IF backlog = << >> THEN last ELSE {w}
      /\ phase' = [phase EXCEPT ![w] = "loop"]
      /\ UNCHANGED <<kind, epoll, closed, connects, emptied>>
  BY DEF Accept
<1>2. Armed(w) /\ w \notin closed /\ ListenerInStep(poll[w], epoll[w])
  BY <1>1 DEF Dispatching
<1>3. q \in PollerType /\ ListenerInStep(q, epoll[w])
  <2>1. p \in PollerType /\ ListenerInStep(p, epoll[w])
    BY <1>2, RecheckInStep
  <2> HIDE DEF p
  <2> QED
    BY <2>1, RecheckInStep
<1>4. backlog # << >> => q = poll[w]
  <2>1. backlog # << >> => ret = {}
    BY DEF accept_ret
  <2> QED
    BY <2>1 DEF recheck_flags
<1> HIDE DEF q
<1>5. backlog' \in Seq(Arrival)' /\ last' \subseteq Worker
  BY <1>1 DEF Arrival
<1>6. ForkTypeOK'
  BY <1>1, <1>3, <1>5
<1>7. \A v \in Worker : v \notin closed' => ListenerInStep(poll'[v], epoll'[v])
  BY <1>1, <1>3
<1>8. \A v \in Worker : v # w => (Armed(v)' <=> Armed(v))
  BY <1>1 DEF Armed
<1>9. \A v \in Worker : phase'[v] = "accept" => Dispatching(v)'
  BY <1>1, <1>8 DEF Dispatching
<1>10. emptied' \/ \A v \in Worker : (last' = {} \/ v \in last') => Safe(v)'
  <2>1. CASE backlog # << >>
    <3>1. last' = {w} /\ Armed(w)'
      BY <1>1, <1>2, <1>4, <2>1 DEF Armed
    <3> QED
      BY <1>1, <1>2, <3>1 DEF Safe
  <2>2. CASE backlog = << >>
    <3>1. emptied \/ (last # {} /\ w \notin last)
      BY <1>1, <2>2 DEF Safe
    <3>2. backlog' = backlog /\ last' = last /\ emptied' = emptied
      BY <1>1, <2>2
    <3> QED
      BY <1>1, <1>8, <3>1, <3>2 DEF Safe
  <2> QED
    BY <2>1, <2>2
<1> QED
  BY <1>6, <1>7, <1>9, <1>10

\* The same for a datagram that is read ...
LEMMA UdpReadInv ==
  ASSUME PreforkInv, NEW w \in Worker, UdpRead(w)
  PROVE  PreforkInv'
<1> USE DEF PreforkInv, ForkTypeOK
<1>1. /\ phase[w] = "accept" /\ backlog # << >>
      /\ backlog' = Tail(backlog) /\ last' = {w}
      /\ phase' = [phase EXCEPT ![w] = "loop"]
      /\ UNCHANGED <<kind, poll, epoll, closed, connects, emptied>>
  BY DEF UdpRead
<1>2. ForkTypeOK'
  BY <1>1 DEF Arrival
<1>3. \A v \in Worker : Armed(v)' <=> Armed(v)
  BY <1>1 DEF Armed
<1>4. Safe(w)'
  BY <1>1, <1>3 DEF Safe, Dispatching
<1> QED
  BY <1>1, <1>2, <1>3, <1>4 DEF Dispatching, ListenerInStep

\* ... and for one that is missed, which costs the worker its socket; an empty
\* one does too, and is on record.
LEMMA UdpCloseInv ==
  ASSUME PreforkInv, NEW w \in Worker, UdpClose(w)
  PROVE  PreforkInv'
<1> USE DEF PreforkInv, ForkTypeOK
<1> DEFINE q == fd_clo(poll[w], Listener)
<1>1. /\ phase[w] = "accept"
      /\ backlog' = IF backlog = << >> THEN backlog ELSE Tail(backlog)
      /\ emptied' = (emptied \/ backlog # << >>)
      /\ poll' = [poll EXCEPT ![w] = q]
      /\ closed' = closed \cup {w}
      /\ phase' = [phase EXCEPT ![w] = "loop"]
      /\ UNCHANGED <<kind, epoll, connects, last>>
  BY DEF UdpClose
<1>2. w \notin closed /\ ListenerInStep(poll[w], epoll[w])
  BY <1>1 DEF Dispatching
<1>3. q \in PollerType
  <2>1. Listener \in FD /\ poll[w] \in PollerType
    BY PreforkAssumption
  <2>2. poll[w].ptr[Listener] \in 0 .. Len(poll[w].chg)
    <3>1. \/ Len(poll[w].chg) = 0 /\ poll[w].ptr[Listener] = 0
          \/ Len(poll[w].chg) = 1 /\ poll[w].ptr[Listener] = 1
      BY <1>2 DEF ListenerInStep
    <3> DEFINE m == Len(poll[w].chg)
               i == poll[w].ptr[Listener]
    <3>2. (m = 0 /\ i = 0) \/ (m = 1 /\ i = 1)
      BY <3>1
    <3> HIDE DEF m, i
    <3>3. i \in 0 .. m
      BY <3>2
    <3> QED
      BY <3>3 DEF m, i
  <2> QED
    BY <2>1, <2>2, FdCloFacts
<1> HIDE DEF q
<1>4. backlog' \in Seq(Arrival)' /\ closed' \subseteq Worker
  <2>1. backlog \in Seq(Arrival) /\ Arrival' = Arrival
    BY <1>1 DEF Arrival
  <2>2. backlog' \in Seq(Arrival)
    BY <1>1, <2>1
  <2> QED
    BY <1>1, <2>1, <2>2
<1>e. emptied' \in BOOLEAN
  BY <1>1, Zenon
<1>5. ForkTypeOK'
  BY <1>1, <1>3, <1>4, <1>e
<1>6. \A v \in Worker : v # w => (Armed(v)' <=> Armed(v))
  BY <1>1 DEF Armed
<1>7. \A v \in Worker : v \notin closed' => ListenerInStep(poll'[v], epoll'[v])
  BY <1>1
<1>8. \A v \in Worker : phase'[v] = "accept" => Dispatching(v)'
  BY <1>1, <1>6 DEF Dispatching
<1>9. emptied' \/ \A v \in Worker : (last' = {} \/ v \in last') => Safe(v)'
  <2>1. CASE backlog = << >>
    <3>1. emptied \/ (last # {} /\ w \notin last)
      BY <1>1, <2>1 DEF Safe
    <3> QED
      BY <1>1, <1>6, <2>1, <3>1 DEF Safe
  <2>2. CASE backlog # << >>
    BY <1>1, <2>2
  <2> QED
    BY <2>1, <2>2
<1> QED
  BY <1>5, <1>7, <1>8, <1>9

\* A peer connects, or sends a datagram.
LEMMA ConnectInv ==
  ASSUME PreforkInv, Connect
  PROVE  PreforkInv'
<1> USE DEF PreforkInv, ForkTypeOK
<1>1. PICK x \in Arrival : backlog' = Append(backlog, x)
  BY DEF Connect, Arrival
<1>2. UNCHANGED <<kind, poll, epoll, phase, closed, last, emptied>>
  BY DEF Connect
<1>3. backlog' \in Seq(Arrival)' /\ backlog' # << >>
  BY <1>1, <1>2 DEF Arrival
<1>4. ForkTypeOK'
  BY <1>2, <1>3
<1>5. \A v \in Worker : Armed(v)' <=> Armed(v)
  BY <1>2 DEF Armed
<1> QED
  BY <1>2, <1>3, <1>4, <1>5 DEF Safe, Dispatching, ListenerInStep

\* At the start every worker has asked for the listener and told nobody.
LEMMA ForkInitInv == ForkInit => PreforkInv
<1> SUFFICES ASSUME ForkInit PROVE PreforkInv
  OBVIOUS
<1> DEFINE none == [fd \in FD |-> {}]
           p == fd_set(poll_init, Listener, "RD")
<1>1. Listener \in FD /\ "RD" \in Dir /\ none \in [FD -> Masks]
  BY PreforkAssumption DEF Dir, Masks
<1>2. poll_init \in PollerType
  <2>1. << >> \in Seq(Entry)
    OBVIOUS
  <2> QED
    BY <2>1 DEF poll_init, PollerType, Masks
<1>3. ListenerInStep(poll_init, none)
  BY <1>1 DEF ListenerInStep, poll_init
<1>4. p \in PollerType /\ ListenerInStep(p, none)
  BY <1>1, <1>2, <1>3, SetClrInStep
<1>5. "RD" \in p.evts[Listener]
  <2>1. p.evts = [poll_init.evts EXCEPT ![Listener] = @ \cup {"RD"}]
    BY <1>1, <1>2, FdSetFacts
  <2> QED
    BY <1>1, <2>1 DEF poll_init
<1> HIDE DEF p, none
<1>6. /\ poll = [v \in Worker |-> p] /\ epoll = [v \in Worker |-> none]
      /\ phase = [v \in Worker |-> "loop"] /\ closed = {} /\ backlog = << >>
      /\ last = {} /\ emptied = FALSE /\ kind \in {"tcp", "udp"}
  BY DEF ForkInit, udp_enable, p, none
<1>7. ForkTypeOK
  <2>1. backlog \in Seq(Arrival)
    BY <1>6
  <2>2. emptied \in BOOLEAN
    BY <1>6
  <2> QED
    BY <1>1, <1>4, <1>6, <2>1, <2>2 DEF ForkTypeOK
<1> QED
  BY <1>4, <1>5, <1>6, <1>7 DEF PreforkInv, Dispatching, Safe, Armed

\* Every step keeps the invariant.
LEMMA ForkNextInv ==
  ASSUME PreforkInv, [ForkNext]_forkVars
  PROVE  PreforkInv'
<1>1. ASSUME NEW w \in Worker, Step(w) PROVE PreforkInv'
  BY <1>1, PollWaitInv, AcceptInv, UdpReadInv, UdpCloseInv DEF Step
<1>2. CASE Connect
  BY <1>2, ConnectInv
<1>3. CASE UNCHANGED forkVars
  BY <1>3 DEF forkVars, PreforkInv, ForkTypeOK, Arrival, ListenerInStep, Dispatching, Safe, Armed
<1> QED
  BY <1>1, <1>2, <1>3 DEF ForkNext

\* For any number of workers, connections and datagrams, PreforkInv holds.
THEOREM PreforkInvariant == ForkSpec => []PreforkInv
<1>1. PreforkInv /\ [ForkNext]_forkVars => PreforkInv'
  BY ForkNextInv
<1> QED
  BY <1>1, ForkInitInv, PTL DEF ForkSpec

\* client.c:48, echo_udp.c:62: losing the race never takes the listener from the
\* last worker that has it, for any number of workers.
THEOREM LastWorkerListens == ForkSpec => []LastListens
<1>1. PreforkInv => LastListens
  BY DEF PreforkInv, ForkTypeOK, LastListens, Safe
<1> QED
  BY <1>1, PreforkInvariant, PTL

=============================================================================
