------------------------------ MODULE PollerProofs ------------------------------
(***************************************************************************)
(* Proofs about Poller for every set of descriptors: the inductive         *)
(* invariant, the synchronisation at each sleep, and the refinement of     *)
(* Interest.                                                               *)
(***************************************************************************)
EXTENDS Poller, PollerOpsProofs

\* Replacing the mask of an open descriptor between two sleeps keeps the
\* invariant.
LEMMA ChangeMaskInv ==
  ASSUME PollerInv, pc = "run", NEW fd \in open, NEW mask \in Masks,
         poll' = ChangeMask(poll, fd, mask),
         UNCHANGED <<epoll, open, pc, chg, opens>>
  PROVE  PollerInv'
<1> USE DEF PollerInv
<1>0. fd \in FD /\ poll \in PollerType /\ chg = 1
  BY DEF TypeOK, Phases
<1>1. TypeOK'
  BY <1>0, ChangeMaskType DEF TypeOK
<1>2. /\ poll'.evts = [poll.evts EXCEPT ![fd] = mask]
      /\ poll.ptr[fd] # 0 => poll'.chg = poll.chg /\ poll'.ptr = poll.ptr
      /\ poll.ptr[fd] = 0 =>
           /\ poll'.chg = Append(poll.chg, [fd |-> fd, prev |-> poll.evts[fd]])
           /\ poll'.ptr = [poll.ptr EXCEPT ![fd] = Len(poll.chg) + 1]
  BY <1>0, ChangeMaskFields
<1>t. /\ poll.evts \in [FD -> Masks] /\ poll.chg \in Seq(Entry)
      /\ poll.ptr \in [FD -> Nat] /\ Len(poll.chg) \in Nat
      /\ epoll \in [FD -> Masks]
  BY <1>0 DEF TypeOK, PollerType
<1>f. FreeIsUnset'
  BY <1>0, <1>2, <1>t DEF FreeIsUnset
<1>3. CASE poll.ptr[fd] # 0
  <2>1. poll'.chg = poll.chg /\ poll'.ptr = poll.ptr
    BY <1>2, <1>3
  <2>2. LiveEntries'
    BY <2>1 DEF LiveEntries
  <2>3. NoEntryInStep'
    BY <1>0, <1>2, <1>3, <1>t, <2>1 DEF NoEntryInStep
  <2>4. DeadEntries'
    BY <2>1 DEF DeadEntries
  <2>5. Phases'
    BY <2>1 DEF Phases
  <2> QED
    BY <1>1, <1>f, <2>2, <2>3, <2>4, <2>5
<1>4. CASE poll.ptr[fd] = 0
  <2> DEFINE e == [fd |-> fd, prev |-> poll.evts[fd]]
  <2>1. /\ e \in Entry /\ e.fd = fd /\ e.prev = epoll[fd]
    BY <1>0, <1>4, <1>t DEF Entry, NoEntryInStep
  <2>2. /\ poll'.chg = Append(poll.chg, e)
        /\ Len(poll'.chg) = Len(poll.chg) + 1
        /\ poll'.chg[Len(poll.chg) + 1] = e
        /\ \A j \in 1 .. Len(poll.chg) : poll'.chg[j] = poll.chg[j]
    <3>1. poll'.chg = Append(poll.chg, e)
      BY <1>2, <1>4
    <3>2. poll.chg \in Seq(Entry) /\ e \in Entry
      BY <1>t, <2>1
    <3> HIDE DEF e
    <3> QED
      BY <3>1, <3>2, AppendFacts
  <2>3. /\ poll'.ptr[fd] = Len(poll.chg) + 1
        /\ \A g \in FD : g # fd => poll'.ptr[g] = poll.ptr[g]
    BY <1>0, <1>2, <1>4, <1>t
  <2>4. LiveEntries'
    <3> SUFFICES ASSUME NEW g \in FD, poll'.ptr[g] # 0
                 PROVE  /\ poll'.ptr[g] \in 1 .. Len(poll'.chg)
                        /\ poll'.chg[poll'.ptr[g]].fd = g
                        /\ poll'.chg[poll'.ptr[g]].prev = epoll[g]
      BY <1>0 DEF LiveEntries
    <3>1. CASE g = fd
      BY <1>t, <2>1, <2>2, <2>3, <3>1
    <3>2. CASE g # fd
      <4>1. poll'.ptr[g] = poll.ptr[g]
        BY <2>3, <3>2
      <4>2. /\ poll.ptr[g] \in 1 .. Len(poll.chg)
            /\ poll.chg[poll.ptr[g]].fd = g
            /\ poll.chg[poll.ptr[g]].prev = epoll[g]
        BY <1>0, <4>1 DEF LiveEntries
      <4> HIDE DEF e
      <4> QED
        BY <1>t, <2>2, <4>1, <4>2
    <3> QED
      BY <3>1, <3>2
  <2>5. NoEntryInStep'
    BY <1>0, <1>2, <1>t, <2>3 DEF NoEntryInStep
  <2>6. DeadEntries'
    <3> SUFFICES ASSUME NEW j \in 1 .. Len(poll'.chg),
                        poll'.ptr[poll'.chg[j].fd] # j
                 PROVE  poll'.chg[j].prev = {} /\ epoll[poll'.chg[j].fd] = {}
      BY DEF DeadEntries
    <3>1. j \in 1 .. Len(poll.chg) /\ poll'.chg[j] = poll.chg[j]
      <4>1. j # Len(poll.chg) + 1
        BY <2>1, <2>2, <2>3
      <4> QED
        BY <1>t, <2>2, <4>1
    <3>2. poll.chg[j].fd \in FD
      <4>1. poll.chg[j] \in Entry
        BY <1>t, <3>1
      <4> QED
        BY <4>1 DEF Entry
    <3>3. poll.ptr[poll.chg[j].fd] # j
      <4>1. poll'.ptr[poll.chg[j].fd] # j
        BY <3>1
      <4>2. poll.chg[j].fd # fd => poll'.ptr[poll.chg[j].fd] = poll.ptr[poll.chg[j].fd]
        BY <2>3, <3>2
      <4>3. j # 0
        BY <3>1
      <4> QED
        BY <1>4, <4>1, <4>2, <4>3
    <3> QED
      BY <1>0, <3>1, <3>3 DEF DeadEntries
  <2>7. Phases'
    BY <1>0, <1>t, <2>2 DEF Phases
  <2> QED
    BY <1>1, <1>f, <2>4, <2>5, <2>6, <2>7
<1> QED
  BY <1>3, <1>4

\* __fd_clo followed by close() keeps the invariant: the entry it leaves in
\* the list turns from live to dead.
LEMMA DeleteInv ==
  ASSUME PollerInv, NEW fd \in FD, Delete(fd)
  PROVE  PollerInv'
<1> USE DEF PollerInv
<1>0. chg = 1 /\ pc = "run" /\ fd \in open
  BY DEF Phases, Delete
<1>t. /\ poll.evts \in [FD -> Masks] /\ poll.chg \in Seq(Entry)
      /\ poll.ptr \in [FD -> Nat] /\ Len(poll.chg) \in Nat
      /\ epoll \in [FD -> Masks]
  BY DEF TypeOK, PollerType
<1> DEFINE i == poll.ptr[fd]
<1>1. /\ poll'.evts = [poll.evts EXCEPT ![fd] = {}]
      /\ poll'.ptr = [poll.ptr EXCEPT ![fd] = 0]
      /\ i = 0 => poll'.chg = poll.chg
      /\ i # 0 => poll'.chg = [poll.chg EXCEPT ![i] = [fd |-> @.fd, prev |-> {}]]
      /\ epoll' = [epoll EXCEPT ![fd] = {}]
      /\ open' = open \ {fd}
      /\ pc' = pc /\ chg' = chg /\ opens' = opens
  BY DEF Delete, fd_clo
<1>2. i # 0 => i \in 1 .. Len(poll.chg) /\ poll.chg[i].fd = fd
  BY <1>0 DEF LiveEntries
<1>3. /\ poll'.chg \in Seq(Entry)
      /\ Len(poll'.chg) = Len(poll.chg)
      /\ \A j \in 1 .. Len(poll.chg) : j # i => poll'.chg[j] = poll.chg[j]
      /\ i # 0 => poll'.chg[i].fd = fd /\ poll'.chg[i].prev = {}
  <2>1. CASE i = 0
    BY <1>1, <1>t, <2>1
  <2>2. CASE i # 0
    <3> DEFINE d == [fd |-> fd, prev |-> {}]
    <3>1. d \in Entry /\ d.fd = fd /\ d.prev = {}
      BY DEF Entry, Masks
    <3>2. poll'.chg = [poll.chg EXCEPT ![i] = d]
      BY <1>1, <1>2, <2>2
    <3>3. i \in 1 .. Len(poll.chg)
      BY <1>2, <2>2
    <3> HIDE DEF d, i
    <3> QED
      BY <1>t, <3>1, <3>2, <3>3
  <2> QED
    BY <2>1, <2>2
<1>4. TypeOK'
  <2>1. poll' \in PollerType
    <3>1. poll' = [evts |-> poll'.evts, chg |-> poll'.chg, ptr |-> poll'.ptr]
      BY DEF Delete, fd_clo
    <3>2. poll'.evts \in [FD -> Masks] /\ poll'.ptr \in [FD -> Nat]
      BY <1>1, <1>t DEF Masks
    <3> QED
      BY <1>3, <3>1, <3>2 DEF PollerType
  <2> QED
    BY <1>1, <1>t, <2>1 DEF TypeOK, Masks
<1>5. \A g \in FD : g # fd =>
        /\ poll'.ptr[g] = poll.ptr[g] /\ poll'.evts[g] = poll.evts[g]
        /\ epoll'[g] = epoll[g]
  BY <1>1, <1>t
<1>6. poll'.ptr[fd] = 0 /\ poll'.evts[fd] = {} /\ epoll'[fd] = {}
  BY <1>1, <1>t
<1>7. LiveEntries'
  <2> SUFFICES ASSUME NEW g \in FD, poll'.ptr[g] # 0
               PROVE  /\ poll'.ptr[g] \in chg' .. Len(poll'.chg)
                      /\ poll'.chg[poll'.ptr[g]].fd = g
                      /\ poll'.chg[poll'.ptr[g]].prev = epoll'[g]
    BY DEF LiveEntries
  <2>1. g # fd /\ poll'.ptr[g] = poll.ptr[g] /\ epoll'[g] = epoll[g]
    BY <1>5, <1>6
  <2>2. /\ poll.ptr[g] \in 1 .. Len(poll.chg)
        /\ poll.chg[poll.ptr[g]].fd = g
        /\ poll.chg[poll.ptr[g]].prev = epoll[g]
    BY <1>0, <2>1 DEF LiveEntries
  <2>3. poll.ptr[g] # i
    BY <1>2, <2>1, <2>2
  <2> QED
    BY <1>0, <1>1, <1>3, <2>1, <2>2, <2>3
<1>8. NoEntryInStep'
  BY <1>5, <1>6 DEF NoEntryInStep
<1>9. DeadEntries'
  <2> SUFFICES ASSUME NEW j \in 1 .. Len(poll'.chg),
                      poll'.ptr[poll'.chg[j].fd] # j
               PROVE  poll'.chg[j].prev = {} /\ epoll'[poll'.chg[j].fd] = {}
    BY DEF DeadEntries
  <2>1. CASE j = i
    <3>1. i # 0
      BY <2>1
    <3>2. poll'.chg[j].fd = fd /\ poll'.chg[j].prev = {}
      BY <1>3, <2>1, <3>1
    <3> QED
      BY <1>6, <3>2
  <2>2. CASE j # i
    <3>1. j \in 1 .. Len(poll.chg) /\ poll'.chg[j] = poll.chg[j]
      BY <1>3, <2>2
    <3>2. poll.chg[j] \in Entry
      BY <1>t, <3>1
    <3>3. poll.chg[j].fd \in FD
      BY <3>2 DEF Entry
    <3>4. poll.ptr[poll.chg[j].fd] # j
      BY <1>5, <2>2, <3>1, <3>3
    <3>5. poll.chg[j].prev = {} /\ epoll[poll.chg[j].fd] = {}
      <4>1. DeadEntries /\ chg = 1
        BY <1>0
      <4>2. j >= 1
        BY <3>1
      <4> QED
        BY <3>1, <3>4, <4>1, <4>2 DEF DeadEntries
    <3> QED
      BY <1>5, <1>6, <3>1, <3>3, <3>5
  <2> QED
    BY <2>1, <2>2
<1>10. FreeIsUnset'
  BY <1>1, <1>5, <1>6 DEF FreeIsUnset
<1>11. Phases'
  BY <1>0, <1>1, <1>3 DEF Phases
<1> QED
  BY <1>4, <1>7, <1>8, <1>9, <1>10, <1>11

\* Replaying one entry keeps the invariant, and brings the kernel in step for
\* the entry's descriptor.
LEMMA FlushStepInv ==
  ASSUME PollerInv, FlushStep
  PROVE  /\ PollerInv'
         /\ epoll'[poll.chg[chg].fd] = poll.evts[poll.chg[chg].fd]
         /\ \A g \in FD : g # poll.chg[chg].fd => epoll'[g] = epoll[g]
         /\ poll.chg[chg].fd \in FD
         /\ poll.chg[chg].fd \notin open => epoll' = epoll
<1> USE DEF PollerInv
<1> DEFINE f == poll.chg[chg].fd
           prev == poll.chg[chg].prev
           next == poll.evts[f]
<1>t. /\ poll.evts \in [FD -> Masks] /\ poll.chg \in Seq(Entry)
      /\ poll.ptr \in [FD -> Nat] /\ Len(poll.chg) \in Nat
      /\ epoll \in [FD -> Masks] /\ chg \in Nat \ {0}
  BY DEF TypeOK, PollerType
<1>0. /\ pc = "flush" /\ chg \in 1 .. Len(poll.chg)
      /\ poll'.evts = poll.evts /\ poll'.chg = poll.chg
      /\ poll'.ptr = [poll.ptr EXCEPT ![f] = 0]
      /\ poll' = [evts |-> poll'.evts, chg |-> poll'.chg, ptr |-> poll'.ptr]
      /\ chg' = chg + 1
      /\ open' = open /\ pc' = pc /\ opens' = opens
  BY <1>t DEF FlushStep, flush_ptr
<1>1. f \in FD /\ prev \in Masks
  <2>1. poll.chg[chg] \in Entry
    BY <1>0, <1>t
  <2> QED
    BY <2>1 DEF Entry
<1>2. epoll' = IF prev = next THEN epoll
               ELSE epoll_ctl(epoll, open,
                      IF prev = {} THEN "ADD" ELSE IF next = {} THEN "DEL" ELSE "MOD",
                      f, next)
  BY DEF FlushStep, flush_ctl
<1>3. next # {} => f \in open
  BY <1>1 DEF FreeIsUnset
<1>4. /\ epoll'[f] = next
      /\ \A g \in FD : g # f => epoll'[g] = epoll[g]
      /\ epoll' \in [FD -> Masks]
      /\ f \notin open => epoll' = epoll
  <2>0. epoll[f] # {} => f \in open
    BY <1>1 DEF FreeIsUnset
  <2>1. CASE poll.ptr[f] = chg
    <3>1. prev = epoll[f]
      BY <1>0, <1>1, <1>t, <2>1 DEF LiveEntries
    <3>2. epoll' = IF prev = next THEN epoll ELSE [epoll EXCEPT ![f] = next]
      BY <1>2, <1>3, <2>0, <3>1 DEF epoll_ctl
    <3> QED
      BY <1>1, <1>3, <1>t, <2>0, <3>1, <3>2
  <2>2. CASE poll.ptr[f] # chg
    <3>1. prev = {} /\ (poll.ptr[f] # 0 => epoll[f] = {})
      BY <1>0, <2>2 DEF DeadEntries
    <3>2. poll.ptr[f] = 0 => epoll[f] = next
      BY <1>1 DEF NoEntryInStep
    <3>3. epoll' = IF next # {} /\ epoll[f] = {} THEN [epoll EXCEPT ![f] = next]
                   ELSE epoll
      BY <1>2, <1>3, <3>1 DEF epoll_ctl
    <3> QED
      BY <1>1, <1>3, <1>t, <3>1, <3>2, <3>3
  <2> QED
    BY <2>1, <2>2
<1>5. /\ poll'.ptr[f] = 0 /\ poll'.ptr \in [FD -> Nat]
      /\ \A g \in FD : g # f => poll'.ptr[g] = poll.ptr[g]
  BY <1>0, <1>1, <1>t
<1>6. TypeOK'
  <2>1. poll' \in PollerType
    BY <1>0, <1>5, <1>t DEF PollerType
  <2> QED
    BY <1>0, <1>4, <1>t, <2>1 DEF TypeOK
<1>7. LiveEntries'
  <2> SUFFICES ASSUME NEW g \in FD, poll'.ptr[g] # 0
               PROVE  /\ poll'.ptr[g] \in chg' .. Len(poll'.chg)
                      /\ poll'.chg[poll'.ptr[g]].fd = g
                      /\ poll'.chg[poll'.ptr[g]].prev = epoll'[g]
    BY DEF LiveEntries
  <2>1. g # f /\ poll'.ptr[g] = poll.ptr[g] /\ epoll'[g] = epoll[g]
    BY <1>4, <1>5
  <2>2. /\ poll.ptr[g] \in chg .. Len(poll.chg)
        /\ poll.chg[poll.ptr[g]].fd = g
        /\ poll.chg[poll.ptr[g]].prev = epoll[g]
    BY <2>1 DEF LiveEntries
  <2>3. poll.ptr[g] # chg
    BY <2>1, <2>2
  <2> QED
    BY <1>0, <1>t, <2>1, <2>2, <2>3
<1>8. NoEntryInStep'
  BY <1>0, <1>4, <1>5 DEF NoEntryInStep
<1>9. DeadEntries'
  <2> SUFFICES ASSUME NEW j \in 1 .. Len(poll.chg), j >= chg + 1,
                      poll'.ptr[poll.chg[j].fd] # j
               PROVE  /\ poll.chg[j].prev = {}
                      /\ poll'.ptr[poll.chg[j].fd] # 0 => epoll'[poll.chg[j].fd] = {}
    BY <1>0, <1>t DEF DeadEntries
  <2> DEFINE g == poll.chg[j].fd
  <2>1. g \in FD
    <3>1. poll.chg[j] \in Entry
      BY <1>t
    <3> QED
      BY <3>1 DEF Entry
  <2>2. j >= chg
    BY <1>t
  <2>3. CASE poll.ptr[g] # j
    <3>1. poll.chg[j].prev = {} /\ (poll.ptr[g] # 0 => epoll[g] = {})
      BY <2>2, <2>3 DEF DeadEntries
    <3> QED
      BY <1>4, <1>5, <2>1, <3>1
  <2>4. CASE poll.ptr[g] = j
    <3>1. g = f
      BY <1>5, <2>1, <2>4
    <3>2. poll.chg[j].prev = epoll[f]
      BY <2>1, <2>4, <3>1 DEF LiveEntries
    <3>3. poll.ptr[f] # chg /\ poll.ptr[f] # 0
      BY <1>t, <2>4, <3>1
    <3>4. epoll[f] = {}
      BY <1>0, <3>3 DEF DeadEntries
    <3> QED
      BY <1>5, <3>1, <3>2, <3>4
  <2> QED
    BY <2>3, <2>4
<1>10. FreeIsUnset'
  BY <1>0, <1>1, <1>4, <1>5 DEF FreeIsUnset
<1>11. Phases'
  BY <1>0, <1>t DEF Phases
<1> QED
  BY <1>1, <1>4, <1>6, <1>7, <1>8, <1>9, <1>10, <1>11

\* The end of fd_flush_changes(): every entry has been replayed, so no
\* descriptor has a live one.
LEMMA FlushDoneInv ==
  ASSUME PollerInv, FlushDone
  PROVE  PollerInv'
<1> USE DEF PollerInv
<1>1. /\ poll.evts \in [FD -> Masks] /\ poll.chg \in Seq(Entry)
      /\ poll.ptr \in [FD -> Nat] /\ Len(poll.chg) \in Nat
      /\ chg > Len(poll.chg) /\ chg \in Nat
  BY DEF TypeOK, PollerType, FlushDone
<1>2. \A fd \in FD : poll.ptr[fd] = 0
  <2> SUFFICES ASSUME NEW fd \in FD, poll.ptr[fd] # 0
               PROVE  FALSE
    OBVIOUS
  <2>1. poll.ptr[fd] \in chg .. Len(poll.chg)
    BY DEF LiveEntries
  <2> QED
    BY <1>1, <2>1
<1>3. /\ poll'.evts = poll.evts /\ poll'.chg = << >> /\ poll'.ptr = poll.ptr
      /\ poll' = [evts |-> poll.evts, chg |-> << >>, ptr |-> poll.ptr]
      /\ chg' = 1 /\ pc' = "wait" /\ epoll' = epoll /\ open' = open /\ opens' = opens
  BY DEF FlushDone, flush_end
<1>4. TypeOK'
  BY <1>1, <1>3 DEF TypeOK, PollerType
<1>5. LiveEntries' /\ NoEntryInStep' /\ FreeIsUnset'
  BY <1>2, <1>3 DEF LiveEntries, NoEntryInStep, FreeIsUnset
<1>6. DeadEntries' /\ Phases'
  BY <1>3 DEF DeadEntries, Phases
<1> QED
  BY <1>4, <1>5, <1>6

\* Every step of the poller keeps the invariant.
LEMMA NextInv ==
  ASSUME PollerInv, [PollerNext]_pollerVars
  PROVE  PollerInv'
<1> USE DEF PollerInv
<1>0. /\ poll \in PollerType /\ poll.evts \in [FD -> Masks]
      /\ open \subseteq FD
  BY DEF TypeOK, PollerType
<1>1. ASSUME NEW fd \in FD, Open(fd)
      PROVE  PollerInv'
  <2>1. poll' = poll /\ epoll' = epoll /\ pc' = pc /\ chg' = chg /\ open' = open \cup {fd}
    BY <1>1 DEF Open
  <2>2. TypeOK'
    BY <1>1, MaxOpensAssumption DEF Open, TypeOK
  <2>3. FreeIsUnset'
    BY <2>1 DEF FreeIsUnset
  <2> QED
    BY <2>1, <2>2, <2>3 DEF LiveEntries, NoEntryInStep, DeadEntries, Phases
<1>2. ASSUME NEW fd \in FD, NEW dir \in Dir, Set(fd, dir)
      PROVE  PollerInv'
  <2>1. poll.evts[fd] \cup {dir} \in Masks
    BY <1>0 DEF Masks
  <2>2. CASE poll' = poll
    BY <1>2, <2>2
       DEF Set, TypeOK, LiveEntries, NoEntryInStep, DeadEntries, FreeIsUnset, Phases
  <2>3. CASE poll' = ChangeMask(poll, fd, poll.evts[fd] \cup {dir})
    BY <1>2, <2>1, <2>3, ChangeMaskInv DEF Set
  <2> QED
    BY <1>2, <2>2, <2>3 DEF Set, fd_set
<1>3. ASSUME NEW fd \in FD, NEW dir \in Dir, Clr(fd, dir)
      PROVE  PollerInv'
  <2>1. poll.evts[fd] \ {dir} \in Masks
    BY <1>0 DEF Masks
  <2>2. CASE poll' = poll
    BY <1>3, <2>2
       DEF Clr, TypeOK, LiveEntries, NoEntryInStep, DeadEntries, FreeIsUnset, Phases
  <2>3. CASE poll' = ChangeMask(poll, fd, poll.evts[fd] \ {dir})
    BY <1>3, <2>1, <2>3, ChangeMaskInv DEF Clr
  <2> QED
    BY <1>3, <2>2, <2>3 DEF Clr, fd_clr
<1>4. ASSUME NEW fd \in FD, Rem(fd)
      PROVE  PollerInv'
  <2>1. {} \in Masks
    BY DEF Masks
  <2>2. CASE poll' = poll
    BY <1>4, <2>2
       DEF Rem, TypeOK, LiveEntries, NoEntryInStep, DeadEntries, FreeIsUnset, Phases
  <2>3. CASE poll' = ChangeMask(poll, fd, {})
    BY <1>4, <2>1, <2>3, ChangeMaskInv DEF Rem
  <2> QED
    BY <1>4, <2>2, <2>3 DEF Rem, fd_rem
<1>5. ASSUME NEW fd \in FD, Delete(fd)
      PROVE  PollerInv'
  BY <1>5, DeleteInv
<1>6. CASE PollDo
  <2>1. TypeOK' /\ Phases'
    BY <1>6 DEF PollDo, TypeOK, Phases
  <2> QED
    BY <1>6, <2>1 DEF PollDo, LiveEntries, NoEntryInStep, DeadEntries, FreeIsUnset
<1>7. CASE FlushStep
  BY <1>7, FlushStepInv
<1>8. CASE FlushDone
  BY <1>8, FlushDoneInv
<1>9. CASE Wake
  <2>1. TypeOK' /\ Phases'
    BY <1>9, MaxOpensAssumption DEF Wake, TypeOK, Phases
  <2> QED
    BY <1>9, <2>1 DEF Wake, LiveEntries, NoEntryInStep, DeadEntries, FreeIsUnset
<1>10. CASE UNCHANGED pollerVars
  BY <1>10
     DEF pollerVars, TypeOK, LiveEntries, NoEntryInStep, DeadEntries, FreeIsUnset, Phases
<1> QED
  BY <1>1, <1>2, <1>3, <1>4, <1>5, <1>6, <1>7, <1>8, <1>9, <1>10 DEF PollerNext, Handlers

\* An empty poller over an empty interest list satisfies the invariant.
LEMMA InitInv == PollerInit => PollerInv
<1> SUFFICES ASSUME PollerInit PROVE PollerInv
  OBVIOUS
<1>1. /\ poll = [evts |-> [fd \in FD |-> {}], chg |-> << >>, ptr |-> [fd \in FD |-> 0]]
      /\ epoll = [fd \in FD |-> {}] /\ open = {} /\ pc = "run" /\ chg = 1 /\ opens = 0
  BY DEF PollerInit, poll_init
<1>2. TypeOK
  <2>1. /\ [fd \in FD |-> {}] \in [FD -> Masks] /\ << >> \in Seq(Entry)
        /\ [fd \in FD |-> 0] \in [FD -> Nat]
    BY DEF Masks
  <2> QED
    BY <1>1, <2>1, MaxOpensAssumption DEF TypeOK, PollerType
<1>3. LiveEntries /\ NoEntryInStep /\ FreeIsUnset
  BY <1>1 DEF LiveEntries, NoEntryInStep, FreeIsUnset
<1>4. DeadEntries /\ Phases
  BY <1>1 DEF DeadEntries, Phases
<1> QED
  BY <1>2, <1>3, <1>4 DEF PollerInv

\* The change list invariant holds in every state, for every number of
\* descriptors and every sequence of calls of the handlers.
THEOREM PollerInvariant == PollerSpec => []PollerInv
<1>1. PollerInv /\ [PollerNext]_pollerVars => PollerInv'
  BY NextInv
<1> QED
  BY <1>1, InitInv, PTL DEF PollerSpec

\* Once the loop index is past the list, no descriptor has a live entry and
\* the kernel is in step with fd_evts.
LEMMA AllReplayed ==
  ASSUME PollerInv, chg > Len(poll.chg)
  PROVE  epoll = poll.evts
<1>1. /\ epoll \in [FD -> Masks] /\ poll.evts \in [FD -> Masks]
      /\ Len(poll.chg) \in Nat /\ chg \in Nat
  BY DEF PollerInv, TypeOK, PollerType
<1>2. \A fd \in FD : poll.ptr[fd] = 0
  <2> SUFFICES ASSUME NEW fd \in FD, poll.ptr[fd] # 0
               PROVE  FALSE
    OBVIOUS
  <2>1. poll.ptr[fd] \in chg .. Len(poll.chg)
    BY DEF PollerInv, LiveEntries
  <2> QED
    BY <1>1, <2>1
<1>3. \A fd \in FD : epoll[fd] = poll.evts[fd]
  BY <1>2 DEF PollerInv, NoEntryInStep
<1> QED
  BY <1>1, <1>3

\* While the process sleeps in epoll_wait() the interest list equals fd_evts.
THEOREM SleepsSynchronised == PollerSpec => []WaitSynchronised
<1>1. PollerInv => WaitSynchronised
  <2> SUFFICES ASSUME PollerInv, pc = "wait"
               PROVE  epoll = poll.evts
    BY DEF WaitSynchronised
  <2>1. chg = 1 /\ Len(poll.chg) = 0
    BY DEF PollerInv, Phases
  <2> QED
    BY <2>1, AllReplayed
<1> QED
  BY <1>1, PollerInvariant, PTL

\* No failed epoll_ctl() loses a registration: each replayed entry leaves the
\* kernel with the wanted mask.
THEOREM FlushSettlesAlways == PollerSpec => FlushSettles
<1>1. PollerInv /\ [PollerNext]_pollerVars =>
        [FlushStep => epoll'[poll.chg[chg].fd] = poll.evts[poll.chg[chg].fd]]_pollerVars
  BY FlushStepInv
<1> QED
  BY <1>1, PollerInvariant, PTL DEF PollerSpec, FlushSettles

\* A step of the poller is a step of Interest, or changes nothing Interest
\* sees.
LEMMA StepRefines ==
  ASSUME PollerInv, PollerInv', [PollerNext]_pollerVars
  PROVE  [Promise!Next]_(Promise!ivars)
<1> USE DEF Promise!ivars
<1>t. /\ poll.evts \in [FD -> Masks] /\ epoll \in [FD -> Masks]
      /\ open \subseteq FD /\ poll \in PollerType /\ epoll' \in [FD -> Masks]
  BY DEF PollerInv, TypeOK, PollerType
<1>a. ASSUME NEW fd \in open, NEW mask \in Masks, pc = "run",
             poll'.evts = [poll.evts EXCEPT ![fd] = mask],
             UNCHANGED <<epoll, open, pc>>
      PROVE  Promise!Next
  <2>1. Promise!Ask(fd, mask)
    BY <1>a DEF Promise!Ask
  <2> QED
    BY <1>t, <2>1 DEF Promise!Next, Masks
<1>1. ASSUME NEW fd \in FD, Open(fd)
      PROVE  Promise!Next
  <2>1. Promise!Open(fd)
    BY <1>1 DEF Open, Promise!Open
  <2> QED
    BY <2>1 DEF Promise!Next
<1>2. ASSUME NEW fd \in FD, NEW dir \in Dir, Set(fd, dir)
      PROVE  [Promise!Next]_(Promise!ivars)
  <2>1. CASE poll' = poll
    BY <1>2, <2>1 DEF Set
  <2>2. CASE poll' = ChangeMask(poll, fd, poll.evts[fd] \cup {dir})
    <3>1. poll.evts[fd] \cup {dir} \in Masks
      BY <1>t DEF Masks
    <3>2. poll'.evts = [poll.evts EXCEPT ![fd] = poll.evts[fd] \cup {dir}]
      BY <2>2 DEF ChangeMask, alloc_chg_list
    <3> QED
      BY <1>2, <1>a, <3>1, <3>2 DEF Set
  <2> QED
    BY <1>2, <2>1, <2>2 DEF Set, fd_set
<1>3. ASSUME NEW fd \in FD, NEW dir \in Dir, Clr(fd, dir)
      PROVE  [Promise!Next]_(Promise!ivars)
  <2>1. CASE poll' = poll
    BY <1>3, <2>1 DEF Clr
  <2>2. CASE poll' = ChangeMask(poll, fd, poll.evts[fd] \ {dir})
    <3>1. poll.evts[fd] \ {dir} \in Masks
      BY <1>t DEF Masks
    <3>2. poll'.evts = [poll.evts EXCEPT ![fd] = poll.evts[fd] \ {dir}]
      BY <2>2 DEF ChangeMask, alloc_chg_list
    <3> QED
      BY <1>3, <1>a, <3>1, <3>2 DEF Clr
  <2> QED
    BY <1>3, <2>1, <2>2 DEF Clr, fd_clr
<1>4. ASSUME NEW fd \in FD, Rem(fd)
      PROVE  [Promise!Next]_(Promise!ivars)
  <2>1. CASE poll' = poll
    BY <1>4, <2>1 DEF Rem
  <2>2. CASE poll' = ChangeMask(poll, fd, {})
    <3>1. {} \in Masks
      BY DEF Masks
    <3>2. poll'.evts = [poll.evts EXCEPT ![fd] = {}]
      BY <2>2 DEF ChangeMask, alloc_chg_list
    <3> QED
      BY <1>4, <1>a, <3>1, <3>2 DEF Rem
  <2> QED
    BY <1>4, <2>1, <2>2 DEF Rem, fd_rem
<1>5. ASSUME NEW fd \in FD, Delete(fd)
      PROVE  Promise!Next
  <2>1. Promise!Close(fd)
    BY <1>5 DEF Delete, fd_clo, Promise!Close
  <2> QED
    BY <2>1 DEF Promise!Next
<1>6. CASE PollDo
  <2>1. CASE poll.chg = << >>
    <3>1. epoll = poll.evts
      <4>1. chg = 1 /\ Len(poll.chg) = 0
        BY <1>6, <2>1 DEF PollerInv, Phases, PollDo
      <4> QED
        BY <4>1, AllReplayed
    <3>2. Promise!Sleep
      BY <1>6, <2>1, <3>1 DEF PollDo, Promise!Sleep
    <3> QED
      BY <3>2 DEF Promise!Next
  <2>2. CASE poll.chg # << >>
    BY <1>6, <2>2 DEF PollDo
  <2> QED
    BY <2>1, <2>2
<1>7. CASE FlushStep
  <2> DEFINE f == poll.chg[chg].fd
  <2>1. /\ epoll'[f] = poll.evts[f]
        /\ \A g \in FD : g # f => epoll'[g] = epoll[g]
        /\ f \in FD
        /\ f \notin open => epoll' = epoll
    BY <1>7, FlushStepInv
  <2>2. poll'.evts = poll.evts /\ open' = open /\ pc' = pc /\ pc = "flush"
    BY <1>7 DEF FlushStep, flush_ptr
  <2>3. CASE f \in open
    <3>1. epoll' = [epoll EXCEPT ![f] = poll.evts[f]]
      BY <1>t, <2>1
    <3>2. Promise!Tell(f)
      BY <2>2, <2>3, <3>1 DEF Promise!Tell
    <3> QED
      BY <2>1, <3>2 DEF Promise!Next
  <2>4. CASE f \notin open
    BY <2>1, <2>2, <2>4
  <2> QED
    BY <2>3, <2>4
<1>8. CASE FlushDone
  <2>1. /\ poll'.evts = poll.evts /\ epoll' = epoll /\ open' = open
        /\ pc = "flush" /\ pc' = "wait"
    BY <1>8 DEF FlushDone, flush_end
  <2>2. epoll = poll.evts
    BY <1>8, AllReplayed DEF FlushDone
  <2>3. Promise!Sleep
    BY <2>1, <2>2 DEF Promise!Sleep
  <2> QED
    BY <2>3 DEF Promise!Next
<1>9. CASE Wake
  <2>1. Promise!Wake
    BY <1>9 DEF Wake, Promise!Wake
  <2> QED
    BY <2>1 DEF Promise!Next
<1>10. CASE UNCHANGED pollerVars
  BY <1>10 DEF pollerVars
<1> QED
  BY <1>1, <1>2, <1>3, <1>4, <1>5, <1>6, <1>7, <1>8, <1>9, <1>10 DEF PollerNext, Handlers

\* The change list implements the interest set the handlers are promised.
THEOREM PollerRefines == PollerSpec => ImplementsInterest
<1>1. PollerInit => Promise!Init
  BY DEF PollerInit, poll_init, Promise!Init
<1>2. PollerInv /\ PollerInv' /\ [PollerNext]_pollerVars => [Promise!Next]_(Promise!ivars)
  BY StepRefines
<1> QED
  BY <1>1, <1>2, PollerInvariant, PTL DEF PollerSpec, ImplementsInterest, Promise!Spec

=============================================================================
