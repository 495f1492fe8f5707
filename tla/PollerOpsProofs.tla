---------------------------- MODULE PollerOpsProofs ----------------------------
(***************************************************************************)
(* What the operators of PollerOps do to the poller's three arrays, for    *)
(* every set of descriptors: the facts the proofs about Poller, Prefork    *)
(* and EventLoop share.                                                    *)
(***************************************************************************)
EXTENDS PollerOps, WellFoundedInduction, TLAPS

\* An appended entry is the last one and moves no other.
LEMMA AppendFacts ==
  ASSUME NEW S, NEW s \in Seq(S), NEW e \in S
  PROVE  /\ Len(s) \in Nat
         /\ Len(Append(s, e)) = Len(s) + 1
         /\ Append(s, e)[Len(s) + 1] = e
         /\ \A j \in 1 .. Len(s) : Append(s, e)[j] = s[j]
OBVIOUS

\* ChangeMask, the common part of __fd_set, __fd_clr and __fd_rem, keeps the
\* poller's arrays well-formed.
LEMMA ChangeMaskType ==
  ASSUME NEW p \in PollerType, NEW fd \in FD, NEW mask \in Masks
  PROVE  ChangeMask(p, fd, mask) \in PollerType
<1> DEFINE e == [fd |-> fd, prev |-> p.evts[fd]]
<1>1. e \in Entry
  BY DEF Entry, PollerType
<1>2. Append(p.chg, e) \in Seq(Entry) /\ Len(p.chg) \in Nat
  BY <1>1 DEF PollerType
<1>3. [p.evts EXCEPT ![fd] = mask] \in [FD -> Masks]
  BY DEF PollerType
<1>4. [p.ptr EXCEPT ![fd] = Len(p.chg) + 1] \in [FD -> Nat]
  BY <1>2 DEF PollerType
<1> QED
  BY <1>2, <1>3, <1>4 DEF ChangeMask, alloc_chg_list, PollerType

\* What ChangeMask does to each field: the mask is replaced, and an entry with
\* the old mask is appended exactly when the descriptor has none.
LEMMA ChangeMaskFields ==
  ASSUME NEW p \in PollerType, NEW fd \in FD, NEW mask \in Masks
  PROVE  LET q == ChangeMask(p, fd, mask)
         IN  /\ q.evts = [p.evts EXCEPT ![fd] = mask]
             /\ p.ptr[fd] # 0 => q.chg = p.chg /\ q.ptr = p.ptr
             /\ p.ptr[fd] = 0 =>
                  /\ q.chg = Append(p.chg, [fd |-> fd, prev |-> p.evts[fd]])
                  /\ q.ptr = [p.ptr EXCEPT ![fd] = Len(p.chg) + 1]
BY DEF ChangeMask, alloc_chg_list, PollerType
\* __fd_set() adds one direction to one mask.
LEMMA FdSetFacts ==
  ASSUME NEW p \in PollerType, NEW fd \in FD, NEW dir \in Dir
  PROVE  /\ fd_set(p, fd, dir) \in PollerType
         /\ fd_set(p, fd, dir).evts = [p.evts EXCEPT ![fd] = @ \cup {dir}]
<1>1. /\ p.evts \in [FD -> Masks] /\ p.evts[fd] \in Masks
      /\ p.evts[fd] \cup {dir} \in Masks
  BY DEF PollerType, Masks
<1>2. CASE fd_is_set(p, fd, dir)
  BY <1>1, <1>2 DEF fd_set, fd_is_set
<1>3. CASE ~ fd_is_set(p, fd, dir)
  <2> DEFINE m == p.evts[fd] \cup {dir}
  <2>1. fd_set(p, fd, dir) = ChangeMask(p, fd, m)
    BY <1>3 DEF fd_set
  <2>2. /\ ChangeMask(p, fd, m) \in PollerType
        /\ ChangeMask(p, fd, m).evts = [p.evts EXCEPT ![fd] = m]
    <3>1. m \in Masks
      BY <1>1
    <3> HIDE DEF m
    <3>2. ChangeMask(p, fd, m) \in PollerType
      BY <3>1, ChangeMaskType
    <3>3. ChangeMask(p, fd, m).evts = [p.evts EXCEPT ![fd] = m]
      BY DEF ChangeMask, alloc_chg_list
    <3> QED
      BY <3>2, <3>3
  <2> QED
    BY <2>1, <2>2
<1> QED
  BY <1>2, <1>3

\* __fd_clr() takes one direction from one mask.
LEMMA FdClrFacts ==
  ASSUME NEW p \in PollerType, NEW fd \in FD, NEW dir \in Dir
  PROVE  /\ fd_clr(p, fd, dir) \in PollerType
         /\ fd_clr(p, fd, dir).evts = [p.evts EXCEPT ![fd] = @ \ {dir}]
<1>1. /\ p.evts \in [FD -> Masks] /\ p.evts[fd] \in Masks
      /\ p.evts[fd] \ {dir} \in Masks
  BY DEF PollerType, Masks
<1>2. CASE ~ fd_is_set(p, fd, dir)
  BY <1>1, <1>2 DEF fd_clr, fd_is_set
<1>3. CASE fd_is_set(p, fd, dir)
  <2> DEFINE m == p.evts[fd] \ {dir}
  <2>1. fd_clr(p, fd, dir) = ChangeMask(p, fd, m)
    BY <1>3 DEF fd_clr
  <2>2. /\ ChangeMask(p, fd, m) \in PollerType
        /\ ChangeMask(p, fd, m).evts = [p.evts EXCEPT ![fd] = m]
    <3>1. m \in Masks
      BY <1>1
    <3> HIDE DEF m
    <3>2. ChangeMask(p, fd, m) \in PollerType
      BY <3>1, ChangeMaskType
    <3>3. ChangeMask(p, fd, m).evts = [p.evts EXCEPT ![fd] = m]
      BY DEF ChangeMask, alloc_chg_list
    <3> QED
      BY <3>2, <3>3
  <2> QED
    BY <2>1, <2>2
<1> QED
  BY <1>2, <1>3

\* __fd_clo() empties one mask and lets go of its entry.
LEMMA FdCloFacts ==
  ASSUME NEW p \in PollerType, NEW fd \in FD, p.ptr[fd] \in 0 .. Len(p.chg)
  PROVE  /\ fd_clo(p, fd) \in PollerType
         /\ fd_clo(p, fd).evts = [p.evts EXCEPT ![fd] = {}]
         /\ fd_clo(p, fd).ptr = [p.ptr EXCEPT ![fd] = 0]
         /\ Len(fd_clo(p, fd).chg) = Len(p.chg)
<1>1. /\ p.evts \in [FD -> Masks] /\ p.chg \in Seq(Entry) /\ p.ptr \in [FD -> Nat]
      /\ Len(p.chg) \in Nat /\ {} \in Masks
  BY DEF PollerType, Masks
<1> DEFINE i == p.ptr[fd]
           c == [p.chg EXCEPT ![i] = [fd |-> @.fd, prev |-> {}]]
<1>2. ASSUME i # 0 PROVE c \in Seq(Entry) /\ Len(c) = Len(p.chg)
  <2>1. i \in 1 .. Len(p.chg)
    BY <1>1, <1>2
  <2>2. p.chg[i] \in Entry
    BY <1>1, <2>1
  <2>3. [fd |-> p.chg[i].fd, prev |-> {}] \in Entry
    BY <1>1, <2>2 DEF Entry
  <2> QED
    BY <1>1, <2>1, <2>3
<1> HIDE DEF c
<1>3. fd_clo(p, fd) = [evts |-> [p.evts EXCEPT ![fd] = {}],
                       chg  |-> IF i = 0 THEN p.chg ELSE c,
                       ptr  |-> [p.ptr EXCEPT ![fd] = 0]]
  BY DEF fd_clo, c
<1> HIDE DEF i
<1>4. /\ [p.evts EXCEPT ![fd] = {}] \in [FD -> Masks]
      /\ [p.ptr EXCEPT ![fd] = 0] \in [FD -> Nat]
  BY <1>1
<1>5. (IF i = 0 THEN p.chg ELSE c) \in Seq(Entry)
  BY <1>1, <1>2
<1>6. Len(IF i = 0 THEN p.chg ELSE c) = Len(p.chg)
  BY <1>2
<1> QED
  BY <1>3, <1>4, <1>5, <1>6 DEF PollerType

\* One turn of fd_flush_changes() keeps the poller and the kernel's masks
\* well-formed.
LEMMA FlushTypes ==
  ASSUME NEW p \in PollerType, NEW k \in [FD -> Masks], NEW open,
         NEW i \in 1 .. Len(p.chg)
  PROVE  /\ flush_ctl(p, k, open, i) \in [FD -> Masks]
         /\ flush_ptr(p, i) \in PollerType
         /\ flush_end(p) \in PollerType
<1>1. /\ p.evts \in [FD -> Masks] /\ p.chg \in Seq(Entry) /\ p.ptr \in [FD -> Nat]
  BY DEF PollerType
<1>2. p.chg[i] \in Entry
  BY <1>1
<1>3. p.chg[i].fd \in FD
  BY <1>2 DEF Entry
<1>4. flush_ctl(p, k, open, i) \in [FD -> Masks]
  BY <1>1, <1>3 DEF flush_ctl, epoll_ctl
<1>5. flush_ptr(p, i) \in PollerType
  BY <1>1, <1>3 DEF flush_ptr, PollerType
<1>6. flush_end(p) \in PollerType
  <2>1. << >> \in Seq(Entry)
    OBVIOUS
  <2> QED
    BY <1>1, <2>1 DEF flush_end, PollerType
<1> QED
  BY <1>4, <1>5, <1>6

----------------------------------------------------------------------------
(* The change list p and the kernel's interest list k.                     *)

\* An entry a descriptor points to is its own; an entry nobody points to
\* belonged to a closed descriptor, and remembers the empty mask.
Recorded(p) ==
  /\ \A fd \in FD : p.ptr[fd] # 0 =>
       p.ptr[fd] \in 1 .. Len(p.chg) /\ p.chg[p.ptr[fd]].fd = fd
  /\ \A j \in 1 .. Len(p.chg) : p.ptr[p.chg[j].fd] # j => p.chg[j].prev = {}

\* The kernel knows what is wanted of fd, or the entry of fd remembers what the
\* kernel knows; behind an entry of an earlier use the kernel knows nothing.
InStep(p, k, fd) ==
  /\ p.ptr[fd] = 0 => k[fd] = p.evts[fd]
  /\ p.ptr[fd] # 0 => k[fd] = p.chg[p.ptr[fd]].prev
  /\ \A j \in 1 .. Len(p.chg) : p.chg[j].fd = fd /\ p.ptr[fd] # j => k[fd] = {}

----------------------------------------------------------------------------
(* Naturals.                                                               *)

\* A set of naturals that is not empty has a least member.
LEMMA LeastNatural ==
  ASSUME NEW S, S \subseteq Nat, S # {}
  PROVE  \E m \in S : \A k \in S : m <= k
<1> DEFINE Less == OpToRel(<, Nat)
<1>1. PICK m \in S : \A k \in S : ~ (<<k, m>> \in Less)
  <2>1. IsWellFoundedOn(Less, Nat)
    BY NatLessThanWellFounded
  <2> HIDE DEF Less
  <2> QED
    BY <2>1, WFMin
<1>2. \A k \in S : <<k, m>> \in Nat \X Nat /\ (k < m => <<k, m>> \in Less)
  BY DEF OpToRel
<1>3. \A k \in S : m <= k
  <2> HIDE DEF Less
  <2> SUFFICES ASSUME NEW k \in S PROVE ~ (k < m)
    OBVIOUS
  <2> QED
    BY <1>1, <1>2
<1> QED
  BY <1>3

\* Induction over the indices 0 .. n, with the indices it holds of as a set.
LEMMA IndexInduction ==
  ASSUME NEW n \in Nat, NEW T, 0 \in T,
         \A i \in 0 .. n : i # 0 /\ i - 1 \in T => i \in T
  PROVE  \A i \in 0 .. n : i \in T
<1> SUFFICES ASSUME NEW i \in 0 .. n, i \notin T PROVE FALSE
  OBVIOUS
<1> DEFINE S == {j \in 0 .. n : j \notin T}
<1>1. PICK m \in S : \A k \in S : m <= k
  <2>1. S \subseteq Nat /\ S # {}
    OBVIOUS
  <2> HIDE DEF S
  <2> QED
    BY <2>1, LeastNatural
<1>2. m \in 0 .. n /\ m \notin T /\ m # 0
  BY <1>1
<1>3. m - 1 \in 0 .. n /\ ~ (m <= m - 1)
  BY <1>2
<1>4. m - 1 \in T
  BY <1>1, <1>3
<1> QED
  BY <1>2, <1>4

\* What a loop over 1 .. n computes: a[i] after the first i of its steps G.
Iterates(a, n, D, x, G) ==
  a \in [0 .. n -> D] /\ a[0] = x /\ \A i \in 1 .. n : a[i] = G[i][a[i - 1]]

\* Such a sequence of values exists, so a recursive function over 1 .. n is what
\* its equation says.
LEMMA IterationExists ==
  ASSUME NEW n \in Nat, NEW D, NEW x \in D, NEW G \in [1 .. n -> [D -> D]]
  PROVE  \E a : Iterates(a, n, D, x, G)
<1> DEFINE T == {m \in 0 .. n : \E a : Iterates(a, m, D, x, G)}
<1>1. 0 \in T
  <2> DEFINE a == [i \in 0 .. 0 |-> x]
  <2>1. a \in [0 .. 0 -> D] /\ a[0] = x /\ 1 .. 0 = {} /\ 0 \in 0 .. n
    OBVIOUS
  <2> HIDE DEF a
  <2>2. Iterates(a, 0, D, x, G)
    BY <2>1 DEF Iterates
  <2> QED
    BY <2>1, <2>2
<1>2. ASSUME NEW m \in 0 .. n, m # 0, m - 1 \in T PROVE m \in T
  <2>1. PICK b : Iterates(b, m - 1, D, x, G)
    BY <1>2
  <2> DEFINE c == G[m][b[m - 1]]
             a == [i \in 0 .. m |-> IF i = m THEN c ELSE b[i]]
  <2>2. /\ m \in Nat /\ m \in 1 .. n /\ m - 1 \in 0 .. m - 1 /\ 0 \in 0 .. m - 1
        /\ \A i \in 1 .. m : i - 1 \in 0 .. m /\ i - 1 # m /\ i \in 0 .. m
        /\ \A i \in 0 .. m : i # m => i \in 0 .. m - 1
        /\ \A i \in 1 .. m : i # m => i \in 1 .. m - 1
    BY <1>2
  <2>3. c \in D /\ \A i \in 0 .. m - 1 : b[i] \in D
    BY <2>1, <2>2 DEF Iterates
  <2> HIDE DEF c
  <2>4. \A i \in 0 .. m : a[i] = IF i = m THEN c ELSE b[i]
    OBVIOUS
  <2>5. a \in [0 .. m -> D] /\ a[0] = x
    BY <1>2, <2>1, <2>2, <2>3 DEF Iterates
  <2> HIDE DEF a
  <2>6. ASSUME NEW i \in 1 .. m PROVE a[i] = G[i][a[i - 1]]
    <3>1. a[i - 1] = b[i - 1]
      BY <2>2, <2>4
    <3>2. CASE i = m
      <4>1. a[i] = c
        BY <2>2, <2>4, <3>2
      <4> QED
        BY <3>1, <3>2, <4>1 DEF c
    <3>3. CASE i # m
      <4>1. a[i] = b[i] /\ b[i] = G[i][b[i - 1]]
        BY <2>1, <2>2, <2>4, <3>3 DEF Iterates
      <4> QED
        BY <3>1, <4>1
    <3> QED
      BY <3>2, <3>3
  <2>7. Iterates(a, m, D, x, G)
    BY <2>5, <2>6 DEF Iterates
  <2> QED
    BY <2>7
<1> HIDE DEF T
<1>3. \A i \in 0 .. n : i \in T
  BY <1>1, <1>2, IndexInduction
<1>4. n \in T
  BY <1>3
<1> QED
  BY <1>4 DEF T

----------------------------------------------------------------------------
(* Wishes: what the loop's handlers do to the change list.                 *)

\* q is p after wishes about fd only.
Wished(p, q, fd) ==
  /\ q \in PollerType /\ Recorded(q)
  /\ \A k \in [FD -> Masks], g \in FD : InStep(p, k, g) => InStep(q, k, g)
  /\ \A g \in FD : g # fd => q.evts[g] = p.evts[g]

\* The types of the poller's arrays, one by one.
LEMMA PollerFields ==
  ASSUME NEW p \in PollerType
  PROVE  /\ p.evts \in [FD -> Masks] /\ p.ptr \in [FD -> Nat]
         /\ p.chg \in Seq(Entry) /\ Len(p.chg) \in Nat
         /\ \A j \in 1 .. Len(p.chg) : p.chg[j].fd \in FD /\ p.chg[j].prev \in Masks
<1>1. /\ p.evts \in [FD -> Masks] /\ p.ptr \in [FD -> Nat]
      /\ p.chg \in Seq(Entry) /\ Len(p.chg) \in Nat
  BY DEF PollerType
<1>2. \A j \in 1 .. Len(p.chg) : p.chg[j] \in Entry
  BY <1>1
<1> QED
  BY <1>1, <1>2 DEF Entry

\* The common part of __fd_set() and __fd_clr() is a wish about one descriptor.
LEMMA ChangeMaskWished ==
  ASSUME NEW p \in PollerType, Recorded(p), NEW fd \in FD, NEW mask \in Masks
  PROVE  /\ Wished(p, ChangeMask(p, fd, mask), fd)
         /\ ChangeMask(p, fd, mask).evts[fd] = mask
<1> DEFINE q == ChangeMask(p, fd, mask)
           n == Len(p.chg)
           e == [fd |-> fd, prev |-> p.evts[fd]]
<1>1. /\ p.evts \in [FD -> Masks] /\ p.ptr \in [FD -> Nat]
      /\ p.chg \in Seq(Entry) /\ n \in Nat
      /\ \A j \in 1 .. n : p.chg[j].fd \in FD /\ p.chg[j].prev \in Masks
  BY PollerFields
<1>2. q \in PollerType
  BY ChangeMaskType
<1>3. /\ q.evts = [p.evts EXCEPT ![fd] = mask]
      /\ p.ptr[fd] # 0 => q.chg = p.chg /\ q.ptr = p.ptr
      /\ p.ptr[fd] = 0 => /\ q.chg = Append(p.chg, e)
                          /\ q.ptr = [p.ptr EXCEPT ![fd] = n + 1]
  BY ChangeMaskFields
<1>4. \A g \in FD : g # fd => q.evts[g] = p.evts[g]
  BY <1>1, <1>3
<1>5. q.evts[fd] = mask
  BY <1>1, <1>3
<1> HIDE DEF q
<1>6. CASE p.ptr[fd] # 0
  <2>1. q.chg = p.chg /\ q.ptr = p.ptr
    BY <1>3, <1>6
  <2>2. Recorded(q)
    BY <2>1 DEF Recorded
  <2>3. ASSUME NEW k, NEW g \in FD, InStep(p, k, g) PROVE InStep(q, k, g)
    BY <1>4, <1>6, <2>1, <2>3 DEF InStep
  <2> QED
    BY <1>2, <1>4, <1>5, <2>2, <2>3 DEF Wished, q
<1>7. CASE p.ptr[fd] = 0
  <2>1. /\ Len(q.chg) = n + 1 /\ q.chg[n + 1] = e
        /\ \A j \in 1 .. n : q.chg[j] = p.chg[j]
        /\ q.ptr[fd] = n + 1
        /\ \A g \in FD : g # fd => q.ptr[g] = p.ptr[g]
    <3>1. q.chg = Append(p.chg, e) /\ e \in Entry
      BY <1>1, <1>3, <1>7 DEF Entry
    <3>2. q.ptr = [p.ptr EXCEPT ![fd] = n + 1]
      BY <1>3, <1>7
    <3> HIDE DEF e
    <3> QED
      BY <1>1, <3>1, <3>2, AppendFacts
  <2>2. e.fd = fd /\ e.prev = p.evts[fd]
    OBVIOUS
  <2> HIDE DEF e, n
  <2>3. \A j \in 1 .. n + 1 : j # n + 1 => j \in 1 .. n
    BY <1>1
  <2>4. n + 1 \in 1 .. n + 1 /\ n + 1 # 0 /\ n + 1 \notin 1 .. n
        /\ \A j \in 1 .. n : j \in 1 .. n + 1
    BY <1>1
  <2>5. Recorded(q)
    <3>1. ASSUME NEW g \in FD, q.ptr[g] # 0
          PROVE  q.ptr[g] \in 1 .. Len(q.chg) /\ q.chg[q.ptr[g]].fd = g
      <4>1. CASE g = fd
        BY <2>1, <2>2, <2>4, <4>1
      <4>2. CASE g # fd
        <5>1. p.ptr[g] \in 1 .. n /\ p.chg[p.ptr[g]].fd = g
          BY <2>1, <3>1, <4>2 DEF Recorded, n
        <5> QED
          BY <2>1, <2>4, <4>2, <5>1
      <4> QED
        BY <4>1, <4>2
    <3>2. ASSUME NEW j \in 1 .. Len(q.chg), q.ptr[q.chg[j].fd] # j
          PROVE  q.chg[j].prev = {}
      <4>1. j \in 1 .. n
        BY <2>1, <2>2, <2>3, <3>2
      <4>2. p.ptr[p.chg[j].fd] # j
        <5>1. q.chg[j] = p.chg[j] /\ p.chg[j].fd \in FD
          BY <1>1, <2>1, <4>1 DEF n
        <5>2. CASE p.chg[j].fd = fd
          <6>1. j # 0
            BY <1>1, <4>1
          <6> QED
            BY <1>7, <5>2, <6>1
        <5>3. CASE p.chg[j].fd # fd
          BY <2>1, <3>2, <5>1, <5>3
        <5> QED
          BY <5>2, <5>3
      <4> QED
        BY <2>1, <4>1, <4>2 DEF Recorded, n
    <3> QED
      BY <3>1, <3>2 DEF Recorded
  <2>6. ASSUME NEW k, NEW g \in FD, InStep(p, k, g) PROVE InStep(q, k, g)
    <3>1. CASE g = fd
      <4>1. k[fd] = p.evts[fd]
        BY <1>7, <2>6, <3>1 DEF InStep
      <4>2. q.ptr[fd] # 0 /\ q.chg[q.ptr[fd]].prev = k[fd]
        BY <2>1, <2>2, <2>4, <4>1
      <4>3. ASSUME NEW j \in 1 .. Len(q.chg), q.chg[j].fd = fd, q.ptr[fd] # j
            PROVE  k[fd] = {}
        <5>1. j \in 1 .. n /\ j # 0
          BY <1>1, <2>1, <2>3, <4>3
        <5>2. p.chg[j].fd = fd /\ p.ptr[fd] # j
          BY <1>7, <2>1, <4>3, <5>1
        <5> QED
          BY <2>6, <3>1, <5>1, <5>2 DEF InStep, n
      <4> QED
        BY <3>1, <4>2, <4>3 DEF InStep
    <3>2. CASE g # fd
      <4>1. q.ptr[g] = p.ptr[g] /\ q.evts[g] = p.evts[g]
        BY <1>4, <2>1, <3>2
      <4>2. p.ptr[g] # 0 => q.chg[q.ptr[g]] = p.chg[p.ptr[g]]
        BY <2>1, <4>1 DEF Recorded, n
      <4>3. ASSUME NEW j \in 1 .. Len(q.chg), q.chg[j].fd = g, q.ptr[g] # j
            PROVE  k[g] = {}
        <5>1. j \in 1 .. n
          BY <2>1, <2>2, <2>3, <3>2, <4>3
        <5>2. p.chg[j].fd = g /\ p.ptr[g] # j
          BY <2>1, <4>1, <4>3, <5>1
        <5> QED
          BY <2>6, <5>1, <5>2 DEF InStep, n
      <4> QED
        BY <2>6, <4>1, <4>2, <4>3 DEF InStep
    <3> QED
      BY <3>1, <3>2
  <2> QED
    BY <1>2, <1>4, <1>5, <2>5, <2>6 DEF Wished, q
<1> QED
  BY <1>6, <1>7

\* A wish that changes nothing, and one after another.
LEMMA WishedChain ==
  ASSUME NEW p \in PollerType, NEW q, NEW r, NEW fd \in FD
  PROVE  /\ Recorded(p) => Wished(p, p, fd)
         /\ Wished(p, q, fd) /\ Wished(q, r, fd) => Wished(p, r, fd)
BY DEF Wished

\* __fd_set()
LEMMA SetWished ==
  ASSUME NEW p \in PollerType, Recorded(p), NEW fd \in FD, NEW dir \in Dir
  PROVE  /\ Wished(p, fd_set(p, fd, dir), fd)
         /\ fd_set(p, fd, dir).evts[fd] = p.evts[fd] \cup {dir}
<1>1. CASE fd_is_set(p, fd, dir)
  BY <1>1, WishedChain DEF fd_set, fd_is_set
<1>2. CASE ~ fd_is_set(p, fd, dir)
  <2> DEFINE m == p.evts[fd] \cup {dir}
  <2>1. m \in Masks
    BY PollerFields DEF Masks
  <2>2. fd_set(p, fd, dir) = ChangeMask(p, fd, m)
    BY <1>2 DEF fd_set
  <2> HIDE DEF m
  <2>3. Wished(p, ChangeMask(p, fd, m), fd) /\ ChangeMask(p, fd, m).evts[fd] = m
    BY <2>1, ChangeMaskWished
  <2> QED
    BY <2>2, <2>3 DEF m
<1> QED
  BY <1>1, <1>2

\* __fd_clr()
LEMMA ClrWished ==
  ASSUME NEW p \in PollerType, Recorded(p), NEW fd \in FD, NEW dir \in Dir
  PROVE  /\ Wished(p, fd_clr(p, fd, dir), fd)
         /\ fd_clr(p, fd, dir).evts[fd] = p.evts[fd] \ {dir}
<1>1. CASE ~ fd_is_set(p, fd, dir)
  BY <1>1, WishedChain DEF fd_clr, fd_is_set
<1>2. CASE fd_is_set(p, fd, dir)
  <2> DEFINE m == p.evts[fd] \ {dir}
  <2>1. m \in Masks
    BY PollerFields DEF Masks
  <2>2. fd_clr(p, fd, dir) = ChangeMask(p, fd, m)
    BY <1>2 DEF fd_clr
  <2> HIDE DEF m
  <2>3. Wished(p, ChangeMask(p, fd, m), fd) /\ ChangeMask(p, fd, m).evts[fd] = m
    BY <2>1, ChangeMaskWished
  <2> QED
    BY <2>2, <2>3 DEF m
<1> QED
  BY <1>1, <1>2

\* recheck_state() of a result that closes nothing: reading stays wanted unless
\* the result takes it back.
LEMMA RecheckWished ==
  ASSUME NEW p \in PollerType, Recorded(p), NEW fd \in FD, NEW flag
  PROVE  /\ Wished(p, recheck_flags(p, fd, flag), fd)
         /\ "RD" \in p.evts[fd] /\ "CLOSE_RD" \notin flag
              => "RD" \in recheck_flags(p, fd, flag).evts[fd]
         /\ flag = {} => recheck_flags(p, fd, flag) = p
<1> DEFINE clr(q, f, d) == IF f \in flag THEN fd_clr(q, fd, d) ELSE q
           set(q, f, d) == IF f \in flag THEN fd_set(q, fd, d) ELSE q
           a == clr(p, "CLOSE_RD", "RD")
           b == clr(a, "CLOSE_WR", "WR")
           c == set(b, "SET_RD", "RD")
           e == set(c, "SET_WR", "WR")
<1>1. recheck_flags(p, fd, flag) = e
  BY DEF recheck_flags
<1>2. "RD" \in Dir /\ "WR" \in Dir /\ "RD" # "WR"
  BY DEF Dir
<1>3. ASSUME NEW q, Wished(p, q, fd), NEW f, NEW d \in Dir
      PROVE  /\ Wished(p, clr(q, f, d), fd) /\ Wished(p, set(q, f, d), fd)
             /\ "RD" \in q.evts[fd] /\ (f \notin flag \/ d # "RD")
                  => "RD" \in clr(q, f, d).evts[fd]
             /\ "RD" \in q.evts[fd] => "RD" \in set(q, f, d).evts[fd]
  <2>1. q \in PollerType /\ Recorded(q)
    BY <1>3 DEF Wished
  <2>2. /\ Wished(q, fd_clr(q, fd, d), fd) /\ fd_clr(q, fd, d).evts[fd] = q.evts[fd] \ {d}
        /\ Wished(q, fd_set(q, fd, d), fd) /\ fd_set(q, fd, d).evts[fd] = q.evts[fd] \cup {d}
    BY <2>1, SetWished, ClrWished
  <2>3. Wished(p, fd_clr(q, fd, d), fd) /\ Wished(p, fd_set(q, fd, d), fd)
    BY <1>3, <2>2, WishedChain
  <2> QED
    BY <1>3, <2>2, <2>3
<1>4. flag = {} => e = p
  OBVIOUS
<1> HIDE DEF clr, set
<1>5. Wished(p, p, fd)
  BY WishedChain
<1>6. Wished(p, a, fd) /\ ("RD" \in p.evts[fd] /\ "CLOSE_RD" \notin flag => "RD" \in a.evts[fd])
  BY <1>2, <1>3, <1>5
<1> HIDE DEF a
<1>7. Wished(p, b, fd) /\ ("RD" \in a.evts[fd] => "RD" \in b.evts[fd])
  BY <1>2, <1>3, <1>6
<1> HIDE DEF b
<1>8. Wished(p, c, fd) /\ ("RD" \in b.evts[fd] => "RD" \in c.evts[fd])
  BY <1>2, <1>3, <1>7
<1> HIDE DEF c
<1>9. Wished(p, e, fd) /\ ("RD" \in c.evts[fd] => "RD" \in e.evts[fd])
  BY <1>2, <1>3, <1>8
<1> HIDE DEF e
<1> QED
  BY <1>1, <1>4, <1>6, <1>7, <1>8, <1>9

\* __fd_clo(): the descriptor is in step with a kernel that forgot it, whatever
\* was recorded of it.
LEMMA CloForgets ==
  ASSUME NEW p \in PollerType, Recorded(p), NEW fd \in FD,
         NEW k \in [FD -> Masks], k[fd] = {}
  PROVE  LET q == fd_clo(p, fd)
         IN  /\ q \in PollerType /\ Recorded(q) /\ InStep(q, k, fd)
             /\ q.evts = [p.evts EXCEPT ![fd] = {}]
             /\ \A g \in FD : g # fd /\ InStep(p, k, g) => InStep(q, k, g)
<1> DEFINE q == fd_clo(p, fd)
           n == Len(p.chg)
<1>1. /\ p.evts \in [FD -> Masks] /\ p.ptr \in [FD -> Nat]
      /\ p.chg \in Seq(Entry) /\ n \in Nat
      /\ \A j \in 1 .. n : p.chg[j].fd \in FD /\ p.chg[j].prev \in Masks
  BY PollerFields
<1>2. p.ptr[fd] \in 0 .. n /\ (p.ptr[fd] # 0 => p.ptr[fd] \in 1 .. n)
  BY <1>1 DEF Recorded
<1>3. /\ q \in PollerType /\ Len(q.chg) = n
      /\ q.evts = [p.evts EXCEPT ![fd] = {}]
      /\ q.ptr = [p.ptr EXCEPT ![fd] = 0]
  BY <1>2, FdCloFacts
<1>4. \A j \in 1 .. n : /\ q.chg[j].fd = p.chg[j].fd
                        /\ q.chg[j].prev = IF j = p.ptr[fd] THEN {} ELSE p.chg[j].prev
  <2> SUFFICES ASSUME NEW j \in 1 .. n
               PROVE  /\ q.chg[j].fd = p.chg[j].fd
                      /\ q.chg[j].prev = IF j = p.ptr[fd] THEN {} ELSE p.chg[j].prev
    OBVIOUS
  <2>1. j # 0
    BY <1>1
  <2>2. CASE p.ptr[fd] = 0
    BY <2>1, <2>2 DEF fd_clo
  <2>3. CASE p.ptr[fd] # 0
    <3>1. q.chg = [p.chg EXCEPT ![p.ptr[fd]] = [fd |-> p.chg[p.ptr[fd]].fd, prev |-> {}]]
      BY <2>3 DEF fd_clo
    <3> HIDE DEF q
    <3>2. j \in DOMAIN p.chg
      BY <1>1
    <3> QED
      BY <3>1, <3>2
  <2> QED
    BY <2>2, <2>3
<1> HIDE DEF q, n
<1>5. /\ q.ptr[fd] = 0 /\ q.evts[fd] = {}
      /\ \A g \in FD : g # fd => q.ptr[g] = p.ptr[g] /\ q.evts[g] = p.evts[g]
  BY <1>1, <1>3
<1>6. Recorded(q)
  <2>1. ASSUME NEW g \in FD, q.ptr[g] # 0
        PROVE  q.ptr[g] \in 1 .. Len(q.chg) /\ q.chg[q.ptr[g]].fd = g
    <3>1. g # fd /\ q.ptr[g] = p.ptr[g]
      BY <1>5, <2>1
    <3>2. p.ptr[g] \in 1 .. n /\ p.chg[p.ptr[g]].fd = g
      BY <2>1, <3>1 DEF Recorded, n
    <3> QED
      BY <1>3, <1>4, <3>1, <3>2
  <2>2. ASSUME NEW j \in 1 .. Len(q.chg), q.ptr[q.chg[j].fd] # j
        PROVE  q.chg[j].prev = {}
    <3>1. j \in 1 .. n
      BY <1>3
    <3>2. j # p.ptr[fd] => p.ptr[p.chg[j].fd] # j
      BY <1>1, <1>4, <1>5, <2>2, <3>1
    <3> QED
      BY <1>4, <3>1, <3>2 DEF Recorded, n
  <2> QED
    BY <2>1, <2>2 DEF Recorded
<1>7. InStep(q, k, fd)
  BY <1>5 DEF InStep
<1>8. ASSUME NEW g \in FD, g # fd, InStep(p, k, g) PROVE InStep(q, k, g)
  <2>1. q.ptr[g] = p.ptr[g] /\ q.evts[g] = p.evts[g]
    BY <1>5, <1>8
  <2>2. ASSUME p.ptr[g] # 0 PROVE k[g] = q.chg[p.ptr[g]].prev
    <3>1. p.ptr[g] \in 1 .. n /\ p.chg[p.ptr[g]].fd = g
      BY <2>2 DEF Recorded, n
    <3>2. p.ptr[g] # p.ptr[fd]
      BY <1>8, <3>1 DEF Recorded
    <3> QED
      BY <1>4, <1>8, <2>2, <3>1, <3>2 DEF InStep
  <2>3. ASSUME NEW j \in 1 .. Len(q.chg), q.chg[j].fd = g, q.ptr[g] # j
        PROVE  k[g] = {}
    <3>1. j \in 1 .. n /\ p.chg[j].fd = g /\ p.ptr[g] # j
      BY <1>3, <1>4, <2>1, <2>3
    <3> QED
      BY <1>8, <3>1 DEF InStep, n
  <2> QED
    BY <1>8, <2>1, <2>2, <2>3 DEF InStep
<1> QED
  BY <1>3, <1>6, <1>7, <1>8 DEF q

----------------------------------------------------------------------------
(* fd_flush_changes().                                                     *)

\* a[i] is the kernel's list after the first i of n entries.
Replayed(a, n, p, k, open) ==
  /\ a = [i \in 0 .. n |-> a[i]]
  /\ a[0] = k
  /\ \A i \in 1 .. n : a[i] = flush_ctl(p, a[i - 1], open, i)

\* fd_flush_changes() replays the whole list.
LEMMA FlushReplays ==
  ASSUME NEW p \in PollerType, NEW k \in [FD -> Masks], NEW open
  PROVE  \E a : /\ Replayed(a, Len(p.chg), p, k, open)
                /\ fd_flush_changes(p, k, open).epoll = a[Len(p.chg)]
<1> DEFINE n == Len(p.chg)
           F(g) == [i \in 0 .. n |-> IF i = 0 THEN k ELSE flush_ctl(p, g[i - 1], open, i)]
           after == CHOOSE g : g = F(g)
<1>1. n \in Nat
  BY PollerFields
<1>2. fd_flush_changes(p, k, open).epoll = after[n]
  BY DEF fd_flush_changes
<1>3. PICK a : Replayed(a, n, p, k, open)
  <2> DEFINE D == [FD -> Masks]
             G == [i \in 1 .. n |-> [d \in D |-> flush_ctl(p, d, open, i)]]
  <2>1. \A i \in 1 .. n, d \in D : flush_ctl(p, d, open, i) \in D
    BY FlushTypes
  <2>2. k \in D
    OBVIOUS
  <2> HIDE DEF n, D
  <2>3. G \in [1 .. n -> [D -> D]] /\ \A i \in 1 .. n, d \in D : G[i][d] = flush_ctl(p, d, open, i)
    BY <2>1
  <2> HIDE DEF G
  <2>4. PICK a : Iterates(a, n, D, k, G)
    BY <1>1, <2>2, <2>3, IterationExists
  <2>5. \A i \in 1 .. n : i - 1 \in 0 .. n
    BY <1>1
  <2>6. \A i \in 1 .. n : a[i] = flush_ctl(p, a[i - 1], open, i)
    BY <2>3, <2>4, <2>5 DEF Iterates
  <2>7. a = [i \in 0 .. n |-> a[i]] /\ a[0] = k
    BY <2>4 DEF Iterates
  <2>8. Replayed(a, n, p, k, open)
    BY <2>6, <2>7 DEF Replayed
  <2> QED
    BY <2>8
<1> HIDE DEF n
<1>4. a = F(a)
  <2>1. \A i \in 0 .. n : i = 0 \/ i \in 1 .. n
    BY <1>1
  <2>2. \A i \in 0 .. n : a[i] = IF i = 0 THEN k ELSE flush_ctl(p, a[i - 1], open, i)
    BY <1>3, <2>1 DEF Replayed
  <2>3. a = [i \in 0 .. n |-> a[i]]
    BY <1>3 DEF Replayed
  <2> QED
    BY <2>2, <2>3
<1>5. after = F(after)
  BY <1>4
<1> HIDE DEF after
<1>6. Replayed(after, n, p, k, open)
  <2>1. /\ \A i \in 1 .. n : i \in 0 .. n /\ i # 0
        /\ 0 \in 0 .. n
    BY <1>1
  <2>2. \A i \in 0 .. n : after[i] = IF i = 0 THEN k ELSE flush_ctl(p, after[i - 1], open, i)
    BY <1>5
  <2>3. after = [i \in 0 .. n |-> after[i]]
    BY <1>5
  <2> QED
    BY <2>1, <2>2, <2>3 DEF Replayed
<1> QED
  BY <1>2, <1>6 DEF n

\* One entry's call changes the kernel's mask of its own descriptor only, and
\* only while it is open.
LEMMA FlushOne ==
  ASSUME NEW p \in PollerType, NEW k \in [FD -> Masks], NEW open,
         NEW i \in 1 .. Len(p.chg)
  PROVE  LET k2 == flush_ctl(p, k, open, i)
             fd == p.chg[i].fd
         IN  /\ k2 \in [FD -> Masks]
             /\ \A g \in FD : g # fd \/ g \notin open => k2[g] = k[g]
             /\ fd \in open /\ p.chg[i].prev = {} =>
                  k2[fd] = IF k[fd] = {} THEN p.evts[fd] ELSE k[fd]
             /\ fd \in open /\ p.chg[i].prev = k[fd] => k2[fd] = p.evts[fd]
<1>1. p.chg[i].fd \in FD /\ p.evts \in [FD -> Masks]
  BY PollerFields
<1>2. flush_ctl(p, k, open, i) \in [FD -> Masks]
  BY FlushTypes
<1> QED
  BY <1>1, <1>2 DEF flush_ctl, epoll_ctl

\* The kernel's list k2 a replay of p on k ends with.
Settled(p, k, open, k2) ==
  /\ k2 \in [FD -> Masks]
  /\ \A fd \in FD : fd \notin open => k2[fd] = k[fd]
  /\ \A fd \in FD : fd \in open /\ InStep(p, k, fd) => k2[fd] = p.evts[fd]

\* The replay gives an open descriptor that was in step the mask that is wanted
\* of it, whatever entries of earlier uses of its number are in the list, and
\* leaves the closed ones alone.
LEMMA ReplaySettles ==
  ASSUME NEW p \in PollerType, Recorded(p), NEW k \in [FD -> Masks], NEW open,
         NEW a, Replayed(a, Len(p.chg), p, k, open)
  PROVE  Settled(p, k, open, a[Len(p.chg)])
<1> DEFINE n == Len(p.chg)
           T == {i \in 0 .. n : a[i] \in [FD -> Masks] /\ \A fd \in FD : fd \notin open => a[i][fd] = k[fd]}
<1>0. n \in Nat /\ n \in 0 .. n /\ \A i \in 0 .. n : i # 0 => i \in 1 .. n
  BY PollerFields
<1> HIDE DEF n
<1>1. \A i \in 0 .. n : i \in T
  <2>1. 0 \in T
    BY <1>0 DEF Replayed, n
  <2>2. ASSUME NEW i \in 0 .. n, i # 0, i - 1 \in T PROVE i \in T
    <3>1. i \in 1 .. n /\ a[i] = flush_ctl(p, a[i - 1], open, i)
      BY <1>0, <2>2 DEF Replayed, n
    <3>2. a[i - 1] \in [FD -> Masks] /\ \A fd \in FD : fd \notin open => a[i - 1][fd] = k[fd]
      BY <2>2
    <3>3. a[i] \in [FD -> Masks] /\ \A fd \in FD : fd \notin open => a[i][fd] = a[i - 1][fd]
      BY <3>1, <3>2, FlushOne DEF n
    <3> QED
      BY <3>2, <3>3
  <2> HIDE DEF T
  <2> QED
    BY <1>0, <2>1, <2>2, IndexInduction
<1>2. ASSUME NEW fd \in FD, fd \in open, InStep(p, k, fd) PROVE a[n][fd] = p.evts[fd]
  <2> DEFINE w == p.evts[fd]
             Done(i) == p.ptr[fd] = 0 \/ p.ptr[fd] \in 1 .. i
             Got(i) == \/ a[i][fd] = w /\ (Done(i) \/ k[fd] = {})
                       \/ a[i][fd] = k[fd] /\ ~ Done(i)
             U == {i \in 0 .. n : Got(i)}
  <2>1. 0 \in U
    <3>1. a[0] = k /\ 0 \in 0 .. n /\ p.ptr[fd] \notin 1 .. 0
      BY <1>0 DEF Replayed, n
    <3> QED
      BY <1>2, <3>1 DEF InStep
  <2>2. ASSUME NEW i \in 0 .. n, i # 0, i - 1 \in U PROVE i \in U
    <3>1. i \in 1 .. n /\ a[i] = flush_ctl(p, a[i - 1], open, i) /\ a[i - 1] \in [FD -> Masks]
      <4>1. i - 1 \in 0 .. n
        BY <2>2
      <4>2. i - 1 \in T
        BY <1>1, <4>1
      <4> QED
        BY <1>0, <2>2, <4>2 DEF Replayed, n
    <3>2. Got(i - 1)
      BY <2>2
    <3> HIDE DEF Got
    <3>3. /\ p.chg[i].fd # fd => a[i][fd] = a[i - 1][fd]
          /\ p.chg[i].fd = fd /\ p.chg[i].prev = {} =>
               a[i][fd] = IF a[i - 1][fd] = {} THEN w ELSE a[i - 1][fd]
          /\ p.chg[i].fd = fd /\ p.chg[i].prev = a[i - 1][fd] => a[i][fd] = w
      BY <1>2, <3>1, FlushOne DEF n
    <3>4. ASSUME p.chg[i].fd # fd PROVE Got(i)
      <4>1. p.ptr[fd] # i
        BY <1>0, <3>1, <3>4 DEF Recorded, n
      <4>2. Done(i) <=> Done(i - 1)
        BY <3>1, <4>1, <1>0
      <4> QED
        BY <3>2, <3>3, <3>4, <4>2 DEF Got
    <3>5. ASSUME p.chg[i].fd = fd, p.ptr[fd] = i PROVE Got(i)
      <4>1. i # 0 /\ p.chg[i].prev = k[fd]
        BY <1>0, <1>2, <2>2, <3>5 DEF InStep
      <4>2. Done(i) /\ ~ Done(i - 1)
        BY <1>0, <3>1, <3>5
      <4>3. a[i - 1][fd] = k[fd] \/ (a[i - 1][fd] = w /\ k[fd] = {})
        BY <3>2, <4>2 DEF Got
      <4>4. a[i][fd] = w
        BY <3>3, <3>5, <4>1, <4>3
      <4> QED
        BY <4>2, <4>4 DEF Got
    <3>6. ASSUME p.chg[i].fd = fd, p.ptr[fd] # i PROVE Got(i)
      <4>1. k[fd] = {} /\ p.chg[i].prev = {}
        BY <1>2, <3>1, <3>6 DEF InStep, Recorded, n
      <4>2. a[i - 1][fd] = {} \/ a[i - 1][fd] = w
        BY <3>2, <4>1 DEF Got
      <4>3. a[i][fd] = w
        BY <3>3, <3>6, <4>1, <4>2
      <4> QED
        BY <4>1, <4>3 DEF Got
    <3> QED
      BY <3>4, <3>5, <3>6
  <2>3. n \in U
    <3> HIDE DEF U
    <3> QED
      BY <1>0, <2>1, <2>2, IndexInduction
  <2>4. p.ptr[fd] = 0 \/ p.ptr[fd] \in 1 .. n
    BY DEF Recorded, n
  <2> QED
    BY <2>3, <2>4
<1>3. n \in T
  BY <1>0, <1>1
<1> QED
  BY <1>2, <1>3 DEF n, Settled

\* The whole of fd_flush_changes().
LEMMA FlushFacts ==
  ASSUME NEW p \in PollerType, Recorded(p), NEW k \in [FD -> Masks], NEW open
  PROVE  LET f == fd_flush_changes(p, k, open)
         IN  /\ f.poll \in PollerType /\ Recorded(f.poll) /\ f.poll.evts = p.evts
             /\ f.epoll \in [FD -> Masks]
             /\ \A fd \in FD : f.epoll[fd] = p.evts[fd] => InStep(f.poll, f.epoll, fd)
             /\ \A fd \in FD : fd \notin open => f.epoll[fd] = k[fd]
             /\ \A fd \in FD : fd \in open /\ InStep(p, k, fd) => f.epoll[fd] = p.evts[fd]
<1> DEFINE f == fd_flush_changes(p, k, open)
           flushed == {p.chg[i].fd : i \in 1 .. Len(p.chg)}
           ptr == [fd \in FD |-> IF fd \in flushed THEN 0 ELSE p.ptr[fd]]
<1>1. /\ p.evts \in [FD -> Masks] /\ p.ptr \in [FD -> Nat]
      /\ p = [evts |-> p.evts, chg |-> p.chg, ptr |-> p.ptr]
  BY PollerFields DEF PollerType
<1>2. f.poll = [evts |-> p.evts, chg |-> << >>, ptr |-> ptr]
  BY <1>1 DEF fd_flush_changes, flush_end
<1>3. \A fd \in FD : ptr[fd] = 0
  BY DEF Recorded
<1>4. ptr \in [FD -> Nat] /\ << >> \in Seq(Entry) /\ 1 .. Len(<< >>) = {}
  BY <1>3
<1>5. /\ f.epoll \in [FD -> Masks]
      /\ \A fd \in FD : fd \notin open => f.epoll[fd] = k[fd]
      /\ \A fd \in FD : fd \in open /\ InStep(p, k, fd) => f.epoll[fd] = p.evts[fd]
  <2>1. PICK a : Replayed(a, Len(p.chg), p, k, open) /\ f.epoll = a[Len(p.chg)]
    BY FlushReplays
  <2> HIDE DEF f
  <2>2. Settled(p, k, open, a[Len(p.chg)])
    BY <2>1, ReplaySettles
  <2> QED
    BY <2>1, <2>2 DEF Settled
<1> HIDE DEF f, ptr
<1>6. f.poll \in PollerType
  BY <1>1, <1>2, <1>4 DEF PollerType
<1>7. f.poll.evts = p.evts /\ f.poll.chg = << >> /\ f.poll.ptr = ptr
  BY <1>2
<1>8. Recorded(f.poll)
  BY <1>3, <1>4, <1>7 DEF Recorded
<1>9. \A fd \in FD : f.epoll[fd] = p.evts[fd] => InStep(f.poll, f.epoll, fd)
  BY <1>3, <1>4, <1>7 DEF InStep
<1> QED
  BY <1>5, <1>6, <1>7, <1>8, <1>9 DEF f

=============================================================================
