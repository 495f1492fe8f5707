------------------------------- MODULE PollerOps -------------------------------
(***************************************************************************)
(* The change list of the epoll poller (src/src/poller.c) as operators on  *)
(* the poller's own memory, and the part of the kernel it talks to.        *)
(*                                                                         *)
(* The poller never calls epoll_ctl() when a handler asks for an event.    *)
(* It records the wish in fd_evts, a two-bit mask per descriptor, and the  *)
(* first wish since the last flush allocates an entry of chg_list that     *)
(* remembers the mask the kernel still has.  fd_flush_changes() replays    *)
(* the list just before epoll_wait().                                      *)
(*                                                                         *)
(* A poller p is a record:                                                 *)
(*   p.evts[fd]  the mask of fd in fd_evts, as a set of directions         *)
(*   p.chg       chg_list[0 .. nbchanges-1], entries [fd, prev]            *)
(*   p.ptr[fd]   chg_ptr[fd] as a 1-based index into p.chg, 0 for NULL     *)
(***************************************************************************)
EXTENDS Integers, Sequences

CONSTANT FD     \* the descriptor numbers, 0 .. global.maxconn-1 in the code

Dir   == {"RD", "WR"}
Masks == SUBSET Dir

Entry == [fd : FD, prev : Masks]

PollerType == [evts : [FD -> Masks], chg : Seq(Entry), ptr : [FD -> Nat]]

\* calloc() of the three arrays: no event wanted, no change recorded.
poll_init ==
  [evts |-> [fd \in FD |-> {}], chg |-> << >>, ptr |-> [fd \in FD |-> 0]]

----------------------------------------------------------------------------
(* The operations handlers and the loop call.                              *)

fd_is_set(p, fd, dir) == dir \in p.evts[fd]

\* Mutant: an existing entry is overwritten with the newer mask.
alloc_chg_list_Overwrites(p, fd, old_evt) ==
  LET i == IF p.ptr[fd] # 0 THEN p.ptr[fd] ELSE Len(p.chg) + 1
  IN  [evts |-> p.evts,
       chg  |-> [j \in 1 .. (IF i > Len(p.chg) THEN i ELSE Len(p.chg)) |->
                   IF j = i THEN [fd |-> fd, prev |-> old_evt] ELSE p.chg[j]],
       ptr  |-> [p.ptr EXCEPT ![fd] = i]]

\* Mutant: every change of a descriptor takes an entry of its own.
alloc_chg_list_Again(p, fd, old_evt) ==
  [evts |-> p.evts,
   chg  |-> Append(p.chg, [fd |-> fd, prev |-> old_evt]),
   ptr  |-> [p.ptr EXCEPT ![fd] = Len(p.chg) + 1]]

\* A descriptor that already has an entry keeps it, with its older mask.  That
\* nbchanges stays below the global.maxconn entries of chg_list is not tested
\* by the code; EventLoop states it (ListFits).
alloc_chg_list(p, fd, old_evt) ==
  IF p.ptr[fd] # 0
  THEN p
  ELSE [evts |-> p.evts,
        chg  |-> Append(p.chg, [fd |-> fd, prev |-> old_evt]),
        ptr  |-> [p.ptr EXCEPT ![fd] = Len(p.chg) + 1]]

\* Replace the mask of fd, after its previous one is in the change list.
ChangeMask(p, fd, mask) ==
  LET q == alloc_chg_list(p, fd, p.evts[fd])
  IN  [evts |-> [q.evts EXCEPT ![fd] = mask], chg |-> q.chg, ptr |-> q.ptr]

fd_set(p, fd, dir) ==
  IF fd_is_set(p, fd, dir) THEN p ELSE ChangeMask(p, fd, p.evts[fd] \cup {dir})

fd_clr(p, fd, dir) ==
  IF ~ fd_is_set(p, fd, dir) THEN p ELSE ChangeMask(p, fd, p.evts[fd] \ {dir})

fd_rem(p, fd) ==
  IF p.evts[fd] = {} THEN p ELSE ChangeMask(p, fd, {})

\* Mutant: fd_evts keeps the bits of the closed descriptor.
fd_clo_KeepsEvts(p, fd) ==
  [evts |-> p.evts, chg |-> p.chg, ptr |-> [p.ptr EXCEPT ![fd] = 0]]

\* Mutant: "chg_ptr[fd] = NULL" is missing.
fd_clo_KeepsPtr(p, fd) ==
  [evts |-> [p.evts EXCEPT ![fd] = {}],
   chg  |-> IF p.ptr[fd] = 0
            THEN p.chg
            ELSE [p.chg EXCEPT ![p.ptr[fd]] = [fd |-> @.fd, prev |-> {}]],
   ptr  |-> p.ptr]

\* close() makes the kernel forget the descriptor: a pending entry stays in
\* the list but its previous mask becomes empty, and chg_ptr lets go of it.
fd_clo(p, fd) ==
  [evts |-> [p.evts EXCEPT ![fd] = {}],
   chg  |-> IF p.ptr[fd] = 0
            THEN p.chg
            ELSE [p.chg EXCEPT ![p.ptr[fd]] = [fd |-> @.fd, prev |-> {}]],
   ptr  |-> [p.ptr EXCEPT ![fd] = 0]]

\* What recheck_state() does with the flags of a callback's result that is not
\* ZB_CLOSE: the ZB_CLOSE_* bits clear a direction, the ZB_SET_* bits then set
\* one.
recheck_flags(p, fd, flag) ==
  LET clr(q, f, d) == IF f \in flag THEN fd_clr(q, fd, d) ELSE q
      set(q, f, d) == IF f \in flag THEN fd_set(q, fd, d) ELSE q
  IN  set(set(clr(clr(p, "CLOSE_RD", "RD"), "CLOSE_WR", "WR"),
              "SET_RD", "RD"), "SET_WR", "WR")

----------------------------------------------------------------------------
(* Flushing.                                                               *)

\* epoll_ctl(2) on the interest list k, where {} stands for "not
\* registered".  Only an open descriptor can be named; ADD fails on a
\* registered one, MOD and DEL on an unregistered one.  The poller ignores
\* the result, so a failed call is a call without effect.
epoll_ctl(k, open, op, fd, mask) ==
  IF fd \in open /\ ((op = "ADD") <=> (k[fd] = {}))
  THEN [k EXCEPT ![fd] = mask]
  ELSE k

\* Mutant: the EPOLL_CTL_DEL branch is missing, a descriptor whose mask
\* became empty stays registered.
flush_ctl_NoDel(p, k, open, i) ==
  LET fd   == p.chg[i].fd
      next == p.evts[fd]
  IN  IF next = {} THEN k
      ELSE epoll_ctl(k, open, IF p.chg[i].prev = {} THEN "ADD" ELSE "MOD", fd, next)

\* Mutant: ADD and MOD are swapped.
flush_ctl_Swapped(p, k, open, i) ==
  LET fd   == p.chg[i].fd
      prev == p.chg[i].prev
      next == p.evts[fd]
      op   == IF prev = {} THEN "MOD" ELSE IF next = {} THEN "DEL" ELSE "ADD"
  IN  IF prev = next THEN k ELSE epoll_ctl(k, open, op, fd, next)

\* One turn of the loop of fd_flush_changes(): the entry's effect on the
\* interest list.
flush_ctl(p, k, open, i) ==
  LET fd   == p.chg[i].fd
      prev == p.chg[i].prev
      next == p.evts[fd]
      op   == IF prev = {} THEN "ADD" ELSE IF next = {} THEN "DEL" ELSE "MOD"
  IN  IF prev = next THEN k ELSE epoll_ctl(k, open, op, fd, next)

\* ... and on the poller: the entry is released.
flush_ptr(p, i) ==
  [evts |-> p.evts, chg |-> p.chg, ptr |-> [p.ptr EXCEPT ![p.chg[i].fd] = 0]]

\* nbchanges = 0
flush_end(p) == [evts |-> p.evts, chg |-> << >>, ptr |-> p.ptr]

\* The whole of fd_flush_changes(): the calls of epoll_ctl() entry by entry, and
\* every entry released.
fd_flush_changes(p, k, open) ==
  LET after[i \in 0 .. Len(p.chg)] ==
        IF i = 0 THEN k ELSE flush_ctl(p, after[i - 1], open, i)
      flushed == {p.chg[i].fd : i \in 1 .. Len(p.chg)}
  IN  [epoll |-> after[Len(p.chg)],
       poll  |-> flush_end([p EXCEPT !.ptr = [fd \in FD |-> IF fd \in flushed THEN 0
                                                      ELSE p.ptr[fd]]])]

=============================================================================
