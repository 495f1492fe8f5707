--------------------------------- MODULE Poller ---------------------------------
(***************************************************************************)
(* The poller of src/src/poller.c driven by arbitrary well-behaved         *)
(* callers.  Between two sleeps (pc = "run") the handlers open, arm,       *)
(* disarm and close descriptors in any order; poll_do() then replays the   *)
(* change list, one entry per step (pc = "flush"), and sleeps in           *)
(* epoll_wait() (pc = "wait").                                             *)
(*                                                                         *)
(* "Well-behaved" means one thing: EV_FD_SET is called only on a           *)
(* descriptor that is open.  EventLoop.tla shows which handlers keep to it *)
(* and PubSub.tla which do not.                                            *)
(***************************************************************************)
EXTENDS PollerOps, FiniteSets

CONSTANT MaxOpens   \* bound: descriptors opened between two sleeps

ASSUME MaxOpensAssumption == MaxOpens \in Nat

VARIABLES
  poll,    \* fd_evts, chg_list, chg_ptr: see PollerOps
  epoll,   \* the kernel's interest list, epoll[fd] = {}: not registered
  open,    \* descriptors the process has open (kernel)
  pc,      \* where poll_do() is: "run" (not in it), "flush", "wait"
  chg,     \* the loop index of fd_flush_changes()
  opens    \* descriptors opened since the last sleep

pollerVars == <<poll, epoll, open, pc, chg, opens>>

TypeOK ==
  /\ poll \in PollerType
  /\ epoll \in [FD -> Masks]
  /\ open \in SUBSET FD
  /\ pc \in {"run", "flush", "wait"}
  /\ chg \in Nat \ {0}
  /\ opens \in 0 .. MaxOpens

PollerInit ==
  /\ poll = poll_init
  /\ epoll = [fd \in FD |-> {}]
  /\ open = {}
  /\ pc = "run"
  /\ chg = 1
  /\ opens = 0

----------------------------------------------------------------------------
(* Between two sleeps.                                                     *)

\* socket() or accept() hands out a number that is free.
Open(fd) ==
  /\ pc = "run"
  /\ fd \notin open
  /\ opens < MaxOpens
  /\ open' = open \cup {fd}
  /\ opens' = opens + 1
  /\ UNCHANGED <<poll, epoll, pc, chg>>

\* EV_FD_SET, EV_FD_CLR and EV_FD_REM on an open descriptor.
Set(fd, dir) ==
  /\ pc = "run"
  /\ fd \in open
  /\ poll' = fd_set(poll, fd, dir)
  /\ UNCHANGED <<epoll, open, pc, chg, opens>>

Clr(fd, dir) ==
  /\ pc = "run"
  /\ fd \in open
  /\ poll' = fd_clr(poll, fd, dir)
  /\ UNCHANGED <<epoll, open, pc, chg, opens>>

Rem(fd) ==
  /\ pc = "run"
  /\ fd \in open
  /\ poll' = fd_rem(poll, fd)
  /\ UNCHANGED <<epoll, open, pc, chg, opens>>

\* EV_FD_CLO followed by close(), which drops the kernel's registration.
Delete(fd) ==
  /\ pc = "run"
  /\ fd \in open
  /\ poll' = fd_clo(poll, fd)
  /\ epoll' = [epoll EXCEPT ![fd] = {}]
  /\ open' = open \ {fd}
  /\ UNCHANGED <<pc, chg, opens>>

----------------------------------------------------------------------------
(* poll_do().                                                              *)

PollDo ==
  /\ pc = "run"
  /\ pc' = IF poll.chg # << >> THEN "flush" ELSE "wait"
  /\ UNCHANGED <<poll, epoll, open, chg, opens>>

FlushStep ==
  /\ pc = "flush"
  /\ chg <= Len(poll.chg)
  /\ epoll' = flush_ctl(poll, epoll, open, chg)
  /\ poll' = flush_ptr(poll, chg)
  /\ chg' = chg + 1
  /\ UNCHANGED <<open, pc, opens>>

FlushDone ==
  /\ pc = "flush"
  /\ chg > Len(poll.chg)
  /\ poll' = flush_end(poll)
  /\ chg' = 1
  /\ pc' = "wait"
  /\ UNCHANGED <<epoll, open, opens>>

\* epoll_wait() returns.
Wake ==
  /\ pc = "wait"
  /\ pc' = "run"
  /\ opens' = 0
  /\ UNCHANGED <<poll, epoll, open, chg>>

Handlers ==
  \E fd \in FD :
    \/ Open(fd)
    \/ Delete(fd)
    \/ Rem(fd)
    \/ \E dir \in Dir : Set(fd, dir) \/ Clr(fd, dir)

PollerNext == Handlers \/ PollDo \/ FlushStep \/ FlushDone \/ Wake

PollerSpec == PollerInit /\ [][PollerNext]_pollerVars

----------------------------------------------------------------------------
(* Properties.                                                             *)

\* While the process sleeps in epoll_wait() the kernel watches, for every
\* descriptor number, exactly the directions the handlers left set in
\* fd_evts: the change list loses and invents nothing, whatever mixture of
\* set, clear, close and reuse preceded the flush.
WaitSynchronised == pc = "wait" => epoll = poll.evts

\* A replayed entry leaves the kernel with the wanted mask of its
\* descriptor, so the epoll_ctl() results that fd_flush_changes() ignores
\* never hide a lost registration (a repeated ADD is the only failure).
FlushSettles ==
  [][FlushStep => epoll'[poll.chg[chg].fd] = poll.evts[poll.chg[chg].fd]]_pollerVars

\* The descriptor accept() hands out "appears as previously unset"
\* (comment of __fd_clo): nothing of the earlier connection with the same
\* number is wanted, watched or pending under chg_ptr.
FreeIsUnset ==
  \A fd \in FD \ open : poll.evts[fd] = {} /\ epoll[fd] = {} /\ poll.ptr[fd] = 0

\* The inductive invariant.  A live entry (chg_ptr points at it) remembers
\* the mask the kernel has; a dead one, left by close(), remembers none, and
\* neither did the kernel when it was written; a descriptor without a live
\* entry is in step with the kernel.
LiveEntries ==
  \A fd \in FD :
    poll.ptr[fd] # 0 =>
      /\ poll.ptr[fd] \in chg .. Len(poll.chg)
      /\ poll.chg[poll.ptr[fd]].fd = fd
      /\ poll.chg[poll.ptr[fd]].prev = epoll[fd]

NoEntryInStep == \A fd \in FD : poll.ptr[fd] = 0 => poll.evts[fd] = epoll[fd]

DeadEntries ==
  \A j \in 1 .. Len(poll.chg) :
    j >= chg /\ poll.ptr[poll.chg[j].fd] # j =>
      /\ poll.chg[j].prev = {}
      /\ (chg = 1 \/ poll.ptr[poll.chg[j].fd] # 0) => epoll[poll.chg[j].fd] = {}

Phases ==
  /\ pc # "flush" => chg = 1
  /\ pc = "wait" => poll.chg = << >>
  /\ chg <= Len(poll.chg) + 1

PollerInv ==
  TypeOK /\ LiveEntries /\ NoEntryInStep /\ DeadEntries /\ FreeIsUnset /\ Phases

\* The poller implements the promise of Interest.tla.
Promise ==
  INSTANCE Interest WITH
    want <- poll.evts, watched <- epoll, live <- open, asleep <- (pc = "wait")

ImplementsInterest == Promise!Spec

=============================================================================
