------------------------------- MODULE Interest -------------------------------
(***************************************************************************)
(* What the poller promises to the handlers, without the change list.      *)
(*                                                                         *)
(* A handler sets and clears directions of open descriptors; a descriptor  *)
(* that is closed is wanted and watched for nothing, so that the next      *)
(* connection that receives its number starts afresh.  At some moment      *)
(* between the handler's wish and the next sleep the kernel learns of it,  *)
(* one descriptor at a time, and the process sleeps in epoll_wait() only   *)
(* while the kernel watches exactly what is wanted.                        *)
(***************************************************************************)
CONSTANTS FD, Dir

VARIABLES
  want,      \* want[fd]: directions the handlers asked for
  watched,   \* watched[fd]: directions in the kernel's interest list
  live,      \* descriptors the process has open
  asleep     \* is the process inside epoll_wait()?

ivars == <<want, watched, live, asleep>>

Init ==
  /\ want    = [fd \in FD |-> {}]
  /\ watched = [fd \in FD |-> {}]
  /\ live    = {}
  /\ asleep  = FALSE

Open(fd) ==
  /\ ~ asleep
  /\ fd \in FD \ live
  /\ live' = live \cup {fd}
  /\ UNCHANGED <<want, watched, asleep>>

Ask(fd, mask) ==
  /\ ~ asleep
  /\ fd \in live
  /\ want' = [want EXCEPT ![fd] = mask]
  /\ UNCHANGED <<watched, live, asleep>>

Close(fd) ==
  /\ ~ asleep
  /\ fd \in live
  /\ live'    = live \ {fd}
  /\ want'    = [want EXCEPT ![fd] = {}]
  /\ watched' = [watched EXCEPT ![fd] = {}]
  /\ UNCHANGED asleep

Tell(fd) ==
  /\ ~ asleep
  /\ fd \in live
  /\ watched' = [watched EXCEPT ![fd] = want[fd]]
  /\ UNCHANGED <<want, live, asleep>>

Sleep ==
  /\ ~ asleep
  /\ watched = want
  /\ asleep' = TRUE
  /\ UNCHANGED <<want, watched, live>>

Wake ==
  /\ asleep
  /\ asleep' = FALSE
  /\ UNCHANGED <<want, watched, live>>

Next ==
  \/ \E fd \in FD : Open(fd) \/ Close(fd) \/ Tell(fd)
  \/ \E fd \in FD, mask \in SUBSET Dir : Ask(fd, mask)
  \/ Sleep
  \/ Wake

Spec == Init /\ [][Next]_ivars

=============================================================================
