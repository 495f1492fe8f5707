------------------------------ MODULE SignalQueue ------------------------------
(***************************************************************************)
(* Deferred signals (src/src/signal.c) and the part of the main loop that  *)
(* answers them (proc_center in src/src/zeroserv.c).                       *)
(*                                                                         *)
(* signal_handler() runs asynchronously and only queues the number; the    *)
(* loop calls the real handlers with every signal blocked.  signal(2)      *)
(* masks a signal during its own handler and no other, so handlers of      *)
(* different signals interrupt each other, and                             *)
(* "signal_queue[signal_queue_len++] = sig" is three memory accesses: load *)
(* the length, store it incremented, store the slot.                       *)
(***************************************************************************)
EXTENDS Integers, Sequences, FiniteSets

CONSTANTS
  Sig,         \* the registered signals
  StopSig,     \* those whose handler sets _is_stop: SIGINT and SIGTERM
  MAX_SIGNAL,  \* slots of signal_queue
  MaxRaise     \* bound: signals sent to the process

NoSig == "none"   \* a slot never written; 0 in the code, which no signal has

ASSUME SignalAssumption ==
  /\ IsFiniteSet(Sig) /\ Cardinality(Sig) <= MAX_SIGNAL
  /\ StopSig \subseteq Sig
  /\ MAX_SIGNAL \in Nat /\ MaxRaise \in Nat
  /\ NoSig \notin Sig

VARIABLES
  registered,  \* signals whose signal_register() was called
  sent,        \* signals sent to the process so far
  pending,     \* the kernel's pending set
  frames,      \* handlers in progress, the innermost last
  queue, len,  \* signal_queue[], signal_queue_len
  count,       \* signal_state[].count
  pc, cur_pos, \* the main program
  is_stop,     \* _is_stop
  raced        \* signals that came in while another handler was between its
               \* load and its store of the length (history)

vars == <<registered, sent, pending, frames, queue, len, count, pc, cur_pos,
          is_stop, raced>>

InHandler == {frames[i].sig : i \in 1 .. Len(frames)}

Init ==
  /\ registered = {}
  /\ sent = 0
  /\ pending = {}
  /\ frames = << >>
  /\ queue = [i \in 0 .. MAX_SIGNAL - 1 |-> NoSig]
  /\ len = 0
  /\ count = [s \in Sig |-> 0]
  /\ pc = "init"
  /\ cur_pos = 0
  /\ is_stop = FALSE
  /\ raced = {}

----------------------------------------------------------------------------
(* The kernel.                                                             *)

\* A signal already pending is not queued twice.
Raise(s) ==
  /\ pc # "done"
  /\ s \in registered /\ sent < MaxRaise
  /\ sent' = sent + 1
  /\ pending' = pending \cup {s}
  /\ UNCHANGED <<registered, frames, queue, len, count, pc, cur_pos, is_stop, raced>>

\* __signal_process_queue() blocks every signal.
Blocked == IF pc = "process" THEN Sig ELSE InHandler

Deliver(s) ==
  /\ pc # "done"
  /\ s \in pending \ Blocked
  /\ pending' = pending \ {s}
  /\ frames' = Append(frames, [sig |-> s, at |-> "test", idx |-> 0])
  /\ raced' = IF count[s] = 0 /\ \E i \in 1 .. Len(frames) : frames[i].at = "len"
              THEN raced \cup {s} ELSE raced
  /\ UNCHANGED <<registered, sent, queue, len, count, pc, cur_pos, is_stop>>

----------------------------------------------------------------------------
(* signal_handler(), one memory access at a time.  Only registered signals *)
(* are delivered, so the test for an unhandled one never fails.            *)

Top == frames[Len(frames)]
Goto(at, idx) ==
  frames' = [frames EXCEPT ![Len(frames)] = [sig |-> Top.sig, at |-> at, idx |-> idx]]

\* Mutant: every occurrence is queued.
NotQueued_Always(s) == TRUE

NotQueued(s) == count[s] = 0

\* A full queue is only logged.
HandlerTest ==
  /\ frames # << >> /\ Top.at = "test"
  /\ Goto(IF NotQueued(Top.sig) /\ len < MAX_SIGNAL THEN "load" ELSE "count", 0)
  /\ UNCHANGED <<registered, sent, pending, queue, len, count, pc, cur_pos, is_stop, raced>>

HandlerLoad ==
  /\ frames # << >> /\ Top.at = "load"
  /\ Goto("len", len)
  /\ UNCHANGED <<registered, sent, pending, queue, len, count, pc, cur_pos, is_stop, raced>>

HandlerStoreLen ==
  /\ frames # << >> /\ Top.at = "len"
  /\ len' = Top.idx + 1
  /\ Goto("slot", Top.idx)
  /\ UNCHANGED <<registered, sent, pending, queue, count, pc, cur_pos, is_stop, raced>>

HandlerStoreSlot ==
  /\ frames # << >> /\ Top.at = "slot"
  /\ queue' = [queue EXCEPT ![Top.idx] = Top.sig]
  /\ Goto("count", Top.idx)
  /\ UNCHANGED <<registered, sent, pending, len, count, pc, cur_pos, is_stop, raced>>

HandlerReturn ==
  /\ frames # << >> /\ Top.at = "count"
  /\ count' = [count EXCEPT ![Top.sig] = @ + 1]
  /\ frames' = SubSeq(frames, 1, Len(frames) - 1)
  /\ UNCHANGED <<registered, sent, pending, queue, len, pc, cur_pos, is_stop, raced>>

Handler ==
  HandlerTest \/ HandlerLoad \/ HandlerStoreLen \/ HandlerStoreSlot \/ HandlerReturn

----------------------------------------------------------------------------
(* The main program, which runs when no handler does.                      *)

signal_register(s) ==
  /\ frames = << >>
  /\ pc = "init"
  /\ s \notin registered
  /\ registered' = registered \cup {s}
  /\ count' = [count EXCEPT ![s] = 0]
  /\ pc' = IF registered' = Sig THEN "loop" ELSE "init"
  /\ UNCHANGED <<sent, pending, frames, queue, len, cur_pos, is_stop, raced>>

\* Mutant: the inline test misses a lone signal.
QueueIsEmpty_OffByOne == len <= 1

QueueIsEmpty == ~ (len > 0)

signal_process_queue ==
  /\ frames = << >>
  /\ pc = "loop"
  /\ pc' = IF QueueIsEmpty THEN "poll" ELSE "process"
  /\ cur_pos' = 0
  /\ UNCHANGED <<registered, sent, pending, frames, queue, len, count, is_stop, raced>>

\* sig_int() and sig_term() stop the loop, the other handlers only log.
Stops(s) == s \in StopSig

\* Mutant: "desc->count = 0" is missing.
ProcessEntry_NoReset ==
  /\ frames = << >>
  /\ pc = "process" /\ cur_pos < len
  /\ is_stop' = (is_stop \/ Stops(queue[cur_pos]))
  /\ cur_pos' = cur_pos + 1
  /\ UNCHANGED <<registered, sent, pending, frames, queue, len, count, pc, raced>>

ProcessEntry ==
  /\ frames = << >>
  /\ pc = "process" /\ cur_pos < len
  /\ LET s == queue[cur_pos]
     IN  /\ is_stop' = (is_stop \/ (count[s] > 0 /\ Stops(s)))
         /\ count' = [count EXCEPT ![s] = 0]
  /\ cur_pos' = cur_pos + 1
  /\ UNCHANGED <<registered, sent, pending, frames, queue, len, pc, raced>>

ProcessEnd ==
  /\ frames = << >>
  /\ pc = "process" /\ ~ (cur_pos < len)
  /\ len' = 0
  /\ pc' = "poll"
  /\ UNCHANGED <<registered, sent, pending, frames, queue, count, cur_pos, is_stop, raced>>

\* Tasks and events, then the test of _is_stop.
PollAndTest ==
  /\ frames = << >>
  /\ pc = "poll"
  /\ pc' = IF is_stop THEN "done" ELSE "loop"
  /\ UNCHANGED <<registered, sent, pending, frames, queue, len, count, cur_pos, is_stop, raced>>

MainLoop == signal_process_queue \/ ProcessEntry \/ ProcessEnd \/ PollAndTest

\* The process runs: the innermost handler or, without one, the main program.
Process == Handler \/ MainLoop \/ \E s \in Sig : signal_register(s)

Next == Process \/ \E s \in Sig : Raise(s) \/ Deliver(s)

\* The process is scheduled; epoll_wait() returns on a signal or a timeout.
\* Pending signals are delivered.
Spec == Init /\ [][Next]_vars
        /\ WF_vars(Process)
        /\ \A s \in Sig : WF_vars(Deliver(s))

----------------------------------------------------------------------------
(* Properties.                                                             *)

\* Slots that hold a queued signal: those below the length, except the ones a
\* handler has reserved and not yet written.
Written == (0 .. len - 1) \ {frames[i].idx : i \in {j \in 1 .. Len(frames) : frames[j].at = "slot"}}
Queued  == {queue[i] : i \in Written}

\* signal.c: "All occurrences of a same signal are grouped", "the signal queue
\* does not need to be deeper than the number of signals".  Whatever handlers
\* interrupt each other, no signal is queued twice, a queued signal was
\* received, and no handler finds the queue full.
QueueSound ==
  /\ \A i, j \in Written : queue[i] = queue[j] => i = j
  /\ \A s \in Queued : s # NoSig /\ (pc = "process" \/ count[s] > 0 \/ s \in InHandler)
  /\ \A i \in 1 .. Len(frames) : frames[i].at = "test" /\ NotQueued(frames[i].sig) => len < MAX_SIGNAL

\* Nothing but the race loses a signal: with no handler running, a received one
\* is in the queue unless its first occurrence interrupted another handler
\* between the load and the store of signal_queue_len.
OnlyRacedLost ==
  frames = << >> => \A s \in Sig : count[s] > 0 => s \in Queued \cup raced

\* signal.c: "we keep an in-order list of the first occurrence of all received
\* signals".  The handler's unprotected increment of signal_queue_len does not
\* keep it.
AllQueued ==
  frames = << >> => \A s \in Sig : count[s] > 0 => s \in Queued

\* A received signal that did not hit that window is handled, or the server has
\* stopped meanwhile; SIGINT and SIGTERM do stop it.
SignalsHandled ==
  \A s \in Sig : (count[s] > 0 /\ s \notin raced) ~>
                   (pc = "done" \/ (s \notin StopSig /\ count[s] = 0))

=============================================================================
