------------------------------- MODULE Scheduler -------------------------------
(***************************************************************************)
(* The task scheduler (src/src/task.c, src/src/task.h) in the main loop    *)
(* (proc_center): wake_expired_tasks(), process_runnable_tasks(),          *)
(* poll_do().                                                              *)
(*                                                                         *)
(* Timers sit in a tree ordered by the unsigned key of the node.  A task   *)
(* whose expiration moves later keeps its place (the key is a minorant of  *)
(* the date) and is moved when the scan meets it.  Dates wrap, so the scan *)
(* starts half the range back and goes on at the other end of the tree.    *)
(*                                                                         *)
(* The ebtree is the sequence of its nodes in order; last_timer only       *)
(* shortens insertion and is left out.  No task of the program is niced,   *)
(* so the run queue is first in, first out.                                *)
(***************************************************************************)
EXTENDS Ticks, SequencesExt

CONSTANTS
  Task,        \* the tasks
  Timeouts,    \* bound: the delays tasks are set to
  MaxAdvance,  \* bound: ticks that pass in one turn of the loop
  MAX_DELAY_MS,
  MAX_RUN      \* tasks run in one turn, 200 in the code

ASSUME SchedulerAssumption ==
  /\ Timeouts \subseteq 1 .. (Half - 1)
  /\ MaxAdvance \in 0 .. (Half - 1)
  /\ MAX_DELAY_MS \in 1 .. (Half - 1)
  /\ MAX_RUN \in Nat \ {0}

VARIABLES
  now,     \* now_ms
  alive,   \* allocated tasks
  expire,  \* task.expire
  key,     \* task.wq.key
  timers,  \* the timer tree, in order
  rq,      \* the run queue, in order
  pc,      \* "wake", "scan", "run", "running", "poll", "events"
  eb,      \* the node the scan looks at next, or None
  next,    \* next: date of the next event
  hop,     \* history: the task with which the scan left others out, or None
  left     \* max_processed

vars == <<now, alive, expire, key, timers, rq, pc, eb, next, hop, left>>

None == "none"

\* NULL is no task.
ASSUME NoneAssumption == None \notin Task

task_in_wq(t) == Contains(timers, t)
task_in_rq(t) == Contains(rq, t)

----------------------------------------------------------------------------
(* The tree.                                                               *)

\* Insert t with key k before the first node with a higher key.
eb32_insert(tree, t, k) ==
  LET gt == {j \in DOMAIN tree : key[tree[j]] > k}
  IN  IF gt = {} THEN Append(tree, t) ELSE InsertAt(tree, Min(gt), t)

eb32_lookup_ge(x) ==
  LET ge == {j \in DOMAIN timers : key[timers[j]] >= x}
  IN  IF ge = {} THEN None ELSE timers[Min(ge)]

eb32_first == IF timers = << >> THEN None ELSE timers[1]

eb32_next(t) ==
  LET i == CHOOSE j \in DOMAIN timers : timers[j] = t
  IN  IF i = Len(timers) THEN None ELSE timers[i + 1]

----------------------------------------------------------------------------
(* Operations on one task; they assign timers and key, or rq.              *)

__task_queue(t, date) ==
  /\ timers' = eb32_insert(RemoveFirst(timers, t), t, date)
  /\ key' = [key EXCEPT ![t] = date]

\* Mutant: a task that has a place keeps it, whatever the date.
task_queue_Keeps(t, date) ==
  IF tick_isset(date) /\ ~ task_in_wq(t)
  THEN __task_queue(t, date) ELSE UNCHANGED <<timers, key>>

task_queue(t, date) ==
  IF tick_isset(date) /\ (~ task_in_wq(t) \/ tick_is_lt(date, key[t]))
  THEN __task_queue(t, date) ELSE UNCHANGED <<timers, key>>

task_wakeup(q, t) == IF Contains(q, t) THEN q ELSE Append(q, t)

----------------------------------------------------------------------------
(* wake_expired_tasks()                                                    *)

Init ==
  /\ now \in Tick
  /\ alive = {}
  /\ expire = [t \in Task |-> TICK_ETERNITY]
  /\ key = [t \in Task |-> 0]
  /\ timers = << >>
  /\ rq = << >>
  /\ pc = "wake"
  /\ eb = None
  /\ next = TICK_ETERNITY
  /\ hop = None
  /\ left = 0

\* Mutant: the scan starts at the present date.
ScanFrom_Now == now

ScanFrom == (now - Half) % N

WakeStart ==
  /\ pc = "wake"
  /\ eb' = eb32_lookup_ge(ScanFrom)
  /\ hop' = None
  /\ pc' = "scan"
  /\ UNCHANGED <<now, alive, expire, key, timers, rq, next, left>>

\* At the end of the tree the scan goes on at its beginning.
Scanned == IF eb = None THEN eb32_first ELSE eb

Due == pc = "scan" /\ (IF Scanned = None THEN FALSE ELSE ~ tick_is_lt(now, key[Scanned]))

\* No timer is left, or the next one is in the future.
WakeReturn ==
  /\ pc = "scan" /\ ~ Due
  /\ next' = IF Scanned = None THEN TICK_ETERNITY ELSE key[Scanned]
  /\ pc' = "run"
  /\ eb' = None
  /\ UNCHANGED <<now, alive, expire, key, timers, rq, hop, left>>

\* The task has expired: run queue.
WakeTask ==
  /\ Due /\ tick_is_expired(expire[Scanned], now)
  /\ timers' = RemoveFirst(timers, Scanned)
  /\ rq' = task_wakeup(rq, Scanned)
  /\ eb' = eb32_next(Scanned)
  /\ UNCHANGED <<now, alive, expire, key, pc, next, hop, left>>

\* Mutant: the misplaced task is taken out and not queued again.
Requeue_Drops(t) == timers' = RemoveFirst(timers, t) /\ UNCHANGED key

Requeue(t) == __task_queue(t, expire[t])

\* The node the scan would look at behind t, were it not for the move of t.
Behind(t) ==
  LET others == RemoveFirst(timers, t)
  IN  IF eb32_next(t) # None THEN eb32_next(t)
      ELSE IF others = << >> THEN None ELSE others[1]

\* A task that the scan meets before it is at the place for x.
FromStart(x) == (x - ScanFrom) % N
Comes(t, x) == IF t = None THEN FALSE ELSE FromStart(key[t]) < FromStart(x)

\* The task was left at an earlier place: move it.  The scan goes on at the
\* lower of the next node and the new place, compared as unsigned numbers; where
\* the date wraps in between, the new place is the later one, and the scan has
\* left out what is before it.
MoveTask ==
  /\ Due /\ ~ tick_is_expired(expire[Scanned], now) /\ tick_isset(expire[Scanned])
  /\ Requeue(Scanned)
  /\ LET t == Scanned
         n == eb32_next(t)
         jumps == n = None \/ key[n] > expire[t]
     IN  /\ eb' = IF jumps THEN t ELSE n
         /\ hop' = IF jumps /\ Comes(Behind(t), expire[t]) THEN t ELSE None
  /\ UNCHANGED <<now, alive, expire, rq, pc, next, left>>

\* Its expiration was disabled: only take it out.
DropTask ==
  /\ Due /\ ~ tick_isset(expire[Scanned])
  /\ timers' = RemoveFirst(timers, Scanned)
  /\ eb' = eb32_next(Scanned)
  /\ UNCHANGED <<now, alive, expire, key, rq, pc, next, hop, left>>

----------------------------------------------------------------------------
(* process_runnable_tasks()                                                *)

\* Mutant: a quarter of the queue, rounded down.
max_processed_Quarter == Len(rq) \div 4

max_processed == Min({Len(rq), MAX_RUN})

RunStart ==
  /\ pc = "run"
  /\ left' = max_processed
  /\ hop' = None
  /\ pc' = "running"
  /\ UNCHANGED <<now, alive, expire, key, timers, rq, eb, next>>

Running == pc = "running" /\ left > 0 /\ rq # << >>

\* process() set a new date, and may have woken the task up again.
RunAgain ==
  /\ Running
  /\ \E d \in Timeouts, self \in BOOLEAN :
       LET t == Head(rq)
           e == tick_add(now, d)
       IN  /\ expire' = [expire EXCEPT ![t] = e]
           /\ task_queue(t, e)
           /\ rq' = IF self THEN task_wakeup(Tail(rq), t) ELSE Tail(rq)
           /\ next' = tick_first_2nz(next, e)
  /\ left' = left - 1
  /\ UNCHANGED <<now, alive, pc, eb, hop>>

\* process() disabled the date (a place in the tree is left to the scan), and
\* may have woken the task up again.
RunSleep ==
  /\ Running
  /\ expire' = [expire EXCEPT ![Head(rq)] = TICK_ETERNITY]
  /\ \E self \in BOOLEAN :
       rq' = IF self THEN task_wakeup(Tail(rq), Head(rq)) ELSE Tail(rq)
  /\ left' = left - 1
  /\ UNCHANGED <<now, alive, key, timers, pc, eb, next, hop>>

\* process() deleted the task and returned NULL.
RunGone ==
  /\ Running
  /\ alive' = alive \ {Head(rq)}
  /\ timers' = RemoveFirst(timers, Head(rq))
  /\ rq' = Tail(rq)
  /\ left' = left - 1
  /\ UNCHANGED <<now, expire, key, pc, eb, next, hop>>

RunEnd ==
  /\ pc = "running"
  /\ left = 0 \/ rq = << >>
  /\ pc' = "poll"
  /\ UNCHANGED <<now, alive, expire, key, timers, rq, eb, next, hop, left>>

----------------------------------------------------------------------------
(* poll_do() and the callbacks it runs.                                    *)

\* The date is used as a duration; epoll_wait() takes a negative one for
\* "no timeout".
wait_time ==
  LET exp == Signed(next)
  IN  IF exp = 0 \/ exp > MAX_DELAY_MS THEN MAX_DELAY_MS ELSE exp

\* Time passes; tv_update_date() reads the clock.
Wait ==
  /\ \E d \in 0 .. MaxAdvance : now' = (now + d) % N
  /\ pc' = "events"
  /\ UNCHANGED <<alive, expire, key, timers, rq, eb, next, hop, left>>

PollTimed   == pc = "poll" /\ wait_time >= 0 /\ Wait
PollForever == pc = "poll" /\ wait_time < 0 /\ Wait

\* task_new(), then expire and task_queue().
TaskNew(t, d) ==
  /\ pc = "events" /\ t \notin alive
  /\ alive' = alive \cup {t}
  /\ expire' = [expire EXCEPT ![t] = tick_add(now, d)]
  /\ task_queue(t, tick_add(now, d))
  /\ UNCHANGED <<now, rq, pc, eb, next, hop, left>>

\* A handler moves a task's date, earlier or later.
TaskSet(t, d) ==
  /\ pc = "events" /\ t \in alive
  /\ expire' = [expire EXCEPT ![t] = tick_add(now, d)]
  /\ task_queue(t, tick_add(now, d))
  /\ UNCHANGED <<now, alive, rq, pc, eb, next, hop, left>>

task_schedule(t, d) ==
  /\ pc = "events" /\ t \in alive /\ ~ task_in_rq(t)
  /\ LET when == tick_add(now, d)
         e    == IF task_in_wq(t) THEN tick_first(when, expire[t]) ELSE when
     IN  /\ expire' = [expire EXCEPT ![t] = e]
         /\ IF ~ task_in_wq(t) \/ tick_is_lt(e, key[t])
            THEN __task_queue(t, e) ELSE UNCHANGED <<timers, key>>
  /\ UNCHANGED <<now, alive, rq, pc, eb, next, hop, left>>

TaskWakeup(t) ==
  /\ pc = "events" /\ t \in alive
  /\ rq' = task_wakeup(rq, t)
  /\ UNCHANGED <<now, alive, expire, key, timers, pc, eb, next, hop, left>>

\* task_delete(), task_free()
TaskDelete(t) ==
  /\ pc = "events" /\ t \in alive
  /\ alive' = alive \ {t}
  /\ timers' = RemoveFirst(timers, t)
  /\ rq' = RemoveFirst(rq, t)
  /\ UNCHANGED <<now, expire, key, pc, eb, next, hop, left>>

PollReturn ==
  /\ pc = "events"
  /\ pc' = "wake"
  /\ UNCHANGED <<now, alive, expire, key, timers, rq, eb, next, hop, left>>

Loop ==
  \/ WakeStart \/ WakeReturn \/ WakeTask \/ MoveTask \/ DropTask
  \/ RunStart \/ RunAgain \/ RunSleep \/ RunGone \/ RunEnd
  \/ PollTimed \/ PollReturn

Callback ==
  \E t \in Task :
    \/ TaskWakeup(t) \/ TaskDelete(t)
    \/ \E d \in Timeouts : TaskNew(t, d) \/ TaskSet(t, d) \/ task_schedule(t, d)

Next == Loop \/ PollForever \/ Callback

\* The loop goes on by itself, except in a wait without timeout.
Spec == Init /\ [][Next]_vars /\ WF_vars(Loop) /\ WF_vars(PollReturn)

----------------------------------------------------------------------------
(* Properties.                                                             *)

\* task.h: "node->key is always before or equal to timer": the place of a task
\* in the tree is never later than its date, however the date was moved.
KeyMinorant ==
  \A t \in Task : task_in_wq(t) /\ tick_isset(expire[t]) => tick_is_le(key[t], expire[t])

\* A task with a date is in one of the two queues: no path through the scan,
\* the run queue and the callbacks forgets its timer.
NoLostTimer ==
  \A t \in alive : tick_isset(expire[t]) => task_in_wq(t) \/ task_in_rq(t)

\* What wake_expired_tasks() does guarantee: the date it returns is eternity if
\* no timer is left, otherwise the place of a timer, in the future; and all
\* timers left are in the future and none is nearer, unless the scan ended at a
\* task that it had just moved past others, or the date is exactly half a range
\* away, which the code takes for the future and where the scan starts.
Ahead(x) == (x - now) % N
WakeComplete ==
  pc = "run" =>
    IF timers = << >> THEN next = TICK_ETERNITY
    ELSE /\ tick_is_lt(now, next)
         /\ \E i \in DOMAIN timers :
              /\ key[timers[i]] = next
              /\ \/ \A j \in DOMAIN timers :
                      tick_is_lt(now, key[timers[j]]) /\ Ahead(next) <= Ahead(key[timers[j]])
                 \/ hop = timers[i]
                 \/ Ahead(next) = Half

\* task.c:114-116: "Extract all expired timers from the timer queue, and wakes up
\* all associated tasks."  So no timer of an expired task is left in the queue
\* when wake_expired_tasks() returns.
AllExpiredWoken ==
  pc = "run" => \A t \in Task : task_in_wq(t) => ~ tick_is_expired(expire[t], now)

\* An expired task is run (or its date moved, or the task deleted), even if a
\* scan passed over it or the run queue was longer than one turn handles,
\* unless the process sleeps without a timeout.
Sleeping == pc = "poll" /\ wait_time < 0
ExpiredRuns ==
  \A t \in Task :
    (t \in alive /\ tick_is_expired(expire[t], now))
      ~> (t \notin alive \/ ~ tick_is_expired(expire[t], now) \/ Sleeping)

=============================================================================
