# TLA+ verification of zeroserv

zeroserv is an event-driven server in C in the style of HAProxy: one thread per
process, an epoll loop, and handlers (echo, http, publish/subscribe, memcached,
UDP routing) that the loop calls back. This directory holds TLA+ models of its
core and of its handlers, TLC configurations that check them on small instances,
and TLAPS proofs about the poller, the event loop, the workers, the signal queue,
publish/subscribe, the scheduler, the memcached handler and the routers. Paths below are
relative to the repository.

## 1. The system

| part | state | operations | what is hard |
|---|---|---|---|
| poller (`src/poller.c`) | wanted mask per descriptor (`fd_evts`), change list and the pointer into it (`chg_list`, `chg_ptr`), the kernel's interest list | `__fd_set`, `__fd_clr`, `__fd_rem`, `__fd_clo`, `fd_flush_changes`, `poll_do` | descriptors closed and reused while a change is pending; results of `epoll_ctl()` ignored |
| descriptor table, acceptor (`src/fd.c`, `src/client.c`) | `fdtab`, `maxfd` | `fd_insert`, `fd_delete`, `event_accept` | numbers reused within one batch of events; `accept()` failing |
| handlers echo, http (`src/handler/`) | buffers, connection count | accept, read, write, disconnect | who closes, who frees, and what the returned flags do afterwards |
| main loop and workers (`src/zeroserv.c`) | `_is_stop`, forked processes | `proc_center`, `main` | workers racing for one listener, TCP or UDP |
| signals (`src/signal.c`) | queue, length, counts | `signal_handler`, `__signal_process_queue` | handlers interrupting each other between two memory accesses |
| publish/subscribe (`src/handler/pubsub*`, `src/handler/http_pubsub.c`) | accounts, topics, cookies: lists of descriptor numbers | the text commands, over plain text or http | lists outlive the connections whose numbers they hold |
| http (`src/handler/http/`, `src/handler/http_pubsub.c`, `src/common/parson.c`) | parser state, session url, answer | `http_parser_execute`, callbacks, `http_msg_response`, JSON | TCP cuts a message anywhere; texts must survive being written and read back |
| tasks (`src/task.c`, `src/task.h`, `src/common/ticks.h`) | timer tree, run queue | `task_queue`, `task_schedule`, `wake_expired_tasks`, `process_runnable_tasks` | dates wrap; timers stay at an earlier place on purpose |
| timer tree (`src/ebtree/`) | tagged pointers, link nodes shared between entries, `last_timer` | insert, delete, lookups, walks | an entry's link is used elsewhere in the tree; duplicates |
| memcached (`src/handler/memcached.c`, `src/handler/mc/`) | connection state and buffer, items, LRU list, hash table | get, set, add, replace, append, prepend | values in pieces, memory running out, expansion of the table |
| UDP routing (`src/handler_udp/`) | routes, local ports | packet receipt, forwarding, acknowledgement | loss, duplication, reordering; checksums; loops |
| cookies and ids (`src/common/uthash.h`, `src/handler/http/cookie.h`, `src/handler/pubsub/idzen.c`) | hash table with buckets and an order list | put, get, remove, count | doubling the buckets under the elements |
| buffers, clock, configuration, other containers | | | |

The parts meet in `proc_center()`: process the queued signals, wake expired
tasks, run tasks, then `poll_do()`, which replays the change list, sleeps in
`epoll_wait()`, and calls for each event the read and the write callback of the
descriptor. A callback returns flags that `recheck_state()` turns into changes of
the wanted directions or into a close. Everything in one process is sequential,
except signal handlers; processes share only the listening sockets.

## 2. The modules

| module | models | used by |
|---|---|---|
| `PollerOps` | the poller's data structure as operators: set, clear, remove, close, the flush as a step per entry and as a whole, `epoll_ctl()` | all modules with descriptors |
| `Interest` | the abstract promise: wanted and watched directions, no change list | `Poller` (refinement) |
| `Poller` | the poller as a state machine, handlers calling it in any order | `MCWorker`, `PollerProofs` |
| `EventLoop` | loop, descriptor table, acceptor, echo, http | `MCEventLoop`, `EventLoopProofs` |
| `Prefork` | forked workers on one TCP or UDP listener | `MCProcesses`, `ProcessProofs` |
| `SignalQueue` | deferred signals, at the level of memory accesses | `MCProcesses`, `MCSignalQueue`, `ProcessProofs` |
| `PubSubModel`, `PubSub` | accounts, topics and cookies; the two handlers in the loop | `MCPubSub`, `PubSubProofs` |
| `HttpParser`, `HttpUrl`, `Json`, `HttpConn` | the parser byte by byte; the parts of a url; the JSON of an answer; a connection fed in pieces | `MCHttpConn` |
| `Ticks`, `Scheduler` | wrapping dates; timers, run queue and the wait | `MCScheduler`, `SchedulerProofs` |
| `TimerQueue` | the abstract queue of timers | `EbTree` (refinement) |
| `EbTree` | the timer tree with its pointers, and `last_timer` | `MCContainers` |
| `KVStore` | the abstract key-value store | `Memcached` (refinement) |
| `McStore`, `Memcached` | items and hash table; connections and commands over them | `MCMemcached`, `MCWorker`, `MemcachedProofs` |
| `Routing` | UDP routers over an unreliable network | `MCProcesses`, `RoutingProofs` |
| `UtHash` | the hash table under cookies and ids | `MCContainers` |
| `MCWorker`, `MCProcesses`, `MCContainers` | no code of their own: two or three parts that share no state, a behaviour being one of a single part, so that one run checks them on the sum of their states | |
| `PollerOpsProofs` | lemmas: what each operator of `PollerOps` does to the three arrays, and what a replay of the whole change list does | the next four |
| `PollerProofs`, `EventLoopProofs`, `PubSubProofs`, `ProcessProofs` | TLAPS proofs about the modules over `PollerOps`; `ProcessProofs` is about `Prefork` and about `SignalQueue` | |
| `SchedulerProofs`, `RoutingProofs`, `MemcachedProofs` | TLAPS proofs about `Scheduler`, `Routing`, `Memcached` | |

How state and actions correspond to the code:

* **Poller.** `poll.evts`, `poll.chg`, `poll.ptr` are `fd_evts`, `chg_list` and
  `chg_ptr` (an index, 0 for NULL); `epoll` is the kernel's interest list. The
  flush is one step per entry, so the invariant also speaks about its middle.
  `alloc_chg_list()` has no test of the end of the list (its limit is compiled out) and
  neither has the model; whether the `maxconn` entries of `poll_init()` are enough is a
  question to who calls the poller, answered in `EventLoop` (`ListFits`).
* **EventLoop.** A callback is an operator from the server's record to the set
  of its possible results, one per outcome of `recv()` and `send()`. An event
  is dispatched in two halves, as `poll_do()` does it; `gen` counts how
  often a number was given out and is history only, and so is `left`, the
  numbers that a failed `http_write()` left armed. `tcp_enable()` arms the
  listeners in the order of the configuration, which may be any.
  `event_accept()` returns without a value if `accept()` fails. In the debug
  build, the default configuration, the caller sees `errno`; the two values
  that occur are EMFILE (`EventLoop`) and EAGAIN (`Prefork`).
* **Prefork.** A worker is its poller restricted to the listener.
* **SignalQueue.** `signal_queue[signal_queue_len++] = sig` is a load, a store of
  the length and a store of the slot, with a delivery possible before each.
* **PubSub.** A command is a record, an answer a token with a length, an output buffer the
  answers in it and the bytes they take; `buffer_write()` refuses what does not fit. Plain
  text appends, http empties the buffer first, so that an answer that is too long leaves it
  empty and the write that follows closes the connection. Two simplifications: one command
  is handled per read, where `process_plain_text()` goes through all that is in the buffer
  (`src/handler/pubsub.c:110-117`); and a listing, which plain text writes piece by piece,
  is one answer. `http_msg_response()` returning -1, for an answer longer than 4096 bytes,
  which `buffer_write()` would take for a length, is left out. A new connection gets any
  free number, since nothing here depends on its being the lowest; descriptors are then
  symmetric. The membership lists `topic.members` and `account.sub_lists`, which only feed
  listings, are left out.
  History, about the connection a number stands for at present: `me`, the accounts it
  logged in to itself, and `subs`, the topics it subscribed to itself; about the number:
  `twice`, some connection on it logged in more than once, and `stale`, a refused
  plain-text connection left its buffer on it.
* **HttpParser, HttpUrl, Json, HttpConn.** A parser is a record of the fields of
  `struct http_parser`; a call of `http_parser_execute()` is an operator on it
  and a piece of text, which returns the parser, the callbacks and the number of
  bytes consumed, or that an `assert()` failed. Here, as nowhere else, bytes are
  kept: the hazards are about where a text is cut. Bytes TLA+ cannot spell
  have marks (`Json`). An answer of the server goes from the value over JSON text and http
  message into the output buffer, where it is refused when it does not fit, and from there
  in pieces through a parser back to a JSON value. Answers over `MAX_RESPONSE`, the 4096
  bytes of `http_psub_on_response()`'s own buffer, are not among the streams.
* **Scheduler.** The tree is the sequence of its nodes in order, which `EbTree`
  justifies. The scan and the run loop are one step per node. No handler at this
  commit creates a task (`maintain_stat`, `retry` are callbacks waiting for a
  client), so the callbacks of the model exercise the exported functions in any
  order that `type/task.h` allows. `process()` acts on its own task only. The
  clock does not go back: `tv_update_date()` skips its own correction at this commit
  (`src/time.c:156`), so this is an assumption about the system's clock.
* **EbTree.** An entry is a leaf and a link node at once; a pointer is a pair of
  entry and tag. A field keeps its value when its entry leaves the tree, so a
  stale read would show.
* **McStore, Memcached.** Each function of `items.c` and `assoc.c` is an operator on
  the record of the static variables. A pass of the loop in `mc_read()` is a
  step, as `recv()` sees what has arrived by then; `busy` is the connection the
  worker is in. A command's text is one unit, a byte of a value one. `Junk` is
  what the memory of an item holds where nothing was written. `errno` is the process's: a
  number out of range in an update's line (`hugeline`) sets it, a failing `recv()` or
  whatever else the process does between two calls may change it, nothing clears it, and
  `process_update_command()` looks at it whatever the present line says
  (`src/handler/memcached.c:260`); its second case, EINVAL, is left out. A partial `send()`
  is no step. `out_string()` copies into the 4096 bytes of the output buffer without a test
  (lines 193 to 207): the model's is unbounded, `MaxData` keeps values short, and an answer
  that would overflow it is not modelled. `size` is
  `hashsize(hashpower)`; nothing in the model depends on its being a power of two.
  The handler starts with the cache that sets of the keys in `Before` leave.
* **Routing.** An address is a pair of ip and port, a rule's regular expression the
  set of addresses it matches, the checksum the real sum over the bytes and, where the
  code reads past them, over any byte. A read that fails or finds nothing ends the socket
  through `echo_disconnect()` (`src/handler_udp/routing.c:86`), which counts a TCP echo
  connection less in the same process: `echo_conn`.
* **UtHash.** Each macro is an operator on the memory record; the Jenkins hash is an
  arbitrary function of the key.

## 3. The runs

| run | instance | shows |
|---|---|---|
| `worker`, poller | 2 descriptors, opened and closed at most 4 times between two sleeps | The inductive invariant `PollerInv`; `WaitSynchronised`: asleep, the kernel watches what is wanted; `FlushSettles`: each replayed entry settles its descriptor; refinement of `Interest`. |
| `worker`, memcached | 1 connection at a time, 4 keys of which one is used and three fill a table about to expand, values of one byte, malformed, out of range and pipelined commands, buffer of 5 units | `RefsSound`, `TableIsMap`, refinement of `KVStore`. |
| `memcached_value` (violation) | the same | The rest of a value that did not come with its line is never read into the item, against the comment of `struct conn`. |
| `loop` | an echo and an http listener, 2 more descriptors, 3 connections, echo limit 1 | `NoStaleEvent`; `ConnsAccounted`: live buffers, table and kernel agree, exact counts; `ReusedAppearsUnset` and `NoneForgotten`, both but for numbers a failed `http_write()` left armed; `ListFits`: the change list holds one entry per descriptor and one more for each of those; `AcceptProgress`. |
| `loop_http_reuse` (violation) | http, 2 connections | `http_write()` returns -1 after closing; `recheck_state()` arms the closed number, against the comment of `__fd_clo()`. |
| `processes`, workers | 3 workers, 4 connections or datagrams | `LastListens`: the last worker that got something still listens; `AcceptProgress`: so each connection or datagram is taken. |
| `processes`, signals | 3 signals, sent 4 times in all | `QueueSound`: nothing queued twice, no overflow; `OnlyRacedLost`: only a signal in the window of the race is lost; `SignalsHandled`: the others are handled, and SIGINT and SIGTERM stop the server. |
| `signals_race` (violation) | the same | A received signal is missing from the queue, against its comment. |
| `processes`, routing | 2 routers, 2 clients, 7 datagrams of which 2 are sent, 1 copy | `AckAnswersDelivery`, `RefusedForCause`, `Settles`. |
| `pubsub` | 3 symmetric descriptors of which at most 2 are connections, plain text and http, 1 account, 1 topic, one connection event per batch, 3 accepts, buffers of 4 bytes, messages that fit and that do not | A publish reaches every subscriber whose buffer has room and prunes closed http ones; the missing buffer never condemns an open connection and identifies closed http ones; no login inherited by a later connection. |
| `http_parser` | about 80 streams: all methods, urls of all shapes, pipelined, chunked, folded, upgrading, malformed, oversized, answers of the server with and without room for them; pieces of 1, 2, 5 bytes or all | `SplitIndependent`, `HeaderCounted`, `Understood`, `UrlsFound`, `AnswerMeans`. |
| `http_url_pieces` (violation) | the same | Of a url in several pieces the session works on the last, against the comment of `http_data_cb`. |
| `scheduler` | 2 tasks, dates modulo 8, one task run per turn | Places never after dates, no timer lost, the date returned by the scan, expired tasks run. |
| `scheduler_expired` (violation) | the same | A scan leaves an expired timer in the queue, against the comment of `wake_expired_tasks()`. |
| `containers`, timer tree | 5 interchangeable entries, 3-bit keys, 3 dates | Refinement of `TimerQueue`; every lookup of every key and every walk agree with a scan of the queue. |
| `containers`, hash table | 5 interchangeable elements, 3 names, 4 hash functions, tables of 1 to 16 buckets | The library's own integrity check after every operation, every name found, chains within the promised bound. |

**The exceptions stated in properties** are what the code does and a reader would
not expect. Where a comment of the repository promises more than the code does, the
promise has a violation run of its own, which quotes it, and the passing property says
what does hold: `ClosedAppearsUnset` beside `ReusedAppearsUnset`, `AllQueued` beside
`OnlyRacedLost`, `AllExpiredWoken` beside `WakeComplete`, `UrlWhole` beside `UrlsFound`,
`DataIsRead` beside `ImplementsKV`. On the other exceptions the documents, comments and
tests of the repository are silent.

* `WakeComplete`: `wake_expired_tasks()` compares tree keys as unsigned numbers
  (`src/task.c:162`), so a task moved across the wrap of the date can make the scan
  stop before an expired timer, which the next turn finds (`AllExpiredWoken`). The
  exception is only for a scan that ends at a task with whose move it left others out
  (`hop`, history), and for a date exactly half the range away, which `tick_is_lt()` takes
  for a future one and where the scan starts, so that everything earlier is passed over
  until the next turn.
* `ExpiredRuns` excludes a sleep without timeout: `poll_do()` uses the next
  timer's date as a duration (`src/poller.c:254`), negative for half of the range.
* `AcceptProgress` excludes a server that is stopped or has no descriptor left. In
  `Prefork`, a worker that loses a race may stop listening for good
  (`src/client.c:48`, `src/handler_udp/echo_udp.c:64`); one always remains.
* `OnlyRacedLost`: a signal that first arrives between another handler's load and store
  of the length is lost (`src/signal.c:51`), as `AllQueued` shows.
* `TrickDetectsClosed`, `PublishPrunes`: `psub_disconnect()` keeps the output
  buffer's pointer (`src/handler/pubsub.c:85`), so closed plain-text connections pass
  for open ones in `model_pub()`; and `psub_accept()` sets the pointer before it tests
  the limit (lines 68 to 76), so a number on which a connection was refused does too.
* `NoInheritedLogin`: each request with a cookie lists the descriptor again and a
  disconnect removes it once (`src/handler/http_pubsub.c:179`), so numbers on which a
  connection logged in twice are excepted: there, the next connection is logged in.
* `SubscribersServed`: a message that does not fit leaves an http subscriber with an empty
  buffer, which closes its connection (`src/handler/http_pubsub.c:125`), and a plain-text
  one without the message or without its newline (`src/buffer.h:67`).
* `UrlsFound`: of a url that TCP cut, the session keeps the last piece
  (`src/handler/http_pubsub.c:139`), as `UrlWhole` shows.
* `HeaderCounted`: header bytes may count up to twice, depending on the cuts.
* `AnswerMeans`: an answer as long as the output buffer is lost whole; a byte below 0x20 without a letter makes an answer no client
  parses; a string that is no UTF-8 is left out; a colon in a name moves the
  border between author and message.
* `ImplementsKV`: `KVStore` promises what the handler keeps. A command received behind
  another is dropped when the other's answer is sent (`src/handler/memcached.c:627`), and if
  half of it had not arrived yet, the rest is the next command. A value of which some came
  later than its line (`late`) may be any (line 593, `DataIsRead`). After a number out of
  range the updates of all clients may be refused until some call fails otherwise (`wary`,
  line 260). Without memory a set drops the key and an append changes nothing.
* `RefusedForCause`: acknowledgements have checksum 0 and are refused by the next
  router; data of some even lengths is refused or not depending on the byte behind it.
* `Settles`: a router that misses its own port, looked up by four bytes of a two-byte
  number, may send a packet to itself for ever. The rules of the run lead nowhere in a
  circle, so the missing hop count shows in this case only.

**Bounds.** In `worker`, two descriptors are enough for the poller, whose entries and
masks of different numbers do not touch: one is untouched while the other is changed, closed
and reused, and four openings leave dead entries of two earlier uses in one list. In `loop`,
two numbers besides the listeners let one connection close and another take its number in
the same batch; the third connection meets exhaustion. A publish that skips a subscriber
needs a closed one, a served one and a publisher, hence three; the limit of two connections is
reached, so that both handlers refuse one. `OutCap = 4` holds one short plain-text message
(`PlainLen`, newline included) and not two, and an http answer of length 1 and not one of 4
(`HttpLen`). `MaxLogins = 1` keeps `twice` empty in the run; the theorem is about any
number of logins. Three signals let two handlers interrupt a third; the fourth
(`MaxRaise`) is a second occurrence. With dates modulo 8 the scan starts in either half and
crosses the wrap, and time passes one tick per turn, so the assumption that no timer is farther
than half the range holds, as the comment of `__task_queue()` demands. Five entries
make a tree of duplicates of depth three beside other keys, the least in which a
deletion moves a link between levels. `HTTP_MAX_HEADER_SIZE` is 120 and `ULLONG_MAX`
255 so that headers, lengths and chunk sizes reach the limits; `HTTP_BUFFER_SIZE` is 207, the
length of one of the answers, `MAX_RESPONSE` (250) is over all of them. The cache of
`worker` starts one set short of an expansion, which then stays half done; with
4 keys each bucket of the old table has an item that stays and one that moves; `MaxFlight`
lets a get follow close behind an update. Two datagrams (`MaxSends`) under way can meet at a
router, the copy (`MaxCopies`) arrives behind either. In the hash table a chain
of three elements exceeds the threshold of 2, and the hash functions make doubling effective,
late, or useless.

**Symmetry and view.** Descriptors, accounts and topics of `pubsub`, and entries and elements
of `containers`, occur in no constant expression and no action tells them apart; no
liveness is checked in these runs. The view of `containers` leaves out
fields of the timer tree that are written before they are read again: everything of an entry
outside the tree, and branches and bit of an unused link, except `last_timer`'s bit.

**Deadlock.** Deadlock checking is off only where the system stops: after a stop
signal, an `exit()`, or when the bounded peers have made all their connections or
sent all their datagrams, or names and memory are used up.

**Fairness.** Weak fairness of the loop: the process is scheduled, and
`epoll_wait()` has a timeout of at most 100 ms, or, in `Scheduler`, is assumed to
return only when it has one. Weak fairness of the process's own steps, handlers included
(`Process`), and of delivery in `SignalQueue`: pending unblocked signals are delivered.
Weak fairness of each worker in `Prefork`: each is a process of its own. In `Routing`, weak fairness
of each router's reading and of datagrams for others leaving; loss has none. Peers, callbacks and `kill()` have none.

## 4. The proofs

All theorems hold for every value of the constants under the assumptions named in
the modules, which TLC evaluates in every run. Each inductive invariant was checked by
TLC on the instance of its module's run, or a smaller one, before it was proved.

| theorem | statement |
|---|---|
| `PollerProofs`: `PollerInvariant`, `SleepsSynchronised`, `FlushSettlesAlways`, `PollerRefines` | `Spec => []PollerInv`, `[]WaitSynchronised`, `FlushSettles`, `ImplementsInterest` |
| `EventLoopProofs`: `EventLoopInvariant`, `EventsNeverStale`, `ConnectionsAccounted`, `ReusedNumbersUnset`, `ConnectionsWatched` | `Spec => []EventLoopInv`, `[]NoStaleEvent`, `[]ConnsAccounted`, `[]ReusedAppearsUnset`, `NoneForgotten` |
| `ProcessProofs`: `PreforkInvariant`, `LastWorkerListens` | `ForkSpec => []PreforkInv`, `[]LastListens` |
| `ProcessProofs`: `SignalInvariant`, `QueueSoundAlways`, `OnlyTheRaceLoses` | `Spec => []SignalInv`, `[]QueueSound`, `[]OnlyRacedLost` |
| `SchedulerProofs`: `SchedulerInvariant`, `PlacesPrecedeDates`, `TimersKept`, `FreedTasksGone`, `ScanReturnsNext` | `Spec => []SchedulerInv`, `[]KeyMinorant`, `[]NoLostTimer`, `[]NoFreedTask`, `[]WakeComplete` |
| `PubSubProofs`: `PubSubInvariant`, `BuffersTellClosed`, `PublishReaches`, `PublishDropsClosed`, `LoginsNotInherited` | `Spec => []PubSubInv`, `[]TrickDetectsClosed`, `SubscribersServed`, `[]PublishPrunes`, `[]NoInheritedLogin` |
| `MemcachedProofs`: `CacheInvariant`, `ReferencesSound`, `HashTableIsMap`, `KVRefinement` | `Spec => []MemcachedInv`, `[]RefsSound`, `[]TableIsMap`, `ImplementsKV` |
| `RoutingProofs`: `RoutingInvariant`, `AcksAnswerDeliveries`, `RefusalsHaveCause` | `Spec => []RoutingInv`, `[]AckAnswersDelivery`, `[]RefusedForCause` |

**Poller.** `WaitSynchronised` alone is not inductive: it says nothing while changes are
pending. `PollerInv` says what the list means at every moment. A *live* entry (the
one `chg_ptr` points at) carries the mask the kernel has at present; a
descriptor without one is in step already; a *dead* entry, left behind by a
close, carries the empty mask, and the kernel had none either when it was
written. This last part is what makes reuse safe: replaying a dead entry of a
reused number can only repeat an ADD, which the kernel refuses without harm.
Each step of the flush then turns one live entry into a descriptor in step, and at
the end none is live.

**EventLoop.** The invariant has two halves. `ServerInv` is about the server
between two callbacks: table and kernel agree, buffers are live, the echo counter is
the cardinality of the open echo connections, and change list and interest list are
in step for every descriptor but those a failed `http_write()` left armed. Here the
whole list is replayed in one step, so what `PollerInv` says step by step becomes a
lemma about the replay (`ReplaySettles`): by induction over the entries, a descriptor
that was in step ends with the mask it wants, whichever entries of earlier uses of its
number come before or after its own. `Events` is about the batch: one event per
descriptor, each of a descriptor in use with its present connection. It is
inductive because the callbacks of an event can only close the event's own
descriptor (`Kin`), which no other event of the batch names; a number freed in a
batch therefore has no event left in it, and may be given out again. The read result
carried over to the write half matters: it is applied a second time, and is harmless
only since a descriptor that is still open can have returned nothing but
`ZB_NOP` or `ZB_SET_WR`.

**Prefork.** That the last taker listens is kept only because a worker that took the
last item, is woken again and finds the queue empty must have been overtaken by
another, which is the last taker then; so the invariant says that as long as it is the
last, an event it has to dispatch still has its item in the queue.

**SignalQueue.** A loss is visible only once all handlers have returned, so the
invariant follows it through the nest of handlers: which reserved indices an interrupted
handler will overwrite when it stores the length it loaded (`Condemned`), and which
signals are bound to be lost before they are even counted (`Doomed`). That no handler
finds the queue full is a pigeonhole argument: slots hold distinct signals
and `MAX_SIGNAL` is at least their number.

**Scheduler.** To `KeyMinorant` and `NoLostTimer` the invariant adds that the two
queues hold a task at most once and never a freed one, and that the timer the scan has in
hand is in the tree: a task taken off a queue it is in twice, or the next node fetched from
one that left the tree, would break both. Places and dates are compared on the circle of
ticks, for any even size of it.
`WakeComplete` needs an invariant of its own, `ScanInv`: the tree is sorted by its keys as
unsigned numbers, and at each node the scan has reached it says where the timers not yet
seen are. In the first pass, from the start of the scan to the end of the tree, all before
the node are at or below the key of the start; in the second, which is always at the first
node, so is all that is left; or the scan has jumped to a task it just moved across the
wrap, where it stops: the exception that the property states. TLC checked `ScanInv` with
dates modulo 4, 6 and 8, all timeouts and all advances of the clock.

**PubSub.** The invariant relates three memories of a connection that nothing but the
order of the calls keeps in step. `Buffers`: an open descriptor has its output
buffer, a free one has it only if plain text used it last or left it there (`stale`).
`Lists`: a topic lists a number once, an open subscriber is in the list of its topic.
`Logins`: outside `twice`, the accounts listing a number are at most one, list it at most
once, and are those its present connection logged in to. A publish is a loop over the list it
shortens; by induction over its turns (`TurnStep`), those of the tail that
are open have the message and those that lost their buffer are gone, while the
part still to visit is as it was, which holds only because the loop runs backwards.
`Published` carries this to the end of the step, through the publisher's answer, which
may overwrite its own buffer, and its close.

**Memcached.** `CacheInv(t, H)` is about a cache `t` in which the items of `H` are in
use by a caller. In each bucket of the old and of the new table, the chain holds each
linked item whose key has its place there exactly once, where the place depends on how far
the expansion has come; no two linked items have the same key; the LRU list and the
counters agree with the linked items; an item of `H` has one reference, every other none,
and nothing but linked items and `H` is in memory. Every function of `items.c` and
`assoc.c` is a lemma saying how it changes `t` and `H`: `do_item_alloc()` adds to `H`,
`do_item_link()` keeps `H` and adds to the linked items, `do_item_remove()` takes from
`H`. So a reference that is dropped twice or never shows at the function that does it.
`MemcachedInv` adds that only the connection `mc_read()` is in holds an item, which is not
linked yet, and that a connection being read from has no answer pending. Two facts need
induction: an expansion turns over one bucket at a time and one item at a time
(`MovedTable`: the chains of the new table hold what has moved, the rest of the old
chain what has not), and the cache at the start is the outcome of any number of sets
(`FilledCache`), expansions included. The refinement needs
a second invariant, `StreamInv`, about what a connection has in its buffer: between commands
nothing before the read position is left over, and while a value is read (`Begun`) the buffer
begins with the update's line, whose key, operation and length are those of the item
being filled, and as long as `ritem` is no further than the buffer's read position, the item
holds what the client sent behind the line. `KVStore` sees as its map the data of the linked item of
each key, as what was received the buffer since the last answer. Every pass of the loop is then a
step of it: receiving moves units from the socket to the buffer, a line is answered as the
command it is, a whole value is stored if `ritem` says it is the client's and may be any if
not, and copying changes nothing a client can see (`KVStep`). This is also where the
lookup must find an item wherever the expansion has put it.

**Routing.** The invariant gives the origin of everything in the network: a copy of what
a client sent, or an acknowledgement with checksum 0 of a packet that was delivered.

**Assumptions added for the proofs**, all true of the code: the number meaning an
empty slot is no signal (`NoSig`); descriptors are finitely many (`IsFiniteSet(FD)`,
the table has `maxconn` entries); what clients hand to the network are packets in the
format of `proto_routing.h` with the right checksum and whatever else in them
(`RoutingAssumption`), without which `RefusedForCause` would not be a claim about
the routers; the null pointers are no account (`NoAcct`), no task (`None`) and no item
(`NoItem`); keys are finitely many, have a hash that is a natural number, and the table has
a bucket at least (`StoreAssumption`); what memcached clients send are requests, and `Before`
lists each key once (`MemcachedAssumption`).

**What the proofs changed in the models.** A `CASE` of `EventLoop` had two guards that hold of
a listener; TLC took the first, the definition did not say so. The order in which
`tcp_enable()` arms the listeners was fixed and is now any. `Scheduler` removes a task
from a sequence with `RemoveFirst`, since a task is there once, and inserts a node
before the first with a higher key, as the tree does with duplicates. `WakeComplete` was
false for larger circles: a date exactly half the range away was missing from its
exceptions. `TrickDetectsClosed` and `PublishPrunes` were false once the connection limit is
below the number of descriptors, because a refused plain-text connection leaves its buffer;
the run now reaches the limit. `NoInheritedLogin` no longer rests on the bound of logins.
In `KVStore` an answer's effect was any the
map allows; it is now the effect of the command at the head of what was received, with the
value the client sent, which made `errno`, dropped commands and late values part of it. In
`McStore` the loop that moves a bucket is a recursive function over its turns, as the loop
in the code, and removing an item takes one occurrence out of a chain, as the pointer
assignment does, so that an item linked twice would stay. `Memcached` starts with any
sequence of sets (`Before`) in place of caches written down by hand. What an answer says about the
store is one operator of `KVStore` (`Lawful`). `Prefork` has names of its own (`ForkSpec`,
`phase`, `backlog`) so that one module of proofs can extend it and `SignalQueue`.

**Model-checked only.**

* Liveness (`AcceptProgress`, `SignalsHandled`, `ExpiredRuns`, `Settles`),
  which is out of the prover's reach. `ExpiredRuns` holds within the bounds of its run:
  where the clock may stand still while a timer is half the range behind, it does not.
* `HttpConn`'s properties: the parser, urls and JSON are RECURSIVE operators.
* `EbTree` and `UtHash`: their invariants quantify over paths through pointers, which
  first-order provers do not find; their recursion is over data.

## 5. Not modelled

* TCP routing (`src/handler/routing/`): not registered as a handler at this commit.
* The clock's arithmetic (`src/time.c`), configuration and `ini.c`, logging, statistics.
* Trees over other keys (`eb64tree`, `ebmbtree`, `ebpttree`, `ebsttree`, `ebimtree`), which
  nothing in the server uses.
* Code no path reaches: `retry()` of the routing task, since nothing registers a
  `packet_trip`; expiry, delete locks, eviction and the slab allocator of memcached
  (no command sets a date, `evict_to_free` is 0, the eviction loop is commented out);
  sorting, selecting and clearing of `uthash.h`; dotted names, comments, files,
  validation and comparison of `parson.c`; pausing the http parser.
* Buffers as arrays: a write past the end, such as the terminating zero of `echo_read()`
  (`src/handler/echo.c:82`) or a long answer of memcached's `out_string()`, is not caught.
  Input buffers are bounded in `Memcached`, output buffers in `PubSub` and `HttpConn`.
* An answer of http longer than 4096 bytes, for which `http_msg_response()` returns -1.
* Cookies of several workers: each process has its own table, and all draw the
  same sequence of random numbers after the fork (`src/zeroserv.c:91`).

## 6. Plan

1. Done: poller with its refinement and proofs; event loop, workers, signals,
   publish/subscribe, scheduler; timer tree, memcached, http, JSON, routing, uthash.
2. Done: proofs about the event loop, the workers, the signal queue, the scheduler, the
   routers, publish/subscribe and the memcached handler with its refinement.
3. Left: for `EbTree`, an invariant stated over the set of leaves below each node instead of
   over paths, which may bring the refinement of `TimerQueue` within reach; the whole of `process_plain_text()`'s loop over several commands; the arithmetic
   of the clock.
