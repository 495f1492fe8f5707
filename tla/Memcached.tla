----------------------------- MODULE Memcached -----------------------------
(***************************************************************************)
(* The memcached handler (memcached.c) of one worker process: connections  *)
(* with their input buffers and command states over the cache of McStore.  *)
(* Bytes are abstracted to units: a command's text is one unit (a record), *)
(* a line end is one, each byte of a value is one.  The network delivers a *)
(* client's stream in pieces of any size.                                  *)
(*                                                                         *)
(* mc_read() is a loop that does not return before it has an answer to     *)
(* send or has closed the connection, and the process does nothing else    *)
(* meanwhile: busy is the connection it is in, and each pass of the loop   *)
(* is a step, because recv() sees what has arrived by then.                *)
(***************************************************************************)
EXTENDS McStore

CONSTANTS Conn,       \* the client connections
          Bytes,      \* what a byte of a value may be
          Nobody,     \* busy when the worker is in no mc_read()
          MaxVlen,    \* the largest length a client gives
          MaxData,    \* a value is not appended to beyond this length
          MC_BUFFER_SIZE,
          Requests,   \* the requests clients make
          Behind,     \* those made before the answer to the last one is there,
          MaxFlight,  \* as long as no more units than this are under way
          Before      \* the keys that have been set before, in this order

(* The units of a stream beside the commands: a line end, a byte of a value. *)
NL == [op |-> "nl"]
Byte == [op : {"byte"}, b : Bytes]
Update == {"set", "add", "replace", "append", "prepend"}
Command ==
  [op : {"get"}, key : Key] \cup [op : Update, key : Key, vlen : 0..MaxVlen]
    \cup [op : {"version", "stats", "badline", "hugeline", "unknown"}]

(* What a client may send: a command and, behind an update, a value that   *)
(* has the announced length or, by mistake, another one.                   *)
Request ==
  {<<cmd, NL>> : cmd \in {c \in Command : c.op \notin Update}}
    \cup {<<cmd, NL>> \o v \o <<NL>> : cmd \in {c \in Command : c.op \in Update},
                                      v \in UNION {[1..n -> Byte] : n \in 0..MaxVlen}}

(* What the memory of an item may hold: whatever is sent, and Junk. *)
UnitsOf(r) == {r[i] : i \in DOMAIN r}
Unit == {NL, Junk} \cup UNION {UnitsOf(r) : r \in Requests}

ASSUME MemcachedAssumption ==
  /\ Requests \subseteq Request
  /\ MaxVlen \in Nat /\ MC_BUFFER_SIZE \in Nat
  /\ Nobody \notin Conn
  /\ Before \in Seq(Key) /\ \A i, j \in DOMAIN Before : Before[i] = Before[j] => i = j

VARIABLES s,          \* the cache
          conn,       \* per connection: its descriptor, buffers and struct conn
          wire,       \* sent by the client, not arrived
          sock,       \* arrived, not received
          fin,        \* the client has closed
          busy,       \* the connection mc_read() is working on, or Nobody
          down,       \* the process has exited (log_fatal)
          errno,      \* of the process; all but ERANGE is "other"
          curr_conns

vars == <<s, conn, wire, sock, fin, busy, down, errno, curr_conns>>
net == <<wire, sock, fin>>
-----------------------------------------------------------------------------
(* buffer.h *)
buffer_reset == [buff |-> <<>>, curr |-> 0]
buffer_remain_read(b) == Len(b.buff) - b.curr
buffer_remain_write(b) == MC_BUFFER_SIZE - Len(b.buff)
buffer_empty(b) == buffer_remain_read(b) = 0
Unread(b) == SubSeq(b.buff, b.curr + 1, Len(b.buff))

Closed == [state |-> "closed"]
NewConn ==
  [state |-> "conn_read", ib |-> buffer_reset, ob |-> <<>>, rd |-> TRUE, wr |-> FALSE,
   item |-> NoItem, ritem |-> 0, rlbytes |-> 0, item_comm |-> "none"]

(* out_string/add_out_string: the answer goes to ob, and set_wr turns the  *)
(* descriptor from reading to writing.                                     *)
out_string(c, a) == [c EXCEPT !.ob = a, !.rd = FALSE, !.wr = TRUE]

Envs == [alloc : BOOLEAN, table : BOOLEAN, idle : BOOLEAN]
-----------------------------------------------------------------------------
GetAnswer(c, k, g) ==
  IF g.it = NoItem THEN [c |-> out_string(c, <<"END">>), s |-> g.s]
  ELSE [c |-> out_string(c, <<"VALUE", k, g.s.item[g.it].data>>), s |-> do_item_remove(g.s, g.it)]
process_get_command(c, k) == GetAnswer(c, k, item_get(s, k))

(* A set that finds no memory drops the old item. *)
DropOld(g) == IF g.it = NoItem THEN g.s ELSE do_item_remove(do_item_unlink(g.s, g.it), g.it)

(* Only the errno of the process tells whether a number of the line was    *)
(* out of range; nothing ever clears it.                                   *)
process_update_command(c, cmd, env) ==
  IF errno = "ERANGE" THEN [c |-> out_string(c, <<"CLIENT_ERROR">>), s |-> s]
  ELSE IF env.alloc
  THEN [c |-> [c EXCEPT !.item = FreeItem(s, cmd.key), !.ritem = 0, !.rlbytes = cmd.vlen + 1,
                        !.item_comm = cmd.op, !.state = "conn_nread", !.rd = TRUE],
        s |-> do_item_alloc(s, cmd.key, cmd.vlen + 1)]
  ELSE [c |-> out_string(c, <<"SERVER_ERROR">>),
        s |-> IF cmd.op = "set" THEN DropOld(item_get(s, cmd.key)) ELSE s]

(* tokenize_command: only a line that is one command's text is understood. *)
tokenize_command(line) ==
  IF Len(line) = 1 /\ line[1] \notin Byte \cup {NL} THEN line[1] ELSE [op |-> "unknown"]

Dispatch(c, cmd, env) ==
  LET says(a) == [c |-> out_string(c, <<a>>), s |-> s] IN
  CASE cmd.op = "get" -> process_get_command(c, cmd.key)
    [] cmd.op \in Update -> process_update_command(c, cmd, env)
    [] cmd.op \in {"badline", "hugeline"} -> says("CLIENT_ERROR")
    [] cmd.op = "version" -> says("VERSION")
    [] cmd.op = "stats" -> says("STATS")
    [] OTHER -> says("ERROR")
process_command(c, line, env) == Dispatch(c, tokenize_command(line), env)
strtol_errno(line) == IF tokenize_command(line).op = "hugeline" THEN "ERANGE" ELSE errno

(* complete_nread: sound says whether the last unit, where it was never    *)
(* written, happens to read as CRLF.  ritem and item_comm, dead from here  *)
(* to the next update, are cleared.                                        *)
Completed(c, t, a) ==
  [c |-> [out_string(c, a) EXCEPT !.item = NoItem, !.item_comm = "none", !.ritem = 0],
   s |-> do_item_remove(t, c.item)]
Answered(c, r) == Completed(c, r.s, <<IF r.stored THEN "STORED" ELSE "NOT_STORED">>)
EndsRight(d, sound) == d[Len(d)] = NL \/ (d[Len(d)] = Junk /\ sound)
complete_nread(c, env, sound) ==
  IF EndsRight(s.item[c.item].data, sound)
  THEN Answered(c, do_store_item(s, c.item, c.item_comm, env))
  ELSE Completed(c, s, <<"CLIENT_ERROR">>)
-----------------------------------------------------------------------------
(* conn_close: conn_cleanup, fd_delete and mc_disconnect. *)
conn_close(c) ==
  /\ s' = Release(s, conn[c].item)
  /\ conn' = [conn EXCEPT ![c] = Closed]
  /\ wire' = [wire EXCEPT ![c] = <<>>]
  /\ sock' = [sock EXCEPT ![c] = <<>>]
  /\ fin' = [fin EXCEPT ![c] = FALSE]
  /\ curr_conns' = curr_conns - 1
  /\ UNCHANGED <<down, errno>>

(* recv() of at most n units into ib: how many there are now.              *)
Recv(c, n) == IF Len(sock[c]) < n THEN Len(sock[c]) ELSE n
PeerClosed(c) == fin[c] /\ wire[c] = <<>> /\ sock[c] = <<>>
recv_errno(c, n) == IF n = 0 /\ ~PeerClosed(c) THEN "other" ELSE errno   \* EAGAIN

Received(c, n) ==
  /\ conn' = [conn EXCEPT ![c].ib.buff = @ \o SubSeq(sock[c], 1, n)]
  /\ sock' = [sock EXCEPT ![c] = SubSeq(@, n + 1, Len(@))]

LineEnds(b) == {i \in b.curr + 1..Len(b.buff) : b.buff[i] = NL}

(* The bookkeeping of n units of the value: ritem and rlbytes.             *)
Took(cn, c, n) == [cn EXCEPT ![c].ritem = @ + n, ![c].rlbytes = @ - n]

(* One pass in conn_read, first try_read_command ...                       *)
TryReadCommand(c) ==
  LET b == conn[c].ib
      el == CHOOSE i \in LineEnds(b) : \A j \in LineEnds(b) : i <= j
  IN /\ conn[c].state = "conn_read" /\ LineEnds(b) # {}
     /\ \E env \in Envs, line \in {SubSeq(b.buff, b.curr + 1, el - 1)} :
          \E r \in {process_command(conn[c], line, env)} :
             /\ errno' = strtol_errno(line)
             /\ conn' = [conn EXCEPT ![c] = [r.c EXCEPT !.ib.curr = el]]
             /\ s' = r.s
             /\ busy' = IF r.c.wr THEN Nobody ELSE c
     /\ UNCHANGED <<net, down, curr_conns>>

(* ... then, without a whole line, try_read_network: receive until recv()  *)
(* gives less than asked.  A full buffer asks for 0 bytes and log_fatal    *)
(* exits; with nothing there it is simply tried again.                     *)
TryReadNetwork(c) ==
  LET avail == buffer_remain_write(conn[c].ib)
      n == Recv(c, avail)
  IN /\ conn[c].state = "conn_read" /\ LineEnds(conn[c].ib) = {}
     /\ IF avail = n
        THEN down' = TRUE /\ UNCHANGED <<conn, sock, errno>>
        ELSE /\ UNCHANGED down /\ errno' = recv_errno(c, n)
             /\ IF PeerClosed(c)
                THEN conn' = [conn EXCEPT ![c].state = "conn_closing"] /\ UNCHANGED sock
                ELSE Received(c, n)
     /\ UNCHANGED <<s, wire, fin, busy, curr_conns>>

(* conn_nread: the value is whole.                                         *)
CompleteNread(c) ==
  /\ conn[c].state = "conn_nread" /\ conn[c].rlbytes = 0
  /\ \E env \in Envs, sound \in BOOLEAN :
       \E r \in {complete_nread(conn[c], env, sound)} : conn' = [conn EXCEPT ![c] = r.c] /\ s' = r.s
  /\ busy' = Nobody
  /\ UNCHANGED <<net, down, errno, curr_conns>>

(* conn_nread: take what the buffer has.                                   *)
CopyFromBuffer(c) ==
  LET b == conn[c].ib
      have == buffer_remain_read(b)
      tocopy == IF have > conn[c].rlbytes THEN conn[c].rlbytes ELSE have
      at == conn[c].ritem
      copied(d) == [i \in DOMAIN d |-> IF i \in at + 1..at + tocopy
                                       THEN b.buff[b.curr + i - at] ELSE d[i]]
  IN /\ conn[c].state = "conn_nread" /\ conn[c].rlbytes > 0 /\ have > 0
     /\ s' = [s EXCEPT !.item[conn[c].item].data = copied(@)]
     /\ conn' = [Took(conn, c, tocopy) EXCEPT ![c].ib.curr = @ + tocopy]
     /\ UNCHANGED <<net, busy, down, errno, curr_conns>>

(* conn_nread with an empty buffer: the rest is received into the buffer   *)
(* while ritem moves on as if it had gone into the item.  Nothing there    *)
(* yet (EAGAIN) is taken for the end of the stream.                        *)
ReadRest(c) ==
  LET want == conn[c].rlbytes
      n == Recv(c, want)
      b == conn[c].ib
  IN /\ conn[c].state = "conn_nread" /\ want > 0 /\ buffer_empty(b)
     /\ CASE buffer_remain_write(b) < want ->
               down' = TRUE /\ UNCHANGED <<conn, sock, errno>>
          [] buffer_remain_write(b) >= want /\ n > 0 ->
               /\ conn' = [Took(conn, c, n) EXCEPT ![c].ib.buff = @ \o SubSeq(sock[c], 1, n)]
               /\ sock' = [sock EXCEPT ![c] = SubSeq(@, n + 1, Len(@))]
               /\ UNCHANGED <<down, errno>>
          [] OTHER ->
               /\ conn' = [conn EXCEPT ![c].state = "conn_closing"]
               /\ errno' = recv_errno(c, n)
               /\ UNCHANGED <<sock, down>>
     /\ UNCHANGED <<s, wire, fin, busy, curr_conns>>

Closing(c) ==
  /\ conn[c].state = "conn_closing"
  /\ conn_close(c)
  /\ busy' = Nobody

(* mc_read() is called for a readable descriptor; what the process did     *)
(* since the last call may have left another errno ...                     *)
mc_read(c) ==
  /\ busy = Nobody /\ ~down
  /\ conn[c] # Closed /\ conn[c].rd
  /\ sock[c] # <<>> \/ PeerClosed(c)
  /\ busy' = c
  /\ errno' \in {errno, "other"}
  /\ UNCHANGED <<s, conn, net, down, curr_conns>>

(* ... and makes one pass of its loop.                                     *)
ReadLoop(c) ==
  /\ busy = c /\ ~down
  /\ \/ TryReadCommand(c) \/ TryReadNetwork(c)
     \/ CompleteNread(c) \/ CopyFromBuffer(c) \/ ReadRest(c)
     \/ Closing(c)

(* mc_write: once all is sent (a partial send() leaves the answer pending  *)
(* and is no step here), both buffers are reset and the connection reads   *)
(* again; send() fails when the client has gone.                           *)
mc_write(c) ==
  /\ busy = Nobody /\ ~down /\ conn[c] # Closed /\ conn[c].wr
  /\ \/ /\ conn' = [conn EXCEPT ![c].ib = buffer_reset, ![c].ob = <<>>,
                                ![c].state = "conn_read", ![c].wr = FALSE, ![c].rd = TRUE]
        /\ UNCHANGED <<s, net, down, errno, curr_conns>>
     \/ fin[c] /\ conn_close(c)
  /\ UNCHANGED busy

mc_accept(c) ==
  /\ busy = Nobody /\ ~down /\ conn[c] = Closed
  /\ conn' = [conn EXCEPT ![c] = NewConn]
  /\ curr_conns' = curr_conns + 1
  /\ UNCHANGED <<s, net, busy, down, errno>>
-----------------------------------------------------------------------------
(* The clients and the network. *)
(* What the client has sent since its last answer. *)
Under(c) == wire[c] \o sock[c] \o conn[c].ib.buff

Submit(c, r) ==
  /\ conn[c] # Closed /\ ~fin[c] /\ ~down
  /\ Under(c) = <<>> \/ (r \in Behind /\ Len(Under(c)) + Len(r) <= MaxFlight)
  /\ wire' = [wire EXCEPT ![c] = @ \o r]
  /\ UNCHANGED <<s, conn, sock, fin, busy, down, errno, curr_conns>>

Arrive(c, n) ==
  /\ ~down
  /\ wire' = [wire EXCEPT ![c] = SubSeq(@, n + 1, Len(@))]
  /\ sock' = [sock EXCEPT ![c] = @ \o SubSeq(wire[c], 1, n)]
  /\ UNCHANGED <<s, conn, fin, busy, down, errno, curr_conns>>

Quit(c) ==
  /\ conn[c] # Closed /\ ~fin[c] /\ ~down
  /\ fin' = [fin EXCEPT ![c] = TRUE]
  /\ UNCHANGED <<s, conn, wire, sock, busy, down, errno, curr_conns>>

(* Values are kept short: no client appends to one that has MaxData units. *)
ShortEnough(r) ==
  r[1].op \in {"append", "prepend"} =>
    \A i \in Item : s.item[i] # Free /\ s.item[i].key = r[1].key => Len(s.item[i].data) <= MaxData

(* The cache after a client has set k to the empty value.                  *)
SetEmpty(t, it) == [do_item_alloc(t, it[1], 1) EXCEPT !.item[it].data = <<NL>>]
WithSet(t, it) == do_item_remove(do_item_link(SetEmpty(t, it), it, TRUE), it)
Filled ==
  LET after[n \in 0..Len(Before)] ==
        IF n = 0 THEN assoc_init ELSE WithSet(after[n - 1], FreeItem(after[n - 1], Before[n]))
  IN after[Len(Before)]

Init ==
  /\ s = Filled
  /\ conn = [c \in Conn |-> Closed]
  /\ wire = [c \in Conn |-> <<>>]
  /\ sock = [c \in Conn |-> <<>>]
  /\ fin = [c \in Conn |-> FALSE]
  /\ busy = Nobody /\ down = FALSE /\ errno = "other" /\ curr_conns = 0

Client(c) ==
  \/ \E r \in Requests : ShortEnough(r) /\ Submit(c, r)
  \/ \E n \in 1..Len(wire[c]) : Arrive(c, n)
  \/ Quit(c)

Next == \E c \in Conn : mc_accept(c) \/ mc_read(c) \/ ReadLoop(c) \/ mc_write(c) \/ Client(c)

Spec == Init /\ [][Next]_vars
-----------------------------------------------------------------------------
Live == {i \in Item : s.item[i] # Free}
Linked == {i \in Live : s.item[i].linked}
Tables == {s.primary[b] : b \in DOMAIN s.primary} \cup {s.old[b] : b \in DOMAIN s.old}

(* Reference counts are exact between steps: a count is the number of      *)
(* connections whose struct conn points to the item, and an item nobody    *)
(* points to is in the cache - nothing leaks, nothing held was freed.      *)
RefsSound ==
  /\ \A i \in Live : /\ s.item[i].refcount = Cardinality({c \in Conn : conn[c] # Closed /\ conn[c].item = i})
                     /\ s.item[i].refcount > 0 \/ s.item[i].linked
  /\ \A c \in Conn : conn[c] # Closed /\ conn[c].item # NoItem => conn[c].item \in Live

(* The hash table is a map at every stage of an expansion: each linked     *)
(* item is the one its key finds, sits on one chain, and the LRU list and  *)
(* both counters hold exactly the linked items.                            *)
TableIsMap ==
  /\ \A i \in Linked : assoc_find(s, s.item[i].key) = i
  /\ \A c \in Tables : \A j \in DOMAIN c : c[j] \in Linked
  /\ {s.lru[j] : j \in DOMAIN s.lru} = Linked
  /\ Len(s.lru) = Cardinality(Linked)
  /\ s.curr_items = Cardinality(Linked) /\ s.hash_items = Cardinality(Linked)

(* Some of the value was received by conn_nread itself: ritem is ahead of  *)
(* the buffer, in which the value begins behind the command and its NL.    *)
Late(cn) == cn # Closed /\ cn.item # NoItem /\ cn.ritem # cn.ib.curr - 2

(* The abstract map: the items that are in the cache. *)
Cached(k) == {i \in {k} \X (1..3) : s.item[i] # Free /\ s.item[i].linked}

KV == INSTANCE KVStore WITH
        Absent <- <<>>,
        store <- [k \in Key |-> IF Cached(k) = {} THEN <<>>
                                ELSE s.item[CHOOSE i \in Cached(k) : TRUE].data],
        sent <- [c \in Conn |-> sock[c] \o wire[c]],
        held <- [c \in Conn |-> IF conn[c] = Closed THEN <<>> ELSE conn[c].ib.buff],
        late <- [c \in Conn |-> Late(conn[c])],
        wary <- (errno = "ERANGE"),
        answer <- [c \in Conn |-> IF conn[c] = Closed THEN <<>> ELSE conn[c].ob]

(* The handler implements the key-value store: whatever the splitting of   *)
(* the input, the connections that come and go and the state of the table, *)
(* each command takes effect in one step that obeys the abstract map, with *)
(* the value its client sent behind it unless some of it came in later     *)
(* than the line, and its answer is the only one it gets.                  *)
ImplementsKV == KV!Spec

(* "The data is read into ITEM_data(item)": every unit of a value in the   *)
(* cache was written.  Not so of what mc_read() receives itself in         *)
(* conn_nread, which goes into the input buffer.                           *)
DataIsRead == \A i \in Linked : \A j \in DOMAIN s.item[i].data : s.item[i].data[j] # Junk
=============================================================================
