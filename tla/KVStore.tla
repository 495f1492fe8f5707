------------------------------ MODULE KVStore ------------------------------
(***************************************************************************)
(* What the memcached handler promises its clients: a map from keys to     *)
(* values that each command reads or changes in one step.                  *)
(*                                                                         *)
(* A client's requests are received in pieces.  The answer is the answer   *)
(* to the command at the head of what was received, whose value is the one *)
(* the client sent - provided it was received together with its line.      *)
(* Once the answer is sent, everything received is forgotten: the command, *)
(* and whatever came in behind it.                                         *)
(*                                                                         *)
(* Memory may run out: then a set drops the key and an append changes      *)
(* nothing.  A number out of range makes the handler refuse updates, of    *)
(* any client, until it forgets.                                           *)
(***************************************************************************)
EXTENDS Integers, Sequences

CONSTANTS Conn, Key,
          Absent,     \* the value of a key that is not in the cache
          Unit,       \* what a value is made of
          NL,         \* the unit that ends a line and a value
          Requests    \* what a client may send at once

VARIABLES store,      \* store[k]: the value of k, or Absent
          sent,       \* sent[c]: what c has sent and was not received
          held,       \* held[c]: what was received since the last answer was sent
          late,       \* late[c]: some of the value came in after the line
          wary,       \* updates are refused
          answer      \* answer[c]: <<>>, or the answer not yet sent to c

vars == <<store, sent, held, late, wary, answer>>

Update == {"set", "add", "replace", "append", "prepend"}

(* What h asks for: the command on its first line, if that is one.         *)
Whole(h) == \E i \in DOMAIN h : h[i] = NL
Asks(h, ops) == Len(h) >= 2 /\ h[2] = NL /\ h[1].op \in ops

(* The values h's command may have been given: the one behind its line, as *)
(* announced and ended right; any, where some of it came in late.          *)
Last(h) == h[1].vlen + 3
Given(h, l) ==
  IF l THEN [1..h[1].vlen + 1 -> Unit]
  ELSE {v \in {SubSeq(h, 3, Last(h))} : Last(h) <= Len(h) /\ h[Last(h)] = NL}

(* Whether a command stores a value over the old one, and which.           *)
Allowed(comm, old) ==
  CASE comm = "set" -> TRUE
    [] comm = "add" -> old = Absent
    [] OTHER -> old # Absent

Join(x, y) == SubSeq(x, 1, Len(x) - 1) \o y
Result(comm, old, v) ==
  CASE comm = "append" -> Join(old, v)
    [] comm = "prepend" -> Join(v, old)
    [] OTHER -> v

(* The answers.                                                            *)
Got(m, k) == IF m[k] = Absent THEN <<"END">> ELSE <<"VALUE", k, m[k]>>

Stored(m, m2, u, v) ==
  Allowed(u.op, m[u.key]) /\ m2 = [m EXCEPT ![u.key] = Result(u.op, @, v)]

NotStored(m, m2, u) ==
  /\ ~Allowed(u.op, m[u.key]) \/ u.op \in {"append", "prepend"}
  /\ m2 = m

(* The value cannot have been what the line announced.                     *)
Misfit(h, l) == l \/ (Last(h) <= Len(h) /\ h[Last(h)] # NL)

(* a is an answer to the head of h, which changes the map from m to m2.    *)
Lawful(m, m2, h, l, w, a) ==
  CASE a[1] \in {"VALUE", "END"} ->
         Asks(h, {"get"}) /\ a = Got(m, h[1].key) /\ m2 = m
    [] a[1] = "STORED" ->
         Asks(h, Update) /\ \E v \in Given(h, l) : Stored(m, m2, h[1], v)
    [] a[1] = "NOT_STORED" ->
         Asks(h, Update) /\ Given(h, l) # {} /\ NotStored(m, m2, h[1])
    [] a[1] = "SERVER_ERROR" ->
         /\ Asks(h, Update)
         /\ m2 = m \/ (h[1].op = "set" /\ m2 = [m EXCEPT ![h[1].key] = Absent])
    [] a[1] = "CLIENT_ERROR" ->
         /\ Asks(h, {"badline", "hugeline"}) \/ (Asks(h, Update) /\ (w \/ Misfit(h, l)))
         /\ m2 = m
    [] a[1] = "VERSION" -> Asks(h, {"version"}) /\ m2 = m
    [] a[1] = "STATS" -> Asks(h, {"stats"}) /\ m2 = m
    [] OTHER ->
         /\ a = <<"ERROR">> /\ Whole(h) /\ m2 = m
         /\ ~Asks(h, {"get", "badline", "hugeline", "version", "stats"} \cup Update)

Init == /\ store \in [Key -> Seq(Unit) \cup {Absent}]
        /\ sent = [c \in Conn |-> <<>>] /\ held = [c \in Conn |-> <<>>]
        /\ late = [c \in Conn |-> FALSE] /\ wary = FALSE
        /\ answer = [c \in Conn |-> <<>>]

Ask(c) ==
  /\ \E r \in Requests : sent' = [sent EXCEPT ![c] = @ \o r]
  /\ UNCHANGED <<store, held, late, wary, answer>>

(* While there is no answer, more may be received; behind a whole line it  *)
(* is late.                                                                *)
Receive(c) ==
  /\ answer[c] = <<>>
  /\ \E n \in 1..Len(sent[c]) :
       /\ held' = [held EXCEPT ![c] = @ \o SubSeq(sent[c], 1, n)]
       /\ sent' = [sent EXCEPT ![c] = SubSeq(@, n + 1, Len(@))]
  /\ late' = [late EXCEPT ![c] = Whole(held[c])]
  /\ UNCHANGED <<store, wary, answer>>

(* A command takes effect and is answered.                                 *)
Answer(c) ==
  /\ answer[c] = <<>> /\ answer'[c] # <<>>
  /\ \A d \in Conn \ {c} : answer'[d] = answer[d]
  /\ Lawful(store, store', held[c], late[c], wary, answer'[c])
  /\ wary' = (wary \/ Asks(held[c], {"hugeline"}))
  /\ late' = [late EXCEPT ![c] = FALSE]
  /\ UNCHANGED <<sent, held>>

Sent(c) ==
  /\ answer[c] # <<>>
  /\ answer' = [answer EXCEPT ![c] = <<>>]
  /\ held' = [held EXCEPT ![c] = <<>>]
  /\ UNCHANGED <<store, sent, late, wary>>

Close(c) ==
  /\ sent' = [sent EXCEPT ![c] = <<>>] /\ held' = [held EXCEPT ![c] = <<>>]
  /\ late' = [late EXCEPT ![c] = FALSE] /\ answer' = [answer EXCEPT ![c] = <<>>]
  /\ UNCHANGED <<store, wary>>

Forget ==
  /\ wary' = FALSE
  /\ UNCHANGED <<store, sent, held, late, answer>>

Next == Forget \/ \E c \in Conn : Ask(c) \/ Receive(c) \/ Answer(c) \/ Sent(c) \/ Close(c)

Spec == Init /\ [][Next]_vars
=============================================================================
