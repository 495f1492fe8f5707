----------------------------- MODULE PubSubModel -----------------------------
(***************************************************************************)
(* The publish/subscribe model shared by the plain-text and the http       *)
(* handler (src/src/handler/pubsub/*.c) as operators on the server's       *)
(* memory s, and both handlers' response callbacks.                        *)
(*                                                                         *)
(* The model knows connections by descriptor number only:                  *)
(*   s.accounts  the account list, in creation order                       *)
(*   s.afds[a]   account.fds: the descriptors logged in as a               *)
(*   s.topics    the topics that exist                                     *)
(*   s.tfds[t]   topic.fds: the descriptors subscribed to t                *)
(*   s.cookies   accounts a session cookie was issued for                  *)
(* and of a descriptor                                                     *)
(*   s.kind[fd]  "psub" or "http": fdtab[].owner's handler                 *)
(*   s.wrb[fd]   fdtab[].cb[DIR_WR].b: TRUE unless NULL                    *)
(*   s.out[fd]   that buffer: what was written since it was last empty     *)
(*               (data) and the bytes of it (r), sent or not               *)
(*   s.poll      the poller (PollerOps)                                    *)
(* History, about the connection a descriptor stands for at present:       *)
(*   s.me[fd]    accounts it logged in to itself, in order                 *)
(*   s.subs[fd]  topics it subscribed to itself                            *)
(* and about a number                                                      *)
(*   s.twice     numbers on which a connection logged in more than once    *)
(*   s.stale     free numbers a refused plain-text accept left a buffer on *)
(*                                                                         *)
(* topic.members and account.sub_lists only feed the listings and are left *)
(* out; a listing is taken for one answer.                                 *)
(***************************************************************************)
EXTENDS PollerOps, SequencesExt

CONSTANTS
  Account,  \* account names
  Topic,    \* topic names
  OutCap,   \* HTTP_BUFFER_SIZE, the size of an output buffer
  PlainLen, \* bound: lengths of a message in plain text
  HttpLen   \* bound: lengths of an answer of http with a message, head included

Reply   == "reply"
Newline == "newline"
NoAcct  == "nobody"

\* A message in both forms; "success" and "error" always fit an empty buffer.
Lengths == [plain : PlainLen, http : HttpLen]
Short   == [plain |-> 1, http |-> 1]

ASSUME NoAcctAssumption == NoAcct \notin Account

----------------------------------------------------------------------------
(* common/vector.h: a vector of descriptors without duplicates unless the  *)
(* caller inserts one.                                                     *)

vector_insert(v, x)   == Append(v, x)
vector_is_exist(v, x) == \E i \in DOMAIN v : v[i] = x

\* The first occurrence is removed.
vector_remove(v, x) ==
  IF vector_is_exist(v, x) THEN RemoveAt(v, Min({i \in DOMAIN v : v[i] = x})) ELSE v

----------------------------------------------------------------------------
(* on_response of the connection's handler.                                *)

EmptyBuffer == [data |-> << >>, r |-> 0]

\* What would fill the buffer to the last byte is refused, too.
buffer_write(b, item, n) ==
  IF OutCap - b.r <= n THEN b ELSE [data |-> Append(b.data, item), r |-> b.r + n]

\* Plain text appends, each part as long as there is room.
psub_on_response(s, fd, item, len) ==
  [s EXCEPT !.out[fd] = buffer_write(buffer_write(@, item, len.plain), Newline, 1),
            !.poll    = fd_set(@, fd, "WR")]

\* http empties the buffer and writes a response; one that is too long leaves
\* it empty, with the write direction on.
http_psub_on_response(s, fd, item, len) ==
  [s EXCEPT !.out[fd] = buffer_write(EmptyBuffer, item, len.http),
            !.poll    = fd_set(@, fd, "WR")]

on_response(s, fd, item, len) ==
  IF s.kind[fd] = "psub" THEN psub_on_response(s, fd, item, len)
                         ELSE http_psub_on_response(s, fd, item, len)

----------------------------------------------------------------------------
(* account.c                                                               *)

\* The first account in the list that has fd.
account_get_by_fd(s, fd) ==
  LET has == {i \in DOMAIN s.accounts : vector_is_exist(s.afds[s.accounts[i]], fd)}
  IN  IF has = {} THEN NoAcct ELSE s.accounts[Min(has)]

account_exists(s, a) == \E i \in DOMAIN s.accounts : s.accounts[i] = a

model_acc_create(s, a) ==
  IF account_exists(s, a)
  THEN [s |-> s, ok |-> FALSE]
  ELSE [s |-> [s EXCEPT !.accounts = Append(@, a)], ok |-> TRUE]

\* A login inserts the descriptor, be it there or not.
login(s, fd, a) ==
  [s EXCEPT !.afds[a] = vector_insert(@, fd),
            !.me[fd]  = Append(@, a),
            !.twice   = IF s.me[fd] = << >> THEN @ ELSE @ \cup {fd}]

model_acc_auth(s, fd, a, pass) ==
  IF account_exists(s, a) /\ pass
  THEN [s |-> login(s, fd, a), ok |-> TRUE]
  ELSE [s |-> s, ok |-> FALSE]

\* Mutant: the account keeps the descriptor.
model_acc_offline_Keeps(s, fd) == s

\* One occurrence of fd is removed from one account.
model_acc_offline(s, fd) ==
  LET a == account_get_by_fd(s, fd)
  IN  IF a = NoAcct THEN s
      ELSE [s EXCEPT !.afds[a] = vector_remove(@, fd)]

----------------------------------------------------------------------------
(* topic.c and the commands of model.c.                                    *)

topic_sub(s, fd, t) ==
  [s EXCEPT !.tfds[t]  = IF vector_is_exist(@, fd) THEN @ ELSE vector_insert(@, fd),
            !.subs[fd] = @ \cup {t}]

\* Creating an existing topic subscribes to it.
model_topic_create(s, fd, t) ==
  [s |-> topic_sub([s EXCEPT !.topics = @ \cup {t}], fd, t), ok |-> TRUE]

model_topic_delete(s, t) ==
  IF t \notin s.topics
  THEN [s |-> s, ok |-> FALSE]
  ELSE [s |-> [s EXCEPT !.topics  = @ \ {t},
                        !.tfds[t] = << >>,
                        !.subs    = [fd \in FD |-> s.subs[fd] \ {t}]],
        ok |-> TRUE]

model_sub(s, fd, t) ==
  IF t \in s.topics /\ account_get_by_fd(s, fd) # NoAcct
  THEN [s |-> topic_sub(s, fd, t), ok |-> TRUE]
  ELSE [s |-> s, ok |-> FALSE]

model_unsub(s, fd, t) ==
  IF t \in s.topics /\ account_get_by_fd(s, fd) # NoAcct
  THEN [s |-> [s EXCEPT !.tfds[t]  = vector_remove(@, fd),
                        !.subs[fd] = @ \ {t}],
        ok |-> TRUE]
  ELSE [s |-> s, ok |-> FALSE]

\* Mutant: a descriptor without output buffer stays in the topic.
publish_to_Keeps(s, cfd, t, len) == IF s.wrb[cfd] THEN on_response(s, cfd, t, len) ELSE s

\* One turn of the loop of model_pub(): a descriptor without output buffer is
\* taken for closed and dropped from the topic.
publish_to(s, cfd, t, len) ==
  IF s.wrb[cfd]
  THEN on_response(s, cfd, t, len)
  ELSE [s EXCEPT !.tfds[t] = vector_remove(@, cfd)]

\* Mutant: the loop runs forward, over the list it shortens.
publish_all_Forward(s, t, len) ==
  LET n == Len(s.tfds[t])
      after[i \in 0 .. n] ==
        IF i = 0 THEN s
        ELSE IF i > Len(after[i - 1].tfds[t]) THEN after[i - 1]
        ELSE publish_to(after[i - 1], after[i - 1].tfds[t][i], t, len)
  IN  after[n]

\* The loop, from the last subscriber to the first, over the list it shortens:
\* after[i] is the memory after i turns.
publish_all(s, t, len) ==
  LET n == Len(s.tfds[t])
      after[i \in 0 .. n] ==
        IF i = 0 THEN s ELSE publish_to(after[i - 1], after[i - 1].tfds[t][n + 1 - i], t, len)
  IN  after[n]

model_pub(s, fd, t, len) ==
  IF t \in s.topics /\ account_get_by_fd(s, fd) # NoAcct
  THEN [s |-> publish_all(s, t, len), ok |-> TRUE]
  ELSE [s |-> s, ok |-> FALSE]

----------------------------------------------------------------------------
(* model_process(): one command of a connection.  "other" stands for ack,  *)
(* the listings, cookie, pub without a message and anything unknown, which *)
(* only answer; the "_noauth" commands lack the password.                  *)

Commands ==
       [op : {"logup"}, arg : Account]
  \cup [op : {"login"}, arg : Account, pass : BOOLEAN]
  \cup [op : {"create", "delete", "sub", "unsub"}, arg : Topic]
  \cup [op : {"pub"}, arg : Topic, len : Lengths]
  \cup [op : {"login_noauth", "logup_noauth"}]
  \cup [op : {"other"}, len : Lengths]

\* The command proper.
execute(s, fd, c) ==
  CASE c.op = "logup"  -> model_acc_create(s, c.arg)
    [] c.op = "login"  -> model_acc_auth(s, fd, c.arg, c.pass)
    [] c.op = "create" -> model_topic_create(s, fd, c.arg)
    [] c.op = "delete" -> model_topic_delete(s, c.arg)
    [] c.op = "sub"    -> model_sub(s, fd, c.arg)
    [] c.op = "unsub"  -> model_unsub(s, fd, c.arg)
    [] c.op = "pub"    -> model_pub(s, fd, c.arg, c.len)
    [] OTHER           -> [s |-> s, ok |-> TRUE]

\* http_psub_on_response() issues a cookie for the connection's account with
\* the answer to every login.
issue_cookie(s, fd, c) ==
  LET a == account_get_by_fd(s, fd)
  IN  IF c.op \in {"login", "login_noauth"} /\ s.kind[fd] = "http" /\ a # NoAcct
      THEN [s EXCEPT !.cookies = @ \cup {a}] ELSE s

\* A listing, and the text of an unknown command that is sent back, may be long.
AnswerLength(c) == IF c.op = "other" THEN c.len ELSE Short

\* A successful sub is not answered; the result is what the loop gets.
model_process(s, fd, c) ==
  LET r == execute(s, fd, c)
      t == IF c.op = "sub" /\ r.ok THEN r.s
           ELSE on_response(issue_cookie(r.s, fd, c), fd, Reply, AnswerLength(c))
  IN  [s   |-> t,
       ok  |-> r.ok,
       ret |-> CASE c.op = "sub" -> {}
                 [] c.op \in {"login_noauth", "logup_noauth"} -> {"CLOSE_RD", "CLOSE_WR"}
                 [] OTHER -> {"SET_WR"}]

=============================================================================
