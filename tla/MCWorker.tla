------------------------------- MODULE MCWorker -------------------------------
(***************************************************************************)
(* Two parts of a worker process for TLC: its poller (Poller) and its      *)
(* memcached handler (Memcached).  They share no state here and a          *)
(* behaviour is one of a single part, so that one run visits the states of *)
(* both and not their products.                                            *)
(***************************************************************************)
EXTENDS Poller, MCMemcached

VARIABLE part
allVars == <<part, pollerVars, vars>>

PartsInit == part \in {"poller", "memcached"} /\ PollerInit /\ Init

Poll(act)  == part = "poller" /\ act /\ UNCHANGED <<part, vars>>
Cache(act) == part = "memcached" /\ act /\ UNCHANGED <<part, pollerVars>>

PartsNext ==
  \/ \E fd \in FD : \/ Poll(Open(fd)) \/ Poll(Delete(fd)) \/ Poll(Rem(fd))
                    \/ \E dir \in Dir : Poll(Set(fd, dir)) \/ Poll(Clr(fd, dir))
  \/ Poll(PollDo) \/ Poll(FlushStep) \/ Poll(FlushDone) \/ Poll(Wake)
  \/ \E c \in Conn : \/ Cache(mc_accept(c)) \/ Cache(mc_read(c)) \/ Cache(ReadLoop(c))
                     \/ Cache(mc_write(c)) \/ Cache(Client(c))

PartsSpec == PartsInit /\ [][PartsNext]_allVars
=============================================================================
