---------------------------- MODULE MCMemcached ----------------------------
EXTENDS Memcached, TLC

CONSTANTS k1, k2, k3, k4

(* k1 and k3 share a bucket of the initial table of two and part in the    *)
(* table of four; so do k2 and k4, which an expansion moves first.         *)
MCHash == k1 :> 1 @@ k2 :> 0 @@ k3 :> 3 @@ k4 :> 2

(* Commands for k1, with values of one byte, x or y, or shorter than       *)
(* announced; a get may follow close behind.                               *)
Says(r, b) == r[3] = [op |-> "byte", b |-> b]
GetK1 == <<[op |-> "get", key |-> k1], NL>>
MCRequests ==
  {GetK1, <<[op |-> "version"], NL>>, <<[op |-> "hugeline"], NL>>} \cup
  {r \in Request :
     /\ r[1].op \in Update /\ r[1].key = k1 /\ r[1].vlen = 1
     /\ Len(r) = 3 => r[1].op = "set"
     /\ Len(r) = 4 => Says(r, IF r[1].op = "set" THEN "x" ELSE "y")}
MCBehind == {GetK1}

(* One set short of an expansion, which then stays half done.              *)
MCBefore == <<k4, k3, k2>>
=============================================================================
