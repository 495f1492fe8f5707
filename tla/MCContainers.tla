----------------------------- MODULE MCContainers -----------------------------
(***************************************************************************)
(* Two containers for TLC: the tree of timers (EbTree) and the hash table  *)
(* of cookies and ids (UtHash).  They share no state and a behaviour is    *)
(* one of a single container, so that one run visits the states of both    *)
(* and not their products.                                                 *)
(*                                                                         *)
(* Timers and elements are interchangeable: no property and no action      *)
(* tells one from another.  Both are drawn from one set of model values,   *)
(* so that they have the same permutations.                                *)
(***************************************************************************)
EXTENDS EbTree, UtHash, TLC

VARIABLE part
allVars == <<part, treeVars, tableVars>>

\* The hash functions: every key alike, two crowds that only the highest bit
\* tells apart, two crowds that the lowest bit tells apart, and all spread.
MCKeys == 1..3
MCHashFcns == {<<0, 0, 0>>, <<0, 0, 4>>, <<1, 2, 2>>, <<0, 1, 2>>}

Interchangeable == Permutations(Node \cup Elem)

\* Two states with the same view have the same future: what a timer outside the
\* tree holds, and the branches and the bit of a link that is not in use, are
\* written before they are read again; only last_timer's bit is read while its
\* link is not in use.
Queued == {n \in Node : task_in_wq(n)}
UsedLinks == {n \in Queued : mem.node_p[n] # NULL}
LiveFields ==
  <<part, tableVars,
    [x \in UsedLinks \cup {ROOT} |-> mem.b[x]],
    [n \in Queued |-> <<mem.node_p[n], mem.leaf_p[n], mem.key[n]>>],
    [n \in UsedLinks \cup ({last_timer} \ {NIL}) |-> mem.bit[n]],
    last_timer>>

PartsInit ==
  /\ part \in {"tree", "table"}
  /\ TreeInit /\ TableInit
  /\ part = "table" \/ (user = "id_list" /\ hash = <<0, 0, 0>>)

Tree(act)  == part = "tree" /\ act /\ UNCHANGED <<part, tableVars>>
Table(act) == part = "table" /\ act /\ UNCHANGED <<part, treeVars>>

PartsNext ==
  \/ \E n \in Node : \/ Tree(__task_unlink_wq(n))
                     \/ \E expire \in Expiry : Tree(__task_queue(n, expire))
  \/ \E name \in Keys : \/ \E e \in Elem : Table(cookie_put_content(e, name))
                        \/ Table(cookie_remove(name))
                        \/ Table(id_zen(name))

PartsSpec == PartsInit /\ [][PartsNext]_allVars
=============================================================================
