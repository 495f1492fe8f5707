------------------------------- MODULE EbTree -------------------------------
(***************************************************************************)
(* The elastic binary tree that holds the timers (ebtree.h, eb32tree.h,    *)
(* eb32tree.c) and the use task.c makes of it.                             *)
(*                                                                         *)
(* The tree is modelled with its pointers.  Every entry is both a leaf,    *)
(* which hangs at leaf_p, and a link node with two branches, which hangs   *)
(* at node_p and may be unused.  A pointer is <<x, tag>>: in a branch the  *)
(* tag says whether x is meant as a leaf or as a node, in node_p and       *)
(* leaf_p it is the branch of x that is meant.  NULL is <<NIL, 0>>.  A     *)
(* field keeps its last value when its entry leaves the tree.              *)
(*                                                                         *)
(* The operators take the memory of the tree as their first argument m.    *)
(***************************************************************************)
EXTENDS Integers, Sequences, FiniteSets, FiniteSetsExt, SequencesExt

CONSTANTS Node,    \* the wait queue entries of the tasks
          ROOT,    \* the root of the tree
          NIL,     \* no entry
          KeyBits, \* the width of a key in bits
          Expiry   \* the dates the tasks are queued with

ASSUME EbTreeAssumption ==
  /\ ROOT \notin Node /\ NIL \notin Node /\ ROOT # NIL
  /\ KeyBits \in Nat \ {0}
  /\ Expiry \subseteq 0 .. 2^KeyBits - 1 /\ Expiry # {}

VARIABLES mem,       \* the memory of the tree: b, node_p, leaf_p, bit, key
          last_timer \* the entry last queued, or NIL

treeVars == <<mem, last_timer>>

EB_LEFT == 0
EB_RGHT == 1
EB_LEAF == 0
EB_NODE == 1

eb_dotag(x, tag) == <<x, tag>>
eb_gettag(p) == p[2]
eb_clrtag(p) == p[1]
NULL == eb_dotag(NIL, 0)
Pointer == (Node \cup {ROOT, NIL}) \X {0, 1}

(* An entry as struct eb_node has it before its first use, and a root.     *)
Branches == {EB_LEFT, EB_RGHT}
EmptyTree ==
  [b |-> [x \in Node \cup {ROOT} |-> [s \in Branches |-> NULL]],
   node_p |-> [n \in Node |-> NULL],
   leaf_p |-> [n \in Node |-> NULL],
   bit |-> [n \in Node |-> 0],
   key |-> [n \in Node |-> CHOOSE k \in Expiry : TRUE]]

SetBranch(m, x, side, p) == [m EXCEPT !.b[x][side] = p]

(***************************************************************************)
(* Bits of keys.  x ^ y >> bit is at least 2 when x and y differ above     *)
(* bit, and flsnz(x ^ y) - 1 is the highest bit in which they differ.      *)
(***************************************************************************)
DifferAbove(x, y, bit) == x \div 2^(bit + 1) # y \div 2^(bit + 1)
SideOf(x, bit) == (x \div 2^bit) % 2
flsnz_xor(x, y) ==
  CHOOSE i \in 0 .. KeyBits - 1 : SideOf(x, i) # SideOf(y, i) /\ ~DifferAbove(x, y, i)

(***************************************************************************)
(* Walks through the tree                                                  *)
(***************************************************************************)
eb_walk_down(m, start, side) ==
  LET down[p \in Pointer] ==
        IF eb_gettag(p) = EB_NODE THEN down[m.b[eb_clrtag(p)][side]] ELSE eb_clrtag(p)
  IN  down[start]

eb_is_empty(m) == m.b[ROOT][EB_LEFT] = NULL
eb_first(m) == eb_walk_down(m, m.b[ROOT][EB_LEFT], EB_LEFT)
eb_last(m) == eb_walk_down(m, m.b[ROOT][EB_LEFT], EB_RGHT)

\* The root is known by its right branch, which is never used.
IsRoot(m, x) == eb_clrtag(m.b[x][EB_RGHT]) = NIL

\* Up from a parent pointer until it comes from the right, or NULL at the
\* root.
UpFromLeft(m, start) ==
  LET up[t \in Pointer] ==
        IF eb_gettag(t) # EB_LEFT THEN t
        ELSE IF IsRoot(m, eb_clrtag(t)) THEN NULL
        ELSE up[m.node_p[eb_clrtag(t)]]
  IN  up[start]

\* Up until the pointer comes from the left, at the latest at the root.
UpFromRight(m, start) ==
  LET up[t \in Pointer] ==
        IF eb_gettag(t) = EB_LEFT THEN t ELSE up[m.node_p[eb_clrtag(t)]]
  IN  up[start]

\* The last leaf before the branch that t, UpFromLeft's result, names.
LeafBefore(m, t) ==
  IF t = NULL THEN NIL
  ELSE eb_walk_down(m, m.b[eb_clrtag(t)][EB_LEFT], EB_RGHT)

\* The first leaf behind the branch that t, UpFromRight's result, names.
LeafBehind(m, t) ==
  IF t = NULL \/ IsRoot(m, eb_clrtag(t)) THEN NIL
  ELSE eb_walk_down(m, m.b[eb_clrtag(t)][EB_RGHT], EB_LEFT)

eb_prev(m, n) == LeafBefore(m, UpFromLeft(m, m.leaf_p[n]))
eb_next(m, n) == LeafBehind(m, UpFromRight(m, m.leaf_p[n]))

(* The same, giving up when the walk leaves a tree of duplicates.  The     *)
(* code of eb_next_dup() reads the bit of what it reaches before it looks  *)
(* for the root.  The root is no entry: it reads whatever lies behind it,  *)
(* and either way the answer is NULL.                                      *)
UpInDup(m, start, side) ==
  LET up[t \in Pointer] ==
        IF IsRoot(m, eb_clrtag(t)) \/ m.bit[eb_clrtag(t)] >= 0 THEN NULL
        ELSE IF eb_gettag(t) = side THEN t
        ELSE up[m.node_p[eb_clrtag(t)]]
  IN  up[start]

eb_prev_dup(m, n) == LeafBefore(m, UpInDup(m, m.leaf_p[n], EB_RGHT))
eb_next_dup(m, n) == LeafBehind(m, UpInDup(m, m.leaf_p[n], EB_LEFT))

\* The same, walking over the duplicates.
\* Mutant: the walk stops inside a tree of duplicates.
UpUnique_StopsInDup(m, start, side) ==
  LET up[t \in Pointer] ==
        IF eb_gettag(t) = EB_LEFT /\ IsRoot(m, eb_clrtag(t)) THEN NULL
        ELSE IF eb_gettag(t) = side THEN t
        ELSE up[m.node_p[eb_clrtag(t)]]
  IN  up[start]
UpUnique(m, start, side) ==
  LET up[t \in Pointer] ==
        IF eb_gettag(t) = EB_LEFT /\ IsRoot(m, eb_clrtag(t)) THEN NULL
        ELSE IF eb_gettag(t) = side /\ m.bit[eb_clrtag(t)] >= 0 THEN t
        ELSE up[m.node_p[eb_clrtag(t)]]
  IN  up[start]

eb_prev_unique(m, n) == LeafBefore(m, UpUnique(m, m.leaf_p[n], EB_RGHT))
eb_next_unique(m, n) == LeafBehind(m, UpUnique(m, m.leaf_p[n], EB_LEFT))

(***************************************************************************)
(* Lookups                                                                 *)
(***************************************************************************)

(* In front of a tree of duplicates of another key the code shifts by a    *)
(* negative bit, which C leaves undefined.  Whatever comes out, the rest   *)
(* of the descent stays among those duplicates and answers NULL.           *)
LookupAt(m, x, n) ==
  IF m.bit[n] < 0 THEN eb_walk_down(m, m.b[n][EB_LEFT], EB_LEFT) ELSE n
eb32_lookup(m, x) ==
  LET at[p \in Pointer] ==
        LET n == eb_clrtag(p)
        IN  IF eb_gettag(p) = EB_LEAF THEN IF m.key[n] = x THEN n ELSE NIL
            ELSE IF m.key[n] = x THEN LookupAt(m, x, n)
            ELSE IF m.bit[n] < 0 \/ DifferAbove(x, m.key[n], m.bit[n]) THEN NIL
            ELSE at[m.b[n][SideOf(x, m.bit[n])]]
  IN  IF eb_is_empty(m) THEN NIL ELSE at[m.b[ROOT][EB_LEFT]]

\* The descents stop at a leaf, at a tree of duplicates, or at a link that
\* has no bits in common with x.
Stops(m, p, x) ==
  \/ eb_gettag(p) = EB_LEAF
  \/ m.bit[eb_clrtag(p)] < 0
  \/ DifferAbove(x, m.key[eb_clrtag(p)], m.bit[eb_clrtag(p)])
StopFor(m, x) ==
  LET at[p \in Pointer] ==
        IF Stops(m, p, x) THEN p
        ELSE at[m.b[eb_clrtag(p)][SideOf(x, m.bit[eb_clrtag(p)])]]
  IN  at[m.b[ROOT][EB_LEFT]]

\* The parent pointer of what p leads to.
ParentOf(m, p) ==
  IF eb_gettag(p) = EB_LEAF THEN m.leaf_p[eb_clrtag(p)] ELSE m.node_p[eb_clrtag(p)]

\* The keys below p lie before x, or behind it: only the bits they share
\* count where they do not share all.
SharedKey(m, p, x) ==
  IF eb_gettag(p) = EB_LEAF \/ m.bit[eb_clrtag(p)] < 0 THEN x
  ELSE x \div 2^m.bit[eb_clrtag(p)]
LeAt(m, p, x) ==
  IF SharedKey(m, p, m.key[eb_clrtag(p)]) <= SharedKey(m, p, x)
  THEN eb_walk_down(m, p, EB_RGHT)
  ELSE LeafBefore(m, UpFromLeft(m, ParentOf(m, p)))
eb32_lookup_le(m, x) ==
  IF eb_is_empty(m) THEN NIL ELSE LeAt(m, StopFor(m, x), x)

\* Mutant: a key equal to x counts as too small.
GeAt_Strict(m, p, x) ==
  IF SharedKey(m, p, m.key[eb_clrtag(p)]) > SharedKey(m, p, x)
  THEN eb_walk_down(m, p, EB_LEFT)
  ELSE LeafBehind(m, UpFromRight(m, ParentOf(m, p)))
GeAt(m, p, x) ==
  IF SharedKey(m, p, m.key[eb_clrtag(p)]) >= SharedKey(m, p, x)
  THEN eb_walk_down(m, p, EB_LEFT)
  ELSE LeafBehind(m, UpFromRight(m, ParentOf(m, p)))
eb32_lookup_ge(m, x) ==
  IF eb_is_empty(m) THEN NIL ELSE GeAt(m, StopFor(m, x), x)

(***************************************************************************)
(* Insertion                                                               *)
(***************************************************************************)

\* <<head, sub>>: the last link of sub's right side, and the link above
\* which there is a hole.
DeepestHole(m, start) ==
  LET hole[head \in Node, sub \in Node] ==
        LET down == eb_clrtag(m.b[head][EB_RGHT])
        IN  IF eb_gettag(m.b[head][EB_RGHT]) = EB_LEAF THEN <<head, sub>>
            ELSE hole[down, IF m.bit[down] > m.bit[head] + 1 THEN down ELSE sub]
  IN  hole[start, start]

\* new between the last link head and the leaf on its right.
InsertBeforeLeaf(m, head, leaf, new) ==
  [m EXCEPT !.bit[new] = -1,
            !.b[head][EB_RGHT] = eb_dotag(new, EB_NODE),
            !.node_p[new] = m.leaf_p[leaf],
            !.leaf_p[new] = eb_dotag(new, EB_RGHT),
            !.leaf_p[leaf] = eb_dotag(new, EB_LEFT),
            !.b[new] = [s \in Branches |->
                          IF s = EB_LEFT THEN eb_dotag(leaf, EB_LEAF)
                                         ELSE eb_dotag(new, EB_LEAF)]]

\* new above the link sub.
InsertAbove(m, sub, new) ==
  LET up == m.node_p[sub]
  IN  [m EXCEPT !.bit[new] = m.bit[sub] - 1,
                !.b[eb_clrtag(up)][eb_gettag(up)] = eb_dotag(new, EB_NODE),
                !.node_p[new] = up,
                !.leaf_p[new] = eb_dotag(new, EB_RGHT),
                !.node_p[sub] = eb_dotag(new, EB_LEFT),
                !.b[new] = [s \in Branches |->
                              IF s = EB_LEFT THEN eb_dotag(sub, EB_NODE)
                                             ELSE eb_dotag(new, EB_LEAF)]]

InsertAtHole(m, hole, new) ==
  IF m.bit[hole[1]] < -1
  THEN InsertBeforeLeaf(m, hole[1], eb_clrtag(m.b[hole[1]][EB_RGHT]), new)
  ELSE InsertAbove(m, hole[2], new)

__eb_insert_dup(m, sub, new) == InsertAtHole(m, DeepestHole(m, sub), new)

\* The side on which the older entry stays: a duplicate comes behind it.
\* Mutant: it comes before it.
SideForOld_Before(m, old, new) == IF m.key[new] > m.key[old] THEN EB_LEFT ELSE EB_RGHT
SideForOld(m, old, new) == IF m.key[new] >= m.key[old] THEN EB_LEFT ELSE EB_RGHT

\* new on the branch <<root, side>>, above what hangs there: troot is that
\* branch, old its entry and oldSide the side on which it stays.
Linked(m, root, side, troot, old, new, bit, oldSide) ==
  LET up == eb_dotag(new, oldSide)
      placed == [m EXCEPT !.bit[new] = bit,
                          !.node_p[new] = IF eb_gettag(troot) = EB_LEAF
                                          THEN m.leaf_p[old] ELSE m.node_p[old],
                          !.leaf_p[new] = eb_dotag(new, 1 - oldSide),
                          !.b[new] = [s \in Branches |->
                                        IF s = oldSide THEN troot
                                        ELSE eb_dotag(new, EB_LEAF)],
                          !.b[root][side] = eb_dotag(new, EB_NODE)]
  IN  IF eb_gettag(troot) = EB_LEAF THEN [placed EXCEPT !.leaf_p[old] = up]
                                    ELSE [placed EXCEPT !.node_p[old] = up]

InsertOn(m, root, side, troot, old, new) ==
  IF m.key[new] # m.key[old]
  THEN Linked(m, root, side, troot, old, new, flsnz_xor(m.key[new], m.key[old]),
              SideForOld(m, old, new))
  ELSE IF eb_gettag(m.b[ROOT][EB_RGHT]) = 1   \* EB_ROOT_UNIQUE
  THEN [m EXCEPT !.bit[new] = -1, !.node_p[new] = ParentOf(m, troot)]
  ELSE IF eb_gettag(troot) # EB_LEAF
  THEN __eb_insert_dup(m, old, new)
  ELSE Linked(m, root, side, troot, old, new, -1, SideForOld(m, old, new))

\* troot is where the descent stopped, up the branch that leads to it.
InsertAtBranch(m, troot, up, new) ==
  InsertOn(m, eb_clrtag(up), eb_gettag(up), troot, eb_clrtag(troot), new)
InsertAtStop(m, troot, new) == InsertAtBranch(m, troot, ParentOf(m, troot), new)

__eb32_insert(m, new) ==
  IF eb_is_empty(m)
  THEN [m EXCEPT !.b[ROOT][EB_LEFT] = eb_dotag(new, EB_LEAF),
                 !.leaf_p[new] = eb_dotag(ROOT, EB_LEFT),
                 !.node_p[new] = NULL]
  ELSE InsertAtStop(m, StopFor(m, m.key[new]), new)

(***************************************************************************)
(* Deletion                                                                *)
(***************************************************************************)

\* What the branch p leads to, leaf or link, gets the parent pointer up.
Reparent(m, p, up) ==
  IF eb_gettag(p) = EB_LEAF THEN [m EXCEPT !.leaf_p[eb_clrtag(p)] = up]
                            ELSE [m EXCEPT !.node_p[eb_clrtag(p)] = up]

\* The branch up now leads to p, and what p leads to knows it.
Attach(m, p, up) == Reparent(SetBranch(m, eb_clrtag(up), eb_gettag(up), p), p, up)

\* The spare link takes the place of the link of node.
ReplaceLink(m, spare, node) ==
  [m EXCEPT !.node_p[spare] = m.node_p[node],
            !.b[spare] = m.b[node],
            !.bit[spare] = m.bit[node]]
AdoptBranches(m, spare) ==
  LET up == m.node_p[spare]
  IN  Reparent(Reparent(SetBranch(m, eb_clrtag(up), eb_gettag(up), eb_dotag(spare, EB_NODE)),
                        m.b[spare][EB_LEFT], eb_dotag(spare, EB_LEFT)),
               m.b[spare][EB_RGHT], eb_dotag(spare, EB_RGHT))

ReleaseLink(m, spare, node) ==
  IF m.node_p[node] = NULL THEN m
  ELSE AdoptBranches(ReplaceLink(m, spare, node), spare)

Release(m, node, parent, pside) ==
  IF IsRoot(m, parent)
  THEN SetBranch(m, parent, EB_LEFT, NULL)
  ELSE ReleaseLink([Attach(m, m.b[parent][1 - pside], m.node_p[parent])
                      EXCEPT !.node_p[parent] = NULL], parent, node)

__eb_delete(m, node) ==
  IF m.leaf_p[node] = NULL THEN m
  ELSE [Release(m, node, eb_clrtag(m.leaf_p[node]), eb_gettag(m.leaf_p[node]))
          EXCEPT !.leaf_p[node] = NULL]

(***************************************************************************)
(* The wait queue of task.c                                                *)
(***************************************************************************)
task_in_wq(n) == mem.leaf_p[n] # NULL

TreeInit ==
  /\ mem = EmptyTree
  /\ last_timer = NIL

\* last_timer heads a tree of duplicates of the key of n.
UseLastTimer(m, last, n) ==
  /\ last # NIL
  /\ m.bit[last] < 0
  /\ m.key[last] = m.key[n]
  /\ m.node_p[last] # NULL

\* last_timer after n was queued, behind last itself or from the root.
BehindLast(m, last, n) == IF m.bit[n] < m.bit[last] THEN n ELSE last
FromRoot(m, last, n) ==
  IF m.node_p[n] # NULL /\ (last = NIL \/ m.bit[n] < m.bit[last]) THEN n ELSE last

Unqueued(n) == IF task_in_wq(n) THEN __eb_delete(mem, n) ELSE mem
LastWithout(n) == IF task_in_wq(n) /\ last_timer = n THEN NIL ELSE last_timer

\* m is the memory without n, with the key of n set.
QueueBehindLast(m, last, n) ==
  /\ UseLastTimer(m, last, n)
  /\ \E q \in {__eb_insert_dup(m, last, n)} :
       mem' = q /\ last_timer' = BehindLast(q, last, n)
QueueFromRoot(m, last, n) ==
  /\ ~UseLastTimer(m, last, n)
  /\ \E q \in {__eb32_insert(m, n)} :
       mem' = q /\ last_timer' = FromRoot(q, last, n)

__task_queue(n, expire) ==
  \E m \in {[Unqueued(n) EXCEPT !.key[n] = expire]} :
    QueueBehindLast(m, LastWithout(n), n) \/ QueueFromRoot(m, LastWithout(n), n)

__task_unlink_wq(n) ==
  /\ task_in_wq(n)
  /\ mem' = __eb_delete(mem, n)
  /\ last_timer' = LastWithout(n)

TreeNext == \E n \in Node :
          __task_unlink_wq(n) \/ \E expire \in Expiry : __task_queue(n, expire)

TreeSpec == TreeInit /\ [][TreeNext]_treeVars

(***************************************************************************)
(* Properties                                                              *)
(***************************************************************************)

\* The entries in the order eb_first() and eb_next() visit them, at most
\* one more than there are, so that a cycle shows.
Walk ==
  LET from[n \in Node \cup {NIL}, left \in 0 .. Cardinality(Node) + 1] ==
        IF n = NIL \/ left = 0 THEN << >> ELSE <<n>> \o from[eb_next(mem, n), left - 1]
  IN  from[eb_first(mem), Cardinality(Node) + 1]

Queue == INSTANCE TimerQueue WITH Key <- Expiry, queue <- Walk, key <- mem.key

(* The tree behaves as the queue Scheduler takes it for: a walk visits the *)
(* timers by date, those of the same date in the order they were queued,   *)
(* whichever of the two ways (behind last_timer, or from the root) each    *)
(* came in (task.c:96-110, eb32tree.h:239-364, ebtree.h:687-775).          *)
ImplementsQueue == Queue!TQSpec

(* The reference: the entry at position i of a walk w, or NIL outside it,  *)
(* and the first and the last entry of w whose key lies in a set.          *)
Nth(w, i) == IF i \in DOMAIN w THEN w[i] ELSE NIL
FirstIn(w, keys) ==
  LET at == {i \in DOMAIN w : mem.key[w[i]] \in keys}
  IN  IF at = {} THEN NIL ELSE w[Min(at)]
LastIn(w, keys) ==
  LET at == {i \in DOMAIN w : mem.key[w[i]] \in keys}
  IN  IF at = {} THEN NIL ELSE w[Max(at)]
MaxKey == 2^KeyBits - 1

(* A lookup of any key, queued or not, finds what a scan of the queue      *)
(* finds: the first timer of the key, the last one at or before it, the    *)
(* first one at or after it.  wake_expired_tasks() starts from the latter  *)
(* (eb32tree.h:135-180, eb32tree.c:49-218, task.c:122).                    *)
LookupsAgree ==
  \E w \in {Walk} : \A x \in 0 .. MaxKey :
    /\ eb32_lookup(mem, x) = FirstIn(w, {x})
    /\ eb32_lookup_le(mem, x) = LastIn(w, 0 .. x)
    /\ eb32_lookup_ge(mem, x) = FirstIn(w, x .. MaxKey)

(* The walks agree with each other: eb_prev() undoes eb_next(), the walks  *)
(* over duplicates stay within one key, and those over unique keys skip    *)
(* to the nearest timer with another one (ebtree.h:547-681).               *)
WalksAgree ==
  \E w \in {Walk} :
    /\ eb_last(mem) = Nth(w, Len(w))
    /\ \A i \in DOMAIN w :
         LET k == mem.key[w[i]]
             dup(n) == IF n # NIL /\ mem.key[n] = k THEN n ELSE NIL
         IN  /\ eb_prev(mem, w[i]) = Nth(w, i - 1)
             /\ eb_next_dup(mem, w[i]) = dup(Nth(w, i + 1))
             /\ eb_prev_dup(mem, w[i]) = dup(Nth(w, i - 1))
             /\ eb_next_unique(mem, w[i]) = FirstIn(w, k + 1 .. MaxKey)
             /\ eb_prev_unique(mem, w[i]) = LastIn(w, 0 .. k - 1)

=============================================================================
