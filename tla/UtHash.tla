------------------------------ MODULE UtHash ------------------------------
(***************************************************************************)
(* uthash.h, the hash table under the session cookies (cookie.h) and the   *)
(* id counters (idzen.c): elements chained in buckets by hh_next/hh_prev   *)
(* and in the order of their insertion by next/prev, with the number of    *)
(* buckets doubled when a chain grows too long.  Each macro is an operator *)
(* on the record m of the memory it works on:                              *)
(*   m.head  the user's head pointer                                       *)
(*   m.tbl   the UT_hash_table, NoTable while there is none                *)
(*   m.hh    the UT_hash_handle of every element, Free outside the table   *)
(* The Jenkins hash is an arbitrary function of the key, chosen at the     *)
(* start.  Sorting, selecting, replacing and clearing have no caller.      *)
(***************************************************************************)
EXTENDS Integers, Sequences, FiniteSets, SequencesExt

CONSTANTS Elem,        \* the elements there is memory for
          Keys,        \* the keys
          HashFcns,    \* the hash functions considered, each in [Keys -> Nat]
          HASH_INITIAL_NUM_BUCKETS_LOG2,
          HASH_BKT_CAPACITY_THRESH,
          NoElem,
          MaxLog2,     \* bound: log2 of the most buckets a table grows to
          MaxId        \* bound: the largest id given out for a name

ASSUME UtHashAssumption ==
  /\ HASH_INITIAL_NUM_BUCKETS_LOG2 \in Nat
  /\ HASH_BKT_CAPACITY_THRESH \in Nat \ {0}
  /\ HashFcns \subseteq [Keys -> Nat]

VARIABLES user,        \* which table this is: "cookie_list" or "id_list"
          hash,        \* the hash function
          m            \* the memory

tableVars == <<user, hash, m>>

NoTable == [num_buckets |-> 0]
EmptyBucket == [hh_head |-> NoElem, count |-> 0, expand_mult |-> 0]
Free == [prev |-> NoElem, next |-> NoElem, hh_prev |-> NoElem, hh_next |-> NoElem,
         key |-> NoElem, hashv |-> 0, inc_id |-> 0]

InTable == {e \in Elem : m.hh[e] # Free}

(* What a walk along the pointers nxt from first meets: cut one past the   *)
(* number of elements, which only a cycle reaches.                         *)
PtrWalk(first, nxt) ==
  LET at[i \in 1..Cardinality(Elem) + 1] ==
        IF i = 1 THEN first ELSE IF at[i - 1] = NoElem THEN NoElem ELSE nxt[at[i - 1]]
  IN  SelectSeq([i \in 1..Cardinality(Elem) + 1 |-> at[i]], LAMBDA e : e # NoElem)

Chain(w, b) == PtrWalk(w.tbl.buckets[b].hh_head, [e \in Elem |-> w.hh[e].hh_next])
AppOrder(w) == PtrWalk(w.head, [e \in Elem |-> w.hh[e].next])

HASH_FCN(k) == hash[k]

HASH_TO_BKT(hashv, num_bkts) == hashv % num_bkts

HASH_MAKE_TABLE(e) ==
  [tail |-> e, num_buckets |-> 2^HASH_INITIAL_NUM_BUCKETS_LOG2,
   log2_num_buckets |-> HASH_INITIAL_NUM_BUCKETS_LOG2, num_items |-> 0,
   buckets |-> [b \in 0..2^HASH_INITIAL_NUM_BUCKETS_LOG2 - 1 |-> EmptyBucket],
   ideal_chain_maxlen |-> 0, nonideal_items |-> 0, ineff_expands |-> 0, noexpand |-> 0]

\* The element e is pushed on the chain that starts at first.
Push(hh, e, first) ==
  [x \in DOMAIN hh |-> CASE x = e -> [hh[x] EXCEPT !.hh_next = first, !.hh_prev = NoElem]
                         [] x = first /\ x # e -> [hh[x] EXCEPT !.hh_prev = e]
                         [] OTHER -> hh[x]]

\* Mutant: a crowded bucket keeps the default threshold after a doubling.
MoveElem_NoMult(a, e, ideal, num) ==
  LET b == HASH_TO_BKT(a.hh[e].hashv, num)
      bkt == a.buckets[b]
  IN  [buckets |-> [a.buckets EXCEPT ![b] =
         [hh_head |-> e, count |-> bkt.count + 1, expand_mult |-> bkt.expand_mult]],
       nonideal |-> a.nonideal + (IF bkt.count + 1 > ideal THEN 1 ELSE 0),
       hh |-> Push(a.hh, e, bkt.hh_head)]

\* Mutant: the new place is computed with the old number of buckets.
MoveElem_OldBkt(a, e, ideal, num) ==
  LET b == HASH_TO_BKT(a.hh[e].hashv, num \div 2)
      bkt == a.buckets[b]
  IN  [buckets |-> [a.buckets EXCEPT ![b] =
         [hh_head |-> e, count |-> bkt.count + 1,
          expand_mult |-> IF bkt.count + 1 > ideal THEN (bkt.count + 1) \div ideal
                          ELSE bkt.expand_mult]],
       nonideal |-> a.nonideal + (IF bkt.count + 1 > ideal THEN 1 ELSE 0),
       hh |-> Push(a.hh, e, bkt.hh_head)]

(* One element of an old chain moves to the head of its new one.           *)
MoveElem(a, e, ideal, num) ==
  LET b == HASH_TO_BKT(a.hh[e].hashv, num)
      bkt == a.buckets[b]
      count == bkt.count + 1
  IN  [buckets |-> [a.buckets EXCEPT ![b] =
         [hh_head |-> e, count |-> count,
          expand_mult |-> IF count > ideal THEN count \div ideal ELSE bkt.expand_mult]],
       nonideal |-> a.nonideal + (IF count > ideal THEN 1 ELSE 0),
       hh |-> Push(a.hh, e, bkt.hh_head)]

HASH_EXPAND_BUCKETS(w) ==
  LET t == w.tbl
      num == 2 * t.num_buckets
      ideal == t.num_items \div 2^(t.log2_num_buckets + 1)
                 + (IF t.num_items % num = 0 THEN 0 ELSE 1)
      order == FlattenSeq([i \in 1..t.num_buckets |-> Chain(w, i - 1)])
      moved == FoldLeft(LAMBDA a, e : MoveElem(a, e, ideal, num),
                        [buckets |-> [b \in 0..num - 1 |-> EmptyBucket],
                         nonideal |-> 0, hh |-> w.hh], order)
      ineff == IF moved.nonideal > t.num_items \div 2 THEN t.ineff_expands + 1 ELSE 0
  IN  [w EXCEPT !.hh = moved.hh,
         !.tbl = [t EXCEPT !.num_buckets = num, !.log2_num_buckets = @ + 1,
                           !.buckets = moved.buckets, !.ideal_chain_maxlen = ideal,
                           !.nonideal_items = moved.nonideal, !.ineff_expands = ineff,
                           !.noexpand = IF ineff > 1 THEN 1 ELSE @]]

HASH_ADD_TO_BKT(w, b, e) ==
  LET bkt == w.tbl.buckets[b]
      added == [w EXCEPT !.hh = Push(@, e, bkt.hh_head),
                         !.tbl.buckets[b] = [bkt EXCEPT !.hh_head = e, !.count = @ + 1]]
  IN  IF /\ bkt.count + 1 >= (bkt.expand_mult + 1) * HASH_BKT_CAPACITY_THRESH
         /\ w.tbl.noexpand # 1
      THEN HASH_EXPAND_BUCKETS(added) ELSE added

(* The element joins the order at its tail, then its bucket.               *)
HASH_ADD(w, k, e) ==
  LET tail == IF w.head = NoElem THEN NoElem ELSE w.tbl.tail
      hh == [w.hh EXCEPT ![e] = [Free EXCEPT !.prev = tail, !.key = k, !.hashv = HASH_FCN(k)]]
      tbl == IF w.head = NoElem THEN HASH_MAKE_TABLE(e) ELSE [w.tbl EXCEPT !.tail = e]
      queued == [head |-> IF w.head = NoElem THEN e ELSE w.head,
                 tbl |-> [tbl EXCEPT !.num_items = @ + 1],
                 hh |-> IF tail = NoElem THEN hh ELSE [hh EXCEPT ![tail].next = e]]
  IN  HASH_ADD_TO_BKT(queued, HASH_TO_BKT(HASH_FCN(k), tbl.num_buckets), e)

HASH_FIND(w, k) ==
  IF w.head = NoElem THEN NoElem
  ELSE LET chain == Chain(w, HASH_TO_BKT(HASH_FCN(k), w.tbl.num_buckets))
           found == {i \in 1..Len(chain) : w.hh[chain[i]].key = k}
       IN  IF found = {} THEN NoElem
           ELSE chain[CHOOSE i \in found : \A j \in found : i <= j]

\* Mutant: the element after the deleted one still points back to it.
HASH_DEL_IN_BKT_Half(w, b, e) ==
  LET d == w.hh[e] IN
  [w EXCEPT !.tbl.buckets[b].count = @ - 1,
            !.tbl.buckets[b].hh_head = IF @ = e THEN d.hh_next ELSE @,
            !.hh = [x \in DOMAIN @ |-> IF x = d.hh_prev THEN [@[x] EXCEPT !.hh_next = d.hh_next]
                                       ELSE @[x]]]

HASH_DEL_IN_BKT(w, b, e) ==
  LET d == w.hh[e] IN
  [w EXCEPT !.tbl.buckets[b].count = @ - 1,
            !.tbl.buckets[b].hh_head = IF @ = e THEN d.hh_next ELSE @,
            !.hh = [x \in DOMAIN @ |-> CASE x = d.hh_prev -> [@[x] EXCEPT !.hh_next = d.hh_next]
                                         [] x = d.hh_next -> [@[x] EXCEPT !.hh_prev = d.hh_prev]
                                         [] OTHER -> @[x]]]

(* The table goes with its last element.                                   *)
HASH_DELETE(w, e) ==
  LET d == w.hh[e]
      unlinked ==
        [w EXCEPT !.head = IF d.prev = NoElem THEN d.next ELSE @,
                  !.tbl.tail = IF @ = e THEN d.prev ELSE @,
                  !.hh = [x \in DOMAIN @ |-> CASE x = d.prev -> [@[x] EXCEPT !.next = d.next]
                                               [] x = d.next -> [@[x] EXCEPT !.prev = d.prev]
                                               [] OTHER -> @[x]]]
      left == HASH_DEL_IN_BKT(unlinked, HASH_TO_BKT(d.hashv, w.tbl.num_buckets), e)
  IN  IF d.prev = NoElem /\ d.next = NoElem
      THEN [head |-> NoElem, tbl |-> NoTable, hh |-> [w.hh EXCEPT ![e] = Free]]
      ELSE [left EXCEPT !.hh[e] = Free, !.tbl.num_items = @ - 1]

-----------------------------------------------------------------------------
TableInit == /\ user \in {"cookie_list", "id_list"}
        /\ hash \in HashFcns
        /\ m = [head |-> NoElem, tbl |-> NoTable, hh |-> [e \in Elem |-> Free]]

InBound(w) == w.tbl.num_buckets <= 2^MaxLog2

(* The random name of a new cookie is not looked up first: it may be one   *)
(* that is already there.                                                  *)
cookie_put_content(e, name) ==
  /\ user = "cookie_list" /\ e \notin InTable
  /\ m' = HASH_ADD(m, name, e)
  /\ InBound(m')
  /\ UNCHANGED <<user, hash>>

cookie_remove(name) ==
  /\ user = "cookie_list"
  /\ HASH_FIND(m, name) # NoElem
  /\ m' = HASH_DELETE(m, HASH_FIND(m, name))
  /\ UNCHANGED <<user, hash>>

(* The name's counter, made when there is none, is incremented and given.  *)
id_zen(name) ==
  /\ user = "id_list"
  /\ LET found == HASH_FIND(m, name) IN
     \/ /\ found # NoElem /\ m.hh[found].inc_id < MaxId
        /\ m' = [m EXCEPT !.hh[found].inc_id = @ + 1]
     \/ /\ found = NoElem
        /\ \E e \in Elem \ InTable : m' = [HASH_ADD(m, name, e) EXCEPT !.hh[e].inc_id = 1]
        /\ InBound(m')
  /\ UNCHANGED <<user, hash>>

TableNext == \E name \in Keys : \/ \E e \in Elem : cookie_put_content(e, name)
                           \/ cookie_remove(name)
                           \/ id_zen(name)

TableSpec == TableInit /\ [][TableNext]_tableVars

-----------------------------------------------------------------------------
Mirrored(seq, back) ==
  \A i \in 1..Len(seq) : back[seq[i]] = IF i = 1 THEN NoElem ELSE seq[i - 1]

(* The table's own integrity check, compiled in with HASH_DEBUG.           *)
HASH_FSCK(w) ==
  w.head # NoElem =>
    LET buckets == 0..w.tbl.num_buckets - 1
        chains == [b \in buckets |-> Chain(w, b)]
    IN  /\ \A b \in buckets : /\ Mirrored(chains[b], [e \in Elem |-> w.hh[e].hh_prev])
                              /\ w.tbl.buckets[b].count = Len(chains[b])
        /\ Len(FlattenSeq([i \in 1..w.tbl.num_buckets |-> chains[i - 1]])) = w.tbl.num_items
        /\ Mirrored(AppOrder(w), [e \in Elem |-> w.hh[e].prev])
        /\ Len(AppOrder(w)) = w.tbl.num_items

(* The integrity check of the code would pass after every addition and     *)
(* deletion, doublings included, and the table's tail is the last element  *)
(* of the insertion order (HASH_ADD_KEYPTR, HASH_DELETE).                  *)
Fsck == /\ HASH_FSCK(m)
        /\ m.head # NoElem => m.tbl.tail = Last(AppOrder(m))

(* HASH_FIND finds an element for a key exactly when the insertion order   *)
(* holds one with that key, whatever doublings and deletions came between; *)
(* a name of the id table is never there twice, or its ids would start     *)
(* again (idzen.c).                                                        *)
FindsAll ==
  \A k \in Keys :
    LET holders == {e \in InTable : m.hh[e].key = k} IN
    /\ \E e \in holders \cup {NoElem} : HASH_FIND(m, k) = e /\ (e = NoElem => holders = {})
    /\ user = "id_list" => Cardinality(holders) <= 1

(* What uthash.h says of bucket expansion: it "keeps a bound on the chain  *)
(* length", and a crowded bucket grows to "a longer yet-still-bounded      *)
(* value".  Until the table gives up expanding, no chain is longer than    *)
(* its bucket's multiple of the threshold, or of the ideal length at the   *)
(* last doubling where that is more.                                       *)
ChainsBounded ==
  m.head # NoElem /\ m.tbl.noexpand = 0 =>
    \A b \in 0..m.tbl.num_buckets - 1 :
      m.tbl.buckets[b].count
        <= (m.tbl.buckets[b].expand_mult + 1)
             * Max({HASH_BKT_CAPACITY_THRESH, m.tbl.ideal_chain_maxlen})
=============================================================================
