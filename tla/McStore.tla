------------------------------ MODULE McStore ------------------------------
(***************************************************************************)
(* The memcached handler's cache: items.c (reference-counted items on an   *)
(* LRU list) over assoc.c (a chained hash table that doubles one bucket at *)
(* a time).  Each C function is an operator on the record s of the cache's *)
(* static variables:                                                       *)
(*   item       every block of the heap: Free, or the item in it           *)
(*   primary, old, expanding, expand_bucket, hash_items          (assoc.c) *)
(*   size       hashsize(hashpower), the buckets of the primary table      *)
(*   lru        the list from heads to tails; curr_items is its counter    *)
(* An item's value is a sequence of units; the last one stands for CRLF.   *)
(* No command marks an item deleted or sets an expiry time or oldest_live, *)
(* so the delete-lock and lazy-expiry branches of the code are dead.       *)
(***************************************************************************)
EXTENDS Integers, FiniteSets, SequencesExt

CONSTANTS Key,        \* the keys
          HashOf,     \* the value of hash() on each key
          InitSize,   \* the initial hashsize(hashpower), a power of 2
          NoItem      \* the null pointer

(* Heap blocks, named by the key they were allocated for: besides the item *)
(* in the cache, one being read and one being joined are alive at a time.  *)
Item == Key \X (1..3)
Free == [key |-> "free"]
Junk == [op |-> "junk"]   \* a unit never written

ASSUME StoreAssumption ==
  /\ IsFiniteSet(Key) /\ Free.key \notin Key /\ NoItem \notin Item
  /\ HashOf \in [Key -> Nat]
  /\ InitSize \in Nat \ {0}

hash(k) == HashOf[k]

assoc_init ==
  [item |-> [i \in Item |-> Free], lru |-> <<>>, curr_items |-> 0,
   primary |-> [b \in 0..InitSize - 1 |-> <<>>], old |-> <<>>,
   size |-> InitSize, expanding |-> FALSE, expand_bucket |-> 0, hash_items |-> 0]

\* Mutant: the table being left is forgotten.
PlacePrimary(s, k) == [table |-> "primary", at |-> hash(k) % s.size]

(* hv & hashmask(hashpower) and, of the old table, hv & hashmask(hashpower - 1). *)
Bucket(s, k) == hash(k) % s.size
oldbucket(s, k) == hash(k) % (s.size \div 2)

(* The chain a key lives on: of the old table while its bucket has not     *)
(* been moved, of the primary table otherwise.                             *)
Place(s, k) ==
  IF s.expanding /\ oldbucket(s, k) >= s.expand_bucket
  THEN [table |-> "old", at |-> oldbucket(s, k)]
  ELSE [table |-> "primary", at |-> Bucket(s, k)]

Chain(s, p) == IF p.table = "old" THEN s.old[p.at] ELSE s.primary[p.at]
WithChain(s, p, c) ==
  IF p.table = "old" THEN [s EXCEPT !.old[p.at] = c] ELSE [s EXCEPT !.primary[p.at] = c]

(* _hashitem_before: where on chain c the first item with the key is, or   *)
(* one past the end.                                                       *)
HashitemBefore(s, c, k) ==
  CHOOSE i \in 1..Len(c) + 1 : /\ \A j \in 1..i - 1 : s.item[c[j]].key # k
                               /\ i <= Len(c) => s.item[c[i]].key = k

At(c, i) == IF i > Len(c) THEN NoItem ELSE c[i]
FindOn(s, c, k) == At(c, HashitemBefore(s, c, k))
assoc_find(s, k) == FindOn(s, Chain(s, Place(s, k)), k)

(* The loop of do_assoc_move_next_bucket: each item of chain c in turn is  *)
(* pushed on its chain of the primary table.                               *)
Push(s, table, it) == [table EXCEPT ![Bucket(s, s.item[it].key)] = Cons(it, @)]
Moved(s, c) ==
  LET after[n \in 0..Len(c)] == IF n = 0 THEN s.primary ELSE Push(s, after[n - 1], c[n])
  IN after[Len(c)]

MoveNextBucket(s) ==
  LET last == s.expand_bucket + 1 = s.size \div 2
  IN IF ~s.expanding THEN s
     ELSE [s EXCEPT !.primary = Moved(s, s.old[s.expand_bucket]),
                    !.old = IF last THEN <<>> ELSE [@ EXCEPT ![s.expand_bucket] = <<>>],
                    !.expand_bucket = @ + 1,
                    !.expanding = ~last]

(* mem: calloc() gave the bigger table; otherwise the old one stays.       *)
assoc_expand(s, mem) ==
  IF ~mem THEN s
  ELSE MoveNextBucket([s EXCEPT !.old = s.primary,
                                !.primary = [b \in 0..2 * s.size - 1 |-> <<>>],
                                !.size = 2 * @,
                                !.expanding = TRUE,
                                !.expand_bucket = 0])

Inserted(s, it) ==
  LET p == Place(s, s.item[it].key)
  IN [WithChain(s, p, Cons(it, Chain(s, p))) EXCEPT !.hash_items = @ + 1]
assoc_insert(s, it, mem) ==
  LET t == Inserted(s, it)
  IN IF ~s.expanding /\ t.hash_items > (s.size * 3) \div 2
     THEN assoc_expand(t, mem) ELSE t

assoc_delete(s, k) ==
  LET p == Place(s, k)
      c == Chain(s, p)
  IN [WithChain(s, p, RemoveAt(c, HashitemBefore(s, c, k))) EXCEPT !.hash_items = @ - 1]
-----------------------------------------------------------------------------
Without(q, it) == RemoveAt(q, CHOOSE j \in DOMAIN q : q[j] = it)

item_link_q(s, it) == [s EXCEPT !.lru = Cons(it, @)]

item_unlink_q(s, it) == [s EXCEPT !.lru = Without(@, it)]

item_free(s, it) == [s EXCEPT !.item[it] = Free]

FreeItem(s, k) == <<k, CHOOSE n \in 1..3 : s.item[<<k, n>>] = Free>>

(* do_item_alloc when malloc() succeeds (evict_to_free is 0: a failure is  *)
(* reported to the caller).  The data is whatever the block held: n units. *)
do_item_alloc(s, k, n) ==
  [s EXCEPT !.item[FreeItem(s, k)] =
     [key |-> k, data |-> [i \in 1..n |-> Junk], refcount |-> 1, linked |-> FALSE]]

do_item_link(s, it, mem) ==
  item_link_q([assoc_insert([s EXCEPT !.item[it].linked = TRUE], it, mem)
                 EXCEPT !.curr_items = @ + 1], it)

Unlinked(s, it) ==
  item_unlink_q(assoc_delete([s EXCEPT !.item[it].linked = FALSE, !.curr_items = @ - 1],
                             s.item[it].key), it)
FreeUnused(s, it) ==
  IF s.item[it].refcount = 0 /\ ~s.item[it].linked THEN item_free(s, it) ELSE s

do_item_unlink(s, it) ==
  IF s.item[it].linked THEN FreeUnused(Unlinked(s, it), it) ELSE s

do_item_remove(s, it) ==
  FreeUnused([s EXCEPT !.item[it].refcount = IF @ = 0 THEN 0 ELSE @ - 1], it)

(* idle: the item's time is older than ITEM_UPDATE_INTERVAL.               *)
do_item_update(s, it, idle) ==
  IF idle /\ s.item[it].linked THEN item_link_q(item_unlink_q(s, it), it) ELSE s

do_item_replace(s, it, newIt, mem) == do_item_link(do_item_unlink(s, it), newIt, mem)

(* do_item_get_notedeleted: assoc_find and one more reference.             *)
WithRef(s, it) ==
  [it |-> it, s |-> IF it = NoItem THEN s ELSE [s EXCEPT !.item[it].refcount = @ + 1]]
item_get(s, k) == WithRef(s, assoc_find(s, k))

Release(s, it) == IF it = NoItem THEN s ELSE do_item_remove(s, it)

Body(d) == SubSeq(d, 1, Len(d) - 1)
\* Mutant: append and prepend exchanged.
JoinedWrong(comm, oldData, data) ==
  IF comm = "append" THEN Body(data) \o oldData ELSE Body(oldData) \o data

Joined(comm, oldData, data) ==
  IF comm = "append" THEN Body(oldData) \o data ELSE Body(data) \o oldData

\* Mutant: the reference to the old item is not released.
PutLeaking(s, old, it, mem) ==
  IF old = NoItem THEN do_item_link(s, it, mem) ELSE do_item_replace(s, old, it, mem)

(* The last part of do_store_item: it takes the place of the old item.     *)
Put(s, old, it, mem) ==
  Release(IF old = NoItem THEN do_item_link(s, it, mem) ELSE do_item_replace(s, old, it, mem), old)

PutJoined(s, old, new, k, d, mem) ==
  do_item_remove(Put([do_item_alloc(s, k, Len(d)) EXCEPT !.item[new].data = d], old, new, mem), new)

(* do_store_item, with the old item found: env.alloc and env.table say     *)
(* whether malloc() of the joined item and calloc() of a bigger table      *)
(* succeed.                                                                *)
StoreOver(s, old, it, comm, env) ==
  LET k == s.item[it].key IN
  CASE comm = "add" /\ old # NoItem ->
         [s |-> Release(do_item_update(s, old, env.idle), old), stored |-> FALSE]
    [] comm \in {"replace", "append", "prepend"} /\ old = NoItem ->
         [s |-> s, stored |-> FALSE]
    [] comm \in {"append", "prepend"} /\ old # NoItem ->
         IF env.alloc
         THEN [s |-> PutJoined(s, old, FreeItem(s, k), k,
                               Joined(comm, s.item[old].data, s.item[it].data), env.table),
               stored |-> TRUE]
         ELSE [s |-> Release(s, old), stored |-> FALSE]
    [] OTHER -> [s |-> Put(s, old, it, env.table), stored |-> TRUE]

Over(g, it, comm, env) == StoreOver(g.s, g.it, it, comm, env)
do_store_item(s, it, comm, env) == Over(item_get(s, s.item[it].key), it, comm, env)
=============================================================================
