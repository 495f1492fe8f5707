-------------------------- MODULE MemcachedProofs --------------------------
(***************************************************************************)
(* Proofs about Memcached for any keys, hash function, table size, buffer  *)
(* size, connections and requests: the reference counts, the hash table    *)
(* during an expansion, and the store the clients see.                     *)
(***************************************************************************)
EXTENDS Memcached, FiniteSetTheorems, SequenceTheorems, NaturalsInduction, WellFoundedInduction, TLAPS

----------------------------------------------------------------------------
(* The inductive invariant.                                                *)

Members(q) == {q[i] : i \in 1 .. Len(q)}
NoDup(q) == \A i, j \in 1 .. Len(q) : q[i] = q[j] => i = j

LinkedIn(t) == {i \in Item : t.item[i] # Free /\ t.item[i].linked}

Value == {d \in Seq(Unit) : d # <<>>}
ItemRec == [key : Key, data : Value, refcount : Nat, linked : BOOLEAN]

Fields(t) ==
  t = [item |-> t.item, lru |-> t.lru, curr_items |-> t.curr_items, primary |-> t.primary,
       old |-> t.old, size |-> t.size, expanding |-> t.expanding,
       expand_bucket |-> t.expand_bucket, hash_items |-> t.hash_items]

\* The two tables, and how far the expansion has come.
Tabled(t) ==
  /\ t.size \in Nat \ {0} /\ t.expanding \in BOOLEAN
  /\ t.primary \in [0 .. t.size - 1 -> Seq(Item)]
  /\ IF t.expanding
     THEN /\ t.expand_bucket \in 0 .. (t.size \div 2) - 1
          /\ t.old \in [0 .. (t.size \div 2) - 1 -> Seq(Item)]
     ELSE t.old = <<>>

\* A block holds an item of the key it was allocated for.
Heap(t) ==
  /\ t.item \in [Item -> ItemRec \cup {Free}]
  /\ \A i \in Item : t.item[i] # Free => t.item[i].key = i[1]

\* The old table is the place of key k; the items in L whose chain is b of the
\* one table or the other.
InOld(t, k) == t.expanding /\ oldbucket(t, k) >= t.expand_bucket
OnOld(t, L, b) == {i \in L : InOld(t, i[1]) /\ oldbucket(t, i[1]) = b}
OnPrimary(t, L, b) == {i \in L : ~InOld(t, i[1]) /\ Bucket(t, i[1]) = b}

\* A chain holds the items in L whose key's place it is, each once.
ChainsOf(t, L) ==
  /\ \A b \in DOMAIN t.primary :
       NoDup(t.primary[b]) /\ Members(t.primary[b]) = OnPrimary(t, L, b)
  /\ \A b \in DOMAIN t.old : NoDup(t.old[b]) /\ Members(t.old[b]) = OnOld(t, L, b)

\* The items in L have different keys.
Unique(L) == \A i, j \in L : i[1] = j[1] => i = j

Chains(t) == ChainsOf(t, LinkedIn(t)) /\ Unique(LinkedIn(t))

\* The LRU list holds the linked items, each once.
Listed(t) ==
  /\ t.lru \in Seq(Item) /\ NoDup(t.lru) /\ Members(t.lru) = LinkedIn(t)
  /\ Len(t.lru) = Cardinality(LinkedIn(t))
  /\ t.curr_items = Cardinality(LinkedIn(t)) /\ t.hash_items = Cardinality(LinkedIn(t))

\* The items in H have one reference, the others none; only they and the linked
\* ones are in memory.
Held(t, H) ==
  /\ H \subseteq Item
  /\ \A i \in Item : /\ t.item[i] # Free <=> i \in LinkedIn(t) \cup H
                     /\ t.item[i] # Free => t.item[i].refcount = IF i \in H THEN 1 ELSE 0

CacheInv(t, H) == Fields(t) /\ Tabled(t) /\ Heap(t) /\ Chains(t) /\ Listed(t) /\ Held(t, H)

\* A connection's record; one that is read from has no answer to send.
ConnRec(x) ==
  x = [state |-> x.state, ib |-> x.ib, ob |-> x.ob, rd |-> x.rd, wr |-> x.wr,
       item |-> x.item, ritem |-> x.ritem, rlbytes |-> x.rlbytes, item_comm |-> x.item_comm]
Open(x) ==
  /\ ConnRec(x)
  /\ x.state \in {"conn_read", "conn_nread", "conn_closing"}
  /\ x.ib \in [buff : Seq(Unit), curr : Nat] /\ x.ib.curr <= Len(x.ib.buff)
  /\ x.rd \in BOOLEAN /\ x.wr = ~x.rd /\ (x.rd => x.ob = <<>>)
  /\ x.ritem \in Nat /\ x.rlbytes \in Nat
  /\ x.item \in Item \cup {NoItem} /\ x.item_comm \in Update \cup {"none"}

\* A connection outside mc_read(), and the one mc_read() is in.
Idle(x) == x = Closed \/ (Open(x) /\ x.item = NoItem /\ (x.rd => x.state = "conn_read"))
Reading(x) ==
  /\ Open(x) /\ x.rd
  /\ x.state = "conn_read" => x.item = NoItem
  /\ x.state = "conn_nread" => x.item # NoItem /\ x.item_comm \in Update

Conns ==
  /\ busy \in Conn \cup {Nobody}
  /\ conn = [c \in Conn |-> conn[c]]
  /\ \A c \in Conn : IF c = busy THEN Reading(conn[c]) ELSE Idle(conn[c])

\* The item that is held: only the connection mc_read() is in may have one.
HeldBy(x) == IF x.item = NoItem THEN {} ELSE {x.item}
HeldNow == IF busy = Nobody THEN {} ELSE HeldBy(conn[busy])

Streams == wire \in [Conn -> Seq(Unit)] /\ sock \in [Conn -> Seq(Unit)]

\* An item being read is not in the cache yet.
MemcachedInv ==
  /\ CacheInv(s, HeldNow) /\ HeldNow \cap LinkedIn(s) = {}
  /\ Conns /\ Streams

----------------------------------------------------------------------------
(* The units.                                                              *)

\* What clients send: commands, bytes and line ends, in a sequence.
Plain == Command \cup Byte \cup {NL}

LEMMA RequestSeq == \A r \in Request : r \in Seq(Plain)
<1>1. NL \in Plain /\ Command \subseteq Plain /\ Byte \subseteq Plain
  BY DEF Plain
<1>2. ASSUME NEW cmd \in Command PROVE <<cmd, NL>> \in Seq(Plain)
  BY <1>1
<1>3. ASSUME NEW cmd \in Command, NEW n \in 0 .. MaxVlen, NEW v \in [1 .. n -> Byte]
      PROVE  <<cmd, NL>> \o v \o <<NL>> \in Seq(Plain)
  <2>1. n \in Nat
    BY MemcachedAssumption
  <2>2. v \in Seq(Plain)
    <3>1. \A i \in 1 .. n : v[i] \in Plain
      BY <1>1
    <3> QED
      BY <2>1, <3>1
  <2>3. <<NL>> \in Seq(Plain) /\ <<cmd, NL>> \in Seq(Plain)
    BY <1>1, <1>2
  <2> QED
    BY <2>2, <2>3
<1> SUFFICES ASSUME NEW r \in Request PROVE r \in Seq(Plain)
  OBVIOUS
<1>4. CASE r \in {<<cmd, NL>> : cmd \in {x \in Command : x.op \notin Update}}
  <2>1. PICK cmd \in {x \in Command : x.op \notin Update} : r = <<cmd, NL>>
    BY <1>4
  <2> QED
    BY <1>2, <2>1
<1> DEFINE W(cmd, v) == <<cmd, NL>> \o v \o <<NL>>
<1>5. CASE r \in {W(cmd, v) : cmd \in {x \in Command : x.op \in Update},
                             v \in UNION {[1..n -> Byte] : n \in 0..MaxVlen}}
  <2>1. \A cmd \in Command : \A n \in 0 .. MaxVlen : \A v \in [1 .. n -> Byte] : W(cmd, v) \in Seq(Plain)
    BY <1>3
  <2> HIDE DEF W
  <2>2. PICK cmd \in {x \in Command : x.op \in Update},
             v \in UNION {[1..n -> Byte] : n \in 0..MaxVlen} : r = W(cmd, v)
    BY <1>5
  <2>3. PICK n \in 0 .. MaxVlen : v \in [1 .. n -> Byte]
    OBVIOUS
  <2>4. cmd \in Command
    OBVIOUS
  <2>5. W(cmd, v) \in Seq(Plain)
    BY <2>1, <2>3, <2>4
  <2> QED
    BY <2>2, <2>5
<1> DEFINE A == {<<cmd, NL>> : cmd \in {c \in Command : c.op \notin Update}}
           B == {W(cmd, v) : cmd \in {c \in Command : c.op \in Update},
                             v \in UNION {[1..n -> Byte] : n \in 0..MaxVlen}}
<1>6. Request = A \cup B
  BY DEF Request
<1>7. r \in A => r \in Seq(Plain)
  BY <1>4
<1>8. r \in B => r \in Seq(Plain)
  <2> HIDE DEF W
  <2> QED
    BY <1>5
<1> HIDE DEF A, B
<1> QED
  BY <1>6, <1>7, <1>8

\* What the constant Requests makes the units.
LEMMA UnitFacts ==
  /\ Unit \subseteq Command \cup Byte \cup {NL, Junk}
  /\ NL \in Unit /\ Junk \in Unit
  /\ \A r \in Requests : r \in Seq(Unit) /\ r \in Seq(Plain)
<1>1. \A r \in Requests : r \in Seq(Plain)
  BY RequestSeq, MemcachedAssumption
<1> DEFINE U == UNION {UnitsOf(r) : r \in Requests}
<1>2. Unit = {NL, Junk} \cup U
  BY DEF Unit
<1>3. \A x : x \in U <=> \E r \in Requests : x \in UnitsOf(r)
  OBVIOUS
<1> HIDE DEF U
<1>4. ASSUME NEW r \in Requests PROVE r \in Seq(Unit) /\ UnitsOf(r) \subseteq Plain
  <2> DEFINE n == Len(r)
  <2>1. n \in Nat /\ DOMAIN r = 1 .. n /\ r = [i \in 1 .. n |-> r[i]] /\ \A i \in 1 .. n : r[i] \in Plain
    BY <1>1
  <2>2. \A i \in 1 .. n : r[i] \in U
    BY <1>3, <2>1 DEF UnitsOf
  <2> HIDE DEF n
  <2> QED
    BY <1>2, <2>1, <2>2 DEF UnitsOf
<1>5. U \subseteq Plain
  BY <1>3, <1>4
<1> QED
  BY <1>1, <1>2, <1>4, <1>5 DEF Plain

----------------------------------------------------------------------------
(* Sequences, as sets of members without duplicates, and induction.        *)

\* A sequence without its element at i.
LEMMA RemoveAtFacts ==
  ASSUME NEW S, NEW v \in Seq(S), NEW i \in 1 .. Len(v)
  PROVE  /\ RemoveAt(v, i) \in Seq(S) /\ Len(RemoveAt(v, i)) = Len(v) - 1
         /\ \A k \in 1 .. Len(v) - 1 : RemoveAt(v, i)[k] = IF k < i THEN v[k] ELSE v[k + 1]
<1> DEFINE n == Len(v)
           a == SubSeq(v, 1, i - 1)
           b == SubSeq(v, i + 1, n)
<1>1. n \in Nat /\ i \in Nat /\ 1 <= i /\ i <= n /\ \A k \in 1 .. n : v[k] \in S
  OBVIOUS
<1> HIDE DEF n
<1>2. /\ a \in Seq(S) /\ Len(a) = i - 1
      /\ \A k \in 1 .. i - 1 : a[k] = v[k]
  <2>1. \A k \in 1 .. i - 1 : v[k] \in S
    BY <1>1
  <2>2. /\ a \in Seq(S) /\ Len(a) = IF 1 <= i - 1 THEN i - 1 - 1 + 1 ELSE 0
        /\ \A k \in 1 .. i - 1 - 1 + 1 : a[k] = v[1 + k - 1]
    <3>1. 1 \in Int /\ i - 1 \in Int
      BY <1>1
    <3> QED
      BY <2>1, <3>1, SubSeqProperties
  <2>3. i - 1 - 1 + 1 = i - 1 /\ \A k \in 1 .. i - 1 : 1 + k - 1 = k
    BY <1>1
  <2> QED
    BY <1>1, <2>2, <2>3
<1>3. /\ b \in Seq(S) /\ Len(b) = n - i
      /\ \A k \in 1 .. n - i : b[k] = v[i + k]
  <2>1. \A k \in i + 1 .. n : v[k] \in S
    BY <1>1
  <2>2. /\ b \in Seq(S) /\ Len(b) = IF i + 1 <= n THEN n - (i + 1) + 1 ELSE 0
        /\ \A k \in 1 .. n - (i + 1) + 1 : b[k] = v[(i + 1) + k - 1]
    <3>1. i + 1 \in Int /\ n \in Int
      BY <1>1
    <3> QED
      BY <2>1, <3>1, SubSeqProperties
  <2>3. n - (i + 1) + 1 = n - i /\ \A k \in 1 .. n - i : (i + 1) + k - 1 = i + k
    BY <1>1
  <2> QED
    BY <1>1, <2>2, <2>3
<1>4. RemoveAt(v, i) = a \o b
  BY DEF RemoveAt, n
<1> HIDE DEF a, b
<1>5. /\ a \o b \in Seq(S) /\ Len(a \o b) = Len(a) + Len(b)
      /\ \A k \in 1 .. Len(a) + Len(b) :
           (a \o b)[k] = IF k <= Len(a) THEN a[k] ELSE b[k - Len(a)]
  BY <1>2, <1>3, ConcatProperties
<1>6. Len(a) + Len(b) = n - 1
  BY <1>1, <1>2, <1>3
<1>7. ASSUME NEW k \in 1 .. n - 1
      PROVE  (a \o b)[k] = IF k < i THEN v[k] ELSE v[k + 1]
  <2>1. CASE k < i
    <3>1. k <= i - 1 /\ k \in 1 .. i - 1
      BY <1>1, <2>1
    <3>2. (a \o b)[k] = a[k]
      BY <1>2, <1>5, <1>6, <3>1
    <3> QED
      BY <1>2, <2>1, <3>1, <3>2
  <2>2. CASE ~ (k < i)
    <3>1. ~ (k <= i - 1) /\ k - (i - 1) \in 1 .. n - i /\ i + (k - (i - 1)) = k + 1
      BY <1>1, <2>2
    <3>2. (a \o b)[k] = b[k - (i - 1)]
      BY <1>2, <1>5, <1>6, <3>1
    <3> QED
      BY <1>3, <2>2, <3>1, <3>2
  <2> QED
    BY <2>1, <2>2
<1> QED
  BY <1>4, <1>5, <1>6, <1>7 DEF n

\* A set of naturals that is not empty has a least member.
LEMMA LeastNatural ==
  ASSUME NEW S, S \subseteq Nat, S # {}
  PROVE  \E m \in S : \A k \in S : m <= k
<1> DEFINE Less == OpToRel(<, Nat)
<1>1. PICK m \in S : \A k \in S : ~ (<<k, m>> \in Less)
  <2>1. IsWellFoundedOn(Less, Nat)
    BY NatLessThanWellFounded
  <2> HIDE DEF Less
  <2> QED
    BY <2>1, WFMin
<1>2. \A k \in S : <<k, m>> \in Nat \X Nat /\ (k < m => <<k, m>> \in Less)
  BY DEF OpToRel
<1>3. \A k \in S : m <= k
  <2> HIDE DEF Less
  <2> SUFFICES ASSUME NEW k \in S PROVE ~ (k < m)
    OBVIOUS
  <2> QED
    BY <1>1, <1>2
<1> QED
  BY <1>3

\* Induction over the indices 0 .. n, with the indices it holds of as a set.
LEMMA IndexInduction ==
  ASSUME NEW n \in Nat, NEW T, 0 \in T,
         \A i \in 0 .. n : i # 0 /\ i - 1 \in T => i \in T
  PROVE  \A i \in 0 .. n : i \in T
<1> SUFFICES ASSUME NEW i \in 0 .. n, i \notin T PROVE FALSE
  OBVIOUS
<1> DEFINE S == {j \in 0 .. n : j \notin T}
<1>1. PICK m \in S : \A k \in S : m <= k
  <2>1. S \subseteq Nat /\ S # {}
    OBVIOUS
  <2> HIDE DEF S
  <2> QED
    BY <2>1, LeastNatural
<1>2. m \in 0 .. n /\ m \notin T /\ m # 0
  BY <1>1
<1>3. m - 1 \in 0 .. n /\ ~ (m <= m - 1)
  BY <1>2
<1>4. m - 1 \in T
  BY <1>1, <1>3
<1> QED
  BY <1>2, <1>4

\* What pushing an item on a chain does.
LEMMA ConsFacts ==
  ASSUME NEW S, NEW q \in Seq(S), NEW x \in S, x \notin Members(q), NoDup(q)
  PROVE  /\ Cons(x, q) \in Seq(S) /\ Len(Cons(x, q)) = Len(q) + 1
         /\ NoDup(Cons(x, q)) /\ Members(Cons(x, q)) = Members(q) \cup {x}
<1> DEFINE n == Len(q)
           r == Cons(x, q)
<1>1. n \in Nat /\ r \in Seq(S) /\ Len(r) = n + 1 /\ r[1] = x /\ \A k \in 1 .. n : r[k + 1] = q[k]
  <2>1. <<x>> \in Seq(S) /\ Len(<<x>>) = 1 /\ <<x>>[1] = x /\ n \in Nat
    OBVIOUS
  <2>2. /\ r \in Seq(S) /\ Len(r) = Len(<<x>>) + Len(q)
        /\ \A i \in 1 .. Len(<<x>>) + Len(q) :
             r[i] = IF i <= Len(<<x>>) THEN <<x>>[i] ELSE q[i - Len(<<x>>)]
    BY <2>1, ConcatProperties DEF Cons
  <2> HIDE DEF r
  <2>3. Len(<<x>>) + Len(q) = n + 1 /\ 1 \in 1 .. n + 1
    BY <2>1
  <2>4. \A k \in 1 .. n : k + 1 \in 1 .. n + 1 /\ ~ (k + 1 <= 1) /\ k + 1 - 1 = k
    BY <2>1
  <2> QED
    BY <2>1, <2>2, <2>3, <2>4
<1> HIDE DEF r, n
<1>2. \A i \in 1 .. n + 1 : i = 1 \/ \E k \in 1 .. n : i = k + 1
  <2>1. ASSUME NEW i \in 1 .. n + 1, i # 1 PROVE i - 1 \in 1 .. n /\ i = (i - 1) + 1
    BY <1>1, <2>1
  <2> QED
    BY <2>1
<1>3. Members(r) = Members(q) \cup {x}
  <2>1. 1 \in 1 .. n + 1 /\ \A k \in 1 .. n : k + 1 \in 1 .. n + 1
    BY <1>1
  <2>2. Members(r) = {r[i] : i \in 1 .. n + 1} /\ Members(q) = {q[i] : i \in 1 .. n}
    BY <1>1 DEF Members, n
  <2>3. ASSUME NEW i \in 1 .. n + 1 PROVE r[i] \in Members(q) \cup {x}
    <3>1. CASE i = 1
      BY <1>1, <3>1
    <3>2. CASE i # 1
      <4>1. PICK k \in 1 .. n : i = k + 1
        BY <1>2, <3>2
      <4>2. r[i] = q[k]
        BY <1>1, <4>1
      <4> QED
        BY <2>2, <4>2
    <3> QED
      BY <3>1, <3>2
  <2>4. x \in Members(r) /\ \A k \in 1 .. n : q[k] \in Members(r)
    BY <1>1, <2>1, <2>2
  <2> QED
    BY <2>2, <2>3, <2>4
<1>4. NoDup(r)
  <2> SUFFICES ASSUME NEW i \in 1 .. n + 1, NEW j \in 1 .. n + 1, r[i] = r[j] PROVE i = j
    BY <1>1 DEF NoDup
  <2>1. \A k \in 1 .. n : r[k + 1] # x
    BY <1>1 DEF Members, n
  <2>2. CASE i = 1 \/ j = 1
    BY <1>1, <1>2, <2>1, <2>2
  <2>3. CASE ~ (i = 1 \/ j = 1)
    <3>1. PICK k \in 1 .. n, l \in 1 .. n : i = k + 1 /\ j = l + 1
      BY <1>2, <2>3
    <3>2. q[k] = q[l]
      BY <1>1, <3>1
    <3>3. k = l
      BY <3>2 DEF NoDup, n
    <3> QED
      BY <3>1, <3>3
  <2> QED
    BY <2>2, <2>3
<1> QED
  BY <1>1, <1>3, <1>4 DEF r, n

\* What removing the item at i does.
LEMMA RemoveFacts ==
  ASSUME NEW S, NEW q \in Seq(S), NEW i \in 1 .. Len(q), NoDup(q)
  PROVE  /\ RemoveAt(q, i) \in Seq(S) /\ Len(RemoveAt(q, i)) = Len(q) - 1
         /\ NoDup(RemoveAt(q, i)) /\ Members(RemoveAt(q, i)) = Members(q) \ {q[i]}
<1> DEFINE n == Len(q)
           r == RemoveAt(q, i)
<1>1. /\ n \in Nat /\ i \in 1 .. n /\ r \in Seq(S) /\ Len(r) = n - 1
      /\ \A k \in 1 .. n - 1 : r[k] = IF k < i THEN q[k] ELSE q[k + 1]
  BY RemoveAtFacts
<1>2. \A k, l \in 1 .. n : q[k] = q[l] => k = l
  BY DEF NoDup
<1> DEFINE F(k) == IF k < i THEN k ELSE k + 1
<1>3. \A k \in 1 .. n - 1 : F(k) \in 1 .. n /\ F(k) # i /\ r[k] = q[F(k)]
  BY <1>1
<1>4. \A k, l \in 1 .. n - 1 : F(k) = F(l) => k = l
  BY <1>1
<1>5. \A m \in 1 .. n : m # i => \E k \in 1 .. n - 1 : F(k) = m
  <2> SUFFICES ASSUME NEW m \in 1 .. n, m # i PROVE \E k \in 1 .. n - 1 : F(k) = m
    OBVIOUS
  <2>1. CASE m < i
    <3>1. m \in 1 .. n - 1 /\ F(m) = m
      BY <1>1, <2>1
    <3> QED
      BY <3>1
  <2>2. CASE ~ (m < i)
    <3>1. m - 1 \in 1 .. n - 1 /\ F(m - 1) = m
      BY <1>1, <2>2
    <3> QED
      BY <3>1
  <2> QED
    BY <2>1, <2>2
<1> HIDE DEF F, n, r
<1>6. NoDup(r)
  <2> SUFFICES ASSUME NEW k \in 1 .. n - 1, NEW l \in 1 .. n - 1, r[k] = r[l] PROVE k = l
    BY <1>1 DEF NoDup
  <2>1. F(k) = F(l)
    BY <1>2, <1>3
  <2> QED
    BY <1>4, <2>1
<1>7. Members(r) = Members(q) \ {q[i]}
  <2>1. \A x \in Members(r) : x \in Members(q) \ {q[i]}
    BY <1>1, <1>2, <1>3 DEF Members, n
  <2>2. \A x \in Members(q) \ {q[i]} : x \in Members(r)
    <3> SUFFICES ASSUME NEW m \in 1 .. n, q[m] # q[i] PROVE \E k \in 1 .. n - 1 : r[k] = q[m]
      BY <1>1 DEF Members, n
    <3>1. PICK k \in 1 .. n - 1 : F(k) = m
      BY <1>5
    <3> QED
      BY <1>3, <3>1
  <2> QED
    BY <2>1, <2>2
<1> QED
  BY <1>1, <1>6, <1>7 DEF n, r

----------------------------------------------------------------------------
(* The hash table (assoc.c), with any set L of items on its chains.        *)

LEMMA ModRange ==
  ASSUME NEW n \in Nat, NEW m \in Nat \ {0} PROVE n % m \in 0 .. m - 1
OBVIOUS

\* The place of a key is a bucket of its table.
LEMMA PlaceFacts ==
  ASSUME NEW t, Tabled(t), NEW k \in Key
  PROVE  /\ Bucket(t, k) \in 0 .. t.size - 1 /\ InOld(t, k) \in BOOLEAN
         /\ t.expanding => oldbucket(t, k) \in 0 .. (t.size \div 2) - 1
         /\ InOld(t, k) => Place(t, k) = [table |-> "old", at |-> oldbucket(t, k)]
         /\ ~InOld(t, k) => Place(t, k) = [table |-> "primary", at |-> Bucket(t, k)]
<1>1. hash(k) \in Nat
  BY StoreAssumption DEF hash
<1>2. Bucket(t, k) \in 0 .. t.size - 1
  BY <1>1, ModRange DEF Bucket, Tabled
<1>3. ASSUME t.expanding PROVE oldbucket(t, k) \in 0 .. (t.size \div 2) - 1
  <2>1. t.size \div 2 \in Nat \ {0}
    BY <1>3 DEF Tabled
  <2> QED
    BY <1>1, <2>1, ModRange DEF oldbucket
<1> QED
  BY <1>2, <1>3 DEF Place, InOld

\* _hashitem_before() finds the one item on a chain that has the key ...
LEMMA BeforeFound ==
  ASSUME NEW u, NEW c, Len(c) \in Nat, NEW k, NEW h \in 1 .. Len(c),
         \A j \in 1 .. Len(c) : u.item[c[j]].key = k <=> j = h
  PROVE  HashitemBefore(u, c, k) = h
<1> DEFINE P(i) == /\ \A j \in 1 .. i - 1 : u.item[c[j]].key # k
                   /\ i <= Len(c) => u.item[c[i]].key = k
<1>1. h \in 1 .. Len(c) + 1 /\ P(h)
  <2>1. \A j \in 1 .. h - 1 : j \in 1 .. Len(c) /\ j # h
    OBVIOUS
  <2> QED
    BY <2>1
<1>2. ASSUME NEW i \in 1 .. Len(c) + 1, P(i) PROVE i = h
  <2>1. ~ (h \in 1 .. i - 1)
    BY <1>2
  <2>2. i <= Len(c)
    BY <1>2, <2>1
  <2> QED
    BY <1>2, <2>2
<1>3. HashitemBefore(u, c, k) = CHOOSE i \in 1 .. Len(c) + 1 : P(i)
  BY DEF HashitemBefore
<1> HIDE DEF P
<1> QED
  BY <1>1, <1>2, <1>3

\* ... or the end of the chain.
LEMMA BeforeMissing ==
  ASSUME NEW u, NEW c, Len(c) \in Nat, NEW k,
         \A j \in 1 .. Len(c) : u.item[c[j]].key # k
  PROVE  HashitemBefore(u, c, k) = Len(c) + 1
<1> DEFINE P(i) == /\ \A j \in 1 .. i - 1 : u.item[c[j]].key # k
                   /\ i <= Len(c) => u.item[c[i]].key = k
<1>1. Len(c) + 1 \in 1 .. Len(c) + 1 /\ P(Len(c) + 1)
  OBVIOUS
<1>2. ASSUME NEW i \in 1 .. Len(c) + 1, P(i) PROVE i = Len(c) + 1
  <2>1. ~ (i <= Len(c))
    BY <1>2
  <2> QED
    BY <2>1
<1>3. HashitemBefore(u, c, k) = CHOOSE i \in 1 .. Len(c) + 1 : P(i)
  BY DEF HashitemBefore
<1> HIDE DEF P
<1> QED
  BY <1>1, <1>2, <1>3

\* The chain of a key.
LEMMA ChainFacts ==
  ASSUME NEW t, Tabled(t), NEW L, ChainsOf(t, L), NEW k \in Key
  PROVE  LET c == Chain(t, Place(t, k))
         IN  /\ c \in Seq(Item) /\ NoDup(c) /\ Len(c) \in Nat
             /\ c = IF InOld(t, k) THEN t.old[oldbucket(t, k)] ELSE t.primary[Bucket(t, k)]
             /\ \A i \in Members(c) : i \in L
             /\ \A i \in L : i[1] = k => i \in Members(c)
<1> DEFINE c == Chain(t, Place(t, k))
<1>1. CASE InOld(t, k)
  <2>1. c = t.old[oldbucket(t, k)]
    BY <1>1, PlaceFacts DEF Chain
  <2>2. oldbucket(t, k) \in DOMAIN t.old /\ c \in Seq(Item)
    BY <1>1, <2>1, PlaceFacts DEF Tabled, InOld
  <2>3. NoDup(c) /\ Members(c) = OnOld(t, L, oldbucket(t, k))
    BY <2>1, <2>2 DEF ChainsOf
  <2> QED
    BY <1>1, <2>1, <2>2, <2>3 DEF OnOld
<1>2. CASE ~InOld(t, k)
  <2>1. c = t.primary[Bucket(t, k)]
    BY <1>2, PlaceFacts DEF Chain
  <2>2. Bucket(t, k) \in DOMAIN t.primary /\ c \in Seq(Item)
    BY <1>2, <2>1, PlaceFacts DEF Tabled
  <2>3. NoDup(c) /\ Members(c) = OnPrimary(t, L, Bucket(t, k))
    BY <2>1, <2>2 DEF ChainsOf
  <2> QED
    BY <1>2, <2>1, <2>2, <2>3 DEF OnPrimary
<1> QED
  BY <1>1, <1>2, PlaceFacts

\* Where the chain of key k has the item in L that has the key.
LEMMA WhereOnChain ==
  ASSUME NEW t, Tabled(t), NEW L \in SUBSET Item, ChainsOf(t, L), Unique(L),
         \A i \in L : t.item[i].key = i[1], NEW it \in L
  PROVE  LET c == Chain(t, Place(t, it[1]))
             h == HashitemBefore(t, c, it[1])
         IN  h \in 1 .. Len(c) /\ c[h] = it
<1> DEFINE k == it[1]
           c == Chain(t, Place(t, k))
<1>1. k \in Key
  BY DEF Item
<1>2. /\ Len(c) \in Nat /\ NoDup(c) /\ it \in Members(c)
      /\ \A i \in Members(c) : i \in L
  BY <1>1, ChainFacts
<1> HIDE DEF c
<1>3. PICK h \in 1 .. Len(c) : c[h] = it
  BY <1>2 DEF Members
<1>4. ASSUME NEW j \in 1 .. Len(c) PROVE t.item[c[j]].key = k <=> j = h
  <2>1. c[j] \in L /\ t.item[c[j]].key = c[j][1]
    BY <1>2 DEF Members
  <2>2. c[j][1] = it[1] => c[j] = it
    BY <2>1 DEF Unique
  <2>3. c[j] = it => j = h
    BY <1>2, <1>3 DEF NoDup
  <2> QED
    BY <1>3, <2>1, <2>2, <2>3
<1>5. HashitemBefore(t, c, k) = h
  <2>1. \A j \in 1 .. Len(c) : t.item[c[j]].key = k <=> j = h
    BY <1>4
  <2> HIDE DEF k
  <2> QED
    BY <1>2, <2>1, BeforeFound
<1> QED
  BY <1>3, <1>5 DEF c

\* assoc_find() finds the item that has the key, and nothing if none has it.
LEMMA FindFacts ==
  ASSUME NEW t, Tabled(t), NEW L \in SUBSET Item, ChainsOf(t, L), Unique(L),
         \A i \in L : t.item[i].key = i[1]
  PROVE  /\ \A i \in L : assoc_find(t, i[1]) = i
         /\ \A k \in Key : (\A i \in L : i[1] # k) => assoc_find(t, k) = NoItem
<1>1. ASSUME NEW i \in L PROVE assoc_find(t, i[1]) = i
  <2> DEFINE c == Chain(t, Place(t, i[1]))
             h == HashitemBefore(t, c, i[1])
  <2>1. h \in 1 .. Len(c) /\ c[h] = i
    BY WhereOnChain
  <2>2. i[1] \in Key
    BY DEF Item
  <2>3. Len(c) \in Nat
    BY <2>2, ChainFacts
  <2>4. assoc_find(t, i[1]) = At(c, h)
    BY DEF assoc_find, FindOn
  <2> HIDE DEF h, c
  <2> QED
    BY <2>1, <2>3, <2>4 DEF At
<1>2. ASSUME NEW k \in Key, \A i \in L : i[1] # k PROVE assoc_find(t, k) = NoItem
  <2> DEFINE c == Chain(t, Place(t, k))
  <2>1. Len(c) \in Nat /\ \A i \in Members(c) : i \in L
    BY ChainFacts
  <2>2. assoc_find(t, k) = At(c, HashitemBefore(t, c, k))
    BY DEF assoc_find, FindOn
  <2> HIDE DEF c
  <2>3. \A j \in 1 .. Len(c) : t.item[c[j]].key # k
    BY <1>2, <2>1 DEF Members
  <2>4. HashitemBefore(t, c, k) = Len(c) + 1
    BY <2>1, <2>3, BeforeMissing
  <2> QED
    BY <2>1, <2>2, <2>4 DEF At
<1> QED
  BY <1>1, <1>2

\* v is t with other tables, and with n items in them.
Retabled(t, v, n) ==
  /\ Fields(v) /\ v.item = t.item /\ v.lru = t.lru /\ v.curr_items = t.curr_items
  /\ v.hash_items = n

\* As far as places go, the tables of t and v are the same.
SamePlaces(t, v) ==
  /\ v.size = t.size /\ v.expanding = t.expanding /\ v.expand_bucket = t.expand_bucket

\* t with c as the chain of key k, and n items.
Rechained(t, k, c, n) == [WithChain(t, Place(t, k), c) EXCEPT !.hash_items = n]

\* The chain of key k is replaced.
LEMMA SetChain ==
  ASSUME NEW t, Fields(t), Tabled(t), NEW k \in Key, NEW c \in Seq(Item), NEW n
  PROVE  LET v == Rechained(t, k, c, n)
         IN  /\ Retabled(t, v, n) /\ SamePlaces(t, v) /\ Tabled(v)
             /\ IF InOld(t, k)
                THEN v.primary = t.primary /\ v.old = [t.old EXCEPT ![oldbucket(t, k)] = c]
                ELSE v.primary = [t.primary EXCEPT ![Bucket(t, k)] = c] /\ v.old = t.old
<1> DEFINE w == WithChain(t, Place(t, k), c)
           v == Rechained(t, k, c, n)
<1>0. v = [w EXCEPT !.hash_items = n]
  BY DEF Rechained
<1> HIDE DEF v
<1>1. CASE InOld(t, k)
  <2>1. w = [t EXCEPT !.old[oldbucket(t, k)] = c]
    BY <1>1, PlaceFacts DEF WithChain
  <2>2. v = [item |-> t.item, lru |-> t.lru, curr_items |-> t.curr_items, primary |-> t.primary,
             old |-> [t.old EXCEPT ![oldbucket(t, k)] = c], size |-> t.size, expanding |-> t.expanding,
             expand_bucket |-> t.expand_bucket, hash_items |-> n]
    <3> HIDE DEF w
    <3> QED
      BY <1>0, <2>1 DEF Fields
  <2>3. /\ Retabled(t, v, n) /\ SamePlaces(t, v)
        /\ v.primary = t.primary /\ v.old = [t.old EXCEPT ![oldbucket(t, k)] = c]
    BY <2>2 DEF Fields, Retabled, SamePlaces
  <2>4. t.expanding
    BY <1>1 DEF InOld
  <2>5. v.old \in [0 .. (t.size \div 2) - 1 -> Seq(Item)]
    BY <2>3, <2>4 DEF Tabled
  <2>6. Tabled(v)
    BY <2>3, <2>4, <2>5 DEF Tabled, SamePlaces
  <2> QED
    BY <1>1, <2>3, <2>6 DEF v
<1>2. CASE ~InOld(t, k)
  <2>1. w = [t EXCEPT !.primary[Bucket(t, k)] = c]
    BY <1>2, PlaceFacts DEF WithChain
  <2>2. v = [item |-> t.item, lru |-> t.lru, curr_items |-> t.curr_items, primary |-> [t.primary EXCEPT ![Bucket(t, k)] = c],
             old |-> t.old, size |-> t.size, expanding |-> t.expanding,
             expand_bucket |-> t.expand_bucket, hash_items |-> n]
    <3> HIDE DEF w
    <3> QED
      BY <1>0, <2>1 DEF Fields
  <2>3. /\ Retabled(t, v, n) /\ SamePlaces(t, v)
        /\ v.primary = [t.primary EXCEPT ![Bucket(t, k)] = c] /\ v.old = t.old
    BY <2>2 DEF Fields, Retabled, SamePlaces
  <2>5. v.primary \in [0 .. t.size - 1 -> Seq(Item)]
    BY <2>3 DEF Tabled
  <2>6. Tabled(v)
    BY <2>3, <2>5 DEF Tabled, SamePlaces
  <2> QED
    BY <1>2, <2>3, <2>6 DEF v
<1> QED
  BY <1>1, <1>2, PlaceFacts DEF v

\* Keys j and k have one place.
OnePlace(t, j, k) ==
  /\ InOld(t, j) = InOld(t, k)
  /\ IF InOld(t, k) THEN oldbucket(t, j) = oldbucket(t, k) ELSE Bucket(t, j) = Bucket(t, k)

\* If L becomes M by items of key k coming or going, it is enough to set the
\* chain of k.
LEMMA SetChainOf ==
  ASSUME NEW t, Fields(t), Tabled(t), NEW k \in Key, NEW c \in Seq(Item), NEW n,
         NEW L \in SUBSET Item, NEW M \in SUBSET Item, ChainsOf(t, L),
         \A i \in Item : i[1] # k => (i \in L <=> i \in M),
         NoDup(c), Members(c) = {i \in M : OnePlace(t, i[1], k)}
  PROVE  ChainsOf(Rechained(t, k, c, n), M)
<1> DEFINE v == Rechained(t, k, c, n)
<1>1. /\ SamePlaces(t, v)
      /\ IF InOld(t, k)
         THEN v.primary = t.primary /\ v.old = [t.old EXCEPT ![oldbucket(t, k)] = c]
         ELSE v.primary = [t.primary EXCEPT ![Bucket(t, k)] = c] /\ v.old = t.old
  BY SetChain
<1> HIDE DEF v
<1>2. \A j : /\ InOld(v, j) <=> InOld(t, j)
             /\ oldbucket(v, j) = oldbucket(t, j) /\ Bucket(v, j) = Bucket(t, j)
  BY <1>1 DEF SamePlaces, InOld, oldbucket, Bucket
<1>3. \A b : OnOld(v, M, b) = OnOld(t, M, b) /\ OnPrimary(v, M, b) = OnPrimary(t, M, b)
  BY <1>2 DEF OnOld, OnPrimary
<1>4. CASE InOld(t, k)
  <2>1. /\ v.primary = t.primary /\ DOMAIN v.old = DOMAIN t.old
        /\ \A b \in DOMAIN t.old : v.old[b] = IF b = oldbucket(t, k) THEN c ELSE t.old[b]
    <3>1. t.old \in [0 .. (t.size \div 2) - 1 -> Seq(Item)]
      BY <1>4 DEF Tabled, InOld
    <3> QED
      BY <1>1, <1>4, <3>1
  <2>2. \A b : OnPrimary(t, M, b) = OnPrimary(t, L, b)
    BY <1>4 DEF OnPrimary
  <2>3. \A b : b # oldbucket(t, k) => OnOld(t, M, b) = OnOld(t, L, b)
    BY <1>4 DEF OnOld
  <2>4. OnOld(t, M, oldbucket(t, k)) = Members(c)
    BY <1>4, PlaceFacts DEF OnOld, OnePlace, Item
  <2> QED
    BY <1>3, <2>1, <2>2, <2>3, <2>4 DEF ChainsOf, v
<1>5. CASE ~InOld(t, k)
  <2>1. /\ v.old = t.old /\ DOMAIN v.primary = DOMAIN t.primary
        /\ \A b \in DOMAIN t.primary : v.primary[b] = IF b = Bucket(t, k) THEN c ELSE t.primary[b]
    <3>1. t.primary \in [0 .. t.size - 1 -> Seq(Item)]
      BY DEF Tabled
    <3> QED
      BY <1>1, <1>5, <3>1
  <2>2. \A b : OnOld(t, M, b) = OnOld(t, L, b)
    BY <1>5 DEF OnOld
  <2>3. \A b : b # Bucket(t, k) => OnPrimary(t, M, b) = OnPrimary(t, L, b)
    BY <1>5 DEF OnPrimary
  <2>4. OnPrimary(t, M, Bucket(t, k)) = Members(c)
    BY <1>5, PlaceFacts DEF OnPrimary, OnePlace, Item
  <2> QED
    BY <1>3, <2>1, <2>2, <2>3, <2>4 DEF ChainsOf, v
<1> QED
  BY <1>4, <1>5, PlaceFacts

\* Who is on the chain of key k.
LEMMA ChainMembers ==
  ASSUME NEW t, Tabled(t), NEW L \in SUBSET Item, ChainsOf(t, L), NEW k \in Key
  PROVE  Members(Chain(t, Place(t, k))) = {i \in L : OnePlace(t, i[1], k)}
<1> DEFINE c == Chain(t, Place(t, k))
<1>0. \A i \in L : InOld(t, i[1]) \in BOOLEAN
  BY PlaceFacts DEF Item
<1>1. CASE InOld(t, k)
  <2>1. c = t.old[oldbucket(t, k)]
    BY <1>1, PlaceFacts DEF Chain
  <2>2. oldbucket(t, k) \in DOMAIN t.old
    BY <1>1, PlaceFacts DEF Tabled, InOld
  <2>3. Members(c) = OnOld(t, L, oldbucket(t, k))
    BY <2>1, <2>2 DEF ChainsOf
  <2> QED
    BY <1>0, <1>1, <2>3, PlaceFacts DEF OnOld, OnePlace
<1>2. CASE ~InOld(t, k)
  <2>1. c = t.primary[Bucket(t, k)]
    BY <1>2, PlaceFacts DEF Chain
  <2>2. Bucket(t, k) \in DOMAIN t.primary
    BY <1>2, PlaceFacts DEF Tabled
  <2>3. Members(c) = OnPrimary(t, L, Bucket(t, k))
    BY <2>1, <2>2 DEF ChainsOf
  <2> QED
    BY <1>0, <1>2, <2>3, PlaceFacts DEF OnPrimary, OnePlace
<1> QED
  BY <1>1, <1>2, PlaceFacts

\* Setting a chain does not count.
LEMMA WithChainCount ==
  ASSUME NEW t, Fields(t), NEW p, NEW c
  PROVE  WithChain(t, p, c).hash_items = t.hash_items
<1> DEFINE x == [t.old EXCEPT ![p.at] = c]
           y == [t.primary EXCEPT ![p.at] = c]
<1>1. [t EXCEPT !.old[p.at] = c] = [t EXCEPT !.old = x]
  OBVIOUS
<1>2. [t EXCEPT !.primary[p.at] = c] = [t EXCEPT !.primary = y]
  OBVIOUS
<1> HIDE DEF x, y
<1>3. [t EXCEPT !.old = x].hash_items = t.hash_items /\ [t EXCEPT !.primary = y].hash_items = t.hash_items
  BY DEF Fields
<1> QED
  BY <1>1, <1>2, <1>3 DEF WithChain

\* assoc_insert() before the test of the load.
LEMMA InsertTables ==
  ASSUME NEW t, Fields(t), Tabled(t), NEW L \in SUBSET Item, ChainsOf(t, L),
         NEW it \in Item, it \notin L, t.item[it].key = it[1]
  PROVE  LET v == Inserted(t, it)
         IN  /\ Retabled(t, v, t.hash_items + 1) /\ SamePlaces(t, v) /\ Tabled(v)
             /\ ChainsOf(v, L \cup {it})
<1> DEFINE k == it[1]
           c == Chain(t, Place(t, k))
           d == Cons(it, c)
           n == t.hash_items + 1
<1>0. k \in Key
  BY DEF Item
<1>1. Inserted(t, it) = Rechained(t, k, d, n)
  BY WithChainCount DEF Inserted, Rechained
<1>2. c \in Seq(Item) /\ NoDup(c) /\ Members(c) = {i \in L : OnePlace(t, i[1], k)}
  BY <1>0, ChainFacts, ChainMembers
<1>3. it \notin Members(c)
  BY <1>2
<1> HIDE DEF c
<1>4. d \in Seq(Item) /\ NoDup(d) /\ Members(d) = Members(c) \cup {it}
  BY <1>2, <1>3, ConsFacts
<1>5. Members(d) = {i \in L \cup {it} : OnePlace(t, i[1], k)}
  BY <1>2, <1>4 DEF OnePlace
<1> HIDE DEF d, n
<1>6. ChainsOf(Rechained(t, k, d, n), L \cup {it})
  <2>1. L \cup {it} \in SUBSET Item /\ \A i \in Item : i[1] # k => (i \in L <=> i \in L \cup {it})
    OBVIOUS
  <2> HIDE DEF k
  <2> QED
    BY <1>0, <1>4, <1>5, <2>1, SetChainOf
<1>7. /\ Retabled(t, Rechained(t, k, d, n), n) /\ SamePlaces(t, Rechained(t, k, d, n))
      /\ Tabled(Rechained(t, k, d, n))
  <2> HIDE DEF k
  <2> QED
    BY <1>0, <1>4, SetChain
<1> QED
  BY <1>1, <1>6, <1>7 DEF n

\* assoc_delete() of the key of an item on its chain.
LEMMA DeleteTables ==
  ASSUME NEW t, Fields(t), Tabled(t), NEW L \in SUBSET Item, ChainsOf(t, L), Unique(L),
         \A i \in L : t.item[i].key = i[1], NEW it \in L
  PROVE  LET v == assoc_delete(t, it[1])
         IN  /\ Retabled(t, v, t.hash_items - 1) /\ SamePlaces(t, v) /\ Tabled(v)
             /\ ChainsOf(v, L \ {it})
<1> DEFINE k == it[1]
           c == Chain(t, Place(t, k))
           h == HashitemBefore(t, c, k)
           d == RemoveAt(c, h)
           n == t.hash_items - 1
<1>0. k \in Key
  BY DEF Item
<1>1. assoc_delete(t, k) = Rechained(t, k, d, n)
  BY WithChainCount DEF assoc_delete, Rechained
<1>2. c \in Seq(Item) /\ NoDup(c) /\ Members(c) = {i \in L : OnePlace(t, i[1], k)}
  BY <1>0, ChainFacts, ChainMembers
<1>3. h \in 1 .. Len(c) /\ c[h] = it
  BY WhereOnChain
<1> HIDE DEF c, h
<1>4. d \in Seq(Item) /\ NoDup(d) /\ Members(d) = Members(c) \ {it}
  BY <1>2, <1>3, RemoveFacts
<1>5. Members(d) = {i \in L \ {it} : OnePlace(t, i[1], k)}
  BY <1>2, <1>4
<1> HIDE DEF d, n
<1>6. ChainsOf(Rechained(t, k, d, n), L \ {it})
  <2>1. L \ {it} \in SUBSET Item /\ \A i \in Item : i[1] # k => (i \in L <=> i \in L \ {it})
    OBVIOUS
  <2> HIDE DEF k
  <2> QED
    BY <1>0, <1>4, <1>5, <2>1, SetChainOf
<1>7. /\ Retabled(t, Rechained(t, k, d, n), n) /\ SamePlaces(t, Rechained(t, k, d, n))
      /\ Tabled(Rechained(t, k, d, n))
  <2> HIDE DEF k
  <2> QED
    BY <1>0, <1>4, SetChain
<1> QED
  BY <1>1, <1>6, <1>7 DEF n

\* a[i] is the primary table after i of k turns of do_assoc_move_next_bucket().
Pushes(a, k, t, c) ==
  a = [i \in 0 .. k |-> IF i = 0 THEN t.primary ELSE Push(t, a[i - 1], c[i])]

\* The loop has such a run.
LEMMA PushesExist ==
  ASSUME NEW n \in Nat, NEW t, NEW c
  PROVE  \E a : Pushes(a, n, t, c)
<1> DEFINE T == {k \in 0 .. n : \E a : Pushes(a, k, t, c)}
<1>1. 0 \in T
  <2> DEFINE a == [i \in 0 .. 0 |-> t.primary]
  <2>1. 0 \in 0 .. n /\ \A i \in 0 .. 0 : i = 0
    OBVIOUS
  <2>2. Pushes(a, 0, t, c)
    BY <2>1 DEF Pushes
  <2> QED
    BY <2>1, <2>2
<1>2. ASSUME NEW k \in 0 .. n, k # 0, k - 1 \in T PROVE k \in T
  <2>1. PICK b : Pushes(b, k - 1, t, c)
    BY <1>2
  <2> DEFINE x == Push(t, b[k - 1], c[k])
             a == [i \in 0 .. k |-> IF i = k THEN x ELSE b[i]]
             F(g, i) == IF i = 0 THEN t.primary ELSE Push(t, g[i - 1], c[i])
  <2>2. /\ k \in Nat
        /\ \A i \in 0 .. k : i # 0 => i - 1 \in 0 .. k /\ i - 1 # k
        /\ \A i \in 0 .. k : i # k => i \in 0 .. k - 1
    BY <1>2
  <2>3. \A i \in 0 .. k - 1 : b[i] = F(b, i)
    BY <2>1 DEF Pushes
  <2>4. \A i \in 0 .. k : a[i] = IF i = k THEN x ELSE b[i]
    OBVIOUS
  <2>5. x = F(b, k)
    BY <1>2
  <2> HIDE DEF x
  <2>6. a = [i \in 0 .. k |-> a[i]]
    OBVIOUS
  <2> HIDE DEF a
  <2>7. ASSUME NEW i \in 0 .. k PROVE a[i] = F(a, i)
    <3>1. i # 0 => a[i - 1] = b[i - 1]
      BY <2>2, <2>4
    <3>2. F(a, i) = F(b, i)
      BY <3>1
    <3>3. a[i] = F(b, i)
      <4> HIDE DEF F
      <4> QED
        BY <2>2, <2>3, <2>4, <2>5
    <3> QED
      BY <3>2, <3>3
  <2>8. Pushes(a, k, t, c)
    BY <2>6, <2>7 DEF Pushes
  <2> QED
    BY <2>8
<1> HIDE DEF T
<1>3. n \in T
  BY <1>1, <1>2, IndexInduction
<1> QED
  BY <1>3 DEF T

LEMMA MovedPushes ==
  ASSUME NEW t, NEW c, Len(c) \in Nat
  PROVE  \E a : Pushes(a, Len(c), t, c) /\ Moved(t, c) = a[Len(c)]
<1> DEFINE n == Len(c)
           F(g) == [i \in 0 .. n |-> IF i = 0 THEN t.primary ELSE Push(t, g[i - 1], c[i])]
           after == CHOOSE g : g = F(g)
<1>1. Moved(t, c) = after[n]
  BY DEF Moved
<1>2. \A g : g = F(g) <=> Pushes(g, n, t, c)
  BY DEF Pushes
<1>3. \E g : g = F(g)
  <2> HIDE DEF F, n
  <2>1. \E g : Pushes(g, n, t, c)
    BY PushesExist DEF n
  <2> QED
    BY <1>2, <2>1
<1> HIDE DEF F
<1>4. after = F(after)
  BY <1>3
<1>5. Pushes(after, n, t, c)
  BY <1>2, <1>4
<1> QED
  BY <1>1, <1>5

\* The table x after the first n items of chain c have been pushed.
AtPush(x, n, t, c) ==
  /\ x \in [0 .. t.size - 1 -> Seq(Item)]
  /\ \A b \in 0 .. t.size - 1 :
       /\ NoDup(x[b])
       /\ Members(x[b]) = Members(t.primary[b])
                            \cup {c[j] : j \in {l \in 1 .. n : Bucket(t, c[l][1]) = b}}

\* The chain may be moved: its items are on no other.
Movable(t, c) ==
  /\ c \in Seq(Item) /\ NoDup(c)
  /\ \A i \in Members(c) : /\ t.item[i].key = i[1]
                           /\ \A b \in DOMAIN t.primary : i \notin Members(t.primary[b])

LEMMA PushStep ==
  ASSUME NEW t, Tabled(t), NEW c, Movable(t, c), NEW n \in 1 .. Len(c), NEW x, AtPush(x, n - 1, t, c)
  PROVE  AtPush(Push(t, x, c[n]), n, t, c)
<1> DEFINE it == c[n]
           q == Bucket(t, it[1])
           y == Push(t, x, it)
<1>1. Len(c) \in Nat /\ it \in Item /\ it \in Members(c)
  BY DEF Movable, Members
<1>2. t.item[it].key = it[1] /\ it[1] \in Key
  BY <1>1 DEF Movable, Item
<1>3. y = [x EXCEPT ![q] = Cons(it, @)] /\ q \in 0 .. t.size - 1
  BY <1>2, PlaceFacts DEF Push
<1>4. it \notin Members(x[q])
  <2>1. it \notin Members(t.primary[q])
    BY <1>1, <1>3 DEF Movable, Tabled
  <2>2. ASSUME NEW j \in 1 .. n - 1 PROVE c[j] # it
    <3>1. j \in 1 .. Len(c) /\ j # n
      BY <1>1
    <3> QED
      BY <3>1 DEF Movable, NoDup
  <2>3. Members(x[q]) = Members(t.primary[q])
                          \cup {c[j] : j \in {l \in 1 .. n - 1 : Bucket(t, c[l][1]) = q}}
    BY <1>3 DEF AtPush
  <2> HIDE DEF q, it
  <2> QED
    BY <2>1, <2>2, <2>3
<1>5. /\ x[q] \in Seq(Item) /\ NoDup(x[q])
  BY <1>3 DEF AtPush
<1>6. /\ Cons(it, x[q]) \in Seq(Item) /\ NoDup(Cons(it, x[q]))
      /\ Members(Cons(it, x[q])) = Members(x[q]) \cup {it}
  BY <1>1, <1>4, <1>5, ConsFacts
<1>7. /\ y \in [0 .. t.size - 1 -> Seq(Item)]
      /\ \A b \in 0 .. t.size - 1 : y[b] = IF b = q THEN Cons(it, x[q]) ELSE x[b]
  <2> HIDE DEF y, q, it
  <2>1. x \in [0 .. t.size - 1 -> Seq(Item)]
    BY DEF AtPush
  <2> QED
    BY <1>3, <1>6, <2>1
<1>8. \A l : l \in 1 .. n <=> l \in 1 .. n - 1 \/ l = n
  BY <1>1
<1>9. ASSUME NEW b \in 0 .. t.size - 1
      PROVE  /\ NoDup(y[b])
             /\ Members(y[b]) = Members(t.primary[b])
                                  \cup {c[j] : j \in {l \in 1 .. n : Bucket(t, c[l][1]) = b}}
  <2>1. Members(x[b]) = Members(t.primary[b])
                          \cup {c[j] : j \in {l \in 1 .. n - 1 : Bucket(t, c[l][1]) = b}}
    BY DEF AtPush
  <2> HIDE DEF y
  <2>2. CASE b = q
    <3>1. NoDup(y[b]) /\ Members(y[b]) = Members(x[b]) \cup {it}
      BY <1>6, <1>7, <2>2
    <3>2. {c[j] : j \in {l \in 1 .. n : Bucket(t, c[l][1]) = b}}
            = {c[j] : j \in {l \in 1 .. n - 1 : Bucket(t, c[l][1]) = b}} \cup {it}
      BY <1>8, <2>2
    <3> QED
      BY <2>1, <3>1, <3>2
  <2>3. CASE b # q
    <3>1. NoDup(y[b]) /\ Members(y[b]) = Members(x[b])
      BY <1>7, <2>3 DEF AtPush
    <3>2. {l \in 1 .. n : Bucket(t, c[l][1]) = b} = {l \in 1 .. n - 1 : Bucket(t, c[l][1]) = b}
      BY <1>8, <2>3
    <3> QED
      BY <2>1, <3>1, <3>2
  <2> QED
    BY <2>2, <2>3
<1> QED
  BY <1>7, <1>9 DEF AtPush

\* Each item of the chain is on its chain of the primary table afterwards.
LEMMA MovedTable ==
  ASSUME NEW t, Tabled(t), NEW c, Movable(t, c),
         \A b \in DOMAIN t.primary : NoDup(t.primary[b])
  PROVE  AtPush(Moved(t, c), Len(c), t, c)
<1>1. Len(c) \in Nat
  BY DEF Movable
<1>2. PICK a : Pushes(a, Len(c), t, c) /\ Moved(t, c) = a[Len(c)]
  BY <1>1, MovedPushes
<1> DEFINE T == {n \in 0 .. Len(c) : AtPush(a[n], n, t, c)}
<1>3. 0 \in T
  <2>1. a[0] = t.primary
    BY <1>1, <1>2 DEF Pushes
  <2>2. \A b : {c[j] : j \in {l \in 1 .. 0 : Bucket(t, c[l][1]) = b}} = {}
    OBVIOUS
  <2>3. AtPush(t.primary, 0, t, c)
    BY <2>2 DEF AtPush, Tabled
  <2> QED
    BY <1>1, <2>1, <2>3
<1>4. ASSUME NEW n \in 0 .. Len(c), n # 0, n - 1 \in T PROVE n \in T
  <2>1. n \in 1 .. Len(c) /\ AtPush(a[n - 1], n - 1, t, c)
    BY <1>1, <1>4
  <2>2. a[n] = Push(t, a[n - 1], c[n])
    BY <1>2, <1>4 DEF Pushes
  <2>3. AtPush(a[n], n, t, c)
    BY <2>1, <2>2, PushStep
  <2> QED
    BY <2>3
<1>5. Len(c) \in T
  <2> DEFINE n == Len(c)
  <2>1. \A i \in 0 .. n : i # 0 /\ i - 1 \in T => i \in T
    BY <1>4
  <2> HIDE DEF T, n
  <2>2. n \in Nat /\ n \in 0 .. n
    BY <1>1 DEF n
  <2>3. n \in T
    BY <1>3, <2>1, <2>2, IndexInduction
  <2> QED
    BY <2>3 DEF n
<1> HIDE DEF T
<1> QED
  BY <1>2, <1>5 DEF T

\* do_assoc_move_next_bucket() leaves every item on the chain of its key.
LEMMA MoveTables ==
  ASSUME NEW t, Fields(t), Tabled(t), t.expanding, NEW L \in SUBSET Item, ChainsOf(t, L),
         \A i \in L : t.item[i].key = i[1]
  PROVE  LET v == MoveNextBucket(t)
         IN  Retabled(t, v, t.hash_items) /\ Tabled(v) /\ ChainsOf(v, L)
<1> DEFINE e == t.expand_bucket
           half == t.size \div 2
           c == t.old[e]
           m == Moved(t, c)
           last == e + 1 = half
           o == IF last THEN <<>> ELSE [t.old EXCEPT ![e] = <<>>]
           v == MoveNextBucket(t)
<1>1. v = [item |-> t.item, lru |-> t.lru, curr_items |-> t.curr_items, primary |-> m,
           old |-> o, size |-> t.size, expanding |-> ~last,
           expand_bucket |-> e + 1, hash_items |-> t.hash_items]
  <2>1. v = [t EXCEPT !.primary = m, !.old = o, !.expand_bucket = e + 1, !.expanding = ~last]
    BY DEF MoveNextBucket
  <2> HIDE DEF v, o, m, last, e
  <2> QED
    BY <2>1 DEF Fields
<1>2. /\ half \in Nat /\ e \in 0 .. half - 1 /\ t.size \in Nat \ {0}
      /\ t.old \in [0 .. half - 1 -> Seq(Item)]
      /\ t.primary \in [0 .. t.size - 1 -> Seq(Item)]
  BY DEF Tabled
<1>3. c \in Seq(Item) /\ NoDup(c) /\ Members(c) = OnOld(t, L, e)
  BY <1>2 DEF ChainsOf
<1>4. \A b \in DOMAIN t.primary : NoDup(t.primary[b]) /\ Members(t.primary[b]) = OnPrimary(t, L, b)
  BY DEF ChainsOf
<1>5. Movable(t, c)
  <2> HIDE DEF c
  <2>1. ASSUME NEW i \in Members(c), NEW b \in DOMAIN t.primary PROVE i \notin Members(t.primary[b])
    BY <1>3, <1>4 DEF OnOld, OnPrimary
  <2> QED
    BY <1>3, <2>1 DEF Movable, OnOld
<1> HIDE DEF c
<1>6. AtPush(m, Len(c), t, c)
  BY <1>4, <1>5, MovedTable
<1> HIDE DEF m, v
<1>7. Retabled(t, v, t.hash_items)
  <2> HIDE DEF o, last, e
  <2> QED
    BY <1>1 DEF Retabled, Fields
<1>8. /\ v.primary = m /\ v.old = o /\ v.size = t.size /\ v.expanding = ~last
      /\ v.expand_bucket = e + 1
  <2> HIDE DEF o, last, e
  <2> QED
    BY <1>1
<1>9. /\ ~last => /\ o \in [0 .. half - 1 -> Seq(Item)] /\ o[e] = <<>>
                  /\ \A b \in 0 .. half - 1 : b # e => o[b] = t.old[b]
      /\ last => o = <<>>
  <2>1. <<>> \in Seq(Item)
    OBVIOUS
  <2> HIDE DEF e, half
  <2> QED
    BY <1>2, <2>1
<1>10. Tabled(v)
  <2>1. ~last => e + 1 \in 0 .. half - 1
    BY <1>2
  <2>2. m \in [0 .. t.size - 1 -> Seq(Item)] /\ (~last) \in BOOLEAN
    BY <1>6 DEF AtPush
  <2> HIDE DEF last, o
  <2> QED
    BY <1>2, <1>8, <1>9, <2>1, <2>2 DEF Tabled
<1>11. ASSUME NEW k \in Key
       PROVE  /\ InOld(v, k) <=> InOld(t, k) /\ oldbucket(t, k) # e
              /\ oldbucket(v, k) = oldbucket(t, k) /\ Bucket(v, k) = Bucket(t, k)
              /\ InOld(t, k) \in BOOLEAN
  <2>1. oldbucket(t, k) \in 0 .. half - 1 /\ InOld(t, k) \in BOOLEAN
    BY PlaceFacts
  <2>2. oldbucket(v, k) = oldbucket(t, k) /\ Bucket(v, k) = Bucket(t, k)
    BY <1>8 DEF oldbucket, Bucket
  <2>3. InOld(t, k) <=> oldbucket(t, k) >= e
    BY DEF InOld
  <2>4. InOld(v, k) <=> ~last /\ oldbucket(t, k) >= e + 1
    BY <1>8, <2>2 DEF InOld
  <2>5. ASSUME NEW n \in 0 .. half - 1 PROVE (~last /\ n >= e + 1) <=> (n >= e /\ n # e)
    BY <1>2
  <2> QED
    BY <2>1, <2>2, <2>3, <2>4, <2>5
<1>12. \A i \in L : i[1] \in Key
  BY DEF Item
<1>13. ASSUME NEW b \in 0 .. t.size - 1
       PROVE  NoDup(m[b]) /\ Members(m[b]) = OnPrimary(v, L, b)
  <2>1. NoDup(m[b]) /\ Members(m[b]) = OnPrimary(t, L, b)
          \cup {c[j] : j \in {l \in 1 .. Len(c) : Bucket(t, c[l][1]) = b}}
    BY <1>2, <1>4, <1>6 DEF AtPush
  <2>2. {c[j] : j \in {l \in 1 .. Len(c) : Bucket(t, c[l][1]) = b}}
          = {i \in OnOld(t, L, e) : Bucket(t, i[1]) = b}
    BY <1>3 DEF Members
  <2>3. OnPrimary(v, L, b) = OnPrimary(t, L, b) \cup {i \in OnOld(t, L, e) : Bucket(t, i[1]) = b}
    <3> HIDE DEF e
    <3> QED
      BY <1>11, <1>12 DEF OnPrimary, OnOld
  <2> QED
    BY <2>1, <2>2, <2>3
<1>14. ASSUME NEW b \in DOMAIN v.old
       PROVE  NoDup(v.old[b]) /\ Members(v.old[b]) = OnOld(v, L, b)
  <2>1. ~last
    BY <1>8, <1>9, <1>14
  <2>2. b \in 0 .. half - 1
    BY <1>8, <1>9, <1>14, <2>1
  <2>3. CASE b = e
    <3>1. v.old[b] = <<>>
      BY <1>8, <1>9, <2>1, <2>3
    <3>2. NoDup(<<>>) /\ Members(<<>>) = {}
      BY DEF NoDup, Members
    <3>3. OnOld(v, L, b) = {}
      BY <1>11, <1>12, <2>3 DEF OnOld
    <3> QED
      BY <3>1, <3>2, <3>3
  <2>4. CASE b # e
    <3>1. v.old[b] = t.old[b]
      BY <1>8, <1>9, <2>1, <2>2, <2>4
    <3>2. NoDup(t.old[b]) /\ Members(t.old[b]) = OnOld(t, L, b)
      BY <1>2, <2>2 DEF ChainsOf
    <3>3. OnOld(v, L, b) = OnOld(t, L, b)
      <4> HIDE DEF e
      <4> QED
        BY <1>11, <1>12, <2>4 DEF OnOld
    <3> QED
      BY <3>1, <3>2, <3>3
  <2> QED
    BY <2>3, <2>4
<1>15. ChainsOf(v, L)
  <2>1. DOMAIN v.primary = 0 .. t.size - 1 /\ v.primary = m
    BY <1>6, <1>8 DEF AtPush
  <2> QED
    BY <1>13, <1>14, <2>1 DEF ChainsOf
<1> QED
  BY <1>7, <1>10, <1>15 DEF v

\* So does assoc_expand(), whether there is memory or not.
LEMMA ExpandTables ==
  ASSUME NEW t, Fields(t), Tabled(t), ~t.expanding, NEW L \in SUBSET Item, ChainsOf(t, L),
         \A i \in L : t.item[i].key = i[1], NEW mem \in BOOLEAN
  PROVE  LET v == assoc_expand(t, mem)
         IN  Retabled(t, v, t.hash_items) /\ Tabled(v) /\ ChainsOf(v, L)
<1>1. CASE ~mem
  <2>1. assoc_expand(t, mem) = t
    BY <1>1 DEF assoc_expand
  <2> QED
    BY <2>1 DEF Retabled
<1>2. CASE mem
  <2> DEFINE z == [b \in 0 .. 2 * t.size - 1 |-> <<>>]
             u == [t EXCEPT !.old = t.primary, !.primary = z, !.size = 2 * @,
                            !.expanding = TRUE, !.expand_bucket = 0]
  <2>1. assoc_expand(t, mem) = MoveNextBucket(u)
    BY <1>2 DEF assoc_expand
  <2>2. u = [item |-> t.item, lru |-> t.lru, curr_items |-> t.curr_items, primary |-> z,
             old |-> t.primary, size |-> 2 * t.size, expanding |-> TRUE,
             expand_bucket |-> 0, hash_items |-> t.hash_items]
    <3>1. u = [t EXCEPT !.old = t.primary, !.primary = z, !.size = 2 * t.size,
                        !.expanding = TRUE, !.expand_bucket = 0]
      OBVIOUS
    <3> HIDE DEF z, u
    <3> QED
      BY <3>1 DEF Fields
  <2> HIDE DEF u
  <2>3. /\ Fields(u) /\ u.item = t.item /\ u.lru = t.lru /\ u.curr_items = t.curr_items
        /\ u.primary = z /\ u.old = t.primary /\ u.size = 2 * t.size /\ u.expanding = TRUE
        /\ u.expand_bucket = 0 /\ u.hash_items = t.hash_items
    <3> HIDE DEF z
    <3> QED
      BY <2>2 DEF Fields
  <2>4. t.size \in Nat \ {0} /\ t.primary \in [0 .. t.size - 1 -> Seq(Item)]
    BY DEF Tabled
  <2>5. (2 * t.size) \div 2 = t.size /\ 2 * t.size \in Nat \ {0} /\ 0 \in 0 .. t.size - 1
    BY <2>4
  <2>6. z \in [0 .. 2 * t.size - 1 -> Seq(Item)] /\ \A b \in 0 .. 2 * t.size - 1 : z[b] = <<>>
    OBVIOUS
  <2> HIDE DEF z
  <2>7. Tabled(u)
    BY <2>3, <2>4, <2>5, <2>6 DEF Tabled
  <2>8. ASSUME NEW k \in Key PROVE InOld(u, k) /\ oldbucket(u, k) = Bucket(t, k) /\ ~InOld(t, k)
    <3>1. oldbucket(u, k) = Bucket(t, k)
      BY <2>3, <2>5 DEF oldbucket, Bucket
    <3>2. Bucket(t, k) \in 0 .. t.size - 1
      BY PlaceFacts
    <3> QED
      BY <2>3, <2>4, <3>1, <3>2 DEF InOld
  <2>9. \A i \in L : i[1] \in Key
    BY DEF Item
  <2>10. ChainsOf(u, L)
    <3>1. ASSUME NEW b \in DOMAIN u.primary
          PROVE  NoDup(u.primary[b]) /\ Members(u.primary[b]) = OnPrimary(u, L, b)
      <4>1. u.primary[b] = <<>>
        BY <2>3, <2>6, <3>1
      <4>2. NoDup(<<>>) /\ Members(<<>>) = {}
        BY DEF NoDup, Members
      <4>3. OnPrimary(u, L, b) = {}
        BY <2>8, <2>9 DEF OnPrimary
      <4> QED
        BY <4>1, <4>2, <4>3
    <3>2. ASSUME NEW b \in DOMAIN u.old
          PROVE  NoDup(u.old[b]) /\ Members(u.old[b]) = OnOld(u, L, b)
      <4>1. NoDup(t.primary[b]) /\ Members(t.primary[b]) = OnPrimary(t, L, b)
        BY <2>3, <3>2 DEF ChainsOf
      <4>2. OnOld(u, L, b) = OnPrimary(t, L, b)
        BY <2>8, <2>9 DEF OnOld, OnPrimary
      <4> QED
        BY <2>3, <4>1, <4>2
    <3> QED
      BY <3>1, <3>2 DEF ChainsOf
  <2>11. \A i \in L : u.item[i].key = i[1]
    BY <2>3
  <2>12. /\ Retabled(u, MoveNextBucket(u), u.hash_items) /\ Tabled(MoveNextBucket(u))
         /\ ChainsOf(MoveNextBucket(u), L)
    BY <2>3, <2>7, <2>10, <2>11, MoveTables
  <2> QED
    BY <2>1, <2>3, <2>12 DEF Retabled
<1> QED
  BY <1>1, <1>2

\* assoc_insert() as a whole.
LEMMA InsertAll ==
  ASSUME NEW t, Fields(t), Tabled(t), NEW L \in SUBSET Item, ChainsOf(t, L),
         NEW it \in Item, it \notin L, \A i \in L \cup {it} : t.item[i].key = i[1],
         NEW mem \in BOOLEAN
  PROVE  LET v == assoc_insert(t, it, mem)
         IN  Retabled(t, v, t.hash_items + 1) /\ Tabled(v) /\ ChainsOf(v, L \cup {it})
<1> DEFINE u == Inserted(t, it)
<1>1. /\ Retabled(t, u, t.hash_items + 1) /\ SamePlaces(t, u) /\ Tabled(u)
      /\ ChainsOf(u, L \cup {it})
  BY InsertTables
<1>2. \/ assoc_insert(t, it, mem) = u
      \/ ~t.expanding /\ assoc_insert(t, it, mem) = assoc_expand(u, mem)
  BY DEF assoc_insert
<1> HIDE DEF u
<1>3. CASE assoc_insert(t, it, mem) = u
  BY <1>1, <1>3
<1>4. CASE ~t.expanding /\ assoc_insert(t, it, mem) = assoc_expand(u, mem)
  <2> DEFINE M == L \cup {it}
             v == assoc_expand(u, mem)
  <2>1. Fields(u) /\ ~u.expanding /\ M \in SUBSET Item /\ \A i \in M : u.item[i].key = i[1]
    BY <1>1, <1>4 DEF Retabled, SamePlaces
  <2>2. ChainsOf(u, M)
    BY <1>1
  <2> HIDE DEF M
  <2>3. Retabled(u, v, u.hash_items) /\ Tabled(v) /\ ChainsOf(v, M)
    BY <1>1, <2>1, <2>2, ExpandTables
  <2> HIDE DEF v
  <2>4. Retabled(t, v, t.hash_items + 1)
    BY <1>1, <2>3 DEF Retabled
  <2>5. assoc_insert(t, it, mem) = v
    BY <1>4 DEF v
  <2> QED
    BY <2>3, <2>4, <2>5 DEF M
<1> QED
  BY <1>2, <1>3, <1>4

----------------------------------------------------------------------------
(* The items (items.c).                                                    *)

\* The tables of v are those of t.
SameTables(t, v) ==
  /\ v.primary = t.primary /\ v.old = t.old /\ v.hash_items = t.hash_items
  /\ SamePlaces(t, v)

LEMMA SetItem ==
  ASSUME NEW t, Fields(t), NEW X
  PROVE  LET v == [t EXCEPT !.item = X]
         IN  /\ Fields(v) /\ v.item = X /\ v.lru = t.lru /\ v.curr_items = t.curr_items
             /\ SameTables(t, v)
BY DEF Fields, SameTables, SamePlaces

LEMMA SetLru ==
  ASSUME NEW t, Fields(t), NEW X
  PROVE  LET v == [t EXCEPT !.lru = X]
         IN  /\ Fields(v) /\ v.lru = X /\ v.item = t.item /\ v.curr_items = t.curr_items
             /\ SameTables(t, v)
BY DEF Fields, SameTables, SamePlaces

LEMMA SetCurr ==
  ASSUME NEW t, Fields(t), NEW X
  PROVE  LET v == [t EXCEPT !.curr_items = X]
         IN  /\ Fields(v) /\ v.curr_items = X /\ v.item = t.item /\ v.lru = t.lru
             /\ SameTables(t, v)
BY DEF Fields, SameTables, SamePlaces

LEMMA TablesCarry ==
  ASSUME NEW t, NEW v, SameTables(t, v), NEW L
  PROVE  (Tabled(t) => Tabled(v)) /\ (ChainsOf(t, L) => ChainsOf(v, L))
<1>1. \A k : /\ InOld(v, k) <=> InOld(t, k)
             /\ oldbucket(v, k) = oldbucket(t, k) /\ Bucket(v, k) = Bucket(t, k)
  BY DEF SameTables, SamePlaces, InOld, oldbucket, Bucket
<1>2. \A b : OnOld(v, L, b) = OnOld(t, L, b) /\ OnPrimary(v, L, b) = OnPrimary(t, L, b)
  BY <1>1 DEF OnOld, OnPrimary
<1>3. Tabled(t) => Tabled(v)
  BY DEF Tabled, SameTables, SamePlaces
<1>4. ChainsOf(t, L) => ChainsOf(v, L)
  BY <1>2 DEF ChainsOf, SameTables
<1> QED
  BY <1>3, <1>4

\* A block that is not free holds an item.
LEMMA RecFacts ==
  /\ \A x \in ItemRec : x # Free
  /\ \A t : Heap(t) => \A i \in Item : t.item[i] # Free <=> t.item[i] \in ItemRec
<1>1. ASSUME NEW x \in ItemRec PROVE x # Free
  BY StoreAssumption DEF ItemRec
<1> QED
  BY <1>1 DEF Heap

\* An item with one field changed.
LEMMA RecUpdate ==
  ASSUME NEW x \in ItemRec
  PROVE  /\ \A n \in Nat : LET y == [x EXCEPT !.refcount = n]
                           IN  /\ y \in ItemRec /\ y.refcount = n /\ y.key = x.key
                               /\ y.data = x.data /\ y.linked = x.linked
         /\ \A b \in BOOLEAN : LET y == [x EXCEPT !.linked = b]
                               IN  /\ y \in ItemRec /\ y.linked = b /\ y.key = x.key
                                   /\ y.data = x.data /\ y.refcount = x.refcount
         /\ \A d \in Value : LET y == [x EXCEPT !.data = d]
                             IN  /\ y \in ItemRec /\ y.data = d /\ y.key = x.key
                                 /\ y.linked = x.linked /\ y.refcount = x.refcount
BY DEF ItemRec

\* One item is put into a block.
LEMMA BlockUpdate ==
  ASSUME NEW t, Heap(t), NEW it \in Item, NEW y \in ItemRec \cup {Free}
  PROVE  LET X == [t.item EXCEPT ![it] = y]
         IN  /\ X \in [Item -> ItemRec \cup {Free}] /\ X[it] = y
             /\ \A i \in Item : i # it => X[i] = t.item[i]
<1>1. t.item \in [Item -> ItemRec \cup {Free}]
  BY DEF Heap
<1> QED
  BY <1>1

\* The set of linked items is a finite set of items.
LEMMA LinkedFinite ==
  ASSUME NEW t PROVE LinkedIn(t) \in SUBSET Item /\ IsFiniteSet(LinkedIn(t)) /\ IsFiniteSet(Item)
<1>1. IsFiniteSet(Item)
  <2>1. IsFiniteSet(1 .. 3)
    <3>1. 1 \in Int /\ 3 \in Int
      OBVIOUS
    <3> QED
      BY <3>1, FS_Interval
  <2> QED
    BY <2>1, StoreAssumption, FS_Product DEF Item
<1>2. LinkedIn(t) \subseteq Item
  BY DEF LinkedIn
<1> QED
  BY <1>1, <1>2, FS_Subset

\* What an item holds is kept.
SameData(t, r) ==
  \A i \in Item : t.item[i] # Free /\ r.item[i] # Free => r.item[i].data = t.item[i].data

\* t with y in block it.
Blocked(t, it, y) == [t EXCEPT !.item = [t.item EXCEPT ![it] = y]]

\* A change of one block that keeps it linked or not linked, and after which G
\* is held.
LEMMA BlockStep ==
  ASSUME NEW t, NEW H, CacheInv(t, H), NEW it \in Item, NEW y \in ItemRec \cup {Free},
         NEW G \in SUBSET Item, \A i \in Item : i # it => (i \in G <=> i \in H),
         (y # Free /\ y.linked) <=> it \in LinkedIn(t),
         y # Free <=> it \in LinkedIn(t) \cup G,
         y # Free => y.key = it[1] /\ y.refcount = IF it \in G THEN 1 ELSE 0
  PROVE  LET r == Blocked(t, it, y)
         IN  /\ CacheInv(r, G) /\ LinkedIn(r) = LinkedIn(t)
             /\ r.item[it] = y /\ \A i \in Item : i # it => r.item[i] = t.item[i]
<1> DEFINE X == [t.item EXCEPT ![it] = y]
           r == Blocked(t, it, y)
<1>0. Heap(t) /\ Held(t, H) /\ Fields(t)
  BY DEF CacheInv
<1>1. /\ X \in [Item -> ItemRec \cup {Free}] /\ X[it] = y
      /\ \A i \in Item : i # it => X[i] = t.item[i]
  BY <1>0, BlockUpdate
<1> HIDE DEF X
<1>2. /\ Fields(r) /\ r.item = X /\ r.lru = t.lru /\ r.curr_items = t.curr_items
      /\ SameTables(t, r)
  BY <1>0, SetItem DEF Blocked, X
<1> HIDE DEF r
<1>3. LinkedIn(r) = LinkedIn(t)
  BY <1>1, <1>2 DEF LinkedIn
<1>4. Tabled(r) /\ Chains(r)
  BY <1>2, <1>3, TablesCarry DEF CacheInv, Chains
<1>5. Heap(r)
  BY <1>0, <1>1, <1>2 DEF Heap
<1>6. Listed(r)
  BY <1>2, <1>3 DEF CacheInv, Listed, SameTables
<1>7. Held(r, G)
  BY <1>0, <1>1, <1>2, <1>3 DEF Held
<1> QED
  BY <1>1, <1>2, <1>3, <1>4, <1>5, <1>6, <1>7 DEF CacheInv, r

\* The record of a live item.
LEMMA LiveItem ==
  ASSUME NEW t, NEW H, CacheInv(t, H), NEW it \in LinkedIn(t) \cup H
  PROVE  /\ it \in Item /\ it # NoItem /\ t.item[it] # Free /\ t.item[it] \in ItemRec
         /\ t.item[it].key = it[1] /\ it[1] \in Key
         /\ t.item[it].refcount = IF it \in H THEN 1 ELSE 0
         /\ t.item[it].linked <=> it \in LinkedIn(t)
<1>1. it \in Item /\ it # NoItem /\ it[1] \in Key
  BY StoreAssumption DEF CacheInv, Held, LinkedIn, Item
<1>2. t.item[it] # Free /\ t.item[it] \in ItemRec
  BY <1>1, RecFacts DEF CacheInv, Held
<1> QED
  BY <1>1, <1>2 DEF CacheInv, Held, Heap, LinkedIn

\* A reference is taken.
LEMMA RefStep ==
  ASSUME NEW t, NEW H, CacheInv(t, H), NEW it \in LinkedIn(t), it \notin H
  PROVE  LET r == WithRef(t, it).s
         IN  CacheInv(r, H \cup {it}) /\ LinkedIn(r) = LinkedIn(t) /\ SameData(t, r)
<1> DEFINE x == t.item[it]
           y == [x EXCEPT !.refcount = 1]
           r == Blocked(t, it, y)
           G == H \cup {it}
<1>1. /\ it \in Item /\ it # NoItem /\ x # Free /\ x \in ItemRec /\ x.key = it[1]
      /\ x.refcount = 0 /\ x.linked
  BY LiveItem
<1>2. WithRef(t, it).s = r
  <2>1. WithRef(t, it).s = [t EXCEPT !.item[it].refcount = @ + 1]
    BY <1>1 DEF WithRef
  <2>2. x.refcount + 1 = 1
    BY <1>1
  <2> QED
    BY <2>1, <2>2 DEF Blocked
<1>3. /\ y \in ItemRec /\ y.refcount = 1 /\ y.key = x.key
      /\ y.data = x.data /\ y.linked = x.linked
  <2>1. 1 \in Nat /\ x \in ItemRec
    BY <1>1
  <2> HIDE DEF x
  <2> QED
    BY <2>1, RecUpdate
<1>4. y # Free
  BY <1>3, RecFacts
<1>5. G \in SUBSET Item /\ it \in G /\ \A i \in Item : i # it => (i \in G <=> i \in H)
  BY <1>1 DEF CacheInv, Held
<1> HIDE DEF G, x, y, r
<1>6. /\ CacheInv(r, G) /\ LinkedIn(r) = LinkedIn(t)
      /\ r.item[it] = y /\ \A i \in Item : i # it => r.item[i] = t.item[i]
  <2>1. y \in ItemRec \cup {Free} /\ it \in LinkedIn(t)
    BY <1>3
  <2>2. /\ (y # Free /\ y.linked) <=> it \in LinkedIn(t)
        /\ y # Free <=> it \in LinkedIn(t) \cup G
        /\ y # Free => y.key = it[1] /\ y.refcount = IF it \in G THEN 1 ELSE 0
    BY <1>1, <1>3, <1>4, <1>5
  <2> QED
    BY <1>1, <1>5, <2>1, <2>2, BlockStep DEF r
<1>7. SameData(t, r)
  BY <1>3, <1>6 DEF SameData, x
<1> QED
  BY <1>2, <1>6, <1>7 DEF G

\* do_item_remove(): a reference is given up.
LEMMA RemoveStep ==
  ASSUME NEW t, NEW H, CacheInv(t, H), NEW it \in H
  PROVE  LET r == do_item_remove(t, it)
         IN  CacheInv(r, H \ {it}) /\ LinkedIn(r) = LinkedIn(t) /\ SameData(t, r)
<1> DEFINE x == t.item[it]
           z == [x EXCEPT !.refcount = 0]
           y == IF it \in LinkedIn(t) THEN z ELSE Free
           r == Blocked(t, it, y)
           G == H \ {it}
           u == Blocked(t, it, z)
<1>1. /\ it \in Item /\ x # Free /\ x \in ItemRec /\ x.key = it[1]
      /\ x.refcount = 1 /\ (x.linked <=> it \in LinkedIn(t))
  BY LiveItem
<1>2. /\ z \in ItemRec /\ z.refcount = 0 /\ z.key = x.key
      /\ z.data = x.data /\ z.linked = x.linked
  <2> HIDE DEF x
  <2> QED
    BY <1>1, RecUpdate
<1>3. Heap(t) /\ Fields(t) /\ t.item \in [Item -> ItemRec \cup {Free}]
  BY DEF CacheInv, Heap
<1>4. do_item_remove(t, it) = FreeUnused(u, it)
  <2>1. (IF x.refcount = 0 THEN 0 ELSE x.refcount - 1) = 0
    BY <1>1
  <2> QED
    BY <2>1 DEF do_item_remove, Blocked
<1> HIDE DEF x, z
<1>5. u.item = [t.item EXCEPT ![it] = z] /\ u.item[it] = z
  BY <1>1, <1>3, SetItem DEF Blocked
<1>6. do_item_remove(t, it) = r
  <2>1. CASE it \in LinkedIn(t)
    <3>1. FreeUnused(u, it) = u
      <4> HIDE DEF u
      <4> QED
        BY <1>1, <1>2, <1>5, <2>1 DEF FreeUnused
    <3> QED
      BY <1>4, <2>1, <3>1
  <2>2. CASE it \notin LinkedIn(t)
    <3>1. FreeUnused(u, it) = [u EXCEPT !.item[it] = Free]
      <4> HIDE DEF u
      <4> QED
        BY <1>1, <1>2, <1>5, <2>2 DEF FreeUnused, item_free
    <3>2. [u EXCEPT !.item[it] = Free] = [u EXCEPT !.item = [u.item EXCEPT ![it] = Free]]
      OBVIOUS
    <3>3. [u.item EXCEPT ![it] = Free] = [t.item EXCEPT ![it] = Free]
      BY <1>3, <1>5
    <3>4. [u EXCEPT !.item = [t.item EXCEPT ![it] = Free]] = r
      BY <1>3, <2>2 DEF Blocked, Fields
    <3> QED
      BY <1>4, <3>1, <3>2, <3>3, <3>4
  <2> QED
    BY <2>1, <2>2
<1>7. G \in SUBSET Item /\ it \notin G /\ \A i \in Item : i # it => (i \in G <=> i \in H)
  BY <1>1 DEF CacheInv, Held
<1>8. /\ y \in ItemRec \cup {Free} /\ (y # Free <=> it \in LinkedIn(t))
      /\ y # Free => y = z
  BY <1>2, RecFacts
<1> HIDE DEF G, y, r
<1>9. /\ CacheInv(r, G) /\ LinkedIn(r) = LinkedIn(t)
      /\ r.item[it] = y /\ \A i \in Item : i # it => r.item[i] = t.item[i]
  BY <1>1, <1>2, <1>7, <1>8, BlockStep DEF r
<1>10. SameData(t, r)
  BY <1>1, <1>2, <1>8, <1>9 DEF SameData, x
<1> QED
  BY <1>6, <1>9, <1>10 DEF G

\* A block of key k is free.
HasFree(t, k) == \E m \in 1 .. 3 : t.item[<<k, m>>] = Free

\* do_item_alloc(), when key k has a block left.
LEMMA AllocStep ==
  ASSUME NEW t, NEW H, CacheInv(t, H), NEW k \in Key, NEW n \in Nat, n # 0, HasFree(t, k)
  PROVE  LET it == FreeItem(t, k)
             r == do_item_alloc(t, k, n)
         IN  /\ it \in Item /\ it[1] = k /\ it \notin LinkedIn(t) /\ it \notin H
             /\ CacheInv(r, H \cup {it}) /\ LinkedIn(r) = LinkedIn(t) /\ SameData(t, r)
             /\ Len(r.item[it].data) = n
<1> DEFINE it == FreeItem(t, k)
           d == [i \in 1 .. n |-> Junk]
           y == [key |-> k, data |-> d, refcount |-> 1, linked |-> FALSE]
           r == Blocked(t, it, y)
           G == H \cup {it}
<1>1. it \in Item /\ it[1] = k /\ t.item[it] = Free
  <2> DEFINE m == CHOOSE l \in 1 .. 3 : t.item[<<k, l>>] = Free
  <2>1. m \in 1 .. 3 /\ t.item[<<k, m>>] = Free
    BY DEF HasFree
  <2>2. it = <<k, m>>
    BY DEF FreeItem
  <2> HIDE DEF m
  <2> QED
    BY <2>1, <2>2 DEF Item
<1>2. do_item_alloc(t, k, n) = r
  BY DEF do_item_alloc, Blocked
<1> HIDE DEF it
<1>3. it \notin LinkedIn(t) /\ it \notin H
  BY <1>1 DEF CacheInv, Held
<1>4. d \in Value
  <2>1. d \in Seq(Unit)
    BY UnitFacts
  <2>2. Len(d) = n
    OBVIOUS
  <2>3. d # <<>>
    BY <2>2
  <2> QED
    BY <2>1, <2>3 DEF Value
<1>11. Len(d) = n
  OBVIOUS
<1> HIDE DEF d
<1>5. /\ y \in ItemRec /\ y.key = k /\ y.data = d /\ y.refcount = 1 /\ y.linked = FALSE
  BY <1>4 DEF ItemRec
<1>6. y # Free
  BY <1>5, RecFacts
<1>7. G \in SUBSET Item /\ it \in G /\ \A i \in Item : i # it => (i \in G <=> i \in H)
  BY <1>1 DEF CacheInv, Held
<1> HIDE DEF G, y, r
<1>8. /\ CacheInv(r, G) /\ LinkedIn(r) = LinkedIn(t)
      /\ r.item[it] = y /\ \A i \in Item : i # it => r.item[i] = t.item[i]
  <2>1. y \in ItemRec \cup {Free}
    BY <1>5
  <2>2. /\ (y # Free /\ y.linked) <=> it \in LinkedIn(t)
        /\ y # Free <=> it \in LinkedIn(t) \cup G
        /\ y # Free => y.key = it[1] /\ y.refcount = IF it \in G THEN 1 ELSE 0
    BY <1>1, <1>3, <1>5, <1>6, <1>7
  <2> QED
    BY <1>1, <1>7, <2>1, <2>2, BlockStep DEF r
<1>9. SameData(t, r)
  BY <1>1, <1>8 DEF SameData
<1>10. r.item[it].data = d
  BY <1>5, <1>8
<1> QED
  BY <1>1, <1>2, <1>3, <1>8, <1>9, <1>10, <1>11 DEF G, it

\* The data of a held item is written.
LEMMA DataStep ==
  ASSUME NEW t, NEW H, CacheInv(t, H), NEW it \in H, NEW d \in Value
  PROVE  LET r == [t EXCEPT !.item[it].data = d]
         IN  /\ CacheInv(r, H) /\ LinkedIn(r) = LinkedIn(t)
             /\ r.item[it].data = d /\ \A i \in Item : i # it => r.item[i] = t.item[i]
<1> DEFINE x == t.item[it]
           y == [x EXCEPT !.data = d]
           r == Blocked(t, it, y)
<1>1. /\ it \in Item /\ x # Free /\ x \in ItemRec /\ x.key = it[1]
      /\ x.refcount = 1 /\ (x.linked <=> it \in LinkedIn(t))
  BY LiveItem
<1>2. [t EXCEPT !.item[it].data = d] = r
  BY DEF Blocked
<1>3. /\ y \in ItemRec /\ y.data = d /\ y.key = x.key
      /\ y.linked = x.linked /\ y.refcount = x.refcount
  <2> HIDE DEF x
  <2> QED
    BY <1>1, RecUpdate
<1>4. y # Free
  BY <1>3, RecFacts
<1>5. H \in SUBSET Item
  BY DEF CacheInv, Held
<1> HIDE DEF x, y, r
<1>6. /\ CacheInv(r, H) /\ LinkedIn(r) = LinkedIn(t)
      /\ r.item[it] = y /\ \A i \in Item : i # it => r.item[i] = t.item[i]
  <2>1. y \in ItemRec \cup {Free} /\ \A i \in Item : i # it => (i \in H <=> i \in H)
    BY <1>3
  <2>2. /\ (y # Free /\ y.linked) <=> it \in LinkedIn(t)
        /\ y # Free <=> it \in LinkedIn(t) \cup H
        /\ y # Free => y.key = it[1] /\ y.refcount = IF it \in H THEN 1 ELSE 0
    BY <1>1, <1>3, <1>4
  <2> QED
    BY <1>1, <1>5, <2>1, <2>2, BlockStep DEF r
<1> QED
  BY <1>2, <1>3, <1>6

\* Where the LRU list has a linked item, and the list without it.
LEMMA LruWithout ==
  ASSUME NEW q \in Seq(Item), NoDup(q), NEW it \in Members(q)
  PROVE  /\ Without(q, it) \in Seq(Item) /\ NoDup(Without(q, it))
         /\ Members(Without(q, it)) = Members(q) \ {it} /\ Len(Without(q, it)) = Len(q) - 1
<1> DEFINE j == CHOOSE l \in DOMAIN q : q[l] = it
<1>1. DOMAIN q = 1 .. Len(q)
  OBVIOUS
<1>2. \E l \in DOMAIN q : q[l] = it
  BY <1>1 DEF Members
<1>3. j \in DOMAIN q /\ q[j] = it
  BY <1>2
<1>4. Without(q, it) = RemoveAt(q, j)
  BY DEF Without
<1> HIDE DEF j
<1>5. j \in 1 .. Len(q)
  BY <1>1, <1>3
<1>6. /\ RemoveAt(q, j) \in Seq(Item) /\ Len(RemoveAt(q, j)) = Len(q) - 1
      /\ NoDup(RemoveAt(q, j)) /\ Members(RemoveAt(q, j)) = Members(q) \ {q[j]}
  BY <1>5, RemoveFacts
<1> QED
  BY <1>3, <1>4, <1>6

\* do_item_update() moves the item to the front of the LRU list.
LEMMA UpdateStep ==
  ASSUME NEW t, NEW H, CacheInv(t, H), NEW it \in LinkedIn(t), NEW idle \in BOOLEAN
  PROVE  LET r == do_item_update(t, it, idle)
         IN  CacheInv(r, H) /\ LinkedIn(r) = LinkedIn(t) /\ r.item = t.item
<1> DEFINE r == do_item_update(t, it, idle)
           w == Without(t.lru, it)
<1>1. it \in Item /\ t.lru \in Seq(Item) /\ NoDup(t.lru) /\ Members(t.lru) = LinkedIn(t) /\ Fields(t)
  BY DEF CacheInv, Listed, LinkedIn
<1>2. CASE idle /\ t.item[it].linked
  <2>1. r = item_link_q(item_unlink_q(t, it), it)
    BY <1>2 DEF do_item_update
  <2>2. r = [t EXCEPT !.lru = Cons(it, w)]
    <3> DEFINE u == [t EXCEPT !.lru = w]
    <3>1. item_unlink_q(t, it) = u /\ item_link_q(u, it) = [u EXCEPT !.lru = Cons(it, @)]
      BY DEF item_unlink_q, item_link_q
    <3>2. u.lru = w
      BY <1>1, SetLru
    <3>3. item_link_q(u, it) = [u EXCEPT !.lru = Cons(it, w)]
      BY <3>1, <3>2
    <3> HIDE DEF w
    <3>4. [u EXCEPT !.lru = Cons(it, w)] = [t EXCEPT !.lru = Cons(it, w)]
      BY <1>1 DEF Fields
    <3> QED
      BY <2>1, <3>1, <3>3, <3>4
  <2>3. w \in Seq(Item) /\ NoDup(w) /\ Members(w) = LinkedIn(t) \ {it} /\ Len(w) = Len(t.lru) - 1
    BY <1>1, LruWithout
  <2> DEFINE c == Cons(it, w)
  <2> HIDE DEF w
  <2>4. c \in Seq(Item) /\ NoDup(c) /\ Members(c) = LinkedIn(t) /\ Len(c) = Len(t.lru)
    <3>1. /\ c \in Seq(Item) /\ NoDup(c) /\ Members(c) = Members(w) \cup {it}
          /\ Len(c) = Len(w) + 1
      BY <1>1, <2>3, ConsFacts
    <3>2. Len(t.lru) \in Nat
      BY <1>1
    <3> HIDE DEF c
    <3> QED
      BY <2>3, <3>1, <3>2
  <2> HIDE DEF c, r
  <2>5. /\ Fields(r) /\ r.lru = c /\ r.item = t.item /\ r.curr_items = t.curr_items
        /\ SameTables(t, r)
    BY <1>1, <2>2, SetLru DEF c
  <2>6. LinkedIn(r) = LinkedIn(t)
    BY <2>5 DEF LinkedIn
  <2>7. Tabled(r) /\ Chains(r)
    BY <2>5, <2>6, TablesCarry DEF CacheInv, Chains
  <2>8. Heap(r) /\ Held(r, H)
    BY <2>5, <2>6 DEF CacheInv, Heap, Held
  <2>9. Listed(r)
    BY <2>4, <2>5, <2>6 DEF CacheInv, Listed, SameTables
  <2> QED
    BY <2>5, <2>6, <2>7, <2>8, <2>9 DEF CacheInv, r
<1>3. CASE ~ (idle /\ t.item[it].linked)
  BY <1>3 DEF do_item_update
<1> QED
  BY <1>2, <1>3

\* do_item_link() of a held item whose key is not linked.
LEMMA LinkStep ==
  ASSUME NEW t, NEW H, CacheInv(t, H), NEW it \in H, it \notin LinkedIn(t),
         \A j \in LinkedIn(t) : j[1] # it[1], NEW mem \in BOOLEAN
  PROVE  LET r == do_item_link(t, it, mem)
         IN  CacheInv(r, H) /\ LinkedIn(r) = LinkedIn(t) \cup {it} /\ SameData(t, r)
<1> DEFINE x == t.item[it]
           y == [x EXCEPT !.linked = TRUE]
           u == Blocked(t, it, y)
           a == assoc_insert(u, it, mem)
           b == [a EXCEPT !.curr_items = @ + 1]
           r == item_link_q(b, it)
           L == LinkedIn(t)
           M == L \cup {it}
<1>1. /\ it \in Item /\ x # Free /\ x \in ItemRec /\ x.key = it[1]
      /\ x.refcount = 1
  BY LiveItem
<1>2. do_item_link(t, it, mem) = r
  BY DEF do_item_link, Blocked
<1>3. /\ y \in ItemRec /\ y.data = x.data /\ y.key = x.key
      /\ y.linked = TRUE /\ y.refcount = x.refcount
  <2> HIDE DEF x
  <2> QED
    BY <1>1, RecUpdate
<1>4. y # Free
  BY <1>3, RecFacts
<1>5. Fields(t) /\ Heap(t) /\ Tabled(t) /\ Chains(t) /\ Listed(t) /\ Held(t, H)
  BY DEF CacheInv
<1> DEFINE X == [t.item EXCEPT ![it] = y]
<1>6. /\ X \in [Item -> ItemRec \cup {Free}] /\ X[it] = y
      /\ \A i \in Item : i # it => X[i] = t.item[i]
  <2>1. y \in ItemRec \cup {Free}
    BY <1>3
  <2> HIDE DEF y
  <2> QED
    BY <1>1, <1>5, <2>1, BlockUpdate
<1> HIDE DEF X
<1>7. /\ Fields(u) /\ u.item = X /\ u.lru = t.lru /\ u.curr_items = t.curr_items
      /\ SameTables(t, u)
  BY <1>5, SetItem DEF Blocked, X
<1> HIDE DEF x, y, u
<1>8. L \in SUBSET Item /\ M \in SUBSET Item /\ IsFiniteSet(L) /\ it \notin L
  BY <1>1, LinkedFinite
<1>9. Tabled(u) /\ ChainsOf(u, L)
  BY <1>5, <1>7, TablesCarry DEF Chains
<1>10. \A i \in M : u.item[i].key = i[1]
  <2>1. \A i \in L : t.item[i].key = i[1]
    BY LiveItem
  <2> QED
    BY <1>1, <1>3, <1>6, <1>7, <1>8, <2>1
<1>11. Retabled(u, a, u.hash_items + 1) /\ Tabled(a) /\ ChainsOf(a, M)
  <2> HIDE DEF L
  <2> QED
    BY <1>1, <1>7, <1>8, <1>9, <1>10, InsertAll
<1> HIDE DEF a
<1>12. /\ Fields(b) /\ b.curr_items = t.curr_items + 1 /\ b.item = X /\ b.lru = t.lru
       /\ SameTables(a, b) /\ a.hash_items = t.hash_items + 1
  <2>1. a.curr_items = t.curr_items /\ a.item = X /\ a.lru = t.lru /\ Fields(a)
        /\ a.hash_items = t.hash_items + 1
    BY <1>7, <1>11 DEF Retabled, SameTables
  <2> QED
    BY <2>1, SetCurr
<1> HIDE DEF b
<1> DEFINE c == Cons(it, t.lru)
<1>13. /\ c \in Seq(Item) /\ NoDup(c) /\ Members(c) = M /\ Len(c) = Len(t.lru) + 1
  BY <1>1, <1>5, <1>8, ConsFacts DEF Listed
<1>14. r = [b EXCEPT !.lru = c]
  BY <1>12 DEF item_link_q
<1> HIDE DEF c, r
<1>15. /\ Fields(r) /\ r.lru = c /\ r.item = X /\ r.curr_items = t.curr_items + 1
       /\ SameTables(b, r)
  BY <1>12, <1>14, SetLru
<1>16. SameTables(a, r)
  BY <1>12, <1>15 DEF SameTables, SamePlaces
<1>17. LinkedIn(r) = M
  BY <1>1, <1>3, <1>4, <1>6, <1>15 DEF LinkedIn
<1>18. Tabled(r) /\ ChainsOf(r, M)
  BY <1>11, <1>16, TablesCarry
<1>19. Unique(M)
  BY <1>5 DEF Chains, Unique
<1>20. Heap(r)
  BY <1>1, <1>3, <1>5, <1>6, <1>15 DEF Heap
<1>21. Held(r, H)
  <2>1. \A i \in Item : r.item[i] # Free <=> t.item[i] # Free
    BY <1>1, <1>4, <1>6, <1>15 DEF x
  <2>2. \A i \in Item : r.item[i] # Free => r.item[i].refcount = t.item[i].refcount
    BY <1>1, <1>3, <1>6, <1>15 DEF x
  <2> QED
    BY <1>5, <1>17, <2>1, <2>2 DEF Held
<1>22. Listed(r)
  <2>1. Cardinality(M) = Cardinality(L) + 1
    BY <1>8, FS_AddElement
  <2> QED
    BY <1>5, <1>12, <1>13, <1>15, <1>16, <1>17, <2>1 DEF Listed, SameTables
<1>23. SameData(t, r)
  BY <1>3, <1>6, <1>15 DEF SameData, x
<1> QED
  BY <1>2, <1>15, <1>17, <1>18, <1>19, <1>20, <1>21, <1>22, <1>23 DEF CacheInv, Chains

\* do_item_unlink() of a linked item that somebody holds.
LEMMA UnlinkStep ==
  ASSUME NEW t, NEW H, CacheInv(t, H), NEW it \in H, it \in LinkedIn(t)
  PROVE  LET r == do_item_unlink(t, it)
         IN  CacheInv(r, H) /\ LinkedIn(r) = LinkedIn(t) \ {it} /\ SameData(t, r)
<1> DEFINE x == t.item[it]
           y == [x EXCEPT !.linked = FALSE]
           u == Blocked(t, it, y)
           b == [u EXCEPT !.curr_items = @ - 1]
           a == assoc_delete(b, it[1])
           r == item_unlink_q(a, it)
           L == LinkedIn(t)
           M == L \ {it}
<1>1. /\ it \in Item /\ x # Free /\ x \in ItemRec /\ x.key = it[1]
      /\ x.refcount = 1 /\ x.linked
  BY LiveItem
<1>2. Unlinked(t, it) = r
  <2>1. [t EXCEPT !.item[it].linked = FALSE, !.curr_items = @ - 1] = b
    BY DEF Blocked, CacheInv, Fields
  <2> HIDE DEF b
  <2> QED
    BY <1>1, <2>1 DEF Unlinked
<1>3. /\ y \in ItemRec /\ y.data = x.data /\ y.key = x.key
      /\ y.linked = FALSE /\ y.refcount = x.refcount
  <2> HIDE DEF x
  <2> QED
    BY <1>1, RecUpdate
<1>4. y # Free
  BY <1>3, RecFacts
<1>5. Fields(t) /\ Heap(t) /\ Tabled(t) /\ Chains(t) /\ Listed(t) /\ Held(t, H)
  BY DEF CacheInv
<1> DEFINE X == [t.item EXCEPT ![it] = y]
<1>6. /\ X \in [Item -> ItemRec \cup {Free}] /\ X[it] = y
      /\ \A i \in Item : i # it => X[i] = t.item[i]
  <2>1. y \in ItemRec \cup {Free}
    BY <1>3
  <2> HIDE DEF y
  <2> QED
    BY <1>1, <1>5, <2>1, BlockUpdate
<1> HIDE DEF X
<1>7. /\ Fields(u) /\ u.item = X /\ u.lru = t.lru /\ u.curr_items = t.curr_items
      /\ SameTables(t, u)
  BY <1>5, SetItem DEF Blocked, X
<1>0. do_item_unlink(t, it) = FreeUnused(r, it)
  BY <1>1, <1>2 DEF do_item_unlink
<1> HIDE DEF x, y, u
<1>8. L \in SUBSET Item /\ M \in SUBSET Item /\ IsFiniteSet(L) /\ it \in L
  BY <1>1, LinkedFinite
<1>9. /\ Fields(b) /\ b.curr_items = t.curr_items - 1 /\ b.item = X /\ b.lru = t.lru
      /\ SameTables(u, b)
  BY <1>7, SetCurr
<1> HIDE DEF b
<1>10. SameTables(t, b)
  BY <1>7, <1>9 DEF SameTables, SamePlaces
<1>11. Tabled(b) /\ ChainsOf(b, L) /\ Unique(L)
  BY <1>5, <1>10, TablesCarry DEF Chains
<1>12. \A i \in L : b.item[i].key = i[1]
  <2>1. \A i \in L : t.item[i].key = i[1]
    BY LiveItem
  <2> QED
    BY <1>1, <1>3, <1>6, <1>8, <1>9, <2>1
<1>13. Retabled(b, a, b.hash_items - 1) /\ Tabled(a) /\ ChainsOf(a, M)
  <2> HIDE DEF L
  <2> QED
    BY <1>8, <1>9, <1>11, <1>12, DeleteTables
<1> HIDE DEF a
<1>14. /\ Fields(a) /\ a.item = X /\ a.lru = t.lru /\ a.curr_items = t.curr_items - 1
       /\ a.hash_items = t.hash_items - 1
  BY <1>9, <1>10, <1>13 DEF Retabled, SameTables
<1> DEFINE c == Without(t.lru, it)
<1>15. /\ c \in Seq(Item) /\ NoDup(c) /\ Members(c) = M /\ Len(c) = Len(t.lru) - 1
  BY <1>5, LruWithout DEF Listed
<1>16. r = [a EXCEPT !.lru = c]
  BY <1>14 DEF item_unlink_q
<1> HIDE DEF c, r
<1>17. /\ Fields(r) /\ r.lru = c /\ r.item = X /\ r.curr_items = t.curr_items - 1
       /\ SameTables(a, r)
  BY <1>14, <1>16, SetLru
<1>18. LinkedIn(r) = M
  BY <1>1, <1>3, <1>6, <1>17 DEF LinkedIn
<1>19. Tabled(r) /\ ChainsOf(r, M)
  BY <1>13, <1>17, TablesCarry
<1>20. Unique(M)
  BY <1>11 DEF Unique
<1>21. Heap(r)
  BY <1>1, <1>3, <1>5, <1>6, <1>17 DEF Heap
<1>22. Held(r, H)
  <2>1. \A i \in Item : r.item[i] # Free <=> t.item[i] # Free
    BY <1>1, <1>4, <1>6, <1>17 DEF x
  <2>2. \A i \in Item : r.item[i] # Free => r.item[i].refcount = t.item[i].refcount
    BY <1>1, <1>3, <1>6, <1>17 DEF x
  <2> QED
    BY <1>5, <1>18, <2>1, <2>2 DEF Held
<1>23. Listed(r)
  <2>1. Cardinality(M) = Cardinality(L) - 1
    BY <1>8, FS_RemoveElement
  <2> QED
    BY <1>5, <1>14, <1>15, <1>17, <1>18, <2>1 DEF Listed, SameTables
<1>24. SameData(t, r)
  BY <1>3, <1>6, <1>17 DEF SameData, x
<1>25. FreeUnused(r, it) = r
  <2>1. r.item[it].refcount = 1
    BY <1>1, <1>3, <1>6, <1>17
  <2> QED
    BY <2>1 DEF FreeUnused
<1> QED
  BY <1>0, <1>17, <1>18, <1>19, <1>20, <1>21, <1>22, <1>23, <1>24, <1>25 DEF CacheInv, Chains

\* item_get() takes a reference to the linked item of the key, if there is one.
LEMMA GetStep ==
  ASSUME NEW t, NEW H, CacheInv(t, H), NEW k \in Key
  PROVE  LET g == item_get(t, k)
         IN  \/ g.it = NoItem /\ g.s = t /\ \A j \in LinkedIn(t) : j[1] # k
             \/ /\ g.it \in LinkedIn(t) /\ g.it[1] = k
                /\ g.it \notin H =>
                     /\ CacheInv(g.s, H \cup {g.it}) /\ LinkedIn(g.s) = LinkedIn(t)
                     /\ SameData(t, g.s)
<1> DEFINE L == LinkedIn(t)
           i == assoc_find(t, k)
<1>1. L \in SUBSET Item /\ Tabled(t) /\ ChainsOf(t, L) /\ Unique(L)
  BY LinkedFinite DEF CacheInv, Chains
<1>2. \A j \in L : t.item[j].key = j[1]
  BY LiveItem
<1>3. /\ \A j \in L : assoc_find(t, j[1]) = j
      /\ \A l \in Key : (\A j \in L : j[1] # l) => assoc_find(t, l) = NoItem
  <2> HIDE DEF L
  <2> QED
    BY <1>1, <1>2, FindFacts
<1>4. item_get(t, k) = WithRef(t, i)
  BY DEF item_get
<1>5. CASE \A j \in L : j[1] # k
  <2>1. i = NoItem
    BY <1>3, <1>5
  <2>2. item_get(t, k).it = NoItem /\ item_get(t, k).s = t
    BY <1>4, <2>1 DEF WithRef
  <2> QED
    BY <1>5, <2>2
<1>6. CASE ~ \A j \in L : j[1] # k
  <2>1. PICK j \in L : j[1] = k
    BY <1>6
  <2>2. i = j
    BY <1>3, <2>1
  <2>3. WithRef(t, j).it = j
    BY DEF WithRef
  <2> QED
    BY <1>4, <2>1, <2>2, <2>3, RefStep
<1> QED
  BY <1>5, <1>6

----------------------------------------------------------------------------
(* The functions of memcached.c that work on the cache.                    *)

\* Of the three blocks of a key one is free when at most two are in use.
LEMMA FreeExists ==
  ASSUME NEW t, NEW H, CacheInv(t, H), NEW k \in Key, NEW a, NEW b,
         \A i \in LinkedIn(t) \cup H : i[1] = k => i = a \/ i = b
  PROVE  HasFree(t, k)
<1> SUFFICES ASSUME \A m \in 1 .. 3 : t.item[<<k, m>>] # Free PROVE FALSE
  BY DEF HasFree
<1>1. ASSUME NEW m \in 1 .. 3 PROVE <<k, m>> = a \/ <<k, m>> = b
  <2>1. <<k, m>> \in Item /\ <<k, m>>[1] = k
    BY DEF Item
  <2>2. <<k, m>> \in LinkedIn(t) \cup H
    BY <2>1 DEF CacheInv, Held
  <2> QED
    BY <2>1, <2>2
<1>2. 1 \in 1 .. 3 /\ 2 \in 1 .. 3 /\ 3 \in 1 .. 3
  OBVIOUS
<1>3. <<k, 1>> # <<k, 2>> /\ <<k, 1>> # <<k, 3>> /\ <<k, 2>> # <<k, 3>>
  OBVIOUS
<1> QED
  BY <1>1, <1>2, <1>3

\* Data kept by two changes, the second of which puts nothing into a free block.
LEMMA SameDataTrans ==
  ASSUME NEW t, NEW u, NEW r, NEW G, NEW J, CacheInv(u, G), CacheInv(r, J),
         SameData(t, u), SameData(u, r), LinkedIn(r) \cup J \subseteq LinkedIn(u) \cup G
  PROVE  SameData(t, r)
<1> SUFFICES ASSUME NEW i \in Item, t.item[i] # Free, r.item[i] # Free
             PROVE  r.item[i].data = t.item[i].data
  BY DEF SameData
<1>1. i \in LinkedIn(r) \cup J
  BY DEF CacheInv, Held
<1>2. u.item[i] # Free
  BY <1>1 DEF CacheInv, Held
<1> QED
  BY <1>2 DEF SameData

\* The last part of do_store_item(): it takes the place of the old item.
LEMMA PutStep ==
  ASSUME NEW t, NEW H, CacheInv(t, H), NEW it \in H, it \notin LinkedIn(t), NEW mem \in BOOLEAN,
         NEW old, \/ old = NoItem /\ \A j \in LinkedIn(t) : j[1] # it[1]
                  \/ old \in H /\ old \in LinkedIn(t) /\ old[1] = it[1]
  PROVE  LET r == Put(t, old, it, mem)
         IN  /\ CacheInv(r, H \ {old}) /\ LinkedIn(r) = (LinkedIn(t) \ {old}) \cup {it}
             /\ SameData(t, r)
<1> DEFINE r == Put(t, old, it, mem)
<1>1. CASE old = NoItem /\ \A j \in LinkedIn(t) : j[1] # it[1]
  <2>1. r = do_item_link(t, it, mem)
    BY <1>1 DEF Put, Release
  <2>2. CacheInv(r, H) /\ LinkedIn(r) = LinkedIn(t) \cup {it} /\ SameData(t, r)
    BY <1>1, <2>1, LinkStep
  <2>3. old \notin LinkedIn(t) /\ old \notin H
    BY <1>1, StoreAssumption DEF LinkedIn, CacheInv, Held
  <2>4. H \ {old} = H /\ LinkedIn(t) \ {old} = LinkedIn(t)
    BY <2>3
  <2> QED
    BY <2>2, <2>4
<1>2. CASE old \in H /\ old \in LinkedIn(t) /\ old[1] = it[1]
  <2> DEFINE u == do_item_unlink(t, old)
             v == do_item_link(u, it, mem)
  <2>1. old # NoItem /\ old # it
    BY <1>2, StoreAssumption DEF LinkedIn
  <2>2. r = do_item_remove(v, old)
    BY <2>1 DEF Put, Release, do_item_replace
  <2>3. CacheInv(u, H) /\ LinkedIn(u) = LinkedIn(t) \ {old} /\ SameData(t, u)
    BY <1>2, UnlinkStep
  <2>4. it \notin LinkedIn(u) /\ \A j \in LinkedIn(u) : j[1] # it[1]
    BY <1>2, <2>3 DEF CacheInv, Chains, Unique
  <2> HIDE DEF u
  <2>5. CacheInv(v, H) /\ LinkedIn(v) = LinkedIn(u) \cup {it} /\ SameData(u, v)
    BY <2>3, <2>4, LinkStep
  <2> HIDE DEF v
  <2>6. CacheInv(r, H \ {old}) /\ LinkedIn(r) = LinkedIn(v) /\ SameData(v, r)
    BY <1>2, <2>2, <2>5, RemoveStep
  <2> HIDE DEF r
  <2>7. SameData(t, v)
    <3>1. LinkedIn(v) \cup H \subseteq LinkedIn(u) \cup H
      BY <2>5
    <3> QED
      BY <2>3, <2>5, <3>1, SameDataTrans
  <2>8. SameData(t, r)
    <3>1. LinkedIn(r) \cup (H \ {old}) \subseteq LinkedIn(v) \cup H
      BY <2>6
    <3> QED
      BY <2>5, <2>6, <2>7, <3>1, SameDataTrans
  <2> QED
    BY <2>3, <2>5, <2>6, <2>8 DEF r
<1> QED
  BY <1>1, <1>2

\* r is t with a new item in the place of the old one, and with it held.
Joins(t, r, it, old, new, d) ==
  /\ new \in Item /\ new[1] = it[1] /\ new # it /\ new \notin LinkedIn(t)
  /\ CacheInv(r, {it}) /\ LinkedIn(r) = (LinkedIn(t) \ {old}) \cup {new}
  /\ SameData(t, r) /\ r.item[new].data = d

\* The joined item of an append or a prepend takes the place of the old one.
LEMMA JoinStep ==
  ASSUME NEW t, NEW it, NEW old, CacheInv(t, {it, old}), it \notin LinkedIn(t),
         old \in LinkedIn(t), old[1] = it[1], NEW d \in Value, NEW mem \in BOOLEAN
  PROVE  LET new == FreeItem(t, it[1])
             r == PutJoined(t, old, new, it[1], d, mem)
         IN  Joins(t, r, it, old, new, d)
<1> DEFINE k == it[1]
           new == FreeItem(t, k)
           a == do_item_alloc(t, k, Len(d))
           u == [a EXCEPT !.item[new].data = d]
           v == Put(u, old, new, mem)
           r == PutJoined(t, old, new, k, d, mem)
           H == {it, old}
<1>1. it \in Item /\ old \in Item /\ k \in Key /\ it # old
  <2>1. it \in LinkedIn(t) \cup H
    OBVIOUS
  <2>2. it \in Item /\ k \in Key
    BY <2>1, LiveItem
  <2> QED
    BY <2>2 DEF LinkedIn
<1>2. Len(d) \in Nat /\ Len(d) # 0
  BY DEF Value
<1>3. HasFree(t, k)
  <2>1. \A i \in LinkedIn(t) \cup H : i[1] = k => i = it \/ i = old
    BY DEF CacheInv, Chains, Unique
  <2> QED
    BY <1>1, <2>1, FreeExists
<1>4. /\ new \in Item /\ new[1] = k /\ new \notin LinkedIn(t) /\ new \notin H
      /\ CacheInv(a, H \cup {new}) /\ LinkedIn(a) = LinkedIn(t) /\ SameData(t, a)
  <2> DEFINE n == Len(d)
  <2>1. CacheInv(t, H) /\ k \in Key /\ n \in Nat /\ n # 0
    BY <1>1, <1>2
  <2> HIDE DEF H, k, n
  <2>2. /\ new \in Item /\ new[1] = k /\ new \notin LinkedIn(t) /\ new \notin H
        /\ CacheInv(do_item_alloc(t, k, n), H \cup {new})
        /\ LinkedIn(do_item_alloc(t, k, n)) = LinkedIn(t) /\ SameData(t, do_item_alloc(t, k, n))
    BY <1>3, <2>1, AllocStep
  <2> QED
    BY <2>2 DEF n
<1> HIDE DEF new, a
<1>5. /\ CacheInv(u, H \cup {new}) /\ LinkedIn(u) = LinkedIn(a)
      /\ u.item[new].data = d /\ \A i \in Item : i # new => u.item[i] = a.item[i]
  <2>1. new \in H \cup {new}
    OBVIOUS
  <2> HIDE DEF H
  <2> QED
    BY <1>4, <2>1, DataStep
<1>6. SameData(t, u)
  <2> SUFFICES ASSUME NEW i \in Item, t.item[i] # Free, u.item[i] # Free
               PROVE  u.item[i].data = t.item[i].data
    BY DEF SameData
  <2>1. i # new
    BY <1>4 DEF CacheInv, Held
  <2> QED
    BY <1>4, <1>5, <2>1 DEF SameData
<1> HIDE DEF u
<1>7. /\ CacheInv(v, (H \cup {new}) \ {old}) /\ LinkedIn(v) = (LinkedIn(u) \ {old}) \cup {new}
      /\ SameData(u, v)
  <2>1. /\ new \in H \cup {new} /\ new \notin LinkedIn(u)
        /\ old \in H \cup {new} /\ old \in LinkedIn(u) /\ old[1] = new[1]
    BY <1>4, <1>5
  <2>2. \/ old = NoItem /\ \A j \in LinkedIn(u) : j[1] # new[1]
        \/ old \in H \cup {new} /\ old \in LinkedIn(u) /\ old[1] = new[1]
    BY <2>1
  <2>3. CacheInv(u, H \cup {new}) /\ new \in H \cup {new} /\ new \notin LinkedIn(u)
    BY <1>5, <2>1
  <2> DEFINE G == H \cup {new}
  <2> HIDE DEF G
  <2> QED
    BY <2>2, <2>3, PutStep DEF G
<1>8. (H \cup {new}) \ {old} = {it, new}
  BY <1>1, <1>4 DEF LinkedIn
<1> HIDE DEF v
<1>9. r = do_item_remove(v, new)
  BY DEF PutJoined, v, u, a
<1>10. CacheInv(r, {it}) /\ LinkedIn(r) = LinkedIn(v) /\ SameData(v, r)
  <2>1. CacheInv(v, {it, new}) /\ new \in {it, new}
    BY <1>7, <1>8
  <2>2. {it, new} \ {new} = {it}
    BY <1>4
  <2>3. CacheInv(r, {it, new} \ {new}) /\ LinkedIn(r) = LinkedIn(v) /\ SameData(v, r)
    BY <1>9, <2>1, RemoveStep
  <2> QED
    BY <2>2, <2>3
<1> HIDE DEF r
<1>11. SameData(u, r)
  <2>1. LinkedIn(r) \cup {it} \subseteq LinkedIn(v) \cup ((H \cup {new}) \ {old})
    BY <1>8, <1>10
  <2> HIDE DEF H
  <2> QED
    BY <1>7, <1>10, <2>1, SameDataTrans
<1>12. SameData(t, r)
  <2>1. LinkedIn(r) \cup {it} \subseteq LinkedIn(u) \cup (H \cup {new})
    BY <1>7, <1>10
  <2> HIDE DEF H
  <2> QED
    BY <1>5, <1>6, <1>10, <1>11, <2>1, SameDataTrans
<1>13. r.item[new].data = d
  <2>1. new \in LinkedIn(r)
    BY <1>7, <1>10
  <2>2. r.item[new] # Free /\ u.item[new] # Free
    BY <1>4, <1>5, <2>1 DEF LinkedIn, CacheInv, Held
  <2> QED
    BY <1>4, <1>5, <1>11, <2>2 DEF SameData
<1> QED
  BY <1>4, <1>5, <1>7, <1>10, <1>12, <1>13 DEF Joins, r, new, k

\* What the clients see of the cache: the store of the abstract specification.
CachedIn(t, k) == {i \in {k} \X (1..3) : t.item[i] # Free /\ t.item[i].linked}
StoreOf(t) ==
  [k \in Key |-> IF CachedIn(t, k) = {} THEN <<>> ELSE t.item[CHOOSE i \in CachedIn(t, k) : TRUE].data]

\* A key has the value of its linked item.
LEMMA StoreFacts ==
  ASSUME NEW t, NEW H, CacheInv(t, H)
  PROVE  /\ \A i \in LinkedIn(t) : StoreOf(t)[i[1]] = t.item[i].data /\ t.item[i].data \in Value
         /\ \A k \in Key : (\A i \in LinkedIn(t) : i[1] # k) => StoreOf(t)[k] = <<>>
<1>1. \A k \in Key : CachedIn(t, k) = {i \in LinkedIn(t) : i[1] = k}
  BY DEF CachedIn, LinkedIn, Item
<1>2. ASSUME NEW i \in LinkedIn(t)
      PROVE  StoreOf(t)[i[1]] = t.item[i].data /\ t.item[i].data \in Value
  <2>1. i[1] \in Key /\ t.item[i].data \in Value
    BY LiveItem DEF ItemRec
  <2>2. CachedIn(t, i[1]) = {i}
    BY <1>1, <2>1 DEF CacheInv, Chains, Unique
  <2>3. (CHOOSE j \in {i} : TRUE) = i
    OBVIOUS
  <2> QED
    BY <2>1, <2>2, <2>3 DEF StoreOf
<1>3. ASSUME NEW k \in Key, \A i \in LinkedIn(t) : i[1] # k PROVE StoreOf(t)[k] = <<>>
  <2>1. CachedIn(t, k) = {}
    BY <1>1, <1>3
  <2> QED
    BY <2>1 DEF StoreOf
<1> QED
  BY <1>2, <1>3

\* Two stores that agree on every key are the same.
LEMMA StoreEqual ==
  ASSUME NEW t, NEW r, \A k \in Key : StoreOf(r)[k] = StoreOf(t)[k]
  PROVE  StoreOf(r) = StoreOf(t)
BY DEF StoreOf

\* The store does not change when the linked items and their data are the same.
LEMMA StoreKept ==
  ASSUME NEW t, NEW H, CacheInv(t, H), NEW r, NEW G, CacheInv(r, G),
         LinkedIn(r) = LinkedIn(t), SameData(t, r)
  PROVE  StoreOf(r) = StoreOf(t)
<1>1. ASSUME NEW i \in LinkedIn(t) PROVE StoreOf(r)[i[1]] = StoreOf(t)[i[1]]
  <2>1. StoreOf(t)[i[1]] = t.item[i].data /\ StoreOf(r)[i[1]] = r.item[i].data
    BY StoreFacts
  <2>2. i \in Item /\ t.item[i] # Free /\ r.item[i] # Free
    BY DEF LinkedIn
  <2> QED
    BY <2>1, <2>2 DEF SameData
<1>2. ASSUME NEW k \in Key, \A i \in LinkedIn(t) : i[1] # k PROVE StoreOf(r)[k] = StoreOf(t)[k]
  BY <1>2, StoreFacts
<1> QED
  BY <1>1, <1>2, StoreEqual

\* The value of one key changes when its linked item does.
LEMMA StorePut ==
  ASSUME NEW t, NEW H, CacheInv(t, H), NEW r, NEW G, CacheInv(r, G), NEW k \in Key,
         \A i \in Item : i[1] # k => (i \in LinkedIn(r) <=> i \in LinkedIn(t)),
         SameData(t, r)
  PROVE  StoreOf(r) = [StoreOf(t) EXCEPT ![k] = StoreOf(r)[k]]
<1>1. ASSUME NEW l \in Key, l # k PROVE StoreOf(r)[l] = StoreOf(t)[l]
  <2>1. CASE \E i \in LinkedIn(t) : i[1] = l
    <3>1. PICK i \in LinkedIn(t) : i[1] = l
      BY <2>1
    <3>2. i \in Item /\ i \in LinkedIn(r) /\ t.item[i] # Free /\ r.item[i] # Free
      BY <1>1, <3>1 DEF LinkedIn
    <3>3. StoreOf(t)[l] = t.item[i].data /\ StoreOf(r)[l] = r.item[i].data
      BY <3>1, <3>2, StoreFacts
    <3> QED
      BY <3>2, <3>3 DEF SameData
  <2>2. CASE \A i \in LinkedIn(t) : i[1] # l
    <3>1. \A i \in LinkedIn(r) : i[1] # l
      BY <1>1, <2>2 DEF LinkedIn
    <3> QED
      BY <2>2, <3>1, StoreFacts
  <2> QED
    BY <2>1, <2>2
<1>2. /\ StoreOf(t) = [l \in Key |-> StoreOf(t)[l]] /\ StoreOf(r) = [l \in Key |-> StoreOf(r)[l]]
  BY DEF StoreOf
<1> DEFINE m == StoreOf(t)
           m2 == StoreOf(r)
<1>3. m = [l \in Key |-> m[l]] /\ m2 = [l \in Key |-> m2[l]] /\ \A l \in Key : l # k => m2[l] = m[l]
  BY <1>1, <1>2
<1> HIDE DEF m, m2
<1>4. m2 = [m EXCEPT ![k] = m2[k]]
  BY <1>3
<1> QED
  BY <1>4 DEF m, m2

\* The values an append and a prepend make.
LEMMA JoinFacts ==
  ASSUME NEW x \in Value, NEW y \in Value
  PROVE  Body(x) \o y \in Value
<1>1. x \in Seq(Unit) /\ y \in Seq(Unit) /\ y # <<>> /\ Len(y) \in Nat /\ Len(y) # 0
  BY DEF Value
<1>2. Body(x) \in Seq(Unit)
  BY <1>1 DEF Body
<1> DEFINE z == Body(x)
<1> HIDE DEF z
<1>3. z \o y \in Seq(Unit) /\ Len(z \o y) = Len(z) + Len(y)
  BY <1>1, <1>2 DEF z
<1>4. Len(z) \in Nat
  BY <1>2 DEF z
<1>5. z \o y # <<>>
  BY <1>1, <1>3, <1>4
<1> QED
  BY <1>3, <1>5 DEF Value, z

\* The cache with the old item found, its key's.
Found(t, it, o, w) ==
  \/ o = NoItem /\ w = t /\ (\A j \in LinkedIn(t) : j[1] # it[1])
  \/ /\ o \in LinkedIn(t) /\ o[1] = it[1] /\ o # it
     /\ CacheInv(w, {it, o}) /\ LinkedIn(w) = LinkedIn(t) /\ SameData(t, w)

\* What StoreOver() makes of the store m, as the abstract specification has it,
\* of update u with value v.
Obeys(m, m2, u, v, stored) ==
  IF stored THEN KV!Stored(m, m2, u, v) ELSE KV!NotStored(m, m2, u)

\* The old item is referenced while the new one is stored over it.
LEMMA FoundStep ==
  ASSUME NEW t, NEW it, CacheInv(t, {it}), it \notin LinkedIn(t)
  PROVE  LET g == item_get(t, t.item[it].key) IN Found(t, it, g.it, g.s)
<1>1. it \in LinkedIn(t) \cup {it}
  OBVIOUS
<1>2. it \in Item /\ it[1] \in Key /\ t.item[it].key = it[1]
  BY <1>1, LiveItem
<1> DEFINE g == item_get(t, it[1])
<1>3. \/ g.it = NoItem /\ g.s = t /\ \A j \in LinkedIn(t) : j[1] # it[1]
      \/ /\ g.it \in LinkedIn(t) /\ g.it[1] = it[1]
         /\ g.it \notin {it} =>
              /\ CacheInv(g.s, {it} \cup {g.it}) /\ LinkedIn(g.s) = LinkedIn(t)
              /\ SameData(t, g.s)
  BY <1>2, GetStep
<1> HIDE DEF g
<1>4. {it} \cup {g.it} = {it, g.it}
  OBVIOUS
<1>5. Found(t, it, g.it, g.s)
  BY <1>3, <1>4 DEF Found
<1> QED
  BY <1>2, <1>5 DEF g

\* Facts about the old value and the new one, the same before and after the
\* old item has been found.
LEMMA FoundFacts ==
  ASSUME NEW t, NEW it, CacheInv(t, {it}), it \notin LinkedIn(t), NEW o, NEW w, Found(t, it, o, w)
  PROVE  /\ it \in Item /\ it[1] \in Key /\ w.item[it].key = it[1]
         /\ w.item[it].data = t.item[it].data /\ w.item[it].data \in Value
         /\ SameData(t, w) /\ StoreOf(w) = StoreOf(t)
         /\ o = NoItem => StoreOf(t)[it[1]] = <<>>
         /\ o # NoItem => StoreOf(t)[it[1]] = w.item[o].data /\ w.item[o].data \in Value
<1>0. it \in LinkedIn(t) \cup {it}
  OBVIOUS
<1>1. it \in Item /\ it[1] \in Key /\ t.item[it].key = it[1] /\ t.item[it].data \in Value /\ t.item[it] # Free
  BY <1>0, LiveItem DEF ItemRec
<1>2. CASE o = NoItem /\ w = t /\ (\A j \in LinkedIn(t) : j[1] # it[1])
  <2>1. StoreOf(t)[it[1]] = <<>>
    BY <1>1, <1>2, StoreFacts
  <2> QED
    BY <1>1, <1>2, <2>1 DEF SameData
<1>3. CASE /\ o \in LinkedIn(t) /\ o[1] = it[1] /\ o # it
           /\ CacheInv(w, {it, o}) /\ LinkedIn(w) = LinkedIn(t) /\ SameData(t, w)
  <2>0. it \in LinkedIn(w) \cup {it, o} /\ o \in LinkedIn(w)
    BY <1>3
  <2>1. w.item[it] # Free /\ w.item[it].key = it[1]
    BY <1>3, <2>0, LiveItem
  <2>2. w.item[it].data = t.item[it].data
    BY <1>1, <1>3, <2>1 DEF SameData
  <2>3. o # NoItem
    BY <1>3, StoreAssumption DEF LinkedIn
  <2>4. StoreOf(w) = StoreOf(t)
    BY <1>3, StoreKept
  <2>5. StoreOf(w)[o[1]] = w.item[o].data /\ w.item[o].data \in Value
    BY <1>3, <2>0, StoreFacts
  <2> QED
    BY <1>1, <1>3, <2>1, <2>2, <2>3, <2>4, <2>5
<1> QED
  BY <1>2, <1>3 DEF Found

\* r is t with it held and value v stored under its key, or with nothing stored.
Stores(t, r, it, v) ==
  /\ CacheInv(r, {it}) /\ SameData(t, r) /\ StoreOf(r) = [StoreOf(t) EXCEPT ![it[1]] = v]
Keeps(t, r, it) == CacheInv(r, {it}) /\ SameData(t, r) /\ StoreOf(r) = StoreOf(t)

\* The new item in the place of the old one.
LEMMA PutObeys ==
  ASSUME NEW t, NEW it, CacheInv(t, {it}), it \notin LinkedIn(t), NEW o, NEW w, Found(t, it, o, w),
         NEW mem \in BOOLEAN
  PROVE  Stores(t, Put(w, o, it, mem), it, t.item[it].data)
<1> DEFINE r == Put(w, o, it, mem)
           H == IF o = NoItem THEN {it} ELSE {it, o}
<1>1. /\ it \in Item /\ it[1] \in Key /\ w.item[it].data = t.item[it].data
      /\ SameData(t, w) /\ StoreOf(w) = StoreOf(t)
  BY FoundFacts
<1>2. NoItem # it /\ NoItem \notin LinkedIn(t)
  BY <1>1, StoreAssumption DEF LinkedIn
<1>3. /\ CacheInv(w, H) /\ it \in H /\ it \notin LinkedIn(w) /\ LinkedIn(w) = LinkedIn(t)
      /\ H \ {o} = {it} /\ H \subseteq Item
      /\ \/ o = NoItem /\ \A j \in LinkedIn(w) : j[1] # it[1]
         \/ o \in H /\ o \in LinkedIn(w) /\ o[1] = it[1]
  BY <1>1, <1>2 DEF Found, LinkedIn
<1> HIDE DEF H
<1>4. /\ CacheInv(r, H \ {o}) /\ LinkedIn(r) = (LinkedIn(w) \ {o}) \cup {it}
      /\ SameData(w, r)
  BY <1>3, PutStep
<1> HIDE DEF r
<1>5. CacheInv(r, {it})
  BY <1>3, <1>4
<1>6. SameData(t, r)
  <2>1. LinkedIn(r) \cup {it} \subseteq LinkedIn(w) \cup H
    BY <1>3, <1>4
  <2> QED
    BY <1>1, <1>3, <1>4, <1>5, <2>1, SameDataTrans
<1>7. \A i \in Item : i[1] # it[1] => (i \in LinkedIn(r) <=> i \in LinkedIn(w))
  <2>1. \A i \in Item : i = o => o # NoItem
    BY StoreAssumption
  <2> QED
    BY <1>3, <1>4, <2>1
<1>8. StoreOf(r) = [StoreOf(w) EXCEPT ![it[1]] = StoreOf(r)[it[1]]]
  BY <1>1, <1>3, <1>4, <1>5, <1>7, StorePut
<1>9. StoreOf(r)[it[1]] = r.item[it].data
  BY <1>4, <1>5, StoreFacts
<1>10. r.item[it].data = w.item[it].data
  <2>1. it \in LinkedIn(r) /\ r.item[it] # Free /\ w.item[it] # Free
    BY <1>1, <1>3, <1>4 DEF LinkedIn, CacheInv, Held
  <2> QED
    BY <1>1, <1>4, <2>1 DEF SameData
<1> QED
  BY <1>1, <1>5, <1>6, <1>8, <1>9, <1>10 DEF Stores, r

\* The old item and the new one, joined in a third.
LEMMA JoinObeys ==
  ASSUME NEW t, NEW it, CacheInv(t, {it}), it \notin LinkedIn(t), NEW o, NEW w, Found(t, it, o, w),
         o # NoItem, NEW d \in Value, NEW mem \in BOOLEAN
  PROVE  Stores(t, PutJoined(w, o, FreeItem(w, it[1]), it[1], d, mem), it, d)
<1> DEFINE k == it[1]
           new == FreeItem(w, k)
           r == PutJoined(w, o, new, k, d, mem)
<1>1. /\ it \in Item /\ k \in Key /\ SameData(t, w) /\ StoreOf(w) = StoreOf(t)
  BY FoundFacts
<1>2. /\ CacheInv(w, {it, o}) /\ LinkedIn(w) = LinkedIn(t) /\ it \notin LinkedIn(w)
      /\ o \in LinkedIn(w) /\ o[1] = it[1]
  BY DEF Found
<1>3. /\ new \in Item /\ new[1] = it[1] /\ new # it /\ new \notin LinkedIn(w)
      /\ CacheInv(r, {it}) /\ LinkedIn(r) = (LinkedIn(w) \ {o}) \cup {new}
      /\ SameData(w, r) /\ r.item[new].data = d
  <2>1. Joins(w, r, it, o, new, d)
    BY <1>2, JoinStep
  <2> HIDE DEF r, new
  <2> QED
    BY <2>1 DEF Joins
<1> HIDE DEF new, r, k
<1>4. SameData(t, r)
  <2> SUFFICES ASSUME NEW i \in Item, t.item[i] # Free, r.item[i] # Free
               PROVE  r.item[i].data = t.item[i].data
    BY DEF SameData
  <2>1. w.item[i] # Free
    BY <1>2 DEF CacheInv, Held
  <2> QED
    BY <1>1, <1>3, <2>1 DEF SameData
<1>5. \A i \in Item : i[1] # k => (i \in LinkedIn(r) <=> i \in LinkedIn(w))
  BY <1>2, <1>3 DEF k
<1>6. StoreOf(r) = [StoreOf(w) EXCEPT ![k] = StoreOf(r)[k]]
  BY <1>1, <1>2, <1>3, <1>5, StorePut
<1>7. StoreOf(r)[k] = d
  <2>1. new \in LinkedIn(r) /\ new[1] = k
    BY <1>3 DEF k
  <2> QED
    BY <1>3, <2>1, StoreFacts
<1> QED
  BY <1>1, <1>3, <1>4, <1>6, <1>7 DEF Stores, r, new, k

\* Nothing is stored: the reference to the old item is given up.
LEMMA KeepObeys ==
  ASSUME NEW t, NEW it, CacheInv(t, {it}), it \notin LinkedIn(t), NEW o, NEW w, Found(t, it, o, w),
         o # NoItem, NEW idle \in BOOLEAN
  PROVE  Keeps(t, Release(do_item_update(w, o, idle), o), it) /\ Keeps(t, Release(w, o), it)
<1>1. SameData(t, w) /\ StoreOf(w) = StoreOf(t)
  BY FoundFacts
<1>2. CacheInv(w, {it, o}) /\ LinkedIn(w) = LinkedIn(t) /\ o \in LinkedIn(w) /\ o # it
  BY DEF Found
<1>3. ASSUME NEW v, CacheInv(v, {it, o}), LinkedIn(v) = LinkedIn(w), v.item = w.item
      PROVE  Keeps(t, Release(v, o), it)
  <2> DEFINE r == do_item_remove(v, o)
  <2>1. Release(v, o) = r
    BY DEF Release
  <2>2. CacheInv(r, {it, o} \ {o}) /\ LinkedIn(r) = LinkedIn(v) /\ SameData(v, r)
    <3>1. o \in {it, o}
      OBVIOUS
    <3> QED
      BY <1>3, <3>1, RemoveStep
  <2>3. {it, o} \ {o} = {it}
    BY <1>2
  <2> HIDE DEF r
  <2>4. SameData(t, v) /\ SameData(w, v)
    BY <1>1, <1>3 DEF SameData
  <2>5. SameData(t, r) /\ SameData(w, r)
    <3>1. LinkedIn(r) \cup {it} \subseteq LinkedIn(v) \cup {it, o} /\ CacheInv(r, {it})
      BY <2>2, <2>3
    <3> QED
      BY <1>3, <2>2, <2>4, <3>1, SameDataTrans
  <2>6. StoreOf(r) = StoreOf(w)
    <3>1. CacheInv(r, {it}) /\ LinkedIn(r) = LinkedIn(w)
      BY <1>3, <2>2, <2>3
    <3> QED
      BY <1>2, <2>5, <3>1, StoreKept
  <2> QED
    BY <1>1, <2>1, <2>2, <2>3, <2>5, <2>6 DEF Keeps
<1> DEFINE u == do_item_update(w, o, idle)
<1>4. CacheInv(u, {it, o}) /\ LinkedIn(u) = LinkedIn(w) /\ u.item = w.item
  BY <1>2, UpdateStep
<1> HIDE DEF u
<1> QED
  BY <1>2, <1>3, <1>4 DEF u

\* What do_store_item() does over the old item it has found.
LEMMA OverStep ==
  ASSUME NEW t, NEW it, CacheInv(t, {it}), it \notin LinkedIn(t), NEW o, NEW w, Found(t, it, o, w),
         NEW comm \in Update, NEW env \in Envs, NEW u, u.op = comm, u.key = it[1]
  PROVE  LET r == StoreOver(w, o, it, comm, env)
         IN  /\ CacheInv(r.s, {it}) /\ SameData(t, r.s) /\ r.stored \in BOOLEAN
             /\ Obeys(StoreOf(t), StoreOf(r.s), u, t.item[it].data, r.stored)
<1> DEFINE k == it[1]
           x == w.item[o].data
           y == t.item[it].data
           m == StoreOf(t)
           r == StoreOver(w, o, it, comm, env)
<1>0. env.alloc \in BOOLEAN /\ env.table \in BOOLEAN /\ env.idle \in BOOLEAN
  BY DEF Envs
<1>1. /\ it \in Item /\ k \in Key /\ w.item[it].key = k /\ w.item[it].data = y /\ y \in Value
      /\ SameData(t, w) /\ StoreOf(w) = m
      /\ (o = NoItem => m[k] = <<>>) /\ (o # NoItem => m[k] = x /\ x \in Value)
  BY FoundFacts
<1>2. x \in Value => x # <<>>
  BY DEF Value
<1>3. u.op = comm /\ u.key = k
  OBVIOUS
<1>4. CASE comm = "add" /\ o # NoItem
  <2>1. r = [s |-> Release(do_item_update(w, o, env.idle), o), stored |-> FALSE]
    BY <1>4 DEF StoreOver
  <2>2. CacheInv(r.s, {it}) /\ SameData(t, r.s) /\ StoreOf(r.s) = StoreOf(t) /\ r.stored = FALSE
    <3> DEFINE z == Release(do_item_update(w, o, env.idle), o)
    <3>1. Keeps(t, z, it)
      BY <1>0, <1>4, KeepObeys
    <3> HIDE DEF z
    <3>2. r.s = z /\ r.stored = FALSE
      BY <2>1 DEF z
    <3> QED
      BY <3>1, <3>2 DEF Keeps
  <2>3. KV!NotStored(m, m, u)
    BY <1>1, <1>2, <1>3, <1>4 DEF KV!NotStored, KV!Allowed
  <2> QED
    BY <2>2, <2>3 DEF Obeys
<1>5. CASE comm \in {"replace", "append", "prepend"} /\ o = NoItem
  <2>1. r = [s |-> w, stored |-> FALSE]
    BY <1>5 DEF StoreOver
  <2>2. w = t
    BY <1>5, StoreAssumption DEF Found, LinkedIn
  <2>3. KV!NotStored(m, m, u)
    BY <1>1, <1>2, <1>3, <1>5 DEF KV!NotStored, KV!Allowed
  <2>4. SameData(t, t)
    BY DEF SameData
  <2> QED
    BY <2>1, <2>2, <2>3, <2>4 DEF Obeys
<1>6. CASE comm \in {"append", "prepend"} /\ o # NoItem /\ env.alloc
  <2> DEFINE d == Joined(comm, x, y)
  <2>1. r = [s |-> PutJoined(w, o, FreeItem(w, k), k, d, env.table), stored |-> TRUE]
    BY <1>1, <1>6 DEF StoreOver
  <2>2. d \in Value
    BY <1>1, <1>6, JoinFacts DEF Joined
  <2>3. d = KV!Result(comm, x, y)
    BY <1>6 DEF KV!Result, KV!Join, Joined, Body
  <2> HIDE DEF d
  <2>4. /\ CacheInv(r.s, {it}) /\ SameData(t, r.s) /\ r.stored = TRUE
        /\ StoreOf(r.s) = [m EXCEPT ![k] = d]
    <3> DEFINE z == PutJoined(w, o, FreeItem(w, k), k, d, env.table)
    <3>1. Stores(t, z, it, d)
      BY <1>0, <1>6, <2>2, JoinObeys
    <3> HIDE DEF z
    <3>2. r.s = z /\ r.stored = TRUE
      BY <2>1 DEF z
    <3> QED
      BY <3>1, <3>2 DEF Stores
  <2>5. KV!Allowed(comm, m[k])
    BY <1>1, <1>2, <1>6 DEF KV!Allowed
  <2> HIDE DEF m
  <2>6. KV!Stored(m, StoreOf(r.s), u, y)
    BY <1>1, <1>3, <1>6, <2>3, <2>4, <2>5 DEF KV!Stored
  <2> QED
    BY <2>4, <2>6 DEF Obeys, m
<1>7. CASE comm \in {"append", "prepend"} /\ o # NoItem /\ ~env.alloc
  <2>1. r = [s |-> Release(w, o), stored |-> FALSE]
    BY <1>1, <1>7 DEF StoreOver
  <2>2. CacheInv(r.s, {it}) /\ SameData(t, r.s) /\ StoreOf(r.s) = StoreOf(t) /\ r.stored = FALSE
    <3> DEFINE z == Release(w, o)
    <3>1. Keeps(t, z, it)
      <4>1. TRUE \in BOOLEAN
        OBVIOUS
      <4>2. Keeps(t, Release(do_item_update(w, o, TRUE), o), it) /\ Keeps(t, z, it)
        BY <1>7, <4>1, KeepObeys
      <4> QED
        BY <4>2
    <3> HIDE DEF z
    <3>2. r.s = z /\ r.stored = FALSE
      BY <2>1 DEF z
    <3> QED
      BY <3>1, <3>2 DEF Keeps
  <2>3. KV!NotStored(m, m, u)
    BY <1>3, <1>7 DEF KV!NotStored
  <2> QED
    BY <2>2, <2>3 DEF Obeys
<1>8. CASE comm = "set" \/ (comm = "add" /\ o = NoItem) \/ (comm = "replace" /\ o # NoItem)
  <2>1. r = [s |-> Put(w, o, it, env.table), stored |-> TRUE]
    BY <1>8 DEF StoreOver
  <2>2. /\ CacheInv(r.s, {it}) /\ SameData(t, r.s) /\ r.stored = TRUE
        /\ StoreOf(r.s) = [m EXCEPT ![k] = y]
    <3> DEFINE z == Put(w, o, it, env.table)
    <3>1. Stores(t, z, it, y)
      BY <1>0, PutObeys
    <3> HIDE DEF z
    <3>2. r.s = z /\ r.stored = TRUE
      BY <2>1 DEF z
    <3> QED
      BY <3>1, <3>2 DEF Stores
  <2>3. KV!Allowed(comm, m[k]) /\ KV!Result(comm, m[k], y) = y
    BY <1>1, <1>2, <1>8 DEF KV!Allowed, KV!Result
  <2> HIDE DEF m, y
  <2>4. KV!Stored(m, StoreOf(r.s), u, y)
    BY <1>3, <2>2, <2>3 DEF KV!Stored
  <2> QED
    BY <2>2, <2>4 DEF Obeys, m, y
<1> QED
  BY <1>4, <1>5, <1>6, <1>7, <1>8 DEF Update

\* do_store_item() as a whole.
LEMMA StoreStep ==
  ASSUME NEW t, NEW it, CacheInv(t, {it}), it \notin LinkedIn(t), NEW comm \in Update,
         NEW env \in Envs, NEW u, u.op = comm, u.key = it[1]
  PROVE  LET r == do_store_item(t, it, comm, env)
         IN  /\ CacheInv(r.s, {it}) /\ SameData(t, r.s) /\ r.stored \in BOOLEAN
             /\ Obeys(StoreOf(t), StoreOf(r.s), u, t.item[it].data, r.stored)
<1> DEFINE g == item_get(t, t.item[it].key)
<1>1. Found(t, it, g.it, g.s)
  BY FoundStep
<1>2. do_store_item(t, it, comm, env) = StoreOver(g.s, g.it, it, comm, env)
  BY DEF do_store_item, Over
<1> HIDE DEF g
<1> QED
  BY <1>1, <1>2, OverStep

\* The reference of mc_read() to an item is given up.
LEMMA LetGo ==
  ASSUME NEW t, NEW it, CacheInv(t, {it})
  PROVE  LET r == do_item_remove(t, it) IN CacheInv(r, {}) /\ StoreOf(r) = StoreOf(t)
<1> DEFINE r == do_item_remove(t, it)
<1>1. it \in {it} /\ {it} \ {it} = {}
  OBVIOUS
<1>2. CacheInv(r, {it} \ {it}) /\ LinkedIn(r) = LinkedIn(t) /\ SameData(t, r)
  BY <1>1, RemoveStep
<1>3. CacheInv(r, {}) /\ LinkedIn(r) = LinkedIn(t) /\ SameData(t, r)
  BY <1>1, <1>2
<1> HIDE DEF r
<1>4. StoreOf(r) = StoreOf(t)
  BY <1>3, StoreKept
<1> QED
  BY <1>3, <1>4 DEF r

\* r is t after a set of k for which there is no memory.
Drops(t, r, k) ==
  /\ CacheInv(r, {})
  /\ StoreOf(r) = StoreOf(t) \/ StoreOf(r) = [StoreOf(t) EXCEPT ![k] = <<>>]

\* The two outcomes of item_get() when nothing is held.
LEMMA GetAlone ==
  ASSUME NEW t, CacheInv(t, {}), NEW k \in Key
  PROVE  LET g == item_get(t, k)
         IN  \/ g.it = NoItem /\ g.s = t /\ StoreOf(t)[k] = <<>>
             \/ /\ g.it # NoItem /\ g.it \in LinkedIn(t) /\ g.it[1] = k
                /\ CacheInv(g.s, {g.it}) /\ LinkedIn(g.s) = LinkedIn(t) /\ SameData(t, g.s)
                /\ StoreOf(g.s) = StoreOf(t) /\ StoreOf(t)[k] = g.s.item[g.it].data
                /\ StoreOf(t)[k] # <<>>
<1> DEFINE g == item_get(t, k)
<1>1. \/ g.it = NoItem /\ g.s = t /\ \A j \in LinkedIn(t) : j[1] # k
      \/ /\ g.it \in LinkedIn(t) /\ g.it[1] = k
         /\ g.it \notin {} =>
              /\ CacheInv(g.s, {} \cup {g.it}) /\ LinkedIn(g.s) = LinkedIn(t)
              /\ SameData(t, g.s)
  <2> DEFINE H == {}
  <2>1. CacheInv(t, H)
    OBVIOUS
  <2> HIDE DEF H
  <2>2. \/ g.it = NoItem /\ g.s = t /\ \A j \in LinkedIn(t) : j[1] # k
        \/ /\ g.it \in LinkedIn(t) /\ g.it[1] = k
           /\ g.it \notin H =>
                /\ CacheInv(g.s, H \cup {g.it}) /\ LinkedIn(g.s) = LinkedIn(t)
                /\ SameData(t, g.s)
    BY <2>1, GetStep
  <2> QED
    BY <2>2 DEF H
<1> HIDE DEF g
<1>2. CASE g.it = NoItem /\ g.s = t /\ \A j \in LinkedIn(t) : j[1] # k
  BY <1>2, StoreFacts DEF g
<1>3. CASE g.it \in LinkedIn(t) /\ g.it[1] = k
  <2> DEFINE it == g.it
             w == g.s
  <2>1. it # NoItem
    BY <1>3, StoreAssumption DEF LinkedIn
  <2>2. {} \cup {it} = {it} /\ it \notin {}
    OBVIOUS
  <2>3. CacheInv(w, {it}) /\ LinkedIn(w) = LinkedIn(t) /\ SameData(t, w)
    BY <1>1, <1>3, <2>1, <2>2
  <2> HIDE DEF it, w
  <2>4. it \in LinkedIn(w) /\ it[1] = k
    BY <1>3, <2>3 DEF it
  <2>5. StoreOf(w) = StoreOf(t)
    BY <2>3, StoreKept
  <2>6. StoreOf(w)[it[1]] = w.item[it].data /\ w.item[it].data \in Value
    BY <2>3, <2>4, StoreFacts
  <2>7. StoreOf(t)[k] = w.item[it].data /\ StoreOf(t)[k] # <<>>
    BY <2>4, <2>5, <2>6 DEF Value
  <2> QED
    BY <1>3, <2>1, <2>3, <2>5, <2>7 DEF g, it, w
<1> QED
  BY <1>1, <1>2, <1>3

\* process_get_command() answers with what the store has.
LEMMA GetAnswers ==
  ASSUME NEW t, CacheInv(t, {}), NEW k \in Key, NEW x
  PROVE  LET g == GetAnswer(x, k, item_get(t, k))
         IN  g.c = out_string(x, KV!Got(StoreOf(t), k)) /\ CacheInv(g.s, {}) /\ StoreOf(g.s) = StoreOf(t)
<1> DEFINE g == item_get(t, k)
           r == GetAnswer(x, k, g)
<1>1. \/ g.it = NoItem /\ g.s = t /\ StoreOf(t)[k] = <<>>
      \/ /\ g.it # NoItem /\ CacheInv(g.s, {g.it})
         /\ StoreOf(g.s) = StoreOf(t) /\ StoreOf(t)[k] = g.s.item[g.it].data /\ StoreOf(t)[k] # <<>>
  BY GetAlone
<1> HIDE DEF g
<1>2. CASE g.it = NoItem /\ g.s = t /\ StoreOf(t)[k] = <<>>
  <2>1. r = [c |-> out_string(x, <<"END">>), s |-> t]
    BY <1>2 DEF GetAnswer
  <2>2. KV!Got(StoreOf(t), k) = <<"END">>
    BY <1>2 DEF KV!Got
  <2> QED
    BY <2>1, <2>2 DEF g
<1>3. CASE /\ g.it # NoItem /\ CacheInv(g.s, {g.it})
           /\ StoreOf(g.s) = StoreOf(t) /\ StoreOf(t)[k] = g.s.item[g.it].data /\ StoreOf(t)[k] # <<>>
  <2> DEFINE z == do_item_remove(g.s, g.it)
  <2>1. r = [c |-> out_string(x, <<"VALUE", k, g.s.item[g.it].data>>), s |-> z]
    BY <1>3 DEF GetAnswer
  <2>2. CacheInv(z, {}) /\ StoreOf(z) = StoreOf(g.s)
    BY <1>3, LetGo
  <2>3. KV!Got(StoreOf(t), k) = <<"VALUE", k, g.s.item[g.it].data>>
    BY <1>3 DEF KV!Got
  <2> HIDE DEF z
  <2> QED
    BY <1>3, <2>1, <2>2, <2>3 DEF g
<1> QED
  BY <1>1, <1>2, <1>3

\* A set that finds no memory leaves the key without a value.
LEMMA DropStep ==
  ASSUME NEW t, CacheInv(t, {}), NEW k \in Key
  PROVE  Drops(t, DropOld(item_get(t, k)), k)
<1> DEFINE g == item_get(t, k)
           it == g.it
           w == g.s
           r == DropOld(g)
<1>1. \/ it = NoItem /\ w = t /\ StoreOf(t)[k] = <<>>
      \/ /\ it # NoItem /\ it \in LinkedIn(t) /\ it[1] = k
         /\ CacheInv(w, {it}) /\ LinkedIn(w) = LinkedIn(t) /\ SameData(t, w)
         /\ StoreOf(w) = StoreOf(t)
  BY GetAlone
<1> HIDE DEF g
<1>2. CASE it = NoItem /\ w = t
  <2>1. r = t
    BY <1>2 DEF DropOld
  <2> QED
    BY <2>1 DEF Drops, g
<1>3. CASE /\ it # NoItem /\ it \in LinkedIn(t) /\ it[1] = k
           /\ CacheInv(w, {it}) /\ LinkedIn(w) = LinkedIn(t) /\ SameData(t, w)
           /\ StoreOf(w) = StoreOf(t)
  <2> DEFINE u == do_item_unlink(w, it)
  <2>1. r = do_item_remove(u, it)
    BY <1>3 DEF DropOld
  <2> HIDE DEF it, w
  <2>2. it \in {it} /\ it \in LinkedIn(w)
    BY <1>3
  <2>3. CacheInv(u, {it}) /\ LinkedIn(u) = LinkedIn(w) \ {it} /\ SameData(w, u)
    BY <1>3, <2>2, UnlinkStep
  <2> HIDE DEF u
  <2>4. CacheInv(r, {}) /\ StoreOf(r) = StoreOf(u)
    BY <2>1, <2>3, LetGo
  <2>5. \A i \in Item : i[1] # k => (i \in LinkedIn(u) <=> i \in LinkedIn(w))
    BY <1>3, <2>3
  <2>6. StoreOf(u) = [StoreOf(w) EXCEPT ![k] = StoreOf(u)[k]]
    BY <1>3, <2>3, <2>5, StorePut
  <2>7. \A i \in LinkedIn(u) : i[1] # k
    BY <1>3, <2>3 DEF CacheInv, Chains, Unique
  <2>8. StoreOf(u)[k] = <<>>
    BY <2>3, <2>7, StoreFacts
  <2> QED
    BY <1>3, <2>4, <2>6, <2>8 DEF Drops, g
<1> QED
  BY <1>1, <1>2, <1>3

\* r is t with one more item, of n units, held and not in the cache.
Allocates(t, r, it, k, n) ==
  /\ it \in Item /\ it[1] = k /\ it \notin LinkedIn(r) /\ Len(r.item[it].data) = n
  /\ CacheInv(r, {it}) /\ StoreOf(r) = StoreOf(t)

LEMMA AllocAlone ==
  ASSUME NEW t, CacheInv(t, {}), NEW k \in Key, NEW n \in Nat, n # 0
  PROVE  Allocates(t, do_item_alloc(t, k, n), FreeItem(t, k), k, n)
<1> DEFINE it == FreeItem(t, k)
           r == do_item_alloc(t, k, n)
<1>1. HasFree(t, k)
  <2>1. CASE \E i \in LinkedIn(t) : i[1] = k
    <3>1. PICK a \in LinkedIn(t) : a[1] = k
      BY <2>1
    <3>2. \A i \in LinkedIn(t) \cup {} : i[1] = k => i = a \/ i = a
      BY <3>1 DEF CacheInv, Chains, Unique
    <3> QED
      BY <3>2, FreeExists
  <2>2. CASE \A i \in LinkedIn(t) : i[1] # k
    <3>1. \A i \in LinkedIn(t) \cup {} : i[1] = k => i = k \/ i = k
      BY <2>2
    <3> QED
      BY <3>1, FreeExists
  <2> QED
    BY <2>1, <2>2
<1>2. /\ it \in Item /\ it[1] = k /\ it \notin LinkedIn(t)
      /\ CacheInv(r, {} \cup {it}) /\ LinkedIn(r) = LinkedIn(t) /\ SameData(t, r)
      /\ Len(r.item[it].data) = n
  BY <1>1, AllocStep
<1>3. {} \cup {it} = {it}
  OBVIOUS
<1> HIDE DEF it, r
<1>4. StoreOf(r) = StoreOf(t)
  BY <1>2, <1>3, StoreKept
<1> QED
  BY <1>2, <1>3, <1>4 DEF Allocates, it, r

----------------------------------------------------------------------------
(* Connections: the invariant of the cache under each step.                *)

\* No command takes effect.
SameStore == StoreOf(s') = StoreOf(s)

\* A closed connection and an open one are told apart by their states.
LEMMA OpenNotClosed == ASSUME NEW x, Open(x) PROVE x # Closed
BY DEF Open, Closed

\* mc_read() goes on with connection c.
LEMMA BusyStep ==
  ASSUME MemcachedInv, NEW c \in Conn, busy \in {c, Nobody}, busy' = c, NEW y, Reading(y),
         conn' = [conn EXCEPT ![c] = y],
         CacheInv(s', HeldBy(y)), HeldBy(y) \cap LinkedIn(s') = {}, Streams'
  PROVE  MemcachedInv'
<1>1. c # Nobody
  BY MemcachedAssumption
<1>2. conn = [d \in Conn |-> conn[d]]
  BY DEF MemcachedInv, Conns
<1>3. conn'[c] = y /\ conn' = [d \in Conn |-> conn'[d]] /\ \A d \in Conn : d # c => conn'[d] = conn[d]
  BY <1>2
<1>4. Conns'
  <2>1. \A d \in Conn : d # c => Idle(conn[d])
    BY <1>1, MemcachedAssumption DEF MemcachedInv, Conns
  <2> QED
    BY <1>3, <2>1 DEF Conns
<1>5. HeldNow' = HeldBy(y)
  BY <1>1, <1>3 DEF HeldNow
<1> QED
  BY <1>4, <1>5 DEF MemcachedInv

\* The worker is in no mc_read() after the step.
LEMMA DoneStep ==
  ASSUME MemcachedInv, NEW c \in Conn, busy \in {c, Nobody}, busy' = Nobody, NEW y, Idle(y),
         conn' = [conn EXCEPT ![c] = y], CacheInv(s', {}), Streams'
  PROVE  MemcachedInv'
<1>2. conn = [d \in Conn |-> conn[d]]
  BY DEF MemcachedInv, Conns
<1>3. conn'[c] = y /\ conn' = [d \in Conn |-> conn'[d]] /\ \A d \in Conn : d # c => conn'[d] = conn[d]
  BY <1>2
<1>4. Conns'
  <2>1. \A d \in Conn : d # c => Idle(conn[d])
    BY MemcachedAssumption DEF MemcachedInv, Conns
  <2>2. \A d \in Conn : d # Nobody
    BY MemcachedAssumption
  <2> QED
    BY <1>3, <2>1, <2>2 DEF Conns
<1>5. HeldNow' = {}
  BY DEF HeldNow
<1> QED
  BY <1>4, <1>5 DEF MemcachedInv

\* A step of the clients and the network, or the end of the process.
LEMMA OutsideStep ==
  ASSUME MemcachedInv, s' = s, conn' = conn, busy' = busy, Streams'
  PROVE  MemcachedInv'
<1>1. HeldNow' = HeldNow /\ Conns'
  BY DEF HeldNow, MemcachedInv, Conns
<1> QED
  BY <1>1 DEF MemcachedInv

\* What is held between two passes of mc_read().
LEMMA NowHeld ==
  ASSUME MemcachedInv, NEW c \in Conn, busy = c
  PROVE  /\ Reading(conn[c]) /\ conn[c] # Closed /\ c # Nobody
         /\ conn[c].item = NoItem => CacheInv(s, {})
         /\ conn[c].item # NoItem =>
              CacheInv(s, {conn[c].item}) /\ conn[c].item \notin LinkedIn(s)
         /\ CacheInv(s, HeldBy(conn[c])) /\ HeldBy(conn[c]) \cap LinkedIn(s) = {}
<1>1. c # Nobody
  BY MemcachedAssumption
<1>2. Reading(conn[c])
  BY DEF MemcachedInv, Conns
<1>3. HeldNow = HeldBy(conn[c])
  BY <1>1 DEF HeldNow
<1>4. CacheInv(s, HeldBy(conn[c])) /\ HeldBy(conn[c]) \cap LinkedIn(s) = {}
  BY <1>3 DEF MemcachedInv
<1>5. conn[c] # Closed
  BY <1>2, OpenNotClosed DEF Reading
<1> QED
  BY <1>1, <1>2, <1>4, <1>5 DEF HeldBy

\* Nothing is held outside mc_read().
LEMMA NothingHeld ==
  ASSUME MemcachedInv, busy = Nobody, NEW c \in Conn
  PROVE  CacheInv(s, {}) /\ Idle(conn[c])
<1>1. HeldNow = {} /\ c # Nobody
  BY MemcachedAssumption DEF HeldNow
<1> QED
  BY <1>1 DEF MemcachedInv, Conns

----------------------------------------------------------------------------
(* The steps of the worker.                                                *)

\* The fields of a command.
LEMMA CommandFacts ==
  \A x \in Command \cup {Junk, [op |-> "unknown"]} :
     /\ x.op = "get" => x.key \in Key
     /\ x.op \in Update => x.key \in Key /\ x.vlen \in 0 .. MaxVlen
BY DEF Command, Update, Junk

\* A line is a command or not understood.
LEMMA TokenFacts ==
  ASSUME NEW line \in Seq(Unit)
  PROVE  tokenize_command(line) \in Command \cup {Junk, [op |-> "unknown"]}
<1>1. CASE Len(line) = 1 /\ line[1] \notin Byte \cup {NL}
  <2>1. line[1] \in Unit
    BY <1>1
  <2> QED
    BY <1>1, <2>1, UnitFacts DEF tokenize_command
<1>2. CASE ~ (Len(line) = 1 /\ line[1] \notin Byte \cup {NL})
  BY <1>2 DEF tokenize_command
<1> QED
  BY <1>1, <1>2

\* Part of a stream.
LEMMA PartSeq ==
  ASSUME NEW q \in Seq(Unit), NEW m \in Nat, m >= 1, NEW n \in Int, n <= Len(q)
  PROVE  SubSeq(q, m, n) \in Seq(Unit)
<1>1. \A k \in m .. n : q[k] \in Unit
  <2> DEFINE l == Len(q)
  <2>1. l \in Nat /\ \A k \in 1 .. l : q[k] \in Unit
    OBVIOUS
  <2> HIDE DEF l
  <2>2. n <= l
    BY DEF l
  <2> QED
    BY <2>1, <2>2
<1>2. m \in Int
  OBVIOUS
<1> QED
  BY <1>1, <1>2, SubSeqProperties

\* The fields of a connection's record.
Is(y, st, ib, ob, rd, wr, it, ri, rl, co) ==
  /\ ConnRec(y) /\ y.state = st /\ y.ib = ib /\ y.ob = ob /\ y.rd = rd /\ y.wr = wr
  /\ y.item = it /\ y.ritem = ri /\ y.rlbytes = rl /\ y.item_comm = co

\* A connection that has got an answer.
LEMMA OutFacts ==
  ASSUME NEW x, ConnRec(x), NEW a
  PROVE  Is(out_string(x, a), x.state, x.ib, a, FALSE, TRUE, x.item, x.ritem, x.rlbytes, x.item_comm)
<1> DEFINE y == out_string(x, a)
<1>1. y = [x EXCEPT !.ob = a, !.rd = FALSE, !.wr = TRUE]
  BY DEF out_string
<1> HIDE DEF y
<1>2. y = [state |-> x.state, ib |-> x.ib, ob |-> a, rd |-> FALSE, wr |-> TRUE,
           item |-> x.item, ritem |-> x.ritem, rlbytes |-> x.rlbytes, item_comm |-> x.item_comm]
  BY <1>1 DEF ConnRec
<1>3. /\ ConnRec(y) /\ y.state = x.state /\ y.ib = x.ib /\ y.ob = a /\ y.rd = FALSE
      /\ y.wr = TRUE /\ y.item = x.item /\ y.ritem = x.ritem /\ y.rlbytes = x.rlbytes
      /\ y.item_comm = x.item_comm
  BY <1>2 DEF ConnRec
<1> QED
  BY <1>3 DEF Is, y

\* A connection whose input buffer has changed.
LEMMA BufferFacts ==
  ASSUME NEW x, ConnRec(x), NEW e
  PROVE  Is([x EXCEPT !.ib = e], x.state, e, x.ob, x.rd, x.wr, x.item, x.ritem, x.rlbytes, x.item_comm)
BY DEF Is, ConnRec

\* What the handler may answer to command cmd when that turns store m into m2.
Replies(m, m2, cmd, a) ==
  \/ cmd.op = "get" /\ a = KV!Got(m, cmd.key) /\ m2 = m
  \/ /\ cmd.op \in Update /\ a = <<"SERVER_ERROR">>
     /\ m2 = m \/ (cmd.op = "set" /\ m2 = [m EXCEPT ![cmd.key] = <<>>])
  \/ cmd.op \in Update /\ errno = "ERANGE" /\ a = <<"CLIENT_ERROR">> /\ m2 = m
  \/ cmd.op \in {"badline", "hugeline"} /\ a = <<"CLIENT_ERROR">> /\ m2 = m
  \/ cmd.op = "version" /\ a = <<"VERSION">> /\ m2 = m
  \/ cmd.op = "stats" /\ a = <<"STATS">> /\ m2 = m
  \/ /\ cmd.op \notin {"get", "badline", "hugeline", "version", "stats"} \cup Update
     /\ a = <<"ERROR">> /\ m2 = m

\* What process_command() may do for connection record x in cache t, as r:
\* answer cmd, or make an item to read its value into.
Replied(t, x, r, cmd) ==
  \E a : /\ r.c = out_string(x, a) /\ a # <<>> /\ CacheInv(r.s, {})
         /\ Replies(StoreOf(t), StoreOf(r.s), cmd, a)
Expects(x, it, n, co) ==
  [x EXCEPT !.item = it, !.ritem = 0, !.rlbytes = n, !.item_comm = co,
            !.state = "conn_nread", !.rd = TRUE]
Expecting(t, x, r, cmd) ==
  /\ cmd.op \in Update /\ cmd.key \in Key /\ cmd.vlen \in 0 .. MaxVlen
  /\ \E it \in Item : /\ r.c = Expects(x, it, cmd.vlen + 1, cmd.op)
                      /\ Allocates(t, r.s, it, cmd.key, cmd.vlen + 1)

\* process_command(), for any line.
LEMMA CommandStep ==
  ASSUME CacheInv(s, {}), NEW x, NEW line \in Seq(Unit), NEW env \in Envs
  PROVE  LET r == process_command(x, line, env)
             cmd == tokenize_command(line)
         IN  Replied(s, x, r, cmd) \/ Expecting(s, x, r, cmd)
<1> DEFINE cmd == tokenize_command(line)
           r == Dispatch(x, cmd, env)
<1>1. /\ cmd.op = "get" => cmd.key \in Key
      /\ cmd.op \in Update => cmd.key \in Key /\ cmd.vlen \in 0 .. MaxVlen
  BY TokenFacts, CommandFacts
<1>2. process_command(x, line, env) = r
  BY DEF process_command
<1> HIDE DEF cmd
<1>3. CASE cmd.op = "get"
  <2> DEFINE k == cmd.key
  <2>1. r = GetAnswer(x, k, item_get(s, k))
    BY <1>3 DEF Dispatch, process_get_command, Update
  <2>2. r.c = out_string(x, KV!Got(StoreOf(s), k)) /\ CacheInv(r.s, {}) /\ StoreOf(r.s) = StoreOf(s)
    BY <1>1, <1>3, <2>1, GetAnswers
  <2> DEFINE a == KV!Got(StoreOf(s), k)
  <2>3. a # <<>>
    BY DEF KV!Got
  <2>4. Replies(StoreOf(s), StoreOf(r.s), cmd, a)
    BY <1>3, <2>2 DEF Replies
  <2> HIDE DEF r, a
  <2>5. Replied(s, x, r, cmd)
    BY <2>2, <2>3, <2>4 DEF Replied, a
  <2> QED
    BY <1>2, <2>5 DEF cmd
<1>4. CASE cmd.op \in Update /\ errno # "ERANGE" /\ env.alloc
  <2> DEFINE it == FreeItem(s, cmd.key)
             n == cmd.vlen + 1
  <2>0. cmd.op # "get"
    BY <1>4 DEF Update
  <2>1. n \in Nat /\ n # 0 /\ cmd.key \in Key /\ cmd.vlen \in 0 .. MaxVlen
    BY <1>1, <1>4, MemcachedAssumption
  <2>2. r = process_update_command(x, cmd, env)
    BY <1>4, <2>0 DEF Dispatch, Update
  <2>3. r.c = Expects(x, it, n, cmd.op) /\ r.s = do_item_alloc(s, cmd.key, n)
    BY <1>4, <2>2 DEF process_update_command, Expects
  <2> HIDE DEF r, n
  <2>4. Allocates(s, r.s, it, cmd.key, n)
    BY <2>1, <2>3, AllocAlone
  <2>5. it \in Item
    BY <2>4 DEF Allocates
  <2> HIDE DEF it
  <2>6. Expecting(s, x, r, cmd)
    BY <1>4, <2>1, <2>3, <2>4, <2>5 DEF Expecting, n
  <2> QED
    BY <1>2, <2>6 DEF cmd
<1>5. CASE cmd.op \in Update /\ errno # "ERANGE" /\ ~env.alloc
  <2> DEFINE k == cmd.key
             a == <<"SERVER_ERROR">>
  <2>0. cmd.op # "get"
    BY <1>5 DEF Update
  <2>1. r = process_update_command(x, cmd, env) /\ k \in Key
    BY <1>1, <1>5, <2>0 DEF Dispatch, Update
  <2>2. /\ r.c = out_string(x, a)
        /\ r.s = IF cmd.op = "set" THEN DropOld(item_get(s, k)) ELSE s
    BY <1>5, <2>1 DEF process_update_command
  <2>3. Drops(s, DropOld(item_get(s, k)), k)
    BY <2>1, DropStep
  <2> HIDE DEF r
  <2>4. CacheInv(r.s, {}) /\ Replies(StoreOf(s), StoreOf(r.s), cmd, a)
    BY <1>5, <2>2, <2>3 DEF Drops, Replies
  <2>5. a # <<>>
    OBVIOUS
  <2>6. Replied(s, x, r, cmd)
    BY <2>2, <2>4, <2>5 DEF Replied
  <2> QED
    BY <1>2, <2>6 DEF cmd
<1>6. CASE cmd.op \in Update /\ errno = "ERANGE"
  <2> DEFINE a == <<"CLIENT_ERROR">>
  <2>0. cmd.op # "get"
    BY <1>6 DEF Update
  <2>1. r = process_update_command(x, cmd, env)
    BY <1>6, <2>0 DEF Dispatch, Update
  <2>2. r.c = out_string(x, a) /\ r.s = s /\ a # <<>>
    BY <1>6, <2>1 DEF process_update_command
  <2> HIDE DEF r
  <2>3. Replies(StoreOf(s), StoreOf(r.s), cmd, a)
    BY <1>6, <2>2 DEF Replies
  <2>4. Replied(s, x, r, cmd)
    BY <2>2, <2>3 DEF Replied
  <2> QED
    BY <1>2, <2>4 DEF cmd
<1>7. CASE cmd.op # "get" /\ cmd.op \notin Update
  <2>1. PICK w : /\ r.c = out_string(x, <<w>>) /\ r.s = s
                 /\ Replies(StoreOf(s), StoreOf(s), cmd, <<w>>)
    <3> DEFINE R(w) == r.c = out_string(x, <<w>>) /\ r.s = s
    <3>1. CASE cmd.op \in {"badline", "hugeline"}
      <4>1. R("CLIENT_ERROR")
        BY <1>7, <3>1 DEF Dispatch
      <4> QED
        BY <3>1, <4>1 DEF Replies
    <3>2. CASE cmd.op = "version"
      <4>1. R("VERSION")
        BY <1>7, <3>2 DEF Dispatch
      <4> QED
        BY <3>2, <4>1 DEF Replies
    <3>3. CASE cmd.op = "stats"
      <4>1. R("STATS")
        BY <1>7, <3>3 DEF Dispatch
      <4> QED
        BY <3>3, <4>1 DEF Replies
    <3>4. CASE cmd.op \notin {"badline", "hugeline", "version", "stats"}
      <4>1. R("ERROR")
        BY <1>7, <3>4 DEF Dispatch
      <4>2. Replies(StoreOf(s), StoreOf(s), cmd, <<"ERROR">>)
        BY <1>7, <3>4 DEF Replies
      <4> QED
        BY <4>1, <4>2
    <3> QED
      BY <3>1, <3>2, <3>3, <3>4
  <2>2. <<w>> # <<>>
    OBVIOUS
  <2> HIDE DEF r
  <2>3. Replied(s, x, r, cmd)
    BY <2>1, <2>2 DEF Replied
  <2> QED
    BY <1>2, <2>3 DEF cmd
<1> QED
  BY <1>3, <1>4, <1>5, <1>6, <1>7 DEF Envs

\* A connection that has consumed its input up to e.
LEMMA CurrFacts ==
  ASSUME NEW x, ConnRec(x), x.ib \in [buff : Seq(Unit), curr : Nat], NEW e
  PROVE  Is([x EXCEPT !.ib.curr = e], x.state, [buff |-> x.ib.buff, curr |-> e], x.ob, x.rd, x.wr,
            x.item, x.ritem, x.rlbytes, x.item_comm)
<1> DEFINE i == [x.ib EXCEPT !.curr = e]
<1>1. [x EXCEPT !.ib.curr = e] = [x EXCEPT !.ib = i]
  OBVIOUS
<1>2. i = [buff |-> x.ib.buff, curr |-> e]
  OBVIOUS
<1> HIDE DEF i
<1> QED
  BY <1>1, <1>2, BufferFacts

\* A connection that is to read a value into item it.
LEMMA ExpectFacts ==
  ASSUME NEW x, ConnRec(x), NEW it, NEW n, NEW co
  PROVE  Is(Expects(x, it, n, co), "conn_nread", x.ib, x.ob, TRUE, x.wr, it, 0, n, co)
<1> DEFINE y == Expects(x, it, n, co)
<1>1. y = [x EXCEPT !.item = it, !.ritem = 0, !.rlbytes = n, !.item_comm = co,
                    !.state = "conn_nread", !.rd = TRUE]
  BY DEF Expects
<1> HIDE DEF y
<1>2. y = [state |-> "conn_nread", ib |-> x.ib, ob |-> x.ob, rd |-> TRUE, wr |-> x.wr,
           item |-> it, ritem |-> 0, rlbytes |-> n, item_comm |-> co]
  BY <1>1 DEF ConnRec
<1>3. /\ ConnRec(y) /\ y.state = "conn_nread" /\ y.ib = x.ib /\ y.ob = x.ob /\ y.rd = TRUE
      /\ y.wr = x.wr /\ y.item = it /\ y.ritem = 0 /\ y.rlbytes = n
      /\ y.item_comm = co
  BY <1>2 DEF ConnRec
<1> QED
  BY <1>3 DEF Is, y

\* The first line end in the buffer, and the line before it.
LEMMA LineFacts ==
  ASSUME NEW b \in [buff : Seq(Unit), curr : Nat], LineEnds(b) # {}
  PROVE  LET el == CHOOSE i \in LineEnds(b) : \A j \in LineEnds(b) : i <= j
         IN  /\ el \in Nat /\ el <= Len(b.buff)
             /\ SubSeq(b.buff, b.curr + 1, el - 1) \in Seq(Unit)
<1> DEFINE E == LineEnds(b)
           el == CHOOSE i \in E : \A j \in E : i <= j
<1>1. b.buff \in Seq(Unit) /\ b.curr \in Nat /\ Len(b.buff) \in Nat
  OBVIOUS
<1>2. E \subseteq Nat /\ E # {} /\ \A i \in E : i \in b.curr + 1 .. Len(b.buff)
  BY <1>1 DEF LineEnds
<1> HIDE DEF E
<1>3. \E i \in E : \A j \in E : i <= j
  BY <1>2, LeastNatural
<1>4. el \in E
  BY <1>3
<1> HIDE DEF el
<1>5. el \in Nat /\ el <= Len(b.buff) /\ el - 1 \in Int /\ el - 1 <= Len(b.buff)
  BY <1>1, <1>2, <1>4
<1>6. b.curr + 1 \in Nat /\ b.curr + 1 >= 1
  BY <1>1
<1>7. SubSeq(b.buff, b.curr + 1, el - 1) \in Seq(Unit)
  BY <1>1, <1>5, <1>6, PartSeq
<1> QED
  BY <1>5, <1>7 DEF el, E

\* The command on the first line of the buffer.
FirstEnd(b) == CHOOSE i \in LineEnds(b) : \A j \in LineEnds(b) : i <= j
TheLine(b) == SubSeq(b.buff, b.curr + 1, FirstEnd(b) - 1)
TheCommand(c) == tokenize_command(TheLine(conn[c].ib))

\* What try_read_command() makes of connection c: it has an answer to the command,
\* or begins to read the value.
Answering(c) ==
  \E y : /\ conn' = [conn EXCEPT ![c] = y] /\ Open(y) /\ y.wr /\ y.item = NoItem /\ y.ob # <<>>
         /\ y.ib.buff = conn[c].ib.buff
         /\ Replies(StoreOf(s), StoreOf(s'), TheCommand(c), y.ob)
Beginning(c) ==
  /\ TheCommand(c).op \in Update /\ TheCommand(c).vlen \in Nat
  /\ SameStore
  /\ \E y : /\ conn' = [conn EXCEPT ![c] = y] /\ Open(y) /\ y.state = "conn_nread" /\ y.rd
            /\ y.item \in Item /\ y.item # NoItem /\ y.item[1] = TheCommand(c).key
            /\ y.item_comm = TheCommand(c).op
            /\ y.ritem = 0 /\ y.rlbytes = TheCommand(c).vlen + 1
            /\ Len(s'.item[y.item].data) = TheCommand(c).vlen + 1
            /\ y.ib = [buff |-> conn[c].ib.buff, curr |-> FirstEnd(conn[c].ib)]

LEMMA TryReadCommandStep ==
  ASSUME MemcachedInv, NEW c \in Conn, busy = c, TryReadCommand(c)
  PROVE  MemcachedInv' /\ (Answering(c) \/ Beginning(c))
<1> DEFINE x == conn[c]
           b == x.ib
           el == FirstEnd(b)
           line == TheLine(b)
           cmd == TheCommand(c)
<1>1. PICK env, r :
        /\ env \in Envs
        /\ r = process_command(x, line, env)
        /\ conn' = [conn EXCEPT ![c] = [r.c EXCEPT !.ib.curr = el]] /\ s' = r.s
        /\ busy' = IF r.c.wr THEN Nobody ELSE c
  BY DEF TryReadCommand, TheLine, FirstEnd
<1>2. x.state = "conn_read" /\ LineEnds(b) # {} /\ UNCHANGED net
  BY DEF TryReadCommand
<1>3. Streams' /\ Conns
  BY <1>2 DEF MemcachedInv, Streams, net
<1>4. Open(x) /\ x.rd /\ x.item = NoItem /\ CacheInv(s, {}) /\ x # Closed
  BY <1>2, NowHeld DEF Reading
<1>5. /\ ConnRec(x) /\ b \in [buff : Seq(Unit), curr : Nat] /\ b.curr <= Len(b.buff)
      /\ x.wr = FALSE /\ x.rd = TRUE /\ x.ob = <<>>
      /\ x.rlbytes \in Nat /\ x.ritem \in Nat /\ x.item_comm \in Update \cup {"none"}
  BY <1>4 DEF Open
<1>6. cmd = tokenize_command(line)
  BY DEF TheCommand
<1> HIDE DEF b, cmd
<1>7. el \in Nat /\ el <= Len(b.buff) /\ line \in Seq(Unit)
  BY <1>2, <1>5, LineFacts DEF FirstEnd, TheLine
<1> HIDE DEF el, line
<1>8. Replied(s, x, r, cmd) \/ Expecting(s, x, r, cmd)
  BY <1>1, <1>4, <1>6, <1>7, CommandStep
<1> HIDE DEF x
<1>9. [buff |-> b.buff, curr |-> el] \in [buff : Seq(Unit), curr : Nat]
  BY <1>5, <1>7
<1> DEFINE y == [r.c EXCEPT !.ib.curr = el]
<1>10. CASE Replied(s, x, r, cmd)
  <2>1. PICK a : /\ r.c = out_string(x, a) /\ a # <<>> /\ CacheInv(r.s, {})
                 /\ Replies(StoreOf(s), StoreOf(r.s), cmd, a)
    BY <1>10 DEF Replied
  <2> DEFINE z == r.c
  <2>a. Is(z, x.state, x.ib, a, FALSE, TRUE, x.item, x.ritem, x.rlbytes, x.item_comm)
    BY <1>5, <2>1, OutFacts
  <2> HIDE DEF z
  <2>2. /\ ConnRec(z) /\ z.state = x.state /\ z.ib = x.ib /\ z.ob = a /\ z.rd = FALSE
        /\ z.wr = TRUE /\ z.item = x.item /\ z.ritem = x.ritem /\ z.rlbytes = x.rlbytes
        /\ z.item_comm = x.item_comm
    BY <2>a DEF Is
  <2>b. Is(y, z.state, [buff |-> z.ib.buff, curr |-> el], z.ob, z.rd, z.wr,
           z.item, z.ritem, z.rlbytes, z.item_comm)
    <3>1. ConnRec(r.c) /\ r.c.ib \in [buff : Seq(Unit), curr : Nat]
      BY <1>5, <2>2 DEF b, z
    <3> QED
      BY <3>1, CurrFacts DEF z
  <2> HIDE DEF y
  <2>3. /\ ConnRec(y) /\ y.state = z.state /\ y.ob = z.ob /\ y.rd = z.rd
        /\ y.ib = [buff |-> z.ib.buff, curr |-> el]
        /\ y.wr = z.wr /\ y.item = z.item /\ y.ritem = z.ritem /\ y.rlbytes = z.rlbytes
        /\ y.item_comm = z.item_comm
    BY <2>b DEF Is
  <2>4. y.ib \in [buff : Seq(Unit), curr : Nat] /\ y.ib.curr <= Len(y.ib.buff)
    BY <1>7, <1>9, <2>2, <2>3 DEF b
  <2>5. Open(y)
    BY <1>4, <1>5, <2>2, <2>3, <2>4 DEF Open
  <2>6. Idle(y)
    BY <1>4, <2>2, <2>3, <2>5 DEF Idle
  <2>7. busy' = Nobody /\ conn' = [conn EXCEPT ![c] = y] /\ busy \in {c, Nobody} /\ CacheInv(s', {})
    BY <1>1, <2>1, <2>2 DEF y, z
  <2>8. MemcachedInv'
    BY <1>3, <2>6, <2>7, DoneStep
  <2>9. y.wr /\ y.item = NoItem /\ y.ob = a /\ y.ib.buff = b.buff
    BY <1>4, <2>2, <2>3 DEF b
  <2>10. Answering(c)
    BY <1>1, <2>1, <2>5, <2>7, <2>9 DEF Answering, b, x, cmd
  <2> QED
    BY <2>8, <2>10
<1>11. CASE Expecting(s, x, r, cmd)
  <2> DEFINE n == cmd.vlen + 1
             co == cmd.op
  <2>0. /\ co \in Update /\ cmd.vlen \in Nat /\ n \in Nat
    BY <1>11, MemcachedAssumption DEF Expecting
  <2>1. PICK it \in Item : r.c = Expects(x, it, n, co) /\ Allocates(s, r.s, it, cmd.key, n)
    BY <1>11 DEF Expecting
  <2> HIDE DEF n, co
  <2> DEFINE z == r.c
  <2>a. Is(z, "conn_nread", x.ib, x.ob, TRUE, x.wr, it, 0, n, co)
    <3>1. ConnRec(x)
      BY <1>5
    <3>2. Is(Expects(x, it, n, co), "conn_nread", x.ib, x.ob, TRUE, x.wr, it, 0, n, co)
      BY <3>1, ExpectFacts
    <3> QED
      BY <2>1, <3>2
  <2> HIDE DEF z
  <2>2. /\ ConnRec(z) /\ z.state = "conn_nread" /\ z.ib = x.ib /\ z.ob = x.ob /\ z.rd = TRUE
        /\ z.wr = FALSE /\ z.item = it /\ z.ritem = 0 /\ z.rlbytes = n
        /\ z.item_comm = co
    BY <1>5, <2>a DEF Is
  <2>b. Is(y, z.state, [buff |-> z.ib.buff, curr |-> el], z.ob, z.rd, z.wr,
           z.item, z.ritem, z.rlbytes, z.item_comm)
    <3>1. ConnRec(r.c) /\ r.c.ib \in [buff : Seq(Unit), curr : Nat]
      BY <1>5, <2>2 DEF b, z
    <3> QED
      BY <3>1, CurrFacts DEF z
  <2> HIDE DEF y
  <2>3. /\ ConnRec(y) /\ y.state = z.state /\ y.ob = z.ob /\ y.rd = z.rd
        /\ y.ib = [buff |-> z.ib.buff, curr |-> el]
        /\ y.wr = z.wr /\ y.item = z.item /\ y.ritem = z.ritem /\ y.rlbytes = z.rlbytes
        /\ y.item_comm = z.item_comm
    BY <2>b DEF Is
  <2>4. y.ib \in [buff : Seq(Unit), curr : Nat] /\ y.ib.curr <= Len(y.ib.buff)
    BY <1>7, <1>9, <2>2, <2>3 DEF b
  <2>5. Open(y)
    <3>1. ConnRec(y) /\ y.state \in {"conn_read", "conn_nread", "conn_closing"}
      BY <2>2, <2>3
    <3>2. y.rd \in BOOLEAN /\ y.wr = ~y.rd /\ y.ob = <<>>
      BY <1>5, <2>2, <2>3
    <3>3. y.ritem \in Nat /\ y.rlbytes \in Nat
      BY <2>0, <2>2, <2>3
    <3>4. y.item \in Item \cup {NoItem} /\ y.item_comm \in Update \cup {"none"}
      BY <2>0, <2>2, <2>3
    <3> QED
      BY <2>4, <3>1, <3>2, <3>3, <3>4 DEF Open
  <2>6. Reading(y) /\ HeldBy(y) = {it} /\ it # NoItem
    BY <2>0, <2>2, <2>3, <2>5, StoreAssumption DEF Reading, HeldBy
  <2>7. /\ busy' = c /\ conn' = [conn EXCEPT ![c] = y] /\ busy \in {c, Nobody}
        /\ CacheInv(s', HeldBy(y)) /\ HeldBy(y) \cap LinkedIn(s') = {}
    <3>1. conn' = [conn EXCEPT ![c] = y] /\ s' = r.s
      BY <1>1 DEF y
    <3>2. busy' = c
      BY <1>1, <2>2 DEF z
    <3>3. CacheInv(r.s, {it}) /\ {it} \cap LinkedIn(r.s) = {}
      BY <2>1 DEF Allocates
    <3> QED
      BY <2>6, <3>1, <3>2, <3>3
  <2>8. MemcachedInv'
    BY <1>3, <2>6, <2>7, BusyStep
  <2>9. it[1] = cmd.key /\ Len(s'.item[it].data) = n /\ SameStore
    BY <1>1, <2>1 DEF Allocates, SameStore
  <2>10. /\ y.state = "conn_nread" /\ y.rd /\ y.item = it /\ y.item_comm = co /\ y.ritem = 0
         /\ y.rlbytes = n /\ y.ib = [buff |-> b.buff, curr |-> el]
    BY <2>2, <2>3 DEF b
  <2>11. Beginning(c)
    BY <2>0, <2>5, <2>6, <2>7, <2>9, <2>10 DEF Beginning, b, x, cmd, n, co, el
  <2> QED
    BY <2>8, <2>11
<1> QED
  BY <1>8, <1>10, <1>11

\* Other changes of a connection's record: q received, n units counted, n units
\* consumed, the end of the connection decided.
Fed(x, q) == [x EXCEPT !.ib = [x.ib EXCEPT !.buff = x.ib.buff \o q]]
Counted(x, n) == [x EXCEPT !.ritem = x.ritem + n, !.rlbytes = x.rlbytes - n]
Eaten(x, n) == [x EXCEPT !.ib = [x.ib EXCEPT !.curr = x.ib.curr + n]]
Ended(x) == [x EXCEPT !.state = "conn_closing"]

LEMMA ChangeFacts ==
  ASSUME NEW x, ConnRec(x), x.ib \in [buff : Seq(Unit), curr : Nat], NEW q, NEW n
  PROVE  /\ Is(Fed(x, q), x.state, [buff |-> x.ib.buff \o q, curr |-> x.ib.curr], x.ob, x.rd, x.wr,
               x.item, x.ritem, x.rlbytes, x.item_comm)
         /\ Is(Counted(x, n), x.state, x.ib, x.ob, x.rd, x.wr,
               x.item, x.ritem + n, x.rlbytes - n, x.item_comm)
         /\ Is(Eaten(x, n), x.state, [buff |-> x.ib.buff, curr |-> x.ib.curr + n], x.ob, x.rd, x.wr,
               x.item, x.ritem, x.rlbytes, x.item_comm)
         /\ Is(Ended(x), "conn_closing", x.ib, x.ob, x.rd, x.wr,
               x.item, x.ritem, x.rlbytes, x.item_comm)
<1>1. Is(Fed(x, q), x.state, [buff |-> x.ib.buff \o q, curr |-> x.ib.curr], x.ob, x.rd, x.wr,
         x.item, x.ritem, x.rlbytes, x.item_comm)
  <2> DEFINE w == x.ib.buff \o q
             e == [x.ib EXCEPT !.buff = w]
  <2>1. Fed(x, q) = [x EXCEPT !.ib = e]
    BY DEF Fed
  <2> HIDE DEF w
  <2>2. e = [buff |-> w, curr |-> x.ib.curr]
    OBVIOUS
  <2> HIDE DEF e
  <2>3. Is([x EXCEPT !.ib = e], x.state, e, x.ob, x.rd, x.wr, x.item, x.ritem, x.rlbytes, x.item_comm)
    BY BufferFacts
  <2> QED
    BY <2>1, <2>2, <2>3 DEF w
<1>2. Is(Counted(x, n), x.state, x.ib, x.ob, x.rd, x.wr,
         x.item, x.ritem + n, x.rlbytes - n, x.item_comm)
  <2> DEFINE y == Counted(x, n)
             a == x.ritem + n
             b == x.rlbytes - n
  <2>1. y = [x EXCEPT !.ritem = a, !.rlbytes = b]
    BY DEF Counted
  <2> HIDE DEF y, a, b
  <2>2. y = [state |-> x.state, ib |-> x.ib, ob |-> x.ob, rd |-> x.rd, wr |-> x.wr,
             item |-> x.item, ritem |-> a, rlbytes |-> b, item_comm |-> x.item_comm]
    BY <2>1 DEF ConnRec
  <2>3. Is(y, x.state, x.ib, x.ob, x.rd, x.wr, x.item, a, b, x.item_comm)
    BY <2>2 DEF Is, ConnRec
  <2> QED
    BY <2>3 DEF y, a, b
<1>3. Is(Eaten(x, n), x.state, [buff |-> x.ib.buff, curr |-> x.ib.curr + n], x.ob, x.rd, x.wr,
         x.item, x.ritem, x.rlbytes, x.item_comm)
  <2> DEFINE w == x.ib.curr + n
             e == [x.ib EXCEPT !.curr = w]
  <2>1. Eaten(x, n) = [x EXCEPT !.ib = e]
    BY DEF Eaten
  <2> HIDE DEF w
  <2>2. e = [buff |-> x.ib.buff, curr |-> w]
    OBVIOUS
  <2> HIDE DEF e
  <2>3. Is([x EXCEPT !.ib = e], x.state, e, x.ob, x.rd, x.wr, x.item, x.ritem, x.rlbytes, x.item_comm)
    BY BufferFacts
  <2> QED
    BY <2>1, <2>2, <2>3 DEF w
<1>4. Is(Ended(x), "conn_closing", x.ib, x.ob, x.rd, x.wr, x.item, x.ritem, x.rlbytes, x.item_comm)
  BY DEF Is, ConnRec, Ended
<1> QED
  BY <1>1, <1>2, <1>3, <1>4

\* The same, as the actions write them.
LEMMA ConnUpdates ==
  ASSUME Conns, NEW c \in Conn, NEW q, NEW n
  PROVE  /\ [conn EXCEPT ![c].state = "conn_closing"] = [conn EXCEPT ![c] = Ended(conn[c])]
         /\ [conn EXCEPT ![c].ib.buff = @ \o q] = [conn EXCEPT ![c] = Fed(conn[c], q)]
         /\ Took(conn, c, n) = [conn EXCEPT ![c] = Counted(conn[c], n)]
         /\ [Took(conn, c, n) EXCEPT ![c].ib.curr = @ + n]
              = [conn EXCEPT ![c] = Eaten(Counted(conn[c], n), n)]
<1>0. conn = [d \in Conn |-> conn[d]]
  BY DEF Conns
<1>1. [conn EXCEPT ![c].state = "conn_closing"] = [conn EXCEPT ![c] = Ended(conn[c])]
  BY DEF Ended
<1>2. [conn EXCEPT ![c].ib.buff = @ \o q] = [conn EXCEPT ![c] = Fed(conn[c], q)]
  BY DEF Fed
<1>3. Took(conn, c, n) = [conn EXCEPT ![c] = Counted(conn[c], n)]
  <2> DEFINE y == [conn[c] EXCEPT !.ritem = conn[c].ritem + n]
             k == [conn EXCEPT ![c] = y]
  <2>1. Took(conn, c, n) = [k EXCEPT ![c].rlbytes = @ - n]
    BY DEF Took
  <2> HIDE DEF y
  <2>2. k[c] = y
    BY <1>0
  <2>3. [k EXCEPT ![c].rlbytes = @ - n] = [conn EXCEPT ![c] = [y EXCEPT !.rlbytes = y.rlbytes - n]]
    BY <1>0, <2>2
  <2> QED
    BY <2>1, <2>3 DEF Counted, y
<1> DEFINE z == Counted(conn[c], n)
           k == [conn EXCEPT ![c] = z]
<1> HIDE DEF z
<1>4. k[c] = z /\ \A w : [k EXCEPT ![c] = w] = [conn EXCEPT ![c] = w]
  BY <1>0
<1> HIDE DEF k
<1>6. [k EXCEPT ![c].ib.curr = @ + n] = [conn EXCEPT ![c] = Eaten(z, n)]
  BY <1>4 DEF Eaten
<1> QED
  BY <1>1, <1>2, <1>3, <1>6 DEF z, k

\* A pass of mc_read() that keeps the item, and goes on or decides to close.
LEMMA ReadingStays ==
  ASSUME NEW x, Reading(x), NEW y, NEW st \in {x.state, "conn_closing"},
         NEW ib \in [buff : Seq(Unit), curr : Nat], ib.curr <= Len(ib.buff),
         NEW ri \in Nat, NEW rl \in Nat,
         Is(y, st, ib, x.ob, x.rd, x.wr, x.item, ri, rl, x.item_comm)
  PROVE  Reading(y) /\ HeldBy(y) = HeldBy(x)
<1>1. /\ ConnRec(y) /\ y.state = st /\ y.ib = ib /\ y.ob = x.ob /\ y.rd = x.rd /\ y.wr = x.wr
      /\ y.item = x.item /\ y.ritem = ri /\ y.rlbytes = rl /\ y.item_comm = x.item_comm
  BY DEF Is
<1>2. Open(x) /\ x.rd
  BY DEF Reading
<1>3. Open(y)
  <2>1. y.state \in {"conn_read", "conn_nread", "conn_closing"}
    BY <1>1, <1>2 DEF Open
  <2>2. y.ib \in [buff : Seq(Unit), curr : Nat] /\ y.ib.curr <= Len(y.ib.buff)
    BY <1>1
  <2>3. y.rd \in BOOLEAN /\ y.wr = ~y.rd /\ (y.rd => y.ob = <<>>)
    BY <1>1, <1>2 DEF Open
  <2>4. /\ y.ritem \in Nat /\ y.rlbytes \in Nat
        /\ y.item \in Item \cup {NoItem} /\ y.item_comm \in Update \cup {"none"}
    BY <1>1, <1>2 DEF Open
  <2> QED
    BY <1>1, <2>1, <2>2, <2>3, <2>4 DEF Open
<1>4. Reading(y)
  BY <1>1, <1>2, <1>3 DEF Reading
<1>5. HeldBy(y) = HeldBy(x)
  BY <1>1 DEF HeldBy
<1> QED
  BY <1>4, <1>5

LEMMA PassStep ==
  ASSUME MemcachedInv, NEW c \in Conn, busy = c, busy' = c, NEW y, Reading(y),
         HeldBy(y) = HeldBy(conn[c]), conn' = [conn EXCEPT ![c] = y], s' = s, Streams'
  PROVE  MemcachedInv' /\ SameStore
<1>1. /\ CacheInv(s', HeldBy(y)) /\ HeldBy(y) \cap LinkedIn(s') = {} /\ busy \in {c, Nobody}
  BY NowHeld
<1>2. MemcachedInv'
  BY <1>1, BusyStep
<1> QED
  BY <1>2 DEF SameStore

\* The process ends: nothing else changes.
LEMMA DownStep ==
  ASSUME MemcachedInv, NEW c \in Conn, UNCHANGED <<s, conn, busy, wire, sock>>
  PROVE  MemcachedInv' /\ SameStore
<1>1. Streams'
  BY DEF MemcachedInv, Streams
<1> QED
  BY <1>1, OutsideStep DEF SameStore

\* What recv() takes from the socket.
LEMMA RecvFacts ==
  ASSUME Streams, NEW c \in Conn, NEW m \in Int
  PROVE  LET n == Recv(c, m)
         IN  /\ n \in Int /\ n <= Len(sock[c]) /\ n <= m
             /\ (n # m \/ m >= 0) => n \in Nat
             /\ n \in Nat => /\ SubSeq(sock[c], 1, n) \in Seq(Unit)
                             /\ [sock EXCEPT ![c] = SubSeq(@, n + 1, Len(@))] \in [Conn -> Seq(Unit)]
<1> DEFINE n == Recv(c, m)
           q == sock[c]
<1>1. sock \in [Conn -> Seq(Unit)] /\ q \in Seq(Unit) /\ Len(q) \in Nat
  BY DEF Streams
<1>2. /\ n \in Int /\ n <= Len(q) /\ n <= m /\ ((n # m \/ m >= 0) => n \in Nat)
  BY <1>1 DEF Recv
<1> HIDE DEF n, q
<1>3. ASSUME n \in Nat
      PROVE  SubSeq(q, 1, n) \in Seq(Unit) /\ SubSeq(q, n + 1, Len(q)) \in Seq(Unit)
  <2>1. /\ 1 \in Nat /\ 1 >= 1 /\ n + 1 \in Nat /\ n + 1 >= 1
        /\ n \in Int /\ n <= Len(q) /\ Len(q) \in Int /\ Len(q) <= Len(q)
    BY <1>1, <1>2, <1>3
  <2> QED
    BY <1>1, <2>1, PartSeq
<1>4. n \in Nat => [sock EXCEPT ![c] = SubSeq(@, n + 1, Len(@))] \in [Conn -> Seq(Unit)]
  <2>1. [sock EXCEPT ![c] = SubSeq(@, n + 1, Len(@))] = [sock EXCEPT ![c] = SubSeq(q, n + 1, Len(q))]
    BY DEF q
  <2> QED
    BY <1>1, <1>3, <2>1
<1> QED
  BY <1>2, <1>3, <1>4 DEF n, q

LEMMA TryReadNetworkStep ==
  ASSUME MemcachedInv, NEW c \in Conn, busy = c, TryReadNetwork(c)
  PROVE  MemcachedInv' /\ SameStore
<1> DEFINE x == conn[c]
           avail == buffer_remain_write(x.ib)
           n == Recv(c, avail)
<1>1. /\ UNCHANGED <<s, wire, busy>> /\ Conns /\ Streams /\ Reading(x) /\ wire' \in [Conn -> Seq(Unit)]
  BY NowHeld DEF TryReadNetwork, MemcachedInv, Streams
<1>2. /\ ConnRec(x) /\ x.ib \in [buff : Seq(Unit), curr : Nat] /\ x.ib.curr <= Len(x.ib.buff)
      /\ x.ritem \in Nat /\ x.rlbytes \in Nat /\ x.ib.curr \in Nat /\ x.ib.buff \in Seq(Unit)
  BY <1>1 DEF Reading, Open
<1>3. avail \in Int
  <2>1. Len(x.ib.buff) \in Nat /\ MC_BUFFER_SIZE \in Nat
    BY <1>2, MemcachedAssumption
  <2>2. avail = MC_BUFFER_SIZE - Len(x.ib.buff)
    BY DEF buffer_remain_write
  <2> QED
    BY <2>1, <2>2
<1>4. CASE UNCHANGED <<conn, sock>>
  BY <1>1, <1>4, DownStep
<1>5. CASE avail # n /\ conn' = [conn EXCEPT ![c].state = "conn_closing"] /\ UNCHANGED sock
  <2> DEFINE y == Ended(x)
  <2>1. Is(y, "conn_closing", x.ib, x.ob, x.rd, x.wr, x.item, x.ritem, x.rlbytes, x.item_comm)
    BY <1>2, ChangeFacts
  <2>2. conn' = [conn EXCEPT ![c] = y]
    BY <1>1, <1>5, ConnUpdates
  <2>3. "conn_closing" \in {x.state, "conn_closing"} /\ Streams'
    BY <1>1, <1>5 DEF Streams
  <2> HIDE DEF y
  <2>4. Reading(y) /\ HeldBy(y) = HeldBy(x)
    BY <1>1, <1>2, <2>1, <2>3, ReadingStays
  <2> QED
    BY <1>1, <2>2, <2>3, <2>4, PassStep
<1>6. CASE avail # n /\ Received(c, n)
  <2> DEFINE q == SubSeq(sock[c], 1, n)
             y == Fed(x, q)
             ib == [buff |-> x.ib.buff \o q, curr |-> x.ib.curr]
  <2>1. q \in Seq(Unit) /\ sock' \in [Conn -> Seq(Unit)]
    BY <1>1, <1>3, <1>6, RecvFacts DEF Received
  <2>2. conn' = [conn EXCEPT ![c].ib.buff = @ \o q]
    BY <1>6 DEF Received
  <2> HIDE DEF q
  <2>3. conn' = [conn EXCEPT ![c] = y]
    BY <1>1, <2>2, ConnUpdates
  <2>4. Is(y, x.state, ib, x.ob, x.rd, x.wr, x.item, x.ritem, x.rlbytes, x.item_comm)
    BY <1>2, ChangeFacts
  <2>5. /\ x.ib.buff \o q \in Seq(Unit) /\ Len(x.ib.buff \o q) = Len(x.ib.buff) + Len(q) /\ Len(q) \in Nat
        /\ Len(x.ib.buff) \in Nat
    BY <1>2, <2>1
  <2>6. ib \in [buff : Seq(Unit), curr : Nat] /\ ib.curr <= Len(ib.buff)
    <3> DEFINE w == x.ib.buff \o q
    <3>1. w \in Seq(Unit) /\ x.ib.curr <= Len(w)
      BY <1>2, <2>5
    <3> HIDE DEF w
    <3>2. [buff |-> w, curr |-> x.ib.curr] \in [buff : Seq(Unit), curr : Nat]
      BY <1>2, <3>1
    <3>3. ib = [buff |-> w, curr |-> x.ib.curr]
      BY DEF w
    <3> HIDE DEF ib
    <3> QED
      BY <3>1, <3>2, <3>3
  <2>7. x.state \in {x.state, "conn_closing"} /\ Streams'
    BY <1>1, <2>1 DEF Streams
  <2> HIDE DEF y, ib
  <2>8. Reading(y) /\ HeldBy(y) = HeldBy(x)
    BY <1>1, <1>2, <2>4, <2>6, <2>7, ReadingStays
  <2> QED
    BY <1>1, <2>3, <2>7, <2>8, PassStep
<1> QED
  BY <1>4, <1>5, <1>6 DEF TryReadNetwork

TookFed(c, n, q) == [Took(conn, c, n) EXCEPT ![c].ib.buff = @ \o q]
Becomes(cn, c, y) == cn = [conn EXCEPT ![c] = y]

LEMMA TookFedUpdate ==
  ASSUME Conns, NEW c \in Conn, NEW q, NEW n
  PROVE  Becomes(TookFed(c, n, q), c, Fed(Counted(conn[c], n), q))
<1>0. conn = [d \in Conn |-> conn[d]]
  BY DEF Conns
<1> DEFINE z == Counted(conn[c], n)
           k == [conn EXCEPT ![c] = z]
<1>1. Took(conn, c, n) = k
  BY ConnUpdates
<1> HIDE DEF z
<1>2. k[c] = z /\ \A w : [k EXCEPT ![c] = w] = [conn EXCEPT ![c] = w]
  BY <1>0
<1> HIDE DEF k
<1>3. [k EXCEPT ![c].ib.buff = @ \o q] = [conn EXCEPT ![c] = Fed(z, q)]
  BY <1>2 DEF Fed
<1>4. TookFed(c, n, q) = [k EXCEPT ![c].ib.buff = @ \o q]
  BY <1>1 DEF TookFed
<1> QED
  BY <1>3, <1>4 DEF Becomes, z

\* n units have been received into the buffer and counted as part of the value.
LEMMA ReadRestStep ==
  ASSUME MemcachedInv, NEW c \in Conn, busy = c, ReadRest(c)
  PROVE  MemcachedInv' /\ SameStore
<1> DEFINE x == conn[c]
           want == x.rlbytes
           n == Recv(c, want)
           q == SubSeq(sock[c], 1, n)
<1>1. /\ UNCHANGED <<s, wire, busy>> /\ Conns /\ Streams /\ Reading(x) /\ wire' \in [Conn -> Seq(Unit)]
  BY NowHeld DEF ReadRest, MemcachedInv, Streams
<1>2. /\ ConnRec(x) /\ x.ib \in [buff : Seq(Unit), curr : Nat] /\ x.ib.curr <= Len(x.ib.buff)
      /\ x.ritem \in Nat /\ want \in Nat /\ x.ib.curr \in Nat /\ x.ib.buff \in Seq(Unit)
  BY <1>1 DEF Reading, Open
<1>3. want \in Int /\ want >= 0
  BY <1>2
<1>4. CASE UNCHANGED <<conn, sock>>
  BY <1>1, <1>4, DownStep
<1>5. CASE conn' = [conn EXCEPT ![c].state = "conn_closing"] /\ UNCHANGED sock
  <2> DEFINE y == Ended(x)
  <2>1. Is(y, "conn_closing", x.ib, x.ob, x.rd, x.wr, x.item, x.ritem, x.rlbytes, x.item_comm)
    BY <1>2, ChangeFacts
  <2>2. conn' = [conn EXCEPT ![c] = y]
    BY <1>1, <1>5, ConnUpdates
  <2>3. "conn_closing" \in {x.state, "conn_closing"} /\ Streams'
    BY <1>1, <1>5 DEF Streams
  <2> HIDE DEF y
  <2>4. Reading(y) /\ HeldBy(y) = HeldBy(x)
    BY <1>1, <1>2, <2>1, <2>3, ReadingStays
  <2> QED
    BY <1>1, <2>2, <2>3, <2>4, PassStep
<1>6. CASE /\ conn' = [Took(conn, c, n) EXCEPT ![c].ib.buff = @ \o q]
           /\ sock' = [sock EXCEPT ![c] = SubSeq(@, n + 1, Len(@))]
  <2> DEFINE v == Counted(x, n)
             y == Fed(v, q)
             w == x.ib.buff \o q
             ib == [buff |-> w, curr |-> x.ib.curr]
  <2>1. n \in Nat /\ n <= want /\ q \in Seq(Unit) /\ sock' \in [Conn -> Seq(Unit)]
    BY <1>1, <1>3, <1>6, RecvFacts
  <2> HIDE DEF q, n
  <2>2. conn' = [conn EXCEPT ![c] = y]
    <3> DEFINE f == TookFed(c, n, q)
    <3>1. Becomes(f, c, y)
      BY <1>1, TookFedUpdate
    <3>2. conn' = f
      BY <1>6 DEF TookFed
    <3> HIDE DEF f, y
    <3> QED
      BY <3>1, <3>2 DEF Becomes
  <2>3. Is(v, x.state, x.ib, x.ob, x.rd, x.wr, x.item, x.ritem + n, want - n, x.item_comm)
    BY <1>2, ChangeFacts
  <2> HIDE DEF v
  <2>4. /\ ConnRec(v) /\ v.state = x.state /\ v.ib = x.ib /\ v.ob = x.ob /\ v.rd = x.rd /\ v.wr = x.wr
        /\ v.item = x.item /\ v.ritem = x.ritem + n /\ v.rlbytes = want - n /\ v.item_comm = x.item_comm
    BY <2>3 DEF Is
  <2>5. Is(y, v.state, [buff |-> v.ib.buff \o q, curr |-> v.ib.curr], v.ob, v.rd, v.wr,
           v.item, v.ritem, v.rlbytes, v.item_comm)
    BY <1>2, <2>4, ChangeFacts
  <2> HIDE DEF y
  <2>6. Is(y, x.state, ib, x.ob, x.rd, x.wr, x.item, x.ritem + n, want - n, x.item_comm)
    BY <2>4, <2>5
  <2>7. w \in Seq(Unit) /\ x.ib.curr <= Len(w)
    <3>1. /\ w \in Seq(Unit) /\ Len(w) = Len(x.ib.buff) + Len(q) /\ Len(q) \in Nat /\ Len(x.ib.buff) \in Nat
      BY <1>2, <2>1
    <3> QED
      BY <1>2, <3>1
  <2> HIDE DEF w
  <2>8. ib \in [buff : Seq(Unit), curr : Nat] /\ ib.curr <= Len(ib.buff)
    BY <1>2, <2>7
  <2>9. x.ritem + n \in Nat /\ want - n \in Nat /\ x.state \in {x.state, "conn_closing"} /\ Streams'
    <3>1. x.ritem + n \in Nat
      BY <1>2, <2>1
    <3>2. want - n \in Nat
      BY <1>2, <2>1
    <3>3. Streams'
      BY <1>1, <2>1 DEF Streams
    <3> QED
      BY <3>1, <3>2, <3>3
  <2> HIDE DEF ib
  <2>10. Reading(y) /\ HeldBy(y) = HeldBy(x)
    BY <1>1, <2>6, <2>8, <2>9, ReadingStays
  <2> QED
    BY <1>1, <2>2, <2>9, <2>10, PassStep
<1> QED
  BY <1>4, <1>5, <1>6 DEF ReadRest

\* Part of the value is copied from the buffer into the item.
LEMMA CopyFromBufferStep ==
  ASSUME MemcachedInv, NEW c \in Conn, busy = c, CopyFromBuffer(c)
  PROVE  MemcachedInv' /\ SameStore
<1> DEFINE x == conn[c]
           b == x.ib
           it == x.item
           have == buffer_remain_read(b)
           n == IF have > x.rlbytes THEN x.rlbytes ELSE have
           at == x.ritem
           d == s.item[it].data
           d2 == [i \in DOMAIN d |-> IF i \in at + 1..at + n THEN b.buff[b.curr + i - at] ELSE d[i]]
<1>1. /\ UNCHANGED <<wire, sock, busy>> /\ x.state = "conn_nread"
      /\ s' = [s EXCEPT !.item[it].data = d2]
      /\ conn' = [Took(conn, c, n) EXCEPT ![c].ib.curr = @ + n]
  BY DEF CopyFromBuffer, net
<1>2. Conns /\ Streams' /\ Reading(x)
  BY <1>1, NowHeld DEF MemcachedInv, Streams
<1>3. /\ ConnRec(x) /\ b \in [buff : Seq(Unit), curr : Nat] /\ b.curr <= Len(b.buff)
      /\ at \in Nat /\ x.rlbytes \in Nat /\ b.curr \in Nat /\ b.buff \in Seq(Unit) /\ Len(b.buff) \in Nat
      /\ it # NoItem
  <2>1. Open(x) /\ it # NoItem
    BY <1>1, <1>2 DEF Reading
  <2>2. /\ ConnRec(x) /\ b \in [buff : Seq(Unit), curr : Nat] /\ b.curr <= Len(b.buff)
        /\ at \in Nat /\ x.rlbytes \in Nat
    BY <2>1 DEF Open
  <2>3. b.curr \in Nat /\ b.buff \in Seq(Unit) /\ Len(b.buff) \in Nat
    BY <2>2
  <2> QED
    BY <2>1, <2>2, <2>3
<1>4. CacheInv(s, {it}) /\ it \notin LinkedIn(s) /\ HeldBy(x) = {it}
  BY <1>3, NowHeld DEF HeldBy
<1>5. n \in Nat /\ n <= x.rlbytes /\ b.curr + n <= Len(b.buff)
  BY <1>3 DEF buffer_remain_read
<1> HIDE DEF n, b
<1>6. it \in {it} /\ d \in Value
  <2>1. it \in LinkedIn(s) \cup {it}
    OBVIOUS
  <2> QED
    BY <1>4, <2>1, LiveItem DEF ItemRec
<1>7. d2 \in Value
  <2> DEFINE l == Len(d)
  <2> HIDE DEF d
  <2>1. d \in Seq(Unit) /\ l \in Nat /\ l # 0 /\ DOMAIN d = 1 .. l /\ \A i \in 1 .. l : d[i] \in Unit
    BY <1>6 DEF Value
  <2>2. \A j \in 1 .. Len(b.buff) : b.buff[j] \in Unit
    BY <1>3
  <2> HIDE DEF at, l
  <2>3. ASSUME NEW i \in 1 .. l, i \in at + 1 .. at + n PROVE b.buff[b.curr + i - at] \in Unit
    <3> DEFINE h == b.curr
               m == Len(b.buff)
    <3>0. /\ h \in Nat /\ m \in Nat /\ at \in Nat /\ n \in Nat /\ i \in Int
          /\ h + n <= m /\ at + 1 <= i /\ i <= at + n
      BY <1>3, <1>5, <2>1, <2>3 DEF at
    <3>1. b.curr + i - at \in 1 .. Len(b.buff)
      <4> HIDE DEF h, m
      <4>1. h + i - at \in 1 .. m
        BY <3>0
      <4> QED
        BY <4>1 DEF h, m
    <3> QED
      BY <2>2, <3>1
  <2>4. d2 \in [1 .. l -> Unit]
    BY <2>1, <2>3
  <2> HIDE DEF d2
  <2>5. d2 \in Seq(Unit) /\ Len(d2) = l
    BY <2>1, <2>4
  <2>6. d2 # <<>>
    BY <2>1, <2>5
  <2> QED
    BY <2>5, <2>6 DEF Value
<1> HIDE DEF d2
<1>8. CacheInv(s', {it}) /\ LinkedIn(s') = LinkedIn(s)
      /\ \A i \in Item : i # it => s'.item[i] = s.item[i]
  BY <1>1, <1>4, <1>6, <1>7, DataStep
<1>9. StoreOf(s') = StoreOf(s)
  <2>1. ASSUME NEW i \in LinkedIn(s) PROVE StoreOf(s')[i[1]] = StoreOf(s)[i[1]]
    <3>1. i \in Item /\ i # it
      BY <1>4 DEF LinkedIn
    <3>2. StoreOf(s)[i[1]] = s.item[i].data /\ StoreOf(s')[i[1]] = s'.item[i].data
      BY <1>4, <1>8, StoreFacts
    <3> QED
      BY <1>8, <3>1, <3>2
  <2>2. ASSUME NEW k \in Key, \A i \in LinkedIn(s) : i[1] # k PROVE StoreOf(s')[k] = StoreOf(s)[k]
    BY <1>4, <1>8, <2>2, StoreFacts
  <2>3. \A k \in Key : StoreOf(s')[k] = StoreOf(s)[k]
    BY <2>1, <2>2
  <2> QED
    BY <2>3, StoreEqual
<1> DEFINE v == Counted(x, n)
           y == Eaten(v, n)
           ib == [buff |-> b.buff, curr |-> b.curr + n]
<1>10. conn' = [conn EXCEPT ![c] = y]
  BY <1>1, <1>2, ConnUpdates
<1>11. Is(v, x.state, x.ib, x.ob, x.rd, x.wr, x.item, at + n, x.rlbytes - n, x.item_comm)
  BY <1>3, ChangeFacts DEF b
<1> HIDE DEF v
<1>12. /\ ConnRec(v) /\ v.state = x.state /\ v.ib = x.ib /\ v.ob = x.ob /\ v.rd = x.rd /\ v.wr = x.wr
       /\ v.item = x.item /\ v.ritem = at + n /\ v.rlbytes = x.rlbytes - n /\ v.item_comm = x.item_comm
  BY <1>11 DEF Is
<1>13. Is(y, v.state, [buff |-> v.ib.buff, curr |-> v.ib.curr + n], v.ob, v.rd, v.wr,
          v.item, v.ritem, v.rlbytes, v.item_comm)
  BY <1>3, <1>12, ChangeFacts DEF b
<1> HIDE DEF y
<1>14. Is(y, x.state, ib, x.ob, x.rd, x.wr, x.item, at + n, x.rlbytes - n, x.item_comm)
  BY <1>12, <1>13 DEF b
<1>15. ib \in [buff : Seq(Unit), curr : Nat] /\ ib.curr <= Len(ib.buff)
  BY <1>3, <1>5
<1>16. at + n \in Nat /\ x.rlbytes - n \in Nat /\ x.state \in {x.state, "conn_closing"}
  BY <1>3, <1>5
<1> HIDE DEF ib
<1>17. Reading(y) /\ HeldBy(y) = HeldBy(x)
  BY <1>2, <1>14, <1>15, <1>16, ReadingStays
<1>18. /\ CacheInv(s', HeldBy(y)) /\ HeldBy(y) \cap LinkedIn(s') = {} /\ busy' = c /\ busy \in {c, Nobody}
  BY <1>1, <1>4, <1>8, <1>17
<1>19. MemcachedInv'
  BY <1>2, <1>10, <1>17, <1>18, BusyStep
<1> QED
  BY <1>9, <1>19 DEF SameStore

\* The record of a connection whose update has been answered.
LEMMA CompletedFacts ==
  ASSUME NEW x, ConnRec(x), NEW t, NEW a
  PROVE  /\ Is(Completed(x, t, a).c, x.state, x.ib, a, FALSE, TRUE, NoItem, 0, x.rlbytes, "none")
         /\ Completed(x, t, a).s = do_item_remove(t, x.item)
<1> DEFINE z == out_string(x, a)
           y == [z EXCEPT !.item = NoItem, !.item_comm = "none", !.ritem = 0]
<1>1. Completed(x, t, a).c = y /\ Completed(x, t, a).s = do_item_remove(t, x.item)
  BY DEF Completed
<1>2. Is(z, x.state, x.ib, a, FALSE, TRUE, x.item, x.ritem, x.rlbytes, x.item_comm)
  BY OutFacts
<1> HIDE DEF z
<1>3. /\ ConnRec(z) /\ z.state = x.state /\ z.ib = x.ib /\ z.ob = a /\ z.rd = FALSE /\ z.wr = TRUE
      /\ z.rlbytes = x.rlbytes
  BY <1>2 DEF Is
<1>4. y = [z EXCEPT !.item = NoItem, !.item_comm = "none", !.ritem = 0]
  OBVIOUS
<1> HIDE DEF y
<1>5. y = [state |-> z.state, ib |-> z.ib, ob |-> z.ob, rd |-> z.rd, wr |-> z.wr,
           item |-> NoItem, ritem |-> 0, rlbytes |-> z.rlbytes, item_comm |-> "none"]
  BY <1>3, <1>4 DEF ConnRec
<1>6. /\ ConnRec(y) /\ y.state = z.state /\ y.ib = z.ib /\ y.ob = z.ob /\ y.rd = z.rd /\ y.wr = z.wr
      /\ y.item = NoItem /\ y.ritem = 0 /\ y.rlbytes = z.rlbytes /\ y.item_comm = "none"
  BY <1>5 DEF ConnRec
<1>7. Is(y, x.state, x.ib, a, FALSE, TRUE, NoItem, 0, x.rlbytes, "none")
  BY <1>3, <1>6 DEF Is
<1> QED
  BY <1>1, <1>7

\* What complete_nread() answers to the update u with value v, when that turns
\* store m into m2.
Finishes(m, m2, u, v, sound, a) ==
  \/ /\ EndsRight(v, sound)
     /\ \E b \in BOOLEAN : Obeys(m, m2, u, v, b) /\ a = <<IF b THEN "STORED" ELSE "NOT_STORED">>
  \/ ~EndsRight(v, sound) /\ a = <<"CLIENT_ERROR">> /\ m2 = m

LEMMA CompleteAnswers ==
  ASSUME NEW x, Reading(x), x.item # NoItem, x.item_comm \in Update,
         CacheInv(s, {x.item}), x.item \notin LinkedIn(s), NEW env \in Envs, NEW sound,
         NEW u, u.op = x.item_comm, u.key = x.item[1]
  PROVE  \E a : /\ Is(complete_nread(x, env, sound).c, x.state, x.ib, a, FALSE, TRUE, NoItem, 0,
                      x.rlbytes, "none")
                /\ CacheInv(complete_nread(x, env, sound).s, {}) /\ a # <<>>
                /\ Finishes(StoreOf(s), StoreOf(complete_nread(x, env, sound).s), u,
                            s.item[x.item].data, sound, a)
<1> DEFINE it == x.item
           co == x.item_comm
           v == s.item[it].data
           r == complete_nread(x, env, sound)
<1>1. ConnRec(x)
  BY DEF Reading, Open
<1>2. CASE EndsRight(v, sound)
  <2> DEFINE o == do_store_item(s, it, co, env)
             a == <<IF o.stored THEN "STORED" ELSE "NOT_STORED">>
             t == o.s
  <2>1. /\ CacheInv(o.s, {it}) /\ o.stored \in BOOLEAN
        /\ Obeys(StoreOf(s), StoreOf(o.s), u, v, o.stored)
    BY StoreStep
  <2>2. r = Completed(x, t, a)
    BY <1>2 DEF complete_nread, Answered
  <2> HIDE DEF r
  <2>3. Is(r.c, x.state, x.ib, a, FALSE, TRUE, NoItem, 0, x.rlbytes, "none")
        /\ r.s = do_item_remove(t, it)
    BY <1>1, <2>2, CompletedFacts
  <2> HIDE DEF t, o, v
  <2>4. CacheInv(r.s, {}) /\ StoreOf(r.s) = StoreOf(t)
    BY <2>1, <2>3, LetGo DEF t
  <2>5. Finishes(StoreOf(s), StoreOf(r.s), u, v, sound, a) /\ a # <<>>
    BY <1>2, <2>1, <2>4 DEF Finishes, t
  <2> HIDE DEF a
  <2> QED
    BY <2>3, <2>4, <2>5 DEF r, v
<1>3. CASE ~ EndsRight(v, sound)
  <2> DEFINE a == <<"CLIENT_ERROR">>
  <2>1. r = Completed(x, s, a)
    BY <1>3 DEF complete_nread
  <2>2. Is(r.c, x.state, x.ib, a, FALSE, TRUE, NoItem, 0, x.rlbytes, "none")
        /\ r.s = do_item_remove(s, it)
    BY <1>1, <2>1, CompletedFacts
  <2> HIDE DEF r, v
  <2>3. CacheInv(r.s, {}) /\ StoreOf(r.s) = StoreOf(s)
    BY <2>2, LetGo
  <2>4. Finishes(StoreOf(s), StoreOf(r.s), u, v, sound, a) /\ a # <<>>
    BY <1>3, <2>3 DEF Finishes
  <2> HIDE DEF a
  <2> QED
    BY <2>2, <2>3, <2>4 DEF r, v
<1> QED
  BY <1>2, <1>3

\* The value of connection c is whole: the command u it was for is answered.
Finishing(c, u) ==
  \E y, sound :
    /\ conn' = [conn EXCEPT ![c] = y] /\ Open(y) /\ y.wr /\ y.item = NoItem /\ y.ob # <<>>
    /\ y.ib.buff = conn[c].ib.buff
    /\ Finishes(StoreOf(s), StoreOf(s'), u, s.item[conn[c].item].data, sound, y.ob)

LEMMA CompleteNreadStep ==
  ASSUME MemcachedInv, NEW c \in Conn, busy = c, CompleteNread(c)
  PROVE  /\ MemcachedInv'
         /\ \A u : u.op = conn[c].item_comm /\ u.key = conn[c].item[1] => Finishing(c, u)
<1> SUFFICES ASSUME NEW u, u.op = conn[c].item_comm /\ u.key = conn[c].item[1]
             PROVE  MemcachedInv' /\ Finishing(c, u)
  <2> DEFINE u == [op |-> conn[c].item_comm, key |-> conn[c].item[1]]
  <2>1. u.op = conn[c].item_comm /\ u.key = conn[c].item[1]
    OBVIOUS
  <2> HIDE DEF u
  <2> QED
    BY <2>1
<1> DEFINE x == conn[c]
<1>1. PICK env \in Envs, sound \in BOOLEAN :
        conn' = [conn EXCEPT ![c] = complete_nread(x, env, sound).c]
        /\ s' = complete_nread(x, env, sound).s
  BY DEF CompleteNread
<1>2. x.state = "conn_nread" /\ busy' = Nobody /\ UNCHANGED <<wire, sock>>
  BY DEF CompleteNread, net
<1>3. Conns /\ Streams' /\ Reading(x) /\ Open(x) /\ x # Closed
  BY <1>2, NowHeld DEF MemcachedInv, Streams, Reading
<1>4. x.item # NoItem /\ x.item_comm \in Update /\ x.rd
  BY <1>2, <1>3 DEF Reading
<1>5. CacheInv(s, {x.item}) /\ x.item \notin LinkedIn(s)
  BY <1>4, NowHeld
<1> DEFINE y == complete_nread(x, env, sound).c
<1>6. PICK a : /\ Is(y, x.state, x.ib, a, FALSE, TRUE, NoItem, 0, x.rlbytes, "none")
               /\ CacheInv(complete_nread(x, env, sound).s, {}) /\ a # <<>>
               /\ Finishes(StoreOf(s), StoreOf(complete_nread(x, env, sound).s), u,
                           s.item[x.item].data, sound, a)
  BY <1>3, <1>4, <1>5, CompleteAnswers
<1>7. CacheInv(s', {}) /\ Finishes(StoreOf(s), StoreOf(s'), u, s.item[x.item].data, sound, a)
  BY <1>1, <1>6
<1>8. conn' = [conn EXCEPT ![c] = y] /\ busy \in {c, Nobody}
  BY <1>1
<1> HIDE DEF y
<1>9. /\ ConnRec(y) /\ y.state = x.state /\ y.ib = x.ib /\ y.ob = a /\ y.rd = FALSE /\ y.wr = TRUE
      /\ y.item = NoItem /\ y.ritem = 0 /\ y.rlbytes = x.rlbytes /\ y.item_comm = "none"
  BY <1>6 DEF Is
<1>10. Open(y)
  <2>1. y.state \in {"conn_read", "conn_nread", "conn_closing"}
    BY <1>2, <1>9
  <2>2. y.ib \in [buff : Seq(Unit), curr : Nat] /\ y.ib.curr <= Len(y.ib.buff) /\ y.rlbytes \in Nat
    BY <1>3, <1>9 DEF Open
  <2>3. y.rd \in BOOLEAN /\ y.wr = ~y.rd /\ (y.rd => y.ob = <<>>)
    BY <1>9
  <2>4. y.ritem \in Nat /\ y.item \in Item \cup {NoItem} /\ y.item_comm \in Update \cup {"none"}
    BY <1>9
  <2> QED
    BY <1>9, <2>1, <2>2, <2>3, <2>4 DEF Open
<1>11. Idle(y)
  BY <1>9, <1>10 DEF Idle
<1>12. MemcachedInv'
  BY <1>2, <1>3, <1>7, <1>8, <1>11, DoneStep
<1>13. y.wr /\ y.item = NoItem /\ y.ob = a /\ y.ib.buff = x.ib.buff
  BY <1>9
<1>14. Finishing(c, u)
  BY <1>6, <1>7, <1>8, <1>10, <1>13 DEF Finishing
<1> QED
  BY <1>12, <1>14

\* conn_close() gives up the item and frees the descriptor.
LEMMA ConnCloseStep ==
  ASSUME MemcachedInv, NEW c \in Conn, busy \in {c, Nobody}, conn_close(c), busy' = Nobody,
         conn[c] # Closed
  PROVE  MemcachedInv' /\ SameStore
<1> DEFINE x == conn[c]
<1>1. s' = Release(s, x.item) /\ conn' = [conn EXCEPT ![c] = Closed]
  BY DEF conn_close
<1>2. Streams' /\ Idle(Closed)
  <2>1. <<>> \in Seq(Unit)
    OBVIOUS
  <2> QED
    BY <2>1 DEF conn_close, MemcachedInv, Streams, Idle
<1>3. CacheInv(s', {}) /\ StoreOf(s') = StoreOf(s)
  <2>1. CASE x.item = NoItem
    <3>1. CacheInv(s, {})
      BY <2>1, NowHeld, NothingHeld
    <3> QED
      BY <1>1, <2>1, <3>1 DEF Release
  <2>2. CASE x.item # NoItem
    <3>1. busy = c
      BY <2>2, NothingHeld DEF Idle
    <3>2. CacheInv(s, {x.item}) /\ s' = do_item_remove(s, x.item)
      BY <1>1, <2>2, <3>1, NowHeld DEF Release
    <3> QED
      BY <3>2, LetGo
  <2> QED
    BY <2>1, <2>2
<1> QED
  BY <1>1, <1>2, <1>3, DoneStep DEF SameStore

\* mc_accept(), mc_read() and mc_write().
LEMMA AcceptStep ==
  ASSUME MemcachedInv, NEW c \in Conn, mc_accept(c)
  PROVE  MemcachedInv' /\ SameStore
<1> DEFINE y == NewConn
<1>1. /\ busy = Nobody /\ busy' = Nobody /\ conn' = [conn EXCEPT ![c] = y] /\ s' = s
      /\ UNCHANGED <<wire, sock>>
  BY DEF mc_accept, net
<1>2. Streams' /\ CacheInv(s', {}) /\ StoreOf(s') = StoreOf(s) /\ busy \in {c, Nobody}
  BY <1>1, NothingHeld DEF MemcachedInv, Streams
<1>3. /\ ConnRec(y) /\ y.state = "conn_read" /\ y.ib = [buff |-> <<>>, curr |-> 0] /\ y.ob = <<>>
      /\ y.rd = TRUE /\ y.wr = FALSE /\ y.item = NoItem /\ y.ritem = 0 /\ y.rlbytes = 0
      /\ y.item_comm = "none"
  BY DEF NewConn, buffer_reset, ConnRec
<1> HIDE DEF y
<1>4. y.ib \in [buff : Seq(Unit), curr : Nat] /\ y.ib.curr <= Len(y.ib.buff)
  BY <1>3
<1>5. Open(y)
  <2>1. /\ y.ritem \in Nat /\ y.rlbytes \in Nat
        /\ y.item \in Item \cup {NoItem} /\ y.item_comm \in Update \cup {"none"}
    BY <1>3
  <2>2. y.rd \in BOOLEAN /\ y.wr = ~y.rd /\ y.ob = <<>>
    BY <1>3
  <2>3. ConnRec(y) /\ y.state \in {"conn_read", "conn_nread", "conn_closing"}
    BY <1>3
  <2> QED
    BY <1>4, <2>1, <2>2, <2>3 DEF Open
<1>6. Idle(y)
  BY <1>3, <1>5 DEF Idle
<1> QED
  BY <1>1, <1>2, <1>6, DoneStep DEF SameStore

LEMMA ReadStep ==
  ASSUME MemcachedInv, NEW c \in Conn, mc_read(c)
  PROVE  MemcachedInv' /\ SameStore
<1> DEFINE x == conn[c]
<1>1. /\ busy = Nobody /\ busy' = c /\ UNCHANGED <<s, conn, wire, sock>> /\ x # Closed /\ x.rd
  BY DEF mc_read, net
<1>2. Streams' /\ Conns /\ CacheInv(s, {}) /\ Idle(x) /\ busy \in {c, Nobody}
  BY <1>1, NothingHeld DEF MemcachedInv, Streams
<1>3. Reading(x) /\ HeldBy(x) = {}
  BY <1>1, <1>2 DEF Idle, Reading, HeldBy
<1>4. conn' = [conn EXCEPT ![c] = x]
  BY <1>1, <1>2 DEF Conns
<1>5. CacheInv(s', HeldBy(x)) /\ HeldBy(x) \cap LinkedIn(s') = {}
  BY <1>1, <1>2, <1>3
<1>6. MemcachedInv'
  BY <1>1, <1>2, <1>3, <1>4, <1>5, BusyStep
<1> QED
  BY <1>1, <1>6 DEF SameStore

\* A connection whose answer has been sent.
Resumed(x) == [x EXCEPT !.ib = buffer_reset, !.ob = <<>>,
                        !.state = "conn_read", !.wr = FALSE, !.rd = TRUE]

LEMMA ResumedFacts ==
  ASSUME NEW x, ConnRec(x)
  PROVE  Is(Resumed(x), "conn_read", buffer_reset, <<>>, TRUE, FALSE, x.item, x.ritem, x.rlbytes,
            x.item_comm)
<1> DEFINE y == Resumed(x)
<1>1. y = [x EXCEPT !.ib = buffer_reset, !.ob = <<>>,
                    !.state = "conn_read", !.wr = FALSE, !.rd = TRUE]
  BY DEF Resumed
<1> HIDE DEF y
<1>2. y = [state |-> "conn_read", ib |-> buffer_reset, ob |-> <<>>, rd |-> TRUE, wr |-> FALSE,
           item |-> x.item, ritem |-> x.ritem, rlbytes |-> x.rlbytes, item_comm |-> x.item_comm]
  BY <1>1 DEF ConnRec
<1>3. /\ ConnRec(y) /\ y.state = "conn_read" /\ y.ib = buffer_reset /\ y.ob = <<>> /\ y.rd = TRUE
      /\ y.wr = FALSE /\ y.item = x.item /\ y.ritem = x.ritem /\ y.rlbytes = x.rlbytes
      /\ y.item_comm = x.item_comm
  BY <1>2 DEF ConnRec
<1> QED
  BY <1>3 DEF Is, y

LEMMA WriteStep ==
  ASSUME MemcachedInv, NEW c \in Conn, mc_write(c)
  PROVE  MemcachedInv' /\ SameStore
<1> DEFINE x == conn[c]
<1>1. busy = Nobody /\ busy' = Nobody /\ x # Closed /\ busy \in {c, Nobody}
  BY DEF mc_write
<1>2. Conns /\ CacheInv(s, {}) /\ Idle(x) /\ Open(x) /\ ConnRec(x) /\ x.item = NoItem
  BY <1>1, NothingHeld DEF MemcachedInv, Idle, Open
<1>3. CASE conn_close(c)
  BY <1>1, <1>3, ConnCloseStep
<1>4. CASE /\ conn' = [conn EXCEPT ![c].ib = buffer_reset, ![c].ob = <<>>,
                                   ![c].state = "conn_read", ![c].wr = FALSE, ![c].rd = TRUE]
           /\ UNCHANGED <<s, net>>
  <2> DEFINE y == Resumed(x)
  <2>1. conn' = [conn EXCEPT ![c] = y]
    <3>1. conn = [d \in Conn |-> conn[d]]
      BY <1>2 DEF Conns
    <3> QED
      BY <1>4, <3>1 DEF Resumed
  <2>2. Is(y, "conn_read", buffer_reset, <<>>, TRUE, FALSE, x.item, x.ritem, x.rlbytes, x.item_comm)
    BY <1>2, ResumedFacts
  <2> HIDE DEF y
  <2>4. /\ ConnRec(y) /\ y.state = "conn_read" /\ y.ib = buffer_reset /\ y.ob = <<>> /\ y.rd = TRUE
        /\ y.wr = FALSE /\ y.item = NoItem /\ y.ritem = x.ritem /\ y.rlbytes = x.rlbytes
        /\ y.item_comm = x.item_comm
    BY <1>2, <2>2 DEF Is
  <2>5. y.ib \in [buff : Seq(Unit), curr : Nat] /\ y.ib.curr <= Len(y.ib.buff)
    BY <2>4 DEF buffer_reset
  <2>6. Open(y)
    <3>1. /\ y.ritem \in Nat /\ y.rlbytes \in Nat
          /\ y.item \in Item \cup {NoItem} /\ y.item_comm \in Update \cup {"none"}
      BY <1>2, <2>4 DEF Open
    <3>2. y.rd \in BOOLEAN /\ y.wr = ~y.rd /\ y.ob = <<>>
      BY <2>4
    <3>3. ConnRec(y) /\ y.state \in {"conn_read", "conn_nread", "conn_closing"}
      BY <2>4
    <3> QED
      BY <2>5, <3>1, <3>2, <3>3 DEF Open
  <2>7. Idle(y)
    BY <2>4, <2>6 DEF Idle
  <2>8. Streams' /\ CacheInv(s', {}) /\ StoreOf(s') = StoreOf(s)
    BY <1>2, <1>4 DEF MemcachedInv, Streams, net
  <2> QED
    BY <1>1, <2>1, <2>7, <2>8, DoneStep DEF SameStore
<1> QED
  BY <1>3, <1>4 DEF mc_write

LEMMA ReadLoopStep ==
  ASSUME MemcachedInv, NEW c \in Conn, ReadLoop(c)
  PROVE  MemcachedInv'
<1>1. busy = c
  BY DEF ReadLoop
<1>2. CASE Closing(c)
  <2>1. conn_close(c) /\ busy' = Nobody /\ busy \in {c, Nobody} /\ conn[c] # Closed
    BY <1>1, <1>2, NowHeld DEF Closing
  <2> QED
    BY <2>1, ConnCloseStep
<1>3. CASE CompleteNread(c)
  BY <1>1, <1>3, CompleteNreadStep
<1> QED
  BY <1>1, <1>2, <1>3, TryReadCommandStep, TryReadNetworkStep, CopyFromBufferStep,
     ReadRestStep DEF ReadLoop

\* The clients and the network.
LEMMA ClientStep ==
  ASSUME MemcachedInv, NEW c \in Conn, Client(c)
  PROVE  MemcachedInv' /\ SameStore
<1>1. s' = s /\ conn' = conn /\ busy' = busy /\ Conns /\ Streams
  BY DEF MemcachedInv, Client, Submit, Arrive, Quit
<1>2. wire \in [Conn -> Seq(Unit)] /\ sock \in [Conn -> Seq(Unit)]
  BY <1>1 DEF Streams
<1>3. Streams'
  <2>1. ASSUME NEW r \in Requests, Submit(c, r) PROVE Streams'
    <3>1. r \in Seq(Unit)
      BY UnitFacts
    <3>2. wire[c] \o r \in Seq(Unit)
      BY <1>2, <3>1
    <3>3. wire' = [wire EXCEPT ![c] = wire[c] \o r] /\ sock' = sock
      BY <2>1 DEF Submit
    <3> QED
      BY <1>2, <3>2, <3>3 DEF Streams
  <2>2. ASSUME NEW n \in 1 .. Len(wire[c]), Arrive(c, n) PROVE Streams'
    <3> DEFINE q == wire[c]
               a == SubSeq(q, 1, n)
               b == SubSeq(q, n + 1, Len(q))
    <3>1. q \in Seq(Unit) /\ Len(q) \in Nat
      BY <1>2
    <3>2. /\ 1 \in Nat /\ 1 >= 1 /\ n + 1 \in Nat /\ n + 1 >= 1
          /\ n \in Int /\ n <= Len(q) /\ Len(q) \in Int /\ Len(q) <= Len(q)
      BY <3>1
    <3> HIDE DEF q
    <3>3. a \in Seq(Unit) /\ b \in Seq(Unit)
      BY <3>1, <3>2, PartSeq
    <3>4. wire' = [wire EXCEPT ![c] = b] /\ sock' = [sock EXCEPT ![c] = sock[c] \o a]
      BY <2>2 DEF Arrive, q
    <3> HIDE DEF a, b
    <3>5. sock[c] \o a \in Seq(Unit)
      BY <1>2, <3>3
    <3> QED
      BY <1>2, <3>3, <3>4, <3>5 DEF Streams
  <2>3. CASE Quit(c)
    BY <1>2, <2>3 DEF Quit, Streams
  <2> QED
    BY <2>1, <2>2, <2>3 DEF Client
<1> QED
  BY <1>1, <1>3, OutsideStep DEF SameStore

\* Every step keeps the invariant.
LEMMA NextStep ==
  ASSUME MemcachedInv, Next
  PROVE  MemcachedInv'
<1>1. PICK c \in Conn : mc_accept(c) \/ mc_read(c) \/ ReadLoop(c) \/ mc_write(c) \/ Client(c)
  BY DEF Next
<1> QED
  BY <1>1, AcceptStep, ReadStep, ReadLoopStep, WriteStep, ClientStep

----------------------------------------------------------------------------
(* The cache clients have filled, one set after the other.                 *)

\* After n of the sets: the linked items are those of the first n keys, empty.
AfterSets(t, n) ==
  /\ CacheInv(t, {})
  /\ \A i \in LinkedIn(t) : (\E j \in 1 .. n : i[1] = Before[j]) /\ t.item[i].data = <<NL>>

LEMMA EmptyCache == AfterSets(assoc_init, 0)
<1> DEFINE t == assoc_init
<1>1. /\ t.item = [i \in Item |-> Free] /\ t.lru = <<>> /\ t.curr_items = 0
      /\ t.primary = [b \in 0 .. InitSize - 1 |-> <<>>] /\ t.old = <<>> /\ t.size = InitSize
      /\ t.expanding = FALSE /\ t.expand_bucket = 0 /\ t.hash_items = 0 /\ Fields(t)
  BY DEF assoc_init, Fields
<1> HIDE DEF t
<1>2. LinkedIn(t) = {} /\ Cardinality({}) = 0
  BY <1>1, FS_EmptySet DEF LinkedIn
<1>3. <<>> \in Seq(Item) /\ Len(<<>>) = 0 /\ DOMAIN <<>> = {}
  OBVIOUS
<1>4. NoDup(<<>>) /\ Members(<<>>) = {}
  BY <1>3 DEF NoDup, Members
<1>5. Tabled(t)
  BY <1>1, <1>3, StoreAssumption DEF Tabled
<1>6. Heap(t)
  BY <1>1 DEF Heap
<1>7. Chains(t)
  <2>1. \A b : OnPrimary(t, {}, b) = {}
    BY DEF OnPrimary
  <2>2. \A b \in DOMAIN t.primary : t.primary[b] = <<>>
    BY <1>1
  <2>3. DOMAIN t.old = {}
    BY <1>1, <1>3
  <2> QED
    BY <1>2, <1>4, <2>1, <2>2, <2>3 DEF Chains, ChainsOf, Unique
<1>8. Listed(t)
  BY <1>1, <1>2, <1>3, <1>4 DEF Listed
<1>9. Held(t, {})
  BY <1>1, <1>2 DEF Held
<1> QED
  BY <1>1, <1>2, <1>5, <1>6, <1>7, <1>8, <1>9 DEF AfterSets, CacheInv, t

\* A unit of a line end is an item's value.
LEMMA LineValue == <<NL>> \in Value
<1>1. NL \in Unit
  BY UnitFacts
<1> HIDE DEF NL, Unit
<1>2. <<NL>> \in Seq(Unit) /\ <<NL>> # <<>>
  BY <1>1
<1> QED
  BY <1>2 DEF Value

LEMMA SetStep ==
  ASSUME NEW n \in 1 .. Len(Before), NEW t, AfterSets(t, n - 1)
  PROVE  AfterSets(WithSet(t, FreeItem(t, Before[n])), n)
<1> DEFINE k == Before[n]
           it == FreeItem(t, k)
           a == do_item_alloc(t, k, 1)
           e == [a EXCEPT !.item[it].data = <<NL>>]
           l == do_item_link(e, it, TRUE)
           r == do_item_remove(l, it)
<1>0. /\ k \in Key /\ Len(Before) \in Nat /\ n \in Nat
      /\ \A j \in 1 .. n - 1 : j \in 1 .. n /\ Before[j] # k
  <2>1. /\ Before \in Seq(Key) /\ DOMAIN Before = 1 .. Len(Before) /\ Len(Before) \in Nat
        /\ \A i, j \in DOMAIN Before : Before[i] = Before[j] => i = j
    BY MemcachedAssumption
  <2>2. \A j \in 1 .. n - 1 : j \in 1 .. n /\ j \in 1 .. Len(Before) /\ j # n
    BY <2>1
  <2> QED
    BY <2>1, <2>2
<1>1. CacheInv(t, {}) /\ 1 \in Nat /\ 1 # 0
  BY DEF AfterSets
<1>2. \A j \in LinkedIn(t) : j[1] # k
  BY <1>0 DEF AfterSets
<1> HIDE DEF k
<1>3. HasFree(t, k)
  <2>1. \A i \in LinkedIn(t) \cup {} : i[1] = k => i = k \/ i = k
    BY <1>2
  <2> QED
    BY <1>0, <1>1, <2>1, FreeExists
<1>4. /\ it \in Item /\ it[1] = k /\ it \notin LinkedIn(t)
      /\ CacheInv(a, {} \cup {it}) /\ LinkedIn(a) = LinkedIn(t) /\ SameData(t, a)
  BY <1>0, <1>1, <1>3, AllocStep
<1>5. {} \cup {it} = {it} /\ it \in {it} /\ {it} \ {it} = {}
  OBVIOUS
<1>6. WithSet(t, it) = r
  BY <1>4 DEF WithSet, SetEmpty
<1> HIDE DEF it, a
<1>7. CacheInv(a, {it})
  BY <1>4, <1>5
<1>8. /\ CacheInv(e, {it}) /\ LinkedIn(e) = LinkedIn(a)
      /\ e.item[it].data = <<NL>> /\ \A i \in Item : i # it => e.item[i] = a.item[i]
  <2> DEFINE d == <<NL>>
             w == [a EXCEPT !.item[it].data = d]
  <2>1. d \in Value
    BY LineValue
  <2>2. e = w /\ w = [a EXCEPT !.item[it].data = d]
    OBVIOUS
  <2> HIDE DEF d, e, w
  <2>3. /\ CacheInv(w, {it}) /\ LinkedIn(w) = LinkedIn(a)
        /\ w.item[it].data = d /\ \A i \in Item : i # it => w.item[i] = a.item[i]
    BY <1>5, <1>7, <2>1, <2>2, DataStep
  <2> QED
    BY <2>2, <2>3 DEF d
<1> HIDE DEF e
<1>9. TRUE \in BOOLEAN /\ it \notin LinkedIn(e) /\ \A j \in LinkedIn(e) : j[1] # it[1]
  BY <1>2, <1>4, <1>8
<1>10. CacheInv(l, {it}) /\ LinkedIn(l) = LinkedIn(e) \cup {it} /\ SameData(e, l)
  BY <1>5, <1>8, <1>9, LinkStep
<1> HIDE DEF l
<1>11. CacheInv(r, {it} \ {it}) /\ LinkedIn(r) = LinkedIn(l) /\ SameData(l, r)
  BY <1>5, <1>10, RemoveStep
<1> HIDE DEF r
<1>12. CacheInv(r, {})
  BY <1>5, <1>11
<1>13. ASSUME NEW i \in LinkedIn(r)
       PROVE  (\E j \in 1 .. n : i[1] = Before[j]) /\ r.item[i].data = <<NL>>
  <2>1. i \in LinkedIn(l) /\ (i = it \/ i \in LinkedIn(t)) /\ i \in Item
    BY <1>4, <1>8, <1>10, <1>11, <1>13 DEF LinkedIn
  <2>2. i \in LinkedIn(e) \cup {it}
    BY <1>10, <2>1
  <2>3. r.item[i] # Free /\ l.item[i] # Free /\ e.item[i] # Free
    BY <1>8, <1>10, <1>12, <2>1, <2>2, LiveItem
  <2>4. r.item[i].data = e.item[i].data
    BY <1>10, <1>11, <2>1, <2>3 DEF SameData
  <2>5. CASE i = it
    BY <1>0, <1>4, <1>8, <2>4, <2>5 DEF k
  <2>6. CASE i # it
    <3>1. i \in LinkedIn(t) /\ i \in LinkedIn(a)
      BY <1>4, <2>1, <2>6
    <3>2. PICK j \in 1 .. n - 1 : i[1] = Before[j]
      BY <3>1 DEF AfterSets
    <3>3. t.item[i].data = <<NL>> /\ t.item[i] # Free /\ a.item[i] # Free
      BY <1>1, <1>7, <3>1, LiveItem DEF AfterSets
    <3>4. a.item[i].data = t.item[i].data
      BY <1>4, <2>1, <3>3 DEF SameData
    <3>5. e.item[i] = a.item[i]
      BY <1>8, <2>1, <2>6
    <3> QED
      BY <1>0, <2>4, <3>2, <3>3, <3>4, <3>5
  <2> QED
    BY <2>5, <2>6
<1> QED
  BY <1>6, <1>12, <1>13 DEF AfterSets, it, k

\* a[i] is the cache after i of the first k sets.
Sets(a, k) ==
  a = [i \in 0 .. k |-> IF i = 0 THEN assoc_init
                        ELSE WithSet(a[i - 1], FreeItem(a[i - 1], Before[i]))]

LEMMA SetsExist ==
  ASSUME NEW n \in Nat
  PROVE  \E a : Sets(a, n)
<1> DEFINE T == {k \in 0 .. n : \E a : Sets(a, k)}
<1>1. 0 \in T
  <2> DEFINE a == [i \in 0 .. 0 |-> assoc_init]
  <2>1. 0 \in 0 .. n /\ \A i \in 0 .. 0 : i = 0
    OBVIOUS
  <2>2. Sets(a, 0)
    BY <2>1 DEF Sets
  <2> QED
    BY <2>1, <2>2
<1>2. ASSUME NEW k \in 0 .. n, k # 0, k - 1 \in T PROVE k \in T
  <2>1. PICK b : Sets(b, k - 1)
    BY <1>2
  <2> DEFINE G(t, i) == WithSet(t, FreeItem(t, Before[i]))
             x == G(b[k - 1], k)
             a == [i \in 0 .. k |-> IF i = k THEN x ELSE b[i]]
             F(g, i) == IF i = 0 THEN assoc_init ELSE G(g[i - 1], i)
  <2>2. /\ k \in Nat
        /\ \A i \in 0 .. k : i # 0 => i - 1 \in 0 .. k /\ i - 1 # k
        /\ \A i \in 0 .. k : i # k => i \in 0 .. k - 1
    BY <1>2
  <2>3. \A i \in 0 .. k - 1 : b[i] = F(b, i)
    BY <2>1 DEF Sets
  <2>9. (\A i \in 0 .. k : a[i] = F(a, i)) /\ a = [i \in 0 .. k |-> a[i]] => Sets(a, k)
    BY DEF Sets
  <2> HIDE DEF G
  <2>4. \A i \in 0 .. k : a[i] = IF i = k THEN x ELSE b[i]
    OBVIOUS
  <2>5. x = F(b, k)
    BY <1>2
  <2> HIDE DEF x
  <2>6. a = [i \in 0 .. k |-> a[i]]
    OBVIOUS
  <2> HIDE DEF a
  <2>7. ASSUME NEW i \in 0 .. k PROVE a[i] = F(a, i)
    <3>1. i # 0 => a[i - 1] = b[i - 1]
      BY <2>2, <2>4
    <3>2. F(a, i) = F(b, i)
      BY <3>1
    <3>3. a[i] = F(b, i)
      <4> HIDE DEF F
      <4> QED
        BY <2>2, <2>3, <2>4, <2>5
    <3> QED
      BY <3>2, <3>3
  <2>8. Sets(a, k)
    BY <2>6, <2>7, <2>9
  <2> QED
    BY <2>8
<1> HIDE DEF T
<1>3. n \in T
  BY <1>1, <1>2, IndexInduction
<1> QED
  BY <1>3 DEF T

LEMMA FilledSets ==
  ASSUME Len(Before) \in Nat
  PROVE  \E a : Sets(a, Len(Before)) /\ Filled = a[Len(Before)]
<1> DEFINE n == Len(Before)
           F(g) == [i \in 0 .. n |-> IF i = 0 THEN assoc_init
                                     ELSE WithSet(g[i - 1], FreeItem(g[i - 1], Before[i]))]
           after == CHOOSE g : g = F(g)
<1>1. Filled = after[n]
  BY DEF Filled
<1>2. \A g : g = F(g) <=> Sets(g, n)
  BY DEF Sets
<1>3. \E g : g = F(g)
  <2> HIDE DEF F, n
  <2>1. \E g : Sets(g, n)
    BY SetsExist DEF n
  <2> QED
    BY <1>2, <2>1
<1> HIDE DEF F
<1>4. after = F(after)
  BY <1>3
<1>5. Sets(after, n)
  BY <1>2, <1>4
<1> QED
  BY <1>1, <1>5

\* The cache the handler starts with.
LEMMA FilledCache == AfterSets(Filled, Len(Before))
<1>1. Len(Before) \in Nat
  BY MemcachedAssumption
<1>2. PICK a : Sets(a, Len(Before)) /\ Filled = a[Len(Before)]
  BY <1>1, FilledSets
<1> DEFINE T == {n \in 0 .. Len(Before) : AfterSets(a[n], n)}
<1>3. 0 \in T
  <2>1. a[0] = assoc_init
    BY <1>1, <1>2 DEF Sets
  <2> QED
    BY <1>1, <2>1, EmptyCache
<1>4. ASSUME NEW n \in 0 .. Len(Before), n # 0, n - 1 \in T PROVE n \in T
  <2>1. n \in 1 .. Len(Before) /\ AfterSets(a[n - 1], n - 1)
    BY <1>1, <1>4
  <2>2. a[n] = WithSet(a[n - 1], FreeItem(a[n - 1], Before[n]))
    BY <1>2, <1>4 DEF Sets
  <2>3. AfterSets(a[n], n)
    BY <2>1, <2>2, SetStep
  <2> QED
    BY <2>3
<1>5. Len(Before) \in T
  <2> DEFINE n == Len(Before)
  <2>1. \A i \in 0 .. n : i # 0 /\ i - 1 \in T => i \in T
    BY <1>4
  <2> HIDE DEF T, n
  <2>2. n \in Nat /\ n \in 0 .. n
    BY <1>1 DEF n
  <2>3. n \in T
    BY <1>3, <2>1, <2>2, IndexInduction
  <2> QED
    BY <2>3 DEF n
<1> HIDE DEF T
<1> QED
  BY <1>2, <1>5 DEF T

LEMMA InitInv == ASSUME Init PROVE MemcachedInv
<1>1. CacheInv(s, {})
  BY FilledCache DEF Init, AfterSets
<1>2. HeldNow = {}
  BY DEF Init, HeldNow
<1>3. Conns
  <2>1. \A c \in Conn : conn[c] = Closed /\ c # busy
    BY MemcachedAssumption DEF Init
  <2>2. busy \in Conn \cup {Nobody} /\ conn = [c \in Conn |-> conn[c]]
    BY DEF Init
  <2> QED
    BY <2>1, <2>2 DEF Conns, Idle
<1>4. Streams
  <2>1. <<>> \in Seq(Unit)
    OBVIOUS
  <2> QED
    BY <2>1 DEF Init, Streams
<1> QED
  BY <1>1, <1>2, <1>3, <1>4 DEF MemcachedInv

\* A stuttering step changes none of what the invariant is about.
LEMMA StutterInv == ASSUME MemcachedInv, UNCHANGED vars PROVE MemcachedInv'
BY OutsideStep DEF vars, MemcachedInv, Streams

----------------------------------------------------------------------------
(* The streams: what is in the buffer while a value is read.               *)

\* The value being read into data d is the one behind the line in the buffer, as
\* far as ritem tells, unless some of it was received later than the line.
Begun(x, d) ==
  LET h == x.ib.buff IN
  /\ x.ib.curr >= 2 /\ h[2] = NL
  /\ h[1].op = x.item_comm /\ h[1].key = x.item[1] /\ h[1].vlen \in Nat
  /\ x.item_comm \in Update
  /\ Len(d) = h[1].vlen + 1 /\ x.ritem + x.rlbytes = Len(d)
  /\ x.ritem >= x.ib.curr - 2
  /\ x.ritem = x.ib.curr - 2 => \A i \in 1 .. x.ritem : d[i] = h[i + 2]

Proper(x, t) ==
  x # Closed =>
    /\ x.ib.buff \in Seq(Plain)
    /\ x.wr => x.ob # <<>>
    /\ x.rd /\ x.state = "conn_read" => x.ib.curr = 0
    /\ x.item # NoItem => Begun(x, t.item[x.item].data)

Sends == wire \in [Conn -> Seq(Plain)] /\ sock \in [Conn -> Seq(Plain)]
StreamInv == Sends /\ \A c \in Conn : Proper(conn[c], s)

\* A step for connection c leaves the others' streams as they are.
LEMMA ProperStep ==
  ASSUME MemcachedInv, StreamInv, NEW c \in Conn, busy \in {c, Nobody}, NEW y,
         conn' = [conn EXCEPT ![c] = y], Proper(y, s'), Sends'
  PROVE  StreamInv'
<1>1. conn = [d \in Conn |-> conn[d]]
  BY DEF MemcachedInv, Conns
<1>2. ASSUME NEW d \in Conn PROVE Proper(conn[d], s)'
  <2>1. CASE d = c
    BY <1>1, <2>1
  <2>2. CASE d # c
    <3>1. conn'[d] = conn[d] /\ Proper(conn[d], s)
      BY <1>1, <2>2 DEF StreamInv
    <3>2. Idle(conn[d])
      BY <2>2, MemcachedAssumption DEF MemcachedInv, Conns
    <3>3. conn[d] # Closed => conn[d].item = NoItem
      BY <3>2 DEF Idle
    <3> QED
      BY <3>1, <3>3 DEF Proper
  <2> QED
    BY <2>1, <2>2
<1> QED
  BY <1>2 DEF StreamInv

\* A step that leaves the cache and the connections alone.
LEMMA ProperSame ==
  ASSUME StreamInv, s' = s, conn' = conn, Sends'
  PROVE  StreamInv'
BY DEF StreamInv

----------------------------------------------------------------------------
(* What the abstract specification sees.                                   *)

HeldOf(x) == IF x = Closed THEN <<>> ELSE x.ib.buff
ObOf(x) == IF x = Closed THEN <<>> ELSE x.ob

SentNow == [c \in Conn |-> sock[c] \o wire[c]]
HeldOfAll == [c \in Conn |-> HeldOf(conn[c])]
LateNow == [c \in Conn |-> Late(conn[c])]
Wary == errno = "ERANGE"
AnswerNow == [c \in Conn |-> ObOf(conn[c])]

\* A step is one of the abstract specification, or none.
KVStep == [KV!Next]_(KV!vars)

\* The streams and the errno as they were.
LEMMA QuietSeen ==
  ASSUME SameStore, SentNow' = SentNow, HeldOfAll' = HeldOfAll, LateNow' = LateNow,
         AnswerNow' = AnswerNow, errno' \in {errno, "other"}
  PROVE  KVStep
<1>1. CASE errno' = errno
  <2>1. UNCHANGED KV!vars
    BY <1>1 DEF SameStore, SentNow, HeldOfAll, LateNow, AnswerNow, KV!vars, StoreOf, CachedIn, Cached,
       HeldOf, ObOf
  <2> QED
    BY <2>1 DEF KVStep
<1>2. CASE errno' = "other"
  <2>1. (errno' = "ERANGE") = FALSE
    BY <1>2
  <2>2. KV!Forget
    BY <2>1 DEF SameStore, SentNow, HeldOfAll, LateNow, AnswerNow, KV!Forget, StoreOf, CachedIn, Cached,
       HeldOf, ObOf
  <2> QED
    BY <2>2 DEF KVStep, KV!Next
<1> QED
  BY <1>1, <1>2

LEMMA AskSeen ==
  ASSUME NEW c \in Conn, NEW r \in Requests, SentNow' = [SentNow EXCEPT ![c] = @ \o r],
         SameStore, HeldOfAll' = HeldOfAll, LateNow' = LateNow, AnswerNow' = AnswerNow, errno' = errno
  PROVE  KVStep
<1>1. KV!Ask(c)
  BY DEF SameStore, SentNow, HeldOfAll, LateNow, AnswerNow, KV!Ask, StoreOf, CachedIn, Cached,
     HeldOf, ObOf
<1> QED
  BY <1>1 DEF KVStep, KV!Next

LEMMA ReceiveSeen ==
  ASSUME NEW c \in Conn, AnswerNow[c] = <<>>, NEW n \in 1 .. Len(SentNow[c]),
         HeldOfAll' = [HeldOfAll EXCEPT ![c] = @ \o SubSeq(SentNow[c], 1, n)],
         SentNow' = [SentNow EXCEPT ![c] = SubSeq(@, n + 1, Len(@))],
         LateNow' = [LateNow EXCEPT ![c] = KV!Whole(HeldOfAll[c])],
         SameStore, AnswerNow' = AnswerNow, errno' = errno
  PROVE  KVStep
<1>1. KV!Receive(c)
  BY DEF SameStore, SentNow, HeldOfAll, LateNow, AnswerNow, KV!Receive, StoreOf, CachedIn, Cached,
     HeldOf, ObOf
<1> QED
  BY <1>1 DEF KVStep, KV!Next

LEMMA AnswerSeen ==
  ASSUME NEW c \in Conn, AnswerNow[c] = <<>>, AnswerNow'[c] # <<>>,
         \A d \in Conn \ {c} : AnswerNow'[d] = AnswerNow[d],
         KV!Lawful(StoreOf(s), StoreOf(s'), HeldOfAll[c], LateNow[c], Wary, AnswerNow'[c]),
         Wary' = (Wary \/ KV!Asks(HeldOfAll[c], {"hugeline"})),
         LateNow' = [LateNow EXCEPT ![c] = FALSE],
         SentNow' = SentNow, HeldOfAll' = HeldOfAll
  PROVE  KVStep
<1>1. KV!Answer(c)
  BY DEF SentNow, HeldOfAll, LateNow, AnswerNow, Wary, KV!Answer, StoreOf, CachedIn, Cached,
     HeldOf, ObOf
<1> QED
  BY <1>1 DEF KVStep, KV!Next

LEMMA SentSeen ==
  ASSUME NEW c \in Conn, AnswerNow[c] # <<>>, AnswerNow' = [AnswerNow EXCEPT ![c] = <<>>],
         HeldOfAll' = [HeldOfAll EXCEPT ![c] = <<>>],
         SameStore, SentNow' = SentNow, LateNow' = LateNow, errno' = errno
  PROVE  KVStep
<1>1. KV!Sent(c)
  BY DEF SameStore, SentNow, HeldOfAll, LateNow, AnswerNow, KV!Sent, StoreOf, CachedIn, Cached,
     HeldOf, ObOf
<1> QED
  BY <1>1 DEF KVStep, KV!Next

LEMMA CloseSeen ==
  ASSUME NEW c \in Conn,
         SentNow' = [SentNow EXCEPT ![c] = <<>>], HeldOfAll' = [HeldOfAll EXCEPT ![c] = <<>>],
         LateNow' = [LateNow EXCEPT ![c] = FALSE], AnswerNow' = [AnswerNow EXCEPT ![c] = <<>>],
         SameStore, errno' = errno
  PROVE  KVStep
<1>1. KV!Close(c)
  BY DEF SameStore, SentNow, HeldOfAll, LateNow, AnswerNow, KV!Close, StoreOf, CachedIn, Cached,
     HeldOf, ObOf
<1> QED
  BY <1>1 DEF KVStep, KV!Next

\* What is seen of a connection whose record becomes y.
LEMMA ConnSeen ==
  ASSUME Conns, NEW c \in Conn, NEW y, conn' = [conn EXCEPT ![c] = y]
  PROVE  /\ HeldOfAll' = [HeldOfAll EXCEPT ![c] = HeldOf(y)]
         /\ LateNow' = [LateNow EXCEPT ![c] = Late(y)]
         /\ AnswerNow' = [AnswerNow EXCEPT ![c] = ObOf(y)]
<1>1. conn = [d \in Conn |-> conn[d]]
  BY DEF Conns
<1>2. conn'[c] = y /\ \A d \in Conn : d # c => conn'[d] = conn[d]
  BY <1>1
<1> DEFINE H(x) == HeldOf(x)
           L(x) == Late(x)
           A(x) == ObOf(x)
<1>3. /\ HeldOfAll' = [d \in Conn |-> H(conn'[d])] /\ HeldOfAll = [d \in Conn |-> H(conn[d])]
      /\ LateNow' = [d \in Conn |-> L(conn'[d])] /\ LateNow = [d \in Conn |-> L(conn[d])]
      /\ AnswerNow' = [d \in Conn |-> A(conn'[d])] /\ AnswerNow = [d \in Conn |-> A(conn[d])]
  BY DEF HeldOfAll, LateNow, AnswerNow
<1> HIDE DEF H, L, A
<1>4. HeldOfAll' = [HeldOfAll EXCEPT ![c] = H(y)]
  BY <1>2, <1>3
<1>5. LateNow' = [LateNow EXCEPT ![c] = L(y)]
  BY <1>2, <1>3
<1>6. AnswerNow' = [AnswerNow EXCEPT ![c] = A(y)]
  BY <1>2, <1>3
<1> QED
  BY <1>4, <1>5, <1>6 DEF H, L, A

\* Nothing is seen of a step after which connection c looks as before.
LEMMA ConnUnseen ==
  ASSUME Conns, NEW c \in Conn, NEW y, conn' = [conn EXCEPT ![c] = y],
         HeldOf(y) = HeldOf(conn[c]), Late(y) = Late(conn[c]), ObOf(y) = ObOf(conn[c])
  PROVE  HeldOfAll' = HeldOfAll /\ LateNow' = LateNow /\ AnswerNow' = AnswerNow
<1> DEFINE H(x) == HeldOf(x)
           L(x) == Late(x)
           A(x) == ObOf(x)
<1>1. /\ HeldOfAll' = [HeldOfAll EXCEPT ![c] = H(y)]
      /\ LateNow' = [LateNow EXCEPT ![c] = L(y)]
      /\ AnswerNow' = [AnswerNow EXCEPT ![c] = A(y)]
  BY ConnSeen
<1>2. /\ HeldOfAll = [d \in Conn |-> H(conn[d])]
      /\ LateNow = [d \in Conn |-> L(conn[d])]
      /\ AnswerNow = [d \in Conn |-> A(conn[d])]
      /\ H(y) = H(conn[c]) /\ L(y) = L(conn[c]) /\ A(y) = A(conn[c])
  BY DEF HeldOfAll, LateNow, AnswerNow
<1> HIDE DEF H, L, A
<1>3. HeldOfAll' = HeldOfAll
  BY <1>1, <1>2
<1>4. LateNow' = LateNow
  BY <1>1, <1>2
<1>5. AnswerNow' = AnswerNow
  BY <1>1, <1>2
<1> QED
  BY <1>3, <1>4, <1>5

Glued(x, y) == x \o y
LEMMA Regroup ==
  \A x, y, z \in Seq(Plain) : Glued(x, y) \in Seq(Plain) /\ Glued(Glued(x, y), z) = Glued(x, Glued(y, z))
BY ConcatAssociative DEF Glued

\* Streams that are cut: the first n units of q moved to the end of p.
LEMMA MoveFacts ==
  ASSUME NEW p \in Seq(Plain), NEW q \in Seq(Plain), NEW n \in 1 .. Len(q)
  PROVE  /\ SubSeq(q, 1, n) \in Seq(Plain) /\ SubSeq(q, n + 1, Len(q)) \in Seq(Plain)
         /\ (p \o SubSeq(q, 1, n)) \o SubSeq(q, n + 1, Len(q)) = p \o q
<1> DEFINE a == SubSeq(q, 1, n)
           b == SubSeq(q, n + 1, Len(q))
<1>1. Len(q) \in Nat /\ \A i \in 1 .. Len(q) : q[i] \in Plain
  OBVIOUS
<1>2. /\ 1 \in Int /\ n \in Int /\ n + 1 \in Int /\ Len(q) \in Int
      /\ \A i \in 1 .. n : i \in 1 .. Len(q)
      /\ \A i \in n + 1 .. Len(q) : i \in 1 .. Len(q)
      /\ 1 \in 1 .. Len(q) + 1 /\ n \in 1 - 1 .. Len(q) /\ Len(q) \in n .. Len(q)
  BY <1>1
<1>3. a \in Seq(Plain)
  BY <1>1, <1>2, SubSeqProperties
<1>4. b \in Seq(Plain)
  BY <1>1, <1>2, SubSeqProperties
<1>5. a \o b = SubSeq(q, 1, Len(q))
  BY <1>2, ConcatAdjacentSubSeq
<1>6. a \o b = q
  BY <1>5, SubSeqFull
<1> HIDE DEF a, b
<1>7. Glued(a, b) = q
  BY <1>6 DEF Glued
<1>8. Glued(Glued(p, a), b) = Glued(p, q)
  BY <1>3, <1>4, <1>7, Regroup
<1> QED
  BY <1>3, <1>4, <1>8 DEF a, b, Glued

\* The same seen from the receiver: the first n units of p \o q.
LEMMA TakeFacts ==
  ASSUME NEW p \in Seq(Plain), NEW q \in Seq(Plain), NEW n \in 1 .. Len(p)
  PROVE  /\ n \in 1 .. Len(p \o q)
         /\ SubSeq(p \o q, 1, n) = SubSeq(p, 1, n)
         /\ SubSeq(p \o q, n + 1, Len(p \o q)) = SubSeq(p, n + 1, Len(p)) \o q
<1> DEFINE a == SubSeq(p, 1, n)
           b == SubSeq(p, n + 1, Len(p))
           r == p \o q
<1>1. /\ Len(p) \in Nat /\ Len(q) \in Nat /\ r \in Seq(Plain) /\ Len(r) = Len(p) + Len(q)
      /\ \A i \in 1 .. Len(r) : r[i] = IF i <= Len(p) THEN p[i] ELSE q[i - Len(p)]
      /\ \A i \in 1 .. Len(r) : r[i] \in Plain
      /\ \A i \in 1 .. Len(p) : p[i] \in Plain
  <2>1. p \o q \in Seq(Plain) /\ Len(p \o q) = Len(p) + Len(q)
    OBVIOUS
  <2>2. \A i \in 1 .. Len(p) + Len(q) : (p \o q)[i] = IF i <= Len(p) THEN p[i] ELSE q[i - Len(p)]
    BY ConcatProperties
  <2>3. \A i \in 1 .. Len(p \o q) : (p \o q)[i] \in Plain
    BY <2>1
  <2> QED
    BY <2>1, <2>2, <2>3
<1> HIDE DEF r
<1>2. n \in 1 .. Len(r)
  BY <1>1
<1>3. 1 \in 1 .. Len(p) /\ n \in 1 .. Len(p)
  BY <1>1
<1>4. SubSeq(r, 1, n) = a
  BY <1>3, SubSeqOfConcat1 DEF r
<1>5. SubSeq(r, n + 1, Len(r)) = b \o q
  <2> DEFINE m == Len(r)
             l == Len(p)
             x == SubSeq(r, n + 1, m)
             y == b \o q
  <2>1. /\ n + 1 \in Int /\ m \in Int /\ l \in Int
        /\ \A i \in n + 1 .. m : r[i] \in Plain
        /\ \A i \in n + 1 .. l : p[i] \in Plain
    BY <1>1
  <2>2. /\ x \in Seq(Plain) /\ Len(x) = m - n
        /\ \A i \in 1 .. m - n : x[i] = r[n + i]
    <3>1. /\ x \in Seq(Plain) /\ Len(x) = (IF n + 1 <= m THEN m - (n + 1) + 1 ELSE 0)
          /\ \A i \in 1 .. m - (n + 1) + 1 : x[i] = r[n + 1 + i - 1]
      BY <2>1, SubSeqProperties
    <3>2. /\ (IF n + 1 <= m THEN m - (n + 1) + 1 ELSE 0) = m - n
          /\ m - (n + 1) + 1 = m - n
          /\ \A i \in 1 .. m - n : n + 1 + i - 1 = n + i
      BY <1>1, <1>2
    <3> QED
      BY <3>1, <3>2
  <2>3. /\ b \in Seq(Plain) /\ Len(b) = l - n
        /\ \A i \in 1 .. l - n : b[i] = p[n + i]
    <3>1. /\ b \in Seq(Plain) /\ Len(b) = (IF n + 1 <= l THEN l - (n + 1) + 1 ELSE 0)
          /\ \A i \in 1 .. l - (n + 1) + 1 : b[i] = p[n + 1 + i - 1]
      BY <2>1, SubSeqProperties
    <3>2. /\ (IF n + 1 <= l THEN l - (n + 1) + 1 ELSE 0) = l - n
          /\ l - (n + 1) + 1 = l - n
          /\ \A i \in 1 .. l - n : n + 1 + i - 1 = n + i
      BY <1>1
    <3> QED
      BY <3>1, <3>2
  <2> HIDE DEF x, b
  <2>4. /\ y \in Seq(Plain) /\ Len(y) = Len(b) + Len(q)
        /\ \A i \in 1 .. Len(b) + Len(q) : y[i] = IF i <= Len(b) THEN b[i] ELSE q[i - Len(b)]
    BY <2>3, ConcatProperties
  <2> HIDE DEF y
  <2>5. Len(x) = Len(y) /\ Len(x) = m - n
    BY <1>1, <2>2, <2>3, <2>4
  <2>6. ASSUME NEW i \in 1 .. m - n PROVE x[i] = y[i]
    <3>1. /\ x[i] = r[n + i] /\ n + i \in 1 .. m /\ i \in 1 .. Len(b) + Len(q)
      BY <1>1, <1>2, <2>2, <2>3
    <3>2. CASE i <= l - n
      <4>1. r[n + i] = p[n + i]
        BY <1>1, <3>1, <3>2
      <4>2. y[i] = b[i] /\ b[i] = p[n + i]
        <5>1. i \in 1 .. l - n
          BY <1>1, <3>2
        <5> QED
          BY <2>3, <2>4, <3>1, <3>2, <5>1
      <4> QED
        BY <3>1, <4>1, <4>2
    <3>3. CASE ~(i <= l - n)
      <4>1. r[n + i] = q[n + i - l] /\ n + i - l = i - (l - n)
        BY <1>1, <3>1, <3>3
      <4>2. y[i] = q[i - (l - n)]
        BY <2>3, <2>4, <3>1, <3>3
      <4> QED
        BY <3>1, <4>1, <4>2
    <3> QED
      BY <3>2, <3>3
  <2>7. x = y
    <3>1. Len(x) = Len(y) /\ \A i \in 1 .. Len(x) : x[i] = y[i]
      BY <2>5, <2>6
    <3> QED
      BY <2>2, <2>4, <3>1, SeqEqual
  <2> QED
    BY <2>7 DEF x, y
<1> QED
  BY <1>2, <1>4, <1>5 DEF r, a, b

----------------------------------------------------------------------------
(* Each step is one of the abstract specification, or none.                *)

LEMMA ClientRefines ==
  ASSUME MemcachedInv, StreamInv, NEW c \in Conn, Client(c)
  PROVE  StreamInv' /\ KVStep
<1>1. /\ s' = s /\ conn' = conn /\ SameStore /\ errno' = errno
      /\ HeldOfAll' = HeldOfAll /\ LateNow' = LateNow /\ AnswerNow' = AnswerNow
  BY DEF Client, Submit, Arrive, Quit, SameStore, HeldOfAll, LateNow, AnswerNow
<1>2. wire \in [Conn -> Seq(Plain)] /\ sock \in [Conn -> Seq(Plain)]
  BY DEF StreamInv, Sends
<1>3. ASSUME NEW r \in Requests, Submit(c, r) PROVE Sends' /\ KVStep
  <2> DEFINE w == wire[c]
             k == sock[c]
             z == w \o r
  <2>1. r \in Seq(Plain) /\ w \in Seq(Plain) /\ k \in Seq(Plain)
    BY <1>2, UnitFacts
  <2> HIDE DEF w, k
  <2>2. z \in Seq(Plain) /\ k \o z = (k \o w) \o r
    <3>1. Glued(w, r) \in Seq(Plain) /\ Glued(Glued(k, w), r) = Glued(k, Glued(w, r))
      BY <2>1, Regroup
    <3> QED
      BY <3>1 DEF Glued
  <2>3. wire' = [wire EXCEPT ![c] = z] /\ sock' = sock
    BY <1>3 DEF Submit, w
  <2> HIDE DEF z
  <2>4. Sends'
    BY <1>2, <2>2, <2>3 DEF Sends
  <2>5. wire'[c] = z /\ \A d \in Conn : d # c => wire'[d] = wire[d]
    BY <1>2, <2>3
  <2>6. SentNow' = [SentNow EXCEPT ![c] = @ \o r]
    <3> DEFINE N(d) == sock'[d] \o wire'[d]
               O(d) == sock[d] \o wire[d]
    <3>1. N(c) = O(c) \o r
      BY <2>2, <2>3, <2>5 DEF w, k
    <3>2. ASSUME NEW d \in Conn, d # c PROVE N(d) = O(d)
      BY <2>3, <2>5, <3>2
    <3>3. SentNow' = [d \in Conn |-> N(d)] /\ SentNow = [d \in Conn |-> O(d)]
      BY DEF SentNow
    <3> HIDE DEF N, O
    <3> QED
      BY <3>1, <3>2, <3>3
  <2> QED
    BY <1>1, <2>4, <2>6, AskSeen
<1>4. ASSUME NEW n \in 1 .. Len(wire[c]), Arrive(c, n) PROVE Sends' /\ KVStep
  <2> DEFINE w == wire[c]
             k == sock[c]
             a == SubSeq(w, 1, n)
             b == SubSeq(w, n + 1, Len(w))
  <2>1. w \in Seq(Plain) /\ k \in Seq(Plain)
    BY <1>2
  <2>2. a \in Seq(Plain) /\ b \in Seq(Plain) /\ (k \o a) \o b = k \o w
    BY <2>1, MoveFacts
  <2>3. wire' = [wire EXCEPT ![c] = b] /\ sock' = [sock EXCEPT ![c] = k \o a]
    BY <1>4 DEF Arrive
  <2> HIDE DEF a, b, w, k
  <2>4. Sends'
    <3>1. k \o a \in Seq(Plain)
      BY <2>1, <2>2
    <3> QED
      BY <1>2, <2>2, <2>3, <3>1 DEF Sends
  <2>5. /\ wire'[c] = b /\ sock'[c] = k \o a
        /\ \A d \in Conn : d # c => wire'[d] = wire[d] /\ sock'[d] = sock[d]
    BY <1>2, <2>3
  <2>6. ASSUME NEW d \in Conn PROVE sock'[d] \o wire'[d] = sock[d] \o wire[d]
    BY <2>2, <2>5 DEF w, k
  <2>7. SentNow' = SentNow
    BY <2>6 DEF SentNow
  <2> QED
    BY <1>1, <2>4, <2>7, QuietSeen
<1>5. ASSUME Quit(c) PROVE Sends' /\ KVStep
  <2>1. wire' = wire /\ sock' = sock
    BY <1>5 DEF Quit
  <2>2. Sends' /\ SentNow' = SentNow
    BY <1>2, <2>1 DEF Sends, SentNow
  <2> QED
    BY <1>1, <2>2, QuietSeen
<1>6. Sends' /\ KVStep
  BY <1>3, <1>4, <1>5 DEF Client
<1> QED
  BY <1>1, <1>6, ProperSame

LEMMA AcceptRefines ==
  ASSUME MemcachedInv, StreamInv, NEW c \in Conn, mc_accept(c)
  PROVE  StreamInv' /\ KVStep
<1> DEFINE y == NewConn
<1>1. /\ busy = Nobody /\ conn[c] = Closed /\ conn' = [conn EXCEPT ![c] = y]
      /\ UNCHANGED <<wire, sock, errno>>
  BY DEF mc_accept, net
<1>2. SameStore /\ Conns
  BY AcceptStep DEF MemcachedInv
<1>3. /\ y.state = "conn_read" /\ y.ib = [buff |-> <<>>, curr |-> 0] /\ y.ob = <<>>
      /\ y.wr = FALSE /\ y.item = NoItem
  BY DEF NewConn, buffer_reset
<1>4. y # Closed
  BY <1>3 DEF Closed
<1> HIDE DEF y
<1>5. /\ HeldOf(y) = <<>> /\ ObOf(y) = <<>> /\ Late(y) = FALSE
      /\ HeldOf(Closed) = <<>> /\ ObOf(Closed) = <<>> /\ Late(Closed) = FALSE
  BY <1>3, <1>4 DEF HeldOf, ObOf, Late
<1>6. Proper(y, s')
  <2>1. <<>> \in Seq(Plain)
    OBVIOUS
  <2> QED
    BY <1>3, <2>1 DEF Proper
<1>7. Sends' /\ SentNow' = SentNow
  BY <1>1 DEF StreamInv, Sends, SentNow
<1>8. StreamInv'
  BY <1>1, <1>6, <1>7, ProperStep
<1>9. HeldOfAll' = HeldOfAll /\ LateNow' = LateNow /\ AnswerNow' = AnswerNow
  BY <1>1, <1>2, <1>5, ConnUnseen
<1> QED
  BY <1>1, <1>2, <1>7, <1>8, <1>9, QuietSeen

LEMMA ReadRefines ==
  ASSUME MemcachedInv, StreamInv, NEW c \in Conn, mc_read(c)
  PROVE  StreamInv' /\ KVStep
<1>1. UNCHANGED <<s, conn, wire, sock>> /\ errno' \in {errno, "other"}
  BY DEF mc_read, net
<1>2. /\ SameStore /\ Sends' /\ SentNow' = SentNow
      /\ HeldOfAll' = HeldOfAll /\ LateNow' = LateNow /\ AnswerNow' = AnswerNow
  BY <1>1 DEF SameStore, StreamInv, Sends, SentNow, HeldOfAll, LateNow, AnswerNow
<1> QED
  BY <1>1, <1>2, ProperSame, QuietSeen

LEMMA CloseRefines ==
  ASSUME MemcachedInv, StreamInv, NEW c \in Conn, busy \in {c, Nobody}, conn_close(c), busy' = Nobody,
         conn[c] # Closed
  PROVE  StreamInv' /\ KVStep
<1>1. /\ conn' = [conn EXCEPT ![c] = Closed] /\ wire' = [wire EXCEPT ![c] = <<>>]
      /\ sock' = [sock EXCEPT ![c] = <<>>] /\ errno' = errno
  BY DEF conn_close
<1>2. SameStore /\ Conns /\ Sends
  BY ConnCloseStep DEF MemcachedInv, StreamInv
<1>3. HeldOf(Closed) = <<>> /\ ObOf(Closed) = <<>> /\ Late(Closed) = FALSE /\ Proper(Closed, s')
  BY DEF HeldOf, ObOf, Late, Proper
<1>4. Sends'
  <2>1. <<>> \in Seq(Plain)
    OBVIOUS
  <2> QED
    BY <1>1, <1>2, <2>1 DEF Sends
<1>5. SentNow' = [SentNow EXCEPT ![c] = <<>>]
  <2>1. /\ wire'[c] = <<>> /\ sock'[c] = <<>>
        /\ \A d \in Conn : d # c => wire'[d] = wire[d] /\ sock'[d] = sock[d]
    BY <1>1, <1>2 DEF Sends
  <2>2. <<>> \o <<>> = <<>>
    OBVIOUS
  <2> QED
    BY <2>1, <2>2 DEF SentNow
<1>6. /\ HeldOfAll' = [HeldOfAll EXCEPT ![c] = HeldOf(Closed)]
      /\ LateNow' = [LateNow EXCEPT ![c] = Late(Closed)]
      /\ AnswerNow' = [AnswerNow EXCEPT ![c] = ObOf(Closed)]
  BY <1>1, <1>2, ConnSeen
<1>7. KVStep
  BY <1>1, <1>2, <1>3, <1>5, <1>6, CloseSeen
<1> QED
  BY <1>1, <1>3, <1>4, <1>7, ProperStep

LEMMA WriteRefines ==
  ASSUME MemcachedInv, StreamInv, NEW c \in Conn, mc_write(c)
  PROVE  StreamInv' /\ KVStep
<1> DEFINE x == conn[c]
           y == Resumed(x)
<1>1. busy = Nobody /\ busy' = Nobody /\ x # Closed /\ x.wr
  BY DEF mc_write
<1>2. SameStore /\ Conns /\ Idle(x) /\ Open(x) /\ ConnRec(x) /\ x.item = NoItem
  BY <1>1, WriteStep, NothingHeld DEF MemcachedInv, Idle, Open
<1>3. CASE conn_close(c)
  BY <1>1, <1>3, CloseRefines
<1>4. CASE /\ conn' = [conn EXCEPT ![c].ib = buffer_reset, ![c].ob = <<>>,
                                   ![c].state = "conn_read", ![c].wr = FALSE, ![c].rd = TRUE]
           /\ UNCHANGED <<s, net, errno>>
  <2>1. conn' = [conn EXCEPT ![c] = y]
    <3>1. conn = [d \in Conn |-> conn[d]]
      BY <1>2 DEF Conns
    <3> QED
      BY <1>4, <3>1 DEF Resumed
  <2>2. Is(y, "conn_read", buffer_reset, <<>>, TRUE, FALSE, x.item, x.ritem, x.rlbytes, x.item_comm)
    BY <1>2, ResumedFacts
  <2> HIDE DEF y
  <2>3. /\ y.state = "conn_read" /\ y.ib = buffer_reset /\ y.ob = <<>> /\ y.wr = FALSE /\ y.item = NoItem
    BY <1>2, <2>2 DEF Is
  <2>4. y.ib.buff = <<>> /\ y.ib.curr = 0 /\ y # Closed
    <3>1. y.state # "closed"
      BY <2>3
    <3>2. y # Closed
      BY <3>1 DEF Closed
    <3> QED
      BY <2>3, <3>2 DEF buffer_reset
  <2>5. /\ HeldOf(y) = <<>> /\ ObOf(y) = <<>> /\ Late(y) = FALSE
        /\ ObOf(x) = x.ob /\ Late(x) = FALSE
    BY <1>1, <1>2, <2>3, <2>4 DEF HeldOf, ObOf, Late
  <2>6. Proper(y, s')
    <3>1. <<>> \in Seq(Plain)
      OBVIOUS
    <3> QED
      BY <2>3, <2>4, <3>1 DEF Proper
  <2>7. Sends' /\ SentNow' = SentNow /\ errno' = errno
    BY <1>4 DEF StreamInv, Sends, SentNow, net
  <2>8. StreamInv'
    BY <1>1, <2>1, <2>6, <2>7, ProperStep
  <2>9. AnswerNow[c] # <<>>
    <3>1. AnswerNow[c] = x.ob
      BY <2>5 DEF AnswerNow
    <3>2. x.ob # <<>>
      BY <1>1 DEF StreamInv, Proper
    <3> QED
      BY <3>1, <3>2
  <2>10. /\ HeldOfAll' = [HeldOfAll EXCEPT ![c] = HeldOf(y)]
         /\ LateNow' = [LateNow EXCEPT ![c] = Late(y)]
         /\ AnswerNow' = [AnswerNow EXCEPT ![c] = ObOf(y)]
    BY <1>2, <2>1, ConnSeen
  <2>11. LateNow' = LateNow
    <3>1. LateNow[c] = FALSE /\ LateNow = [d \in Conn |-> LateNow[d]]
      BY <2>5 DEF LateNow
    <3> QED
      BY <2>5, <2>10, <3>1
  <2>12. KVStep
    BY <1>2, <2>5, <2>7, <2>9, <2>10, <2>11, SentSeen
  <2> QED
    BY <2>8, <2>12
<1> QED
  BY <1>3, <1>4 DEF mc_write


\* A pass of mc_read() of which nothing is seen but the errno.
LEMMA PassRefines ==
  ASSUME MemcachedInv, StreamInv, NEW c \in Conn, busy = c, NEW y, conn' = [conn EXCEPT ![c] = y],
         UNCHANGED <<wire, sock>>, SameStore, errno' \in {errno, "other"}, Proper(y, s'),
         HeldOf(y) = HeldOf(conn[c]), Late(y) = Late(conn[c]), ObOf(y) = ObOf(conn[c])
  PROVE  StreamInv' /\ KVStep
<1>1. Conns /\ busy \in {c, Nobody}
  BY DEF MemcachedInv
<1>2. Sends' /\ SentNow' = SentNow
  BY DEF StreamInv, Sends, SentNow
<1>3. StreamInv'
  BY <1>1, <1>2, ProperStep
<1>4. HeldOfAll' = HeldOfAll /\ LateNow' = LateNow /\ AnswerNow' = AnswerNow
  BY <1>1, ConnUnseen
<1> QED
  BY <1>2, <1>3, <1>4, QuietSeen

\* A pass that receives n units.
LEMMA ReceiveRefines ==
  ASSUME Conns, Sends, NEW c \in Conn, NEW n \in 1 .. Len(sock[c]), NEW y,
         conn[c] # Closed, conn[c].ob = <<>>, conn[c].ib.buff \in Seq(Plain),
         y # Closed, y.ob = <<>>, y.ib.buff = conn[c].ib.buff \o SubSeq(sock[c], 1, n),
         conn' = [conn EXCEPT ![c] = y], UNCHANGED wire,
         sock' = [sock EXCEPT ![c] = SubSeq(@, n + 1, Len(@))],
         Late(y) = KV!Whole(conn[c].ib.buff), SameStore, errno' = errno
  PROVE  Sends' /\ KVStep /\ y.ib.buff \in Seq(Plain)
<1> DEFINE x == conn[c]
           p == sock[c]
           q == wire[c]
           a == SubSeq(p, 1, n)
           b == SubSeq(p, n + 1, Len(p))
<1>1. p \in Seq(Plain) /\ q \in Seq(Plain)
  BY DEF Sends
<1>2. /\ n \in 1 .. Len(p \o q) /\ SubSeq(p \o q, 1, n) = a
      /\ SubSeq(p \o q, n + 1, Len(p \o q)) = b \o q
  BY <1>1, TakeFacts
<1>3. a \in Seq(Plain) /\ b \in Seq(Plain)
  BY <1>1, MoveFacts
<1>4. sock' = [sock EXCEPT ![c] = b]
  OBVIOUS
<1>5. SentNow[c] = p \o q
  BY DEF SentNow
<1>6. HeldOf(x) = x.ib.buff /\ HeldOf(y) = x.ib.buff \o a /\ ObOf(x) = <<>> /\ ObOf(y) = <<>>
  BY DEF HeldOf, ObOf
<1>7. HeldOfAll[c] = x.ib.buff /\ AnswerNow[c] = <<>>
  BY <1>6 DEF HeldOfAll, AnswerNow
<1> HIDE DEF a, b, p, q
<1>8. Sends'
  BY <1>3, <1>4 DEF Sends
<1>9. SentNow' = [SentNow EXCEPT ![c] = b \o q]
  <2>1. /\ sock'[c] = b /\ wire' = wire /\ \A d \in Conn : d # c => sock'[d] = sock[d]
    BY <1>4 DEF Sends
  <2> DEFINE N(d) == sock'[d] \o wire'[d]
             O(d) == sock[d] \o wire[d]
  <2>2. N(c) = b \o q
    BY <2>1 DEF q
  <2>3. ASSUME NEW d \in Conn, d # c PROVE N(d) = O(d)
    BY <2>1, <2>3
  <2>4. SentNow' = [d \in Conn |-> N(d)] /\ SentNow = [d \in Conn |-> O(d)]
    BY DEF SentNow
  <2> HIDE DEF N, O
  <2> QED
    BY <2>2, <2>3, <2>4
<1>10. /\ HeldOfAll' = [HeldOfAll EXCEPT ![c] = HeldOf(y)]
       /\ LateNow' = [LateNow EXCEPT ![c] = Late(y)]
       /\ AnswerNow' = [AnswerNow EXCEPT ![c] = ObOf(y)]
  BY ConnSeen
<1>11. AnswerNow' = AnswerNow
  <2>1. AnswerNow = [d \in Conn |-> AnswerNow[d]]
    BY DEF AnswerNow
  <2> QED
    BY <1>6, <1>7, <1>10, <2>1
<1> DEFINE h == SentNow[c]
<1>12. n \in 1 .. Len(h) /\ SubSeq(h, 1, n) = a /\ SubSeq(h, n + 1, Len(h)) = b \o q
  BY <1>2, <1>5
<1>13. HeldOfAll' = [HeldOfAll EXCEPT ![c] = @ \o SubSeq(SentNow[c], 1, n)]
  BY <1>6, <1>7, <1>10, <1>12
<1>14. SentNow' = [SentNow EXCEPT ![c] = SubSeq(@, n + 1, Len(@))]
  BY <1>9, <1>12
<1>15. LateNow' = [LateNow EXCEPT ![c] = KV!Whole(HeldOfAll[c])]
  BY <1>7, <1>10
<1>16. KVStep
  BY <1>7, <1>11, <1>12, <1>13, <1>14, <1>15, ReceiveSeen
<1>17. y.ib.buff \in Seq(Plain)
  <2> DEFINE h1 == x.ib.buff
  <2>1. h1 \in Seq(Plain) /\ y.ib.buff = h1 \o a
    BY DEF a, p
  <2> HIDE DEF h1
  <2>2. Glued(h1, a) \in Seq(Plain)
    BY <1>3, <2>1, Regroup
  <2> QED
    BY <2>1, <2>2 DEF Glued
<1> QED
  BY <1>8, <1>16, <1>17

\* n units counted and received, or counted and consumed.
LEMMA CountedFacts ==
  ASSUME NEW x, ConnRec(x), x.ib \in [buff : Seq(Unit), curr : Nat], NEW q, NEW n
  PROVE  /\ Is(Fed(Counted(x, n), q), x.state, [buff |-> x.ib.buff \o q, curr |-> x.ib.curr],
               x.ob, x.rd, x.wr, x.item, x.ritem + n, x.rlbytes - n, x.item_comm)
         /\ Is(Eaten(Counted(x, n), n), x.state, [buff |-> x.ib.buff, curr |-> x.ib.curr + n],
               x.ob, x.rd, x.wr, x.item, x.ritem + n, x.rlbytes - n, x.item_comm)
<1> DEFINE v == Counted(x, n)
<1>1. Is(v, x.state, x.ib, x.ob, x.rd, x.wr, x.item, x.ritem + n, x.rlbytes - n, x.item_comm)
  BY ChangeFacts
<1> HIDE DEF v
<1>2. /\ ConnRec(v) /\ v.state = x.state /\ v.ib = x.ib /\ v.ob = x.ob /\ v.rd = x.rd /\ v.wr = x.wr
      /\ v.item = x.item /\ v.ritem = x.ritem + n /\ v.rlbytes = x.rlbytes - n
      /\ v.item_comm = x.item_comm
  BY <1>1 DEF Is
<1>3. /\ Is(Fed(v, q), v.state, [buff |-> v.ib.buff \o q, curr |-> v.ib.curr], v.ob, v.rd, v.wr,
            v.item, v.ritem, v.rlbytes, v.item_comm)
      /\ Is(Eaten(v, n), v.state, [buff |-> v.ib.buff, curr |-> v.ib.curr + n], v.ob, v.rd, v.wr,
            v.item, v.ritem, v.rlbytes, v.item_comm)
  BY <1>2, ChangeFacts
<1> DEFINE y == Fed(v, q)
           z == Eaten(v, n)
<1> HIDE DEF y, z
<1>4. /\ Is(y, x.state, [buff |-> x.ib.buff \o q, curr |-> x.ib.curr],
            x.ob, x.rd, x.wr, x.item, x.ritem + n, x.rlbytes - n, x.item_comm)
      /\ Is(z, x.state, [buff |-> x.ib.buff, curr |-> x.ib.curr + n],
            x.ob, x.rd, x.wr, x.item, x.ritem + n, x.rlbytes - n, x.item_comm)
  BY <1>2, <1>3 DEF y, z
<1> QED
  BY <1>4 DEF y, z, v

\* A connection that is to be closed looks as before.
LEMMA EndedRefines ==
  ASSUME MemcachedInv, StreamInv, NEW c \in Conn, busy = c,
         conn' = [conn EXCEPT ![c].state = "conn_closing"], UNCHANGED <<s, wire, sock>>,
         errno' \in {errno, "other"}
  PROVE  StreamInv' /\ KVStep
<1> DEFINE x == conn[c]
           y == Ended(x)
<1>1. Conns /\ Reading(x) /\ x # Closed /\ Proper(x, s)
  BY NowHeld DEF MemcachedInv, StreamInv
<1>2. ConnRec(x) /\ x.ib \in [buff : Seq(Unit), curr : Nat]
  BY <1>1 DEF Reading, Open
<1>3. Is(y, "conn_closing", x.ib, x.ob, x.rd, x.wr, x.item, x.ritem, x.rlbytes, x.item_comm)
  BY <1>2, ChangeFacts
<1>4. conn' = [conn EXCEPT ![c] = y]
  BY <1>1, ConnUpdates
<1> HIDE DEF y
<1>5. /\ y.state = "conn_closing" /\ y.ib = x.ib /\ y.ob = x.ob /\ y.wr = x.wr /\ y.item = x.item
      /\ y.ritem = x.ritem /\ y.rlbytes = x.rlbytes /\ y.item_comm = x.item_comm
  BY <1>3 DEF Is
<1>6. y # Closed
  <2>1. y.state # "closed"
    BY <1>5
  <2> QED
    BY <2>1 DEF Closed
<1>7. HeldOf(y) = HeldOf(x) /\ Late(y) = Late(x) /\ ObOf(y) = ObOf(x)
  BY <1>1, <1>5, <1>6 DEF HeldOf, Late, ObOf
<1>8. Proper(y, s')
  BY <1>1, <1>5 DEF Proper, Begun
<1>9. SameStore
  BY DEF SameStore
<1> QED
  BY <1>4, <1>7, <1>8, <1>9, PassRefines

\* The process goes down: nothing else changes.
LEMMA DownRefines ==
  ASSUME StreamInv, UNCHANGED <<s, conn, wire, sock, errno>>
  PROVE  StreamInv' /\ KVStep
<1>1. /\ SameStore /\ Sends' /\ SentNow' = SentNow
      /\ HeldOfAll' = HeldOfAll /\ LateNow' = LateNow /\ AnswerNow' = AnswerNow
  BY DEF SameStore, StreamInv, Sends, SentNow, HeldOfAll, LateNow, AnswerNow
<1> QED
  BY <1>1, ProperSame, QuietSeen

LEMMA TryReadNetworkRefines ==
  ASSUME MemcachedInv, StreamInv, NEW c \in Conn, busy = c, TryReadNetwork(c)
  PROVE  StreamInv' /\ KVStep
<1> DEFINE x == conn[c]
           avail == buffer_remain_write(x.ib)
           n == Recv(c, avail)
<1>1. /\ UNCHANGED <<s, wire, busy>> /\ Conns /\ Streams /\ Sends /\ Reading(x) /\ x # Closed /\ Proper(x, s)
      /\ x.state = "conn_read" /\ LineEnds(x.ib) = {} /\ SameStore
  BY NowHeld DEF TryReadNetwork, MemcachedInv, StreamInv, SameStore
<1>2. /\ ConnRec(x) /\ x.ib \in [buff : Seq(Unit), curr : Nat] /\ x.ob = <<>> /\ x.item = NoItem
      /\ x.rd /\ x.wr = FALSE /\ x.ib.curr = 0 /\ x.ib.buff \in Seq(Plain)
  BY <1>1 DEF Reading, Open, Proper
<1>3. avail \in Int
  <2>1. Len(x.ib.buff) \in Nat /\ MC_BUFFER_SIZE \in Nat
    BY <1>2, MemcachedAssumption
  <2>2. avail = MC_BUFFER_SIZE - Len(x.ib.buff)
    BY DEF buffer_remain_write
  <2> QED
    BY <2>1, <2>2
<1>4. KV!Whole(x.ib.buff) = FALSE
  <2> DEFINE h == x.ib.buff
  <2>1. LineEnds(x.ib) = {i \in 1 .. Len(h) : h[i] = NL}
    <3>1. x.ib.curr + 1 = 1
      BY <1>2
    <3> QED
      BY <3>1 DEF LineEnds
  <2>2. DOMAIN h = 1 .. Len(h)
    BY <1>2
  <2> QED
    BY <1>1, <2>1, <2>2 DEF KV!Whole
<1>5. CASE UNCHANGED <<conn, sock, errno>>
  BY <1>1, <1>5, DownRefines
<1>6. CASE /\ conn' = [conn EXCEPT ![c].state = "conn_closing"] /\ UNCHANGED sock
           /\ errno' = recv_errno(c, n)
  <2>1. errno' \in {errno, "other"}
    BY <1>6 DEF recv_errno
  <2> QED
    BY <1>1, <1>6, <2>1, EndedRefines
<1>7. CASE avail # n /\ Received(c, n) /\ errno' = recv_errno(c, n)
  <2> DEFINE q == SubSeq(sock[c], 1, n)
             y == Fed(x, q)
             w == x.ib.buff \o q
             ib == [buff |-> w, curr |-> x.ib.curr]
  <2>1. n \in Nat /\ n <= Len(sock[c])
    BY <1>1, <1>3, <1>7, RecvFacts
  <2>2. conn' = [conn EXCEPT ![c].ib.buff = @ \o q] /\ sock' = [sock EXCEPT ![c] = SubSeq(@, n + 1, Len(@))]
    BY <1>7 DEF Received
  <2>3. conn' = [conn EXCEPT ![c] = y]
    BY <1>1, <2>2, ConnUpdates
  <2>4. Is(y, x.state, ib, x.ob, x.rd, x.wr, x.item, x.ritem, x.rlbytes, x.item_comm)
    BY <1>2, ChangeFacts
  <2> HIDE DEF y, w
  <2>5. /\ y.state = "conn_read" /\ y.ib.buff = w /\ y.ib.curr = 0 /\ y.ob = <<>> /\ y.wr = FALSE
        /\ y.item = NoItem
    BY <1>1, <1>2, <2>4 DEF Is
  <2>6. y # Closed
    <3>1. y.state # "closed"
      BY <2>5
    <3> QED
      BY <3>1 DEF Closed
  <2>7. Late(y) = FALSE /\ Late(x) = FALSE
    BY <1>2, <2>5 DEF Late
  <2>8. ASSUME w \in Seq(Plain) PROVE Proper(y, s')
    BY <2>5, <2>8 DEF Proper
  <2>9. CASE n = 0
    <3>1. q = <<>>
      BY <2>9
    <3>2. w = x.ib.buff
      <4> DEFINE k == x.ib.buff
      <4>1. k \in Seq(Plain)
        BY <1>2
      <4> HIDE DEF k
      <4>2. k \o <<>> = k
        BY <4>1, ConcatEmptySeq
      <4> QED
        BY <3>1, <4>2 DEF k, w
    <3>3. sock' = sock
      <4> DEFINE p == sock[c]
      <4>1. p \in Seq(Plain) /\ SubSeq(p, 1, Len(p)) = p
        BY <1>1, SubSeqFull DEF Sends
      <4>2. sock' = [sock EXCEPT ![c] = p]
        <5>1. sock' = [sock EXCEPT ![c] = SubSeq(p, n + 1, Len(p))]
          BY <2>2
        <5>2. n + 1 = 1
          BY <2>9
        <5> QED
          BY <4>1, <5>1, <5>2
      <4> QED
        BY <1>1, <4>2 DEF Sends
    <3>4. errno' \in {errno, "other"}
      BY <1>7 DEF recv_errno
    <3>5. HeldOf(y) = HeldOf(x) /\ ObOf(y) = ObOf(x)
      BY <1>1, <1>2, <2>5, <2>6, <3>2 DEF HeldOf, ObOf
    <3>6. Proper(y, s')
      BY <1>2, <2>8, <3>2
    <3> HIDE DEF x, q, n, ib
    <3> QED
      BY <1>1, <2>3, <2>7, <3>3, <3>4, <3>5, <3>6, PassRefines DEF x
  <2>10. CASE n # 0
    <3>1. errno' = errno
      BY <1>7, <2>10 DEF recv_errno
    <3>2. n \in 1 .. Len(sock[c])
      <4> DEFINE l == Len(sock[c])
      <4>1. l \in Nat
        BY <1>1 DEF Sends
      <4> HIDE DEF l, n
      <4>2. n <= l
        BY <2>1 DEF l
      <4> QED
        BY <2>1, <2>10, <4>1, <4>2 DEF l
    <3> HIDE DEF n
    <3>3. y.ib.buff = x.ib.buff \o SubSeq(sock[c], 1, n)
      BY <2>5 DEF w
    <3>4. Late(y) = KV!Whole(x.ib.buff)
      BY <1>4, <2>7
    <3>5. Sends' /\ KVStep /\ y.ib.buff \in Seq(Plain)
      BY <1>1, <1>2, <2>2, <2>3, <2>5, <2>6, <3>1, <3>2, <3>3, <3>4, ReceiveRefines
    <3>6. Proper(y, s')
      BY <2>5, <2>8, <3>5
    <3>7. busy \in {c, Nobody}
      OBVIOUS
    <3> QED
      BY <2>3, <3>5, <3>6, <3>7, ProperStep
  <2> QED
    BY <2>9, <2>10
<1> QED
  BY <1>5, <1>6, <1>7 DEF TryReadNetwork

LEMMA ReadRestRefines ==
  ASSUME MemcachedInv, StreamInv, NEW c \in Conn, busy = c, ReadRest(c)
  PROVE  StreamInv' /\ KVStep
<1> DEFINE x == conn[c]
           want == x.rlbytes
           n == Recv(c, want)
           q == SubSeq(sock[c], 1, n)
           d == s.item[x.item].data
           h == x.ib.buff
<1>1. /\ UNCHANGED <<s, wire, busy>> /\ Conns /\ Streams /\ Sends /\ Reading(x) /\ x # Closed /\ Proper(x, s)
      /\ x.state = "conn_nread" /\ buffer_empty(x.ib) /\ SameStore
  BY NowHeld DEF ReadRest, MemcachedInv, StreamInv, SameStore
<1>2. /\ ConnRec(x) /\ x.ib \in [buff : Seq(Unit), curr : Nat] /\ x.ob = <<>> /\ x.item # NoItem
      /\ x.rd /\ x.wr = FALSE /\ h \in Seq(Plain) /\ Begun(x, d)
      /\ x.ib.curr \in Nat /\ x.ib.curr <= Len(h) /\ x.ritem \in Nat /\ want \in Nat
  BY <1>1 DEF Reading, Open, Proper
<1>4. KV!Whole(h) = TRUE /\ Len(h) \in Nat /\ Len(h) >= 2
  <2>1. Len(h) \in Nat /\ DOMAIN h = 1 .. Len(h) /\ h[2] = NL /\ x.ib.curr >= 2
    BY <1>2 DEF Begun
  <2>2. Len(h) >= 2 /\ 2 \in DOMAIN h
    BY <1>2, <2>1
  <2> QED
    BY <2>1, <2>2 DEF KV!Whole
<1>5. CASE UNCHANGED <<conn, sock, errno>>
  BY <1>1, <1>5, DownRefines
<1>6. CASE /\ conn' = [conn EXCEPT ![c].state = "conn_closing"] /\ UNCHANGED sock
           /\ errno' = recv_errno(c, n)
  <2>1. errno' \in {errno, "other"}
    BY <1>6 DEF recv_errno
  <2> QED
    BY <1>1, <1>6, <2>1, EndedRefines
<1>7. CASE /\ n > 0 /\ conn' = [Took(conn, c, n) EXCEPT ![c].ib.buff = @ \o q]
           /\ sock' = [sock EXCEPT ![c] = SubSeq(@, n + 1, Len(@))] /\ UNCHANGED errno
  <2> DEFINE y == Fed(Counted(x, n), q)
             w == h \o q
             ib == [buff |-> w, curr |-> x.ib.curr]
  <2>1. n \in Nat /\ n <= Len(sock[c]) /\ n <= want
    <3>1. want \in Int /\ want >= 0
      BY <1>2
    <3> QED
      BY <1>1, <3>1, RecvFacts
  <2> HIDE DEF n
  <2>2. n \in 1 .. Len(sock[c])
    <3> DEFINE l == Len(sock[c])
    <3>1. l \in Nat /\ n <= l
      BY <1>1, <2>1 DEF Sends
    <3> HIDE DEF l
    <3> QED
      BY <1>7, <2>1, <3>1 DEF l
  <2>3. q \in Seq(Plain) /\ Len(q) \in Nat
    <3>1. sock[c] \in Seq(Plain)
      BY <1>1 DEF Sends
    <3> QED
      BY <2>2, <3>1, MoveFacts
  <2> HIDE DEF q
  <2>4. conn' = [conn EXCEPT ![c] = y]
    <3> DEFINE f == TookFed(c, n, q)
    <3>1. Becomes(f, c, y)
      BY <1>1, TookFedUpdate
    <3>2. conn' = f
      BY <1>7 DEF TookFed
    <3> HIDE DEF f, y
    <3> QED
      BY <3>1, <3>2 DEF Becomes
  <2>5. Is(y, x.state, ib, x.ob, x.rd, x.wr, x.item, x.ritem + n, want - n, x.item_comm)
    BY <1>2, CountedFacts
  <2> HIDE DEF y, w
  <2>6. /\ y.state = "conn_nread" /\ y.ib.buff = w /\ y.ib.curr = x.ib.curr /\ y.ob = <<>>
        /\ y.wr = FALSE /\ y.item = x.item /\ y.ritem = x.ritem + n /\ y.rlbytes = want - n
        /\ y.item_comm = x.item_comm
    BY <1>1, <1>2, <2>5 DEF Is
  <2>7. y # Closed
    <3>1. y.state # "closed"
      BY <2>6
    <3> QED
      BY <3>1 DEF Closed
  <2>8. y.ritem > y.ib.curr - 2 /\ y.ritem + y.rlbytes = x.ritem + want
    <3>1. x.ritem >= x.ib.curr - 2
      BY <1>2 DEF Begun
    <3> HIDE DEF x
    <3> QED
      BY <1>2, <1>7, <2>1, <2>6, <3>1
  <2>9. Late(y) = TRUE
    <3>1. y.ritem # y.ib.curr - 2
      BY <1>2, <2>1, <2>6, <2>8
    <3> QED
      BY <1>2, <2>6, <2>7, <3>1 DEF Late
  <2>10. w[1] = h[1] /\ w[2] = h[2]
    <3>1. 1 \in 1 .. Len(h) + Len(q) /\ 2 \in 1 .. Len(h) + Len(q)
      BY <1>4, <2>3
    <3> QED
      BY <1>2, <1>4, <2>3, <3>1, ConcatProperties DEF w
  <2>11. Begun(y, d)
    <3>1. /\ x.ib.curr >= 2 /\ h[2] = NL
          /\ h[1].op = x.item_comm /\ h[1].key = x.item[1] /\ h[1].vlen \in Nat
          /\ x.item_comm \in Update /\ Len(d) = h[1].vlen + 1 /\ x.ritem + want = Len(d)
      BY <1>2 DEF Begun
    <3>2. y.ritem >= y.ib.curr - 2 /\ ~ (y.ritem = y.ib.curr - 2)
      BY <1>2, <2>1, <2>6, <2>8
    <3> HIDE DEF d, h
    <3> QED
      BY <2>6, <2>8, <2>10, <3>1, <3>2 DEF Begun
  <2>12. ASSUME w \in Seq(Plain) PROVE Proper(y, s')
    BY <1>1, <2>6, <2>11, <2>12 DEF Proper
  <2>13. y.ib.buff = x.ib.buff \o SubSeq(sock[c], 1, n)
    BY <2>6 DEF w, q
  <2>14. Late(y) = KV!Whole(x.ib.buff)
    BY <1>4, <2>9
  <2>15. Sends' /\ KVStep /\ y.ib.buff \in Seq(Plain)
    BY <1>1, <1>2, <1>7, <2>2, <2>4, <2>6, <2>7, <2>13, <2>14, ReceiveRefines
  <2>16. Proper(y, s')
    BY <2>6, <2>12, <2>15
  <2>17. busy \in {c, Nobody}
    OBVIOUS
  <2> QED
    BY <2>4, <2>15, <2>16, <2>17, ProperStep
<1> QED
  BY <1>5, <1>6, <1>7 DEF ReadRest

LEMMA CopyFromBufferRefines ==
  ASSUME MemcachedInv, StreamInv, NEW c \in Conn, busy = c, CopyFromBuffer(c)
  PROVE  StreamInv' /\ KVStep
<1> DEFINE x == conn[c]
           b == x.ib
           h == b.buff
           it == x.item
           have == buffer_remain_read(b)
           n == IF have > x.rlbytes THEN x.rlbytes ELSE have
           at == x.ritem
           d == s.item[it].data
           d2 == [i \in DOMAIN d |-> IF i \in at + 1..at + n THEN h[b.curr + i - at] ELSE d[i]]
           y == Eaten(Counted(x, n), n)
<1>1. /\ UNCHANGED <<wire, sock, errno>> /\ x.state = "conn_nread"
      /\ s' = [s EXCEPT !.item[it].data = d2]
      /\ conn' = [Took(conn, c, n) EXCEPT ![c].ib.curr = @ + n]
  BY DEF CopyFromBuffer, net
<1>2. Conns /\ Reading(x) /\ x # Closed /\ Proper(x, s) /\ SameStore /\ MemcachedInv'
  BY NowHeld, CopyFromBufferStep DEF MemcachedInv, StreamInv
<1>3. /\ ConnRec(x) /\ b \in [buff : Seq(Unit), curr : Nat] /\ b.curr <= Len(h)
      /\ at \in Nat /\ x.rlbytes \in Nat /\ b.curr \in Nat /\ Len(h) \in Nat
      /\ it # NoItem /\ x.ob = <<>> /\ x.wr = FALSE
  <2>1. Open(x) /\ it # NoItem /\ x.rd
    BY <1>1, <1>2 DEF Reading
  <2>2. /\ ConnRec(x) /\ b \in [buff : Seq(Unit), curr : Nat] /\ b.curr <= Len(b.buff)
        /\ at \in Nat /\ x.rlbytes \in Nat /\ x.ob = <<>> /\ x.wr = FALSE
    BY <2>1 DEF Open
  <2>3. b.curr \in Nat /\ h \in Seq(Unit) /\ Len(b.buff) \in Nat
    BY <2>2
  <2> QED
    BY <2>1, <2>2, <2>3
<1>4. CacheInv(s, {it})
  BY <1>3, NowHeld
<1>5. n \in Nat /\ n <= x.rlbytes
  BY <1>3 DEF buffer_remain_read
<1>6. /\ h \in Seq(Plain) /\ Begun(x, d)
  BY <1>2, <1>3 DEF Proper
<1>7. d \in Seq(Unit) /\ Len(d) \in Nat /\ DOMAIN d = 1 .. Len(d)
  <2>1. it \in LinkedIn(s) \cup {it}
    OBVIOUS
  <2>2. d \in Value
    BY <1>4, <2>1, LiveItem DEF ItemRec
  <2> HIDE DEF d
  <2> QED
    BY <2>2 DEF Value
<1>8. s'.item[it].data = d2
  <2>1. it \in Item /\ s.item \in [Item -> ItemRec \cup {Free}] /\ s.item[it] \in ItemRec /\ Fields(s)
    <3>1. it \in LinkedIn(s) \cup {it}
      OBVIOUS
    <3> QED
      BY <1>4, <3>1, LiveItem DEF CacheInv, Heap
  <2> DEFINE e == s.item[it]
  <2>2. s'.item = [s.item EXCEPT ![it].data = d2]
    <3> HIDE DEF d2
    <3> QED
      BY <1>1, <2>1 DEF Fields
  <2> HIDE DEF d2, d
  <2>3. s'.item[it] = [e EXCEPT !.data = d2]
    BY <2>1, <2>2
  <2>4. e \in ItemRec
    BY <2>1
  <2> HIDE DEF e
  <2> QED
    BY <2>3, <2>4 DEF ItemRec
<1>9. Len(d2) = Len(d) /\ \A i \in 1 .. Len(d) : d2[i] = IF i \in at + 1..at + n THEN h[b.curr + i - at] ELSE d[i]
  <2> DEFINE g(i) == IF i \in at + 1..at + n THEN h[b.curr + i - at] ELSE d[i]
             l == Len(d)
  <2>1. l \in Nat /\ DOMAIN d = 1 .. l
    BY <1>7
  <2>2. d2 = [i \in DOMAIN d |-> g(i)]
    OBVIOUS
  <2> HIDE DEF d2, g, l
  <2>3. d2 = [i \in 1 .. l |-> g(i)]
    BY <2>1, <2>2
  <2>4. Len(d2) = l /\ \A i \in 1 .. l : d2[i] = g(i)
    BY <2>1, <2>3
  <2> QED
    BY <2>4 DEF g, l
<1> HIDE DEF d2, n
<1>10. conn' = [conn EXCEPT ![c] = y]
  BY <1>1, <1>2, ConnUpdates
<1>11. Is(y, x.state, [buff |-> h, curr |-> b.curr + n], x.ob, x.rd, x.wr, it, at + n, x.rlbytes - n,
          x.item_comm)
  BY <1>3, CountedFacts
<1> HIDE DEF y
<1>12. /\ y.state = "conn_nread" /\ y.ib.buff = h /\ y.ib.curr = b.curr + n /\ y.ob = <<>>
       /\ y.wr = FALSE /\ y.item = it /\ y.ritem = at + n /\ y.rlbytes = x.rlbytes - n
       /\ y.item_comm = x.item_comm
  BY <1>1, <1>3, <1>11 DEF Is
<1>13. y # Closed
  <2>1. y.state # "closed"
    BY <1>12
  <2> QED
    BY <2>1 DEF Closed
<1>14. /\ b.curr >= 2 /\ h[2] = NL
       /\ h[1].op = x.item_comm /\ h[1].key = it[1] /\ h[1].vlen \in Nat
       /\ x.item_comm \in Update /\ Len(d) = h[1].vlen + 1 /\ at + x.rlbytes = Len(d)
       /\ at >= b.curr - 2
       /\ at = b.curr - 2 => \A i \in 1 .. at : d[i] = h[i + 2]
  BY <1>6 DEF Begun
<1>15. y.ritem >= y.ib.curr - 2 /\ (y.ritem # y.ib.curr - 2 <=> at # b.curr - 2)
       /\ y.ritem + y.rlbytes = at + x.rlbytes /\ y.ib.curr >= 2
  <2> DEFINE r == b.curr
             rl == x.rlbytes
  <2>1. /\ at \in Nat /\ r \in Nat /\ rl \in Nat /\ n \in Nat /\ n <= rl /\ at >= r - 2 /\ r >= 2
        /\ y.ritem = at + n /\ y.ib.curr = r + n /\ y.rlbytes = rl - n
    BY <1>3, <1>5, <1>12, <1>14
  <2> HIDE DEF at, r, rl
  <2>2. y.ritem >= y.ib.curr - 2 /\ (y.ritem # y.ib.curr - 2 <=> at # r - 2)
        /\ y.ritem + y.rlbytes = at + rl /\ y.ib.curr >= 2
    BY <2>1
  <2> QED
    BY <2>2 DEF r, rl
<1>16. ASSUME y.ritem = y.ib.curr - 2 PROVE \A i \in 1 .. y.ritem : d2[i] = h[i + 2]
  <2>1. at = b.curr - 2
    BY <1>15, <1>16
  <2>2. at + n <= Len(d)
    BY <1>3, <1>5, <1>14
  <2> SUFFICES ASSUME NEW i \in 1 .. at + n PROVE d2[i] = h[i + 2]
    BY <1>12
  <2>3. i \in 1 .. Len(d) /\ i \in Nat
    BY <1>3, <1>5, <1>7, <2>2
  <2>4. CASE i <= at
    <3>1. i \notin at + 1 .. at + n /\ i \in 1 .. at
      BY <1>3, <1>5, <2>3, <2>4
    <3> QED
      BY <1>9, <1>14, <2>1, <2>3, <3>1
  <2>5. CASE ~ (i <= at)
    <3>1. i \in at + 1 .. at + n
      BY <1>3, <1>5, <2>3, <2>5
    <3>2. b.curr + i - at = i + 2
      BY <1>3, <2>1, <2>3
    <3> QED
      BY <1>9, <2>3, <3>1, <3>2
  <2> QED
    BY <2>4, <2>5
<1>17. Begun(y, d2)
  <2> HIDE DEF d, h, at, b, it
  <2> QED
    BY <1>9, <1>12, <1>14, <1>15, <1>16 DEF Begun, x, h, at, b, it
<1>18. Proper(y, s')
  BY <1>6, <1>8, <1>12, <1>17 DEF Proper
<1>19. HeldOf(y) = HeldOf(x) /\ ObOf(y) = ObOf(x)
  BY <1>2, <1>3, <1>12, <1>13 DEF HeldOf, ObOf
<1>20. Late(y) = Late(x)
  BY <1>2, <1>3, <1>12, <1>13, <1>15 DEF Late
<1> QED
  BY <1>1, <1>2, <1>10, <1>18, <1>19, <1>20, PassRefines

\* What the clients' commands may ask for.
Known == {"get", "badline", "hugeline", "version", "stats"} \cup Update

\* The head of what was received is what try_read_command() finds.
LEMMA HeadFacts ==
  ASSUME NEW c \in Conn, NEW h \in Seq(Plain), conn[c].ib.buff = h, conn[c].ib.curr = 0,
         LineEnds(conn[c].ib) # {}
  PROVE  /\ KV!Whole(h)
         /\ \A ops \in SUBSET Known : KV!Asks(h, ops) <=> TheCommand(c).op \in ops
         /\ TheCommand(c).op \in Known =>
              FirstEnd(conn[c].ib) = 2 /\ Len(h) >= 2 /\ h[2] = NL /\ h[1] = TheCommand(c)
<1> DEFINE E == LineEnds(conn[c].ib)
           el == FirstEnd(conn[c].ib)
           line == SubSeq(h, 1, el - 1)
           l == Len(h)
           cmd == tokenize_command(line)
<1>1. l \in Nat /\ DOMAIN h = 1 .. l /\ \A i \in 1 .. l : h[i] \in Plain
  OBVIOUS
<1>2. E = {i \in 1 .. l : h[i] = NL} /\ E # {} /\ E \subseteq Nat
  <2>1. 0 + 1 = 1
    OBVIOUS
  <2> QED
    BY <1>1, <2>1 DEF LineEnds
<1>3. el \in E /\ \A j \in E : el <= j
  <2>1. \E i \in E : \A j \in E : i <= j
    BY <1>2, LeastNatural
  <2>2. el = CHOOSE i \in E : \A j \in E : i <= j
    BY DEF FirstEnd
  <2> HIDE DEF E, el
  <2> QED
    BY <2>1, <2>2
<1> HIDE DEF el, l, E
<1>4. el \in 1 .. l /\ h[el] = NL /\ \A j \in 1 .. l : h[j] = NL => el <= j
  BY <1>2, <1>3
<1>5. KV!Whole(h)
  BY <1>1, <1>4 DEF KV!Whole
<1>6. TheCommand(c) = cmd
  <2>1. 0 + 1 = 1
    OBVIOUS
  <2> QED
    BY <2>1 DEF TheCommand, TheLine, el
<1>7. Len(line) = el - 1 /\ (el = 2 => line[1] = h[1])
  <2>0. el \in Int /\ 1 \in Int /\ el - 1 \in Int /\ 1 <= el /\ el <= l
    BY <1>1, <1>4
  <2>1. \A i \in 1 .. el - 1 : h[i] \in Plain
    BY <1>1, <2>0
  <2>2. /\ Len(line) = (IF 1 <= el - 1 THEN el - 1 - 1 + 1 ELSE 0)
        /\ \A i \in 1 .. el - 1 - 1 + 1 : line[i] = h[1 + i - 1]
    BY <2>0, <2>1, SubSeqProperties
  <2>3. Len(line) = el - 1
    <3> HIDE DEF line
    <3> QED
      BY <2>0, <2>2
  <2>4. ASSUME el = 2 PROVE line[1] = h[1]
    <3>1. 1 \in 1 .. el - 1 - 1 + 1 /\ 1 + 1 - 1 = 1
      BY <2>4
    <3> HIDE DEF line
    <3> QED
      BY <2>2, <3>1
  <2> QED
    BY <2>3, <2>4
<1> HIDE DEF line
<1>8. /\ NL.op = "nl" /\ \A x \in Byte : x.op = "byte"
      /\ {"nl", "byte", "unknown"} \cap Known = {}
  BY DEF NL, Byte, Known, Update
<1>9. CASE el = 2
  <2>1. h[1] \in Plain /\ h[1] # NL /\ l >= 2 /\ h[2] = NL /\ 1 \in 1 .. l
    BY <1>1, <1>4, <1>9
  <2>2. ASSUME h[1] \in Byte PROVE cmd.op = "unknown" /\ h[1].op = "byte"
    <3>1. cmd = [op |-> "unknown"]
      BY <1>7, <1>9, <2>2 DEF tokenize_command
    <3> QED
      BY <1>8, <2>2, <3>1
  <2>3. ASSUME h[1] \notin Byte PROVE cmd = h[1]
    <3>1. h[1] \notin Byte \cup {NL}
      BY <2>1, <2>3
    <3>2. Len(line) = 1 /\ line[1] = h[1]
      BY <1>7, <1>9
    <3> QED
      BY <3>1, <3>2 DEF tokenize_command
  <2> HIDE DEF cmd
  <2>4. ASSUME NEW ops \in SUBSET Known PROVE KV!Asks(h, ops) <=> cmd.op \in ops
    BY <1>8, <2>1, <2>2, <2>3 DEF KV!Asks, l
  <2>5. cmd.op \in Known => h[1] = cmd
    BY <1>8, <2>2, <2>3
  <2> QED
    BY <1>5, <1>6, <1>9, <2>1, <2>4, <2>5 DEF el, l
<1>10. CASE el # 2
  <2>1. Len(line) # 1
    BY <1>4, <1>7, <1>10
  <2>2. cmd = [op |-> "unknown"]
    BY <2>1 DEF tokenize_command
  <2>3. cmd.op = "unknown"
    BY <2>2
  <2> HIDE DEF cmd
  <2>4. ASSUME Len(h) >= 2, h[2] = NL PROVE h[1] = NL
    <3>1. 2 \in 1 .. l
      BY <1>1, <2>4 DEF l
    <3>2. el <= 2
      BY <1>4, <2>4, <3>1
    <3>3. el = 1
      BY <1>4, <1>10, <3>2
    <3> QED
      BY <1>4, <3>3
  <2>5. ASSUME NEW ops \in SUBSET Known PROVE KV!Asks(h, ops) <=> cmd.op \in ops
    <3>1. cmd.op \notin ops
      BY <1>8, <2>3
    <3>2. ~ KV!Asks(h, ops)
      BY <1>8, <2>4 DEF KV!Asks
    <3> QED
      BY <3>1, <3>2
  <2>6. cmd.op \notin Known
    BY <1>8, <2>3
  <2> QED
    BY <1>5, <1>6, <2>5, <2>6
<1> QED
  BY <1>9, <1>10

\* What the handler replies at once is lawful.
LEMMA RepliesLawful ==
  ASSUME NEW m, NEW m2, NEW h, NEW cmd, NEW a, Replies(m, m2, cmd, a), KV!Whole(h),
         \A ops \in SUBSET Known : KV!Asks(h, ops) <=> cmd.op \in ops,
         cmd.op \in Known => h[1] = cmd
  PROVE  KV!Lawful(m, m2, h, FALSE, Wary, a)
<1>1. KV!Update = Update
  BY DEF KV!Update, Update
<1>2. Update \subseteq Known /\ {"get"} \subseteq Known /\ {"badline", "hugeline"} \subseteq Known
      /\ {"version"} \subseteq Known /\ {"stats"} \subseteq Known
      /\ {"get", "badline", "hugeline", "version", "stats"} \cup Update = Known
  BY DEF Known
<1>3. CASE cmd.op = "get" /\ a = KV!Got(m, cmd.key) /\ m2 = m
  <2>1. KV!Asks(h, {"get"}) /\ h[1] = cmd
    BY <1>2, <1>3
  <2>2. a[1] \in {"VALUE", "END"}
    BY <1>3 DEF KV!Got
  <2> QED
    BY <1>3, <2>1, <2>2 DEF KV!Lawful
<1>4. CASE /\ cmd.op \in Update /\ a = <<"SERVER_ERROR">>
           /\ m2 = m \/ (cmd.op = "set" /\ m2 = [m EXCEPT ![cmd.key] = <<>>])
  <2>1. KV!Asks(h, KV!Update) /\ h[1] = cmd
    BY <1>1, <1>2, <1>4
  <2>2. a[1] = "SERVER_ERROR"
    BY <1>4
  <2> QED
    BY <1>4, <2>1, <2>2 DEF KV!Lawful
<1>5. CASE cmd.op \in Update /\ errno = "ERANGE" /\ a = <<"CLIENT_ERROR">> /\ m2 = m
  <2>1. KV!Asks(h, KV!Update) /\ Wary
    BY <1>1, <1>2, <1>5 DEF Wary
  <2>2. a[1] = "CLIENT_ERROR"
    BY <1>5
  <2> QED
    BY <1>5, <2>1, <2>2 DEF KV!Lawful
<1>6. CASE cmd.op \in {"badline", "hugeline"} /\ a = <<"CLIENT_ERROR">> /\ m2 = m
  <2>1. KV!Asks(h, {"badline", "hugeline"})
    BY <1>2, <1>6
  <2>2. a[1] = "CLIENT_ERROR"
    BY <1>6
  <2> QED
    BY <1>6, <2>1, <2>2 DEF KV!Lawful
<1>7. CASE cmd.op = "version" /\ a = <<"VERSION">> /\ m2 = m
  <2>1. KV!Asks(h, {"version"}) /\ a[1] = "VERSION"
    BY <1>2, <1>7
  <2> QED
    BY <1>7, <2>1 DEF KV!Lawful
<1>8. CASE cmd.op = "stats" /\ a = <<"STATS">> /\ m2 = m
  <2>1. KV!Asks(h, {"stats"}) /\ a[1] = "STATS"
    BY <1>2, <1>8
  <2> QED
    BY <1>8, <2>1 DEF KV!Lawful
<1>9. CASE /\ cmd.op \notin {"get", "badline", "hugeline", "version", "stats"} \cup Update
           /\ a = <<"ERROR">> /\ m2 = m
  <2>1. ~ KV!Asks(h, {"get", "badline", "hugeline", "version", "stats"} \cup KV!Update)
    BY <1>1, <1>2, <1>9
  <2>2. a[1] = "ERROR"
    BY <1>9
  <2> QED
    BY <1>9, <2>1, <2>2 DEF KV!Lawful
<1> QED
  BY <1>3, <1>4, <1>5, <1>6, <1>7, <1>8, <1>9 DEF Replies

\* A pass that answers a command.
LEMMA AnswerRefines ==
  ASSUME MemcachedInv, StreamInv, NEW c \in Conn, busy = c, NEW y, conn' = [conn EXCEPT ![c] = y],
         Open(y), y.wr, y.item = NoItem, y.ob # <<>>, y.ib.buff = conn[c].ib.buff,
         UNCHANGED <<wire, sock>>,
         KV!Lawful(StoreOf(s), StoreOf(s'), conn[c].ib.buff, Late(conn[c]), Wary, y.ob),
         Wary' = (Wary \/ KV!Asks(conn[c].ib.buff, {"hugeline"}))
  PROVE  StreamInv' /\ KVStep
<1> DEFINE x == conn[c]
<1>1. Conns /\ Reading(x) /\ x # Closed /\ Proper(x, s) /\ x.ob = <<>> /\ busy \in {c, Nobody}
  BY NowHeld DEF MemcachedInv, StreamInv, Reading, Open
<1>2. y # Closed
  BY OpenNotClosed
<1>3. /\ HeldOf(x) = x.ib.buff /\ HeldOf(y) = x.ib.buff /\ ObOf(x) = <<>> /\ ObOf(y) = y.ob
      /\ Late(y) = FALSE
  BY <1>1, <1>2 DEF HeldOf, ObOf, Late
<1>4. Proper(y, s')
  <2>1. ~ y.rd
    BY DEF Open
  <2> QED
    BY <1>1, <2>1 DEF Proper
<1>5. Sends' /\ SentNow' = SentNow
  BY DEF StreamInv, Sends, SentNow
<1>6. StreamInv'
  BY <1>1, <1>4, <1>5, ProperStep
<1>7. /\ HeldOfAll' = [HeldOfAll EXCEPT ![c] = HeldOf(y)]
      /\ LateNow' = [LateNow EXCEPT ![c] = Late(y)]
      /\ AnswerNow' = [AnswerNow EXCEPT ![c] = ObOf(y)]
  BY <1>1, ConnSeen
<1>8. HeldOfAll[c] = x.ib.buff /\ LateNow[c] = Late(x) /\ AnswerNow[c] = <<>>
  BY <1>3 DEF HeldOfAll, LateNow, AnswerNow
<1>9. HeldOfAll' = HeldOfAll
  <2>1. HeldOfAll = [d \in Conn |-> HeldOfAll[d]]
    BY DEF HeldOfAll
  <2> QED
    BY <1>3, <1>7, <1>8, <2>1
<1>10. AnswerNow'[c] = y.ob /\ \A d \in Conn \ {c} : AnswerNow'[d] = AnswerNow[d]
  <2>1. AnswerNow = [d \in Conn |-> AnswerNow[d]]
    BY DEF AnswerNow
  <2> QED
    BY <1>3, <1>7, <2>1
<1>11. LateNow' = [LateNow EXCEPT ![c] = FALSE]
  BY <1>3, <1>7
<1>12. KVStep
  BY <1>5, <1>8, <1>9, <1>10, <1>11, AnswerSeen
<1> QED
  BY <1>6, <1>12

LEMMA TryReadCommandRefines ==
  ASSUME MemcachedInv, StreamInv, NEW c \in Conn, busy = c, TryReadCommand(c)
  PROVE  StreamInv' /\ KVStep
<1> DEFINE x == conn[c]
           h == x.ib.buff
           cmd == TheCommand(c)
<1>1. /\ x.state = "conn_read" /\ LineEnds(x.ib) # {} /\ UNCHANGED <<wire, sock>>
      /\ errno' = IF cmd.op = "hugeline" THEN "ERANGE" ELSE errno
  BY DEF TryReadCommand, net, TheCommand, TheLine, FirstEnd, strtol_errno
<1>2. Conns /\ Reading(x) /\ x # Closed /\ Proper(x, s)
  BY NowHeld DEF MemcachedInv, StreamInv
<1>3. x.item = NoItem /\ x.ib.curr = 0 /\ h \in Seq(Plain) /\ x.ob = <<>>
  BY <1>1, <1>2 DEF Reading, Open, Proper
<1>4. /\ KV!Whole(h)
      /\ \A ops \in SUBSET Known : KV!Asks(h, ops) <=> cmd.op \in ops
      /\ cmd.op \in Known => FirstEnd(x.ib) = 2 /\ Len(h) >= 2 /\ h[2] = NL /\ h[1] = cmd
  BY <1>1, <1>3, HeadFacts
<1>5. Late(x) = FALSE
  BY <1>3 DEF Late
<1> HIDE DEF cmd
<1>6. CASE Answering(c)
  <2>1. PICK y : /\ conn' = [conn EXCEPT ![c] = y] /\ Open(y) /\ y.wr /\ y.item = NoItem /\ y.ob # <<>>
                 /\ y.ib.buff = conn[c].ib.buff
                 /\ Replies(StoreOf(s), StoreOf(s'), cmd, y.ob)
    BY <1>6 DEF Answering, cmd
  <2>2. KV!Lawful(StoreOf(s), StoreOf(s'), h, Late(x), Wary, y.ob)
    <3> DEFINE m == StoreOf(s)
               m2 == StoreOf(s')
               a == y.ob
    <3>1. Replies(m, m2, cmd, a)
      BY <2>1
    <3>2. cmd.op \in Known => h[1] = cmd
      BY <1>4
    <3> HIDE DEF m, m2, a, h
    <3>3. KV!Lawful(m, m2, h, FALSE, Wary, a)
      BY <1>4, <3>1, <3>2, RepliesLawful
    <3> QED
      BY <1>5, <3>3 DEF m, m2, a, h
  <2>3. Wary' = (Wary \/ KV!Asks(h, {"hugeline"}))
    <3>1. {"hugeline"} \subseteq Known
      BY DEF Known
    <3>2. KV!Asks(h, {"hugeline"}) <=> cmd.op = "hugeline"
      BY <1>4, <3>1
    <3> QED
      BY <1>1, <3>2 DEF Wary
  <2> QED
    BY <1>1, <2>1, <2>2, <2>3, AnswerRefines
<1>7. CASE Beginning(c)
  <2>1. PICK y : /\ conn' = [conn EXCEPT ![c] = y] /\ Open(y) /\ y.state = "conn_nread" /\ y.rd
                 /\ y.item \in Item /\ y.item # NoItem /\ y.item[1] = cmd.key
                 /\ y.item_comm = cmd.op
                 /\ y.ritem = 0 /\ y.rlbytes = cmd.vlen + 1
                 /\ Len(s'.item[y.item].data) = cmd.vlen + 1
                 /\ y.ib = [buff |-> h, curr |-> FirstEnd(x.ib)]
    BY <1>7 DEF Beginning, cmd
  <2>2. cmd.op \in Update /\ cmd.vlen \in Nat /\ SameStore
    BY <1>7 DEF Beginning, cmd
  <2>3. cmd.op \in Known /\ cmd.op # "hugeline"
    BY <2>2 DEF Known, Update
  <2>4. y.ib.buff = h /\ y.ib.curr = 2 /\ h[2] = NL /\ h[1] = cmd
    BY <1>4, <2>1, <2>3
  <2>5. y.ob = <<>> /\ y.wr = FALSE /\ y # Closed
    BY <2>1, OpenNotClosed DEF Open
  <2>6. Late(y) = FALSE
    BY <2>1, <2>4 DEF Late
  <2>7. Begun(y, s'.item[y.item].data)
    <3> DEFINE d == s'.item[y.item].data
               v == cmd.vlen
    <3>0. v \in Nat /\ Len(d) = v + 1 /\ y.rlbytes = v + 1
      BY <2>1, <2>2
    <3> HIDE DEF d, v
    <3>1. /\ y.ritem + y.rlbytes = Len(d) /\ y.ritem >= y.ib.curr - 2
          /\ \A i \in 1 .. y.ritem : d[i] = h[i + 2]
      BY <2>1, <2>4, <3>0
    <3>2. Len(d) = h[1].vlen + 1 /\ h[1].vlen \in Nat /\ y.ib.curr >= 2
      BY <2>4, <3>0 DEF v
    <3>3. Begun(y, d)
      BY <2>1, <2>2, <2>4, <3>1, <3>2 DEF Begun
    <3> QED
      BY <3>3 DEF d
  <2>8. Proper(y, s')
    BY <1>3, <2>1, <2>4, <2>5, <2>7 DEF Proper
  <2>9. HeldOf(y) = HeldOf(x) /\ ObOf(y) = ObOf(x)
    BY <1>2, <1>3, <2>4, <2>5 DEF HeldOf, ObOf
  <2>10. errno' \in {errno, "other"}
    BY <1>1, <2>3
  <2> QED
    BY <1>1, <1>5, <2>1, <2>2, <2>6, <2>8, <2>9, <2>10, PassRefines
<1> QED
  BY <1>6, <1>7, TryReadCommandStep

\* The value that is whole is the one behind the line, if all of it was received
\* with the line.
LEMMA ValueFacts ==
  ASSUME NEW x, NEW d, NEW h, d \in Seq(Unit), h \in Seq(Plain), x.ib.buff = h, Begun(x, d),
         x.rlbytes = 0, x.ritem \in Nat, x.ib.curr \in Nat, x.ib.curr <= Len(h)
  PROVE  /\ Len(d) = h[1].vlen + 1 /\ h[1].vlen \in Nat
         /\ d \in [1 .. h[1].vlen + 1 -> Unit]
         /\ x.ritem = x.ib.curr - 2 =>
              /\ KV!Last(h) <= Len(h) /\ d = SubSeq(h, 3, KV!Last(h))
              /\ d[Len(d)] = h[KV!Last(h)] /\ d[Len(d)] # Junk
<1> DEFINE v == h[1].vlen
           at == x.ritem
           r == x.ib.curr
           z == v + 3
<1>1. /\ r >= 2 /\ v \in Nat /\ Len(d) = v + 1 /\ at + 0 = Len(d) /\ at >= r - 2
      /\ at = r - 2 => \A i \in 1 .. at : d[i] = h[i + 2]
  BY DEF Begun
<1>2. KV!Last(h) = z
  BY DEF KV!Last
<1>3. d \in [1 .. v + 1 -> Unit]
  <2> HIDE DEF v
  <2> QED
    BY <1>1
<1>4. Len(h) \in Nat /\ \A i \in 1 .. Len(h) : h[i] \in Plain
  OBVIOUS
<1>5. ASSUME at = r - 2
      PROVE  z <= Len(h) /\ d = SubSeq(h, 3, z) /\ d[Len(d)] = h[z] /\ d[Len(d)] # Junk
  <2> DEFINE q == SubSeq(h, 3, z)
             l == Len(h)
  <2> HIDE DEF v, at, r
  <2>1. l \in Nat /\ z \in Nat /\ z = r /\ z <= l /\ z >= 3 /\ v + 1 \in Nat /\ at = v + 1
    BY <1>1, <1>4, <1>5 DEF r, at
  <2>2. \A i \in 1 .. v + 1 : d[i] = h[i + 2]
    BY <1>1, <1>5, <2>1 DEF at, r
  <2>3. \A i \in 3 .. z : h[i] \in Plain
    BY <1>4, <2>1
  <2> HIDE DEF z
  <2>4. 3 \in Int /\ z \in Int /\ 3 <= z
    BY <2>1
  <2>5. /\ q \in Seq(Plain) /\ Len(q) = z - 3 + 1
        /\ \A i \in 1 .. z - 3 + 1 : q[i] = h[3 + i - 1]
    <3>1. /\ q \in Seq(Plain) /\ Len(q) = (IF 3 <= z THEN z - 3 + 1 ELSE 0)
          /\ \A i \in 1 .. z - 3 + 1 : q[i] = h[3 + i - 1]
      BY <2>3, <2>4, SubSeqProperties
    <3> HIDE DEF q
    <3> QED
      BY <2>4, <3>1
  <2> HIDE DEF q
  <2>6. z - 3 + 1 = v + 1
    <3>1. v \in Nat
      BY <1>1
    <3> QED
      BY <3>1 DEF z
  <2>7. Len(d) = Len(q)
    BY <1>1, <2>5, <2>6
  <2>8. ASSUME NEW i \in 1 .. v + 1 PROVE d[i] = q[i]
    <3>1. 3 + i - 1 = i + 2
      BY <2>1
    <3> QED
      BY <2>2, <2>5, <2>6, <3>1
  <2>9. d = q
    <3>1. \A i \in 1 .. Len(d) : d[i] = q[i]
      BY <1>1, <2>8 DEF v
    <3> QED
      BY <2>5, <2>7, <3>1, SeqEqual
  <2>10. d[v + 1] = h[z] /\ h[z] \in Plain
    <3>0. v \in Nat
      BY <1>1
    <3>1. v + 1 \in 1 .. v + 1 /\ v + 1 + 2 = z /\ z \in 3 .. z
      BY <3>0 DEF z
    <3> QED
      BY <2>2, <2>3, <3>1
  <2>11. Junk \notin Plain
    BY DEF Junk, Plain, Command, Byte, NL, Update
  <2> QED
    BY <1>1, <2>1, <2>9, <2>10, <2>11 DEF q, l, v
<1> QED
  BY <1>1, <1>2, <1>3, <1>5

\* What the handler answers once the value is there is lawful.
LEMMA FinishesLawful ==
  ASSUME NEW m, NEW m2, NEW h, NEW d, NEW l \in BOOLEAN, NEW sound, NEW a,
         Finishes(m, m2, h[1], d, sound, a), KV!Asks(h, KV!Update),
         d \in [1 .. h[1].vlen + 1 -> Unit],
         ~ l => /\ KV!Last(h) <= Len(h) /\ d = SubSeq(h, 3, KV!Last(h))
                /\ d[Len(d)] = h[KV!Last(h)] /\ d[Len(d)] # Junk
  PROVE  KV!Lawful(m, m2, h, l, Wary, a)
<1>1. ASSUME EndsRight(d, sound) PROVE d \in KV!Given(h, l)
  <2>1. CASE l
    BY <2>1 DEF KV!Given
  <2>2. CASE ~ l
    <3>1. h[KV!Last(h)] = NL
      BY <1>1, <2>2 DEF EndsRight
    <3> QED
      BY <2>2, <3>1 DEF KV!Given
  <2> QED
    BY <2>1, <2>2
<1>2. CASE EndsRight(d, sound) /\ Obeys(m, m2, h[1], d, TRUE) /\ a = <<"STORED">>
  <2>1. KV!Stored(m, m2, h[1], d) /\ a[1] = "STORED" /\ d \in KV!Given(h, l)
    BY <1>1, <1>2 DEF Obeys
  <2> QED
    BY <2>1 DEF KV!Lawful
<1>3. CASE EndsRight(d, sound) /\ Obeys(m, m2, h[1], d, FALSE) /\ a = <<"NOT_STORED">>
  <2>1. KV!NotStored(m, m2, h[1]) /\ a[1] = "NOT_STORED" /\ KV!Given(h, l) # {}
    BY <1>1, <1>3 DEF Obeys
  <2> QED
    BY <2>1 DEF KV!Lawful
<1>4. CASE ~ EndsRight(d, sound) /\ a = <<"CLIENT_ERROR">> /\ m2 = m
  <2>1. ~ l => h[KV!Last(h)] # NL
    BY <1>4 DEF EndsRight
  <2>2. KV!Misfit(h, l) /\ a[1] = "CLIENT_ERROR"
    BY <1>4, <2>1 DEF KV!Misfit
  <2> QED
    BY <1>4, <2>2 DEF KV!Lawful
<1>5. \A b \in BOOLEAN : /\ b = TRUE => (IF b THEN "STORED" ELSE "NOT_STORED") = "STORED"
                         /\ b = FALSE => (IF b THEN "STORED" ELSE "NOT_STORED") = "NOT_STORED"
  OBVIOUS
<1>6. ASSUME NEW b \in BOOLEAN, EndsRight(d, sound), Obeys(m, m2, h[1], d, b),
             a = <<IF b THEN "STORED" ELSE "NOT_STORED">>
      PROVE  KV!Lawful(m, m2, h, l, Wary, a)
  <2>1. CASE b = TRUE
    BY <1>2, <1>6, <2>1
  <2>2. CASE b = FALSE
    BY <1>3, <1>6, <2>2
  <2> QED
    BY <2>1, <2>2
<1> QED
  BY <1>4, <1>6 DEF Finishes

LEMMA CompleteNreadRefines ==
  ASSUME MemcachedInv, StreamInv, NEW c \in Conn, busy = c, CompleteNread(c)
  PROVE  StreamInv' /\ KVStep
<1> DEFINE x == conn[c]
           h == x.ib.buff
           d == s.item[x.item].data
           l == Late(x)
<1>1. x.state = "conn_nread" /\ x.rlbytes = 0 /\ UNCHANGED <<wire, sock, errno>>
  BY DEF CompleteNread, net
<1>2. Reading(x) /\ x # Closed /\ Proper(x, s)
  BY NowHeld DEF StreamInv
<1>3. /\ x.item # NoItem /\ h \in Seq(Plain) /\ Begun(x, d) /\ x.ritem \in Nat /\ x.ib.curr \in Nat
      /\ x.ib.curr <= Len(h)
  BY <1>1, <1>2 DEF Reading, Open, Proper
<1>4. d \in Seq(Unit)
  <2>1. x.item \in LinkedIn(s) \cup {x.item} /\ CacheInv(s, {x.item})
    BY <1>3, NowHeld
  <2>2. d \in Value
    BY <2>1, LiveItem DEF ItemRec
  <2> HIDE DEF d
  <2> QED
    BY <2>2 DEF Value
<1>5. l = (x.ritem # x.ib.curr - 2) /\ l \in BOOLEAN
  BY <1>2, <1>3 DEF Late
<1> HIDE DEF d
<1>6. /\ d \in [1 .. h[1].vlen + 1 -> Unit]
      /\ x.ritem = x.ib.curr - 2 =>
           /\ KV!Last(h) <= Len(h) /\ d = SubSeq(h, 3, KV!Last(h))
           /\ d[Len(d)] = h[KV!Last(h)] /\ d[Len(d)] # Junk
  BY <1>1, <1>3, <1>4, ValueFacts
<1>7. /\ h[1].op = x.item_comm /\ h[1].key = x.item[1] /\ h[1].op \in Update
      /\ h[2] = NL /\ Len(h) >= 2
  <2>1. Len(h) \in Nat /\ x.ib.curr >= 2
    BY <1>3 DEF Begun
  <2> QED
    BY <1>3, <2>1 DEF Begun
<1>8. KV!Asks(h, KV!Update) /\ ~ KV!Asks(h, {"hugeline"})
  <2>1. KV!Update = Update /\ "hugeline" \notin Update
    BY DEF KV!Update, Update
  <2> QED
    BY <1>7, <2>1 DEF KV!Asks
<1>9. Finishing(c, h[1])
  BY <1>7, CompleteNreadStep
<1>10. PICK y, sound :
         /\ conn' = [conn EXCEPT ![c] = y] /\ Open(y) /\ y.wr /\ y.item = NoItem /\ y.ob # <<>>
         /\ y.ib.buff = conn[c].ib.buff
         /\ Finishes(StoreOf(s), StoreOf(s'), h[1], d, sound, y.ob)
  BY <1>9 DEF Finishing, d
<1>11. KV!Lawful(StoreOf(s), StoreOf(s'), h, l, Wary, y.ob)
  <2> DEFINE m == StoreOf(s)
             m2 == StoreOf(s')
             a == y.ob
  <2>1. Finishes(m, m2, h[1], d, sound, a)
    BY <1>10
  <2>2. ~ l => x.ritem = x.ib.curr - 2
    BY <1>5
  <2> HIDE DEF m, m2, a, l
  <2>3. /\ ~ l => /\ KV!Last(h) <= Len(h) /\ d = SubSeq(h, 3, KV!Last(h))
                  /\ d[Len(d)] = h[KV!Last(h)] /\ d[Len(d)] # Junk
    BY <1>6, <2>2
  <2>4. l \in BOOLEAN
    BY <1>5
  <2> HIDE DEF h
  <2>5. KV!Lawful(m, m2, h, l, Wary, a)
    BY <1>6, <1>8, <2>1, <2>3, <2>4, FinishesLawful
  <2> QED
    BY <2>5 DEF m, m2, a
<1>12. Wary' = (Wary \/ KV!Asks(h, {"hugeline"}))
  BY <1>1, <1>8 DEF Wary
<1> QED
  BY <1>1, <1>10, <1>11, <1>12, AnswerRefines

LEMMA NextRefines ==
  ASSUME MemcachedInv, StreamInv, Next
  PROVE  StreamInv' /\ KVStep
<1>1. PICK c \in Conn : mc_accept(c) \/ mc_read(c) \/ ReadLoop(c) \/ mc_write(c) \/ Client(c)
  BY DEF Next
<1>2. CASE ReadLoop(c)
  <2>1. busy = c
    BY <1>2 DEF ReadLoop
  <2>2. CASE Closing(c)
    <3>1. conn_close(c) /\ busy' = Nobody /\ busy \in {c, Nobody} /\ conn[c] # Closed
      BY <2>1, <2>2, NowHeld DEF Closing
    <3> QED
      BY <3>1, CloseRefines
  <2> QED
    BY <1>2, <2>1, <2>2, TryReadCommandRefines, TryReadNetworkRefines, CompleteNreadRefines,
       CopyFromBufferRefines, ReadRestRefines DEF ReadLoop
<1> QED
  BY <1>1, <1>2, AcceptRefines, ReadRefines, WriteRefines, ClientRefines

LEMMA SeenInit == ASSUME Init PROVE KV!Init /\ StreamInv
<1>1. AfterSets(s, Len(Before)) /\ CacheInv(s, {})
  BY FilledCache DEF Init, AfterSets
<1> DEFINE V == Seq(Unit)
<1>2. <<NL>> \in V
  BY UnitFacts
<1>3. ASSUME NEW k \in Key PROVE StoreOf(s)[k] \in V \cup {<<>>}
  <2>1. CASE \E i \in LinkedIn(s) : i[1] = k
    <3>1. PICK i \in LinkedIn(s) : i[1] = k
      BY <2>1
    <3>2. s.item[i].data = <<NL>>
      BY <1>1 DEF AfterSets
    <3>3. StoreOf(s)[k] = <<NL>>
      BY <1>1, <3>1, <3>2, StoreFacts
    <3> HIDE DEF V
    <3> QED
      BY <1>2, <3>3
  <2>2. CASE \A i \in LinkedIn(s) : i[1] # k
    BY <1>1, <2>2, StoreFacts
  <2> QED
    BY <2>1, <2>2
<1>4. StoreOf(s) \in [Key -> V \cup {<<>>}]
  <2>1. StoreOf(s) = [k \in Key |-> StoreOf(s)[k]]
    BY DEF StoreOf
  <2> HIDE DEF V
  <2> QED
    BY <1>3, <2>1
<1>5. conn = [c \in Conn |-> Closed] /\ wire = [c \in Conn |-> <<>>] /\ sock = [c \in Conn |-> <<>>]
      /\ errno = "other"
  BY DEF Init
<1>6. HeldOf(Closed) = <<>> /\ ObOf(Closed) = <<>> /\ Late(Closed) = FALSE /\ Proper(Closed, s)
  BY DEF HeldOf, ObOf, Late, Proper
<1>7. /\ SentNow = [c \in Conn |-> <<>>] /\ HeldOfAll = [c \in Conn |-> <<>>]
      /\ LateNow = [c \in Conn |-> FALSE] /\ AnswerNow = [c \in Conn |-> <<>>] /\ Wary = FALSE
  <2>1. <<>> \o <<>> = <<>>
    OBVIOUS
  <2> QED
    BY <1>5, <1>6, <2>1 DEF SentNow, HeldOfAll, LateNow, AnswerNow, Wary
<1>8. Sends
  <2>1. <<>> \in Seq(Plain)
    OBVIOUS
  <2> QED
    BY <1>5, <2>1 DEF Sends
<1>9. StreamInv
  BY <1>5, <1>6, <1>8 DEF StreamInv
<1>10. KV!Init
  BY <1>4, <1>7 DEF KV!Init, StoreOf, CachedIn, Cached, SentNow, HeldOfAll, LateNow, AnswerNow, Wary,
     HeldOf, ObOf
<1> QED
  BY <1>9, <1>10

LEMMA SeenStutter ==
  ASSUME StreamInv, UNCHANGED vars
  PROVE  StreamInv' /\ KVStep
<1>1. UNCHANGED <<s, conn, wire, sock, errno>>
  BY DEF vars
<1> QED
  BY <1>1, DownRefines

----------------------------------------------------------------------------
(* The theorems.                                                           *)

\* The inductive invariant of the handler: the cache is sound with the one item
\* that mc_read() is filling as the only one held.
THEOREM CacheInvariant == Spec => []MemcachedInv
<1>1. Init => MemcachedInv
  BY InitInv
<1>2. MemcachedInv /\ [Next]_vars => MemcachedInv'
  BY NextStep, StutterInv
<1> QED
  BY <1>1, <1>2, PTL DEF Spec

LEMMA InvRefs == ASSUME MemcachedInv PROVE RefsSound
<1> DEFINE P(i) == {c \in Conn : conn[c] # Closed /\ conn[c].item = i}
<1>1. CacheInv(s, HeldNow) /\ Conns
  BY DEF MemcachedInv
<1>2. \A c \in Conn : c # busy /\ conn[c] # Closed => conn[c].item = NoItem
  BY <1>1 DEF Conns, Idle
<1>3. \A i \in Item : i # NoItem
  BY StoreAssumption
<1>4. ASSUME NEW i \in Live
      PROVE  /\ s.item[i].refcount = Cardinality(P(i))
             /\ s.item[i].refcount > 0 \/ s.item[i].linked
  <2>1. /\ i \in Item /\ i \in LinkedIn(s) \cup HeldNow
        /\ s.item[i].refcount = IF i \in HeldNow THEN 1 ELSE 0
    BY <1>1 DEF Live, CacheInv, Held
  <2>2. CASE i \in HeldNow
    <3>1. busy \in Conn /\ busy # Nobody /\ conn[busy].item = i
      BY <1>1, <2>2 DEF HeldNow, HeldBy, Conns
    <3>2. conn[busy] # Closed
      BY <3>1, NowHeld
    <3>3. P(i) = {busy}
      BY <1>2, <1>3, <2>1, <3>1, <3>2
    <3>4. Cardinality({busy}) = 1
      BY FS_Singleton
    <3>5. s.item[i].refcount = 1
      BY <2>1, <2>2
    <3> HIDE DEF P
    <3>6. Cardinality(P(i)) = 1
      BY <3>3, <3>4
    <3> QED
      BY <3>5, <3>6
  <2>3. CASE i \notin HeldNow
    <3>1. P(i) = {}
      <4> SUFFICES ASSUME NEW c \in Conn, conn[c] # Closed, conn[c].item = i PROVE FALSE
        OBVIOUS
      <4>1. c = busy
        BY <1>2, <1>3, <2>1
      <4>2. c # Nobody
        BY MemcachedAssumption
      <4> QED
        BY <1>3, <2>1, <2>3, <4>1, <4>2 DEF HeldNow, HeldBy
    <3>2. Cardinality({}) = 0
      BY FS_EmptySet
    <3>3. s.item[i].linked
      BY <2>1, <2>3 DEF LinkedIn
    <3> QED
      BY <2>1, <2>3, <3>1, <3>2, <3>3
  <2> QED
    BY <2>2, <2>3
<1>5. ASSUME NEW c \in Conn, conn[c] # Closed, conn[c].item # NoItem
      PROVE  conn[c].item \in Live
  <2>1. busy = c
    BY <1>2, <1>5
  <2>2. CacheInv(s, {conn[c].item})
    BY <1>5, <2>1, NowHeld
  <2>3. conn[c].item \in LinkedIn(s) \cup {conn[c].item}
    OBVIOUS
  <2> QED
    BY <2>2, <2>3, LiveItem DEF Live
<1> QED
  BY <1>4, <1>5 DEF RefsSound

\* Reference counts are exact whatever the commands, the splitting of the input,
\* the failures of malloc() and calloc() and the connections that close while a
\* value is being read: do_item_remove() (items.c) frees an item exactly when the
\* last connection gives it up and it is not in the cache.
THEOREM ReferencesSound == Spec => []RefsSound
<1>1. MemcachedInv => RefsSound
  BY InvRefs
<1> QED
  BY <1>1, CacheInvariant, PTL

LEMMA InvTable == ASSUME MemcachedInv PROVE TableIsMap
<1> DEFINE L == LinkedIn(s)
<1>1. CacheInv(s, HeldNow)
  BY DEF MemcachedInv
<1>2. Linked = L
  BY DEF Linked, Live, LinkedIn
<1>3. /\ Tabled(s) /\ ChainsOf(s, L) /\ Unique(L) /\ Listed(s) /\ L \in SUBSET Item
      /\ \A i \in L : s.item[i].key = i[1]
  BY <1>1, LinkedFinite, LiveItem DEF CacheInv, Chains
<1>4. \A i \in L : assoc_find(s, s.item[i].key) = i
  <2> HIDE DEF L
  <2>1. \A i \in L : assoc_find(s, i[1]) = i
    BY <1>3, FindFacts
  <2> QED
    BY <1>3, <2>1
<1>5. ASSUME NEW q \in Tables PROVE \A j \in DOMAIN q : q[j] \in L
  <2>1. q \in Seq(Item) /\ Members(q) \subseteq L
    <3>1. CASE \E b \in DOMAIN s.primary : q = s.primary[b]
      <4>1. PICK b \in DOMAIN s.primary : q = s.primary[b]
        BY <3>1
      <4>2. s.primary[b] \in Seq(Item)
        BY <1>3 DEF Tabled
      <4>3. Members(s.primary[b]) = OnPrimary(s, L, b)
        BY <1>3 DEF ChainsOf
      <4> QED
        BY <4>1, <4>2, <4>3 DEF OnPrimary
    <3>2. CASE \E b \in DOMAIN s.old : q = s.old[b]
      <4>1. PICK b \in DOMAIN s.old : q = s.old[b]
        BY <3>2
      <4>2. s.old[b] \in Seq(Item)
        <5>1. CASE s.expanding
          BY <1>3, <5>1 DEF Tabled
        <5>2. CASE ~ s.expanding
          <6>1. DOMAIN s.old = {}
            BY <1>3, <5>2 DEF Tabled
          <6> QED
            BY <6>1
        <5> QED
          BY <5>1, <5>2
      <4>3. Members(s.old[b]) = OnOld(s, L, b)
        BY <1>3 DEF ChainsOf
      <4> QED
        BY <4>1, <4>2, <4>3 DEF OnOld
    <3> QED
      BY <3>1, <3>2 DEF Tables
  <2>2. DOMAIN q = 1 .. Len(q)
    BY <2>1
  <2> QED
    BY <2>1, <2>2 DEF Members
<1>6. {s.lru[j] : j \in DOMAIN s.lru} = L
  <2>1. s.lru \in Seq(Item) /\ Members(s.lru) = L
    BY <1>3 DEF Listed
  <2>2. DOMAIN s.lru = 1 .. Len(s.lru)
    BY <2>1
  <2> QED
    BY <2>1, <2>2 DEF Members
<1>7. /\ Len(s.lru) = Cardinality(L)
      /\ s.curr_items = Cardinality(L) /\ s.hash_items = Cardinality(L)
  BY <1>3 DEF Listed
<1> HIDE DEF L
<1> QED
  BY <1>2, <1>4, <1>5, <1>6, <1>7 DEF TableIsMap

\* The hash table of assoc.c is a map at every stage of an expansion, for every
\* hash function and initial size: assoc_find() of a linked item's key is that
\* item, and both tables, the LRU list and the two counters agree.
THEOREM HashTableIsMap == Spec => []TableIsMap
<1>1. MemcachedInv => TableIsMap
  BY InvTable
<1> QED
  BY <1>1, CacheInvariant, PTL


\* The handler implements the key-value store: every pass of mc_read() and every
\* other step is one of KVStore's or changes nothing of what it speaks of.  So no
\* client sees a command done twice or half done, an answer to another command
\* than the one at the head of what it sent, or a value it did not send - unless
\* part of it came in after its line.
THEOREM KVRefinement == Spec => ImplementsKV
<1>1. Init => KV!Init /\ StreamInv
  BY SeenInit
<1>2. MemcachedInv /\ StreamInv /\ [Next]_vars => StreamInv' /\ [KV!Next]_(KV!vars)
  BY NextRefines, SeenStutter DEF KVStep
<1> QED
  BY <1>1, <1>2, CacheInvariant, PTL DEF Spec, ImplementsKV, KV!Spec
=============================================================================
