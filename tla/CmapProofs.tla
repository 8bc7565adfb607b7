------------------------------ MODULE CmapProofs ------------------------------
(***************************************************************************)
(* The cuckoo hash map, proved for any nodes, hashes and hash functions    *)
(* and any size of a bucket: the nodes with a hash are on one chain, where *)
(* a lookup finds them, and the table implements a map from hashes to sets *)
(* of nodes, whatever is moved, removed and rehashed.                      *)
(*                                                                         *)
(* OneChainPerHash is not inductive.  An insertion takes a slot that has   *)
(* its hash for the place of its chain, and slots keep the hashes of       *)
(* chains that were removed or never there.  IInv says where such a slot   *)
(* may be when there is a chain: after the chain in its bucket, or in the  *)
(* second bucket when the chain is in the first one (Settled).  A shortest *)
(* path to a free slot keeps this because all buckets before the last one  *)
(* are full, so that no hash is left behind in them.                       *)
(***************************************************************************)
EXTENDS Cmap, SequenceTheorems, NaturalsInduction, WellFoundedInduction, TLAPS

\* The slots, as pairs of a bucket and a position in it, and what they hold.
Place(t) == Buckets(t) \X Slot
HashAt(t, p) == t.buckets[p[1]][p[2]].hash
ChainAt(t, p) == t.buckets[p[1]][p[2]].chain

\* The buckets of a hash.
Both(t, hash) == {Bucket1(t, hash), Bucket2(t, hash)}

Table(mask) == [n : Int, mask : {mask}, basis : Basis, buckets : [0 .. mask -> [Slot -> cmap_slot]]]

\* A chain of nodes with a hash, each once.
IsChain(chain, hash) ==
    /\ chain \in Seq(Node)
    /\ \A k \in DOMAIN chain : HashOf[chain[k]] = hash
    /\ \A k, l \in DOMAIN chain : chain[k] = chain[l] => k = l

\* The chain at p is where it belongs, and no other slot could be taken for its place.
Settled(t, p) ==
    /\ p[1] \in Both(t, HashAt(t, p))
    /\ IsChain(ChainAt(t, p), HashAt(t, p))
    /\ \A q \in Place(t) :
         q # p /\ q[1] \in Both(t, HashAt(t, p)) /\ HashAt(t, q) = HashAt(t, p)
         => /\ ChainAt(t, q) = <<>>
            /\ IF q[1] = p[1] THEN p[2] < q[2] ELSE p[1] = Bucket1(t, HashAt(t, p))

Sound(t) ==
    /\ t.mask \in Nat /\ t \in Table(t.mask)
    /\ \A p \in Place(t) : ChainAt(t, p) # <<>> => Settled(t, p)

\* The inductive invariant.
IInv ==
    /\ Sound(impl)
    /\ pc \in {"ready", "insert", "rehash"}
    /\ pc = "ready" => arg = NoNode
    /\ pc = "insert" => arg # NoNode
    /\ arg # NoNode => arg \in Node \ NodesOf(impl)
    /\ pc = "rehash" => target \in Nat

------------------------------------------------------------------------------
(* Numbers and sequences                                                   *)

\* Every non-empty set of naturals has a least element, which First chooses.
LEMMA FirstIs ==
  ASSUME NEW T \in SUBSET Nat, T # {}
  PROVE  /\ First(T) \in T /\ \A j \in T : First(T) <= j
         /\ \A i \in T : (\A j \in T : i <= j) => First(T) = i
<1>1. IsWellFoundedOn(OpToRel(<, Nat), Nat)
  BY NatLessThanWellFounded
<1>2. PICK i \in T : \A j \in T : ~ (<<j, i>> \in OpToRel(<, Nat))
  BY <1>1, WFMin
<1>3. \A j \in T : i <= j
  <2>1. \A j \in T : ~(j < i)
    BY <1>2 DEF OpToRel
  <2>2. \A j \in T : j \in Nat
    OBVIOUS
  <2> QED BY <2>1, <2>2
<1>4. First(T) \in T /\ \A j \in T : First(T) <= j
  BY <1>3 DEF First
<1>5. ASSUME NEW k \in T, \A j \in T : k <= j
      PROVE  First(T) = k
  <2>1. First(T) \in Nat /\ k \in Nat /\ First(T) <= k /\ k <= First(T)
    BY <1>4, <1>5
  <2> QED BY <2>1
<1> QED BY <1>4, <1>5

\* What holds of 0 and is passed on from k - 1 to k holds up to n.
LEMMA UpTo ==
  ASSUME NEW n \in Nat, NEW T, 0 \in T, \A k \in 1 .. n : k - 1 \in T => k \in T
  PROVE  0 .. n \subseteq T
<1> DEFINE bad == {k \in 0 .. n : k \notin T}
<1>1. SUFFICES ASSUME bad # {} PROVE FALSE
  OBVIOUS
<1>2. bad \in SUBSET Nat
  OBVIOUS
<1>3. First(bad) \in bad /\ \A j \in bad : First(bad) <= j
  <2> HIDE DEF bad
  <2> QED BY <1>1, <1>2, FirstIs
<1> DEFINE k == First(bad)
<1> HIDE DEF k
<1>4. k \in 0 .. n /\ k \notin T /\ \A j \in 0 .. n : j \notin T => k <= j
  BY <1>3 DEF k
<1>5. k # 0 /\ k - 1 \in 0 .. n /\ k \in 1 .. n
  BY <1>4
<1> QED BY <1>4, <1>5

\* g[k] is the result of applying F[1] .. F[k] to f0.
Iterates(g, n, X, f0, F) ==
    g \in [0 .. n -> X] /\ g[0] = f0 /\ \A i \in 1 .. n : g[i] = F[i][g[i - 1]]

\* Whatever functions are applied n times, the results form a function.
LEMMA Iterated ==
  ASSUME NEW n \in Nat, NEW X, NEW f0 \in X, NEW F \in [1 .. n -> [X -> X]]
  PROVE  \E g : Iterates(g, n, X, f0, F)
<1> DEFINE T == {k \in 0 .. n : \E g \in [0 .. k -> X] : g[0] = f0 /\ \A i \in 1 .. k : g[i] = F[i][g[i - 1]]}
<1>1. 0 \in T
  <2> DEFINE g == [i \in 0 .. 0 |-> f0]
  <2>1. g \in [0 .. 0 -> X] /\ g[0] = f0 /\ \A i \in 1 .. 0 : FALSE
    OBVIOUS
  <2> HIDE DEF g
  <2>2. 0 \in 0 .. n
    OBVIOUS
  <2> QED BY <2>1, <2>2
<1>2. ASSUME NEW k \in 1 .. n, k - 1 \in T
      PROVE  k \in T
  <2>1. k - 1 \in Nat /\ k \in Nat /\ k \in 0 .. n /\ k - 1 \in 0 .. k - 1 /\ 0 \in 0 .. k - 1 /\ k # 0
    OBVIOUS
  <2>2. PICK g \in [0 .. k - 1 -> X] : g[0] = f0 /\ \A i \in 1 .. k - 1 : g[i] = F[i][g[i - 1]]
    BY <1>2
  <2> DEFINE h == [i \in 0 .. k |-> IF i = k THEN F[k][g[k - 1]] ELSE g[i]]
  <2>3. (\A i \in 0 .. k - 1 : h[i] = g[i]) /\ h[k] = F[k][g[k - 1]]
    BY <2>1
  <2>4. h \in [0 .. k -> X]
    <3>1. \A i \in 0 .. k : i # k => i \in 0 .. k - 1
      BY <2>1
    <3>2. F[k][g[k - 1]] \in X
      BY <2>1, <2>2
    <3> QED BY <2>1, <2>2, <3>1, <3>2
  <2> HIDE DEF h
  <2>5. ASSUME NEW i \in 1 .. k
        PROVE  h[i] = F[i][h[i - 1]]
    <3>1. i - 1 \in 0 .. k - 1
      BY <2>1
    <3>2. CASE i = k
      BY <2>3, <3>1, <3>2
    <3>3. CASE i # k
      <4>1. i \in 1 .. k - 1 /\ i \in 0 .. k - 1
        BY <2>1, <3>3
      <4> QED BY <2>2, <2>3, <3>1, <4>1
    <3> QED BY <3>2, <3>3
  <2> QED BY <2>1, <2>2, <2>3, <2>4, <2>5
<1>3. 0 .. n \subseteq T
  <2> HIDE DEF T
  <2> QED BY <1>1, <1>2, UpTo
<1>4. n \in T
  BY <1>3
<1> QED BY <1>4 DEF Iterates

\* Two chains with a hash and no node in common make one.
LEMMA ChainsJoin ==
  ASSUME NEW hash, NEW c, NEW d, IsChain(c, hash), IsChain(d, hash), ToSet(c) \cap ToSet(d) = {}
  PROVE  /\ IsChain(c \o d, hash)
         /\ ToSet(c \o d) = ToSet(c) \cup ToSet(d)
         /\ c # <<>> => c \o d # <<>>
<1> DEFINE e == c \o d
<1>1. c \in Seq(Node) /\ d \in Seq(Node) /\ Len(c) \in Nat /\ Len(d) \in Nat
  BY DEF IsChain
<1>2. e \in Seq(Node) /\ Len(e) = Len(c) + Len(d)
  BY <1>1
<1>3. /\ \A k \in 1 .. Len(c) : e[k] = c[k] /\ k \in 1 .. Len(e)
      /\ \A k \in 1 .. Len(d) : e[Len(c) + k] = d[k] /\ Len(c) + k \in 1 .. Len(e)
  BY <1>1
<1>4. \A k \in 1 .. Len(e) : k \in 1 .. Len(c) \/ (k - Len(c) \in 1 .. Len(d) /\ k = Len(c) + (k - Len(c)))
  BY <1>1, <1>2
<1>5. DOMAIN c = 1 .. Len(c) /\ DOMAIN d = 1 .. Len(d) /\ DOMAIN e = 1 .. Len(e)
  BY <1>1, <1>2
<1>8. c # <<>> => e # <<>>
  BY <1>1, <1>2
<1> HIDE DEF e
<1>6. ToSet(e) = ToSet(c) \cup ToSet(d)
  <2>1. ASSUME NEW k \in DOMAIN e PROVE e[k] \in ToSet(c) \cup ToSet(d)
    <3>1. CASE k \in 1 .. Len(c)
      BY <1>3, <1>5, <3>1 DEF ToSet
    <3>2. CASE k - Len(c) \in 1 .. Len(d) /\ k = Len(c) + (k - Len(c))
      <4>1. PICK l \in 1 .. Len(d) : k = Len(c) + l
        BY <3>2
      <4> QED BY <1>3, <1>5, <4>1 DEF ToSet
    <3> QED BY <1>4, <1>5, <3>1, <3>2
  <2>2. \A k \in DOMAIN c : c[k] \in ToSet(e)
    BY <1>3, <1>5 DEF ToSet
  <2>3. \A k \in DOMAIN d : d[k] \in ToSet(e)
    BY <1>3, <1>5 DEF ToSet
  <2> QED BY <2>1, <2>2, <2>3 DEF ToSet
<1>7. IsChain(e, hash)
  <2>1. ASSUME NEW k \in DOMAIN e PROVE HashOf[e[k]] = hash
    <3>1. e[k] \in ToSet(c) \cup ToSet(d)
      BY <1>6 DEF ToSet
    <3> QED BY <3>1 DEF ToSet, IsChain
  <2>2. ASSUME NEW k \in DOMAIN e, NEW l \in DOMAIN e, e[k] = e[l] PROVE k = l
    <3>1. \A i \in 1 .. Len(c), j \in 1 .. Len(d) : c[i] # d[j]
      BY <1>5 DEF ToSet
    <3>2. CASE k \in 1 .. Len(c)
      <4>1. l \in 1 .. Len(c)
        <5> SUFFICES ASSUME l \notin 1 .. Len(c) PROVE FALSE
          OBVIOUS
        <5>1. PICK j \in 1 .. Len(d) : l = Len(c) + j
          BY <1>4, <1>5
        <5> QED BY <5>1, <1>3, <3>1, <3>2, <2>2
      <4> QED BY <4>1, <3>2, <2>2, <1>3, <1>5 DEF IsChain
    <3>3. CASE k \notin 1 .. Len(c)
      <4>1. PICK i \in 1 .. Len(d) : k = Len(c) + i
        BY <1>4, <1>5, <3>3
      <4>2. l \notin 1 .. Len(c)
        BY <4>1, <1>3, <3>1, <2>2
      <4>3. PICK j \in 1 .. Len(d) : l = Len(c) + j
        BY <1>4, <1>5, <4>2
      <4>4. d[i] = d[j]
        BY <4>1, <4>3, <1>3, <2>2
      <4> QED BY <4>1, <4>3, <4>4, <1>5 DEF IsChain
    <3> QED BY <3>2, <3>3
  <2> QED BY <2>1, <2>2, <1>2 DEF IsChain, e
<1> QED BY <1>6, <1>7, <1>8 DEF e

\* A chain without one of its nodes.
LEMMA ChainWithout ==
  ASSUME NEW hash, NEW c, IsChain(c, hash), NEW l \in DOMAIN c
  PROVE  /\ IsChain(RemoveAt(c, l), hash)
         /\ ToSet(RemoveAt(c, l)) = ToSet(c) \ {c[l]}
<1> DEFINE d == RemoveAt(c, l)
           at(k) == IF k < l THEN k ELSE k + 1
<1>1. c \in Seq(Node) /\ Len(c) \in Nat /\ DOMAIN c = 1 .. Len(c) /\ l \in 1 .. Len(c)
  BY DEF IsChain
<1>2. d \in Seq(Node) /\ Len(d) = Len(c) - 1 /\ \A k \in 1 .. Len(d) : d[k] = c[at(k)]
  <2> DEFINE a == SubSeq(c, 1, l - 1)
             b == SubSeq(c, l + 1, Len(c))
  <2>1. a \in Seq(Node) /\ Len(a) = l - 1 /\ \A k \in 1 .. l - 1 : a[k] = c[k]
    BY <1>1
  <2>2. b \in Seq(Node) /\ Len(b) = Len(c) - l /\ \A k \in 1 .. Len(c) - l : b[k] = c[l + k]
    BY <1>1
  <2>3. d = a \o b
    BY DEF RemoveAt
  <2> HIDE DEF a, b, d
  <2>4. d \in Seq(Node) /\ Len(d) = Len(c) - 1
    <3>1. d \in Seq(Node) /\ Len(d) = Len(a) + Len(b)
      <4>1. a \in Seq(Node) /\ b \in Seq(Node)
        BY <2>1, <2>2
      <4> QED BY ONLY <4>1, <2>3
    <3> QED BY <3>1, <2>1, <2>2, <1>1
  <2>5. \A k \in 1 .. Len(d) : d[k] = IF k <= Len(a) THEN a[k] ELSE b[k - Len(a)]
    BY <2>1, <2>2, <2>3
  <2>6. ASSUME NEW k \in 1 .. Len(d) PROVE d[k] = c[at(k)]
    <3>1. CASE k < l
      BY <3>1, <2>1, <2>5, <1>1
    <3>2. CASE ~(k < l)
      <4>1. k - Len(a) \in 1 .. Len(c) - l /\ l + (k - Len(a)) = k + 1 /\ ~(k <= Len(a))
        BY <3>2, <2>1, <2>4, <1>1
      <4>2. d[k] = b[k - Len(a)]
        BY <4>1, <2>5
      <4>3. b[k - Len(a)] = c[l + (k - Len(a))]
        BY <4>1, <2>2
      <4> QED BY <4>1, <4>2, <4>3, <3>2
    <3> QED BY <3>1, <3>2
  <2> QED BY <2>4, <2>6
<1>3. DOMAIN d = 1 .. Len(d)
  BY <1>2
<1> HIDE DEF d
<1>4. \A k \in 1 .. Len(d) : at(k) \in 1 .. Len(c) /\ at(k) # l
  BY <1>1, <1>2
<1>5. \A k \in 1 .. Len(c) : k # l => \E j \in 1 .. Len(d) : k = at(j)
  <2> TAKE k \in 1 .. Len(c)
  <2> HAVE k # l
  <2>1. CASE k < l
    BY <2>1, <1>1, <1>2
  <2>2. CASE k > l
    <3>1. k - 1 \in 1 .. Len(d) /\ k = at(k - 1)
      BY <2>2, <1>1, <1>2
    <3> QED BY <3>1
  <2> QED BY <2>1, <2>2, <1>1
<1>6. \A k, j \in 1 .. Len(d) : at(k) = at(j) => k = j
  BY <1>1, <1>2
<1> HIDE DEF at
<1>7. IsChain(d, hash)
  BY <1>1, <1>2, <1>3, <1>4, <1>6 DEF IsChain
<1>8. ToSet(d) = ToSet(c) \ {c[l]}
  <2>1. \A k \in DOMAIN d : d[k] \in ToSet(c) \ {c[l]}
    BY <1>1, <1>2, <1>3, <1>4 DEF ToSet, IsChain
  <2>2. ASSUME NEW k \in DOMAIN c, c[k] # c[l] PROVE c[k] \in ToSet(d)
    <3>1. PICK j \in 1 .. Len(d) : k = at(j)
      BY <1>1, <1>5, <2>2
    <3> QED BY <3>1, <1>2, <1>3 DEF ToSet
  <2> QED BY <2>1, <2>2 DEF ToSet
<1> QED BY <1>7, <1>8 DEF d
------------------------------------------------------------------------------
(* Tables and lookups                                                      *)

\* What a table holds at its places, and where a hash belongs.
LEMMA TableFacts ==
  ASSUME NEW t, t.mask \in Nat, t \in Table(t.mask)
  PROVE  /\ \A p \in Place(t) : /\ p[1] \in Buckets(t) /\ p[2] \in Slot /\ p[2] \in Nat /\ p = <<p[1], p[2]>>
                                /\ t.buckets[p[1]][p[2]] = [hash |-> HashAt(t, p), chain |-> ChainAt(t, p)]
                                /\ HashAt(t, p) \in Hash /\ ChainAt(t, p) \in Seq(Node)
         /\ \A b \in Buckets(t), i \in Slot : <<b, i>> \in Place(t)
         /\ \A h \in Hash : Both(t, h) \subseteq Buckets(t)
<1>1. ASSUME NEW p \in Place(t)
      PROVE  /\ p[1] \in Buckets(t) /\ p[2] \in Slot /\ p = <<p[1], p[2]>>
             /\ t.buckets[p[1]][p[2]] \in cmap_slot
  BY <1>1 DEF Place, Buckets, Table
<1>2. ASSUME NEW p \in Place(t)
      PROVE  /\ t.buckets[p[1]][p[2]] = [hash |-> HashAt(t, p), chain |-> ChainAt(t, p)]
             /\ HashAt(t, p) \in Hash /\ ChainAt(t, p) \in Seq(Node)
  BY <1>1 DEF cmap_slot, HashAt, ChainAt
<1>3. ASSUME NEW h \in Hash
      PROVE  Both(t, h) \subseteq Buckets(t)
  <2>1. t.basis \in Basis /\ Rehashed[t.basis][h] \in Nat \X Nat
    BY CmapAssumption DEF Table
  <2>2. \A a \in Nat : a % (t.mask + 1) \in 0 .. t.mask
    OBVIOUS
  <2>3. Rehashed[t.basis][h][1] \in Nat /\ Rehashed[t.basis][h][2] \in Nat
    BY <2>1
  <2> QED BY <2>2, <2>3 DEF Both, Bucket1, Bucket2, Buckets
<1>4. \A b \in Buckets(t), i \in Slot : <<b, i>> \in Place(t)
  BY DEF Place
<1>5. \A i \in Slot : i \in Nat
  BY CmapAssumption DEF Slot
<1> QED BY <1>1, <1>2, <1>3, <1>4, <1>5

\* The places of a bucket that hold a hash, and those that are free.
LEMMA BucketFacts ==
  ASSUME NEW t, t.mask \in Nat, t \in Table(t.mask), NEW b \in Buckets(t)
  PROVE  /\ \A h, i : i \in WithHash(t, b, h) <=> i \in Slot /\ HashAt(t, <<b, i>>) = h
         /\ \A i : i \in EmptySlots(t, b) <=> i \in Slot /\ ChainAt(t, <<b, i>>) = <<>>
         /\ \A h : WithHash(t, b, h) \in SUBSET Nat
         /\ EmptySlots(t, b) \in SUBSET Nat
BY CmapAssumption DEF WithHash, EmptySlots, HashAt, ChainAt, Slot

\* The nodes of a table.
LEMMA NodesAt ==
  ASSUME NEW t, NEW n
  PROVE  n \in NodesOf(t) <=> \E p \in Place(t) : n \in ToSet(ChainAt(t, p))
<1>1. n \in NodesOf(t) <=> \E b \in Buckets(t), i \in Slot : n \in ToSet(t.buckets[b][i].chain)
  BY DEF NodesOf
<1>2. \A b \in Buckets(t), i \in Slot : <<b, i>> \in Place(t) /\ ChainAt(t, <<b, i>>) = t.buckets[b][i].chain
  BY DEF Place, ChainAt
<1>3. \A p \in Place(t) : p[1] \in Buckets(t) /\ p[2] \in Slot /\ ChainAt(t, p) = t.buckets[p[1]][p[2]].chain
  BY DEF Place, ChainAt
<1> QED BY <1>1, <1>2, <1>3

\* A chain with no nodes is empty.
LEMMA EmptyChain ==
  ASSUME NEW c \in Seq(Node)
  PROVE  c = <<>> <=> ToSet(c) = {}
<1>1. Len(c) \in Nat /\ DOMAIN c = 1 .. Len(c)
  OBVIOUS
<1>2. CASE c = <<>>
  BY <1>2 DEF ToSet
<1>3. CASE c # <<>>
  <2>1. 1 \in DOMAIN c
    BY <1>1, <1>3
  <2> QED BY <2>1, <1>3 DEF ToSet
<1> QED BY <1>2, <1>3

\* No two slots hold chains of one hash.
LEMMA OneLive ==
  ASSUME NEW t, Sound(t), NEW p \in Place(t), NEW q \in Place(t),
         ChainAt(t, p) # <<>>, ChainAt(t, q) # <<>>, HashAt(t, p) = HashAt(t, q)
  PROVE  p = q
BY DEF Sound, Settled

\* The nodes with a hash are those of the chain with this hash.
LEMMA NodesWithHash ==
  ASSUME NEW t, Sound(t), NEW p \in Place(t), ChainAt(t, p) # <<>>
  PROVE  ToSet(ChainAt(t, p)) = {n \in NodesOf(t) : HashOf[n] = HashAt(t, p)}
<1>1. ASSUME NEW q \in Place(t), NEW n \in ToSet(ChainAt(t, q))
      PROVE  ChainAt(t, q) # <<>> /\ HashOf[n] = HashAt(t, q)
  <2>1. ChainAt(t, q) \in Seq(Node)
    BY TableFacts DEF Sound
  <2>2. ChainAt(t, q) # <<>>
    BY <1>1, <2>1, EmptyChain
  <2>3. IsChain(ChainAt(t, q), HashAt(t, q))
    BY <2>2 DEF Sound, Settled
  <2> QED BY <2>2, <2>3, <1>1 DEF IsChain, ToSet
<1>2. ASSUME NEW n \in ToSet(ChainAt(t, p))
      PROVE  n \in NodesOf(t) /\ HashOf[n] = HashAt(t, p)
  BY <1>1, <1>2, NodesAt
<1>3. ASSUME NEW n \in NodesOf(t), HashOf[n] = HashAt(t, p)
      PROVE  n \in ToSet(ChainAt(t, p))
  <2>1. PICK q \in Place(t) : n \in ToSet(ChainAt(t, q))
    BY NodesAt
  <2>2. ChainAt(t, q) # <<>> /\ HashAt(t, q) = HashAt(t, p)
    BY <1>1, <1>3, <2>1
  <2>3. q = p
    BY <2>2, OneLive
  <2> QED BY <2>1, <2>3
<1> QED BY <1>2, <1>3

\* A lookup in a bucket returns what is in one of the slots with the hash, the first.
LEMMA BucketLookup ==
  ASSUME NEW t, Sound(t), NEW h \in Hash, NEW b \in Both(t, h)
  PROVE  LET c == cmap_find_in_bucket(t, b, h) IN
         /\ \/ c = <<>> /\ WithHash(t, b, h) = {}
            \/ \E p \in Place(t) : p[1] = b /\ HashAt(t, p) = h /\ c = ChainAt(t, p)
         /\ \A p \in Place(t) : p[1] = b /\ HashAt(t, p) = h /\ ChainAt(t, p) # <<>> => c = ChainAt(t, p)
<1> DEFINE c == cmap_find_in_bucket(t, b, h)
           slots == WithHash(t, b, h)
<1>1. b \in Buckets(t) /\ t.mask \in Nat /\ t \in Table(t.mask)
  BY TableFacts DEF Sound
<1>2. slots \in SUBSET Nat /\ \A i : i \in slots <=> i \in Slot /\ HashAt(t, <<b, i>>) = h
  BY <1>1, BucketFacts
<1>3. c = IF slots = {} THEN <<>> ELSE ChainAt(t, <<b, First(slots)>>)
  BY DEF cmap_find_in_bucket, ChainAt
<1> HIDE DEF c, slots
<1>4. CASE slots = {}
  <2>1. ASSUME NEW p \in Place(t), p[1] = b, HashAt(t, p) = h PROVE FALSE
    <3>1. p[2] \in Slot /\ p = <<b, p[2]>>
      BY <1>1, <2>1, TableFacts
    <3> QED BY <3>1, <2>1, <1>2, <1>4
  <2> QED BY <2>1, <1>3, <1>4 DEF c, slots
<1>5. CASE slots # {}
  <2>1. First(slots) \in slots
    BY <1>2, <1>5, FirstIs
  <2> DEFINE q == <<b, First(slots)>>
  <2>2. q \in Place(t) /\ q[1] = b /\ HashAt(t, q) = h /\ c = ChainAt(t, q) /\ q[2] = First(slots)
    BY <1>1, <1>2, <1>3, <1>5, <2>1, TableFacts
  <2> HIDE DEF q
  <2>3. ASSUME NEW p \in Place(t), p[1] = b, HashAt(t, p) = h, ChainAt(t, p) # <<>>
        PROVE  p = q
    <3>1. p[2] \in slots /\ p = <<p[1], p[2]>> /\ q = <<q[1], q[2]>>
      BY <1>1, <1>2, <2>2, <2>3, TableFacts
    <3>2. First(slots) <= p[2] /\ p[2] \in Nat /\ First(slots) \in Nat
      BY <3>1, <2>1, <1>2, FirstIs, <1>5
    <3>3. Settled(t, p)
      BY <2>3 DEF Sound
    <3>4. q # p => p[2] < q[2]
      BY <3>3, <2>2, <2>3 DEF Settled
    <3> QED BY <3>2, <3>4, <2>2
  <2> QED BY <2>2, <2>3 DEF c
<1> QED BY <1>4, <1>5

\* A lookup finds the nodes with a hash, all of them and no other.
LEMMA FindIsExact ==
  ASSUME NEW t, Sound(t), NEW h \in Hash
  PROVE  ToSet(cmap_find(t, h)) = {n \in NodesOf(t) : HashOf[n] = h}
<1> DEFINE b1 == Bucket1(t, h)
           b2 == Bucket2(t, h)
           c1 == cmap_find_in_bucket(t, b1, h)
           c2 == cmap_find_in_bucket(t, b2, h)
<1>1. cmap_find(t, h) = IF c1 # <<>> THEN c1 ELSE c2
  BY DEF cmap_find
<1>2. b1 \in Both(t, h) /\ b2 \in Both(t, h) /\ Both(t, h) = {b1, b2} /\ Both(t, h) \subseteq Buckets(t)
  BY TableFacts DEF Both, Sound
<1>3. /\ \/ c1 = <<>> /\ WithHash(t, b1, h) = {}
         \/ \E p \in Place(t) : p[1] = b1 /\ HashAt(t, p) = h /\ c1 = ChainAt(t, p)
      /\ \A p \in Place(t) : p[1] = b1 /\ HashAt(t, p) = h /\ ChainAt(t, p) # <<>> => c1 = ChainAt(t, p)
  BY <1>2, BucketLookup
<1>4. /\ \/ c2 = <<>> /\ WithHash(t, b2, h) = {}
         \/ \E p \in Place(t) : p[1] = b2 /\ HashAt(t, p) = h /\ c2 = ChainAt(t, p)
      /\ \A p \in Place(t) : p[1] = b2 /\ HashAt(t, p) = h /\ ChainAt(t, p) # <<>> => c2 = ChainAt(t, p)
  BY <1>2, BucketLookup
<1> HIDE DEF c1, c2
<1>5. CASE \E p \in Place(t) : HashAt(t, p) = h /\ ChainAt(t, p) # <<>>
  <2>1. PICK p \in Place(t) : HashAt(t, p) = h /\ ChainAt(t, p) # <<>>
    BY <1>5
  <2>2. Settled(t, p)
    BY <2>1 DEF Sound
  <2>3. p[1] \in {b1, b2}
    BY <1>2, <2>1, <2>2 DEF Settled
  <2>4. p[1] # b1 => c1 = <<>>
    <3> SUFFICES ASSUME p[1] # b1 PROVE \A q \in Place(t) : q[1] = b1 => HashAt(t, q) # h
      BY <1>3
    <3> QED BY <2>1, <2>2, <1>2 DEF Settled
  <2>5. cmap_find(t, h) = ChainAt(t, p)
    BY <1>1, <1>3, <1>4, <2>1, <2>3, <2>4
  <2> QED BY <2>1, <2>5, NodesWithHash
<1>6. CASE \A p \in Place(t) : HashAt(t, p) = h => ChainAt(t, p) = <<>>
  <2>1. cmap_find(t, h) = <<>>
    BY <1>1, <1>3, <1>4, <1>6
  <2>2. ASSUME NEW n \in NodesOf(t), HashOf[n] = h PROVE FALSE
    <3>1. PICK p \in Place(t) : n \in ToSet(ChainAt(t, p))
      BY NodesAt
    <3>2. ChainAt(t, p) # <<>>
      BY <3>1 DEF ToSet
    <3>3. HashAt(t, p) = h
      BY <3>1, <3>2, <2>2, NodesWithHash
    <3> QED BY <3>2, <3>3, <1>6
  <2>3. ToSet(<<>>) = {}
    BY DEF ToSet
  <2> QED BY <2>1, <2>2, <2>3
<1> QED BY <1>5, <1>6
------------------------------------------------------------------------------
(* Insertion of a chain                                                    *)

\* What an insertion of a chain must have done to a table.
Inserted(t, t2, chain) ==
    /\ Sound(t2) /\ t2.mask = t.mask
    /\ NodesOf(t2) = NodesOf(t) \cup ToSet(chain)

\* A chain that may be inserted: none of its nodes is there.
IsNew(t, chain, hash) ==
    /\ hash \in Hash /\ IsChain(chain, hash) /\ chain # <<>>
    /\ ToSet(chain) \cap NodesOf(t) = {}

SameShape(t, t2) ==
    /\ t2 \in Table(t.mask) /\ t2.basis = t.basis

\* Tables of one size and basis have the same places and buckets for a hash.
LEMMA ShapeFacts ==
  ASSUME NEW t, NEW t2, t.mask \in Nat, t \in Table(t.mask), SameShape(t, t2)
  PROVE  /\ t2.mask = t.mask /\ t2.mask \in Nat /\ t2 \in Table(t2.mask)
         /\ Buckets(t2) = Buckets(t) /\ Place(t2) = Place(t)
         /\ \A h : Bucket1(t2, h) = Bucket1(t, h) /\ Both(t2, h) = Both(t, h)
<1>1. t2.mask = t.mask /\ t2.basis = t.basis
  BY DEF SameShape, Table
<1> QED BY <1>1 DEF SameShape, Buckets, Place, Both, Bucket1, Bucket2

\* The chain is put before what the slot p held.
Prepended(t, t2, p, chain) ==
    /\ SameShape(t, t2) /\ p \in Place(t)
    /\ \A q \in Place(t) : HashAt(t2, q) = HashAt(t, q)
    /\ \A q \in Place(t) : ChainAt(t2, q) = IF q = p THEN chain \o ChainAt(t, p) ELSE ChainAt(t, q)

\* cmap_insert_dup does that.
LEMMA DupPrepends ==
  ASSUME NEW t, Sound(t), NEW hash \in Hash, NEW chain \in Seq(Node), NEW b \in Buckets(t),
         NEW t2 \in cmap_insert_dup(t, b, chain, hash)
  PROVE  /\ WithHash(t, b, hash) # {}
         /\ Prepended(t, t2, <<b, First(WithHash(t, b, hash))>>, chain)
<1> DEFINE i == First(WithHash(t, b, hash))
           p == <<b, i>>
<1>1. t.mask \in Nat /\ t \in Table(t.mask)
  BY DEF Sound
<1>2. WithHash(t, b, hash) # {} /\ t2 = [t EXCEPT !.buckets[b][i].chain = chain \o @]
  BY DEF cmap_insert_dup
<1>3. i \in Slot
  <2>1. i \in WithHash(t, b, hash)
    BY <1>1, <1>2, BucketFacts, FirstIs
  <2> QED BY <2>1, <1>1, BucketFacts
<1> HIDE DEF i
<1>4. p \in Place(t) /\ p[1] = b /\ p[2] = i /\ chain \o ChainAt(t, p) \in Seq(Node)
  <2>1. p \in Place(t) /\ p[1] = b /\ p[2] = i
    BY <1>1, <1>3, TableFacts
  <2>2. ChainAt(t, p) \in Seq(Node)
    BY <1>1, <2>1, TableFacts
  <2>3. chain \o ChainAt(t, p) \in Seq(Node)
    BY ONLY <2>2, chain \in Seq(Node)
  <2> QED BY <2>1, <2>3
<1>5. t.buckets \in [Buckets(t) -> [Slot -> cmap_slot]]
  BY <1>1 DEF Table, Buckets
<1>6. t2 = [t EXCEPT !.buckets = [t.buckets EXCEPT ![b] = [t.buckets[b] EXCEPT ![i] =
              [t.buckets[b][i] EXCEPT !.chain = chain \o ChainAt(t, p)]]]]
  BY <1>2 DEF ChainAt
<1> DEFINE new == [t.buckets[b][i] EXCEPT !.chain = chain \o ChainAt(t, p)]
<1>7. new \in cmap_slot /\ new.hash = HashAt(t, p) /\ new.chain = chain \o ChainAt(t, p)
  <2>1. t.buckets[b][i] \in cmap_slot
    BY <1>3, <1>5
  <2>2. chain \o ChainAt(t, p) \in Seq(Node)
    BY <1>4
  <2> QED BY <2>1, <2>2 DEF cmap_slot, HashAt
<1> HIDE DEF new
<1> DEFINE bs == [t.buckets EXCEPT ![b] = [t.buckets[b] EXCEPT ![i] = new]]
<1>8. bs \in [Buckets(t) -> [Slot -> cmap_slot]] /\ bs[b][i] = new
      /\ \A c \in Buckets(t), j \in Slot : <<c, j>> # <<b, i>> => bs[c][j] = t.buckets[c][j]
  BY <1>3, <1>5, <1>7
<1>9. t2 = [t EXCEPT !.buckets = bs]
  BY <1>6 DEF new
<1> HIDE DEF bs, p
<1>10. t2 \in Table(t.mask) /\ t2.basis = t.basis /\ t2.buckets = bs
  BY <1>1, <1>8, <1>9 DEF Table, Buckets
<1>11. ASSUME NEW q \in Place(t)
       PROVE  /\ HashAt(t2, q) = HashAt(t, q)
              /\ ChainAt(t2, q) = IF q = p THEN chain \o ChainAt(t, p) ELSE ChainAt(t, q)
  <2>1. q[1] \in Buckets(t) /\ q[2] \in Slot /\ q = <<q[1], q[2]>>
    BY <1>1, TableFacts
  <2>2. CASE q = p
    BY <2>2, <1>4, <1>7, <1>8, <1>10 DEF HashAt, ChainAt
  <2>3. CASE q # p
    <3>1. <<q[1], q[2]>> # <<b, i>>
      BY <2>1, <2>3 DEF p
    <3>2. t2.buckets[q[1]][q[2]] = t.buckets[q[1]][q[2]]
      BY <3>1, <2>1, <1>8, <1>10
    <3> QED BY <3>2, <2>3 DEF HashAt, ChainAt
  <2> QED BY <2>2, <2>3
<1>12. Prepended(t, t2, p, chain)
  BY <1>4, <1>10, <1>11 DEF Prepended, SameShape
<1> QED BY <1>2, <1>12 DEF p, i

\* A slot that has the hash, free or not, is where the chain belongs.
LEMMA PrependKeeps ==
  ASSUME NEW t, Sound(t), NEW chain, NEW hash, IsNew(t, chain, hash),
         NEW b \in Both(t, hash), WithHash(t, b, hash) # {},
         b = Bucket1(t, hash) \/ WithHash(t, Bucket1(t, hash), hash) = {},
         NEW p, p = <<b, First(WithHash(t, b, hash))>>,
         NEW t2, Prepended(t, t2, p, chain)
  PROVE  Inserted(t, t2, chain)
<1>1. /\ t.mask \in Nat /\ t \in Table(t.mask) /\ hash \in Hash
      /\ b \in Buckets(t) /\ Bucket1(t, hash) \in Buckets(t) /\ Bucket1(t, hash) \in Both(t, hash)
      /\ \A c \in Both(t, hash) : c # b /\ b # Bucket1(t, hash) => c = Bucket1(t, hash)
  BY TableFacts DEF Sound, Both, IsNew
<1>2. p \in Place(t) /\ p[1] = b /\ HashAt(t, p) = hash /\ p[2] \in WithHash(t, b, hash)
      /\ \A q \in Place(t) : q[1] = b /\ HashAt(t, q) = hash => p[2] <= q[2]
  <2>1. WithHash(t, b, hash) \in SUBSET Nat
    BY <1>1, BucketFacts
  <2>2. p[2] \in WithHash(t, b, hash) /\ \A i \in WithHash(t, b, hash) : p[2] <= i
    BY <2>1, FirstIs
  <2>3. p[2] \in Slot /\ HashAt(t, p) = hash
    BY <2>2, <1>1, BucketFacts
  <2>4. p \in Place(t)
    BY <2>3, <1>1, TableFacts
  <2>5. ASSUME NEW q \in Place(t), q[1] = b, HashAt(t, q) = hash PROVE p[2] <= q[2]
    <3>1. q = <<b, q[2]>> /\ q[2] \in Slot
      BY <1>1, <2>5, TableFacts
    <3>2. q[2] \in WithHash(t, b, hash)
      BY <3>1, <2>5, <1>1, BucketFacts
    <3> QED BY <3>2, <2>2
  <2> QED BY <2>2, <2>3, <2>4, <2>5
<1>3. /\ t2.mask = t.mask /\ t2 \in Table(t2.mask) /\ Place(t2) = Place(t)
      /\ \A h : Bucket1(t2, h) = Bucket1(t, h) /\ Both(t2, h) = Both(t, h)
  BY <1>1, ShapeFacts DEF Prepended
<1>4. /\ \A q \in Place(t) : HashAt(t2, q) = HashAt(t, q)
      /\ \A q \in Place(t) : q # p => ChainAt(t2, q) = ChainAt(t, q)
      /\ ChainAt(t2, p) = chain \o ChainAt(t, p)
  BY <1>2 DEF Prepended
<1>5. \A q, r \in Place(t) : q[1] = r[1] /\ q[2] = r[2] => q = r
  <2>1. \A q \in Place(t) : q = <<q[1], q[2]>>
    BY <1>1, TableFacts
  <2> QED BY <2>1
<1>6. \A q \in Place(t) : q[2] \in Nat
  BY <1>1, TableFacts
<1>7. ASSUME NEW r \in Place(t), r # p, HashAt(t, r) = hash, r[1] \in Both(t, hash)
      PROVE  /\ ChainAt(t, r) = <<>>
             /\ IF r[1] = b THEN p[2] < r[2] ELSE b = Bucket1(t, hash)
  <2>1. r[1] # Bucket1(t, hash) \/ b = Bucket1(t, hash)
    <3> SUFFICES ASSUME r[1] = Bucket1(t, hash), WithHash(t, Bucket1(t, hash), hash) = {} PROVE FALSE
      OBVIOUS
    <3>1. r = <<Bucket1(t, hash), r[2]>> /\ r[2] \in Slot
      BY <1>1, <1>7, TableFacts
    <3> QED BY <3>1, <1>1, <1>7, BucketFacts
  <2>2. r[1] = b => p[2] < r[2]
    <3>1. r[1] = b => p[2] <= r[2] /\ p[2] # r[2]
      BY <1>2, <1>5, <1>7
    <3> QED BY <3>1, <1>2, <1>6
  <2>3. r[1] # b => b = Bucket1(t, hash)
    BY <1>1, <1>7, <2>1
  <2>4. ChainAt(t, r) = <<>>
    <3> SUFFICES ASSUME ChainAt(t, r) # <<>> PROVE FALSE
      OBVIOUS
    <3>1. Settled(t, r)
      BY <1>7 DEF Sound
    <3>2. IF p[1] = r[1] THEN r[2] < p[2] ELSE r[1] = Bucket1(t, hash)
      BY <3>1, <1>2, <1>7 DEF Settled
    <3> QED BY <3>2, <2>1, <2>2, <1>2, <1>6
  <2> QED BY <2>2, <2>3, <2>4
<1>8. IsChain(chain \o ChainAt(t, p), hash) /\ chain \o ChainAt(t, p) # <<>>
      /\ ToSet(chain \o ChainAt(t, p)) = ToSet(chain) \cup ToSet(ChainAt(t, p))
  <2>1. IsChain(ChainAt(t, p), hash)
    <3>1. CASE ChainAt(t, p) = <<>>
      <4>1. <<>> \in Seq(Node) /\ DOMAIN <<>> = {}
        OBVIOUS
      <4> QED BY <3>1, <4>1 DEF IsChain
    <3>2. CASE ChainAt(t, p) # <<>>
      BY <3>2, <1>2 DEF Sound, Settled
    <3> QED BY <3>1, <3>2
  <2>2. ToSet(chain) \cap ToSet(ChainAt(t, p)) = {}
    BY <1>2, NodesAt DEF IsNew
  <2> DEFINE d == ChainAt(t, p)
  <2>3. IsChain(chain, hash) /\ chain # <<>> /\ IsChain(d, hash) /\ ToSet(chain) \cap ToSet(d) = {}
    BY <2>1, <2>2, <1>2 DEF IsNew
  <2> HIDE DEF d
  <2>4. IsChain(chain \o d, hash) /\ chain \o d # <<>> /\ ToSet(chain \o d) = ToSet(chain) \cup ToSet(d)
    BY ONLY <2>3, ChainsJoin, ZenonT(60)
  <2> QED BY ONLY <2>4 DEF d
<1>9. ASSUME NEW q \in Place(t), ChainAt(t2, q) # <<>>
      PROVE  Settled(t2, q)
  <2>1. CASE q = p
    <3>1. HashAt(t2, q) = hash /\ q[1] = b /\ IsChain(ChainAt(t2, q), hash)
      BY <2>1, <1>2, <1>4, <1>8
    <3>2. \A r \in Place(t) : r # q /\ r[1] \in Both(t, hash) /\ HashAt(t2, r) = hash
            => ChainAt(t2, r) = <<>> /\ IF r[1] = b THEN q[2] < r[2] ELSE b = Bucket1(t, hash)
      BY <2>1, <1>4, <1>7
    <3> QED BY <3>1, <3>2, <1>3 DEF Settled
  <2>2. CASE q # p
    <3>1. Settled(t, q) /\ ChainAt(t2, q) = ChainAt(t, q) /\ HashAt(t2, q) = HashAt(t, q)
      BY <2>2, <1>4, <1>9 DEF Sound
    <3>2. HashAt(t, q) # hash
      BY <3>1, <1>7, <1>9, <2>2 DEF Settled
    <3>3. \A r \in Place(t) : HashAt(t2, r) = HashAt(t, q) => ChainAt(t2, r) = ChainAt(t, r) /\ HashAt(t, r) = HashAt(t, q)
      BY <3>2, <1>2, <1>4
    <3> QED BY <3>1, <3>3, <1>3 DEF Settled
  <2> QED BY <2>1, <2>2
<1>10. Sound(t2)
  BY <1>1, <1>3, <1>9 DEF Sound
<1>11. NodesOf(t2) = NodesOf(t) \cup ToSet(chain)
  BY <1>2, <1>3, <1>4, <1>8, NodesAt
<1> QED BY <1>3, <1>10, <1>11 DEF Inserted
\* The chain at p may move to the bucket of q.
Leads(t, p, q) == q[1] # p[1] /\ q[1] = other_bucket(t, p[1], p[2])

\* A way to a free slot: every chain on it can move to the next place, which is in its
\* other bucket; all buckets but the last one are full.
IsRoute(t, path, hash) ==
    /\ path \in Seq(Place(t)) /\ path # <<>>
    /\ path[1][1] \in Both(t, hash)
    /\ \A k, l \in 1 .. Len(path) : path[k] = path[l] => k = l
    /\ \A k \in 1 .. Len(path) - 1 :
         /\ \A q \in Place(t) : q[1] = path[k][1] => ChainAt(t, q) # <<>>
         /\ Leads(t, path[k], path[k + 1])
    /\ ChainAt(t, path[Len(path)]) = <<>>
    /\ \A q \in Place(t) : q[1] = path[Len(path)][1] /\ q[2] < path[Len(path)][2] => ChainAt(t, q) # <<>>

\* Every chain on the way moves to the next place, and a chain takes the first place.
Shifted(t, t2, path, chain, hash) ==
    /\ SameShape(t, t2)
    /\ HashAt(t2, path[1]) = hash /\ ChainAt(t2, path[1]) = chain
    /\ \A k \in 1 .. Len(path) - 1 : /\ HashAt(t2, path[k + 1]) = HashAt(t, path[k])
                                     /\ ChainAt(t2, path[k + 1]) = ChainAt(t, path[k])
    /\ \A q \in Place(t) : (\A k \in 1 .. Len(path) : q # path[k])
         => HashAt(t2, q) = HashAt(t, q) /\ ChainAt(t2, q) = ChainAt(t, q)

\* The chains that move find themselves where they belong.
LEMMA ShiftKeeps ==
  ASSUME NEW t, Sound(t), NEW chain, NEW hash, IsNew(t, chain, hash),
         \A q \in Place(t) : q[1] \in Both(t, hash) => HashAt(t, q) # hash,
         NEW path, IsRoute(t, path, hash), NEW t2, Shifted(t, t2, path, chain, hash)
  PROVE  Inserted(t, t2, chain)
<1> DEFINE m == Len(path)
<1>1. /\ t.mask \in Nat /\ t \in Table(t.mask) /\ hash \in Hash
      /\ t2.mask = t.mask /\ t2 \in Table(t2.mask) /\ Place(t2) = Place(t)
      /\ \A h : Bucket1(t2, h) = Bucket1(t, h) /\ Both(t2, h) = Both(t, h)
  BY ShapeFacts DEF Sound, IsNew, Shifted
<1>2. m \in Nat /\ m >= 1 /\ \A k \in 1 .. m : path[k] \in Place(t)
  BY DEF IsRoute
<1>3. \A k, l \in 1 .. m : path[k] = path[l] => k = l
  BY DEF IsRoute
<1>4. \A q \in Place(t) : \/ q = path[1]
                          \/ \E k \in 1 .. m - 1 : q = path[k + 1]
                          \/ \A k \in 1 .. m : q # path[k]
  <2> SUFFICES ASSUME NEW k \in 1 .. m, k # 1 PROVE k - 1 \in 1 .. m - 1 /\ k = (k - 1) + 1
    OBVIOUS
  <2> QED BY <1>2
<1>5. \A k \in 1 .. m - 1 : k \in 1 .. m /\ k + 1 \in 1 .. m /\ path[k] \in Place(t) /\ path[k + 1] \in Place(t)
  BY <1>2
<1>6. 1 \in 1 .. m /\ m \in 1 .. m /\ path[1] \in Place(t) /\ path[m] \in Place(t)
  BY <1>2
<1>7. /\ path[1][1] \in Both(t, hash)
      /\ \A k \in 1 .. m - 1, q \in Place(t) : q[1] = path[k][1] => ChainAt(t, q) # <<>>
      /\ ChainAt(t, path[m]) = <<>>
      /\ \A q \in Place(t) : q[1] = path[m][1] /\ q[2] < path[m][2] => ChainAt(t, q) # <<>>
  BY DEF IsRoute
<1>8. /\ HashAt(t2, path[1]) = hash /\ ChainAt(t2, path[1]) = chain
      /\ \A k \in 1 .. m - 1 : /\ HashAt(t2, path[k + 1]) = HashAt(t, path[k])
                               /\ ChainAt(t2, path[k + 1]) = ChainAt(t, path[k])
      /\ \A q \in Place(t) : (\A k \in 1 .. m : q # path[k])
           => HashAt(t2, q) = HashAt(t, q) /\ ChainAt(t2, q) = ChainAt(t, q)
  BY DEF Shifted
<1>9. \A k \in 1 .. m - 1 : path[k + 1][1] # path[k][1]
                            /\ path[k + 1][1] = other_bucket(t, path[k][1], path[k][2])
  BY DEF IsRoute, Leads
<1> HIDE DEF m
<1>10. \A q \in Place(t) : ChainAt(t, q) # <<>> => Settled(t, q) /\ HashAt(t, q) # hash
  BY DEF Sound, Settled
<1>11. \A k \in 1 .. m - 1 : Settled(t, path[k]) /\ ChainAt(t, path[k]) # <<>> /\ HashAt(t, path[k]) # hash
  BY <1>5, <1>7, <1>10
<1>12. \A k \in 1 .. m - 1 : Both(t, HashAt(t, path[k])) = {path[k][1], path[k + 1][1]}
  <2> TAKE k \in 1 .. m - 1
  <2>1. path[k][1] \in Both(t, HashAt(t, path[k]))
    BY <1>11 DEF Settled
  <2>2. path[k + 1][1] = other_bucket(t, path[k][1], path[k][2]) /\ path[k + 1][1] # path[k][1]
    BY <1>9
  <2> QED BY <2>1, <2>2 DEF other_bucket, Both, HashAt
<1>13. ASSUME NEW k \in 1 .. m - 1
       PROVE  Settled(t2, path[k + 1])
  <2> DEFINE s == path[k]
             q == path[k + 1]
             g == HashAt(t, s)
  <2>1. s \in Place(t) /\ q \in Place(t) /\ ChainAt(t, s) # <<>> /\ g # hash /\ Settled(t, s)
    BY <1>5, <1>11
  <2>2. HashAt(t2, q) = g /\ ChainAt(t2, q) = ChainAt(t, s) /\ Both(t, g) = {s[1], q[1]} /\ q[1] # s[1]
    BY <1>8, <1>9, <1>12
  <2>3. ASSUME NEW r \in Place(t), r # q, r[1] \in Both(t, g), HashAt(t2, r) = g
        PROVE  ChainAt(t2, r) = <<>> /\ r[1] = q[1] /\ q[2] < r[2]
    <3>1. r # path[1]
      BY <1>8, <2>1, <2>3
    <3>2. ASSUME NEW l \in 1 .. m - 1, r = path[l + 1] PROVE FALSE
      <4>1. HashAt(t, path[l]) = g /\ ChainAt(t, path[l]) # <<>> /\ path[l] \in Place(t)
        BY <1>5, <1>8, <1>11, <2>3, <3>2
      <4>2. path[l] = s
        BY <4>1, <2>1, OneLive
      <4>3. l = k
        BY <4>2, <1>3, <1>5
      <4> QED BY <4>3, <3>2, <2>3
    <3>3. \A l \in 1 .. m : r # path[l]
      BY <3>1, <3>2, <1>4
    <3>4. HashAt(t, r) = g /\ ChainAt(t2, r) = ChainAt(t, r) /\ r # s
      BY <3>3, <1>5, <1>8, <2>3
    <3>5. ChainAt(t, r) = <<>>
      BY <3>4, <2>1, <2>3 DEF Settled
    <3>6. r[1] = q[1]
      BY <3>5, <2>2, <2>3, <1>7
    <3>7. k + 1 = m
      <4> SUFFICES ASSUME k + 1 # m PROVE FALSE
        OBVIOUS
      <4>1. k + 1 \in 1 .. m - 1
        BY <1>2
      <4> QED BY <4>1, <3>5, <3>6, <1>7
    <3>8. q = path[m] /\ r[2] # q[2]
      <4>1. q = path[m] /\ r # q
        BY <3>7, <2>3
      <4>2. q = <<q[1], q[2]>> /\ r = <<r[1], r[2]>>
        BY <1>1, <2>1, TableFacts
      <4> QED BY <4>1, <4>2, <3>6
    <3>9. ~(r[2] < q[2])
      BY <3>5, <3>6, <3>8, <1>7
    <3>10. r[2] \in Nat /\ q[2] \in Nat
      BY <1>1, <2>1, <2>3, TableFacts
    <3>11. q[2] < r[2]
      BY <3>8, <3>9, <3>10
    <3> QED BY <3>4, <3>5, <3>6, <3>11
  <2>4. IsChain(ChainAt(t, s), g)
    BY <2>1 DEF Settled
  <2> HIDE DEF q, s, g
  <2>5. Settled(t2, q)
    BY <2>2, <2>3, <2>4, <1>1 DEF Settled
  <2> QED BY <2>5 DEF q
<1>14. Settled(t2, path[1])
  <2>1. ASSUME NEW r \in Place(t), r # path[1], r[1] \in Both(t, hash), HashAt(t2, r) = hash
        PROVE  FALSE
    <3>1. ASSUME NEW l \in 1 .. m - 1, r = path[l + 1] PROVE FALSE
      BY <3>1, <2>1, <1>8, <1>11
    <3>2. \A l \in 1 .. m : r # path[l]
      BY <3>1, <2>1, <1>4
    <3> QED BY <3>2, <2>1, <1>8
  <2> QED BY <2>1, <1>1, <1>7, <1>8 DEF Settled, IsNew
<1>15. ASSUME NEW q \in Place(t), \A k \in 1 .. m : q # path[k], ChainAt(t2, q) # <<>>
       PROVE  Settled(t2, q)
  <2> DEFINE g == HashAt(t, q)
  <2>1. HashAt(t2, q) = g /\ ChainAt(t2, q) = ChainAt(t, q) /\ ChainAt(t, q) # <<>> /\ Settled(t, q) /\ g # hash
    BY <1>8, <1>10, <1>15
  <2>2. ASSUME NEW r \in Place(t), r # q, r[1] \in Both(t, g), HashAt(t2, r) = g
        PROVE  ChainAt(t2, r) = ChainAt(t, r) /\ HashAt(t, r) = g
    <3>1. r # path[1]
      BY <1>8, <2>1, <2>2
    <3>2. ASSUME NEW l \in 1 .. m - 1, r = path[l + 1] PROVE FALSE
      <4>1. HashAt(t, path[l]) = g /\ ChainAt(t, path[l]) # <<>> /\ path[l] \in Place(t)
        BY <1>5, <1>8, <1>11, <2>2, <3>2
      <4>2. path[l] = q
        BY <4>1, <2>1, OneLive
      <4> QED BY <4>2, <1>5, <1>15
    <3>3. \A l \in 1 .. m : r # path[l]
      BY <3>1, <3>2, <1>4
    <3> QED BY <3>3, <1>8, <2>2
  <2>3. HashAt(t, q) = g
    OBVIOUS
  <2> HIDE DEF g
  <2> QED BY <2>1, <2>2, <2>3, <1>1 DEF Settled
<1>16. Sound(t2)
  <2>1. ASSUME NEW q \in Place(t), ChainAt(t2, q) # <<>> PROVE Settled(t2, q)
    BY <2>1, <1>4, <1>13, <1>14, <1>15
  <2> QED BY <2>1, <1>1 DEF Sound
<1>17. NodesOf(t2) = NodesOf(t) \cup ToSet(chain)
  <2>1. ASSUME NEW n \in NodesOf(t2) PROVE n \in NodesOf(t) \cup ToSet(chain)
    <3>1. PICK q \in Place(t) : n \in ToSet(ChainAt(t2, q))
      BY <1>1, NodesAt
    <3>2. CASE q = path[1]
      BY <3>1, <3>2, <1>8
    <3>3. ASSUME NEW k \in 1 .. m - 1, q = path[k + 1] PROVE n \in NodesOf(t)
      <4>1. n \in ToSet(ChainAt(t, path[k])) /\ path[k] \in Place(t)
        BY <3>1, <3>3, <1>5, <1>8
      <4> QED BY <4>1, NodesAt
    <3>4. CASE \A k \in 1 .. m : q # path[k]
      <4>1. n \in ToSet(ChainAt(t, q))
        BY <3>1, <3>4, <1>8
      <4> QED BY <4>1, NodesAt
    <3> QED BY <3>2, <3>3, <3>4, <1>4
  <2>2. ASSUME NEW n \in NodesOf(t) PROVE n \in NodesOf(t2)
    <3>1. PICK q \in Place(t) : n \in ToSet(ChainAt(t, q))
      BY NodesAt
    <3>2. q # path[m]
      <4>1. ToSet(<<>>) = {}
        BY DEF ToSet
      <4> QED BY <3>1, <4>1, <1>7
    <3>3. ASSUME NEW k \in 1 .. m, q = path[k] PROVE n \in NodesOf(t2)
      <4>1. k \in 1 .. m - 1
        BY <3>2, <3>3, <1>2
      <4>2. n \in ToSet(ChainAt(t2, path[k + 1])) /\ path[k + 1] \in Place(t2)
        BY <4>1, <3>1, <3>3, <1>1, <1>5, <1>8
      <4> QED BY <4>2, NodesAt
    <3>4. CASE \A k \in 1 .. m : q # path[k]
      <4>1. n \in ToSet(ChainAt(t2, q))
        BY <3>1, <3>4, <1>8
      <4> QED BY <4>1, <1>1, NodesAt
    <3> QED BY <3>3, <3>4
  <2>3. ASSUME NEW n \in ToSet(chain) PROVE n \in NodesOf(t2)
    BY <2>3, <1>1, <1>6, <1>8, NodesAt
  <2> QED BY <2>1, <2>2, <2>3
<1> QED BY <1>1, <1>16, <1>17 DEF Inserted
------------------------------------------------------------------------------
(* Paths to a free slot                                                    *)

\* The paths that the search may take.
Walks(t, starts, n) ==
    {path \in Seq(Place(t)) : /\ Len(path) = n /\ path[1][1] \in starts
                              /\ \A k \in 1 .. n - 1 : Leads(t, path[k], path[k + 1])}

\* The first step of the search, and the next ones.
Starts(starts) == {<< <<b, i>> >> : b \in starts, i \in Slot}
Grown(t, paths) == UNION {Extensions(t, path) : path \in paths}

\* What the recursive function of ShortestPaths computes from itself.
WalksOf(t, starts, g) ==
    [moves \in 0 .. MAX_DEPTH + 1 |-> IF moves = 0 THEN Starts(starts) ELSE Grown(t, g[moves - 1])]

\* A function on 1 .. n is a sequence.
LEMMA FunctionIsSeq ==
  ASSUME NEW S, NEW n \in Nat, NEW f \in [1 .. n -> S]
  PROVE  f \in Seq(S) /\ Len(f) = n
<1>1. f \in Seq(S)
  BY SeqDef
<1>2. Len(f) \in Nat /\ DOMAIN f = 1 .. Len(f) /\ DOMAIN f = 1 .. n
  BY <1>1, LenProperties
<1>3. Len(f) = n
  BY <1>2
<1> QED BY <1>1, <1>3

\* A path goes on by one place.
LEMMA AppendWalk ==
  ASSUME NEW t, NEW starts, NEW n \in Nat, n >= 1, NEW path \in Walks(t, starts, n),
         NEW q \in Place(t), Leads(t, path[n], q)
  PROVE  Append(path, q) \in Walks(t, starts, n + 1)
<1> DEFINE w == Append(path, q)
<1>1. path \in Seq(Place(t)) /\ Len(path) = n /\ path[1][1] \in starts
      /\ \A k \in 1 .. n - 1 : Leads(t, path[k], path[k + 1])
  BY DEF Walks
<1>2. w \in Seq(Place(t)) /\ Len(w) = n + 1 /\ w[n + 1] = q /\ \A k \in 1 .. n : w[k] = path[k]
  BY <1>1
<1> HIDE DEF w
<1>3. \A k \in 1 .. n : k = n \/ (k \in 1 .. n - 1 /\ k + 1 \in 1 .. n)
  OBVIOUS
<1>4. \A k \in 1 .. n : Leads(t, w[k], w[k + 1])
  BY <1>1, <1>2, <1>3
<1>5. (n + 1) - 1 = n /\ 1 \in 1 .. n
  OBVIOUS
<1> QED BY <1>1, <1>2, <1>4, <1>5 DEF Walks, w

\* The beginning of a path is one.
LEMMA WalkBegins ==
  ASSUME NEW t, NEW starts, NEW n \in Nat, NEW path \in Walks(t, starts, n), NEW m \in 1 .. n
  PROVE  /\ SubSeq(path, 1, m) \in Walks(t, starts, m)
         /\ \A k \in 1 .. m : SubSeq(path, 1, m)[k] = path[k]
<1>1. path \in Seq(Place(t)) /\ Len(path) = n /\ path[1][1] \in starts
      /\ \A k \in 1 .. n - 1 : Leads(t, path[k], path[k + 1])
  BY DEF Walks
<1> DEFINE w == SubSeq(path, 1, m)
<1>2. w \in Seq(Place(t)) /\ Len(w) = m /\ \A k \in 1 .. m : w[k] = path[k]
  BY <1>1
<1> HIDE DEF w
<1>3. \A k \in 1 .. m - 1 : k \in 1 .. n - 1 /\ k \in 1 .. m /\ k + 1 \in 1 .. m
  OBVIOUS
<1>4. 1 \in 1 .. m
  OBVIOUS
<1> QED BY <1>1, <1>2, <1>3, <1>4 DEF Walks, w

\* The paths of n + 1 places are the extensions of those of n.
LEMMA ExtensionsAre ==
  ASSUME NEW t, t.mask \in Nat, t \in Table(t.mask), NEW starts, NEW n \in Nat, n >= 1
  PROVE  Grown(t, Walks(t, starts, n)) = Walks(t, starts, n + 1)
<1>1. ASSUME NEW path \in Walks(t, starts, n), NEW w \in Extensions(t, path)
      PROVE  w \in Walks(t, starts, n + 1)
  <2>1. path \in Seq(Place(t)) /\ Len(path) = n /\ path[n] \in Place(t)
    BY DEF Walks
  <2> DEFINE b == other_bucket(t, path[n][1], path[n][2])
  <2>2. b # path[n][1] /\ \E i \in Slot : w = Append(path, <<b, i>>)
    BY <2>1 DEF Extensions, Last
  <2>3. PICK i \in Slot : w = Append(path, <<b, i>>)
    BY <2>2
  <2>4. b \in Buckets(t)
    <3>1. HashAt(t, path[n]) \in Hash
      BY <2>1, TableFacts
    <3> QED BY <3>1, TableFacts DEF other_bucket, HashAt, Both
  <2> DEFINE q == <<b, i>>
  <2>5. q \in Place(t) /\ Leads(t, path[n], q)
    BY <2>2, <2>4, TableFacts DEF Leads
  <2> HIDE DEF q
  <2>6. w = Append(path, q)
    BY <2>3 DEF q
  <2> QED BY <2>5, <2>6, AppendWalk
<1>2. ASSUME NEW w \in Walks(t, starts, n + 1)
      PROVE  \E path \in Walks(t, starts, n) : w \in Extensions(t, path)
  <2> DEFINE path == SubSeq(w, 1, n)
  <2>1. path \in Walks(t, starts, n) /\ \A k \in 1 .. n : path[k] = w[k]
    BY WalkBegins
  <2>2. w \in Seq(Place(t)) /\ Len(w) = n + 1 /\ w[n + 1] \in Place(t) /\ Leads(t, w[n], w[n + 1])
    <3>1. w \in Seq(Place(t)) /\ Len(w) = n + 1 /\ \A k \in 1 .. (n + 1) - 1 : Leads(t, w[k], w[k + 1])
      BY DEF Walks
    <3>2. n \in 1 .. (n + 1) - 1
      OBVIOUS
    <3> QED BY <3>1, <3>2
  <2>3. path \in Seq(Place(t)) /\ Len(path) = n
    BY <2>1 DEF Walks
  <2> HIDE DEF path
  <2>4. w = Append(path, w[n + 1])
    <3>1. /\ Append(path, w[n + 1]) \in Seq(Place(t)) /\ Len(Append(path, w[n + 1])) = n + 1
          /\ Append(path, w[n + 1])[n + 1] = w[n + 1] /\ \A k \in 1 .. n : Append(path, w[n + 1])[k] = path[k]
      BY <2>2, <2>3
    <3>2. \A k \in 1 .. n + 1 : Append(path, w[n + 1])[k] = w[k]
      BY <3>1, <2>1
    <3> QED BY <2>2, <3>1, <3>2, SeqEqual
  <2>5. w[n + 1] = <<w[n + 1][1], w[n + 1][2]>> /\ w[n + 1][2] \in Slot
    BY <2>2, TableFacts
  <2>6. Last(path) = w[n] /\ other_bucket(t, w[n][1], w[n][2]) # w[n][1]
        /\ w[n + 1][1] = other_bucket(t, w[n][1], w[n][2])
    BY <2>1, <2>2, <2>3 DEF Last, Leads
  <2>7. w \in Extensions(t, path)
    BY <2>4, <2>5, <2>6 DEF Extensions
  <2> QED BY <2>1, <2>7
<1> QED BY <1>1, <1>2 DEF Grown

\* The paths of one place.
LEMMA StartsAre ==
  ASSUME NEW t, NEW starts, starts \subseteq Buckets(t)
  PROVE  Starts(starts) = Walks(t, starts, 1)
<1>1. ASSUME NEW b \in starts, NEW i \in Slot PROVE << <<b, i>> >> \in Walks(t, starts, 1)
  <2> DEFINE p == <<b, i>>
  <2>1. p \in Place(t) /\ p[1] = b
    BY DEF Place
  <2> HIDE DEF p
  <2>2. <<p>> \in Seq(Place(t)) /\ Len(<<p>>) = 1 /\ <<p>>[1] = p
    BY <2>1
  <2>3. <<p>> \in Walks(t, starts, 1)
    BY <2>1, <2>2 DEF Walks
  <2> QED BY <2>3 DEF p
<1>2. ASSUME NEW w \in Walks(t, starts, 1)
      PROVE  \E b \in starts, i \in Slot : w = << <<b, i>> >>
  <2>1. w \in Seq(Place(t)) /\ Len(w) = 1 /\ w[1] \in Place(t) /\ w[1][1] \in starts
    BY DEF Walks
  <2>2. w[1] = <<w[1][1], w[1][2]>> /\ w[1][2] \in Slot
    BY <2>1 DEF Place
  <2>3. w = <<w[1]>>
    BY <2>1
  <2> QED BY <2>1, <2>2, <2>3
<1> QED BY <1>1, <1>2 DEF Starts

\* The search goes through all paths, by their length.
LEMMA WalksAre ==
  ASSUME NEW t, t.mask \in Nat, t \in Table(t.mask), NEW starts, starts \subseteq Buckets(t),
         NEW g, g = CHOOSE f : f = WalksOf(t, starts, f)
  PROVE  \A moves \in 0 .. MAX_DEPTH + 1 : g[moves] = Walks(t, starts, moves + 1)
<1> DEFINE D == MAX_DEPTH + 1
           f == [moves \in 0 .. D |-> Walks(t, starts, moves + 1)]
<1>1. D \in Nat
  BY CmapAssumption
<1>2. ASSUME NEW moves \in 0 .. D, moves # 0
      PROVE  /\ moves - 1 \in 0 .. D
             /\ Grown(t, Walks(t, starts, (moves - 1) + 1)) = Walks(t, starts, moves + 1)
  <2>1. moves - 1 \in 0 .. D /\ (moves - 1) + 1 = moves /\ moves \in Nat /\ moves >= 1
    BY <1>1, <1>2
  <2> QED BY <2>1, ExtensionsAre
<1>3. f = WalksOf(t, starts, f)
  <2>1. ASSUME NEW moves \in 0 .. D
        PROVE  f[moves] = IF moves = 0 THEN Starts(starts) ELSE Grown(t, f[moves - 1])
    <3>1. CASE moves = 0
      BY <3>1, StartsAre
    <3>2. CASE moves # 0
      BY <3>2, <1>2
    <3> QED BY <3>1, <3>2
  <2> HIDE DEF D
  <2> QED BY <2>1 DEF WalksOf, D
<1>4. g = WalksOf(t, starts, g)
  <2> HIDE DEF f
  <2> QED BY <1>3
<1> DEFINE T == {moves \in 0 .. D : g[moves] = Walks(t, starts, moves + 1)}
<1>5. \A moves \in 0 .. D : g[moves] = IF moves = 0 THEN Starts(starts) ELSE Grown(t, g[moves - 1])
  BY <1>4 DEF WalksOf
<1>6. 0 \in T
  BY <1>1, <1>5, StartsAre
<1>7. ASSUME NEW moves \in 1 .. D, moves - 1 \in T
      PROVE  moves \in T
  <2>1. moves \in 0 .. D /\ moves # 0
    OBVIOUS
  <2> QED BY <2>1, <1>2, <1>5, <1>7
<1>8. 0 .. D \subseteq T
  <2> HIDE DEF T, D
  <2> QED BY <1>1, <1>6, <1>7, UpTo
<1> QED BY <1>8
\* The search returns shortest paths that end at the first free slot of a bucket.
LEMMA ShortestAre ==
  ASSUME NEW t, t.mask \in Nat, t \in Table(t.mask), NEW starts, starts \subseteq Buckets(t),
         NEW path \in ShortestPaths(t, starts)
  PROVE  \E n \in Nat : /\ n >= 2 /\ path \in Walks(t, starts, n) /\ IsComplete(t, path)
                        /\ \A j \in 2 .. n - 1 : \A w \in Walks(t, starts, j) : ~IsComplete(t, w)
<1> DEFINE g == CHOOSE f : f = WalksOf(t, starts, f)
           complete(moves) == {w \in g[moves] : IsComplete(t, w)}
           lengths == {moves \in 1 .. MAX_DEPTH + 1 : complete(moves) # {}}
<1>1. ShortestPaths(t, starts) = IF lengths = {} THEN {} ELSE complete(First(lengths))
  BY DEF ShortestPaths, WalksOf, Starts, Grown
<1>2. \A moves \in 0 .. MAX_DEPTH + 1 : g[moves] = Walks(t, starts, moves + 1)
  BY WalksAre
<1> HIDE DEF g
<1>3. lengths \in SUBSET Nat /\ MAX_DEPTH + 1 \in Nat
  BY CmapAssumption
<1>4. lengths # {} /\ path \in complete(First(lengths))
  BY <1>1
<1> DEFINE m == First(lengths)
<1>5. m \in lengths /\ \A j \in lengths : m <= j
  <2> HIDE DEF lengths
  <2> QED BY <1>3, <1>4, FirstIs
<1> HIDE DEF m
<1>6. m \in 1 .. MAX_DEPTH + 1 /\ path \in Walks(t, starts, m + 1) /\ IsComplete(t, path)
  <2>1. m \in 1 .. MAX_DEPTH + 1 /\ path \in complete(m)
    BY <1>4, <1>5 DEF m
  <2>2. m \in 0 .. MAX_DEPTH + 1
    BY <2>1, <1>3
  <2> QED BY <2>1, <2>2, <1>2
<1>7. ASSUME NEW j \in 2 .. m, NEW w \in Walks(t, starts, j)
      PROVE  ~IsComplete(t, w)
  <2>1. j - 1 \in 1 .. MAX_DEPTH + 1 /\ j - 1 \in 0 .. MAX_DEPTH + 1 /\ j - 1 < m /\ (j - 1) + 1 = j
    BY <1>3, <1>6
  <2>2. j - 1 \notin lengths
    BY <2>1, <1>5, <1>3
  <2>3. complete(j - 1) = {}
    BY <2>1, <2>2
  <2>4. w \in g[j - 1]
    BY <2>1, <1>2
  <2> QED BY <2>3, <2>4
<1>8. m + 1 \in Nat /\ m + 1 >= 2 /\ (m + 1) - 1 = m
  BY <1>3, <1>6
<1> QED BY <1>6, <1>7, <1>8

\* What it is to be complete.
LEMMA CompleteIs ==
  ASSUME NEW t, t.mask \in Nat, t \in Table(t.mask), NEW starts, NEW n \in Nat, n >= 1,
         NEW w \in Walks(t, starts, n)
  PROVE  /\ w[n] \in Place(t)
         /\ IsComplete(t, w) <=> /\ EmptySlots(t, w[n][1]) # {}
                                 /\ w[n][2] = First(EmptySlots(t, w[n][1]))
<1>1. w \in Seq(Place(t)) /\ Len(w) = n
  BY DEF Walks
<1>2. w[n] \in Place(t) /\ Last(w) = w[n]
  BY <1>1 DEF Last
<1> QED BY <1>2 DEF IsComplete

\* Between full buckets a shortest path meets a free slot only at its end, and does not
\* meet itself.
LEMMA ShortestIsRoute ==
  ASSUME NEW t, t.mask \in Nat, t \in Table(t.mask), NEW hash \in Hash,
         \A q \in Place(t) : q[1] \in Both(t, hash) => ChainAt(t, q) # <<>>,
         NEW path \in ShortestPaths(t, Both(t, hash))
  PROVE  IsRoute(t, path, hash)
<1> DEFINE starts == Both(t, hash)
<1>1. starts \subseteq Buckets(t)
  BY TableFacts
<1>2. PICK n \in Nat : /\ n >= 2 /\ path \in Walks(t, starts, n) /\ IsComplete(t, path)
                       /\ \A j \in 2 .. n - 1 : \A w \in Walks(t, starts, j) : ~IsComplete(t, w)
  BY <1>1, ShortestAre
<1>3. /\ path \in Seq(Place(t)) /\ Len(path) = n /\ path[1][1] \in starts
      /\ \A k \in 1 .. n - 1 : Leads(t, path[k], path[k + 1])
  BY <1>2 DEF Walks
<1>4. /\ \A k \in 1 .. n : path[k] \in Place(t) /\ path[k] = <<path[k][1], path[k][2]>>
                           /\ path[k][1] \in Buckets(t) /\ path[k][2] \in Slot
      /\ n \in 1 .. n /\ 1 \in 1 .. n
  <2>1. \A k \in 1 .. n : path[k] \in Place(t)
    BY <1>3
  <2>2. n \in 1 .. n /\ 1 \in 1 .. n
    BY <1>2
  <2> QED BY <2>1, <2>2, TableFacts
<1>5. \A b \in Buckets(t) : EmptySlots(t, b) # {} =>
        /\ <<b, First(EmptySlots(t, b))>> \in Place(t)
        /\ ChainAt(t, <<b, First(EmptySlots(t, b))>>) = <<>>
        /\ \A i \in EmptySlots(t, b) : First(EmptySlots(t, b)) <= i
  <2> SUFFICES ASSUME NEW b \in Buckets(t), EmptySlots(t, b) # {}
               PROVE  /\ <<b, First(EmptySlots(t, b))>> \in Place(t)
                      /\ ChainAt(t, <<b, First(EmptySlots(t, b))>>) = <<>>
                      /\ \A i \in EmptySlots(t, b) : First(EmptySlots(t, b)) <= i
    OBVIOUS
  <2>1. First(EmptySlots(t, b)) \in EmptySlots(t, b) /\ \A i \in EmptySlots(t, b) : First(EmptySlots(t, b)) <= i
    BY BucketFacts, FirstIs
  <2> QED BY <2>1, BucketFacts, TableFacts
<1>6. EmptySlots(t, path[n][1]) # {} /\ path[n] = <<path[n][1], First(EmptySlots(t, path[n][1]))>>
  BY <1>2, <1>4, CompleteIs
<1>7. ASSUME NEW k \in 1 .. n - 1, NEW q \in Place(t), q[1] = path[k][1]
      PROVE  ChainAt(t, q) # <<>>
  <2> SUFFICES ASSUME ChainAt(t, q) = <<>> PROVE FALSE
    OBVIOUS
  <2> DEFINE b == path[k][1]
             e == <<b, First(EmptySlots(t, b))>>
  <2>1. k \in 1 .. n /\ b \in Buckets(t) /\ q = <<b, q[2]>> /\ q[2] \in Slot
    <3>1. k \in 1 .. n
      BY <1>2
    <3>2. b \in Buckets(t)
      BY <3>1, <1>4
    <3>3. q = <<q[1], q[2]>> /\ q[2] \in Slot
      BY TableFacts
    <3> QED BY <3>1, <3>2, <3>3, <1>7
  <2>2. EmptySlots(t, b) # {}
    BY <2>1, BucketFacts
  <2>3. e \in Place(t) /\ e[1] = b /\ e[2] = First(EmptySlots(t, b))
    BY <2>1, <2>2, <1>5
  <2>4. k # 1
    BY <1>3, <1>7
  <2>5. k - 1 \in 1 .. n /\ k - 1 \in Nat /\ k - 1 >= 1 /\ k - 1 \in 1 .. n - 1 /\ (k - 1) + 1 = k /\ k \in 2 .. n - 1 /\ k - 1 \in 1 .. k - 1
    BY <2>4, <1>2
  <2> DEFINE pre == SubSeq(path, 1, k - 1)
             w == Append(pre, e)
  <2>6. pre \in Walks(t, starts, k - 1) /\ pre[k - 1] = path[k - 1]
    BY <1>2, <2>5, WalkBegins
  <2>7. Leads(t, pre[k - 1], e)
    <3>1. Leads(t, path[k - 1], path[k])
      BY <1>3, <2>5
    <3> QED BY <3>1, <2>3, <2>6 DEF Leads
  <2> HIDE DEF pre, e
  <2>8. w \in Walks(t, starts, k)
    <3>1. w \in Walks(t, starts, (k - 1) + 1)
      BY <2>3, <2>5, <2>6, <2>7, AppendWalk
    <3> QED BY <3>1, <2>5
  <2>9. w[k] = e
    <3>1. pre \in Seq(Place(t)) /\ Len(pre) = k - 1
      BY <2>6 DEF Walks
    <3>2. w[(k - 1) + 1] = e
      BY <3>1, <2>3
    <3> QED BY <3>2, <2>5
  <2> HIDE DEF w
  <2>10. IsComplete(t, w)
    <3>1. k \in Nat /\ k >= 1
      BY <2>5
    <3> QED BY <3>1, <2>2, <2>3, <2>8, <2>9, CompleteIs
  <2> QED BY <2>5, <2>8, <2>10, <1>2
<1>8. ASSUME NEW j \in 1 .. n, NEW k \in 1 .. n, j < k, path[j] = path[k]
      PROVE  FALSE
  <2>1. j \in 1 .. n - 1
    BY <1>8
  <2>2. CASE k = n
    <3>1. ChainAt(t, path[n]) = <<>> /\ path[n][1] = path[j][1]
      BY <2>2, <1>4, <1>5, <1>6, <1>8
    <3> QED BY <3>1, <2>1, <1>4, <1>7
  <2>3. CASE k # n
    <3> DEFINE d == k - j
               N == n - d
               w == [i \in 1 .. N |-> IF i <= j THEN path[i] ELSE path[i + d]]
    <3>1. /\ N \in Nat /\ N \in 2 .. n - 1 /\ j \in 1 .. N - 1 /\ N + d = n /\ j + d = k /\ d \in Nat /\ ~(N <= j) /\ N \in 1 .. N
          /\ \A i \in 1 .. N : i \in 1 .. n /\ (~(i <= j) => i + d \in 1 .. n)
      BY <1>2, <1>8, <2>3
    <3>2. w \in [1 .. N -> Place(t)]
      BY <3>1, <1>4
    <3>3. w \in Seq(Place(t)) /\ Len(w) = N
      <4> HIDE DEF w, N
      <4> QED BY <3>1, <3>2, FunctionIsSeq
    <3>4. \A i \in 1 .. N : w[i] = IF i <= j THEN path[i] ELSE path[i + d]
      OBVIOUS
    <3> HIDE DEF w
    <3>5. w[1] = path[1] /\ w[N] = path[n]
      BY <3>1, <3>4, <1>8
    <3>6. ASSUME NEW i \in 1 .. N - 1
          PROVE  Leads(t, w[i], w[i + 1])
      <4>0. i \in 1 .. N /\ i + 1 \in 1 .. N
        BY <3>1
      <4>1. CASE i < j
        <5>1. w[i] = path[i] /\ w[i + 1] = path[i + 1] /\ i \in 1 .. n - 1
          BY <4>0, <4>1, <3>4, <3>1, <1>8
        <5> QED BY <5>1, <1>3
      <4>2. CASE i = j
        <5>1. w[i] = path[k] /\ w[i + 1] = path[k + 1] /\ k \in 1 .. n - 1
          <6>1. ~(i + 1 <= j) /\ i <= j /\ (i + 1) + d = k + 1 /\ k \in 1 .. n - 1
            BY <4>2, <3>1, <2>3
          <6> QED BY <6>1, <4>0, <4>2, <3>4, <1>8
        <5> QED BY <5>1, <1>3
      <4>3. CASE i > j
        <5>1. w[i] = path[i + d] /\ w[i + 1] = path[(i + d) + 1] /\ i + d \in 1 .. n - 1
          <6>1. ~(i + 1 <= j) /\ ~(i <= j) /\ (i + 1) + d = (i + d) + 1 /\ i + d \in 1 .. n - 1
            BY <4>3, <3>1
          <6> QED BY <6>1, <4>0, <3>4
        <5> QED BY <5>1, <1>3
      <4> QED BY <4>1, <4>2, <4>3, <3>1
    <3>7. w \in Walks(t, starts, N)
      BY <3>3, <3>5, <3>6, <1>3 DEF Walks
    <3>8. IsComplete(t, w)
      <4>1. N >= 1
        BY <3>1
      <4>2. EmptySlots(t, w[N][1]) # {} /\ w[N][2] = First(EmptySlots(t, w[N][1]))
        BY <3>5, <1>2, CompleteIs
      <4> HIDE DEF N
      <4> QED BY <4>1, <4>2, <3>1, <3>7, CompleteIs
    <3> QED BY <3>1, <3>7, <3>8, <1>2
  <2> QED BY <2>2, <2>3
<1>9. \A j, k \in 1 .. n : path[j] = path[k] => j = k
  <2> SUFFICES ASSUME NEW j \in 1 .. n, NEW k \in 1 .. n, path[j] = path[k], j # k PROVE FALSE
    OBVIOUS
  <2>1. CASE j < k
    BY <2>1, <1>8
  <2>2. CASE k < j
    BY <2>2, <1>8
  <2> QED BY <2>1, <2>2
<1>10. ASSUME NEW q \in Place(t), q[1] = path[n][1], q[2] < path[n][2] PROVE ChainAt(t, q) # <<>>
  <2> SUFFICES ASSUME ChainAt(t, q) = <<>> PROVE FALSE
    OBVIOUS
  <2>1. q = <<path[n][1], q[2]>> /\ q[2] \in Slot /\ q[2] \in Nat /\ path[n] \in Place(t) /\ path[n][2] \in Nat /\ path[n][1] \in Buckets(t)
    BY <1>4, <1>10, TableFacts
  <2>2. q[2] \in EmptySlots(t, path[n][1])
    BY <2>1, BucketFacts
  <2>3. path[n][2] <= q[2]
    BY <2>1, <2>2, <1>4, <1>5, <1>6
  <2> QED BY <2>1, <2>3, <1>10
<1>11. path # <<>> /\ ChainAt(t, path[n]) = <<>>
  <2>1. ChainAt(t, <<path[n][1], First(EmptySlots(t, path[n][1]))>>) = <<>>
    BY <1>4, <1>5, <1>6
  <2>2. path # <<>>
    BY <1>2, <1>3
  <2> QED BY <2>1, <2>2, <1>6
<1> QED BY <1>3, <1>7, <1>9, <1>10, <1>11 DEF IsRoute
\* MovedAlong moves every chain to the next place.
LEMMA MovedIsShifted ==
  ASSUME NEW t, Sound(t), NEW hash \in Hash, NEW chain \in Seq(Node),
         NEW path, IsRoute(t, path, hash), NEW t2, t2 = MovedAlong(t, path, chain, hash)
  PROVE  Shifted(t, t2, path, chain, hash)
<1> DEFINE m == Len(path)
           new == [hash |-> hash, chain |-> chain]
           before(p) == path[CHOOSE k \in 1 .. m - 1 : path[k + 1] = p]
           At(b, i) == IF <<b, i>> \notin ToSet(path) THEN t.buckets[b][i]
                       ELSE IF <<b, i>> = path[1] THEN new
                       ELSE t.buckets[before(<<b, i>>)[1]][before(<<b, i>>)[2]]
           bs == [b \in Buckets(t) |-> [i \in Slot |-> At(b, i)]]
<1>1. t2 = [t EXCEPT !.buckets = bs]
  BY DEF MovedAlong
<1>2. /\ path \in Seq(Place(t)) /\ path # <<>> /\ m \in Nat /\ m >= 1
      /\ \A k \in 1 .. m : path[k] \in Place(t)
      /\ \A k, l \in 1 .. m : path[k] = path[l] => k = l
  BY DEF IsRoute
<1>3. t.mask \in Nat /\ t \in Table(t.mask) /\ new \in cmap_slot
  BY DEF Sound, cmap_slot
<1>4. \A p \in Place(t) : /\ p = <<p[1], p[2]>> /\ p[1] \in Buckets(t) /\ p[2] \in Slot
                          /\ t.buckets[p[1]][p[2]] \in cmap_slot
                          /\ t.buckets[p[1]][p[2]] = [hash |-> HashAt(t, p), chain |-> ChainAt(t, p)]
  <2>1. \A p \in Place(t) : p = <<p[1], p[2]>> /\ p[1] \in Buckets(t) /\ p[2] \in Slot
                            /\ t.buckets[p[1]][p[2]] = [hash |-> HashAt(t, p), chain |-> ChainAt(t, p)]
    BY <1>3, TableFacts
  <2>2. \A b \in Buckets(t), i \in Slot : t.buckets[b][i] \in cmap_slot
    BY <1>3 DEF Table, Buckets
  <2> QED BY <2>1, <2>2
<1>5. DOMAIN path = 1 .. m
  BY <1>2
<1>6. ASSUME NEW k \in 1 .. m - 1
      PROVE  before(path[k + 1]) = path[k] /\ path[k + 1] # path[1] /\ path[k + 1] \in ToSet(path)
             /\ k \in 1 .. m /\ k + 1 \in 1 .. m
  <2>1. k \in 1 .. m /\ k + 1 \in 1 .. m /\ 1 \in 1 .. m /\ k + 1 # 1
    BY <1>2
  <2>2. \A l \in 1 .. m - 1 : path[l + 1] = path[k + 1] => l = k
    <3> SUFFICES ASSUME NEW l \in 1 .. m - 1, path[l + 1] = path[k + 1] PROVE l = k
      OBVIOUS
    <3>1. l + 1 \in 1 .. m
      BY <1>2
    <3>2. l + 1 = k + 1
      BY <3>1, <2>1, <1>2
    <3> QED BY <3>2, <1>2
  <2>3. (CHOOSE l \in 1 .. m - 1 : path[l + 1] = path[k + 1]) = k
    BY <2>2
  <2>4. path[k + 1] # path[1]
    BY <2>1, <1>2
  <2>5. path[k + 1] \in ToSet(path)
    BY <2>1, <1>5 DEF ToSet
  <2> QED BY <2>1, <2>3, <2>4, <2>5
<1>7. \A p \in ToSet(path) : p = path[1] \/ \E k \in 1 .. m - 1 : p = path[k + 1]
  <2> SUFFICES ASSUME NEW k \in 1 .. m, k # 1 PROVE k - 1 \in 1 .. m - 1 /\ k = (k - 1) + 1
    BY <1>5 DEF ToSet
  <2> QED BY <1>2
<1>8. path[1] \in ToSet(path) /\ path[1] \in Place(t)
  <2>1. 1 \in 1 .. m
    BY <1>2
  <2> QED BY <2>1, <1>2, <1>5 DEF ToSet
<1> HIDE DEF before, m, new
<1>9. ASSUME NEW p \in Place(t)
      PROVE  /\ bs[p[1]][p[2]] \in cmap_slot
             /\ p \notin ToSet(path) => bs[p[1]][p[2]] = t.buckets[p[1]][p[2]]
             /\ p = path[1] => bs[p[1]][p[2]] = new
             /\ \A k \in 1 .. m - 1 : p = path[k + 1] => bs[p[1]][p[2]] = t.buckets[path[k][1]][path[k][2]]
  <2>1. bs[p[1]][p[2]] = At(p[1], p[2]) /\ p = <<p[1], p[2]>>
    BY <1>4
  <2>2. CASE p \notin ToSet(path)
    BY <2>1, <2>2, <1>4, <1>6, <1>8
  <2>3. CASE p = path[1]
    BY <2>1, <2>3, <1>3, <1>6, <1>8
  <2>4. ASSUME NEW k \in 1 .. m - 1, p = path[k + 1]
        PROVE  bs[p[1]][p[2]] = t.buckets[path[k][1]][path[k][2]] /\ bs[p[1]][p[2]] \in cmap_slot /\ p \in ToSet(path) /\ p # path[1]
    <3>1. before(p) = path[k] /\ p # path[1] /\ p \in ToSet(path) /\ path[k] \in Place(t)
      BY <2>4, <1>2, <1>6
    <3>2. bs[p[1]][p[2]] = t.buckets[path[k][1]][path[k][2]]
      BY <3>1, <2>1
    <3> QED BY <3>1, <3>2, <1>4
  <2> QED BY <2>2, <2>3, <2>4, <1>7
<1>10. bs \in [Buckets(t) -> [Slot -> cmap_slot]]
  <2>1. ASSUME NEW b \in Buckets(t), NEW i \in Slot PROVE At(b, i) \in cmap_slot
    <3> DEFINE p == <<b, i>>
    <3>1. p \in Place(t) /\ p[1] = b /\ p[2] = i
      BY <1>3, TableFacts
    <3>2. bs[b][i] \in cmap_slot
      <4> HIDE DEF p, bs
      <4> QED BY <3>1, <1>9
    <3> QED BY <3>2
  <2> HIDE DEF At
  <2> QED BY <2>1
<1> HIDE DEF bs
<1>11. t2 \in Table(t.mask) /\ t2.basis = t.basis /\ t2.buckets = bs
  BY <1>1, <1>3, <1>10 DEF Table, Buckets
<1>12. \A p, q \in Place(t) : t2.buckets[p[1]][p[2]] = t.buckets[q[1]][q[2]] =>
         HashAt(t2, p) = HashAt(t, q) /\ ChainAt(t2, p) = ChainAt(t, q)
  BY DEF HashAt, ChainAt
<1>13. HashAt(t2, path[1]) = hash /\ ChainAt(t2, path[1]) = chain
  BY <1>8, <1>9, <1>11 DEF HashAt, ChainAt, new
<1>14. ASSUME NEW k \in 1 .. m - 1
       PROVE  HashAt(t2, path[k + 1]) = HashAt(t, path[k]) /\ ChainAt(t2, path[k + 1]) = ChainAt(t, path[k])
  <2>1. path[k] \in Place(t) /\ path[k + 1] \in Place(t)
    BY <1>2, <1>6
  <2>2. t2.buckets[path[k + 1][1]][path[k + 1][2]] = t.buckets[path[k][1]][path[k][2]]
    BY <2>1, <1>9, <1>11
  <2> QED BY <2>1, <2>2, <1>12
<1>15. ASSUME NEW q \in Place(t), \A k \in 1 .. m : q # path[k]
       PROVE  HashAt(t2, q) = HashAt(t, q) /\ ChainAt(t2, q) = ChainAt(t, q)
  <2>1. q \notin ToSet(path)
    BY <1>5, <1>15 DEF ToSet
  <2>2. t2.buckets[q[1]][q[2]] = t.buckets[q[1]][q[2]]
    BY <2>1, <1>9, <1>11
  <2> QED BY <2>2, <1>12
<1> QED BY <1>11, <1>13, <1>14, <1>15 DEF Shifted, SameShape, m

\* A chain put in a free slot is the end of a way of one place.
LEMMA FreeSlotShifts ==
  ASSUME NEW t, Sound(t), NEW hash \in Hash, NEW chain \in Seq(Node), NEW b \in Both(t, hash),
         NEW t2 \in cmap_insert_bucket(t, b, chain, hash)
  PROVE  \E path : IsRoute(t, path, hash) /\ Shifted(t, t2, path, chain, hash)
<1> DEFINE i == First(EmptySlots(t, b))
           p == <<b, i>>
           new == [hash |-> hash, chain |-> chain]
<1>1. t.mask \in Nat /\ t \in Table(t.mask) /\ b \in Buckets(t) /\ new \in cmap_slot
  BY TableFacts DEF Sound, cmap_slot
<1>2. EmptySlots(t, b) # {} /\ t2 = [t EXCEPT !.buckets[b][i] = new]
  BY DEF cmap_insert_bucket, cmap_set_bucket
<1>3. i \in EmptySlots(t, b) /\ \A j \in EmptySlots(t, b) : i <= j
  BY <1>1, <1>2, BucketFacts, FirstIs
<1>4. i \in Slot /\ p \in Place(t) /\ ChainAt(t, p) = <<>> /\ p[1] = b /\ p[2] = i /\ i \in Nat
  <2>1. i \in Slot /\ ChainAt(t, p) = <<>>
    BY <1>1, <1>3, BucketFacts
  <2>2. p \in Place(t) /\ p[1] = b /\ p[2] = i
    BY <2>1, <1>1, TableFacts
  <2> QED BY <2>1, <2>2, <1>1, TableFacts
<1>5. t.buckets \in [Buckets(t) -> [Slot -> cmap_slot]]
  BY <1>1 DEF Table, Buckets
<1> HIDE DEF i, new
<1> DEFINE bs == [t.buckets EXCEPT ![b] = [t.buckets[b] EXCEPT ![i] = new]]
<1>6. t2 = [t EXCEPT !.buckets = bs]
  BY <1>2
<1>7. /\ bs \in [Buckets(t) -> [Slot -> cmap_slot]] /\ bs[b][i] = new
      /\ \A c \in Buckets(t), j \in Slot : <<c, j>> # <<b, i>> => bs[c][j] = t.buckets[c][j]
  BY <1>1, <1>4, <1>5
<1> HIDE DEF bs, p
<1>8. t2 \in Table(t.mask) /\ t2.basis = t.basis /\ t2.buckets = bs
  BY <1>1, <1>6, <1>7 DEF Table, Buckets
<1>9. HashAt(t2, p) = hash /\ ChainAt(t2, p) = chain
  BY <1>4, <1>7, <1>8 DEF HashAt, ChainAt, new
<1>10. ASSUME NEW q \in Place(t), q # p
       PROVE  HashAt(t2, q) = HashAt(t, q) /\ ChainAt(t2, q) = ChainAt(t, q)
  <2>1. q[1] \in Buckets(t) /\ q[2] \in Slot /\ <<q[1], q[2]>> # <<b, i>>
    BY <1>1, <1>10, TableFacts DEF p
  <2>2. t2.buckets[q[1]][q[2]] = t.buckets[q[1]][q[2]]
    BY <2>1, <1>7, <1>8
  <2> QED BY <2>2 DEF HashAt, ChainAt
<1> DEFINE path == <<p>>
<1>11. path \in Seq(Place(t)) /\ Len(path) = 1 /\ path[1] = p /\ path # <<>>
  BY <1>4
<1> HIDE DEF path
<1>12. \A k \in 1 .. Len(path) - 1 : FALSE
  BY <1>11
<1>13. 1 \in 1 .. Len(path) /\ \A k \in 1 .. Len(path) : k = 1
  BY <1>11
<1>14. \A q \in Place(t) : q[1] = p[1] /\ q[2] < p[2] => ChainAt(t, q) # <<>>
  <2> SUFFICES ASSUME NEW q \in Place(t), q[1] = b, q[2] < i, ChainAt(t, q) = <<>> PROVE FALSE
    BY <1>4
  <2>1. q = <<b, q[2]>> /\ q[2] \in Slot /\ q[2] \in Nat
    <3>1. q = <<q[1], q[2]>> /\ q[2] \in Slot /\ q[2] \in Nat
      BY <1>1, TableFacts
    <3> QED BY <3>1
  <2>2. q[2] \in EmptySlots(t, b)
    BY <2>1, <1>1, BucketFacts
  <2> QED BY <2>1, <2>2, <1>3, <1>4
<1>15. IsRoute(t, path, hash)
  BY <1>4, <1>11, <1>12, <1>13, <1>14 DEF IsRoute
<1>16. Shifted(t, t2, path, chain, hash)
  BY <1>8, <1>9, <1>10, <1>11, <1>12, <1>13 DEF Shifted, SameShape
<1> QED BY <1>15, <1>16

\* Whichever way a chain is inserted, the table stays sound and has the nodes of the chain.
LEMMA TryInsertKeeps ==
  ASSUME NEW t, Sound(t), NEW chain, NEW hash, IsNew(t, chain, hash),
         NEW t2 \in cmap_try_insert(t, chain, hash)
  PROVE  Inserted(t, t2, chain)
<1> DEFINE b1 == Bucket1(t, hash)
           b2 == Bucket2(t, hash)
<1>1. /\ t.mask \in Nat /\ t \in Table(t.mask) /\ hash \in Hash /\ chain \in Seq(Node)
      /\ Both(t, hash) = {b1, b2} /\ b1 \in Buckets(t) /\ b2 \in Buckets(t)
  BY TableFacts DEF Sound, Both, IsNew, IsChain
<1>2. CASE t2 \in cmap_insert_dup(t, b1, chain, hash)
  BY <1>1, <1>2, DupPrepends, PrependKeeps
<1>3. CASE t2 \in cmap_insert_dup(t, b2, chain, hash) /\ cmap_insert_dup(t, b1, chain, hash) = {}
  <2>1. WithHash(t, b1, hash) = {}
    BY <1>3 DEF cmap_insert_dup
  <2> QED BY <2>1, <1>1, <1>3, DupPrepends, PrependKeeps
<1>4. ASSUME cmap_insert_dup(t, b1, chain, hash) = {}, cmap_insert_dup(t, b2, chain, hash) = {},
             \E path : IsRoute(t, path, hash) /\ Shifted(t, t2, path, chain, hash)
      PROVE  Inserted(t, t2, chain)
  <2>1. WithHash(t, b1, hash) = {} /\ WithHash(t, b2, hash) = {}
    BY <1>4 DEF cmap_insert_dup
  <2>2. ASSUME NEW q \in Place(t), q[1] \in Both(t, hash), HashAt(t, q) = hash PROVE FALSE
    <3>1. q = <<q[1], q[2]>> /\ q[2] \in Slot /\ q[1] \in {b1, b2}
      BY <1>1, <2>2, TableFacts
    <3>2. q[2] \in WithHash(t, q[1], hash)
      BY <3>1, <2>2, <1>1, BucketFacts
    <3> QED BY <3>1, <3>2, <2>1
  <2> QED BY <2>2, <1>4, ShiftKeeps
<1>5. CASE t2 \in cmap_insert_bucket(t, b1, chain, hash) \/ t2 \in cmap_insert_bucket(t, b2, chain, hash)
  <2>1. \E path : IsRoute(t, path, hash) /\ Shifted(t, t2, path, chain, hash)
    BY <1>1, <1>5, FreeSlotShifts
  <2> QED BY <2>1, <1>2, <1>3, <1>4, <1>5 DEF cmap_try_insert, OrElse
<1>6. CASE /\ cmap_insert_bucket(t, b1, chain, hash) = {} /\ cmap_insert_bucket(t, b2, chain, hash) = {}
           /\ t2 \in cmap_insert_bfs(t, b1, b2, chain, hash)
  <2>1. EmptySlots(t, b1) = {} /\ EmptySlots(t, b2) = {}
    BY <1>6 DEF cmap_insert_bucket
  <2>2. ASSUME NEW q \in Place(t), q[1] \in Both(t, hash) PROVE ChainAt(t, q) # <<>>
    <3>1. q = <<q[1], q[2]>> /\ q[2] \in Slot /\ q[1] \in {b1, b2}
      BY <1>1, <2>2, TableFacts
    <3> QED BY <3>1, <2>1, <1>1, BucketFacts
  <2>3. PICK path \in ShortestPaths(t, Both(t, hash)) : t2 = MovedAlong(t, path, chain, hash)
    BY <1>1, <1>6 DEF cmap_insert_bfs, FoundFirst
  <2>4. IsRoute(t, path, hash) /\ Shifted(t, t2, path, chain, hash)
    BY <1>1, <2>2, <2>3, ShortestIsRoute, MovedIsShifted
  <2> QED BY <2>4, <1>2, <1>3, <1>4, <1>6 DEF cmap_try_insert, OrElse
<1> QED BY <1>2, <1>3, <1>5, <1>6 DEF cmap_try_insert, OrElse
------------------------------------------------------------------------------
(* Rehashing                                                               *)

\* An empty table.
LEMMA NewTable ==
  ASSUME NEW mask \in Nat, NEW basis \in Basis
  PROVE  LET t == cmap_impl_create(mask, basis) IN Sound(t) /\ t.mask = mask /\ NodesOf(t) = {}
<1> DEFINE t == cmap_impl_create(mask, basis)
<1>1. NeverUsed \in cmap_slot /\ NeverUsed.chain = <<>>
  BY CmapAssumption DEF NeverUsed, cmap_slot
<1>2. /\ t.mask = mask /\ t \in Table(mask)
      /\ \A b \in 0 .. mask, i \in Slot : t.buckets[b][i] = NeverUsed
  BY <1>1 DEF cmap_impl_create, Table
<1> HIDE DEF t
<1>3. \A p \in Place(t) : ChainAt(t, p) = <<>>
  BY <1>1, <1>2 DEF Place, Buckets, ChainAt
<1>4. NodesOf(t) = {}
  <2>1. ToSet(<<>>) = {}
    BY DEF ToSet
  <2> QED BY <2>1, <1>3, NodesAt
<1> QED BY <1>2, <1>3, <1>4 DEF Sound, t

\* The slots of a table in their order.
Size(t) == (t.mask + 1) * CMAP_K
PlaceOf(k) == <<(k - 1) \div CMAP_K, 1 + ((k - 1) % CMAP_K)>>

\* Each slot comes once.
LEMMA PlacesInOrder ==
  ASSUME NEW t, t.mask \in Nat, t \in Table(t.mask)
  PROVE  /\ Size(t) \in Nat
         /\ \A k \in 1 .. Size(t) : PlaceOf(k) \in Place(t)
         /\ \A j, k \in 1 .. Size(t) : PlaceOf(j) = PlaceOf(k) => j = k
         /\ \A p \in Place(t) : \E k \in 1 .. Size(t) : p = PlaceOf(k)
<1> DEFINE K == CMAP_K
           M == t.mask
<1>1. K \in Nat \ {0} /\ M \in Nat
  BY CmapAssumption
<1>2. Size(t) = (M + 1) * K /\ (M + 1) * K \in Nat
  BY <1>1 DEF Size
<1>3. Place(t) = (0 .. M) \X (1 .. K)
  BY DEF Place, Buckets, Slot
<1>4. \A k : PlaceOf(k) = <<(k - 1) \div K, 1 + ((k - 1) % K)>>
  BY DEF PlaceOf
<1> HIDE DEF K, M
<1>5. ASSUME NEW k \in 1 .. (M + 1) * K
      PROVE  PlaceOf(k) \in Place(t) /\ k = K * PlaceOf(k)[1] + PlaceOf(k)[2]
  <2> DEFINE a == k - 1
             q == a \div K
             r == a % K
  <2>1. a \in Nat /\ a \in 0 .. (M + 1) * K - 1 /\ k = a + 1
    BY <1>1, <1>2
  <2> HIDE DEF a
  <2>2. q \in 0 .. M
    BY <2>1, <1>1
  <2>3. r \in 0 .. K - 1 /\ a = (K * q) + r
    BY <2>1, <1>1
  <2>4. PlaceOf(k) = <<q, 1 + r>>
    BY <1>4 DEF a
  <2> HIDE DEF q, r
  <2>5. 1 + r \in 1 .. K /\ k = (K * q) + (1 + r)
    <3>1. K * q \in Int
      BY <2>2, <1>1
    <3> QED BY <3>1, <2>1, <2>3, <1>1
  <2> QED BY <2>2, <2>4, <2>5, <1>3
<1>6. ASSUME NEW p \in Place(t)
      PROVE  \E k \in 1 .. (M + 1) * K : p = PlaceOf(k)
  <2> DEFINE b == p[1]
             i == p[2] - 1
             a == (b * K) + i
  <2>1. b \in 0 .. M /\ i \in 0 .. K - 1 /\ p = <<b, 1 + i>>
    BY <1>1, <1>3
  <2> HIDE DEF b, i
  <2>2. a \in 0 .. (M + 1) * K - 1 /\ a \div K = b /\ a % K = i
    BY <2>1, <1>1
  <2> HIDE DEF a
  <2>3. a + 1 \in 1 .. (M + 1) * K /\ (a + 1) - 1 = a
    BY <2>2, <1>2
  <2>4. PlaceOf(a + 1) = p
    BY <2>1, <2>2, <2>3, <1>4
  <2> QED BY <2>3, <2>4
<1>7. \A j, k \in 1 .. (M + 1) * K : PlaceOf(j) = PlaceOf(k) => j = k
  BY <1>5
<1> QED BY <1>2, <1>5, <1>6, <1>7

\* What a step of cmap_try_rehash makes of the tables it may have.
Added(old, k, tables) ==
    IF old.buckets[(k - 1) \div CMAP_K][1 + ((k - 1) % CMAP_K)].chain = <<>> THEN tables
    ELSE UNION {cmap_try_insert(t, old.buckets[(k - 1) \div CMAP_K][1 + ((k - 1) % CMAP_K)].chain,
                                   old.buckets[(k - 1) \div CMAP_K][1 + ((k - 1) % CMAP_K)].hash) : t \in tables}

\* What its recursive function computes from itself.
TablesOf(old, new, g) == [k \in 0 .. Size(old) |-> IF k = 0 THEN {new} ELSE Added(old, k, g[k - 1])]

\* The nodes of the first k slots, and the tables that hold them.
NodesUpTo(old, k) == UNION {ToSet(ChainAt(old, PlaceOf(j))) : j \in 1 .. k}
Filled(old, mask, k) == {t \in Table(mask) : Sound(t) /\ NodesOf(t) = NodesUpTo(old, k)}

\* A step adds the nodes of one slot.
LEMMA AddedKeeps ==
  ASSUME NEW old, Sound(old), NEW mask \in Nat, NEW k \in 1 .. Size(old),
         NEW tables \in SUBSET Filled(old, mask, k - 1)
  PROVE  Added(old, k, tables) \in SUBSET Filled(old, mask, k)
<1> DEFINE p == PlaceOf(k)
           chain == ChainAt(old, p)
           hash == HashAt(old, p)
<1>1. old.mask \in Nat /\ old \in Table(old.mask) /\ Size(old) \in Nat
  BY PlacesInOrder DEF Sound
<1>2. /\ \A j \in 1 .. Size(old) : PlaceOf(j) \in Place(old)
      /\ \A i, j \in 1 .. Size(old) : PlaceOf(i) = PlaceOf(j) => i = j
  BY <1>1, PlacesInOrder
<1>3. Added(old, k, tables) = IF chain = <<>> THEN tables
                              ELSE UNION {cmap_try_insert(t, chain, hash) : t \in tables}
  BY DEF Added, ChainAt, HashAt, PlaceOf
<1>4. NodesUpTo(old, k) = NodesUpTo(old, k - 1) \cup ToSet(chain)
  <2>1. \A j : j \in 1 .. k <=> j \in 1 .. k - 1 \/ j = k
    BY <1>1
  <2> QED BY <2>1 DEF NodesUpTo
<1> HIDE DEF p, chain, hash
<1>5. CASE chain = <<>>
  <2>1. ToSet(chain) = {}
    BY <1>5 DEF ToSet
  <2> QED BY <2>1, <1>3, <1>4, <1>5 DEF Filled
<1>6. CASE chain # <<>>
  <2>1. p \in Place(old) /\ chain = ChainAt(old, p) /\ hash = HashAt(old, p)
    BY <1>2 DEF p, chain, hash
  <2>2. hash \in Hash /\ IsChain(chain, hash)
    BY <2>1, <1>1, <1>6, TableFacts DEF Sound, Settled
  <2>3. ToSet(chain) \cap NodesUpTo(old, k - 1) = {}
    <3> SUFFICES ASSUME NEW n \in ToSet(chain), NEW j \in 1 .. k - 1, n \in ToSet(ChainAt(old, PlaceOf(j)))
                 PROVE  FALSE
      BY DEF NodesUpTo
    <3>1. j \in 1 .. Size(old) /\ j # k
      BY <1>1
    <3>2. PlaceOf(j) \in Place(old) /\ PlaceOf(j) # p
      BY <3>1, <1>2 DEF p
    <3>3. ChainAt(old, PlaceOf(j)) # <<>>
      BY DEF ToSet
    <3>4. HashOf[n] = HashAt(old, PlaceOf(j)) /\ HashOf[n] = HashAt(old, p)
      BY <2>1, <3>2, <3>3, <1>6, NodesWithHash
    <3>5. PlaceOf(j) = p
      BY <3>2, <3>3, <3>4, <2>1, <1>6, OneLive
    <3> QED BY <3>2, <3>5
  <2>4. ASSUME NEW t \in tables, NEW t2 \in cmap_try_insert(t, chain, hash)
        PROVE  t2 \in Filled(old, mask, k)
    <3>1. Sound(t) /\ NodesOf(t) = NodesUpTo(old, k - 1) /\ t.mask = mask
      BY DEF Filled, Table
    <3>2. IsNew(t, chain, hash)
      BY <2>2, <2>3, <3>1, <1>6 DEF IsNew
    <3>3. Inserted(t, t2, chain)
      BY <3>1, <3>2, TryInsertKeeps
    <3> QED BY <3>1, <3>3, <1>4 DEF Inserted, Filled, Sound
  <2> QED BY <2>4, <1>3, <1>6
<1> QED BY <1>5, <1>6

\* The tables that cmap_try_rehash may return have the nodes of the old one.
LEMMA RehashKeeps ==
  ASSUME NEW old, Sound(old), NEW mask \in Nat, NEW basis \in Basis,
         NEW t \in cmap_try_rehash(old, cmap_impl_create(mask, basis))
  PROVE  Sound(t) /\ t.mask = mask /\ NodesOf(t) = NodesOf(old)
<1> DEFINE new == cmap_impl_create(mask, basis)
           N == Size(old)
<1>1. old.mask \in Nat /\ old \in Table(old.mask) /\ N \in Nat
  BY PlacesInOrder DEF Sound
<1>2. new \in Filled(old, mask, 0)
  <2>1. Sound(new) /\ new.mask = mask /\ NodesOf(new) = {}
    BY NewTable
  <2>2. NodesUpTo(old, 0) = {}
    BY DEF NodesUpTo
  <2> QED BY <2>1, <2>2 DEF Filled, Sound
<1> HIDE DEF new
<1>3. t \in (CHOOSE g : g = TablesOf(old, new, g))[N]
  BY DEF cmap_try_rehash, TablesOf, Added, Size, new
<1>4. ASSUME NEW k \in 1 .. N
      PROVE  k \in 0 .. N /\ k # 0 /\ k - 1 \in 0 .. N
  BY <1>1
<1>5. \E g : g = TablesOf(old, new, g)
  <2> DEFINE X == SUBSET Table(mask)
             F == [k \in 1 .. N |-> [T \in X |-> Added(old, k, T) \cap Table(mask)]]
  <2>1. {new} \in X /\ F \in [1 .. N -> [X -> X]]
    BY <1>2 DEF Filled
  <2>2. PICK g : Iterates(g, N, X, {new}, F)
    <3>1. N \in Nat /\ {new} \in X /\ F \in [1 .. N -> [X -> X]]
      BY <1>1, <2>1
    <3> HIDE DEF X, F, N
    <3> QED BY ONLY <3>1, Iterated
  <2>3. g \in [0 .. N -> X] /\ g[0] = {new} /\ \A k \in 1 .. N : g[k] = F[k][g[k - 1]]
    BY <2>2 DEF Iterates
  <2>4. \A k \in 1 .. N : g[k] = Added(old, k, g[k - 1]) \cap Table(mask)
    BY <1>4, <2>3
  <2> DEFINE T == {k \in 0 .. N : g[k] \in SUBSET Filled(old, mask, k)}
  <2> HIDE DEF F, X
  <2>5. 0 \in T
    BY <1>1, <1>2, <2>3
  <2>6. \A k \in 1 .. N : k - 1 \in T => k \in T
    BY <1>4, <2>4, AddedKeeps
  <2>7. \A k \in 0 .. N : g[k] \in SUBSET Filled(old, mask, k)
    <3>1. 0 .. N \subseteq T
      <4> HIDE DEF T, N
      <4> QED BY <1>1, <2>5, <2>6, UpTo
    <3> QED BY <3>1
  <2>8. ASSUME NEW k \in 0 .. N
        PROVE  g[k] = IF k = 0 THEN {new} ELSE Added(old, k, g[k - 1])
    <3>1. CASE k = 0
      BY <3>1, <2>3
    <3>2. CASE k # 0
      <4>1. k \in 1 .. N
        BY <3>2
      <4>2. Added(old, k, g[k - 1]) \in SUBSET Filled(old, mask, k)
        BY <4>1, <1>4, <2>7, AddedKeeps
      <4>3. Added(old, k, g[k - 1]) \subseteq Table(mask)
        BY <4>2 DEF Filled
      <4> QED BY <4>1, <4>3, <2>4, <3>2
    <3> QED BY <3>1, <3>2
  <2>9. g = [k \in 0 .. N |-> g[k]]
    BY <2>3
  <2> QED BY <2>8, <2>9 DEF TablesOf
<1> DEFINE g == CHOOSE g : g = TablesOf(old, new, g)
<1>6. g = TablesOf(old, new, g)
  BY <1>5
<1> HIDE DEF g
<1>7. \A k \in 0 .. N : g[k] = IF k = 0 THEN {new} ELSE Added(old, k, g[k - 1])
  BY <1>6 DEF TablesOf
<1> DEFINE T == {k \in 0 .. N : g[k] \in SUBSET Filled(old, mask, k)}
<1>8. 0 \in T
  BY <1>1, <1>2, <1>7
<1>9. \A k \in 1 .. N : k - 1 \in T => k \in T
  BY <1>4, <1>7, AddedKeeps
<1>10. g[N] \in SUBSET Filled(old, mask, N)
  <2>1. 0 .. N \subseteq T
    <3> HIDE DEF T, N
    <3> QED BY <1>1, <1>8, <1>9, UpTo
  <2>2. N \in 0 .. N
    BY <1>1
  <2> QED BY <2>1, <2>2
<1>11. Sound(t) /\ t.mask = mask /\ NodesOf(t) = NodesUpTo(old, N)
  BY <1>3, <1>10 DEF g, Filled, Table
<1>12. NodesUpTo(old, N) = NodesOf(old)
  <2>1. \A j \in 1 .. N : PlaceOf(j) \in Place(old)
    BY <1>1, PlacesInOrder
  <2>2. \A p \in Place(old) : \E j \in 1 .. N : p = PlaceOf(j)
    BY <1>1, PlacesInOrder
  <2>3. \A n : n \in NodesUpTo(old, N) <=> \E j \in 1 .. N : n \in ToSet(ChainAt(old, PlaceOf(j)))
    BY DEF NodesUpTo
  <2> HIDE DEF N
  <2> QED BY <2>1, <2>2, <2>3, NodesAt
<1> QED BY <1>11, <1>12
------------------------------------------------------------------------------
(* The operations                                                          *)

\* Tables of one size and basis with the same slots have the same nodes.
LEMMA SameSlots ==
  ASSUME NEW t, Sound(t), NEW u, SameShape(t, u),
         \A p \in Place(t) : HashAt(u, p) = HashAt(t, p) /\ ChainAt(u, p) = ChainAt(t, p)
  PROVE  Sound(u) /\ u.mask = t.mask /\ NodesOf(u) = NodesOf(t)
<1>1. /\ u.mask = t.mask /\ u.mask \in Nat /\ u \in Table(u.mask) /\ Place(u) = Place(t)
      /\ \A h : Bucket1(u, h) = Bucket1(t, h) /\ Both(u, h) = Both(t, h)
  BY ShapeFacts DEF Sound
<1>2. ASSUME NEW p \in Place(t), ChainAt(u, p) # <<>>
      PROVE  Settled(u, p)
  <2>1. Settled(t, p)
    BY <1>2 DEF Sound
  <2> QED BY <2>1, <1>1 DEF Settled
<1>3. NodesOf(u) = NodesOf(t)
  <2>1. ASSUME NEW n PROVE n \in NodesOf(u) <=> n \in NodesOf(t)
    <3>1. n \in NodesOf(u) <=> \E p \in Place(t) : n \in ToSet(ChainAt(u, p))
      BY <1>1, NodesAt
    <3>2. n \in NodesOf(t) <=> \E p \in Place(t) : n \in ToSet(ChainAt(t, p))
      BY NodesAt
    <3> QED BY <3>1, <3>2
  <2> QED BY <2>1
<1> QED BY <1>1, <1>2, <1>3 DEF Sound

\* The counter of the nodes says nothing of where they are.
LEMMA CountedKeeps ==
  ASSUME NEW t, Sound(t), NEW m \in Int, NEW u, u = [t EXCEPT !.n = m]
  PROVE  Sound(u) /\ u.mask = t.mask /\ NodesOf(u) = NodesOf(t)
<1>1. t \in Table(t.mask)
  BY DEF Sound
<1>2. u \in Table(t.mask) /\ u.basis = t.basis /\ u.buckets = t.buckets
  BY <1>1 DEF Table
<1>3. \A p \in Place(t) : HashAt(u, p) = HashAt(t, p) /\ ChainAt(u, p) = ChainAt(t, p)
  BY <1>2 DEF HashAt, ChainAt
<1> QED BY <1>2, <1>3, SameSlots DEF SameShape

\* A table without the node at l of the chain of a slot.
Without(t, b, i, l, m) ==
    [t EXCEPT !.buckets[b][i].chain = RemoveAt(t.buckets[b][i].chain, l), !.n = m]

\* The removal of a node from its chain.
LEMMA RemovalKeeps ==
  ASSUME NEW t, Sound(t), NEW b \in Buckets(t), NEW i \in Slot,
         NEW l \in DOMAIN t.buckets[b][i].chain, NEW m \in Int,
         NEW u, u = Without(t, b, i, l, m)
  PROVE  Sound(u) /\ u.mask = t.mask /\ NodesOf(u) = NodesOf(t) \ {t.buckets[b][i].chain[l]}
<1> DEFINE p == <<b, i>>
           c == ChainAt(t, p)
           d == RemoveAt(c, l)
           hash == HashAt(t, p)
           new == [t.buckets[b][i] EXCEPT !.chain = d]
           bs == [t.buckets EXCEPT ![b] = [t.buckets[b] EXCEPT ![i] = new]]
<1>1. t.mask \in Nat /\ t \in Table(t.mask) /\ p \in Place(t) /\ c = t.buckets[b][i].chain
  BY TableFacts DEF Sound, ChainAt
<1>2. IsChain(c, hash) /\ c # <<>>
  <2>1. c # <<>>
    BY <1>1
  <2> QED BY <2>1, <1>1 DEF Sound, Settled
<1>3. IsChain(d, hash) /\ ToSet(d) = ToSet(c) \ {c[l]}
  <2>1. l \in DOMAIN c
    BY <1>1
  <2> HIDE DEF c
  <2> QED BY <2>1, <1>2, ChainWithout
<1>4. u = [t EXCEPT !.buckets = bs, !.n = m]
  BY <1>1 DEF Without
<1>5. t.buckets \in [Buckets(t) -> [Slot -> cmap_slot]]
  BY <1>1 DEF Table, Buckets
<1> HIDE DEF c, d
<1>6. new \in cmap_slot /\ new.hash = hash /\ new.chain = d
  <2>1. t.buckets[b][i] \in cmap_slot /\ d \in Seq(Node)
    BY <1>3, <1>5 DEF IsChain
  <2> QED BY <2>1 DEF cmap_slot, HashAt
<1> HIDE DEF new
<1>7. /\ bs \in [Buckets(t) -> [Slot -> cmap_slot]] /\ bs[b][i] = new
      /\ \A a \in Buckets(t), j \in Slot : <<a, j>> # <<b, i>> => bs[a][j] = t.buckets[a][j]
  BY <1>5, <1>6
<1> HIDE DEF bs
<1>8. u \in Table(t.mask) /\ u.basis = t.basis /\ u.buckets = bs
  BY <1>1, <1>4, <1>7 DEF Table, Buckets
<1>9. ASSUME NEW q \in Place(t)
      PROVE  HashAt(u, q) = HashAt(t, q) /\ ChainAt(u, q) = IF q = p THEN d ELSE ChainAt(t, q)
  <2>1. q[1] \in Buckets(t) /\ q[2] \in Slot /\ q = <<q[1], q[2]>>
    BY <1>1, TableFacts
  <2>2. CASE q = p
    <3>1. u.buckets[q[1]][q[2]] = new
      BY <2>2, <1>7, <1>8
    <3>2. HashAt(u, q) = hash /\ ChainAt(u, q) = d
      BY <3>1, <1>6 DEF HashAt, ChainAt
    <3> QED BY <3>2, <2>2
  <2>3. CASE q # p
    <3>1. u.buckets[q[1]][q[2]] = t.buckets[q[1]][q[2]]
      BY <2>1, <2>3, <1>7, <1>8
    <3>2. HashAt(u, q) = HashAt(t, q) /\ ChainAt(u, q) = ChainAt(t, q)
      BY <3>1 DEF HashAt, ChainAt
    <3> QED BY <3>2, <2>3
  <2> QED BY <2>2, <2>3
<1>10. /\ u.mask = t.mask /\ u \in Table(u.mask) /\ Place(u) = Place(t)
       /\ \A h : Bucket1(u, h) = Bucket1(t, h) /\ Both(u, h) = Both(t, h)
  <2>1. SameShape(t, u)
    BY <1>8 DEF SameShape
  <2> QED BY <2>1, <1>1, ShapeFacts
<1> HIDE DEF p, hash
<1>11. ASSUME NEW q \in Place(t), ChainAt(u, q) # <<>>
       PROVE  Settled(u, q)
  <2>1. Settled(t, q) /\ HashAt(u, q) = HashAt(t, q)
    BY <1>1, <1>2, <1>9, <1>11 DEF Sound, c
  <2>2. IsChain(ChainAt(u, q), HashAt(u, q))
    BY <2>1, <1>3, <1>9 DEF Settled, hash
  <2>3. \A r \in Place(t) : ChainAt(t, r) = <<>> => ChainAt(u, r) = <<>>
    BY <1>1, <1>2, <1>9 DEF c
  <2> QED BY <2>1, <2>2, <2>3, <1>9, <1>10 DEF Settled
<1>12. Sound(u)
  BY <1>1, <1>10, <1>11 DEF Sound
<1>13. NodesOf(u) = NodesOf(t) \ {c[l]}
  <2>1. ASSUME NEW q \in Place(t), c[l] \in ToSet(ChainAt(t, q)) PROVE q = p
    <3>1. ChainAt(t, q) # <<>>
      BY <2>1 DEF ToSet
    <3>2. c[l] \in ToSet(c)
      BY <1>1 DEF ToSet
    <3>3. HashAt(t, q) = HashAt(t, p)
      BY <2>1, <3>1, <3>2, <1>1, <1>2, NodesWithHash DEF c
    <3> QED BY <3>1, <3>3, <1>1, <1>2, OneLive DEF c
  <2>2. ASSUME NEW n PROVE n \in NodesOf(u) <=> n \in NodesOf(t) /\ n # c[l]
    <3>1. n \in NodesOf(u) <=> \E q \in Place(t) : n \in ToSet(ChainAt(u, q))
      BY <1>10, NodesAt
    <3>2. n \in NodesOf(t) <=> \E q \in Place(t) : n \in ToSet(ChainAt(t, q))
      BY NodesAt
    <3>3. \A q \in Place(t) : n \in ToSet(ChainAt(u, q)) <=> n \in ToSet(ChainAt(t, q)) /\ n # c[l]
      <4> SUFFICES ASSUME NEW q \in Place(t)
                   PROVE  n \in ToSet(ChainAt(u, q)) <=> n \in ToSet(ChainAt(t, q)) /\ n # c[l]
        OBVIOUS
      <4>1. CASE q = p
        BY <4>1, <1>3, <1>9 DEF c
      <4>2. CASE q # p
        BY <4>2, <2>1, <1>9
      <4> QED BY <4>1, <4>2
    <3> QED BY <3>1, <3>2, <3>3
  <2> QED BY <2>2
<1> QED BY <1>1, <1>10, <1>12, <1>13

\* A node that is in the table has one live slot in its two buckets, from whose
\* chain it is removed.
LEMMA ReplaceRemoves ==
  ASSUME Sound(impl), NEW node \in Node, cmap_replace(node)
  PROVE  Sound(impl') /\ impl'.mask = impl.mask /\ NodesOf(impl') = NodesOf(impl) \ {node}
<1> DEFINE hash == HashOf[node]
           b == IF LiveSlots(Bucket1(impl, hash), hash) # {} THEN Bucket1(impl, hash)
                ELSE Bucket2(impl, hash)
           i == First(LiveSlots(b, hash))
           chain == impl.buckets[b][i].chain
           l == CHOOSE k \in DOMAIN chain : chain[k] = node
<1>1. /\ node \in NodesOf(impl)
      /\ impl' = [impl EXCEPT !.buckets[b][i].chain = RemoveAt(chain, l), !.n = impl.n - 1]
  BY DEF cmap_replace
<1>2. impl.mask \in Nat /\ impl \in Table(impl.mask) /\ impl.n - 1 \in Int
  BY DEF Sound, Table
<1>3. PICK p \in Place(impl) : node \in ToSet(ChainAt(impl, p))
  BY <1>1, NodesAt
<1>4. /\ ChainAt(impl, p) # <<>> /\ HashAt(impl, p) = hash /\ hash \in Hash
      /\ p[1] \in {Bucket1(impl, hash), Bucket2(impl, hash)}
  <2>1. ChainAt(impl, p) # <<>>
    BY <1>3 DEF ToSet
  <2>2. HashAt(impl, p) = hash
    BY <1>1, <1>3, <2>1, NodesWithHash
  <2>3. Settled(impl, p)
    BY <2>1 DEF Sound
  <2>4. hash \in Hash
    BY <1>2, <2>2, TableFacts
  <2> QED BY <2>1, <2>2, <2>3, <2>4 DEF Settled, Both
<1>5. p[1] \in Buckets(impl) /\ p[2] \in Slot /\ p[2] \in Nat /\ p = <<p[1], p[2]>>
      /\ Bucket1(impl, hash) \in Buckets(impl) /\ Bucket2(impl, hash) \in Buckets(impl)
  BY <1>2, <1>4, TableFacts DEF Both
<1> HIDE DEF hash
<1>6. ASSUME NEW c \in Buckets(impl)
      PROVE  LiveSlots(c, hash) = IF c = p[1] THEN {p[2]} ELSE {}
  <2>1. ASSUME NEW j PROVE j \in LiveSlots(c, hash) <=> c = p[1] /\ j = p[2]
    <3>1. j \in LiveSlots(c, hash) <=> j \in Slot /\ HashAt(impl, <<c, j>>) = hash /\ ChainAt(impl, <<c, j>>) # <<>>
      BY <1>2, BucketFacts DEF LiveSlots
    <3>2. j \in Slot => <<c, j>> \in Place(impl)
      BY <1>2, TableFacts
    <3>3. j \in LiveSlots(c, hash) => <<c, j>> = p
      BY <3>1, <3>2, <1>4, OneLive
    <3>4. <<c, j>> = p => c = p[1] /\ j = p[2]
      OBVIOUS
    <3>5. c = p[1] /\ j = p[2] => j \in LiveSlots(c, hash)
      BY <3>1, <1>4, <1>5
    <3> QED BY <3>3, <3>4, <3>5
  <2> QED BY <2>1
<1>7. b = p[1] /\ LiveSlots(b, hash) = {p[2]}
  BY <1>4, <1>5, <1>6
<1> HIDE DEF b
<1>8. i = p[2]
  <2>1. {p[2]} \in SUBSET Nat /\ {p[2]} # {}
    BY <1>5
  <2>2. First({p[2]}) \in {p[2]}
    BY ONLY <2>1, FirstIs
  <2> QED BY <2>2, <1>7
<1> HIDE DEF i
<1>9. l \in DOMAIN chain /\ chain[l] = node
  <2>1. node \in ToSet(chain)
    BY <1>3, <1>7, <1>8 DEF ChainAt
  <2>2. \E k \in DOMAIN chain : chain[k] = node
    BY <2>1 DEF ToSet
  <2> QED BY <2>2
<1> HIDE DEF l
<1>10. b \in Buckets(impl) /\ i \in Slot
  BY <1>5, <1>7, <1>8
<1>11. impl' = Without(impl, b, i, l, impl.n - 1)
  BY <1>1 DEF Without
<1> QED BY <1>2, <1>9, <1>10, <1>11, RemovalKeeps

\* The insertion of a single node.
LEMMA InsertAdds ==
  ASSUME Sound(impl), arg \in Node \ NodesOf(impl),
         NEW t \in cmap_try_insert(impl, <<arg>>, HashOf[arg]), impl' = [t EXCEPT !.n = @ + 1]
  PROVE  Sound(impl') /\ NodesOf(impl') = NodesOf(impl) \cup {arg}
<1> DEFINE chain == <<arg>>
<1>1. /\ chain \in Seq(Node) /\ DOMAIN chain = {1} /\ chain[1] = arg /\ chain # <<>>
      /\ HashOf[arg] \in Hash
  BY CmapAssumption
<1>2. ToSet(chain) = {arg}
  BY <1>1 DEF ToSet
<1>3. IsNew(impl, chain, HashOf[arg])
  BY <1>1, <1>2 DEF IsNew, IsChain
<1>4. Inserted(impl, t, chain)
  BY <1>3, TryInsertKeeps
<1>5. t.n + 1 \in Int
  BY <1>4 DEF Inserted, Sound, Table
<1>6. Sound(impl') /\ NodesOf(impl') = NodesOf(t)
  BY <1>4, <1>5, CountedKeeps DEF Inserted
<1> QED BY <1>2, <1>4, <1>6 DEF Inserted

\* A rehash keeps all nodes.
LEMMA RehashMoves ==
  ASSUME IInv, NEW basis \in Basis, cmap_rehash(basis)
  PROVE  Sound(impl') /\ NodesOf(impl') = NodesOf(impl)
<1>1. Sound(impl) /\ target \in Nat
  BY DEF IInv, cmap_rehash
<1>2. PICK t \in cmap_try_rehash(impl, cmap_impl_create(target, basis)) : impl' = [t EXCEPT !.n = impl.n]
  BY DEF cmap_rehash
<1>3. Sound(t) /\ NodesOf(t) = NodesOf(impl)
  BY <1>1, RehashKeeps
<1>4. impl.n \in Int
  BY <1>1 DEF Sound, Table
<1> QED BY <1>2, <1>3, <1>4, CountedKeeps

\* The inductive invariant holds in every reachable state: chains are where a
\* lookup of their hash goes first, through all moves, removals and rehashes.
THEOREM CmapInvariance == Spec => []IInv
<1>1. Init => IInv
  <2> SUFFICES ASSUME Init PROVE IInv
    OBVIOUS
  <2>1. PICK basis \in Basis : impl = cmap_impl_create(0, basis)
    BY DEF Init
  <2>2. Sound(impl)
    BY <2>1, NewTable
  <2> QED BY <2>2 DEF Init, IInv
<1>2. IInv /\ [Next]_vars => IInv'
  <2> SUFFICES ASSUME IInv, [Next]_vars PROVE IInv'
    OBVIOUS
  <2>1. ASSUME NEW node \in Node, CallInsert(node) PROVE IInv'
    <3>1. impl' = impl /\ arg' = node /\ node \in Node \ NodesOf(impl) /\ arg' # NoNode
      BY <2>1, CmapAssumption DEF CallInsert
    <3>2. \/ pc' = "rehash" /\ target' = 2 * impl.mask + 1
          \/ pc' = "insert"
      BY <2>1 DEF CallInsert
    <3>3. 2 * impl.mask + 1 \in Nat
      BY DEF IInv, Sound
    <3> QED BY <3>1, <3>2, <3>3 DEF IInv
  <2>2. ASSUME NEW node \in Node, cmap_replace(node) PROVE IInv'
    <3>1. Sound(impl') /\ impl.mask \in Nat /\ arg' = arg /\ arg = NoNode /\ pc = "ready"
      BY <2>2, ReplaceRemoves DEF IInv, Sound, cmap_replace
    <3>2. \/ pc' = "rehash" /\ target' = impl.mask \div 2
          \/ pc' = "ready"
      BY <2>2, <3>1 DEF cmap_replace
    <3>3. impl.mask \div 2 \in Nat
      BY <3>1
    <3> QED BY <3>1, <3>2, <3>3 DEF IInv
  <2>3. ASSUME Insert PROVE IInv'
    <3>1. arg \in Node \ NodesOf(impl) /\ arg # NoNode /\ Sound(impl) /\ impl.mask \in Nat
      BY <2>3 DEF Insert, IInv, Sound
    <3>2. CASE \E t \in cmap_try_insert(impl, <<arg>>, HashOf[arg]) :
                    impl' = [t EXCEPT !.n = @ + 1] /\ pc' = "ready" /\ arg' = NoNode
      <4>1. Sound(impl')
        BY <3>1, <3>2, InsertAdds
      <4> QED BY <3>2, <4>1 DEF IInv
    <3>3. CASE pc' = "rehash" /\ target' = impl.mask /\ impl' = impl /\ arg' = arg
      BY <3>1, <3>3 DEF IInv
    <3> QED BY <2>3, <3>2, <3>3 DEF Insert
  <2>4. ASSUME NEW basis \in Basis, cmap_rehash(basis) PROVE IInv'
    <3>1. Sound(impl') /\ NodesOf(impl') = NodesOf(impl)
      BY <2>4, RehashMoves
    <3>2. arg' = arg /\ pc' = IF arg = NoNode THEN "ready" ELSE "insert"
      BY <2>4 DEF cmap_rehash
    <3> QED BY <3>1, <3>2 DEF IInv
  <2>5. CASE UNCHANGED vars
    BY <2>5 DEF vars, IInv
  <2> QED BY <2>1, <2>2, <2>3, <2>4, <2>5 DEF Next
<1> QED BY <1>1, <1>2, PTL DEF Spec

\* The comment in cmap_insert_dup: the nodes with a hash are on one chain, in
\* one of its buckets and at the first slot with the hash, so that a later
\* insertion finds it and starts no second one.
THEOREM OneChainAlways == Spec => []OneChainPerHash
<1>1. IInv => OneChainPerHash
  <2> SUFFICES ASSUME Sound(impl),
                      NEW b \in Buckets(impl), NEW c \in Buckets(impl), NEW i \in Slot, NEW j \in Slot,
                      impl.buckets[b][i].chain # <<>>
               PROVE  LET slot == impl.buckets[b][i] IN
                      /\ \A k \in DOMAIN slot.chain : HashOf[slot.chain[k]] = slot.hash
                      /\ b \in {Bucket1(impl, slot.hash), Bucket2(impl, slot.hash)}
                      /\ i = First(WithHash(impl, b, slot.hash))
                      /\ impl.buckets[c][j].hash = slot.hash /\ impl.buckets[c][j].chain # <<>>
                              => <<b, i>> = <<c, j>>
    BY DEF IInv, OneChainPerHash
  <2> DEFINE p == <<b, i>>
             q == <<c, j>>
             hash == HashAt(impl, p)
  <2>1. /\ impl.buckets[b][i].hash = hash /\ impl.buckets[b][i].chain = ChainAt(impl, p)
        /\ impl.buckets[c][j].hash = HashAt(impl, q) /\ impl.buckets[c][j].chain = ChainAt(impl, q)
    BY DEF HashAt, ChainAt
  <2>2. p \in Place(impl) /\ q \in Place(impl) /\ impl.mask \in Nat /\ impl \in Table(impl.mask)
    BY TableFacts DEF Sound
  <2>3. Settled(impl, p)
    BY <2>1, <2>2 DEF Sound
  <2>4. \A k \in DOMAIN ChainAt(impl, p) : HashOf[ChainAt(impl, p)[k]] = hash
    BY <2>3 DEF Settled, IsChain
  <2>5. b \in Both(impl, hash)
    BY <2>3 DEF Settled
  <2>6. i = First(WithHash(impl, b, hash))
    <3>1. WithHash(impl, b, hash) \in SUBSET Nat
          /\ \A k : k \in WithHash(impl, b, hash) <=> k \in Slot /\ HashAt(impl, <<b, k>>) = hash
      BY <2>2, BucketFacts
    <3>2. ASSUME NEW k \in WithHash(impl, b, hash) PROVE i <= k
      <4>1. <<b, k>> \in Place(impl) /\ HashAt(impl, <<b, k>>) = hash /\ i \in Nat /\ k \in Nat
        BY <2>2, <3>1, TableFacts
      <4>2. k # i => i < k
        BY <2>3, <2>5, <4>1 DEF Settled
      <4> QED BY <4>1, <4>2
    <3>3. i \in WithHash(impl, b, hash)
      BY <3>1
    <3> HIDE DEF hash
    <3> QED BY <3>1, <3>2, <3>3, FirstIs
  <2>7. HashAt(impl, q) = hash /\ ChainAt(impl, q) # <<>> => p = q
    BY <2>1, <2>2, OneLive
  <2> QED BY <2>1, <2>4, <2>5, <2>6, <2>7 DEF Both
<1> QED BY <1>1, CmapInvariance, PTL

\* What the client finds under each hash.
ChainsIn(t) == [h \in Hash |-> ToSet(cmap_find(t, h))]
Chains == ChainsIn(impl)

\* Lookups see the nodes of a table and nothing else of it.
LEMMA ChainsAre ==
  ASSUME NEW t, Sound(t)
  PROVE  ChainsIn(t) = [h \in Hash |-> {n \in NodesOf(t) : HashOf[n] = h}]
BY FindIsExact DEF ChainsIn

\* A node that comes or goes changes what is found under its hash.
LEMMA ChainsChange ==
  ASSUME NEW t, Sound(t), NEW u, Sound(u), NEW node \in Node
  PROVE  /\ NodesOf(u) = NodesOf(t) => ChainsIn(u) = ChainsIn(t)
         /\ node \notin NodesOf(t) /\ NodesOf(u) = NodesOf(t) \cup {node} =>
                /\ node \notin ChainsIn(t)[HashOf[node]]
                /\ ChainsIn(u) = [ChainsIn(t) EXCEPT ![HashOf[node]] = @ \cup {node}]
         /\ node \in NodesOf(t) /\ NodesOf(u) = NodesOf(t) \ {node} =>
                /\ node \in ChainsIn(t)[HashOf[node]]
                /\ ChainsIn(u) = [ChainsIn(t) EXCEPT ![HashOf[node]] = @ \ {node}]
<1> DEFINE with(N, h) == {n \in N : HashOf[n] = h}
           h0 == HashOf[node]
<1>1. /\ ChainsIn(t) = [h \in Hash |-> with(NodesOf(t), h)]
      /\ ChainsIn(u) = [h \in Hash |-> with(NodesOf(u), h)]
  BY ChainsAre
<1>2. h0 \in Hash
  BY CmapAssumption
<1>3. ASSUME NodesOf(u) = NodesOf(t) \cup {node}
      PROVE  ChainsIn(u) = [ChainsIn(t) EXCEPT ![h0] = @ \cup {node}]
  <2>1. \A h \in Hash : with(NodesOf(u), h) = IF h = h0 THEN with(NodesOf(t), h) \cup {node}
                                              ELSE with(NodesOf(t), h)
    BY <1>3
  <2> HIDE DEF with
  <2> QED BY <1>1, <1>2, <2>1
<1>4. ASSUME NodesOf(u) = NodesOf(t) \ {node}
      PROVE  ChainsIn(u) = [ChainsIn(t) EXCEPT ![h0] = @ \ {node}]
  <2>1. \A h \in Hash : with(NodesOf(u), h) = IF h = h0 THEN with(NodesOf(t), h) \ {node}
                                              ELSE with(NodesOf(t), h)
    BY <1>4
  <2> HIDE DEF with
  <2> QED BY <1>1, <1>2, <2>1
<1>5. node \in ChainsIn(t)[h0] <=> node \in NodesOf(t)
  BY <1>1, <1>2
<1> QED BY <1>1, <1>3, <1>4, <1>5

\* The table implements the hash map of HashMap: an insertion adds its node and
\* a removal takes it away, moves and rehashes are not seen.
THEOREM CmapIsHashMap == Spec => ImplementsHashMap
<1>1. Init => Chains = [h \in Hash |-> {}]
  <2> SUFFICES ASSUME Init PROVE Chains = [h \in Hash |-> {}]
    OBVIOUS
  <2>1. PICK basis \in Basis : impl = cmap_impl_create(0, basis)
    BY DEF Init
  <2>2. Sound(impl) /\ NodesOf(impl) = {}
    BY <2>1, NewTable
  <2>3. Chains = [h \in Hash |-> {n \in {} : HashOf[n] = h}]
    BY <2>2, ChainsAre DEF Chains
  <2> QED BY <2>3
<1>2. IInv /\ [Next]_vars /\ IInv' => [HM!Next]_Chains
  <2> SUFFICES ASSUME IInv, [Next]_vars, IInv' PROVE HM!Next \/ Chains' = Chains
    OBVIOUS
  <2>1. Sound(impl) /\ Sound(impl')
    BY DEF IInv
  <2>2. NodesOf(impl') = NodesOf(impl) => Chains' = Chains
    BY <2>1, ChainsAre DEF Chains
  <2>3. ASSUME NEW node \in Node, NodesOf(impl') = NodesOf(impl) \ {node}, node \in NodesOf(impl)
        PROVE  HM!Remove(node)
    BY <2>1, <2>3, ChainsChange DEF HM!Remove, ChainsIn
  <2>4. ASSUME arg \in Node \ NodesOf(impl), NodesOf(impl') = NodesOf(impl) \cup {arg}
        PROVE  HM!Insert(arg)
    <3> DEFINE node == arg
               h0 == HashOf[node]
    <3>1. node \in Node /\ node \notin NodesOf(impl) /\ NodesOf(impl') = NodesOf(impl) \cup {node}
      BY <2>4
    <3> HIDE DEF node
    <3>2. /\ node \notin ChainsIn(impl)[h0]
          /\ ChainsIn(impl') = [ChainsIn(impl) EXCEPT ![h0] = @ \cup {node}]
      BY ONLY <2>1, <3>1, ChainsChange
    <3>3. HM!Insert(node)
      BY <3>2 DEF HM!Insert, ChainsIn
    <3> QED BY <3>3 DEF node
  <2>5. ASSUME NEW node \in Node, CallInsert(node) PROVE NodesOf(impl') = NodesOf(impl)
    BY <2>5 DEF CallInsert
  <2>6. ASSUME NEW node \in Node, cmap_replace(node)
        PROVE  NodesOf(impl') = NodesOf(impl) \ {node} /\ node \in NodesOf(impl)
    BY <2>1, <2>6, ReplaceRemoves DEF cmap_replace
  <2>7. ASSUME Insert
        PROVE  \/ NodesOf(impl') = NodesOf(impl)
               \/ arg \in Node \ NodesOf(impl) /\ NodesOf(impl') = NodesOf(impl) \cup {arg}
    <3>1. arg \in Node \ NodesOf(impl)
      BY <2>7 DEF Insert, IInv
    <3>2. CASE \E t \in cmap_try_insert(impl, <<arg>>, HashOf[arg]) : impl' = [t EXCEPT !.n = @ + 1]
      BY <3>1, <3>2, <2>1, InsertAdds
    <3>3. CASE impl' = impl
      BY <3>3
    <3> QED BY <2>7, <3>2, <3>3 DEF Insert
  <2>8. ASSUME NEW basis \in Basis, cmap_rehash(basis) PROVE NodesOf(impl') = NodesOf(impl)
    BY <2>8, RehashMoves
  <2>9. CASE UNCHANGED vars
    BY <2>9, <2>2 DEF vars
  <2>10. CASE Next
    BY <2>2, <2>3, <2>4, <2>5, <2>6, <2>7, <2>8, <2>10 DEF Next, HM!Next
  <2> QED BY <2>9, <2>10
<1>3. HM!Init <=> Chains = [h \in Hash |-> {}]
  BY DEF HM!Init, Chains, ChainsIn
<1>4. [HM!Next]_Chains <=> [HM!Next]_([h \in Hash |-> ToSet(cmap_find(impl, h))])
  BY DEF Chains, ChainsIn
<1> QED BY <1>1, <1>2, <1>3, <1>4, CmapInvariance, PTL DEF Spec, ImplementsHashMap, HM!Spec
=============================================================================
