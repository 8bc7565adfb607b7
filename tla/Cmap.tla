-------------------------------- MODULE Cmap --------------------------------
(***************************************************************************)
(* The cuckoo hash map that holds the rules of one tuple                   *)
(* (src/OVS/cmap.{h,cpp}).  A client's hash is mixed with a random basis;  *)
(* the two halves of the result name the two buckets in which the chain of *)
(* nodes with that hash may be.  A full pair of buckets is relieved by     *)
(* moving chains along a shortest path to a free slot; when there is no    *)
(* such path, and when the load leaves its limits, everything moves to a   *)
(* new table with a new basis.                                             *)
(*                                                                         *)
(* The program is single-threaded, so the version counters of the buckets, *)
(* by which readers would notice a concurrent writer, are left out.        *)
(* So is MAX_QUEUE, the limit on the paths that are looked at: with 5      *)
(* slots to a bucket it cuts off only paths of the greatest depth.         *)
(***************************************************************************)
EXTENDS Integers, FiniteSets, Sequences, SequencesExt

CONSTANTS
    Node,
    Hash,         \* the hashes computed by the client
    HashOf,       \* HashOf[node]
    CMAP_K,       \* slots of a bucket, 5 in the code
    MAX_DEPTH,    \* 4 in the code
    Basis,        \* what random_uint32 may return
    Rehashed,     \* Rehashed[basis][hash]: the two halves of hash_finish
    NoNode

ASSUME CmapAssumption ==
    /\ Hash \subseteq Nat /\ 0 \in Hash
    /\ HashOf \in [Node -> Hash]
    /\ CMAP_K \in Nat \ {0} /\ MAX_DEPTH \in Nat
    /\ Basis # {}
    /\ Rehashed \in [Basis -> [Hash -> Nat \X Nat]]
    /\ NoNode \notin Node

VARIABLES
    impl,      \* the table: n, mask, basis and buckets
    pc,        \* "ready", or where the call is: "insert" or "rehash"
    arg,       \* the node that cmap_insert works on
    target     \* the mask of the table that cmap_rehash builds

vars == <<impl, pc, arg, target>>

------------------------------------------------------------------------------
(* Tables                                                                  *)

\* A slot is free when its chain is empty.  A removal leaves the hash, and the
\* slots of a new table have hash 0, as a client's node may have.
cmap_slot == [hash : Hash, chain : Seq(Node)]
NeverUsed == [hash |-> 0, chain |-> <<>>]

Slot == 1 .. CMAP_K
Buckets(t) == 0 .. t.mask

cmap_impl_create(mask, basis) ==
    [ n |-> 0, mask |-> mask, basis |-> basis,
      buckets |-> [b \in 0 .. mask |-> [i \in Slot |-> NeverUsed]] ]

\* 85% and 20% of the slots; the 32-bit fractions are a little below these.
calc_max_n(mask) == (17 * (mask + 1) * CMAP_K - 1) \div 20
calc_min_n(mask) == ((mask + 1) * CMAP_K - 1) \div 5

\* h & mask of the rehashed value and of its other_hash.
Bucket1(t, hash) == Rehashed[t.basis][hash][1] % (t.mask + 1)
Bucket2(t, hash) == Rehashed[t.basis][hash][2] % (t.mask + 1)

First(slots) == CHOOSE i \in slots : \A j \in slots : i <= j
WithHash(t, b, hash) == {i \in Slot : t.buckets[b][i].hash = hash}
EmptySlots(t, b) == {i \in Slot : t.buckets[b][i].chain = <<>>}

\* The chain of the first slot with this hash, which may be a free one.
cmap_find_in_bucket(t, b, hash) ==
    LET slots == WithHash(t, b, hash)
    IN  IF slots = {} THEN <<>> ELSE t.buckets[b][First(slots)].chain

cmap_find(t, hash) ==
    LET inFirst == cmap_find_in_bucket(t, Bucket1(t, hash), hash)
    IN  IF inFirst # <<>> THEN inFirst ELSE cmap_find_in_bucket(t, Bucket2(t, hash), hash)

NodesOf(t) == UNION {ToSet(t.buckets[b][i].chain) : b \in Buckets(t), i \in Slot}

------------------------------------------------------------------------------
(* Insertion of a chain into a table.  Each operator returns the set of    *)
(* the changed table, empty when there is no room.                         *)

OrElse(first, second) == IF first # {} THEN first ELSE second

cmap_set_bucket(t, b, i, chain, hash) ==
    [t EXCEPT !.buckets[b][i] = [hash |-> hash, chain |-> chain]]

cmap_insert_dup(t, b, chain, hash) ==
    LET slots == WithHash(t, b, hash)
    IN  IF slots = {} THEN {}
        ELSE {[t EXCEPT !.buckets[b][First(slots)].chain = chain \o @]}

cmap_insert_bucket(t, b, chain, hash) ==
    IF EmptySlots(t, b) = {} THEN {}
    ELSE {cmap_set_bucket(t, b, First(EmptySlots(t, b)), chain, hash)}

other_bucket(t, b, i) ==
    LET hash == t.buckets[b][i].hash
    IN  IF Bucket1(t, hash) = b THEN Bucket2(t, hash) ELSE Bucket1(t, hash)

\* A path is a sequence of places <<bucket, slot>>, each in the other bucket of
\* the one before.
Extensions(t, path) ==
    LET here == Last(path)
        next == other_bucket(t, here[1], here[2])
    IN  IF next = here[1] THEN {} ELSE {Append(path, <<next, i>>) : i \in Slot}

IsComplete(t, path) ==
    LET free == EmptySlots(t, Last(path)[1])
    IN  free # {} /\ Last(path)[2] = First(free)

\* The shortest complete paths.  A path with no move is a free slot, which the
\* caller has looked for.
ShortestPaths(t, starts) ==
    LET walks[moves \in 0 .. MAX_DEPTH + 1] ==
            IF moves = 0 THEN {<< <<b, i>> >> : b \in starts, i \in Slot}
            ELSE UNION {Extensions(t, path) : path \in walks[moves - 1]}
        complete(moves) == {path \in walks[moves] : IsComplete(t, path)}
        lengths == {moves \in 1 .. MAX_DEPTH + 1 : complete(moves) # {}}
    IN  IF lengths = {} THEN {} ELSE complete(First(lengths))

\* The queue starts with b1 and then b2 and takes the slots in their order.
IsBefore(p, q, b1) ==
    \/ p[1][1] = b1 /\ q[1][1] # b1
    \/ /\ p[1][1] = q[1][1]
       /\ \E k \in DOMAIN p : p[k][2] < q[k][2] /\ \A j \in 1 .. k - 1 : p[j] = q[j]
FoundFirst(paths, b1) == {p \in paths : \A q \in paths : p = q \/ IsBefore(p, q, b1)}

\* (mutation) The chains move forward, so that the first overwrites the others.
MovedForward(t, path, chain, hash) ==
    [t EXCEPT !.buckets = [b \in Buckets(t) |-> [i \in Slot |->
        IF <<b, i>> \notin ToSet(path) THEN @[b][i]
        ELSE IF <<b, i>> = path[1] THEN [hash |-> hash, chain |-> chain]
        ELSE @[path[1][1]][path[1][2]]]]]

\* Each chain moves to the next place of the path, beginning with the last one;
\* the new chain takes the first place.
MovedAlong(t, path, chain, hash) ==
    LET before(place) == path[CHOOSE k \in 1 .. Len(path) - 1 : path[k + 1] = place]
    IN  [t EXCEPT !.buckets = [b \in Buckets(t) |-> [i \in Slot |->
            IF <<b, i>> \notin ToSet(path) THEN @[b][i]
            ELSE IF <<b, i>> = path[1] THEN [hash |-> hash, chain |-> chain]
            ELSE @[before(<<b, i>>)[1]][before(<<b, i>>)[2]]]]]

cmap_insert_bfs(t, b1, b2, chain, hash) ==
    {MovedAlong(t, path, chain, hash) : path \in FoundFirst(ShortestPaths(t, {b1, b2}), b1)}

\* (mutation) The chain is not looked for in the second bucket.
TryInsertOneDup(t, chain, hash) ==
    LET b1 == Bucket1(t, hash)
        b2 == Bucket2(t, hash)
    IN  OrElse(cmap_insert_dup(t, b1, chain, hash),
        OrElse(cmap_insert_bucket(t, b1, chain, hash),
        OrElse(cmap_insert_bucket(t, b2, chain, hash),
               cmap_insert_bfs(t, b1, b2, chain, hash))))

cmap_try_insert(t, chain, hash) ==
    LET b1 == Bucket1(t, hash)
        b2 == Bucket2(t, hash)
    IN  OrElse(cmap_insert_dup(t, b1, chain, hash),
        OrElse(cmap_insert_dup(t, b2, chain, hash),
        OrElse(cmap_insert_bucket(t, b1, chain, hash),
        OrElse(cmap_insert_bucket(t, b2, chain, hash),
               cmap_insert_bfs(t, b1, b2, chain, hash)))))

\* All chains of the old table, in the order of its slots.
cmap_try_rehash(old, new) ==
    LET slot(k) == old.buckets[(k - 1) \div CMAP_K][1 + ((k - 1) % CMAP_K)]
        size == (old.mask + 1) * CMAP_K
        tables[k \in 0 .. size] ==
            IF k = 0 THEN {new}
            ELSE IF slot(k).chain = <<>> THEN tables[k - 1]
            ELSE UNION {cmap_try_insert(t, slot(k).chain, slot(k).hash) : t \in tables[k - 1]}
    IN  tables[size]

------------------------------------------------------------------------------
(* Operations                                                              *)

\* cmap_init
Init == /\ \E basis \in Basis : impl = cmap_impl_create(0, basis)
        /\ pc = "ready" /\ arg = NoNode /\ target = 0

\* cmap_insert as far as the test of the load.
CallInsert(node) ==
    /\ pc = "ready" /\ node \notin NodesOf(impl)
    /\ arg' = node
    /\ IF impl.n >= calc_max_n(impl.mask)
       THEN pc' = "rehash" /\ target' = 2 * impl.mask + 1
       ELSE pc' = "insert" /\ UNCHANGED target
    /\ UNCHANGED impl

\* The loop of cmap_insert: a table without room is replaced by one of its size.
Insert ==
    LET tables == cmap_try_insert(impl, <<arg>>, HashOf[arg])
    IN  /\ pc = "insert"
        /\ \/ \E t \in tables : /\ impl' = [t EXCEPT !.n = @ + 1]
                                /\ pc' = "ready" /\ arg' = NoNode
                                /\ UNCHANGED target
           \/ /\ tables = {}
              /\ pc' = "rehash" /\ target' = impl.mask
              /\ UNCHANGED <<impl, arg>>

\* (mutation) The basis is drawn once and kept.
RehashWithOldBasis(basis) ==
    /\ pc = "rehash"
    /\ \E t \in cmap_try_rehash(impl, cmap_impl_create(target, impl.basis)) :
            impl' = [t EXCEPT !.n = impl.n]
    /\ pc' = IF arg = NoNode THEN "ready" ELSE "insert"
    /\ UNCHANGED <<arg, target>>

\* A basis with which not all chains find room is followed by another one.
cmap_rehash(basis) ==
    /\ pc = "rehash"
    /\ \E t \in cmap_try_rehash(impl, cmap_impl_create(target, basis)) :
            impl' = [t EXCEPT !.n = impl.n]
    /\ pc' = IF arg = NoNode THEN "ready" ELSE "insert"
    /\ UNCHANGED <<arg, target>>

\* cmap_find_slot_protected: unlike cmap_find, it passes over free slots.
LiveSlots(b, hash) == WithHash(impl, b, hash) \ EmptySlots(impl, b)

\* With no replacement, as cmap_remove calls it.
cmap_replace(node) ==
    LET hash == HashOf[node]
        b == IF LiveSlots(Bucket1(impl, hash), hash) # {} THEN Bucket1(impl, hash)
             ELSE Bucket2(impl, hash)
        n == impl.n - 1
    IN  /\ pc = "ready" /\ node \in NodesOf(impl)
        /\ impl' = [impl EXCEPT !.buckets[b][First(LiveSlots(b, hash))].chain =
                                    RemoveAt(@, CHOOSE k \in DOMAIN @ : @[k] = node),
                                !.n = n]
        /\ IF n < calc_min_n(impl.mask)
           THEN pc' = "rehash" /\ target' = impl.mask \div 2
           ELSE UNCHANGED <<pc, target>>
        /\ UNCHANGED arg

Next == \/ \E node \in Node : CallInsert(node) \/ cmap_replace(node)
        \/ Insert
        \/ \E basis \in Basis : cmap_rehash(basis)

\* A call runs to its end, and random_uint32 does not for ever avoid a basis
\* with which all chains find room.
Fairness == WF_vars(Insert) /\ \A basis \in Basis : SF_vars(cmap_rehash(basis))

Spec == Init /\ [][Next]_vars /\ Fairness

------------------------------------------------------------------------------
(* Properties                                                              *)

\* The nodes with a hash are on a single chain, as the comment in
\* cmap_insert_dup claims, and it is at the first slot with the hash in one of
\* its two buckets.  Removals leave hashes behind and moves copy them, so a
\* later insertion could start a second chain at one of those.
OneChainPerHash ==
    \A b, c \in Buckets(impl) : \A i, j \in Slot :
        LET slot == impl.buckets[b][i]
        IN  slot.chain # <<>> =>
                /\ \A k \in DOMAIN slot.chain : HashOf[slot.chain[k]] = slot.hash
                /\ b \in {Bucket1(impl, slot.hash), Bucket2(impl, slot.hash)}
                /\ i = First(WithHash(impl, b, slot.hash))
                /\ impl.buckets[c][j].hash = slot.hash /\ impl.buckets[c][j].chain # <<>>
                        => <<b, i>> = <<c, j>>

\* Through all moves and rehashes a lookup finds exactly the nodes of a hash.
HM == INSTANCE HashMap WITH chains <- [h \in Hash |-> ToSet(cmap_find(impl, h))]
ImplementsHashMap == HM!Spec

\* Every call returns: a table that has no room for a chain is replaced by one
\* that has.
CallsReturn == pc # "ready" ~> pc = "ready"
==============================================================================
