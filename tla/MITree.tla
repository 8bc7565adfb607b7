-------------------------------- MODULE MITree --------------------------------
(***************************************************************************)
(* The search tree inside an OptimizedMITree: one level per field, nested, *)
(* with path compression (src/PartitionSort/red_black_tree.cpp).           *)
(*                                                                         *)
(* A tree of a level maps its keys, the intervals of that field, to the    *)
(* trees of the next level; below the last field hangs a tree that only    *)
(* lists priorities.  A tree that holds a single rule has no keys: its     *)
(* remaining intervals are its chain.  How a level finds a key is the      *)
(* subject of RedBlackTree; here a level is the set of disjoint intervals  *)
(* that IntervalSet promises.                                              *)
(*                                                                         *)
(* A tree is named by its path, the keys that lead to it: the recursive    *)
(* calls of the code pass the trees whose paths are prefixes of the keys   *)
(* of the rule.  A key of a level is the last key of a path one longer.    *)
(*                                                                         *)
(* Next to the trees runs the record of the rules they were given, with    *)
(* the bookkeeping of OptimizedMITree: every invariant compares the two.   *)
(***************************************************************************)
EXTENDS OptimizedMITree, SequencesExt

VARIABLES
    trees,         \* the search tree: from paths to the trees of all levels
    mitree         \* the OptimizedMITree around it: rules stored, books, field order

vars == <<trees, mitree>>

\* The intervals of a rule (the points of a packet) in the order of the levels.
Keys(fo, r) == [i \in Field |-> range[r][fo[i]]]
Points(fo, p) == [i \in Field |-> p[fo[i]]]

Intersect(a, b) == a[1] <= b[2] /\ b[1] <= a[2]
Holds(b, q) == b[1] <= q /\ q <= b[2]

Prefix(s, i) == SubSeq(s, 1, i)
Rest(s, i) == SubSeq(s, i + 1, Len(s))

\* The number of levels before the first at which two sequences of keys differ.
Agreement(a, b) == Max({i \in 0 .. Dim : Prefix(a, i) = Prefix(b, i)})

------------------------------------------------------------------------------
(* One tree                                                                *)

RBTreeCreate == [count |-> 0, chain |-> <<>>, priorities |-> <<>>, maxPriority |-> NoMatch]

PushPriority(t, v) ==
    [t EXCEPT !.priorities = Append(@, v), !.maxPriority = IF v > @ THEN v ELSE @]

\* (mutation) The cached maximum is not looked up again.
PopPriorityKeepingMax(t, v) ==
    [t EXCEPT !.priorities = RemoveAt(@, Min({n \in DOMAIN @ : @[n] = v}))]

PopPriority(t, v) ==
    LET rest == RemoveAt(t.priorities, Min({n \in DOMAIN t.priorities : t.priorities[n] = v}))
    IN  [t EXCEPT !.priorities = rest,
                  !.maxPriority = IF rest = <<>> THEN NoMatch
                                  ELSE IF v = @ THEN Max(ToSet(rest)) ELSE @]

\* A tree of one rule: count 0 is the only case that compresses a path.
Single(keys, v) == PushPriority([RBTreeCreate EXCEPT !.count = 1, !.chain = keys], v)

Pair == [RBTreeCreate EXCEPT !.count = 2]

\* (mutation) The rule that was compressed is dropped when its path ends.
TogetherLosingPriority(v, w) == PushPriority(Pair, v)

\* Two rules that share all their intervals.
Together(v, w) == PushPriority(PushPriority(Pair, v), w)

------------------------------------------------------------------------------
(* Trees by their paths                                                    *)

\* A key that is not found gets a new tree.
At(t, path) == IF path \in DOMAIN t THEN t[path] ELSE RBTreeCreate

Below(t, path) == {q \in DOMAIN t : Len(q) = Len(path) + 1 /\ Prefix(q, Len(path)) = path}

\* The level at which a descent ends that goes on while more than n rules are there.
Level(t, keys, n) == Min({i \in 0 .. Dim : i = Dim \/ At(t, Prefix(keys, i)).count <= n})

\* The trees of the levels above the i-th count one rule more, or less.
Recount(t, keys, i, change) ==
    [q \in DOMAIN t |-> IF \E k \in 0 .. i - 1 : q = Prefix(keys, k)
                        THEN [t[q] EXCEPT !.count = @ + change] ELSE t[q]]

------------------------------------------------------------------------------
(* Insertion                                                               *)

\* A second rule, priority v, joins the compressed one: one level per interval
\* they share, then a fork, or a list when they share all.  The tree that was
\* compressed keeps its list; no one reads it while count >= 2.
Unzip(tree, path, keys, v) ==
    LET old == path \o tree.chain
        n == Agreement(old, keys)
        TreeAt(q) ==
            CASE Len(q) > n /\ q = Prefix(keys, n + 1) -> Single(Rest(keys, n + 1), v)
              [] Len(q) > n /\ q # Prefix(keys, n + 1) -> Single(Rest(old, n + 1), tree.maxPriority)
              [] Len(q) <= n /\ Len(q) = Dim -> Together(v, tree.maxPriority)
              [] Len(q) <= n /\ Len(q) # Dim ->
                    IF q = path THEN [tree EXCEPT !.count = 2, !.chain = <<>>] ELSE Pair
    IN  [q \in {Prefix(s, k) : s \in {old, keys}, k \in Len(path) .. Min({n + 1, Dim})} |-> TreeAt(q)]

\* What becomes of the tree in which the descent ends.
Ending(tree, path, keys, v) ==
    CASE Len(path) = Dim -> [q \in {path} |-> PushPriority([tree EXCEPT !.count = @ + 1], v)]
      [] Len(path) < Dim /\ tree.count = 0 -> [q \in {path} |-> Single(Rest(keys, Len(path)), v)]
      [] Len(path) < Dim /\ tree.count = 1 -> Unzip(tree, path, keys, v)

RBTreeInsertWithPathCompression(t, keys, v) ==
    LET i == Level(t, keys, 1)
        path == Prefix(keys, i)
        above == Recount(t, keys, i, 1)
        new == Ending(At(t, path), path, keys, v)
    IN  [q \in DOMAIN t \cup DOMAIN new |-> IF q \in DOMAIN new THEN new[q] ELSE above[q]]

------------------------------------------------------------------------------
(* Deletion                                                                *)

\* The tree to which the walk from a tree of two rules leads: to the only key,
\* or to the one that is not the deleted rule's, until one rule is left.
SurvivorPath(t, path, keys) ==
    CHOOSE s \in DOMAIN t :
        /\ Len(s) > Len(path) /\ Prefix(s, Len(path)) = path
        /\ Len(s) = Dim \/ t[s].count = 1
        /\ \A k \in Len(path) + 1 .. Len(s) :
              s[k] # keys[k] \/ Below(t, Prefix(s, k - 1)) = {Prefix(s, k)}

\* What is left when one of two rules goes: the chain of the other, and its
\* priority.  The list is longer than one only when both are equal boxes.
Survivor(t, path, keys, v) ==
    LET s == SurvivorPath(t, path, keys)
        last == IF Len(t[s].priorities) = 2 THEN PopPriority(t[s], v) ELSE t[s]
    IN  Single(Rest(s, Len(path)) \o t[s].chain, last.maxPriority)

\* A tree of two rules becomes a tree of one, the trees below it are destroyed.
Compress(t, path, tree) ==
    [q \in {q \in DOMAIN t : ~(Len(q) > Len(path) /\ Prefix(q, Len(path)) = path)} |->
        IF q = path THEN tree ELSE t[q]]

\* (mutation) The node above an emptied tree stays.
KeepNode(t, path) == [t EXCEPT ![path] = RBTreeCreate]

\* if (justDelete) RBDelete(tree, x);
WithoutNode(t, path) == Restrict(t, DOMAIN t \ {path})

\* A tree of two becomes a compressed tree of one; a tree of one is destroyed,
\* and with it the node above, except that the first level is only cleared.
RBTreeDeleteWithPathCompression(t, keys, v) ==
    LET i == Level(t, keys, 2)
        path == Prefix(keys, i)
        tree == t[path]
        above == Recount(t, keys, i, -1)
    IN  CASE i = Dim /\ tree.count > 1 ->
                [above EXCEPT ![path] = PopPriority([tree EXCEPT !.count = @ - 1], v)]
          [] i < Dim /\ tree.count = 2 -> Compress(above, path, Survivor(t, path, keys, v))
          [] tree.count = 1 /\ i = 0 -> [above EXCEPT ![path] = RBTreeCreate]
          [] tree.count = 1 /\ i > 0 -> WithoutNode(above, path)

------------------------------------------------------------------------------
(* Questions                                                               *)

\* Against a chain, the first interval that differs decides.
ChainCanInsert(chain, keys) ==
    \A i \in DOMAIN keys :
        keys[i] # chain[i] /\ Prefix(keys, i - 1) = Prefix(chain, i - 1)
            => ~Intersect(keys[i], chain[i])

\* (mutation) Only the first interval of a chain is compared.
CanInsertBesideChain(t, keys) ==
    \A i \in 0 .. Dim - 1 : Prefix(keys, i) \in DOMAIN t =>
        LET tree == t[Prefix(keys, i)]
        IN  IF tree.count = 1
            THEN keys[i + 1] = tree.chain[1] \/ ~Intersect(keys[i + 1], tree.chain[1])
            ELSE \/ Prefix(keys, i + 1) \in DOMAIN t
                 \/ \A q \in Below(t, Prefix(keys, i)) : ~Intersect(q[i + 1], keys[i + 1])

\* The descent goes down while it finds the key.
RBTreeCanInsert(t, keys) ==
    \A i \in 0 .. Dim - 1 : Prefix(keys, i) \in DOMAIN t =>
        LET tree == t[Prefix(keys, i)]
        IN  IF tree.count = 1 THEN ChainCanInsert(tree.chain, Rest(keys, i))
            ELSE \/ Prefix(keys, i + 1) \in DOMAIN t
                 \/ \A q \in Below(t, Prefix(keys, i)) : ~Intersect(q[i + 1], keys[i + 1])

\* Where descents end: below the last field, or at a single rule.
Ends(t) == {s \in DOMAIN t : Len(s) = Dim \/ t[s].count = 1}

\* No rule has to be tried: the keys of a level are disjoint, and at most one
\* of them holds the point.
RBExactQuery(t, points) ==
    LET hit == {s \in Ends(t) : \A i \in DOMAIN s : Holds(s[i], points[i])}
        s == CHOOSE s \in hit : TRUE
    IN  IF hit # {} /\ \A i \in DOMAIN t[s].chain : Holds(t[s].chain[i], points[Len(s) + i])
        THEN t[s].maxPriority ELSE NoMatch

\* The rules listed at the ends, each as its intervals and its priority: a bag,
\* as their order is left open.
Listed(t) == UNION {{<<s, n>> : n \in DOMAIN t[s].priorities} : s \in Ends(t)}
ListedRule(t, e) == <<e[1] \o t[e[1]].chain, t[e[1]].priorities[e[2]]>>
RBSerializeIntoRules(t) ==
    [b \in {ListedRule(t, e) : e \in Listed(t)} |->
        Cardinality({e \in Listed(t) : ListedRule(t, e) = b})]

------------------------------------------------------------------------------
(* Operations                                                              *)

\* The first rule of a tree fixes its field order.
Init ==
    /\ trees = [path \in {<<>>} |-> RBTreeCreate]
    /\ \E r \in Rule : \E fo \in GetFieldOrderByRule(r) : mitree = NewTree(fo)

TryInsertion(r) ==
    LET keys == Keys(mitree.fieldOrder, r)
    IN  /\ r \notin mitree.stored
        /\ RBTreeCanInsert(trees, keys)
        /\ mitree' = Insertion(mitree, r)
        /\ trees' = RBTreeInsertWithPathCompression(trees, keys, priority[r])

DeleteRule(r) ==
    /\ r \in mitree.stored
    /\ mitree' = Deletion(mitree, r)
    /\ trees' = RBTreeDeleteWithPathCompression(trees, Keys(mitree.fieldOrder, r), priority[r])

Next == \E r \in Rule : TryInsertion(r) \/ DeleteRule(r)

Spec == Init /\ [][Next]_vars

------------------------------------------------------------------------------
(* Properties                                                              *)

\* The rules of S whose first keys are those of the path.
Under(fo, S, path) == {r \in S : Prefix(Keys(fo, r), Len(path)) = path}

\* The paths to spell out for the rules of S: the empty one, and one key more
\* for every path that several rules share.
Spelled(fo, S) ==
    {<<>>} \cup UNION {{Prefix(Keys(fo, r), i) :
                i \in {k \in Field : Cardinality(Under(fo, S, Prefix(Keys(fo, r), k - 1))) > 1}} :
            r \in S}

\* The list of an end and its maximum are those of the rules there.
ListFits(here, tree) ==
    /\ tree.maxPriority = Max({NoMatch} \cup {priority[r] : r \in here})
    /\ \A v \in Priorities :
          Cardinality({n \in DOMAIN tree.priorities : tree.priorities[n] = v}) =
              Cardinality({r \in here : priority[r] = v})

\* The tree that the rules of S have at the path, whatever order they came in.
Fits(fo, S, path, tree) ==
    LET here == Under(fo, S, path) IN
        /\ tree.count = Cardinality(here)
        /\ Cardinality(here) # 1 => tree.chain = <<>>
        /\ \A r \in here : Cardinality(here) = 1 => tree.chain = Rest(Keys(fo, r), Len(path))
        /\ Cardinality(here) <= 1 \/ Len(path) = Dim => ListFits(here, tree)

\* However many rules have come and gone, the tree is that of the rules it
\* stores: paths of single rules are compressed, all others spelled out, the
\* counters exact and no node is left of a deleted rule.
ShapeForgetsHistory ==
    /\ DOMAIN trees = Spelled(mitree.fieldOrder, mitree.stored)
    /\ \A path \in DOMAIN trees : Fits(mitree.fieldOrder, mitree.stored, path, trees[path])

\* The descent of RBTreeCanInsert sees one path; its verdict is the one about
\* all stored rules (the guard that PartitionSort's first fit relies on).
CanInsertIsExact ==
    \A r \in Rule :
        RBTreeCanInsert(trees, Keys(mitree.fieldOrder, r)) <=> CanInsertRule(mitree, r)

\* A query follows one path and still finds the best of all stored rules.
QueriesAreExact ==
    \A p \in Packet :
        RBExactQuery(trees, Points(mitree.fieldOrder, p)) = ClassifyInTree(mitree, p)

\* GetRules returns the stored rules, from chains and lists alike.
SerializationIsComplete ==
    LET AsListed(r) == <<Keys(mitree.fieldOrder, r), priority[r]>>
    IN  RBSerializeIntoRules(trees) =
            [b \in {AsListed(r) : r \in mitree.stored} |->
                Cardinality({r \in mitree.stored : AsListed(r) = b})]
==============================================================================
