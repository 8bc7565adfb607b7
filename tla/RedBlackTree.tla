----------------------------- MODULE RedBlackTree -----------------------------
(***************************************************************************)
(* The red-black tree of one level of a multidimensional interval tree     *)
(* (src/PartitionSort/red_black_tree.{h,cpp}), pointer by pointer: nodes,  *)
(* the sentinels nil and root, rotations, insertion and deletion with      *)
(* their repair loops, and the descents that search it.                    *)
(*                                                                         *)
(* No two nodes of a tree have the same key and a node keeps its key for   *)
(* life (deletion relinks nodes, it never copies keys), so a node is named *)
(* by its key.  The tree of the next level hangs from a node and moves     *)
(* with it; it is not represented here.                                    *)
(*                                                                         *)
(* Every loop of the code makes one step per iteration, so that the        *)
(* invariants speak about the inside of the repair loops too.              *)
(***************************************************************************)
EXTENDS Integers, FiniteSets, Sequences

CONSTANTS Box, Point, None, nil, root

ASSUME BoxAssumption ==
    /\ IsFiniteSet(Box)
    /\ \A b \in Box : b \in Nat \X Nat /\ b[1] <= b[2]
    /\ Point \subseteq Nat
    /\ None \notin Box

ASSUME SentinelAssumption == nil \notin Box /\ root \notin Box /\ nil # root

Cell == Box \cup {nil, root}

VARIABLES
    tree,          \* the fields left, right, parent and red of every cell
    pc,            \* where in the running call; "ready": no call runs
    op, arg,       \* which call it is, and its argument (a point q is <<q, q>>)
    x, y, z,       \* the locals of the same names
    oldRoot,       \* the local root of RBDeleteFixUp, read once at its start
    answer         \* what the call returns: the interval found, or that fits, or {}

vars == <<tree, pc, op, arg, x, y, z, oldRoot, answer>>
locals == <<x, y, z, oldRoot>>

CompareBox(a, b) ==
    CASE a = b                          -> 0
      [] a # b /\ a[2] < b[1]           -> -1
      [] a # b /\ a[1] > b[2]           -> 1
      [] OTHER                          -> 2      \* they overlap

CompareQuery(a, q) == IF a[2] < q[1] THEN -1 ELSE IF a[1] > q[1] THEN 1 ELSE 0

------------------------------------------------------------------------------
(* Pointers                                                                *)

Other(side) == IF side = "left" THEN "right" ELSE "left"

\* On which side of its parent a node hangs: the test x == x->parent->left.
SideOf(t, n) == IF t.left[t.parent[n]] = n THEN "left" ELSE "right"

\* c becomes a child of p.
Link(t, p, side, c) == [t EXCEPT ![side][p] = c, !.parent[c] = p]

\* LeftRotate is Rotate to the left, RightRotate its mirror image.  The parent of
\* nil stays what it is.
Rotate(t, n, side) ==
    LET up == Other(side)
        child == t[up][n]            \* it takes the place of n
        inner == t[side][child]
        t1 == IF inner = nil THEN [t EXCEPT ![up][n] = nil] ELSE Link(t, n, up, inner)
        t2 == Link(t1, t.parent[n], SideOf(t, n), child)
    IN  Link(t2, child, side, n)

Paint(t, S, color) == [t EXCEPT !.red = [c \in Cell |-> IF c \in S THEN color ELSE @[c]]]

\* The nodes at or below n.  No path is longer than there are intervals.
Below(t, n) ==
    LET nodes[depth \in 0 .. Cardinality(Box)] ==
            [m \in Cell |-> IF m = nil \/ depth = 0 THEN {}
                           ELSE {m} \cup nodes[depth - 1][t.left[m]] \cup nodes[depth - 1][t.right[m]]]
    IN  nodes[Cardinality(Box)][n]

\* The nodes that hang in the tree.
Linked == Below(tree, tree.left[root])

Init ==
    /\ tree = [ left |-> [c \in Cell |-> nil], right |-> [c \in Cell |-> nil],
                parent |-> [c \in Cell |-> nil], red |-> [c \in Cell |-> FALSE] ]
    /\ pc = "ready" /\ op = None /\ arg = None /\ answer = None
    /\ x = nil /\ y = nil /\ z = nil /\ oldRoot = nil

------------------------------------------------------------------------------
(* Calls and their descents                                                *)

\* Every call starts at the root: y = tree->root; x = tree->root->left.
\* An interval is inserted only when RBTreeCanInsert says so; the keys deleted
\* are keys of the tree (the level below has just become empty).
Begin(o, a) ==
    /\ pc = "ready"
    /\ o = "delete" => a \in Linked
    /\ pc' = "descend" /\ op' = o /\ arg' = a
    /\ y' = root /\ x' = tree.left[root]
    /\ UNCHANGED <<tree, z, oldRoot, answer>>

Compare == IF op = "find" THEN CompareQuery(x, arg) ELSE CompareBox(x, arg)

\* (mutation) An overlap is taken for "greater" and the descent goes on.
DescendPastOverlap ==
    /\ pc = "descend" /\ x # nil
    /\ Compare # 0
    /\ x' = IF Compare = -1 THEN tree.right[x] ELSE tree.left[x]
    /\ y' = x
    /\ UNCHANGED <<tree, pc, op, arg, z, oldRoot, answer>>

\* In insertion and deletion an overlapping key prints a warning and the loop
\* goes round without moving.
Descend ==
    /\ pc = "descend" /\ x # nil
    /\ Compare # 0
    /\ Compare = 2 => op # "canInsert"
    /\ x' = CASE Compare = 1 -> tree.left[x] [] Compare = -1 -> tree.right[x] [] OTHER -> x
    /\ y' = x
    /\ UNCHANGED <<tree, pc, op, arg, z, oldRoot, answer>>

Answer(v) ==
    /\ pc' = "answer" /\ answer' = v
    /\ x' = nil /\ y' = nil /\ z' = nil /\ oldRoot' = nil
    /\ UNCHANGED <<tree, op, arg>>

\* (mutation) An overlapping interval is accepted.
EndCanInsertAnyway ==
    /\ pc = "descend" /\ op = "canInsert"
    /\ IF x = nil THEN TRUE ELSE Compare \in {0, 2}
    /\ Answer({arg})

EndCanInsert ==
    /\ pc = "descend" /\ op = "canInsert"
    /\ \/ x = nil /\ Answer({arg})
       \/ x # nil /\ Compare = 0 /\ Answer({arg})
       \/ x # nil /\ Compare = 2 /\ Answer({})

EndFind ==
    /\ pc = "descend" /\ op = "find"
    /\ \/ x = nil /\ Answer({})
       \/ x # nil /\ Compare = 0 /\ Answer({x})

Finish ==
    /\ pc' = "ready" /\ op' = None /\ arg' = None /\ answer' = None
    /\ x' = nil /\ y' = nil /\ z' = nil /\ oldRoot' = nil

CollectReply ==
    /\ pc = "answer"
    /\ Finish
    /\ UNCHANGED tree

\* What fits is inserted, unless the level below refuses: TryInsertion asks all
\* levels first, then inserts into all.
ProceedToInsert ==
    /\ pc = "answer" /\ op = "canInsert" /\ answer # {}
    /\ pc' = "descend" /\ op' = "insert" /\ answer' = None
    /\ y' = root /\ x' = tree.left[root]
    /\ UNCHANGED <<tree, arg, z, oldRoot>>

------------------------------------------------------------------------------
(* Insertion                                                               *)

\* The key is there: what changes is below that node.  free(z); return true;
InsertFoundIdentical ==
    /\ pc = "descend" /\ op = "insert" /\ x # nil /\ Compare = 0
    /\ Finish
    /\ UNCHANGED tree

\* A new red leaf below y.
Attach ==
    /\ pc = "descend" /\ op = "insert" /\ x = nil
    /\ LET side == IF y = root \/ CompareBox(y, arg) = 1 THEN "left" ELSE "right"
       IN  tree' = [Link(tree, y, side, arg) EXCEPT !.left[arg] = nil, !.right[arg] = nil, !.red[arg] = TRUE]
    /\ x' = arg
    /\ pc' = "insertFixup"
    /\ UNCHANGED <<op, arg, y, z, oldRoot, answer>>

\* while (x->parent->red): the uncle is red too, so push the conflict upwards.
RecolorUncle ==
    LET p == tree.parent[x]
        g == tree.parent[p]
        uncle == tree[Other(SideOf(tree, p))][g]
    IN  /\ pc = "insertFixup" /\ tree.red[p]
        /\ tree.red[uncle]
        /\ tree' = Paint(Paint(tree, {p, uncle}, FALSE), {g}, TRUE)
        /\ x' = g
        /\ UNCHANGED <<pc, op, arg, y, z, oldRoot, answer>>

\* The uncle is black: one rotation, or two when x is an inner grandchild.
RotateAtInsertion ==
    LET p == tree.parent[x]
        g == tree.parent[p]
        side == SideOf(tree, p)
        inner == x = tree[Other(side)][p]
        t == IF inner THEN Rotate(tree, p, side) ELSE tree
        top == IF inner THEN x ELSE p
    IN  /\ pc = "insertFixup" /\ tree.red[p]
        /\ ~tree.red[tree[Other(side)][g]]
        /\ tree' = Rotate(Paint(Paint(t, {top}, FALSE), {g}, TRUE), g, Other(side))
        /\ x' = IF inner THEN p ELSE x
        /\ UNCHANGED <<pc, op, arg, y, z, oldRoot, answer>>

\* tree->root->left->red = 0;
EndInsertion ==
    /\ pc = "insertFixup" /\ ~tree.red[tree.parent[x]]
    /\ tree' = Paint(tree, {tree.left[root]}, FALSE)
    /\ Finish

------------------------------------------------------------------------------
(* Deletion                                                                *)

\* RBDelete(z): the node to splice out is z itself, unless it has two children;
\* then it is its successor, and the way to that begins with z->right.
FindNode ==
    /\ pc = "descend" /\ op = "delete" /\ x # nil /\ Compare = 0
    /\ z' = x
    /\ y' = IF tree.left[x] = nil \/ tree.right[x] = nil THEN x ELSE tree.right[x]
    /\ pc' = "splice"
    /\ UNCHANGED <<tree, op, arg, x, oldRoot, answer>>

\* The loop of TreeSuccessor.
TreeSuccessor ==
    /\ pc = "splice" /\ y # z /\ tree.left[y] # nil
    /\ y' = tree.left[y]
    /\ UNCHANGED <<tree, pc, op, arg, x, z, oldRoot, answer>>

\* (mutation) A right child of the node spliced out is lost.
SpliceTakingLeftChild ==
    /\ pc = "splice" /\ (y = z \/ tree.left[y] = nil)
    /\ LET child == tree.left[y]
           p == tree.parent[y]
       IN  /\ tree' = Link(tree, p, SideOf(tree, y), child)
           /\ x' = child
           /\ oldRoot' = tree'.left[root]
           /\ pc' = IF tree.red[y] THEN "relink" ELSE "deleteFixup"
    /\ UNCHANGED <<op, arg, y, z, answer>>

\* (mutation) The parent pointer of the sentinel is not set.
SpliceKeepingNilParent ==
    /\ pc = "splice" /\ (y = z \/ tree.left[y] = nil)
    /\ LET child == IF tree.left[y] = nil THEN tree.right[y] ELSE tree.left[y]
           p == tree.parent[y]
       IN  /\ tree' = [tree EXCEPT !.parent[child] = IF child = nil THEN @ ELSE p, ![SideOf(tree, y)][p] = child]
           /\ x' = child
           /\ oldRoot' = tree'.left[root]
           /\ pc' = IF tree.red[y] THEN "relink" ELSE "deleteFixup"
    /\ UNCHANGED <<op, arg, y, z, answer>>

\* RBDelete up to the repair: y is spliced out of the tree; x, its only child or
\* nil, takes its place.
Splice ==
    /\ pc = "splice" /\ (y = z \/ tree.left[y] = nil)
    /\ LET child == IF tree.left[y] = nil THEN tree.right[y] ELSE tree.left[y]
           p == tree.parent[y]
       IN  /\ tree' = Link(tree, p, SideOf(tree, y), child)
           /\ x' = child
           /\ oldRoot' = tree'.left[root]
           /\ pc' = IF tree.red[y] THEN "relink" ELSE "deleteFixup"
    /\ UNCHANGED <<op, arg, y, z, answer>>

\* while ((!x->red) && (root != x))
InDeleteFixup == pc = "deleteFixup" /\ ~tree.red[x] /\ oldRoot # x

\* The sibling w is red: rotate it above the parent; x gets a black sibling and
\* the iteration goes on.
RedSibling ==
    LET p == tree.parent[x]
        side == SideOf(tree, x)
        w == tree[Other(side)][p]
    IN  /\ InDeleteFixup /\ tree.red[w]
        /\ tree' = Rotate(Paint(Paint(tree, {w}, FALSE), {p}, TRUE), p, side)
        /\ UNCHANGED <<pc, op, arg, x, y, z, oldRoot, answer>>

\* Both nephews are black: the sibling pays, the parent is next.
BlackNephews ==
    LET p == tree.parent[x]
        w == tree[Other(SideOf(tree, x))][p]
    IN  /\ InDeleteFixup /\ ~tree.red[w]
        /\ ~tree.red[tree.left[w]] /\ ~tree.red[tree.right[w]]
        /\ tree' = Paint(tree, {w}, TRUE)
        /\ x' = p
        /\ UNCHANGED <<pc, op, arg, y, z, oldRoot, answer>>

\* A red nephew, the outer one after a rotation if need be, ends the repair.
RedNephew ==
    LET p == tree.parent[x]
        side == SideOf(tree, x)
        far == Other(side)
        w == tree[far][p]
        inner == tree[side][w]
        t == IF tree.red[tree[far][w]] THEN tree
             ELSE Rotate(Paint(Paint(tree, {inner}, FALSE), {w}, TRUE), w, far)
        v == t[far][p]
    IN  /\ InDeleteFixup /\ ~tree.red[w]
        /\ tree.red[tree.left[w]] \/ tree.red[tree.right[w]]
        /\ tree' = Rotate(Paint([t EXCEPT !.red[v] = t.red[p]], {p, t[far][v]}, FALSE), p, side)
        /\ x' = oldRoot
        /\ UNCHANGED <<pc, op, arg, y, z, oldRoot, answer>>

\* x->red = 0;
EndDeleteFixup ==
    /\ pc = "deleteFixup" /\ (tree.red[x] \/ oldRoot = x)
    /\ tree' = Paint(tree, {x}, FALSE)
    /\ pc' = "relink"
    /\ UNCHANGED <<op, arg, x, y, z, oldRoot, answer>>

\* What a freed node holds no longer matters.
Free(t, n) == [t EXCEPT !.left[n] = nil, !.right[n] = nil, !.parent[n] = nil, !.red[n] = FALSE]

\* (mutation) The successor keeps its own colour.
PutInPlaceKeepingColor(t, old, new) ==
    LET t1 == Link(t, t.parent[old], SideOf(t, old), new)
    IN  Link(Link(t1, new, "left", t.left[old]), new, "right", t.right[old])

\* The links and the colour of old become those of new.
PutInPlace(t, old, new) ==
    LET t1 == [t EXCEPT !.red[new] = t.red[old]]
        t2 == Link(Link(t1, new, "left", t.left[old]), new, "right", t.right[old])
    IN  Link(t2, t.parent[old], SideOf(t, old), new)

\* The rest of RBDelete: the successor takes the place of the deleted node.
Relink ==
    /\ pc = "relink"
    /\ tree' = IF y # z THEN Free(PutInPlace(tree, z, y), z) ELSE Free(tree, z)
    /\ Finish

------------------------------------------------------------------------------

Step ==
    \/ Descend \/ EndCanInsert \/ EndFind \/ CollectReply \/ ProceedToInsert
    \/ InsertFoundIdentical \/ Attach \/ RecolorUncle \/ RotateAtInsertion \/ EndInsertion
    \/ FindNode \/ TreeSuccessor \/ Splice
    \/ RedSibling \/ BlackNephews \/ RedNephew \/ EndDeleteFixup \/ Relink

Next ==
    \/ \E b \in Box : Begin("canInsert", b) \/ Begin("delete", b)
    \/ \E q \in Point : Begin("find", <<q, q>>)
    \/ Step

Spec == Init /\ [][Next]_vars

\* One thread: a call that has begun is run to its end.
FairSpec == Spec /\ WF_vars(Step)

------------------------------------------------------------------------------
(* Properties                                                              *)

\* In every state, the repair loops included, the parent pointers are those of
\* the children and the descents' comparisons agree with the links.
IsSearchTree ==
    \A n \in Linked :
        /\ tree.left[n] # nil => tree.parent[tree.left[n]] = n
        /\ tree.right[n] # nil => tree.parent[tree.right[n]] = n
        /\ tree.left[root] = n <=> tree.parent[n] = root
        /\ \A m \in Below(tree, tree.left[n]) : m[2] < n[1]
        /\ \A m \in Below(tree, tree.right[n]) : n[2] < m[1]

\* What a node n below p adds to the number of black nodes on a path.  The child
\* `extra` of its parent counts as one black node more.
Blackness(n, p, extra) ==
    (IF n # nil /\ ~tree.red[n] THEN 1 ELSE 0) + (IF n = extra /\ p = tree.parent[n] THEN 1 ELSE 0)

\* The numbers of black nodes on the paths that lead from the top to a nil, the
\* top left out.
BlackNodes(extra) ==
    LET counts[depth \in 0 .. Cardinality(Box)] ==
            [n \in Cell |-> IF n = nil \/ depth = 0 THEN {0}
                           ELSE {c + Blackness(tree.left[n], n, extra) : c \in counts[depth - 1][tree.left[n]]}
                           \cup {c + Blackness(tree.right[n], n, extra) : c \in counts[depth - 1][tree.right[n]]}]
    IN  counts[Cardinality(Box)][tree.left[root]]

RedAboveRed == {n \in Linked : tree.red[n] /\ tree.red[tree.parent[n]]}

\* Between calls the tree is a red-black tree.  Inside RBTreeInsert's loop the
\* only fault is a red x below a red parent; inside RBDeleteFixUp the only
\* faults are one black node missing at x, until x is set to the old root to end
\* the loop, and a red x next to red nodes, which the last step paints black.
\* (The tree repaired is the one without the spliced-out node.)  In all of these
\* states "nil not red" and "root not red" hold, the assertions at the ends of the
\* functions that rotate (red_black_tree.cpp:118, 550-551, 1066, 1298).
IsRedBlackTree ==
    LET top == tree.left[root]
        extra == IF pc = "deleteFixup" /\ (tree.red[x] \/ x # oldRoot) THEN x ELSE root
        faulty == CASE pc = "insertFixup" -> {x}
                    [] pc = "deleteFixup" -> {x} \cup {n \in Linked : tree.parent[n] = x}
                    [] OTHER              -> {}
    IN  /\ ~tree.red[nil] /\ ~tree.red[root]
        /\ Cardinality(BlackNodes(extra)) = 1
        /\ RedAboveRed \subseteq faulty
        /\ tree.red[top] => top = x /\ top \in faulty

\* RBDeleteFixUp finds its way by x's parent pointer, nil's own when x is nil,
\* and expects rotations to leave that alone (red_black_tree.cpp:89-97): in every
\* iteration x hangs where its parent pointer says and has a sibling.
RepairKnowsItsPlace ==
    pc = "deleteFixup" /\ ~tree.red[x] /\ x # oldRoot =>
        LET p == tree.parent[x]
        IN  /\ p \in Linked
            /\ tree[SideOf(tree, x)][p] = x
            /\ tree[Other(SideOf(tree, x))][p] # nil

\* One level is a set of disjoint intervals.  A deletion counts from the splice
\* on: z is still linked then, and its successor y for a while is not.
Deleting == pc \in {"deleteFixup", "relink"}

Intervals == INSTANCE IntervalSet WITH
    stored <- IF Deleting THEN (Linked \cup {y}) \ {z} ELSE Linked,
    reply <- IF pc = "answer" THEN [asked |-> arg, answer |-> answer] ELSE None

ImplementsIntervalSet == Intervals!Spec

\* Every call returns: the repair loops end, and no descent meets an overlap
\* that would make it go round for ever.
CallsReturn == pc = "descend" ~> pc = "ready"
==============================================================================
