-------------------------- MODULE RedBlackTreeProofs --------------------------
(***************************************************************************)
(* The red-black tree of one level, proved for any number of intervals:    *)
(* whatever sequence of calls, in every step of a call, the nodes are in   *)
(* order and hang together, the repair loops know where they are, what is  *)
(* wrong with the colours is what the loop is about to repair, and the     *)
(* tree implements the set of disjoint intervals of IntervalSet.           *)
(*                                                                         *)
(* The properties of the module speak of whole paths, which no step        *)
(* changes in a way that can be followed by itself.  The inductive         *)
(* invariant IInv therefore speaks of one node and its children at a time, *)
(* with the help of two functions that it asserts to exist: B[n], the      *)
(* nodes that hang below n, and H[n], the black nodes on every way down    *)
(* from n.  A rotation changes B and H at two nodes, and the property      *)
(* follows from the equations between a node and its children: by          *)
(* induction on the number of nodes below, B[n] is Below(tree, n), and     *)
(* BlackNodes has the one element that H gives it.                         *)
(***************************************************************************)
EXTENDS RedBlackTree, FiniteSetTheorems, NaturalsInduction, WellFoundedInduction, TLAPS

Side == {"left", "right"}

\* The links and colours of every cell.
Tree == [left : [Cell -> Cell], right : [Cell -> Cell], parent : [Cell -> Cell], red : [Cell -> BOOLEAN]]

\* An interval a lies entirely on one side of an interval b.
Beside(side, a, b) == IF side = "left" THEN a[2] < b[1] ELSE b[2] < a[1]

\* The child on a side, the parent and the colour of a cell.
Kid(t, s, n) == t[s][n]
Par(t, n) == t.parent[n]
IsRed(t, n) == t.red[n]

\* The node at the top: the root sentinel has it on its left.
Top(t) == Kid(t, "left", root)

\* A node: what is below it, the links of its children, the order, and its parent.
SearchNode(t, B, n) ==
    /\ B[n] = {n} \cup B[Kid(t, "left", n)] \cup B[Kid(t, "right", n)]
    /\ \A s \in Side : /\ Kid(t, s, n) \in B[Top(t)] \cup {nil}
                       /\ Kid(t, s, n) # nil => Par(t, Kid(t, s, n)) = n
                       /\ \A m \in B[Kid(t, s, n)] : Beside(s, m, n)
    /\ \/ n = Top(t) /\ Par(t, n) = root
       \/ n # Top(t) /\ Par(t, n) \in B[Top(t)] /\ Kid(t, SideOf(t, n), Par(t, n)) = n

\* B[n] is what hangs below n: the links, the order and the sentinels are right.
Links(t, B) ==
    /\ t \in Tree /\ B \in [Cell -> SUBSET Box] /\ B[nil] = {}
    /\ Kid(t, "left", nil) = nil /\ Kid(t, "right", nil) = nil /\ Kid(t, "right", root) = nil
    /\ Top(t) \in B[Top(t)] \cup {nil}
    /\ \A n \in B[Top(t)] : SearchNode(t, B, n)

SearchTree(t, B) == Links(t, B) /\ ~IsRed(t, nil) /\ ~IsRed(t, root)

Black(t, n) == IF IsRed(t, n) THEN 0 ELSE 1

\* H[n] blacks from n down; one too few counted through the link of p on side s
Balanced(t, S, H, p, s) ==
    /\ H \in [Cell -> Nat] /\ H[nil] = 0
    /\ \A n \in S, side \in Side :
         H[n] = Black(t, n) + H[Kid(t, side, n)] + (IF n = p /\ side = s THEN 1 ELSE 0)

RedBelowRed(t, n) == IsRed(t, n) /\ IsRed(t, Par(t, n))

\* A red-black tree: the nodes S, with H[n] blacks on every way down from n.
Sound(t, S, H) ==
    /\ Balanced(t, S, H, nil, "left")
    /\ \A n \in S : ~RedBelowRed(t, n)
    /\ ~IsRed(t, Top(t))

\* The same but for a red node x that may stand below another one.
Inserting(t, S, H, xx) ==
    /\ xx \in S /\ IsRed(t, xx)
    /\ Balanced(t, S, H, nil, "left")
    /\ \A n \in S \ {xx} : ~RedBelowRed(t, n)
    /\ IsRed(t, Top(t)) => Top(t) = xx

\* One black is missing above x, unless x is black and the node the loop takes for the root.
IsMissing(t, xx, old) == IsRed(t, xx) \/ xx # old

\* The same but for the black that is missing above x, and red nodes next to x.
Repairing(t, S, H, xx, old) ==
    /\ old \in S \cup {nil}
    /\ IF IsMissing(t, xx, old)
       THEN /\ \/ xx \in S
               \/ xx = nil /\ Par(t, nil) \in S /\ Kid(t, SideOf(t, nil), Par(t, nil)) = nil
            /\ Balanced(t, S, H, Par(t, xx), SideOf(t, xx))
       ELSE Balanced(t, S, H, nil, "left")
    /\ \A n \in S : RedBelowRed(t, n) => n = xx \/ Par(t, n) = xx
    /\ IsRed(t, Top(t)) => Top(t) = xx
    /\ IsRed(t, xx) \/ xx = old \/ Top(t) = old \/ (IsRed(t, Par(t, xx)) /\ old = Par(t, xx))

\* y can take the place of z
Replaces(S, new, old) == \A n \in S \ {old}, s \in Side : Beside(s, n, old) => Beside(s, n, new)

\* the deletion of z has taken y out: z itself, or the node that will stand where z does
Deletion(S, yy, zz) ==
    /\ zz \in Box
    /\ \/ yy = zz /\ zz \notin S
       \/ yy \in Box \ S /\ zz \in S /\ Replaces(S, yy, zz)

\* the descent has come to x from y, looking for a
OnTheWay(t, B, xx, yy, a) ==
    LET S == B[Top(t)] IN
    /\ xx \in S \cup {nil}
    /\ \/ yy = root /\ xx = Top(t)
       \/ yy \in S /\ xx = yy
       \/ yy \in S /\ \E s \in Side : xx = Kid(t, s, yy) /\ Beside(s, a, yy)
    /\ \A n \in S, s \in Side : yy \in B[Kid(t, s, n)] => Beside(s, a, n)
    /\ \A n \in S \ B[xx] : \E s \in Side : Beside(s, a, n) /\ \A m \in B[xx] : Beside(s, m, n)

\* the walk to the node to splice has come to y: z, or the way to the next one after z
AtSuccessor(t, B, yy, zz) ==
    LET S == B[Top(t)] IN
    /\ zz \in S /\ yy \in S
    /\ \A n \in S \ B[zz] : \E s \in Side : \A m \in B[zz] : Beside(s, m, n)
    /\ IF yy = zz THEN Kid(t, "left", zz) = nil \/ Kid(t, "right", zz) = nil
       ELSE /\ yy \in B[Kid(t, "right", zz)]
            /\ \A m \in B[Kid(t, "right", zz)] : m \in B[yy] \/ Beside("left", yy, m)

\* The accessors, and the two sides.
LEMMA SideFacts ==
  /\ "left" \in Side /\ "right" \in Side
  /\ Other("left") = "right" /\ Other("right") = "left"
  /\ \A s \in Side : Other(s) \in Side /\ Other(Other(s)) = s /\ Other(s) # s
  /\ \A s, r \in Side : r = s \/ r = Other(s)
BY DEF Side, Other

\* A tree read through its accessors.
LEMMA AccessFacts ==
  ASSUME NEW t \in Tree
  PROVE  /\ \A n : t.left[n] = Kid(t, "left", n) /\ t.right[n] = Kid(t, "right", n)
         /\ \A s, n : t[s][n] = Kid(t, s, n)
         /\ \A n : t.parent[n] = Par(t, n) /\ t.red[n] = IsRed(t, n)
         /\ \A s \in Side, n \in Cell : Kid(t, s, n) \in Cell /\ Par(t, n) \in Cell /\ IsRed(t, n) \in BOOLEAN
         /\ \A n : SideOf(t, n) \in Side
         /\ \A n : SideOf(t, n) = IF Kid(t, "left", Par(t, n)) = n THEN "left" ELSE "right"
BY DEF Side, Tree, Kid, Par, IsRed, SideOf

\* The sentinels and the intervals are different cells.
LEMMA CellFacts ==
  /\ nil \in Cell /\ root \in Cell /\ nil # root /\ Box \subseteq Cell
  /\ \A b \in Box : b \in Cell /\ b # nil /\ b # root /\ b[1] \in Nat /\ b[2] \in Nat /\ b[1] <= b[2]
BY SentinelAssumption, BoxAssumption DEF Cell

\* The intervals a call may bring: those of the boxes, and the points of the packets.
Span == {b \in Nat \X Nat : b[1] <= b[2]}

\* Lying on one side of each other is a strict order, and its other side its converse.
LEMMA SpanFacts ==
  /\ \A s \in Side, b \in Span : ~Beside(s, b, b)
  /\ \A s \in Side, a, b \in Span : Beside(s, a, b) <=> Beside(Other(s), b, a)
  /\ \A s \in Side, a, b \in Span : ~(Beside(s, a, b) /\ Beside(Other(s), a, b))
  /\ \A s \in Side, a, b, c \in Span : Beside(s, a, b) /\ Beside(s, b, c) => Beside(s, a, c)
<1>0. \A b \in Span : b[1] \in Nat /\ b[2] \in Nat /\ b[1] <= b[2]
  BY DEF Span
<1> USE <1>0 DEF Side, Other, Beside
<1>1. \A s \in Side, b \in Span : ~Beside(s, b, b)
  OBVIOUS
<1>2. \A s \in Side, a, b \in Span : Beside(s, a, b) <=> Beside(Other(s), b, a)
  OBVIOUS
<1>3. \A s \in Side, a, b \in Span : ~(Beside(s, a, b) /\ Beside(Other(s), a, b))
  <2> SUFFICES ASSUME NEW a \in Span, NEW b \in Span, a[2] < b[1], b[2] < a[1] PROVE FALSE
    OBVIOUS
  <2> QED BY <1>0
<1>4. \A s \in Side, a, b, c \in Span : Beside(s, a, b) /\ Beside(s, b, c) => Beside(s, a, c)
  <2> SUFFICES ASSUME NEW a \in Span, NEW b \in Span, NEW c \in Span
               PROVE  /\ a[2] < b[1] /\ b[2] < c[1] => a[2] < c[1]
                      /\ b[2] < a[1] /\ c[2] < b[1] => c[2] < a[1]
    OBVIOUS
  <2> QED BY <1>0
<1> QED BY <1>1, <1>2, <1>3, <1>4

\* Intervals are spans.
LEMMA BesideFacts ==
  /\ Box \subseteq Span
  /\ \A s \in Side, b \in Box : ~Beside(s, b, b)
  /\ \A s \in Side, a, b \in Box : Beside(s, a, b) <=> Beside(Other(s), b, a)
  /\ \A s \in Side, a, b \in Box : ~(Beside(s, a, b) /\ Beside(Other(s), a, b))
  /\ \A s \in Side, a, b, c \in Box : Beside(s, a, b) /\ Beside(s, b, c) => Beside(s, a, c)
<1>1. Box \subseteq Span
  BY BoxAssumption DEF Span
<1> QED BY <1>1, SpanFacts

\* What the links say about a node of the tree.
LEMMA NodeFacts ==
  ASSUME NEW t, NEW B, Links(t, B), NEW n \in B[Top(t)]
  PROVE  /\ n \in Box /\ n \in Cell /\ n # nil /\ n # root
         /\ Par(t, n) \in B[Top(t)] \cup {root} /\ Par(t, n) \in Cell
         /\ Par(t, n) # n /\ Par(t, n) # nil
         /\ n = Top(t) <=> Par(t, n) = root
         /\ SideOf(t, n) \in Side /\ Kid(t, SideOf(t, n), Par(t, n)) = n
         /\ Par(t, n) = root => SideOf(t, n) = "left"
         /\ \A s \in Side : B[n] = {n} \cup B[Kid(t, s, n)] \cup B[Kid(t, Other(s), n)]
         /\ n \in B[n]
<1> USE SideFacts, CellFacts
<1>1. n \in Box /\ SearchNode(t, B, n) /\ Top(t) \in Cell
  BY AccessFacts DEF Links, Top
<1>2. n \in Cell /\ n # nil /\ n # root
  BY <1>1
<1>3. Par(t, n) \in B[Top(t)] \cup {root} /\ Par(t, n) \in Cell
  BY <1>1, <1>2, AccessFacts DEF SearchNode, Links
<1>4. n = Top(t) <=> Par(t, n) = root
  BY <1>1, CellFacts DEF SearchNode, Links
<1>5. t \in Tree /\ SideOf(t, n) \in Side
  BY AccessFacts DEF Links
<1>6. ASSUME n = Top(t)
      PROVE  Kid(t, SideOf(t, n), Par(t, n)) = n
  BY <1>6, <1>4, <1>5, AccessFacts DEF Top
<1>7. ASSUME n # Top(t)
      PROVE  Kid(t, SideOf(t, n), Par(t, n)) = n
  BY <1>7, <1>1, <1>3, <1>4, <1>5 DEF SearchNode
<1>8. n \in B[n]
  BY <1>1 DEF SearchNode
<1>9. Par(t, n) # n
  <2> SUFFICES ASSUME Par(t, n) = n PROVE FALSE
    OBVIOUS
  <2>1. Kid(t, SideOf(t, n), n) = n /\ SearchNode(t, B, n)
    BY <1>6, <1>7, <1>1
  <2>2. Beside(SideOf(t, n), n, n)
    BY <2>1, <1>5, <1>8 DEF SearchNode
  <2> QED BY <2>2, <1>1, <1>5, BesideFacts
<1>10. \A s \in Side : B[n] = {n} \cup B[Kid(t, s, n)] \cup B[Kid(t, Other(s), n)]
  BY <1>1 DEF SearchNode, Side, Other
<1>11. Par(t, n) # nil
  <2>1. nil \notin B[Top(t)]
    BY <1>1 DEF Links
  <2> QED BY <2>1, <1>3
<1>12. Par(t, n) = root => SideOf(t, n) = "left"
  BY <1>5, <1>4, AccessFacts DEF Top
<1> QED BY <1>1, <1>2, <1>3, <1>4, <1>5, <1>6, <1>7, <1>8, <1>9, <1>10, <1>11, <1>12

\* What the links say about a child.
LEMMA KidFacts ==
  ASSUME NEW t, NEW B, Links(t, B), NEW n \in B[Top(t)], NEW s \in Side, NEW c, c = Kid(t, s, n)
  PROVE  /\ c \in Cell
         /\ c \in B[Top(t)] \cup {nil}
         /\ B[c] \subseteq B[n] /\ n \notin B[c] /\ B[c] \subseteq Box
         /\ \A m \in B[c] : Beside(s, m, n)
         /\ \A m \in B[c] : m \notin B[Kid(t, Other(s), n)]
         /\ c # nil => /\ c \in Box /\ Par(t, c) = n /\ c # n /\ c # Kid(t, Other(s), n)
                       /\ c # Par(t, n) /\ SideOf(t, c) = s /\ c \in B[c] /\ c # Top(t)
<1> USE SideFacts, CellFacts
<1>1. n \in Box /\ n \in Cell /\ n # nil /\ n # root
  BY NodeFacts
<1>2. t \in Tree /\ c \in Cell
  BY <1>1, AccessFacts DEF Links
<1>3. SearchNode(t, B, n)
  BY DEF Links
<1>4. c \in B[Top(t)] \cup {nil} /\ \A m \in B[c] : Beside(s, m, n)
  BY <1>3 DEF SearchNode
<1>5. B[c] \subseteq Box
  BY <1>2 DEF Links
<1>6. B[c] \subseteq B[n]
  BY NodeFacts
<1>7. n \notin B[c]
  BY <1>4, <1>1, BesideFacts
<1>8. \A m \in B[c] : m \notin B[Kid(t, Other(s), n)]
  <2>1. \A m \in B[Kid(t, Other(s), n)] : Beside(Other(s), m, n)
    BY <1>3 DEF SearchNode
  <2> QED BY <2>1, <1>4, <1>5, <1>1, BesideFacts
<1>9. ASSUME c # nil
      PROVE  /\ c \in Box /\ Par(t, c) = n /\ c # n /\ c # Kid(t, Other(s), n)
             /\ c # Par(t, n) /\ SideOf(t, c) = s /\ c \in B[c] /\ c # Top(t)
  <2>1. c \in B[Top(t)]
    BY <1>9, <1>4
  <2>2. c \in Box /\ c \in B[c] /\ c # root /\ (c = Top(t) <=> Par(t, c) = root)
    BY <2>1, NodeFacts
  <2>3. Par(t, c) = n
    BY <1>9, <1>3 DEF SearchNode
  <2>4. c # n /\ c # Kid(t, Other(s), n)
    BY <2>2, <1>7, <1>8
  <2>5. c # Par(t, n)
    <3> SUFFICES ASSUME c = Par(t, n) PROVE FALSE
      OBVIOUS
    <3>1. SideOf(t, n) \in Side /\ Kid(t, SideOf(t, n), c) = n /\ n \in B[n]
      BY NodeFacts
    <3>2. SearchNode(t, B, c)
      BY <2>1 DEF Links
    <3>3. Beside(SideOf(t, n), n, c)
      BY <3>1, <3>2 DEF SearchNode
    <3>4. B[n] \subseteq B[c]
      BY <2>1, <3>1, NodeFacts
    <3> QED BY <3>4, <3>1, <1>7
  <2>6. SideOf(t, c) = s
    <3>1. CASE s = "left"
      BY <3>1, <2>3, <1>2, AccessFacts
    <3>2. CASE s = "right"
      BY <3>2, <2>3, <2>4, <1>2, AccessFacts
    <3> QED BY <3>1, <3>2 DEF Side
  <2>7. c # Top(t)
    BY <2>2, <2>3, <1>1
  <2> QED BY <2>2, <2>3, <2>4, <2>5, <2>6, <2>7
<1> QED BY <1>2, <1>4, <1>5, <1>6, <1>7, <1>8, <1>9

------------------------------------------------------------------------------
(* Assignments to a field, and rotations                                    *)

\* u is t after p->side = c and c->parent = p.
LinkSet(t, p, side, c, u) ==
    /\ u \in Tree
    /\ \A m \in Cell : IsRed(u, m) = IsRed(t, m)
    /\ \A m \in Cell : Par(u, m) = IF m = c THEN p ELSE Par(t, m)
    /\ \A s \in Side, m \in Cell : Kid(u, s, m) = IF s = side /\ m = p THEN c ELSE Kid(t, s, m)

\* What Link does to the pointers.
LEMMA LinkAt ==
  ASSUME NEW t \in Tree, NEW p \in Cell, NEW side \in Side, NEW c \in Cell
  PROVE  LinkSet(t, p, side, c, Link(t, p, side, c))
<1>1. CASE side = "left"
  BY <1>1 DEF Link, LinkSet, Side, Tree, Kid, Par, IsRed
<1>2. CASE side = "right"
  BY <1>2 DEF Link, LinkSet, Side, Tree, Kid, Par, IsRed
<1> QED BY <1>1, <1>2 DEF Side

\* u is t after the first assignments of a rotation: n has the inner grandchild.
InnerSet(t, up, n, inner, u) ==
    /\ u \in Tree
    /\ \A m \in Cell : IsRed(u, m) = IsRed(t, m)
    /\ \A m \in Cell : Par(u, m) = IF m = inner /\ m # nil THEN n ELSE Par(t, m)
    /\ \A s \in Side, m \in Cell : Kid(u, s, m) = IF s = up /\ m = n THEN inner ELSE Kid(t, s, m)

\* What they do to the pointers.
LEMMA InnerAt ==
  ASSUME NEW t \in Tree, NEW up \in Side, NEW n \in Cell, NEW inner \in Cell,
         NEW u, u = IF inner = nil THEN [t EXCEPT ![up][n] = nil] ELSE Link(t, n, up, inner)
  PROVE  InnerSet(t, up, n, inner, u)
<1>1. CASE inner # nil
  <2>1. LinkSet(t, n, up, inner, u)
    BY <1>1, LinkAt
  <2> QED BY <2>1, <1>1 DEF LinkSet, InnerSet
<1>2. CASE inner = nil
  <2>1. u = [t EXCEPT ![up][n] = nil]
    BY <1>2
  <2>2. CASE up = "left"
    BY <1>2, <2>1, <2>2 DEF InnerSet, Side, Tree, Kid, Par, IsRed
  <2>3. CASE up = "right"
    BY <1>2, <2>1, <2>3 DEF InnerSet, Side, Tree, Kid, Par, IsRed
  <2> QED BY <2>2, <2>3 DEF Side
<1> QED BY <1>1, <1>2

\* The links after a rotation of n to the given side: c takes its place.
Turns(t, n, side, c, t2) ==
    /\ t2 \in Tree
    /\ \A m \in Cell : Par(t2, m) = IF m = n THEN c ELSE IF m = c THEN Par(t, n)
                            ELSE IF m = Kid(t, side, c) /\ m # nil THEN n ELSE Par(t, m)
    /\ \A s \in Side, m \in Cell :
         Kid(t2, s, m) = IF s = Other(side) /\ m = n THEN Kid(t, side, c)
                    ELSE IF s = side /\ m = c THEN n
                    ELSE IF s = SideOf(t, n) /\ m = Par(t, n) THEN c
                    ELSE Kid(t, s, m)

SameColors(t, u) == \A m \in Cell : IsRed(u, m) = IsRed(t, m)

\* What Rotate does to the pointers.
LEMMA RotateAt ==
  ASSUME NEW t \in Tree, NEW side \in Side, NEW n \in Cell, NEW c,
         c = Kid(t, Other(side), n), Par(t, n) # n, Par(t, n) # c, n # c, c # nil
  PROVE  Turns(t, n, side, c, Rotate(t, n, side)) /\ SameColors(t, Rotate(t, n, side))
<1> DEFINE up == Other(side)
           p == Par(t, n)
           from == SideOf(t, n)
           inner == Kid(t, side, c)
           t1 == IF inner = nil THEN [t EXCEPT ![up][n] = nil] ELSE Link(t, n, up, inner)
           t2 == Link(t1, p, from, c)
           t3 == Link(t2, c, side, n)
<1>1. Rotate(t, n, side) = t3
  BY DEF Rotate, Kid, Par
<1>2. up \in Side /\ up # side /\ p \in Cell /\ from \in Side /\ c \in Cell /\ inner \in Cell
  BY SideFacts, AccessFacts
<1> HIDE DEF up, p, from, inner
<1>10. InnerSet(t, up, n, inner, t1)
  BY <1>2, InnerAt
<1> HIDE DEF t1
<1>3. /\ t1 \in Tree
      /\ \A m \in Cell : IsRed(t1, m) = IsRed(t, m)
      /\ \A m \in Cell : Par(t1, m) = IF m = inner /\ m # nil THEN n ELSE Par(t, m)
      /\ \A s \in Side, m \in Cell : Kid(t1, s, m) = IF s = up /\ m = n THEN inner ELSE Kid(t, s, m)
  BY <1>10 DEF InnerSet
<1>4. LinkSet(t1, p, from, c, t2)
  BY <1>2, <1>3, LinkAt
<1>5. t2 \in Tree
  BY <1>4 DEF LinkSet
<1> HIDE DEF t2
<1>6. LinkSet(t2, c, side, n, t3)
  BY <1>2, <1>5, LinkAt
<1> HIDE DEF t3
<1>7. t3 \in Tree /\ \A m \in Cell : IsRed(t3, m) = IsRed(t, m)
  BY <1>3, <1>4, <1>6 DEF LinkSet
<1>8. \A m \in Cell : Par(t3, m) = IF m = n THEN c ELSE IF m = c THEN p
                            ELSE IF m = inner /\ m # nil THEN n ELSE Par(t, m)
  BY <1>3, <1>4, <1>6 DEF LinkSet
<1>9. \A s \in Side, m \in Cell :
         Kid(t3, s, m) = IF s = up /\ m = n THEN inner
                    ELSE IF s = side /\ m = c THEN n
                    ELSE IF s = from /\ m = p THEN c
                    ELSE Kid(t, s, m)
  BY <1>2, <1>3, <1>4, <1>6 DEF LinkSet, p
<1> QED BY <1>1, <1>7, <1>8, <1>9 DEF Turns, SameColors, up, p, from, inner

\* The nodes of the tree are below its top.
LEMMA TreeFacts ==
  ASSUME NEW t, NEW B, Links(t, B)
  PROVE  /\ nil \notin B[Top(t)] /\ root \notin B[Top(t)] /\ B[Top(t)] \subseteq Box /\ t \in Tree
         /\ Top(t) \in Cell /\ Top(t) # root /\ B[nil] = {}
         /\ Top(t) = nil <=> B[Top(t)] = {}
         /\ B[Top(t)] # {} => Top(t) \in B[Top(t)]
<1>1. Top(t) \in Cell /\ t \in Tree
  BY SideFacts, CellFacts, AccessFacts DEF Links, Top
<1>2. B[Top(t)] \subseteq Box
  BY <1>1 DEF Links
<1> QED BY <1>1, <1>2, CellFacts DEF Links

\* A node is in order when each of its sides is.
InOrder(t, B, n, s) ==
    /\ Kid(t, s, n) \in B[Top(t)] \cup {nil}
    /\ Kid(t, s, n) # nil => Par(t, Kid(t, s, n)) = n
    /\ \A m \in B[Kid(t, s, n)] : Beside(s, m, n)

\* A node hangs where its parent pointer says.
Hangs(t, B, n) ==
    \/ n = Top(t) /\ Par(t, n) = root
    \/ n # Top(t) /\ Par(t, n) \in B[Top(t)] /\ Kid(t, SideOf(t, n), Par(t, n)) = n

\* What makes a SearchNode, side by side.
LEMMA SearchNodeParts ==
  ASSUME NEW t, NEW B, NEW n, NEW s \in Side,
         B[n] = {n} \cup B[Kid(t, s, n)] \cup B[Kid(t, Other(s), n)],
         InOrder(t, B, n, s), InOrder(t, B, n, Other(s)), Hangs(t, B, n)
  PROVE  SearchNode(t, B, n)
<1>1. B[n] = {n} \cup B[Kid(t, "left", n)] \cup B[Kid(t, "right", n)]
  BY DEF Side, Other
<1>2. \A r \in Side : InOrder(t, B, n, r)
  BY SideFacts
<1> QED BY <1>1, <1>2 DEF SearchNode, InOrder, Hangs

\* What a SearchNode is made of.
LEMMA PartsOfSearchNode ==
  ASSUME NEW t, NEW B, Links(t, B), NEW n \in B[Top(t)]
  PROVE  /\ \A s \in Side : B[n] = {n} \cup B[Kid(t, s, n)] \cup B[Kid(t, Other(s), n)]
         /\ \A s \in Side : InOrder(t, B, n, s)
         /\ Hangs(t, B, n)
<1>1. SearchNode(t, B, n)
  BY DEF Links
<1>2. \A s \in Side : B[n] = {n} \cup B[Kid(t, s, n)] \cup B[Kid(t, Other(s), n)]
  BY NodeFacts
<1> QED BY <1>1, <1>2 DEF SearchNode, InOrder, Hangs

\* What is below each node after a rotation of n, whose child c takes its place.
Turned(t, B, n, side, c, B2) ==
    /\ B2 \in [Cell -> SUBSET Box]
    /\ B2[n] = {n} \cup B[Kid(t, side, n)] \cup B[Kid(t, side, c)]
    /\ B2[c] = B[n]
    /\ \A m \in Cell \ {n, c} : B2[m] = B[m]

\* A rotation keeps the search tree.
LEMMA RotateLinks ==
  ASSUME NEW t, NEW B, Links(t, B), NEW n \in B[Top(t)], NEW side \in Side,
         NEW c, c = Kid(t, Other(side), n), c # nil,
         NEW t2, Turns(t, n, side, c, t2),
         NEW B2, Turned(t, B, n, side, c, B2)
  PROVE  /\ Links(t2, B2)
         /\ B2[Top(t2)] = B[Top(t)]
         /\ Top(t2) = IF n = Top(t) THEN c ELSE Top(t)
<1> DEFINE S == B[Top(t)]
           up == Other(side)
           p == Par(t, n)
           from == SideOf(t, n)
           inner == Kid(t, side, c)
           outer == Kid(t, up, c)
           low == Kid(t, side, n)
<1> USE SideFacts, CellFacts
<1>1. up \in Side /\ side # up /\ Other(up) = side
  OBVIOUS
<1>2. /\ n \in Box /\ n \in Cell /\ n # nil /\ n # root /\ p \in S \cup {root} /\ p # n /\ p # nil /\ p \in Cell
      /\ n = Top(t) <=> p = root
      /\ from \in Side /\ Kid(t, from, p) = n /\ (p = root => from = "left")
      /\ n \in B[n] /\ B[n] = {n} \cup B[low] \cup B[c]
  BY NodeFacts
<1>3. /\ c \in Cell /\ c \in S /\ c \in Box /\ c # root /\ Par(t, c) = n /\ c # n /\ c # low /\ c # p
      /\ SideOf(t, c) = up /\ c # Top(t) /\ B[c] \subseteq B[n] /\ n \notin B[c] /\ c \in B[c]
      /\ \A m \in B[c] : Beside(up, m, n)
  BY <1>1, KidFacts
<1>4. /\ low \in Cell /\ low \in S \cup {nil} /\ B[low] \subseteq B[n] /\ n \notin B[low]
      /\ \A m \in B[low] : Beside(side, m, n)
      /\ low # nil => /\ low \in Box /\ Par(t, low) = n /\ low # n /\ low # p /\ SideOf(t, low) = side
                      /\ low # Top(t) /\ low \in B[low]
  BY KidFacts
<1>5. /\ inner \in Cell /\ inner \in S \cup {nil} /\ B[inner] \subseteq B[c] /\ c \notin B[inner]
      /\ \A m \in B[inner] : Beside(side, m, c)
      /\ inner # nil => /\ inner \in Box /\ Par(t, inner) = c /\ inner # c /\ inner # n /\ inner # outer /\ SideOf(t, inner) = side
                        /\ inner # Top(t) /\ inner \in B[inner]
  BY <1>3, KidFacts
<1>6. /\ outer \in Cell /\ outer \in S \cup {nil} /\ B[outer] \subseteq B[c] /\ c \notin B[outer]
      /\ \A m \in B[outer] : Beside(up, m, c)
      /\ outer # nil => /\ outer \in Box /\ Par(t, outer) = c /\ outer # c /\ outer # n /\ SideOf(t, outer) = up
                        /\ outer # Top(t) /\ outer \in B[outer]
  BY <1>1, <1>3, KidFacts
<1>7. B[c] = {c} \cup B[inner] \cup B[outer]
  BY <1>3, NodeFacts
<1>8. nil \notin S /\ root \notin S /\ S \subseteq Box /\ t \in Tree /\ Top(t) \in S
  BY TreeFacts
<1>9. /\ t2 \in Tree
      /\ \A m \in Cell : Par(t2, m) = IF m = n THEN c ELSE IF m = c THEN p
                              ELSE IF m = inner /\ m # nil THEN n ELSE Par(t, m)
      /\ \A s \in Side, m \in Cell :
           Kid(t2, s, m) = IF s = up /\ m = n THEN inner
                    ELSE IF s = side /\ m = c THEN n
                    ELSE IF s = from /\ m = p THEN c
                    ELSE Kid(t, s, m)
  BY DEF Turns
<1>10. /\ Kid(t2, side, n) = low /\ Kid(t2, up, n) = inner
       /\ Kid(t2, side, c) = n /\ Kid(t2, up, c) = outer
       /\ Kid(t2, from, p) = c
  BY <1>1, <1>2, <1>3, <1>9
<1>11. /\ B2 \in [Cell -> SUBSET Box]
       /\ B2[n] = {n} \cup B[low] \cup B[inner]
       /\ B2[c] = B[n]
       /\ \A m \in Cell \ {n, c} : B2[m] = B[m]
  BY DEF Turned
<1>12. Top(t2) = IF n = Top(t) THEN c ELSE Top(t)
  <2>1. Kid(t2, "left", root) = IF from = "left" /\ root = p THEN c ELSE Top(t)
    BY <1>2, <1>3, <1>9 DEF Top
  <2> QED BY <2>1, <1>2 DEF Top
<1>13. B2[Top(t2)] = S
  BY <1>12, <1>11, <1>3, <1>8
<1> HIDE DEF up, p, from, inner, outer, low
<1>14. /\ B2[low] = B[low] /\ B2[inner] = B[inner] /\ B2[outer] = B[outer]
  BY <1>11, <1>2, <1>3, <1>4, <1>5, <1>6
<1>15. SearchNode(t2, B2, n)
  <2>1. InOrder(t2, B2, n, side)
    <3>1. low # nil => Par(t2, low) = n
      BY <1>4, <1>5, <1>3, <1>9
    <3> QED BY <3>1, <1>4, <1>10, <1>13, <1>14 DEF InOrder
  <2>2. InOrder(t2, B2, n, up)
    <3>1. inner # nil => Par(t2, inner) = n
      BY <1>5, <1>9
    <3> QED BY <3>1, <1>3, <1>5, <1>10, <1>13, <1>14 DEF InOrder
  <2>3. Hangs(t2, B2, n)
    <3>1. Par(t2, n) = c
      BY <1>2, <1>9
    <3>2. n # Top(t2)
      BY <1>12, <1>3
    <3>3. SideOf(t2, n) = side
      <4>1. CASE side = "left"
        BY <4>1, <3>1, <1>10, <1>9, AccessFacts
      <4>2. CASE side = "right"
        <5>1. Kid(t2, "left", c) = outer /\ outer # n
          BY <4>2, <1>10, <1>6, <1>2 DEF up, Other
        <5> QED BY <4>2, <5>1, <3>1, <1>9, AccessFacts
      <4> QED BY <4>1, <4>2 DEF Side
    <3> QED BY <3>1, <3>2, <3>3, <1>3, <1>10, <1>13 DEF Hangs
  <2>4. B2[n] = {n} \cup B2[Kid(t2, side, n)] \cup B2[Kid(t2, Other(side), n)]
    BY <1>10, <1>11, <1>14 DEF up
  <2> QED BY <2>1, <2>2, <2>3, <2>4, SearchNodeParts DEF up
<1>16. SearchNode(t2, B2, c)
  <2>1. InOrder(t2, B2, c, side)
    <3>1. Par(t2, n) = c
      BY <1>2, <1>9
    <3>2. \A m \in B2[n] : Beside(side, m, c)
      <4>1. Beside(side, n, c)
        BY <1>1, <1>2, <1>3, BesideFacts
      <4>2. \A m \in B[low] : m \in Box /\ Beside(side, m, n)
        BY <1>4, <1>2, <1>11
      <4>3. \A m \in B[low] : Beside(side, m, c)
        BY <4>1, <4>2, <1>2, <1>3, BesideFacts
      <4> QED BY <4>1, <4>3, <1>5, <1>11
    <3> QED BY <3>1, <3>2, <1>10, <1>13 DEF InOrder
  <2>2. InOrder(t2, B2, c, up)
    <3>1. outer # nil => Par(t2, outer) = c
      BY <1>5, <1>6, <1>9
    <3> QED BY <3>1, <1>6, <1>10, <1>13, <1>14 DEF InOrder
  <2>3. Hangs(t2, B2, c)
    <3>1. Par(t2, c) = p
      BY <1>3, <1>9
    <3>2. CASE n = Top(t)
      BY <3>1, <3>2, <1>2, <1>12 DEF Hangs
    <3>3. CASE n # Top(t)
      <4>1. c # Top(t2) /\ p \in S
        BY <3>3, <1>2, <1>3, <1>12
      <4>2. SideOf(t2, c) = from
        <5>1. CASE from = "left"
          BY <5>1, <3>1, <1>10, <1>9, AccessFacts
        <5>2. CASE from = "right"
          <6>1. Kid(t2, "left", p) = Kid(t, "left", p)
            BY <5>2, <1>2, <1>3, <1>9
          <6>2. Kid(t, "left", p) # c
            <7>1. InOrder(t, B, p, "left")
              BY <4>1, PartsOfSearchNode
            <7> QED BY <7>1, <1>3, <1>2 DEF InOrder
          <6> QED BY <5>2, <6>1, <6>2, <3>1, <1>9, AccessFacts
        <5> QED BY <5>1, <5>2, <1>2 DEF Side
      <4> QED BY <3>1, <4>1, <4>2, <1>10, <1>13 DEF Hangs
    <3> QED BY <3>2, <3>3
  <2>4. B2[c] = {c} \cup B2[Kid(t2, side, c)] \cup B2[Kid(t2, Other(side), c)]
    BY <1>2, <1>7, <1>10, <1>11, <1>14 DEF up
  <2> QED BY <2>1, <2>2, <2>3, <2>4, SearchNodeParts DEF up
<1>17. ASSUME NEW m \in S \ {n, c}
       PROVE  SearchNode(t2, B2, m)
  <2>1. m \in Cell /\ m \in Box /\ m # nil /\ m # root
    BY <1>8
  <2>2. ASSUME NEW s \in Side
        PROVE  InOrder(t2, B2, m, s) /\ B2[Kid(t2, s, m)] = B[Kid(t, s, m)]
    <3> DEFINE k == Kid(t, s, m)
    <3>1. k \in Cell /\ InOrder(t, B, m, s)
      BY <2>1, <1>8, AccessFacts, PartsOfSearchNode
    <3>2. k # nil => Par(t, k) = m /\ SideOf(t, k) = s
      BY KidFacts
    <3>3. k # c
      BY <3>2, <1>3
    <3>4. CASE k = n
      <4>1. p = m /\ from = s
        BY <3>2, <3>4, <1>2 DEF p, from
      <4>2. Kid(t2, s, m) = c
        BY <4>1, <1>10
      <4>3. Par(t2, c) = m
        BY <4>1, <1>3, <1>9
      <4>4. B2[c] = B[k]
        BY <3>4, <1>11
      <4> QED BY <4>2, <4>3, <4>4, <3>1, <1>3, <1>13 DEF InOrder
    <3>5. CASE k # n
      <4>1. Kid(t2, s, m) = k
        <5>1. ~(s = from /\ m = p)
          BY <3>5, <1>2
        <5> QED BY <5>1, <2>1, <1>9
      <4>2. B2[k] = B[k]
        BY <3>1, <3>3, <3>5, <1>11
      <4>3. k # nil => Par(t2, k) = m
        BY <3>1, <3>2, <3>3, <3>5, <1>5, <1>9
      <4> QED BY <4>1, <4>2, <4>3, <3>1, <1>13 DEF InOrder
    <3> QED BY <3>4, <3>5
  <2>3. B2[m] = {m} \cup B2[Kid(t2, side, m)] \cup B2[Kid(t2, Other(side), m)]
    BY <2>1, <2>2, <1>11, PartsOfSearchNode
  <2>4. Hangs(t2, B2, m)
    <3> DEFINE q == Par(t, m)
               f == SideOf(t, m)
    <3>1. /\ q \in S \cup {root} /\ q \in Cell /\ q # m /\ f \in Side /\ Kid(t, f, q) = m /\ (m = Top(t) <=> q = root)
      BY NodeFacts
    <3>2. CASE m = inner
      <4>1. Par(t2, m) = n
        BY <2>1, <3>2, <1>5, <1>9
      <4>2. m # Top(t2)
        BY <1>12, <3>2, <1>5, <2>1
      <4>3. SideOf(t2, m) = up
        <5>1. CASE side = "left"
          <6>1. Kid(t2, "left", n) = low /\ low # m
            <7>1. m \in B[c] /\ Beside(up, m, n)
              BY <3>2, <1>5, <1>3, <2>1
            <7>2. m \notin B[low]
              BY <7>1, <1>1, <1>2, <1>4, <2>1, BesideFacts
            <7> QED BY <5>1, <7>2, <1>4, <1>10, <2>1
          <6> QED BY <6>1, <5>1, <4>1, <1>9, AccessFacts DEF up, Other
        <5>2. CASE side = "right"
          BY <5>2, <4>1, <3>2, <1>10, <1>9, AccessFacts DEF up, Other
        <5> QED BY <5>1, <5>2 DEF Side
      <4> QED BY <4>1, <4>2, <4>3, <3>2, <1>10, <1>13 DEF Hangs
    <3>3. CASE m # inner
      <4>1. Par(t2, m) = q
        BY <3>3, <2>1, <1>9
      <4>2. CASE m = Top(t)
        BY <4>1, <4>2, <3>1, <1>12 DEF Hangs
      <4>3. CASE m # Top(t)
        <5>1. m # Top(t2) /\ q \in S
          BY <4>3, <3>1, <1>12
        <5>2. Kid(t2, f, q) = m
          <6>1. ~(f = up /\ q = n) /\ ~(f = side /\ q = c) /\ ~(f = from /\ q = p)
            BY <3>1, <3>3, <1>2 DEF inner, up
          <6> QED BY <6>1, <3>1, <1>9
        <5>3. SideOf(t2, m) = f
          <6>1. CASE f = "left"
            BY <6>1, <5>2, <4>1, <1>9, AccessFacts
          <6>2. CASE f = "right"
            <7>1. Kid(t2, "left", q) # m
              <8> SUFFICES ASSUME Kid(t2, "left", q) = m PROVE FALSE
                OBVIOUS
              <8>1. Kid(t, "left", q) = m
                BY <3>3, <3>1, <1>9
              <8> QED BY <8>1, <6>2, <1>8, AccessFacts
            <7> QED BY <6>2, <7>1, <4>1, <1>9, AccessFacts
          <6> QED BY <6>1, <6>2, <3>1 DEF Side
        <5> QED BY <4>1, <5>1, <5>2, <5>3, <1>13 DEF Hangs
      <4> QED BY <4>2, <4>3
    <3> QED BY <3>2, <3>3
  <2> QED BY <2>2, <2>3, <2>4, SearchNodeParts
<1>18. /\ B2[nil] = {} /\ Kid(t2, "left", nil) = nil /\ Kid(t2, "right", nil) = nil /\ Kid(t2, "right", root) = nil
  <2>1. /\ B[nil] = {} /\ Kid(t, "left", nil) = nil /\ Kid(t, "right", nil) = nil /\ Kid(t, "right", root) = nil
    BY DEF Links
  <2> QED BY <2>1, <1>2, <1>3, <1>9, <1>11
<1> QED BY <1>9, <1>11, <1>12, <1>13, <1>15, <1>16, <1>17, <1>18, <1>3, <1>8 DEF Links

------------------------------------------------------------------------------
(* Induction over the nodes, from the leaves up                            *)

\* Every non-empty set of naturals has a least element.
LEMMA LeastNatural ==
  \A T \in SUBSET Nat : T # {} => \E t \in T : \A j \in T : ~(j < t)
<1>1. IsWellFoundedOn(OpToRel(<, Nat), Nat)
  BY NatLessThanWellFounded
<1>2. SUFFICES ASSUME NEW T \in SUBSET Nat, T # {}
               PROVE  \E t \in T : \A j \in T : ~(j < t)
  OBVIOUS
<1>3. PICK t \in T : \A j \in T : ~ (<<j, t>> \in OpToRel(<, Nat))
  BY <1>1, <1>2, WFMin
<1> QED BY <1>3 DEF OpToRel

\* A set of intervals is finite.
LEMMA BoxSets ==
  ASSUME NEW C \in SUBSET Box
  PROVE  /\ IsFiniteSet(C) /\ Cardinality(C) \in Nat /\ Cardinality(C) <= Cardinality(Box)
         /\ Cardinality(C) = 0 <=> C = {}
         /\ \A D \in SUBSET C, c \in C : c \notin D => Cardinality(D) \in Nat /\ Cardinality(D) < Cardinality(C)
<1>1. IsFiniteSet(C) /\ Cardinality(C) <= Cardinality(Box)
  BY BoxAssumption, FS_Subset
<1>2. Cardinality(C) \in Nat /\ (Cardinality(C) = 0 <=> C = {})
  BY <1>1, FS_CardinalityType, FS_EmptySet
<1>3. ASSUME NEW D \in SUBSET C, NEW c \in C, c \notin D
      PROVE  Cardinality(D) \in Nat /\ Cardinality(D) < Cardinality(C)
  <2>1. IsFiniteSet(D) /\ Cardinality(D) <= Cardinality(C) /\ Cardinality(D) # Cardinality(C)
    BY <1>1, <1>3, FS_Subset
  <2>2. Cardinality(D) \in Nat
    BY <2>1, FS_CardinalityType
  <2> QED BY <1>2, <2>1, <2>2
<1> QED BY <1>1, <1>2, <1>3

\* A set of cells that has every node both of whose subtrees it has, has them all.
LEMMA TreeInduction ==
  ASSUME NEW t, NEW B, Links(t, B), NEW P,
         \A k \in B[Top(t)] : (\A s \in Side : Kid(t, s, k) \in P \cup {nil}) => k \in P
  PROVE  B[Top(t)] \subseteq P
<1> DEFINE S == B[Top(t)]
           bad == {k \in S : k \notin P}
           sizes == {Cardinality(B[k]) : k \in bad}
<1>1. SUFFICES ASSUME bad # {} PROVE FALSE
  OBVIOUS
<1>2. \A k \in S : k \in Cell /\ B[k] \in SUBSET Box
  BY TreeFacts, CellFacts DEF Links
<1>3. sizes \in SUBSET Nat /\ sizes # {}
  BY <1>1, <1>2, BoxSets
<1>4. PICK least \in sizes : \A j \in sizes : ~(j < least)
  BY <1>3, LeastNatural
<1>5. PICK k \in bad : least = Cardinality(B[k])
  BY <1>4
<1>6. ASSUME NEW s \in Side PROVE Kid(t, s, k) \in P \cup {nil}
  <2> DEFINE c == Kid(t, s, k)
  <2>1. SUFFICES ASSUME c # nil, c \notin P PROVE FALSE
    OBVIOUS
  <2>2. c \in S /\ B[c] \subseteq B[k] /\ k \notin B[c] /\ k \in B[k]
    BY <1>5, <2>1, KidFacts, NodeFacts
  <2>3. Cardinality(B[c]) \in sizes
    BY <2>1, <2>2
  <2>4. Cardinality(B[c]) < Cardinality(B[k])
    BY <1>2, <1>5, <2>2, BoxSets
  <2> QED BY <2>3, <2>4, <1>4, <1>5
<1> QED BY <1>5, <1>6

\* What is below a node includes what is below each of these nodes, and, but for the
\* node itself, their parents; the other nodes lie on one side of all of it.
LEMMA BelowFacts ==
  ASSUME NEW t, NEW B, Links(t, B), NEW n \in B[Top(t)] \cup {nil}
  PROVE  /\ B[n] \subseteq B[Top(t)]
         /\ \A m \in B[n] : B[m] \subseteq B[n]
         /\ \A m \in B[n] \ {n} : Par(t, m) \in B[n]
<1> DEFINE S == B[Top(t)]
           P == {k \in S : /\ B[k] \subseteq S
                           /\ \A m \in B[k] : B[m] \subseteq B[k]
                           /\ \A m \in B[k] \ {k} : Par(t, m) \in B[k]}
<1>1. ASSUME NEW k \in S, \A s \in Side : Kid(t, s, k) \in P \cup {nil}
      PROVE  k \in P
  <2> DEFINE l == Kid(t, "left", k)
             r == Kid(t, "right", k)
  <2>1. B[k] = {k} \cup B[l] \cup B[r] /\ k \in B[k]
    BY NodeFacts, SideFacts
  <2>2. l \in P \cup {nil} /\ r \in P \cup {nil}
    BY <1>1, SideFacts
  <2>3. (l # nil => Par(t, l) = k) /\ (r # nil => Par(t, r) = k)
    BY KidFacts, SideFacts
  <2>4. B[nil] = {}
    BY TreeFacts
  <2>5. B[k] \subseteq S
    BY <2>1, <2>2, <2>4
  <2>6. \A m \in B[k] : B[m] \subseteq B[k]
    BY <2>1, <2>2, <2>4
  <2>7. \A m \in B[k] \ {k} : Par(t, m) \in B[k]
    BY <2>1, <2>2, <2>3, <2>4
  <2> QED BY <2>5, <2>6, <2>7
<1>2. S \subseteq P
  <2> HIDE DEF P
  <2> QED BY <1>1, TreeInduction
<1>3. B[nil] = {}
  BY TreeFacts
<1> QED BY <1>2, <1>3

------------------------------------------------------------------------------
(* Colours                                                                 *)

SameLinks(t, u) ==
    /\ u \in Tree
    /\ \A m \in Cell : Par(u, m) = Par(t, m)
    /\ \A s \in Side, m \in Cell : Kid(u, s, m) = Kid(t, s, m)

Painted(t, C, color, u) ==
    /\ SameLinks(t, u)
    /\ \A m \in Cell : IsRed(u, m) = IF m \in C THEN color ELSE IsRed(t, m)

\* What Paint does.
LEMMA PaintAt ==
  ASSUME NEW t \in Tree, NEW C, NEW color \in BOOLEAN
  PROVE  Painted(t, C, color, Paint(t, C, color))
BY DEF Paint, Painted, SameLinks, Side, Tree, Kid, Par, IsRed

\* Where a node hangs depends on the links alone.
LEMMA SameLinksFacts ==
  ASSUME NEW t \in Tree, NEW u, SameLinks(t, u)
  PROVE  /\ u \in Tree /\ Top(u) = Top(t)
         /\ \A n \in Cell : SideOf(u, n) = SideOf(t, n)
         /\ \A B : Links(t, B) => Links(u, B)
<1> USE SideFacts, CellFacts
<1>1. u \in Tree /\ Top(u) = Top(t)
  BY DEF SameLinks, Top
<1>2. ASSUME NEW n \in Cell PROVE SideOf(u, n) = SideOf(t, n)
  <2>1. /\ SideOf(t, n) = IF Kid(t, "left", Par(t, n)) = n THEN "left" ELSE "right"
        /\ Par(t, n) \in Cell
    BY AccessFacts
  <2>2. SideOf(u, n) = IF Kid(u, "left", Par(u, n)) = n THEN "left" ELSE "right"
    BY <1>1, AccessFacts
  <2> QED BY <2>1, <2>2 DEF SameLinks
<1>3. ASSUME NEW B, Links(t, B) PROVE Links(u, B)
  <2>1. ASSUME NEW n \in B[Top(t)] PROVE SearchNode(u, B, n)
    <3>1. n \in Cell
      BY <1>3, NodeFacts
    <3>2. SearchNode(t, B, n)
      BY <1>3 DEF Links
    <3>3. \A s \in Side : Kid(u, s, n) = Kid(t, s, n) /\ Kid(t, s, n) \in Cell
      BY <3>1, AccessFacts DEF SameLinks
    <3>4. \A s \in Side : Par(u, Kid(t, s, n)) = Par(t, Kid(t, s, n))
      BY <3>3 DEF SameLinks
    <3>5. Par(u, n) = Par(t, n) /\ Par(t, n) \in Cell /\ SideOf(u, n) = SideOf(t, n) /\ SideOf(t, n) \in Side
      BY <3>1, <1>2, AccessFacts DEF SameLinks
    <3>6. Kid(u, SideOf(u, n), Par(u, n)) = Kid(t, SideOf(t, n), Par(t, n))
      BY <3>5 DEF SameLinks
    <3>7. /\ B[n] = {n} \cup B[Kid(t, "left", n)] \cup B[Kid(t, "right", n)]
          /\ \A s \in Side : /\ Kid(t, s, n) \in B[Top(t)] \cup {nil}
                             /\ Kid(t, s, n) # nil => Par(t, Kid(t, s, n)) = n
                             /\ \A m \in B[Kid(t, s, n)] : Beside(s, m, n)
          /\ \/ n = Top(t) /\ Par(t, n) = root
             \/ n # Top(t) /\ Par(t, n) \in B[Top(t)] /\ Kid(t, SideOf(t, n), Par(t, n)) = n
      BY <3>2 DEF SearchNode
    <3>8. B[n] = {n} \cup B[Kid(u, "left", n)] \cup B[Kid(u, "right", n)]
      BY <3>3, <3>7
    <3>9. \A s \in Side : /\ Kid(u, s, n) \in B[Top(u)] \cup {nil}
                          /\ Kid(u, s, n) # nil => Par(u, Kid(u, s, n)) = n
                          /\ \A m \in B[Kid(u, s, n)] : Beside(s, m, n)
      BY <3>3, <3>4, <3>7, <1>1
    <3>10. \/ n = Top(u) /\ Par(u, n) = root
           \/ n # Top(u) /\ Par(u, n) \in B[Top(u)] /\ Kid(u, SideOf(u, n), Par(u, n)) = n
      BY <3>5, <3>6, <3>7, <1>1
    <3> QED BY <3>8, <3>9, <3>10 DEF SearchNode
  <2>2. Kid(u, "left", nil) = nil /\ Kid(u, "right", nil) = nil /\ Kid(u, "right", root) = nil
    BY <1>3 DEF Links, SameLinks
  <2> QED BY <1>1, <1>3, <2>1, <2>2 DEF Links
<1> QED BY <1>1, <1>2, <1>3

------------------------------------------------------------------------------
(* Rotations and heights                                                   *)

\* What a rotation does to the nodes, S, of a tree.
TurnedTree(t, S, n, side, c, t2) ==
    /\ t2 \in Tree
    /\ \E B2 : Links(t2, B2) /\ B2[Top(t2)] = S
    /\ Top(t2) = IF n = Top(t) THEN c ELSE Top(t)
    /\ Kid(t2, side, n) = Kid(t, side, n) /\ Kid(t2, Other(side), n) = Kid(t, side, c)
    /\ Kid(t2, side, c) = n /\ Kid(t2, Other(side), c) = Kid(t, Other(side), c)
    /\ Par(t2, n) = c /\ Par(t2, c) = Par(t, n) /\ SideOf(t2, n) = side
    /\ \A m \in Cell \ {n, c} : Par(t2, m) = IF m = Kid(t, side, c) /\ m # nil THEN n ELSE Par(t, m)
    /\ \A m \in S \ {n, c}, s \in Side :
         \/ Kid(t, s, m) = n /\ Kid(t2, s, m) = c
         \/ Kid(t, s, m) \notin {n, c} /\ Kid(t2, s, m) = Kid(t, s, m)
    /\ \A m \in Cell \ {n, c}, s \in Side : Kid(t, s, m) # n => Kid(t2, s, m) = Kid(t, s, m)

\* A painted tree is rotated like the original.
LEMMA Rotation ==
  ASSUME NEW t, NEW B, Links(t, B), NEW n \in B[Top(t)], NEW side \in Side,
         NEW c, c = Kid(t, Other(side), n), c # nil,
         NEW u, SameLinks(t, u)
  PROVE  /\ TurnedTree(t, B[Top(t)], n, side, c, Rotate(u, n, side))
         /\ SameColors(u, Rotate(u, n, side))
<1> DEFINE S == B[Top(t)]
           t2 == Rotate(u, n, side)
<1> USE SideFacts, CellFacts
<1>1. t \in Tree /\ u \in Tree
  BY TreeFacts DEF SameLinks
<1>2. /\ n \in Box /\ n \in Cell /\ n # nil /\ n # root /\ Par(t, n) # n /\ Par(t, n) \in Cell /\ Par(t, n) \in S \cup {root}
      /\ SideOf(t, n) \in Side /\ Kid(t, SideOf(t, n), Par(t, n)) = n
  BY NodeFacts
<1>3. /\ c \in Cell /\ c \in S /\ c # n /\ c # Par(t, n) /\ Par(t, c) = n
      /\ c = Kid(u, Other(side), n)
  BY <1>2, KidFacts DEF SameLinks
<1>4. Par(u, n) = Par(t, n) /\ SideOf(u, n) = SideOf(t, n) /\ Kid(u, side, c) = Kid(t, side, c)
  BY <1>1, <1>2, <1>3, SameLinksFacts DEF SameLinks
<1>5. Turns(u, n, side, c, t2) /\ SameColors(u, t2)
  BY <1>1, <1>2, <1>3, <1>4, RotateAt
<1>6. Turns(t, n, side, c, t2)
  BY <1>4, <1>5 DEF Turns, SameLinks
<1> HIDE DEF t2
<1>7. PICK B2 : Turned(t, B, n, side, c, B2)
  <2> DEFINE B2 == [m \in Cell |-> IF m = n THEN {n} \cup B[Kid(t, side, n)] \cup B[Kid(t, side, c)]
                                   ELSE IF m = c THEN B[n] ELSE B[m]]
  <2>1. B \in [Cell -> SUBSET Box] /\ Kid(t, side, n) \in Cell /\ Kid(t, side, c) \in Cell
    BY <1>1, <1>2, <1>3, AccessFacts DEF Links
  <2>2. B2 \in [Cell -> SUBSET Box]
    BY <2>1, <1>2
  <2>3. Turned(t, B, n, side, c, B2)
    BY <2>2, <1>2, <1>3 DEF Turned
  <2> QED BY <2>3
<1>8. Links(t2, B2) /\ B2[Top(t2)] = S /\ Top(t2) = IF n = Top(t) THEN c ELSE Top(t)
  BY <1>6, <1>7, RotateLinks
<1>9. /\ t2 \in Tree
      /\ \A m \in Cell : Par(t2, m) = IF m = n THEN c ELSE IF m = c THEN Par(t, n)
                              ELSE IF m = Kid(t, side, c) /\ m # nil THEN n ELSE Par(t, m)
      /\ \A s \in Side, m \in Cell :
           Kid(t2, s, m) = IF s = Other(side) /\ m = n THEN Kid(t, side, c)
                    ELSE IF s = side /\ m = c THEN n
                    ELSE IF s = SideOf(t, n) /\ m = Par(t, n) THEN c
                    ELSE Kid(t, s, m)
  BY <1>6 DEF Turns
<1>10. /\ Kid(t2, side, n) = Kid(t, side, n) /\ Kid(t2, Other(side), n) = Kid(t, side, c)
       /\ Kid(t2, side, c) = n /\ Kid(t2, Other(side), c) = Kid(t, Other(side), c)
  BY <1>2, <1>3, <1>9
<1>11. SideOf(t2, n) = side
  <2>1. c \in B2[Top(t2)] /\ n = Kid(t2, side, c)
    BY <1>3, <1>8, <1>10
  <2>2. Links(t2, B2) /\ n # nil
    BY <1>2, <1>8
  <2> HIDE DEF S
  <2> QED BY ONLY <2>1, <2>2, side \in Side, KidFacts
<1>12. \A m \in Cell \ {n, c}, s \in Side : Kid(t, s, m) # n => Kid(t2, s, m) = Kid(t, s, m)
  BY <1>2, <1>9
<1>13. ASSUME NEW m \in S \ {n, c}, NEW s \in Side
       PROVE  \/ Kid(t, s, m) = n /\ Kid(t2, s, m) = c
              \/ Kid(t, s, m) \notin {n, c} /\ Kid(t2, s, m) = Kid(t, s, m)
  <2>1. m \in Cell
    BY NodeFacts
  <2>2. Kid(t, s, m) # nil => Par(t, Kid(t, s, m)) = m /\ SideOf(t, Kid(t, s, m)) = s
    BY KidFacts
  <2> QED BY <2>1, <2>2, <1>2, <1>3, <1>9, <1>12
<1>14. \A m \in Cell \ {n, c} : Par(t2, m) = IF m = Kid(t, side, c) /\ m # nil THEN n ELSE Par(t, m)
  BY <1>9
<1>15. Par(t2, n) = c /\ Par(t2, c) = Par(t, n)
  BY <1>2, <1>3, <1>9
<1>16. TurnedTree(t, S, n, side, c, t2)
  BY <1>8, <1>9, <1>10, <1>11, <1>12, <1>13, <1>14, <1>15 DEF TurnedTree
<1> QED BY <1>16, <1>5 DEF t2

\* The two nodes of a rotation exchange their heights.
Swapped(H, n, c, H2) ==
    /\ H2 \in [Cell -> Nat]
    /\ H2[n] = H[c] /\ H2[c] = H[n]
    /\ \A m \in Cell \ {n, c} : H2[m] = H[m]

\* There are such heights.
LEMMA SwapExists ==
  ASSUME NEW H \in [Cell -> Nat], NEW n \in Cell, NEW c \in Cell
  PROVE  \E H2 : Swapped(H, n, c, H2)
<1>1. Swapped(H, n, c, [m \in Cell |-> IF m = n THEN H[c] ELSE IF m = c THEN H[n] ELSE H[m]])
  BY DEF Swapped
<1> QED BY <1>1

------------------------------------------------------------------------------
(* Insertion                                                               *)

\* t is a search tree of the nodes S.
TreeOf(t, S) == \E B : SearchTree(t, B) /\ B[Top(t)] = S

\* All paths from a node down have as many black nodes.
Even(t, S, H) ==
    /\ H \in [Cell -> Nat] /\ H[nil] = 0
    /\ \A n \in S, s \in Side : H[n] = Black(t, n) + H[Kid(t, s, n)]

\* What holds of any node of a tree, in terms of its nodes alone.
LEMMA TreeOfFacts ==
  ASSUME NEW t, NEW S, TreeOf(t, S)
  PROVE  /\ t \in Tree /\ S \subseteq Box /\ nil \notin S /\ root \notin S /\ Top(t) \in S \cup {nil} /\ S \subseteq Cell
         /\ S # {} => Top(t) \in S
         /\ ~IsRed(t, nil) /\ ~IsRed(t, root)
         /\ \A n \in S : /\ n \in Cell /\ n # nil /\ n # root
                         /\ Par(t, n) \in S \cup {root} /\ Par(t, n) \in Cell /\ Par(t, n) # n /\ Par(t, n) # nil
                         /\ n = Top(t) <=> Par(t, n) = root
                         /\ SideOf(t, n) \in Side /\ Kid(t, SideOf(t, n), Par(t, n)) = n
                         /\ Par(t, n) = root => SideOf(t, n) = "left"
         /\ \A n \in S, s \in Side : /\ Kid(t, s, n) \in S \cup {nil} /\ Kid(t, s, n) \in Cell
                                     /\ Kid(t, s, n) # n
                                     /\ Kid(t, s, n) # nil =>
                                          /\ Par(t, Kid(t, s, n)) = n
                                          /\ Kid(t, s, n) # Kid(t, Other(s), n)
                                          /\ Kid(t, s, n) # Par(t, n)
                                          /\ SideOf(t, Kid(t, s, n)) = s
                                          /\ Kid(t, s, n) # Top(t)
<1>1. PICK B : SearchTree(t, B) /\ B[Top(t)] = S
  BY DEF TreeOf
<1>2. Links(t, B) /\ ~IsRed(t, nil) /\ ~IsRed(t, root)
  BY <1>1 DEF SearchTree
<1>3. /\ t \in Tree /\ S \subseteq Box /\ nil \notin S /\ root \notin S /\ Top(t) \in S \cup {nil} /\ S \subseteq Cell
      /\ S # {} => Top(t) \in S
  BY <1>1, <1>2, TreeFacts, CellFacts
<1>4. ASSUME NEW n \in S
      PROVE  /\ n \in Cell /\ n # nil /\ n # root
             /\ Par(t, n) \in S \cup {root} /\ Par(t, n) \in Cell /\ Par(t, n) # n /\ Par(t, n) # nil
             /\ n = Top(t) <=> Par(t, n) = root
             /\ SideOf(t, n) \in Side /\ Kid(t, SideOf(t, n), Par(t, n)) = n
             /\ Par(t, n) = root => SideOf(t, n) = "left"
  BY <1>1, <1>2, NodeFacts
<1>5. ASSUME NEW n \in S, NEW s \in Side
      PROVE  /\ Kid(t, s, n) \in S \cup {nil} /\ Kid(t, s, n) \in Cell
             /\ Kid(t, s, n) # n
             /\ Kid(t, s, n) # nil => /\ Par(t, Kid(t, s, n)) = n
                                      /\ Kid(t, s, n) # Kid(t, Other(s), n)
                                      /\ Kid(t, s, n) # Par(t, n)
                                      /\ SideOf(t, Kid(t, s, n)) = s
                                      /\ Kid(t, s, n) # Top(t)
  BY <1>1, <1>2, <1>4, KidFacts
<1> QED BY <1>2, <1>3, <1>4, <1>5

\* Nothing is missing on a link that is not in the tree.
LEMMA EvenIsBalanced ==
  ASSUME NEW t, NEW S, TreeOf(t, S), NEW H, NEW p, p \notin S, NEW s
  PROVE  Balanced(t, S, H, p, s) <=> Even(t, S, H)
<1>1. ASSUME H \in [Cell -> Nat], NEW n \in S, NEW side \in Side
      PROVE  Black(t, n) + H[Kid(t, side, n)] + (IF n = p /\ side = s THEN 1 ELSE 0)
               = Black(t, n) + H[Kid(t, side, n)]
  <2>1. H[Kid(t, side, n)] \in Nat /\ Black(t, n) \in Nat
    BY <1>1, TreeOfFacts DEF Black
  <2>2. (IF n = p /\ side = s THEN 1 ELSE 0) = 0
    OBVIOUS
  <2> QED BY <2>1, <2>2
<1> QED BY <1>1 DEF Balanced, Even

\* u is t with the cells of C1 painted black and then those of C2 red.
Recolored(t, C1, C2, u) ==
    /\ SameLinks(t, u)
    /\ \A m \in Cell : IsRed(u, m) = IF m \in C2 THEN TRUE ELSE IF m \in C1 THEN FALSE ELSE IsRed(t, m)

\* What painting twice does.
LEMMA PaintTwice ==
  ASSUME NEW t \in Tree, NEW C1, NEW C2
  PROVE  Recolored(t, C1, C2, Paint(Paint(t, C1, FALSE), C2, TRUE))
<1> DEFINE v == Paint(t, C1, FALSE)
           u == Paint(v, C2, TRUE)
<1>1. Painted(t, C1, FALSE, v)
  BY PaintAt
<1> HIDE DEF v
<1>2. v \in Tree
  BY <1>1 DEF Painted, SameLinks
<1>3. Painted(v, C2, TRUE, u)
  BY <1>2, PaintAt
<1> HIDE DEF u
<1>4. SameLinks(t, u)
  BY <1>1, <1>3 DEF Painted, SameLinks
<1>5. \A m \in Cell : IsRed(u, m) = IF m \in C2 THEN TRUE ELSE IF m \in C1 THEN FALSE ELSE IsRed(t, m)
  BY <1>1, <1>3 DEF Painted
<1> QED BY <1>4, <1>5 DEF Recolored, u, v

\* A tree keeps its nodes when it is painted and the sentinels are not red.
LEMMA PaintedTree ==
  ASSUME NEW t, NEW S, TreeOf(t, S), NEW u, SameLinks(t, u), ~IsRed(u, nil), ~IsRed(u, root)
  PROVE  TreeOf(u, S) /\ Top(u) = Top(t)
<1>1. PICK B : SearchTree(t, B) /\ B[Top(t)] = S
  BY DEF TreeOf
<1>2. Links(u, B) /\ Top(u) = Top(t)
  BY <1>1, TreeFacts, SameLinksFacts DEF SearchTree
<1> QED BY <1>1, <1>2 DEF TreeOf, SearchTree

\* Where RBTreeInsert's loop stands: a red parent has a parent in the tree, which is black.
LEMMA InsertionPlace ==
  ASSUME NEW t, NEW S, TreeOf(t, S), NEW H, NEW n, Inserting(t, S, H, n),
         NEW p, p = Par(t, n), IsRed(t, p), NEW g, g = Par(t, p)
  PROVE  /\ n \in S /\ IsRed(t, n) /\ p \in S /\ g \in S /\ ~IsRed(t, g) /\ n # p /\ p # g /\ n # g
         /\ p # Top(t) /\ n # Top(t) /\ ~IsRed(t, Top(t))
         /\ SideOf(t, n) \in Side /\ Kid(t, SideOf(t, n), p) = n
         /\ SideOf(t, p) \in Side /\ Kid(t, SideOf(t, p), g) = p
<1> USE TreeOfFacts
<1>1. n \in S /\ IsRed(t, n)
  BY DEF Inserting
<1>2. p \in S /\ p # n
  BY <1>1
<1>3. n # Top(t)
  BY <1>1, <1>2
<1>4. ~IsRed(t, Top(t))
  BY <1>3 DEF Inserting
<1>5. p # Top(t) /\ g \in S /\ g # p
  BY <1>2, <1>4
<1>6. ~IsRed(t, g)
  BY <1>2 DEF Inserting, RedBelowRed
<1>7. /\ SideOf(t, n) \in Side /\ Kid(t, SideOf(t, n), p) = n
      /\ SideOf(t, p) \in Side /\ Kid(t, SideOf(t, p), g) = p
  BY <1>1, <1>2
<1> QED BY <1>1, <1>2, <1>3, <1>4, <1>5, <1>6, <1>7

\* Heights stay even when a black node above two red children changes colours with them.
LEMMA RecolorKeeps ==
  ASSUME NEW t, NEW S, TreeOf(t, S), NEW H, NEW n, Inserting(t, S, H, n),
         NEW p, p = Par(t, n), IsRed(t, p), NEW g, g = Par(t, p),
         NEW w, w = Kid(t, Other(SideOf(t, p)), g), IsRed(t, w),
         NEW u, Recolored(t, {p, w}, {g}, u)
  PROVE  TreeOf(u, S) /\ \E H2 : Inserting(u, S, H2, g)
<1> USE SideFacts, CellFacts
<1>1. /\ n \in S /\ p \in S /\ g \in S /\ ~IsRed(t, g) /\ p # g /\ IsRed(t, n) /\ ~IsRed(t, Top(t)) /\ n # p /\ p # Top(t) /\ n # g
      /\ SideOf(t, p) \in Side /\ Kid(t, SideOf(t, p), g) = p
  BY InsertionPlace
<1>2. S \subseteq Cell /\ nil \notin S /\ root \notin S /\ ~IsRed(t, nil) /\ ~IsRed(t, root) /\ Top(t) \in Cell
  BY TreeOfFacts
<1>3. w # nil
  BY <1>2
<1>4. w \in S /\ w # p /\ w # g /\ w # Top(t) /\ Par(t, w) = g
  BY <1>1, <1>3, TreeOfFacts
<1>5. \A m \in Cell : IsRed(u, m) = IF m = g THEN TRUE ELSE IF m \in {p, w} THEN FALSE ELSE IsRed(t, m)
  BY DEF Recolored
<1>6. TreeOf(u, S) /\ Top(u) = Top(t)
  BY <1>1, <1>2, <1>4, <1>5, PaintedTree DEF Recolored
<1>7. /\ \A m \in S : Par(u, m) = Par(t, m)
      /\ \A m \in S, s \in Side : Kid(u, s, m) = Kid(t, s, m)
  BY <1>2 DEF Recolored, SameLinks
<1>8. Even(t, S, H)
  BY <1>2, EvenIsBalanced DEF Inserting
<1> DEFINE H2 == [m \in Cell |-> IF m \in {p, w} THEN H[m] + 1 ELSE H[m]]
<1>9. H2 \in [Cell -> Nat] /\ H2[nil] = 0 /\ H2[p] = H[p] + 1 /\ H2[w] = H[w] + 1
      /\ \A m \in Cell \ {p, w} : H2[m] = H[m]
  BY <1>1, <1>2, <1>4, <1>8 DEF Even
<1> HIDE DEF H2
<1>10. ASSUME NEW m \in S, NEW s \in Side
       PROVE  H2[m] = Black(u, m) + H2[Kid(u, s, m)]
  <2> DEFINE k == Kid(t, s, m)
  <2>1. k \in Cell /\ (k # nil => Par(t, k) = m) /\ Kid(u, s, m) = k
    BY <1>7, TreeOfFacts
  <2>2. H[m] = Black(t, m) + H[k]
    BY <1>8 DEF Even
  <2>3. H[m] \in Nat /\ H[k] \in Nat
    BY <1>2, <1>8, <2>1 DEF Even
  <2>4. CASE m = g
    <3>1. k = p \/ k = w
      BY <2>4, <1>1
    <3>2. H2[k] = H[k] + 1 /\ H2[m] = H[m]
      BY <3>1, <2>4, <1>1, <1>2, <1>4, <1>9
    <3>3. Black(u, m) = 0 /\ Black(t, m) = 1
      BY <2>4, <1>1, <1>2, <1>5 DEF Black
    <3> QED BY <2>1, <2>2, <2>3, <3>2, <3>3
  <2>5. CASE m \in {p, w}
    <3>1. k \notin {p, w}
      BY <2>5, <2>1, <1>1, <1>2, <1>4
    <3>2. H2[k] = H[k] /\ H2[m] = H[m] + 1
      BY <3>1, <2>1, <2>5, <1>9
    <3>3. Black(u, m) = 1 /\ Black(t, m) = 0
      BY <2>5, <1>1, <1>2, <1>4, <1>5 DEF Black
    <3> QED BY <2>1, <2>2, <2>3, <3>2, <3>3
  <2>6. CASE m \notin {p, w, g}
    <3>1. k \notin {p, w}
      BY <2>6, <2>1, <1>1, <1>2, <1>4
    <3>2. H2[k] = H[k] /\ H2[m] = H[m]
      BY <3>1, <2>1, <2>6, <1>2, <1>9
    <3>3. Black(u, m) = Black(t, m)
      BY <2>6, <1>2, <1>5 DEF Black
    <3> QED BY <2>1, <2>2, <3>2, <3>3
  <2> QED BY <2>4, <2>5, <2>6
<1>11. Balanced(u, S, H2, nil, "left")
  BY <1>2, <1>6, <1>9, <1>10, EvenIsBalanced DEF Even
<1>12. ASSUME NEW m \in S \ {g} PROVE ~RedBelowRed(u, m)
  <2>1. Par(u, m) = Par(t, m) /\ Par(t, m) \in Cell /\ m \in Cell
    BY <1>7, TreeOfFacts
  <2>2. CASE m = n
    BY <2>1, <2>2, <1>1, <1>5 DEF RedBelowRed
  <2>3. CASE Par(t, m) = g
    <3>1. m = p \/ m = w
      BY <2>3, <1>1, TreeOfFacts
    <3> QED BY <3>1, <2>1, <1>5 DEF RedBelowRed
  <2>4. CASE m # n /\ Par(t, m) # g
    <3>1. ~RedBelowRed(t, m)
      BY <2>4 DEF Inserting
    <3> QED BY <3>1, <2>1, <2>4, <1>5 DEF RedBelowRed
  <2> QED BY <2>2, <2>3, <2>4
<1>13. IsRed(u, Top(u)) => Top(u) = g
  BY <1>1, <1>2, <1>5, <1>6
<1>14. Inserting(u, S, H2, g)
  BY <1>1, <1>2, <1>5, <1>11, <1>12, <1>13 DEF Inserting
<1> QED BY <1>6, <1>14

\* A rotation, possibly after painting, keeps the nodes of the tree and the colours.
LEMMA TreeRotation ==
  ASSUME NEW t, NEW S, TreeOf(t, S), NEW n \in S, NEW side \in Side,
         NEW c, c = Kid(t, Other(side), n), c # nil,
         NEW u, SameLinks(t, u), ~IsRed(u, nil), ~IsRed(u, root),
         NEW v, v = Rotate(u, n, side)
  PROVE  /\ TreeOf(v, S) /\ TurnedTree(t, S, n, side, c, v)
         /\ \A m \in Cell : IsRed(v, m) = IsRed(u, m)
<1>1. PICK B : SearchTree(t, B) /\ B[Top(t)] = S
  BY DEF TreeOf
<1>2. TurnedTree(t, S, n, side, c, v) /\ SameColors(u, v)
  BY <1>1, Rotation DEF SearchTree
<1>3. \E B2 : Links(v, B2) /\ B2[Top(v)] = S
  BY <1>2 DEF TurnedTree
<1>4. \A m \in Cell : IsRed(v, m) = IsRed(u, m)
  BY <1>2 DEF SameColors
<1>5. TreeOf(v, S)
  BY <1>3, <1>4, CellFacts DEF TreeOf, SearchTree
<1> QED BY <1>2, <1>4, <1>5

\* The heights after a rotation in terms of those before.
LEMMA HeightsAfterRotation ==
  ASSUME NEW t, NEW S, TreeOf(t, S), NEW n \in S, NEW side \in Side,
         NEW c, c = Kid(t, Other(side), n), c # nil,
         NEW v, TurnedTree(t, S, n, side, c, v),
         NEW H \in [Cell -> Nat], NEW H2, Swapped(H, n, c, H2)
  PROVE  /\ H2 \in [Cell -> Nat] /\ H2[nil] = H[nil]
         /\ H2[n] = H[c] /\ H2[c] = H[n]
         /\ H2[Kid(v, side, n)] = H[Kid(t, side, n)]
         /\ H2[Kid(v, Other(side), n)] = H[Kid(t, side, c)]
         /\ H2[Kid(v, side, c)] = H[c]
         /\ H2[Kid(v, Other(side), c)] = H[Kid(t, Other(side), c)]
         /\ \A m \in S \ {n, c} : H2[m] = H[m]
         /\ \A m \in S \ {n, c}, s \in Side : H2[Kid(v, s, m)] = H[Kid(t, s, m)]
<1> USE SideFacts, CellFacts
<1>1. /\ H2 \in [Cell -> Nat] /\ H2[n] = H[c] /\ H2[c] = H[n]
      /\ \A m \in Cell \ {n, c} : H2[m] = H[m]
  BY DEF Swapped
<1>2. c \in S /\ c \in Cell /\ n \in Cell /\ c # n /\ Par(t, c) = n /\ S \subseteq Cell /\ nil \notin S
  BY TreeOfFacts
<1>3. /\ Kid(v, side, n) = Kid(t, side, n) /\ Kid(v, Other(side), n) = Kid(t, side, c)
      /\ Kid(v, side, c) = n /\ Kid(v, Other(side), c) = Kid(t, Other(side), c)
  BY DEF TurnedTree
<1>4. \A m \in S \ {n, c}, s \in Side :
         \/ Kid(t, s, m) = n /\ Kid(v, s, m) = c
         \/ Kid(t, s, m) \notin {n, c} /\ Kid(v, s, m) = Kid(t, s, m)
  BY DEF TurnedTree
<1>5. /\ Kid(t, side, n) \in Cell \ {n, c}
      /\ Kid(t, side, c) \in Cell \ {n, c} /\ Kid(t, Other(side), c) \in Cell \ {n, c}
  BY <1>2, TreeOfFacts
<1>6. \A m \in S \ {n, c}, s \in Side : Kid(t, s, m) \in Cell
  BY TreeOfFacts
<1>7. \A m \in S \ {n, c}, s \in Side : H2[Kid(v, s, m)] = H[Kid(t, s, m)]
  BY <1>1, <1>4, <1>6
<1>8. \A m \in S \ {n, c} : H2[m] = H[m]
  BY <1>1, <1>2
<1> QED BY <1>1, <1>2, <1>3, <1>5, <1>7, <1>8

\* An inner grandchild becomes an outer one.
LEMMA InnerInsertionKeeps ==
  ASSUME NEW t, NEW S, TreeOf(t, S), NEW H, NEW n, Inserting(t, S, H, n),
         NEW p, p = Par(t, n), IsRed(t, p), NEW g, g = Par(t, p),
         NEW side, side = SideOf(t, p), n = Kid(t, Other(side), p),
         NEW v, v = Rotate(t, p, side)
  PROVE  /\ TreeOf(v, S) /\ \E H2 : Inserting(v, S, H2, p)
         /\ Par(v, p) = n /\ IsRed(v, n) /\ Par(v, n) = g /\ SideOf(v, n) = side /\ Kid(v, side, n) = p
         /\ Kid(v, Other(side), g) = Kid(t, Other(side), g)
         /\ \A m \in Cell : IsRed(v, m) = IsRed(t, m)
<1> USE SideFacts, CellFacts
<1>1. /\ n \in S /\ p \in S /\ g \in S /\ ~IsRed(t, g) /\ p # g /\ IsRed(t, n) /\ ~IsRed(t, Top(t)) /\ n # p /\ p # Top(t) /\ n # g
      /\ side \in Side /\ Kid(t, side, g) = p
  BY InsertionPlace
<1>2. S \subseteq Cell /\ nil \notin S /\ root \notin S /\ ~IsRed(t, nil) /\ ~IsRed(t, root) /\ Top(t) \in Cell /\ t \in Tree
  BY TreeOfFacts
<1>3. SameLinks(t, t)
  BY <1>2 DEF SameLinks
<1>4. n # nil
  BY <1>1, <1>2
<1>5. /\ TreeOf(v, S) /\ TurnedTree(t, S, p, side, n, v)
      /\ \A m \in Cell : IsRed(v, m) = IsRed(t, m)
  <2>1. TreeOf(t, S) /\ n = Kid(t, Other(side), p) /\ v = Rotate(t, p, side) /\ p \in S /\ side \in Side
    BY <1>1
  <2> QED BY ONLY <2>1, <1>2, <1>3, <1>4, TreeRotation
<1>6. Even(t, S, H)
  BY <1>2, EvenIsBalanced DEF Inserting
<1>7. /\ H \in [Cell -> Nat] /\ H[nil] = 0
      /\ \A m \in S, s \in Side : H[m] = Black(t, m) + H[Kid(t, s, m)]
  BY <1>6 DEF Even
<1>8. PICK H2 : Swapped(H, p, n, H2)
  BY <1>1, <1>2, <1>7, SwapExists
<1>9. /\ H2 \in [Cell -> Nat] /\ H2[nil] = H[nil]
      /\ H2[p] = H[n] /\ H2[n] = H[p]
      /\ H2[Kid(v, side, p)] = H[Kid(t, side, p)]
      /\ H2[Kid(v, Other(side), p)] = H[Kid(t, side, n)]
      /\ H2[Kid(v, side, n)] = H[n]
      /\ H2[Kid(v, Other(side), n)] = H[Kid(t, Other(side), n)]
      /\ \A m \in S \ {p, n} : H2[m] = H[m]
      /\ \A m \in S \ {p, n}, s \in Side : H2[Kid(v, s, m)] = H[Kid(t, s, m)]
  BY <1>1, <1>4, <1>5, <1>7, <1>8, HeightsAfterRotation
<1>10. \A m \in Cell : Black(v, m) = Black(t, m)
  BY <1>5 DEF Black
<1>11. ASSUME NEW m \in S, NEW s \in Side
       PROVE  H2[m] = Black(v, m) + H2[Kid(v, s, m)]
  <2>1. Black(t, n) = 0 /\ Black(t, p) = 0
    BY <1>1 DEF Black
  <2>2. /\ \A k \in Cell : H[k] \in Nat
        /\ \A q \in Side : Kid(t, q, n) \in Cell /\ Kid(t, q, p) \in Cell
    BY <1>1, <1>7, TreeOfFacts
  <2>3. \A q \in Side : H[n] = H[Kid(t, q, n)] /\ H[p] = H[Kid(t, q, p)]
    BY <1>1, <1>7, <2>1, <2>2
  <2>4. H[p] = H[n]
    BY <1>1, <2>3
  <2>5. \A q \in Side : H2[p] = H2[Kid(v, q, p)] /\ H2[n] = H2[Kid(v, q, n)]
    BY <1>9, <1>1, <2>3, <2>4
  <2>6. CASE m \in {n, p}
    <3>1. H2[m] = H2[Kid(v, s, m)]
      BY <2>5, <2>6
    <3>2. H2[m] \in Nat
      BY <1>2, <1>9
    <3>3. Black(v, m) = 0
      BY <1>2, <1>10, <2>1, <2>6
    <3> QED BY <3>1, <3>2, <3>3
  <2>7. CASE m \notin {n, p}
    BY <1>2, <1>7, <1>9, <1>10, <2>7
  <2> QED BY <2>6, <2>7
<1>12. Balanced(v, S, H2, nil, "left")
  BY <1>2, <1>5, <1>7, <1>9, <1>11, EvenIsBalanced DEF Even
<1>13. /\ Top(v) = IF p = Top(t) THEN n ELSE Top(t)
       /\ Kid(v, side, n) = p
       /\ Par(v, p) = n /\ Par(v, n) = g
       /\ \A m \in Cell \ {p, n} : Par(v, m) = IF m = Kid(t, side, n) /\ m # nil THEN p ELSE Par(t, m)
       /\ \A m \in S \ {p, n}, s \in Side :
            \/ Kid(t, s, m) = p /\ Kid(v, s, m) = n
            \/ Kid(t, s, m) \notin {p, n} /\ Kid(v, s, m) = Kid(t, s, m)
       /\ \A m \in Cell \ {p, n}, s \in Side : Kid(t, s, m) # p => Kid(v, s, m) = Kid(t, s, m)
  BY <1>5 DEF TurnedTree
<1>14. Kid(v, side, g) = n
  BY <1>1, <1>13
<1>15. SideOf(v, n) = side
  BY <1>1, <1>4, <1>5, <1>14, TreeOfFacts
<1>16. Kid(v, Other(side), g) = Kid(t, Other(side), g)
  BY <1>1, <1>2, <1>13, TreeOfFacts
<1>17. ASSUME NEW m \in S \ {p} PROVE ~RedBelowRed(v, m)
  <2>1. m \in Cell /\ Par(t, m) \in Cell
    BY TreeOfFacts
  <2>2. CASE m = n
    <3>1. Par(v, m) = g /\ g \in Cell
      BY <2>2, <1>1, <1>2, <1>13
    <3>2. IsRed(v, g) = IsRed(t, g)
      BY <3>1, <1>5
    <3> QED BY <3>1, <3>2, <1>1 DEF RedBelowRed
  <2>3. CASE m # n /\ m = Kid(t, side, n)
    <3>1. Par(t, m) = n
      <4>1. TreeOf(t, S) /\ n \in S /\ side \in Side /\ m # nil
        BY <1>1, <1>2
      <4> QED BY ONLY <4>1, <2>3, TreeOfFacts
    <3>2. ~RedBelowRed(t, m)
      BY <2>3 DEF Inserting
    <3> QED BY <3>1, <3>2, <2>1, <1>1, <1>5 DEF RedBelowRed
  <2>4. CASE m # n /\ m # Kid(t, side, n)
    <3>1. Par(v, m) = Par(t, m)
      BY <2>1, <2>4, <1>13
    <3>2. ~RedBelowRed(t, m)
      BY <2>4 DEF Inserting
    <3> QED BY <3>1, <3>2, <2>1, <1>5 DEF RedBelowRed
  <2> QED BY <2>2, <2>3, <2>4
<1>18. ~IsRed(v, Top(v))
  BY <1>1, <1>2, <1>5, <1>13
<1>19. Inserting(v, S, H2, p)
  BY <1>1, <1>2, <1>5, <1>12, <1>17, <1>18 DEF Inserting
<1> QED BY <1>1, <1>2, <1>5, <1>13, <1>15, <1>16, <1>19

\* A red node below its red parent on the outside: the rotation ends the conflict.
LEMMA OuterInsertionKeeps ==
  ASSUME NEW t, NEW S, TreeOf(t, S), NEW H, NEW n, Inserting(t, S, H, n),
         NEW p, p = Par(t, n), IsRed(t, p), NEW g, g = Par(t, p),
         NEW side, side = SideOf(t, p), n = Kid(t, side, p), ~IsRed(t, Kid(t, Other(side), g)),
         NEW u, Recolored(t, {p}, {g}, u), NEW v, v = Rotate(u, g, Other(side))
  PROVE  TreeOf(v, S) /\ \E H2 : Inserting(v, S, H2, n)
<1> DEFINE far == Other(side)
           inner == Kid(t, far, p)
           uncle == Kid(t, far, g)
<1> USE SideFacts, CellFacts
<1>1. /\ n \in S /\ p \in S /\ g \in S /\ ~IsRed(t, g) /\ p # g /\ IsRed(t, n) /\ ~IsRed(t, Top(t)) /\ n # p /\ p # Top(t) /\ n # g
      /\ side \in Side /\ Kid(t, side, g) = p
  BY InsertionPlace
<1>2. S \subseteq Cell /\ nil \notin S /\ root \notin S /\ ~IsRed(t, nil) /\ ~IsRed(t, root) /\ Top(t) \in Cell /\ t \in Tree
  BY TreeOfFacts
<1>3. SameLinks(t, u) /\ \A m \in Cell : IsRed(u, m) = IF m = g THEN TRUE ELSE IF m = p THEN FALSE ELSE IsRed(t, m)
  BY DEF Recolored
<1>4. far \in Side /\ Other(far) = side /\ side # far
  BY <1>1
<1> HIDE DEF far
<1>5. /\ TreeOf(v, S) /\ TurnedTree(t, S, g, far, p, v)
      /\ \A m \in Cell : IsRed(v, m) = IsRed(u, m)
  <2>1. TreeOf(t, S) /\ p = Kid(t, Other(far), g) /\ v = Rotate(u, g, far) /\ g \in S /\ far \in Side /\ p # nil
    BY <1>1, <1>2, <1>4 DEF far
  <2>2. SameLinks(t, u) /\ ~IsRed(u, nil) /\ ~IsRed(u, root)
    BY <1>1, <1>2, <1>3
  <2> QED BY ONLY <2>1, <2>2, TreeRotation
<1>6. Even(t, S, H)
  BY <1>2, EvenIsBalanced DEF Inserting
<1>7. /\ H \in [Cell -> Nat] /\ H[nil] = 0
      /\ \A m \in S, s \in Side : H[m] = Black(t, m) + H[Kid(t, s, m)]
  BY <1>6 DEF Even
<1>8. PICK H2 : Swapped(H, g, p, H2)
  BY <1>1, <1>2, <1>7, SwapExists
<1>9. /\ H2 \in [Cell -> Nat] /\ H2[nil] = H[nil]
      /\ H2[g] = H[p] /\ H2[p] = H[g]
      /\ H2[Kid(v, far, g)] = H[Kid(t, far, g)]
      /\ H2[Kid(v, side, g)] = H[Kid(t, far, p)]
      /\ H2[Kid(v, far, p)] = H[p]
      /\ H2[Kid(v, side, p)] = H[Kid(t, side, p)]
      /\ \A m \in S \ {g, p} : H2[m] = H[m]
      /\ \A m \in S \ {g, p}, s \in Side : H2[Kid(v, s, m)] = H[Kid(t, s, m)]
  <2>1. TreeOf(t, S) /\ p = Kid(t, Other(far), g) /\ g \in S /\ far \in Side /\ p # nil /\ Other(far) = side
    BY <1>1, <1>2, <1>4
  <2> QED BY ONLY <2>1, <1>5, <1>7, <1>8, HeightsAfterRotation
<1>10. /\ Top(v) = IF g = Top(t) THEN p ELSE Top(t)
       /\ Par(v, g) = p /\ Par(v, p) = Par(t, g)
       /\ \A m \in Cell \ {g, p} : Par(v, m) = IF m = inner /\ m # nil THEN g ELSE Par(t, m)
  BY <1>5 DEF TurnedTree
<1> HIDE DEF inner, uncle
<1>11. /\ Par(t, n) = p /\ n # inner /\ inner \in S \cup {nil} /\ uncle \in S \cup {nil} /\ n # nil
       /\ inner # nil => Par(t, inner) = p
       /\ uncle # nil => Par(t, uncle) = g
       /\ ~IsRed(t, uncle)
  BY <1>1, <1>2, <1>4, TreeOfFacts DEF inner, uncle, far
<1>12. ASSUME NEW m \in S, NEW s \in Side
       PROVE  H2[m] = Black(v, m) + H2[Kid(v, s, m)]
  <2>1. s = far \/ s = side
    BY <1>4, <1>1
  <2>2. Black(t, p) = 0 /\ Black(t, g) = 1 /\ Black(v, p) = 1 /\ Black(v, g) = 0
    BY <1>1, <1>2, <1>3, <1>5 DEF Black
  <2>3. H[p] \in Nat /\ H[Kid(t, side, p)] \in Nat /\ H[Kid(t, far, p)] \in Nat /\ H[Kid(t, far, g)] \in Nat
    BY <1>1, <1>2, <1>4, <1>7, TreeOfFacts
  <2>4. H[p] = H[Kid(t, side, p)] /\ H[p] = H[Kid(t, far, p)] /\ H[g] = 1 + H[p] /\ H[g] = 1 + H[Kid(t, far, g)]
    BY <1>1, <1>4, <1>7, <2>2, <2>3
  <2>5. CASE m = p
    <3>1. H2[Kid(v, s, m)] = H[p]
      BY <1>9, <2>1, <2>4, <2>5
    <3> QED BY <3>1, <1>9, <2>2, <2>4, <2>5
  <2>6. CASE m = g
    <3>1. H[Kid(t, far, g)] = H[p]
      BY <2>3, <2>4
    <3>2. H2[Kid(v, s, m)] = H[p]
      BY <1>9, <2>1, <2>4, <2>6, <3>1
    <3>3. H2[m] = H[p] /\ Black(v, m) = 0 /\ H[p] \in Nat
      BY <1>9, <2>2, <2>3, <2>6
    <3>4. H[p] = 0 + H[p]
      BY <3>3
    <3> QED BY <3>2, <3>3, <3>4
  <2>7. CASE m \notin {p, g}
    <3>1. Black(v, m) = Black(t, m)
      BY <1>2, <1>3, <1>5, <2>7 DEF Black
    <3> QED BY <3>1, <1>7, <1>9, <2>7
  <2> QED BY <2>5, <2>6, <2>7
<1>13. Balanced(v, S, H2, nil, "left")
  BY <1>2, <1>5, <1>7, <1>9, <1>12, EvenIsBalanced DEF Even
<1>14. ASSUME NEW m \in S \ {n} PROVE ~RedBelowRed(v, m)
  <2>1. m \in Cell /\ Par(t, m) \in Cell /\ m # nil
    BY TreeOfFacts
  <2>2. ~RedBelowRed(t, m)
    BY DEF Inserting
  <2>3. CASE m = p
    BY <2>3, <1>1, <1>2, <1>3, <1>5 DEF RedBelowRed
  <2>4. CASE m = g
    <3>1. Par(v, m) = p /\ ~IsRed(v, p)
      BY <2>4, <1>1, <1>2, <1>3, <1>5, <1>10
    <3> QED BY <3>1 DEF RedBelowRed
  <2>5. CASE m = inner
    <3>1. Par(t, m) = p /\ ~IsRed(t, m)
      BY <2>1, <2>2, <2>5, <1>1, <1>11 DEF RedBelowRed
    <3>2. m # g
      BY <3>1, <1>1, TreeOfFacts
    <3> QED BY <2>1, <3>1, <3>2, <1>3, <1>5 DEF RedBelowRed
  <2>6. CASE m = uncle
    <3>1. m # g /\ m # p
      BY <2>1, <2>3, <2>6, <1>1, <1>4, <1>11, TreeOfFacts DEF uncle
    <3> QED BY <2>1, <2>6, <3>1, <1>3, <1>5, <1>11 DEF RedBelowRed
  <2>7. CASE m \notin {p, g, inner, uncle}
    <3>1. Par(v, m) = Par(t, m)
      BY <2>1, <2>7, <1>10
    <3>2. Par(t, m) # g
      BY <2>7, <1>1, <1>4, TreeOfFacts DEF uncle
    <3>3. IsRed(v, m) = IsRed(t, m) /\ (IsRed(v, Par(t, m)) => IsRed(t, Par(t, m)))
      BY <2>1, <2>7, <3>2, <1>3, <1>5
    <3> QED BY <2>2, <3>1, <3>3 DEF RedBelowRed
  <2> QED BY <2>3, <2>4, <2>5, <2>6, <2>7
<1>15. ~IsRed(v, Top(v))
  BY <1>1, <1>2, <1>3, <1>5, <1>10
<1>16. IsRed(v, n)
  BY <1>1, <1>2, <1>3, <1>5
<1>17. Inserting(v, S, H2, n)
  BY <1>1, <1>13, <1>14, <1>15, <1>16 DEF Inserting
<1> QED BY <1>5, <1>17

\* The top may always be painted black.
LEMMA EndInsertionKeeps ==
  ASSUME NEW t, NEW S, TreeOf(t, S), NEW H, NEW n, Inserting(t, S, H, n), ~IsRed(t, Par(t, n)),
         NEW u, Painted(t, {Top(t)}, FALSE, u)
  PROVE  TreeOf(u, S) /\ \E H2 : Sound(u, S, H2)
<1> DEFINE top == Top(t)
           H2 == [m \in Cell |-> IF m = top /\ IsRed(t, top) THEN H[m] + 1 ELSE H[m]]
<1> USE SideFacts, CellFacts
<1>1. S \subseteq Cell /\ nil \notin S /\ root \notin S /\ ~IsRed(t, nil) /\ ~IsRed(t, root) /\ t \in Tree /\ n \in S /\ top \in S
  BY TreeOfFacts DEF Inserting
<1>2. SameLinks(t, u) /\ \A m \in Cell : IsRed(u, m) = IF m = top THEN FALSE ELSE IsRed(t, m)
  BY DEF Painted
<1>3. TreeOf(u, S) /\ Top(u) = top
  BY <1>1, <1>2, PaintedTree
<1>4. Even(t, S, H)
  BY <1>1, EvenIsBalanced DEF Inserting
<1>5. /\ H \in [Cell -> Nat] /\ H[nil] = 0
      /\ \A m \in S, s \in Side : H[m] = Black(t, m) + H[Kid(t, s, m)]
  BY <1>4 DEF Even
<1>6. /\ \A m \in S : Par(u, m) = Par(t, m)
      /\ \A m \in S, s \in Side : Kid(u, s, m) = Kid(t, s, m)
  BY <1>1, <1>2 DEF SameLinks
<1>7. /\ H2 \in [Cell -> Nat] /\ \A m \in Cell \ {top} : H2[m] = H[m]
      /\ H2[top] = IF IsRed(t, top) THEN H[top] + 1 ELSE H[top]
  BY <1>1, <1>5
<1> HIDE DEF H2, top
<1>8. ASSUME NEW m \in S, NEW s \in Side
      PROVE  H2[m] = Black(u, m) + H2[Kid(u, s, m)]
  <2>1. Kid(t, s, m) \in Cell \ {top}
    BY <1>1, TreeOfFacts DEF top
  <2>2. H2[Kid(u, s, m)] = H[Kid(t, s, m)] /\ H[Kid(t, s, m)] \in Nat /\ H[m] \in Nat
    BY <2>1, <1>1, <1>5, <1>6, <1>7
  <2>3. CASE m = top
    <3>1. Black(u, m) = 1 /\ Black(t, m) = IF IsRed(t, top) THEN 0 ELSE 1
      BY <2>3, <1>1, <1>2 DEF Black
    <3>2. H[m] = Black(t, m) + H[Kid(t, s, m)] /\ H2[m] = IF IsRed(t, top) THEN H[m] + 1 ELSE H[m]
      BY <2>3, <1>5, <1>7
    <3> QED BY <3>1, <3>2, <2>2
  <2>4. CASE m # top
    <3>1. Black(u, m) = Black(t, m)
      BY <2>4, <1>1, <1>2 DEF Black
    <3>2. H2[m] = H[m]
      BY <2>4, <1>1, <1>7
    <3> QED BY <3>1, <3>2, <2>2, <1>5
  <2> QED BY <2>3, <2>4
<1>9. Balanced(u, S, H2, nil, "left")
  BY <1>1, <1>3, <1>5, <1>7, <1>8, EvenIsBalanced DEF Even
<1>10. ASSUME NEW m \in S PROVE ~RedBelowRed(u, m)
  <2>1. m \in Cell /\ Par(t, m) \in Cell
    BY TreeOfFacts
  <2>2. ~RedBelowRed(t, m)
    BY DEF Inserting, RedBelowRed
  <2> QED BY <2>1, <2>2, <1>2, <1>6 DEF RedBelowRed
<1>11. ~IsRed(u, Top(u))
  BY <1>1, <1>2, <1>3
<1> QED BY <1>3, <1>9, <1>10, <1>11 DEF Sound

------------------------------------------------------------------------------
(* The repair after a deletion                                             *)

\* A nil hangs where its parent pointer says when the other child is none.
LEMMA SideOfNil ==
  ASSUME NEW t \in Tree, NEW p, Par(t, nil) = p, NEW side \in Side,
         Kid(t, side, p) = nil, Kid(t, Other(side), p) # nil
  PROVE  SideOf(t, nil) = side
<1>1. CASE side = "left"
  BY <1>1, AccessFacts
<1>2. CASE side = "right"
  BY <1>2, AccessFacts DEF Other
<1> QED BY <1>1, <1>2 DEF Side

\* Where the loop of RBDeleteFixUp stands: x has a parent and a sibling in the tree, and
\* the paths through x lack one black node.
LEMMA RepairPlace ==
  ASSUME NEW t, NEW S, TreeOf(t, S), NEW H, NEW n, NEW old, Repairing(t, S, H, n, old),
         ~IsRed(t, n), n # old,
         NEW p, p = Par(t, n), NEW side, side = SideOf(t, n), NEW w, w = Kid(t, Other(side), p)
  PROVE  /\ p \in S /\ side \in Side /\ Kid(t, side, p) = n /\ n \in S \cup {nil}
         /\ n # p /\ n # Top(t) /\ ~IsRed(t, Top(t)) /\ old \in S \cup {nil}
         /\ w \in S /\ w # n /\ w # p /\ w # Top(t) /\ Par(t, w) = p
         /\ Top(t) = old \/ (IsRed(t, p) /\ old = p)
         /\ \A m \in S : ~RedBelowRed(t, m)
         /\ H \in [Cell -> Nat] /\ H[nil] = 0
         /\ \A m \in S, s \in Side : m # p \/ s # side => H[m] = Black(t, m) + H[Kid(t, s, m)]
         /\ H[p] = Black(t, p) + H[n] + 1 /\ H[w] = H[n] + 1
<1> USE SideFacts, CellFacts
<1>1. /\ n \in S \/ (n = nil /\ Par(t, nil) \in S /\ Kid(t, SideOf(t, nil), Par(t, nil)) = nil)
      /\ Balanced(t, S, H, p, side) /\ old \in S \cup {nil}
      /\ Top(t) = old \/ (IsRed(t, p) /\ old = p)
      /\ IsRed(t, Top(t)) => Top(t) = n
  BY DEF Repairing, IsMissing
<1>2. nil \notin S /\ S \subseteq Cell /\ ~IsRed(t, root) /\ ~IsRed(t, nil) /\ t \in Tree /\ root \notin S
  BY TreeOfFacts
<1>3. n # Top(t)
  <2>1. CASE n = nil
    BY <2>1, <1>1, <1>2, TreeOfFacts
  <2>2. CASE n # nil /\ Top(t) = old
    BY <2>2
  <2>3. CASE n # nil /\ IsRed(t, p) /\ old = p
    BY <2>3, <1>1, <1>2, TreeOfFacts
  <2> QED BY <2>1, <2>2, <2>3, <1>1
<1>4. p \in S /\ side \in Side /\ Kid(t, side, p) = n /\ n \in S \cup {nil} /\ n # p
  <2>1. CASE n \in S
    BY <2>1, <1>3, TreeOfFacts
  <2>2. CASE n \notin S
    BY <2>2, <1>1, <1>2, AccessFacts
  <2> QED BY <2>1, <2>2
<1>5. ~IsRed(t, Top(t))
  BY <1>1, <1>3
<1>6. ASSUME NEW m \in S PROVE ~RedBelowRed(t, m)
  <2>1. RedBelowRed(t, m) => m = n \/ Par(t, m) = n
    BY DEF Repairing
  <2> QED BY <2>1 DEF RedBelowRed
<1>7. /\ H \in [Cell -> Nat] /\ H[nil] = 0
      /\ \A m \in S, s \in Side : H[m] = Black(t, m) + H[Kid(t, s, m)] + (IF m = p /\ s = side THEN 1 ELSE 0)
  BY <1>1 DEF Balanced
<1>8. ASSUME NEW m \in S, NEW s \in Side, m # p \/ s # side
      PROVE  H[m] = Black(t, m) + H[Kid(t, s, m)]
  <2>1. H[Kid(t, s, m)] \in Nat /\ Black(t, m) \in Nat
    BY <1>7, TreeOfFacts DEF Black
  <2>2. H[m] = Black(t, m) + H[Kid(t, s, m)] + 0
    BY <1>7, <1>8
  <2> QED BY <2>1, <2>2
<1>9. H[p] = Black(t, p) + H[n] + 1
  BY <1>4, <1>7
<1>10. H[p] = Black(t, p) + H[w]
  BY <1>4, <1>8
<1>11. H[w] = H[n] + 1
  <2>1. H[n] \in Nat /\ H[w] \in Nat /\ Black(t, p) \in Nat
    BY <1>2, <1>4, <1>7, TreeOfFacts DEF Black
  <2> QED BY <2>1, <1>9, <1>10
<1>12. w # nil
  <2>1. H[n] \in Nat
    BY <1>2, <1>4, <1>7
  <2> QED BY <2>1, <1>7, <1>11
<1>13. w \in S /\ w # n /\ w # p /\ w # Top(t) /\ Par(t, w) = p
  BY <1>4, <1>12, TreeOfFacts
<1> QED BY <1>1, <1>3, <1>4, <1>5, <1>6, <1>7, <1>8, <1>9, <1>11, <1>13

\* Heights with one black node missing below p.
LEMMA BalancedParts ==
  ASSUME NEW t, NEW S, TreeOf(t, S), NEW H \in [Cell -> Nat], H[nil] = 0, NEW p \in S, NEW side \in Side,
         \A m \in S, s \in Side : m # p \/ s # side => H[m] = Black(t, m) + H[Kid(t, s, m)],
         H[p] = Black(t, p) + H[Kid(t, side, p)] + 1
  PROVE  Balanced(t, S, H, p, side)
<1>1. ASSUME NEW m \in S, NEW s \in Side
      PROVE  H[m] = Black(t, m) + H[Kid(t, s, m)] + (IF m = p /\ s = side THEN 1 ELSE 0)
  <2>1. H[Kid(t, s, m)] \in Nat /\ Black(t, m) \in Nat
    BY TreeOfFacts DEF Black
  <2>2. CASE m = p /\ s = side
    BY <2>2
  <2>3. CASE m # p \/ s # side
    <3>1. H[m] = Black(t, m) + H[Kid(t, s, m)]
      BY <2>3
    <3>2. (IF m = p /\ s = side THEN 1 ELSE 0) = 0
      BY <2>3
    <3> QED BY <2>1, <3>1, <3>2
  <2> QED BY <2>2, <2>3
<1> QED BY <1>1 DEF Balanced

\* The repair goes on at the same x.
LEMMA RepairingAt ==
  ASSUME NEW t, NEW S, TreeOf(t, S), NEW H \in [Cell -> Nat], H[nil] = 0, NEW n \in S \cup {nil}, NEW old \in S \cup {nil},
         ~IsRed(t, n), n # old,
         NEW p \in S, NEW side \in Side, Par(t, n) = p, Kid(t, side, p) = n, Kid(t, Other(side), p) # nil,
         \A m \in S, s \in Side : m # p \/ s # side => H[m] = Black(t, m) + H[Kid(t, s, m)],
         H[p] = Black(t, p) + H[n] + 1,
         \A m \in S : ~RedBelowRed(t, m), ~IsRed(t, Top(t)),
         Top(t) = old \/ (IsRed(t, p) /\ old = p)
  PROVE  Repairing(t, S, H, n, old) /\ SideOf(t, n) = side
<1>1. Balanced(t, S, H, p, side)
  BY BalancedParts
<1>2. SideOf(t, n) = side
  <2>1. CASE n = nil
    BY <2>1, SideOfNil, TreeOfFacts
  <2>2. CASE n # nil
    BY <2>2, TreeOfFacts
  <2> QED BY <2>1, <2>2
<1>3. n \in S \/ (n = nil /\ Par(t, nil) \in S /\ Kid(t, SideOf(t, nil), Par(t, nil)) = nil)
  BY <1>2
<1> QED BY <1>1, <1>2, <1>3 DEF Repairing, IsMissing

\* The red sibling comes above the parent.
LEMMA RedSiblingKeeps ==
  ASSUME NEW t, NEW S, TreeOf(t, S), NEW H, NEW n, NEW old, Repairing(t, S, H, n, old),
         ~IsRed(t, n), n # old,
         NEW p, p = Par(t, n), NEW side, side = SideOf(t, n), NEW w, w = Kid(t, Other(side), p), IsRed(t, w),
         NEW u, Recolored(t, {w}, {p}, u), NEW v, v = Rotate(u, p, side)
  PROVE  TreeOf(v, S) /\ \E H2 : Repairing(v, S, H2, n, old)
<1> DEFINE far == Other(side)
           inner == Kid(t, side, w)
           outer == Kid(t, far, w)
<1> USE SideFacts, CellFacts
<1>1. /\ p \in S /\ side \in Side /\ Kid(t, side, p) = n /\ n \in S \cup {nil}
      /\ n # p /\ n # Top(t) /\ ~IsRed(t, Top(t)) /\ old \in S \cup {nil}
      /\ w \in S /\ w # n /\ w # p /\ w # Top(t) /\ Par(t, w) = p
      /\ Top(t) = old \/ (IsRed(t, p) /\ old = p)
      /\ \A m \in S : ~RedBelowRed(t, m)
      /\ H \in [Cell -> Nat] /\ H[nil] = 0
      /\ \A m \in S, s \in Side : m # p \/ s # side => H[m] = Black(t, m) + H[Kid(t, s, m)]
      /\ H[p] = Black(t, p) + H[n] + 1 /\ H[w] = H[n] + 1
  BY RepairPlace
<1>2. S \subseteq Cell /\ nil \notin S /\ root \notin S /\ ~IsRed(t, nil) /\ ~IsRed(t, root) /\ Top(t) \in Cell /\ t \in Tree
  BY TreeOfFacts
<1>3. SameLinks(t, u) /\ \A m \in Cell : IsRed(u, m) = IF m = p THEN TRUE ELSE IF m = w THEN FALSE ELSE IsRed(t, m)
  BY DEF Recolored
<1>4. far \in Side /\ Other(far) = side /\ side # far
  BY <1>1
<1> HIDE DEF far
<1>5. /\ TreeOf(v, S) /\ TurnedTree(t, S, p, side, w, v)
      /\ \A m \in Cell : IsRed(v, m) = IsRed(u, m)
  <2>1. TreeOf(t, S) /\ w = Kid(t, Other(side), p) /\ v = Rotate(u, p, side) /\ p \in S /\ side \in Side /\ w # nil
    BY <1>1, <1>2
  <2>2. SameLinks(t, u) /\ ~IsRed(u, nil) /\ ~IsRed(u, root)
    BY <1>1, <1>2, <1>3
  <2> QED BY ONLY <2>1, <2>2, TreeRotation
<1>6. \A m \in Cell : IsRed(v, m) = IF m = p THEN TRUE ELSE IF m = w THEN FALSE ELSE IsRed(t, m)
  BY <1>3, <1>5
<1>7. ~IsRed(t, p)
  BY <1>1 DEF RedBelowRed
<1>8. PICK H2 : Swapped(H, p, w, H2)
  BY <1>1, <1>2, SwapExists
<1>9. /\ H2 \in [Cell -> Nat] /\ H2[nil] = H[nil]
      /\ H2[p] = H[w] /\ H2[w] = H[p]
      /\ H2[Kid(v, side, p)] = H[Kid(t, side, p)]
      /\ H2[Kid(v, far, p)] = H[Kid(t, side, w)]
      /\ H2[Kid(v, side, w)] = H[w]
      /\ H2[Kid(v, far, w)] = H[Kid(t, far, w)]
      /\ \A m \in S \ {p, w} : H2[m] = H[m]
      /\ \A m \in S \ {p, w}, s \in Side : H2[Kid(v, s, m)] = H[Kid(t, s, m)]
  <2>1. TreeOf(t, S) /\ w = Kid(t, Other(side), p) /\ p \in S /\ side \in Side /\ w # nil /\ far = Other(side)
    BY <1>1, <1>2 DEF far
  <2> QED BY ONLY <2>1, <1>1, <1>5, <1>8, HeightsAfterRotation
<1>10. /\ Top(v) = IF p = Top(t) THEN w ELSE Top(t)
       /\ Kid(v, side, p) = Kid(t, side, p) /\ Kid(v, far, p) = inner
       /\ Par(v, p) = w /\ Par(v, w) = Par(t, p)
       /\ \A m \in Cell \ {p, w} : Par(v, m) = IF m = inner /\ m # nil THEN p ELSE Par(t, m)
  BY <1>5 DEF TurnedTree, far
<1> HIDE DEF inner, outer
<1>11. /\ inner \in S \cup {nil} /\ outer \in S \cup {nil}
       /\ inner # nil => Par(t, inner) = w
       /\ \A m \in S : Par(t, m) = w => m \in {inner, outer}
       /\ \A m \in S : Par(t, m) = p => m \in {n, w}
  BY <1>1, <1>4, TreeOfFacts DEF inner, outer, far
<1>12. /\ H[n] \in Nat /\ H[inner] \in Nat /\ H[outer] \in Nat
       /\ H[inner] = H[n] + 1 /\ H[outer] = H[n] + 1
       /\ H[p] = H[n] + 2 /\ H[w] = H[n] + 1
  <2>1. H[n] \in Nat /\ H[inner] \in Nat /\ H[outer] \in Nat
    BY <1>1, <1>2, <1>11
  <2>2. Black(t, w) = 0 /\ Black(t, p) = 1
    BY <1>7 DEF Black
  <2>3. H[w] = 0 + H[inner] /\ H[w] = 0 + H[outer]
    BY <1>1, <1>4, <2>2 DEF inner, outer
  <2> QED BY <1>1, <2>1, <2>2, <2>3
<1>13. inner # nil
  BY <1>1, <1>12
<1>14. ASSUME NEW m \in S, NEW s \in Side, m # p \/ s # side
       PROVE  H2[m] = Black(v, m) + H2[Kid(v, s, m)]
  <2>1. s = far \/ s = side
    BY <1>4, <1>1
  <2>2. Black(v, p) = 0 /\ Black(v, w) = 1
    BY <1>1, <1>2, <1>6 DEF Black
  <2>3. CASE m = p
    <3>1. H2[Kid(v, s, m)] = H[inner]
      BY <1>9, <1>14, <2>1, <2>3 DEF inner
    <3>2. H2[m] = H[w]
      BY <1>9, <2>3
    <3> QED BY <3>1, <3>2, <2>2, <2>3, <1>12
  <2>4. CASE m = w
    <3>1. H2[Kid(v, s, m)] = H[n] + 1
      BY <1>9, <1>12, <2>1, <2>4 DEF outer
    <3>2. H2[m] = H[p]
      BY <1>9, <2>4
    <3> QED BY <3>1, <3>2, <2>2, <2>4, <1>12
  <2>5. CASE m \notin {p, w}
    <3>1. Black(v, m) = Black(t, m)
      BY <1>2, <1>6, <2>5 DEF Black
    <3> QED BY <3>1, <1>1, <1>9, <2>5
  <2> QED BY <2>3, <2>4, <2>5
<1>15. H2[p] = Black(v, p) + H2[n] + 1
  <2>1. H2[n] = H[n] /\ H2[p] = H[w]
    BY <1>1, <1>9
  <2>2. Black(v, p) = 0
    BY <1>1, <1>2, <1>6 DEF Black
  <2> QED BY <2>1, <2>2, <1>12
<1>16. ASSUME NEW m \in S PROVE ~RedBelowRed(v, m)
  <2>1. m \in Cell /\ Par(t, m) \in Cell /\ m # nil
    BY TreeOfFacts
  <2>2. ~RedBelowRed(t, m)
    BY <1>1
  <2>3. CASE m = p
    <3>1. Par(v, m) = w /\ ~IsRed(v, w)
      BY <2>3, <1>1, <1>2, <1>6, <1>10
    <3> QED BY <3>1 DEF RedBelowRed
  <2>4. CASE m \in {w, n}
    BY <2>1, <2>4, <1>1, <1>6 DEF RedBelowRed
  <2>5. CASE m = inner
    <3>1. ~IsRed(t, m)
      BY <2>1, <2>2, <2>5, <1>11 DEF RedBelowRed
    <3>2. m # p
      <4>1. p # Par(t, p)
        BY <1>1, TreeOfFacts
      <4> QED BY <2>1, <2>5, <1>1, <1>11, TreeOfFacts
    <3> QED BY <2>1, <3>1, <3>2, <1>6 DEF RedBelowRed
  <2>6. CASE m \notin {p, w, n, inner}
    <3>1. Par(v, m) = Par(t, m) /\ Par(t, m) # p
      BY <2>1, <2>6, <1>10, <1>11
    <3> QED BY <2>1, <2>2, <2>6, <3>1, <1>6 DEF RedBelowRed
  <2> QED BY <2>3, <2>4, <2>5, <2>6
<1>17. ~IsRed(v, Top(v))
  BY <1>1, <1>2, <1>6, <1>10
<1>18. Top(v) = old \/ (IsRed(v, p) /\ old = p)
  BY <1>1, <1>2, <1>6, <1>7, <1>10
<1>19. /\ ~IsRed(v, n) /\ Par(v, n) = p /\ Kid(v, side, p) = n /\ Kid(v, Other(side), p) # nil
  BY <1>1, <1>2, <1>6, <1>10, <1>13 DEF far
<1>20. Repairing(v, S, H2, n, old)
  BY <1>1, <1>5, <1>9, <1>14, <1>15, <1>16, <1>17, <1>18, <1>19, RepairingAt
<1> QED BY <1>5, <1>20

\* The sibling becomes red, and the missing black node is the parent's.
LEMMA BlackNephewsKeep ==
  ASSUME NEW t, NEW S, TreeOf(t, S), NEW H, NEW n, NEW old, Repairing(t, S, H, n, old),
         ~IsRed(t, n), n # old,
         NEW p, p = Par(t, n), NEW side, side = SideOf(t, n), NEW w, w = Kid(t, Other(side), p), ~IsRed(t, w),
         \A s \in Side : ~IsRed(t, Kid(t, s, w)),
         NEW u, Painted(t, {w}, TRUE, u)
  PROVE  TreeOf(u, S) /\ \E H2 : Repairing(u, S, H2, p, old)
<1> USE SideFacts, CellFacts
<1>1. /\ p \in S /\ side \in Side /\ Kid(t, side, p) = n /\ n \in S \cup {nil}
      /\ n # p /\ n # Top(t) /\ ~IsRed(t, Top(t)) /\ old \in S \cup {nil}
      /\ w \in S /\ w # n /\ w # p /\ w # Top(t) /\ Par(t, w) = p
      /\ Top(t) = old \/ (IsRed(t, p) /\ old = p)
      /\ \A m \in S : ~RedBelowRed(t, m)
      /\ H \in [Cell -> Nat] /\ H[nil] = 0
      /\ \A m \in S, s \in Side : m # p \/ s # side => H[m] = Black(t, m) + H[Kid(t, s, m)]
      /\ H[p] = Black(t, p) + H[n] + 1 /\ H[w] = H[n] + 1
  BY RepairPlace
<1>2. S \subseteq Cell /\ nil \notin S /\ root \notin S /\ ~IsRed(t, nil) /\ ~IsRed(t, root) /\ Top(t) \in Cell /\ t \in Tree
  BY TreeOfFacts
<1>3. SameLinks(t, u) /\ \A m \in Cell : IsRed(u, m) = IF m = w THEN TRUE ELSE IsRed(t, m)
  BY DEF Painted
<1>4. TreeOf(u, S) /\ Top(u) = Top(t)
  BY <1>1, <1>2, <1>3, PaintedTree
<1>5. /\ \A m \in S : Par(u, m) = Par(t, m)
      /\ \A m \in S, s \in Side : Kid(u, s, m) = Kid(t, s, m)
      /\ SideOf(u, p) = SideOf(t, p) /\ SideOf(t, p) \in Side
  <2>1. /\ \A m \in S : Par(u, m) = Par(t, m)
        /\ \A m \in S, s \in Side : Kid(u, s, m) = Kid(t, s, m)
    BY <1>2, <1>3 DEF SameLinks
  <2>2. p \in Cell
    BY <1>1, <1>2
  <2>3. SideOf(u, p) = SideOf(t, p)
    BY <2>2, <1>2, <1>3, SameLinksFacts
  <2> QED BY <2>1, <2>3, <1>2, AccessFacts
<1> DEFINE q == Par(t, p)
           from == SideOf(t, p)
           H2 == [m \in Cell |-> IF m = w THEN H[n] ELSE IF m = p THEN Black(t, p) + H[n] ELSE H[m]]
<1>6. /\ H2 \in [Cell -> Nat] /\ H2[nil] = 0 /\ H2[w] = H[n] /\ H2[p] = Black(t, p) + H[n]
      /\ \A m \in Cell \ {w, p} : H2[m] = H[m]
      /\ H[n] \in Nat /\ Black(t, p) \in Nat
  BY <1>1, <1>2 DEF Black
<1> HIDE DEF H2
<1>7. ASSUME NEW m \in S, NEW s \in Side
      PROVE  H2[m] = Black(u, m) + H2[Kid(u, s, m)] + (IF m = q /\ s = from THEN 1 ELSE 0)
  <2> DEFINE k == Kid(t, s, m)
  <2>1. k \in Cell /\ (k # nil => Par(t, k) = m /\ SideOf(t, k) = s) /\ Kid(u, s, m) = k /\ k # m
    BY <1>5, TreeOfFacts
  <2>2. q # p /\ q # w /\ p # nil /\ w # nil
    BY <1>1, TreeOfFacts
  <2>3. CASE m = p
    <3>1. k = n \/ k = w
      BY <2>3, <1>1
    <3>2. H2[k] = H[n]
      BY <3>1, <1>1, <1>2, <1>6
    <3>3. Black(u, m) = Black(t, p) /\ (IF m = q /\ s = from THEN 1 ELSE 0) = 0
      BY <2>2, <2>3, <1>1, <1>2, <1>3 DEF Black
    <3> QED BY <2>1, <2>3, <3>2, <3>3, <1>6
  <2>4. CASE m = w
    <3>1. k # p /\ k # w
      BY <2>1, <2>2, <2>4, <1>1
    <3>2. H[w] = 1 + H[k] /\ H2[k] = H[k] /\ H[k] \in Nat
      BY <2>1, <2>4, <3>1, <1>1, <1>6 DEF Black
    <3>3. Black(u, m) = 0 /\ (IF m = q /\ s = from THEN 1 ELSE 0) = 0
      BY <2>2, <2>4, <1>1, <1>2, <1>3 DEF Black
    <3>4. H2[m] = H[k]
      BY <2>4, <3>2, <1>1, <1>6
    <3> QED BY <2>1, <3>2, <3>3, <3>4
  <2>5. CASE m \notin {p, w}
    <3>1. Black(u, m) = Black(t, m) /\ Black(t, m) \in Nat
      BY <2>5, <1>2, <1>3 DEF Black
    <3>2. H2[m] = H[m] /\ H[m] = Black(t, m) + H[k]
      BY <2>5, <1>1, <1>2, <1>6
    <3>3. k # w
      BY <2>1, <2>2, <2>5, <1>1
    <3>4. CASE k = p
      <4>1. m = q /\ s = from
        BY <2>1, <2>2, <3>4
      <4>2. H[k] = H2[k] + 1
        BY <3>4, <1>1, <1>6
      <4>3. H2[k] \in Nat
        BY <2>1, <1>6
      <4> QED BY <2>1, <3>1, <3>2, <4>1, <4>2, <4>3
    <3>5. CASE k # p
      <4>1. ~(m = q /\ s = from)
        BY <3>5, <1>1, TreeOfFacts
      <4>2. (IF m = q /\ s = from THEN 1 ELSE 0) = 0
        BY <4>1
      <4>3. H2[k] = H[k] /\ H[k] \in Nat
        BY <2>1, <3>3, <3>5, <1>1, <1>6
      <4> QED BY <2>1, <3>1, <3>2, <4>2, <4>3
    <3> QED BY <3>4, <3>5
  <2> QED BY <2>3, <2>4, <2>5
<1>8. Balanced(u, S, H2, Par(u, p), SideOf(u, p))
  <2>1. Par(u, p) = q /\ SideOf(u, p) = from
    BY <1>1, <1>5
  <2> QED BY <2>1, <1>6, <1>7 DEF Balanced
<1>9. ASSUME p = Top(t)
      PROVE  Balanced(u, S, H2, nil, "left")
  <2>1. Par(u, p) \notin S
    BY <1>9, <1>1, <1>2, <1>5, TreeOfFacts
  <2> QED BY <2>1, <1>2, <1>4, <1>8, EvenIsBalanced
<1>10. ASSUME NEW m \in S, RedBelowRed(u, m) PROVE Par(u, m) = p
  <2>1. m \in Cell /\ Par(t, m) \in Cell /\ Par(u, m) = Par(t, m)
    BY <1>5, TreeOfFacts
  <2>2. CASE m = w
    BY <2>1, <2>2, <1>1
  <2>3. CASE Par(t, m) = w
    <3>1. ~IsRed(t, m)
      BY <2>3, <1>1, TreeOfFacts
    <3>2. m # w
      BY <2>3, <1>1
    <3> QED BY <2>1, <3>1, <3>2, <1>3, <1>10 DEF RedBelowRed
  <2>4. CASE m # w /\ Par(t, m) # w
    BY <2>1, <2>4, <1>1, <1>3, <1>10 DEF RedBelowRed
  <2> QED BY <2>2, <2>3, <2>4
<1>11. ~IsRed(u, Top(u))
  BY <1>1, <1>2, <1>3, <1>4
<1>12. IsRed(u, p) = IsRed(t, p)
  BY <1>1, <1>2, <1>3
<1>13. IsMissing(u, p, old) \/ p = Top(t)
  BY <1>1, <1>12 DEF IsMissing
<1>14. Repairing(u, S, H2, p, old)
  <2>1. IF IsMissing(u, p, old)
        THEN /\ p \in S
             /\ Balanced(u, S, H2, Par(u, p), SideOf(u, p))
        ELSE Balanced(u, S, H2, nil, "left")
    BY <1>1, <1>8, <1>9, <1>13
  <2>2. IsRed(u, p) \/ p = old \/ Top(u) = old \/ (IsRed(u, Par(u, p)) /\ old = Par(u, p))
    BY <1>1, <1>4, <1>12
  <2> QED BY <2>1, <2>2, <1>1, <1>10, <1>11 DEF Repairing
<1> QED BY <1>4, <1>14

\* A red inner nephew comes between the parent and the sibling.
LEMMA InnerNephewKeeps ==
  ASSUME NEW t, NEW S, TreeOf(t, S), NEW H, NEW n, NEW old, Repairing(t, S, H, n, old),
         ~IsRed(t, n), n # old,
         NEW p, p = Par(t, n), NEW side, side = SideOf(t, n), NEW far, far = Other(side),
         NEW w, w = Kid(t, far, p), ~IsRed(t, w),
         NEW inner, inner = Kid(t, side, w), IsRed(t, inner), ~IsRed(t, Kid(t, far, w)),
         NEW u, Recolored(t, {inner}, {w}, u), NEW v, v = Rotate(u, w, far)
  PROVE  /\ TreeOf(v, S) /\ \E H2 : Repairing(v, S, H2, n, old)
         /\ ~IsRed(v, n) /\ Par(v, n) = p /\ SideOf(v, n) = side /\ Kid(v, far, p) = inner
         /\ ~IsRed(v, inner) /\ Kid(v, far, inner) = w /\ IsRed(v, w)
<1> DEFINE outer == Kid(t, far, w)
           deep == Kid(t, far, inner)
           low == Kid(t, side, inner)
<1> USE SideFacts, CellFacts
<1>1. /\ p \in S /\ side \in Side /\ Kid(t, side, p) = n /\ n \in S \cup {nil}
      /\ n # p /\ n # Top(t) /\ ~IsRed(t, Top(t)) /\ old \in S \cup {nil}
      /\ w \in S /\ w # n /\ w # p /\ w # Top(t) /\ Par(t, w) = p
      /\ Top(t) = old \/ (IsRed(t, p) /\ old = p)
      /\ \A m \in S : ~RedBelowRed(t, m)
      /\ H \in [Cell -> Nat] /\ H[nil] = 0
      /\ \A m \in S, s \in Side : m # p \/ s # side => H[m] = Black(t, m) + H[Kid(t, s, m)]
      /\ H[p] = Black(t, p) + H[n] + 1 /\ H[w] = H[n] + 1
  BY RepairPlace
<1>2. S \subseteq Cell /\ nil \notin S /\ root \notin S /\ ~IsRed(t, nil) /\ ~IsRed(t, root) /\ Top(t) \in Cell /\ t \in Tree
  BY TreeOfFacts
<1>3. SameLinks(t, u) /\ \A m \in Cell : IsRed(u, m) = IF m = w THEN TRUE ELSE IF m = inner THEN FALSE ELSE IsRed(t, m)
  BY DEF Recolored
<1>4. far \in Side /\ Other(far) = side /\ side # far /\ \A s \in Side : s = side \/ s = far
  BY <1>1
<1>5. inner \in S /\ inner # w /\ inner # p /\ Par(t, inner) = w /\ inner # Top(t) /\ inner # nil /\ inner # n
  <2>1. inner # nil
    BY <1>2
  <2>2. inner \in S /\ inner # w /\ inner # Par(t, w) /\ Par(t, inner) = w /\ inner # Top(t)
    BY <2>1, <1>1, TreeOfFacts
  <2>3. inner # n
    BY <1>1, <2>1, <2>2, TreeOfFacts
  <2> QED BY <2>1, <2>2, <2>3, <1>1
<1>6. /\ TreeOf(v, S) /\ TurnedTree(t, S, w, far, inner, v)
      /\ \A m \in Cell : IsRed(v, m) = IsRed(u, m)
  <2>1. TreeOf(t, S) /\ inner = Kid(t, Other(far), w) /\ v = Rotate(u, w, far) /\ w \in S /\ far \in Side /\ inner # nil
    BY <1>1, <1>4, <1>5
  <2>2. SameLinks(t, u) /\ ~IsRed(u, nil) /\ ~IsRed(u, root)
    BY <1>1, <1>2, <1>3, <1>5
  <2> QED BY ONLY <2>1, <2>2, TreeRotation
<1>7. \A m \in Cell : IsRed(v, m) = IF m = w THEN TRUE ELSE IF m = inner THEN FALSE ELSE IsRed(t, m)
  BY <1>3, <1>6
<1>8. PICK H2 : Swapped(H, w, inner, H2)
  BY <1>1, <1>2, <1>5, SwapExists
<1>9. /\ H2 \in [Cell -> Nat] /\ H2[nil] = H[nil]
      /\ H2[w] = H[inner] /\ H2[inner] = H[w]
      /\ H2[Kid(v, far, w)] = H[outer]
      /\ H2[Kid(v, side, w)] = H[deep]
      /\ H2[Kid(v, far, inner)] = H[inner]
      /\ H2[Kid(v, side, inner)] = H[low]
      /\ \A m \in S \ {w, inner} : H2[m] = H[m]
      /\ \A m \in S \ {w, inner}, s \in Side : H2[Kid(v, s, m)] = H[Kid(t, s, m)]
  <2>1. TreeOf(t, S) /\ inner = Kid(t, Other(far), w) /\ w \in S /\ far \in Side /\ inner # nil /\ Other(far) = side
    BY <1>1, <1>4, <1>5
  <2> QED BY ONLY <2>1, <1>1, <1>6, <1>8, HeightsAfterRotation
<1>10. /\ Top(v) = IF w = Top(t) THEN inner ELSE Top(t)
       /\ Kid(v, far, inner) = w
       /\ Par(v, w) = inner /\ Par(v, inner) = Par(t, w)
       /\ \A m \in Cell \ {w, inner} : Par(v, m) = IF m = deep /\ m # nil THEN w ELSE Par(t, m)
       /\ \A m \in S \ {w, inner}, s \in Side :
            \/ Kid(t, s, m) = w /\ Kid(v, s, m) = inner
            \/ Kid(t, s, m) \notin {w, inner} /\ Kid(v, s, m) = Kid(t, s, m)
  BY <1>6 DEF TurnedTree
<1>11. /\ deep \in S \cup {nil} /\ outer \in S \cup {nil} /\ low \in S \cup {nil}
       /\ deep # nil => Par(t, deep) = inner
       /\ \A m \in S : Par(t, m) = w => m \in {inner, outer}
  <2>1. \A m \in S : Par(t, m) = w => m \in {inner, outer}
    BY <1>1, <1>4, TreeOfFacts
  <2> QED BY <2>1, <1>1, <1>4, <1>5, TreeOfFacts
<1> HIDE DEF deep, outer, low
<1>12. /\ H[n] \in Nat /\ H[inner] \in Nat /\ H[outer] \in Nat /\ H[deep] \in Nat /\ H[low] \in Nat
       /\ H[inner] = H[n] /\ H[outer] = H[n] /\ H[deep] = H[n] /\ H[low] = H[n] /\ H[w] = H[n] + 1
  <2>1. H[n] \in Nat /\ H[inner] \in Nat /\ H[outer] \in Nat /\ H[deep] \in Nat /\ H[low] \in Nat
    BY <1>1, <1>2, <1>5, <1>11
  <2>2. Black(t, w) = 1 /\ Black(t, inner) = 0
    BY DEF Black
  <2>3. H[w] = 1 + H[inner] /\ H[w] = 1 + H[outer] /\ H[inner] = 0 + H[deep] /\ H[inner] = 0 + H[low]
    BY <1>1, <1>4, <1>5, <2>2 DEF outer, deep, low
  <2> QED BY <1>1, <2>1, <2>3
<1>13. Kid(v, side, p) = n /\ Kid(v, far, p) = inner
  <2>1. p \in S \ {w, inner} /\ Kid(t, far, p) = w /\ Kid(t, side, p) = n
    BY <1>1, <1>5
  <2> QED BY <2>1, <1>1, <1>4, <1>10
<1>14. ASSUME NEW m \in S, NEW s \in Side, m # p \/ s # side
       PROVE  H2[m] = Black(v, m) + H2[Kid(v, s, m)]
  <2>1. Black(v, w) = 0 /\ Black(v, inner) = 1
    BY <1>1, <1>2, <1>5, <1>7 DEF Black
  <2>2. CASE m = w
    <3>1. H2[Kid(v, s, m)] = H[n]
      BY <1>4, <1>9, <1>12, <2>2
    <3>2. H2[m] = H[n]
      BY <1>9, <1>12, <2>2
    <3> QED BY <3>1, <3>2, <2>1, <2>2, <1>12
  <2>3. CASE m = inner
    <3>1. H2[Kid(v, s, m)] = H[n]
      BY <1>4, <1>9, <1>12, <2>3
    <3>2. H2[m] = H[n] + 1
      BY <1>9, <1>12, <2>3
    <3> QED BY <3>1, <3>2, <2>1, <2>3, <1>12
  <2>4. CASE m \notin {w, inner}
    <3>1. Black(v, m) = Black(t, m)
      BY <1>2, <1>7, <2>4 DEF Black
    <3>2. H[m] = Black(t, m) + H[Kid(t, s, m)]
      BY <1>1, <1>14
    <3> QED BY <3>1, <3>2, <1>9, <2>4
  <2> QED BY <2>2, <2>3, <2>4
<1>15. H2[p] = Black(v, p) + H2[n] + 1
  <2>1. H2[p] = H[p]
    BY <1>1, <1>5, <1>9
  <2>2. Black(v, p) = Black(t, p)
    BY <1>1, <1>2, <1>5, <1>7 DEF Black
  <2>3. H2[n] = H[n]
    BY <1>1, <1>5, <1>9
  <2> QED BY <2>1, <2>2, <2>3, <1>1
<1>16. ASSUME NEW m \in S PROVE ~RedBelowRed(v, m)
  <2>1. m \in Cell /\ Par(t, m) \in Cell /\ m # nil
    BY TreeOfFacts
  <2>2. ~RedBelowRed(t, m)
    BY <1>1
  <2>3. CASE m = w
    <3>1. Par(v, m) = inner /\ ~IsRed(v, inner)
      BY <2>3, <1>2, <1>5, <1>7, <1>10
    <3> QED BY <3>1 DEF RedBelowRed
  <2>4. CASE m = inner
    BY <2>1, <2>4, <1>5, <1>7 DEF RedBelowRed
  <2>5. CASE m = outer /\ m # w
    <3>1. ~IsRed(t, m)
      BY <2>5 DEF outer
    <3> QED BY <2>1, <2>5, <3>1, <1>7 DEF RedBelowRed
  <2>6. CASE m = deep /\ m # w
    <3>1. ~IsRed(t, m)
      BY <2>1, <2>2, <2>6, <1>11 DEF RedBelowRed
    <3> QED BY <2>1, <2>6, <3>1, <1>7 DEF RedBelowRed
  <2>7. CASE m \notin {w, inner, outer, deep}
    <3>1. Par(v, m) = Par(t, m) /\ Par(t, m) # w
      BY <2>1, <2>7, <1>10, <1>11
    <3> QED BY <2>1, <2>2, <2>7, <3>1, <1>7 DEF RedBelowRed
  <2> QED BY <2>3, <2>4, <2>5, <2>6, <2>7
<1>17. ~IsRed(v, Top(v)) /\ Top(v) = Top(t)
  <2>1. Top(v) = Top(t)
    BY <1>1, <1>10
  <2>2. Top(t) # w /\ Top(t) # inner /\ Top(t) \in Cell /\ ~IsRed(t, Top(t))
    BY <1>1, <1>2, <1>5
  <2> QED BY <2>1, <2>2, <1>7
<1>18. IsRed(v, p) = IsRed(t, p) /\ ~IsRed(v, n) /\ ~IsRed(v, inner) /\ IsRed(v, w)
  BY <1>1, <1>2, <1>5, <1>7
<1>19. Par(v, n) = p
  <2>1. n \in Cell \ {w, inner} /\ (n # deep \/ n = nil)
    BY <1>1, <1>2, <1>5, <1>11
  <2> QED BY <2>1, <1>1, <1>2, <1>5, <1>10
<1>20. Top(v) = old \/ (IsRed(v, p) /\ old = p)
  BY <1>1, <1>17, <1>18
<1>21. Repairing(v, S, H2, n, old) /\ SideOf(v, n) = side
  <2>1. TreeOf(v, S) /\ H2 \in [Cell -> Nat] /\ H2[nil] = 0 /\ n \in S \cup {nil} /\ old \in S \cup {nil} /\ p \in S /\ side \in Side
    BY <1>1, <1>6, <1>9
  <2>2. ~IsRed(v, n) /\ n # old /\ Par(v, n) = p /\ Kid(v, side, p) = n /\ Kid(v, Other(side), p) # nil
    BY <1>5, <1>13, <1>18, <1>19
  <2> QED BY ONLY <2>1, <2>2, <1>14, <1>15, <1>16, <1>17, <1>20, RepairingAt
<1> QED BY <1>6, <1>10, <1>13, <1>18, <1>19, <1>21

\* u is t with the colour of p given to w, and p and outer painted black.
NephewPainted(t, p, w, outer, u) ==
    /\ SameLinks(t, u)
    /\ \A m \in Cell : IsRed(u, m) = IF m \in {p, outer} THEN FALSE ELSE IF m = w THEN IsRed(t, p) ELSE IsRed(t, m)

\* A red outer nephew pays for the missing black node: the tree is whole again.
LEMMA OuterNephewKeeps ==
  ASSUME NEW t, NEW S, TreeOf(t, S), NEW H, NEW n, NEW old, Repairing(t, S, H, n, old),
         ~IsRed(t, n), n # old,
         NEW p, p = Par(t, n), NEW side, side = SideOf(t, n), NEW far, far = Other(side),
         NEW w, w = Kid(t, far, p), ~IsRed(t, w),
         NEW outer, outer = Kid(t, far, w), IsRed(t, outer),
         NEW u, NephewPainted(t, p, w, outer, u),
         NEW v, v = Rotate(u, p, side)
  PROVE  TreeOf(v, S) /\ \E H2 : Repairing(v, S, H2, old, old)
<1> DEFINE inner == Kid(t, side, w)
<1> USE SideFacts, CellFacts
<1>1. /\ p \in S /\ side \in Side /\ Kid(t, side, p) = n /\ n \in S \cup {nil}
      /\ n # p /\ n # Top(t) /\ ~IsRed(t, Top(t)) /\ old \in S \cup {nil}
      /\ w \in S /\ w # n /\ w # p /\ w # Top(t) /\ Par(t, w) = p
      /\ Top(t) = old \/ (IsRed(t, p) /\ old = p)
      /\ \A m \in S : ~RedBelowRed(t, m)
      /\ H \in [Cell -> Nat] /\ H[nil] = 0
      /\ \A m \in S, s \in Side : m # p \/ s # side => H[m] = Black(t, m) + H[Kid(t, s, m)]
      /\ H[p] = Black(t, p) + H[n] + 1 /\ H[w] = H[n] + 1
  BY RepairPlace
<1>2. S \subseteq Cell /\ nil \notin S /\ root \notin S /\ ~IsRed(t, nil) /\ ~IsRed(t, root) /\ Top(t) \in Cell /\ t \in Tree
      /\ Top(t) \in S
  BY <1>1, TreeOfFacts
<1>3. /\ SameLinks(t, u)
      /\ \A m \in Cell : IsRed(u, m) = IF m \in {p, outer} THEN FALSE ELSE IF m = w THEN IsRed(t, p) ELSE IsRed(t, m)
  BY DEF NephewPainted
<1>4. far \in Side /\ Other(far) = side /\ side # far /\ \A s \in Side : s = side \/ s = far
  BY <1>1
<1>5. outer \in S /\ outer # w /\ outer # p /\ Par(t, outer) = w /\ outer # inner /\ outer # n
  <2>1. outer # nil
    BY <1>2
  <2>2. outer \in S /\ outer # w /\ outer # Par(t, w) /\ Par(t, outer) = w /\ outer # Kid(t, Other(far), w)
    BY <2>1, <1>1, <1>4, TreeOfFacts
  <2>3. outer # n
    BY <1>1, <2>1, <2>2, TreeOfFacts
  <2> QED BY <2>2, <2>3, <1>1, <1>4
<1>6. /\ TreeOf(v, S) /\ TurnedTree(t, S, p, side, w, v)
      /\ \A m \in Cell : IsRed(v, m) = IsRed(u, m)
  <2>1. TreeOf(t, S) /\ w = Kid(t, Other(side), p) /\ v = Rotate(u, p, side) /\ p \in S /\ side \in Side /\ w # nil
    BY <1>1, <1>2
  <2>2. SameLinks(t, u) /\ ~IsRed(u, nil) /\ ~IsRed(u, root)
    BY <1>1, <1>2, <1>3
  <2> QED BY ONLY <2>1, <2>2, TreeRotation
<1>7. \A m \in Cell : IsRed(v, m) = IF m \in {p, outer} THEN FALSE ELSE IF m = w THEN IsRed(t, p) ELSE IsRed(t, m)
  BY <1>3, <1>6
<1>8. PICK H1 : Swapped(H, p, w, H1)
  BY <1>1, <1>2, SwapExists
<1>9. /\ H1 \in [Cell -> Nat] /\ H1[nil] = H[nil]
      /\ H1[p] = H[w] /\ H1[w] = H[p]
      /\ H1[Kid(v, side, p)] = H[n]
      /\ H1[Kid(v, far, p)] = H[inner]
      /\ H1[Kid(v, side, w)] = H[w]
      /\ H1[Kid(v, far, w)] = H[outer]
      /\ \A m \in S \ {p, w} : H1[m] = H[m]
      /\ \A m \in S \ {p, w}, s \in Side : H1[Kid(v, s, m)] = H[Kid(t, s, m)]
  <2>1. TreeOf(t, S) /\ w = Kid(t, Other(side), p) /\ p \in S /\ side \in Side /\ w # nil /\ H \in [Cell -> Nat]
    BY <1>1, <1>2
  <2>2. /\ H1 \in [Cell -> Nat] /\ H1[nil] = H[nil]
        /\ H1[p] = H[w] /\ H1[w] = H[p]
        /\ H1[Kid(v, side, p)] = H[Kid(t, side, p)]
        /\ H1[Kid(v, Other(side), p)] = H[Kid(t, side, w)]
        /\ H1[Kid(v, side, w)] = H[w]
        /\ H1[Kid(v, Other(side), w)] = H[Kid(t, Other(side), w)]
        /\ \A m \in S \ {p, w} : H1[m] = H[m]
        /\ \A m \in S \ {p, w}, s \in Side : H1[Kid(v, s, m)] = H[Kid(t, s, m)]
    BY ONLY <2>1, <1>6, <1>8, HeightsAfterRotation
  <2> QED BY <2>2, <1>1
<1>10. /\ Top(v) = IF p = Top(t) THEN w ELSE Top(t)
       /\ Kid(v, far, p) = inner /\ Kid(v, far, w) = outer
       /\ Par(v, p) = w /\ Par(v, w) = Par(t, p)
       /\ \A m \in Cell \ {p, w} : Par(v, m) = IF m = inner /\ m # nil THEN p ELSE Par(t, m)
  BY <1>6 DEF TurnedTree
<1>11. /\ inner \in S \cup {nil}
       /\ inner # nil => Par(t, inner) = w
       /\ \A m \in S : Par(t, m) = w => m \in {inner, outer}
       /\ \A m \in S : Par(t, m) = p => m \in {n, w}
  <2>1. \A m \in S : Par(t, m) = w => m \in {inner, outer}
    BY <1>1, <1>4, TreeOfFacts
  <2>2. \A m \in S : Par(t, m) = p => m \in {n, w}
    BY <1>1, <1>4, TreeOfFacts
  <2> QED BY <2>1, <2>2, <1>1, TreeOfFacts
<1> HIDE DEF inner
<1>12. /\ H[n] \in Nat /\ H[inner] = H[n] /\ H[outer] = H[n] /\ H[w] = H[n] + 1
       /\ \A s \in Side : H[Kid(t, s, outer)] = H[n]
  <2>1. H[n] \in Nat /\ H[inner] \in Nat /\ H[outer] \in Nat /\ \A s \in Side : H[Kid(t, s, outer)] \in Nat
    <3>1. n \in Cell /\ inner \in Cell /\ outer \in Cell
      BY <1>1, <1>2, <1>5, <1>11
    <3>2. \A s \in Side : Kid(t, s, outer) \in Cell
      BY <1>5, TreeOfFacts
    <3> QED BY <3>1, <3>2, <1>1
  <2>2. Black(t, w) = 1 /\ Black(t, outer) = 0
    BY DEF Black
  <2>3. H[w] = 1 + H[inner] /\ H[w] = 1 + H[outer]
    BY <1>1, <1>4, <2>2 DEF inner
  <2>4. \A s \in Side : H[outer] = 0 + H[Kid(t, s, outer)]
    BY <1>1, <1>5, <2>2
  <2> QED BY <1>1, <2>1, <2>3, <2>4
<1> DEFINE H2 == [m \in Cell |-> IF m = outer THEN H1[m] + 1 ELSE H1[m]]
<1>13. /\ H2 \in [Cell -> Nat] /\ H2[nil] = 0
       /\ H2[outer] = H1[outer] + 1
       /\ \A m \in Cell \ {outer} : H2[m] = H1[m]
  BY <1>1, <1>2, <1>5, <1>9
<1> HIDE DEF H2
<1>14. Par(v, outer) = w
  BY <1>1, <1>2, <1>5, <1>10
<1>15. ASSUME NEW m \in S, NEW s \in Side
       PROVE  H2[m] = Black(v, m) + H2[Kid(v, s, m)]
  <2> DEFINE k == Kid(v, s, m)
  <2>1. k \in Cell /\ (k = outer => m = w)
    BY <1>2, <1>5, <1>6, <1>14, TreeOfFacts
  <2>2. Black(v, p) = 1 /\ Black(v, outer) = 1 /\ Black(v, w) = Black(t, p) /\ Black(t, outer) = 0 /\ Black(t, p) \in Nat
    BY <1>1, <1>2, <1>5, <1>7 DEF Black
  <2>3. CASE m = p
    <3>1. H2[k] = H[n]
      BY <1>1, <1>4, <1>9, <1>12, <1>13, <2>1, <2>3
    <3>2. H2[m] = H[n] + 1
      BY <1>1, <1>2, <1>5, <1>9, <1>12, <1>13, <2>3
    <3> QED BY <3>1, <3>2, <2>2, <2>3, <1>12
  <2>4. CASE m = w
    <3>1. H2[k] = H[n] + 1
      <4>1. CASE s = far
        <5>1. k = outer /\ H1[k] = H[n]
          BY <4>1, <2>4, <1>9, <1>10, <1>12
        <5> QED BY <5>1, <1>13
      <4>2. CASE s = side
        <5>1. k # outer
          BY <4>2, <2>4, <1>1, <1>2, <1>4, <1>5, <1>6, <1>10, TreeOfFacts
        <5>2. H1[k] = H[n] + 1
          BY <4>2, <2>4, <1>9, <1>12
        <5> QED BY <5>1, <5>2, <2>1, <1>13
      <4> QED BY <4>1, <4>2, <1>4
    <3>2. H2[m] = Black(t, p) + H[n] + 1
      BY <1>1, <1>2, <1>5, <1>9, <1>13, <2>4
    <3> QED BY <3>1, <3>2, <2>2, <2>4, <1>12
  <2>5. CASE m = outer
    <3>1. H2[k] = H[n]
      <4>1. H1[k] = H[n] /\ k # outer
        BY <2>1, <2>5, <1>1, <1>5, <1>9, <1>12
      <4> QED BY <4>1, <2>1, <1>13
    <3>2. H2[m] = H[n] + 1
      BY <1>1, <1>5, <1>9, <1>12, <1>13, <2>5
    <3> QED BY <3>1, <3>2, <2>2, <2>5, <1>12
  <2>6. CASE m \notin {p, w, outer}
    <3>1. Black(v, m) = Black(t, m)
      BY <1>2, <1>7, <2>6 DEF Black
    <3>2. H[m] = Black(t, m) + H[Kid(t, s, m)]
      BY <1>1, <2>6
    <3>3. H2[m] = H[m] /\ H2[k] = H[Kid(t, s, m)]
      BY <1>2, <1>9, <1>13, <2>1, <2>6
    <3> QED BY <3>1, <3>2, <3>3
  <2> QED BY <2>3, <2>4, <2>5, <2>6
<1>16. Balanced(v, S, H2, nil, "left")
  BY <1>2, <1>6, <1>13, <1>15, EvenIsBalanced DEF Even
<1>17. ASSUME NEW m \in S PROVE ~RedBelowRed(v, m)
  <2>1. m \in Cell /\ Par(t, m) \in Cell /\ m # nil
    BY TreeOfFacts
  <2>2. ~RedBelowRed(t, m)
    BY <1>1
  <2>3. CASE m \in {p, outer}
    BY <2>1, <2>3, <1>7 DEF RedBelowRed
  <2>4. CASE m = w
    <3>1. Par(v, m) = Par(t, p) /\ IsRed(v, m) = IsRed(t, p) /\ Par(t, p) \in Cell /\ Par(t, p) # w
      <4>1. Par(t, p) \in Cell /\ Par(t, p) # w
        BY <1>1, TreeOfFacts
      <4> QED BY <4>1, <2>1, <2>4, <1>1, <1>5, <1>7, <1>10
    <3>2. ~RedBelowRed(t, p)
      BY <1>1
    <3> QED BY <3>1, <3>2, <1>7 DEF RedBelowRed
  <2>5. CASE m \in {n, inner} /\ m \notin {p, w, outer}
    <3>1. Par(v, m) = p /\ ~IsRed(v, p)
      BY <2>1, <2>5, <1>1, <1>2, <1>7, <1>10
    <3> QED BY <3>1 DEF RedBelowRed
  <2>6. CASE m \notin {p, w, outer, n, inner}
    <3>1. Par(v, m) = Par(t, m) /\ Par(t, m) # w
      BY <2>1, <2>6, <1>10, <1>11
    <3> QED BY <2>1, <2>2, <2>6, <3>1, <1>7 DEF RedBelowRed
  <2> QED BY <2>3, <2>4, <2>5, <2>6
<1>18. ~IsRed(v, Top(v))
  <2>1. CASE p = Top(t)
    <3>1. Top(v) = w /\ ~IsRed(t, p)
      BY <2>1, <1>1, <1>10
    <3> QED BY <3>1, <1>1, <1>2, <1>7
  <2>2. CASE p # Top(t)
    <3>1. Top(v) = Top(t) /\ Top(t) # w /\ ~IsRed(t, Top(t))
      BY <2>2, <1>1, <1>10
    <3> QED BY <3>1, <1>2, <1>7
  <2> QED BY <2>1, <2>2
<1>19. ~IsRed(v, old)
  <2>1. CASE old = p
    BY <2>1, <1>1, <1>2, <1>7
  <2>2. CASE old # p
    <3>1. old = Top(t) /\ old # w /\ ~IsRed(t, old) /\ old \in Cell
      BY <2>2, <1>1, <1>2
    <3> QED BY <3>1, <2>2, <1>7
  <2> QED BY <2>1, <2>2
<1>20. Repairing(v, S, H2, old, old)
  BY <1>1, <1>16, <1>17, <1>18, <1>19 DEF Repairing, IsMissing
<1> QED BY <1>6, <1>20

\* A red x is painted black; the old root needs nothing.
LEMMA EndRepairKeeps ==
  ASSUME NEW t, NEW S, TreeOf(t, S), NEW H, NEW n, NEW old, Repairing(t, S, H, n, old),
         IsRed(t, n) \/ n = old,
         NEW u, Painted(t, {n}, FALSE, u)
  PROVE  TreeOf(u, S) /\ \E H2 : Sound(u, S, H2)
<1> USE SideFacts, CellFacts
<1>1. S \subseteq Cell /\ nil \notin S /\ root \notin S /\ ~IsRed(t, nil) /\ ~IsRed(t, root) /\ Top(t) \in Cell /\ t \in Tree
  BY TreeOfFacts
<1>2. SameLinks(t, u) /\ \A m \in Cell : IsRed(u, m) = IF m = n THEN FALSE ELSE IsRed(t, m)
  BY DEF Painted
<1>3. TreeOf(u, S) /\ Top(u) = Top(t)
  BY <1>1, <1>2, PaintedTree
<1>4. /\ \A m \in S : Par(u, m) = Par(t, m)
      /\ \A m \in S, s \in Side : Kid(u, s, m) = Kid(t, s, m)
  BY <1>1, <1>2 DEF SameLinks
<1>5. ASSUME NEW m \in S PROVE ~RedBelowRed(u, m)
  <2>1. m \in Cell /\ Par(t, m) \in Cell
    BY TreeOfFacts
  <2>2. RedBelowRed(t, m) => m = n \/ Par(t, m) = n
    BY DEF Repairing
  <2> QED BY <2>1, <2>2, <1>2, <1>4 DEF RedBelowRed
<1>6. ~IsRed(u, Top(u))
  <2>1. IsRed(t, Top(t)) => Top(t) = n
    BY DEF Repairing
  <2> QED BY <2>1, <1>1, <1>2, <1>3
<1>7. \E H2 : Balanced(u, S, H2, nil, "left")
  <2>1. CASE IsRed(t, n)
    <3> DEFINE p == Par(t, n)
               side == SideOf(t, n)
               H2 == [m \in Cell |-> IF m = n THEN H[m] + 1 ELSE H[m]]
    <3>1. n \in S /\ Balanced(t, S, H, p, side)
      BY <2>1, <1>1 DEF Repairing, IsMissing
    <3>2. /\ H \in [Cell -> Nat] /\ H[nil] = 0
          /\ \A m \in S, s \in Side : H[m] = Black(t, m) + H[Kid(t, s, m)] + (IF m = p /\ s = side THEN 1 ELSE 0)
      BY <3>1 DEF Balanced
    <3>3. /\ H2 \in [Cell -> Nat] /\ H2[nil] = 0 /\ H2[n] = H[n] + 1
          /\ \A m \in Cell \ {n} : H2[m] = H[m]
      BY <1>1, <3>1, <3>2
    <3> HIDE DEF H2
    <3>4. ASSUME NEW m \in S, NEW s \in Side
          PROVE  H2[m] = Black(u, m) + H2[Kid(u, s, m)]
      <4> DEFINE k == Kid(t, s, m)
      <4>1. k \in Cell /\ Kid(u, s, m) = k /\ k # m /\ H[k] \in Nat
        BY <1>4, <3>2, TreeOfFacts
      <4>2. k = n <=> m = p /\ s = side
        BY <1>1, <3>1, TreeOfFacts
      <4>3. CASE k = n
        <5>1. H2[k] = H[k] + 1 /\ H2[m] = H[m] /\ Black(u, m) = Black(t, m) /\ Black(t, m) \in Nat
          BY <4>1, <4>3, <1>1, <1>2, <3>3 DEF Black
        <5>2. H[m] = Black(t, m) + H[k] + 1
          BY <3>2, <4>2, <4>3
        <5> QED BY <5>1, <5>2, <4>1
      <4>4. CASE k # n /\ m = n
        <5>1. H2[k] = H[k] /\ H2[m] = H[m] + 1 /\ Black(u, m) = 1 /\ Black(t, m) = 0
          BY <4>1, <4>4, <1>1, <1>2, <2>1, <3>3 DEF Black
        <5>2. H[m] = Black(t, m) + H[k] + 0
          BY <3>2, <4>2, <4>4
        <5> QED BY <5>1, <5>2, <4>1
      <4>5. CASE k # n /\ m # n
        <5>1. H2[k] = H[k] /\ H2[m] = H[m] /\ Black(u, m) = Black(t, m) /\ Black(t, m) \in Nat
          BY <4>1, <4>5, <1>1, <1>2, <3>3 DEF Black
        <5>2. H[m] = Black(t, m) + H[k] + 0
          BY <3>2, <4>2, <4>5
        <5> QED BY <5>1, <5>2, <4>1
      <4> QED BY <4>3, <4>4, <4>5
    <3>5. Even(u, S, H2)
      BY <3>3, <3>4 DEF Even
    <3>6. Balanced(u, S, H2, nil, "left")
      BY <1>1, <1>3, <3>5, EvenIsBalanced
    <3> QED BY <3>6
  <2>2. CASE ~IsRed(t, n)
    <3>1. Even(t, S, H)
      BY <2>2, <1>1, EvenIsBalanced DEF Repairing, IsMissing
    <3>2. \A m \in S : Black(u, m) = Black(t, m)
      BY <1>1, <1>2, <2>2 DEF Black
    <3>3. Even(u, S, H)
      BY <3>1, <3>2, <1>4 DEF Even
    <3> QED BY <3>3, <1>1, <1>3, EvenIsBalanced
  <2> QED BY <2>1, <2>2
<1> QED BY <1>3, <1>5, <1>6, <1>7 DEF Sound

------------------------------------------------------------------------------
(* Descents                                                                *)

\* What the comparisons say.
LEMMA CompareFacts ==
  ASSUME NEW b \in Span, NEW a \in Span
  PROVE  /\ CompareBox(b, a) \in {0, 1, -1, 2}
         /\ CompareBox(b, a) = 0 <=> b = a
         /\ CompareBox(b, a) = 1 <=> Beside("left", a, b)
         /\ CompareBox(b, a) = -1 <=> Beside("right", a, b)
         /\ CompareBox(b, a) = 2 <=> b # a /\ ~Beside("left", a, b) /\ ~Beside("right", a, b)
<1>1. a[1] \in Nat /\ a[2] \in Nat /\ a[1] <= a[2] /\ b[1] \in Nat /\ b[2] \in Nat /\ b[1] <= b[2]
  BY DEF Span
<1>2. CASE b = a
  BY <1>1, <1>2 DEF CompareBox, Beside
<1>3. CASE b # a /\ b[2] < a[1]
  BY <1>1, <1>3 DEF CompareBox, Beside
<1>4. CASE b # a /\ ~(b[2] < a[1]) /\ a[2] < b[1]
  BY <1>1, <1>4 DEF CompareBox, Beside
<1>5. CASE b # a /\ ~(b[2] < a[1]) /\ ~(a[2] < b[1])
  BY <1>1, <1>5 DEF CompareBox, Beside
<1> QED BY <1>2, <1>3, <1>4, <1>5

\* CompareQuery finds a point within an interval, or on the side where it lies.
LEMMA QueryFacts ==
  ASSUME NEW b \in Span, NEW q \in Nat
  PROVE  /\ <<q, q>> \in Span
         /\ CompareQuery(b, <<q, q>>) \in {0, 1, -1}
         /\ CompareQuery(b, <<q, q>>) = 0 <=> b[1] <= q /\ q <= b[2]
         /\ CompareQuery(b, <<q, q>>) = 1 <=> Beside("left", <<q, q>>, b)
         /\ CompareQuery(b, <<q, q>>) = -1 <=> Beside("right", <<q, q>>, b)
BY DEF Span, CompareQuery, Beside

\* A descent begins at the top.
LEMMA DescentBegins ==
  ASSUME NEW t, NEW B, Links(t, B), NEW a
  PROVE  OnTheWay(t, B, Top(t), root, a)
<1>1. Top(t) \in B[Top(t)] \cup {nil}
  BY DEF Links
<1>2. \A n \in B[Top(t)], s \in Side : root \notin B[Kid(t, s, n)]
  BY KidFacts, CellFacts
<1> QED BY <1>1, <1>2 DEF OnTheWay

\* Nothing below a node has the node below it.
LEMMA NoCycle ==
  ASSUME NEW t, NEW B, Links(t, B), NEW n \in B[Top(t)], NEW m \in B[n], NEW s \in Side
  PROVE  n \notin B[Kid(t, s, m)]
<1> DEFINE l == Kid(t, "left", n)
           r == Kid(t, "right", n)
<1> USE SideFacts
<1>1. B[n] = {n} \cup B[l] \cup B[r] /\ n \notin B[l] /\ n \notin B[r]
  BY NodeFacts, KidFacts
<1>2. m \in B[Top(t)]
  BY BelowFacts
<1>3. B[Kid(t, s, m)] \subseteq B[m] /\ m \notin B[Kid(t, s, m)]
  BY <1>2, KidFacts
<1>4. l \in B[Top(t)] \cup {nil} /\ r \in B[Top(t)] \cup {nil}
  BY KidFacts
<1>5. (m \in B[l] => B[m] \subseteq B[l]) /\ (m \in B[r] => B[m] \subseteq B[r])
  BY <1>4, BelowFacts
<1> QED BY <1>1, <1>3, <1>5

\* Above a node on the way, the argument is on the side where the way goes.
LEMMA AboveTheWay ==
  ASSUME NEW t, NEW B, Links(t, B), NEW n \in B[Top(t)], NEW q, NEW a \in Span, OnTheWay(t, B, n, q, a),
         NEW m \in B[Top(t)], NEW s \in Side, n \in B[Kid(t, s, m)]
  PROVE  Beside(s, a, m)
<1>1. m \notin B[n]
  BY NoCycle
<1>2. PICK r \in Side : Beside(r, a, m) /\ \A k \in B[n] : Beside(r, k, m)
  BY <1>1 DEF OnTheWay
<1>3. Beside(r, n, m) /\ Beside(s, n, m) /\ n \in Box /\ m \in Box
  BY <1>2, NodeFacts, KidFacts
<1>4. r = s
  BY <1>3, SideFacts, BesideFacts
<1> QED BY <1>2, <1>4

\* An overlap: the loop goes round.
LEMMA DescentStays ==
  ASSUME NEW t, NEW B, Links(t, B), NEW n \in B[Top(t)], NEW q, NEW a \in Span, OnTheWay(t, B, n, q, a)
  PROVE  OnTheWay(t, B, n, n, a)
<1>1. \A m \in B[Top(t)], s \in Side : n \in B[Kid(t, s, m)] => Beside(s, a, m)
  BY AboveTheWay
<1> QED BY <1>1 DEF OnTheWay

\* The descent goes to the child on whose side the argument is.
LEMMA DescentGoesOn ==
  ASSUME NEW t, NEW B, Links(t, B), NEW n \in B[Top(t)], NEW q, NEW a \in Span, OnTheWay(t, B, n, q, a),
         NEW s \in Side, Beside(s, a, n)
  PROVE  OnTheWay(t, B, Kid(t, s, n), n, a)
<1> DEFINE S == B[Top(t)]
           k == Kid(t, s, n)
           o == Kid(t, Other(s), n)
<1> USE SideFacts
<1>1. \A m \in S, r \in Side : n \in B[Kid(t, r, m)] => Beside(r, a, m)
  BY AboveTheWay
<1>2. k \in S \cup {nil} /\ B[k] \subseteq B[n] /\ B[k] \subseteq Box /\ \A m \in B[k] : Beside(s, m, n)
  BY KidFacts
<1>3. B[n] = {n} \cup B[k] \cup B[o] /\ n \in Box
  BY NodeFacts
<1>4. B[o] \subseteq Box /\ \A m \in B[o] : Beside(Other(s), m, n)
  BY KidFacts
<1>5. ASSUME NEW m \in S \ B[k]
      PROVE  \E r \in Side : Beside(r, a, m) /\ \A j \in B[k] : Beside(r, j, m)
  <2>1. CASE m \notin B[n]
    <3>1. PICK r \in Side : Beside(r, a, m) /\ \A j \in B[n] : Beside(r, j, m)
      BY <2>1 DEF OnTheWay
    <3> QED BY <3>1, <1>2
  <2>2. CASE m = n
    BY <2>2, <1>2
  <2>3. CASE m \in B[o]
    <3>1. m \in Box /\ Beside(s, n, m)
      BY <2>3, <1>3, <1>4, BesideFacts
    <3>2. m \in Span /\ n \in Span
      BY <3>1, <1>3, BesideFacts
    <3>3. Beside(s, a, m)
      BY <3>1, <3>2, SpanFacts
    <3>4. \A j \in B[k] : Beside(s, j, m)
      BY <3>1, <1>2, <1>3, BesideFacts
    <3> QED BY <3>3, <3>4
  <2> QED BY <2>1, <2>2, <2>3, <1>3
<1> HIDE DEF S, k
<1>6. /\ k \in S \cup {nil}
      /\ n \in S /\ k = Kid(t, s, n) /\ Beside(s, a, n)
      /\ \A m \in S, r \in Side : n \in B[Kid(t, r, m)] => Beside(r, a, m)
      /\ \A m \in S \ B[k] : \E r \in Side : Beside(r, a, m) /\ \A j \in B[k] : Beside(r, j, m)
  BY <1>1, <1>2, <1>5 DEF S, k
<1>7. OnTheWay(t, B, k, n, a)
  BY <1>6 DEF OnTheWay, S
<1> QED BY <1>7 DEF k

\* The other nodes are apart from what the descent looks for, or from the node it has found.
LEMMA DescentIsExact ==
  ASSUME NEW t, NEW B, Links(t, B), NEW n, NEW q, NEW a \in Span, OnTheWay(t, B, n, q, a),
         NEW m \in B[Top(t)], m # n
  PROVE  \/ \E s \in Side : Beside(s, a, m)
         \/ n \in B[Top(t)] /\ \E s \in Side : Beside(s, m, n)
<1>1. CASE m \notin B[n]
  BY <1>1 DEF OnTheWay
<1>2. CASE m \in B[n]
  <2>1. n \in B[Top(t)]
    BY <1>2, TreeFacts DEF OnTheWay
  <2>2. B[n] = {n} \cup B[Kid(t, "left", n)] \cup B[Kid(t, "right", n)]
    BY <2>1, NodeFacts, SideFacts
  <2>3. PICK s \in Side : m \in B[Kid(t, s, n)]
    BY <1>2, <2>2, SideFacts
  <2>4. Beside(s, m, n)
    BY <2>1, <2>3, KidFacts
  <2> QED BY <2>1, <2>4
<1> QED BY <1>1, <1>2

\* RBDelete has found z: y is z, or begins the way to its successor.
LEMMA SuccessorBegins ==
  ASSUME NEW t, NEW B, Links(t, B), NEW n \in B[Top(t)], NEW q, NEW a, OnTheWay(t, B, n, q, a),
         NEW k, k = IF Kid(t, "left", n) = nil \/ Kid(t, "right", n) = nil THEN n ELSE Kid(t, "right", n)
  PROVE  AtSuccessor(t, B, k, n)
<1>1. \A m \in B[Top(t)] \ B[n] : \E s \in Side : \A j \in B[n] : Beside(s, j, m)
  BY DEF OnTheWay
<1>2. CASE Kid(t, "left", n) = nil \/ Kid(t, "right", n) = nil
  BY <1>1, <1>2 DEF AtSuccessor
<1>3. CASE Kid(t, "left", n) # nil /\ Kid(t, "right", n) # nil
  <2>1. k = Kid(t, "right", n) /\ k # nil
    BY <1>3
  <2>2. k \in B[Top(t)] /\ k \in B[k] /\ k # n
    BY <2>1, SideFacts, KidFacts
  <2> QED BY <1>1, <2>1, <2>2 DEF AtSuccessor
<1> QED BY <1>2, <1>3

\* To the left is what is smaller.
LEMMA SuccessorGoesOn ==
  ASSUME NEW t, NEW B, Links(t, B), NEW k, NEW n, AtSuccessor(t, B, k, n), k # n, Kid(t, "left", k) # nil
  PROVE  AtSuccessor(t, B, Kid(t, "left", k), n)
<1> DEFINE l == Kid(t, "left", k)
           r == Kid(t, "right", k)
           R == B[Kid(t, "right", n)]
<1> USE SideFacts
<1>1. /\ n \in B[Top(t)] /\ k \in B[Top(t)] /\ k \in R
      /\ \A m \in B[Top(t)] \ B[n] : \E s \in Side : \A j \in B[n] : Beside(s, j, m)
      /\ \A m \in R : m \in B[k] \/ Beside("left", k, m)
  BY DEF AtSuccessor
<1>2. l \in B[Top(t)] /\ l \in B[l] /\ B[l] \subseteq B[k] /\ Beside("left", l, k) /\ l \in Box /\ k \in Box
  BY <1>1, KidFacts, NodeFacts
<1>3. B[k] = {k} \cup B[l] \cup B[r] /\ \A m \in B[r] : m \in Box /\ Beside("right", m, k)
  BY <1>1, KidFacts, NodeFacts
<1>4. Kid(t, "right", n) \in B[Top(t)] \cup {nil} /\ R \subseteq Box /\ n \notin R
  BY <1>1, KidFacts
<1>5. B[k] \subseteq R
  BY <1>1, <1>4, BelowFacts
<1>6. ASSUME NEW m \in R PROVE m \in B[l] \/ Beside("left", l, m)
  <2>1. m \in Box
    BY <1>4
  <2>2. CASE m \notin B[k]
    BY <2>1, <2>2, <1>1, <1>2, BesideFacts
  <2>3. CASE m = k
    BY <2>3, <1>2
  <2>4. CASE m \in B[r]
    <3>1. Beside("left", k, m)
      BY <2>4, <1>2, <1>3, BesideFacts
    <3> QED BY <2>1, <3>1, <1>2, BesideFacts
  <2> QED BY <2>2, <2>3, <2>4, <1>3
<1>7. l \in R /\ l # n
  BY <1>2, <1>4, <1>5
<1> QED BY <1>1, <1>2, <1>6, <1>7 DEF AtSuccessor

------------------------------------------------------------------------------
(* A new leaf                                                              *)

\* v is t with a new red leaf a on a side of q.
Attached(t, q, side, a, v) ==
    /\ v \in Tree
    /\ \A m \in Cell : IsRed(v, m) = IF m = a THEN TRUE ELSE IsRed(t, m)
    /\ \A m \in Cell : Par(v, m) = IF m = a THEN q ELSE Par(t, m)
    /\ \A s \in Side, m \in Cell : Kid(v, s, m) = IF m = a THEN nil ELSE IF s = side /\ m = q THEN a ELSE Kid(t, s, m)

\* What the assignments of Attach do.
LEMMA AttachAt ==
  ASSUME NEW t \in Tree, NEW q \in Cell, NEW side \in Side, NEW a \in Cell,
         NEW v, v = [Link(t, q, side, a) EXCEPT !.left[a] = nil, !.right[a] = nil, !.red[a] = TRUE]
  PROVE  Attached(t, q, side, a, v)
<1> DEFINE u == Link(t, q, side, a)
<1>1. LinkSet(t, q, side, a, u)
  BY LinkAt
<1>2. v = [u EXCEPT !.left[a] = nil, !.right[a] = nil, !.red[a] = TRUE]
  OBVIOUS
<1> HIDE DEF u
<1>3. /\ u \in Tree
      /\ \A m \in Cell : IsRed(u, m) = IsRed(t, m)
      /\ \A m \in Cell : Par(u, m) = IF m = a THEN q ELSE Par(t, m)
      /\ \A s \in Side, m \in Cell : Kid(u, s, m) = IF s = side /\ m = q THEN a ELSE Kid(t, s, m)
  BY <1>1 DEF LinkSet
<1>4. /\ v \in Tree
      /\ \A m \in Cell : IsRed(v, m) = IF m = a THEN TRUE ELSE IsRed(u, m)
      /\ \A m \in Cell : Par(v, m) = Par(u, m)
      /\ \A s \in Side, m \in Cell : Kid(v, s, m) = IF m = a THEN nil ELSE Kid(u, s, m)
  <2>1. /\ u = [left |-> u.left, right |-> u.right, parent |-> u.parent, red |-> u.red]
        /\ u.left \in [Cell -> Cell] /\ u.right \in [Cell -> Cell] /\ u.parent \in [Cell -> Cell] /\ u.red \in [Cell -> BOOLEAN]
    BY <1>3 DEF Tree
  <2>2. v = [left |-> [u.left EXCEPT ![a] = nil], right |-> [u.right EXCEPT ![a] = nil],
             parent |-> u.parent, red |-> [u.red EXCEPT ![a] = TRUE]]
    BY <1>2, <2>1
  <2>3. /\ v.left = [u.left EXCEPT ![a] = nil] /\ v.right = [u.right EXCEPT ![a] = nil]
        /\ v.parent = u.parent /\ v.red = [u.red EXCEPT ![a] = TRUE]
    BY ONLY <2>2
  <2>4. v \in Tree
    <3> DEFINE l == [u.left EXCEPT ![a] = nil]
               r == [u.right EXCEPT ![a] = nil]
               c == [u.red EXCEPT ![a] = TRUE]
    <3>1. l \in [Cell -> Cell] /\ r \in [Cell -> Cell] /\ c \in [Cell -> BOOLEAN]
      BY <2>1, CellFacts
    <3> HIDE DEF l, r, c
    <3>2. [left |-> l, right |-> r, parent |-> u.parent, red |-> c] \in Tree
      BY ONLY <2>1, <3>1 DEF Tree
    <3> QED BY ONLY <2>2, <3>2 DEF l, r, c
  <2>5. \A m \in Cell : IsRed(v, m) = IF m = a THEN TRUE ELSE IsRed(u, m)
    <3>1. u.red \in [Cell -> BOOLEAN] /\ v.red = [u.red EXCEPT ![a] = TRUE]
      BY ONLY <2>1, <2>3
    <3>2. \A m \in Cell : v.red[m] = IF m = a THEN TRUE ELSE u.red[m]
      BY ONLY <3>1
    <3> QED BY ONLY <3>2 DEF IsRed
  <2>6. \A m \in Cell : Par(v, m) = Par(u, m)
    BY <2>3 DEF Par
  <2>7. \A m \in Cell : /\ Kid(v, "left", m) = IF m = a THEN nil ELSE Kid(u, "left", m)
                        /\ Kid(v, "right", m) = IF m = a THEN nil ELSE Kid(u, "right", m)
    BY <2>1, <2>3 DEF Kid
  <2>8. \A s \in Side, m \in Cell : Kid(v, s, m) = IF m = a THEN nil ELSE Kid(u, s, m)
    BY <2>7 DEF Side
  <2> QED BY <2>4, <2>5, <2>6, <2>8
<1> QED BY <1>3, <1>4 DEF Attached

\* Where the new leaf goes.
Vacant(t, B, q, side, a) ==
    \/ q = root /\ Top(t) = nil /\ side = "left"
    \/ q \in B[Top(t)] /\ Kid(t, side, q) = nil /\ Beside(side, a, q)

\* A search tree has one node more after the insertion of a leaf where the descent ended.
LEMMA AttachTree ==
  ASSUME NEW t, NEW B, SearchTree(t, B), NEW S, S = B[Top(t)], NEW q \in Cell, NEW side \in Side, NEW a \in Box,
         OnTheWay(t, B, nil, q, a), Vacant(t, B, q, side, a),
         NEW v, Attached(t, q, side, a, v)
  PROVE  TreeOf(v, S \cup {a}) /\ a \notin S
<1> USE SideFacts, CellFacts
<1>1. Links(t, B) /\ ~IsRed(t, nil) /\ ~IsRed(t, root)
  BY DEF SearchTree
<1>2. /\ nil \notin S /\ root \notin S /\ S \subseteq Box /\ S \subseteq Cell /\ t \in Tree
      /\ Top(t) \in Cell /\ Top(t) # root /\ B[nil] = {} /\ (Top(t) = nil <=> S = {}) /\ (S # {} => Top(t) \in S)
  BY <1>1, TreeFacts
<1>3. /\ \A n \in S, s \in Side : q \in B[Kid(t, s, n)] => Beside(s, a, n)
      /\ \A n \in S : \E s \in Side : Beside(s, a, n)
  BY <1>2 DEF OnTheWay
<1>4. a \notin S /\ a \in Cell /\ a # nil /\ a # root /\ q # a
  <2>1. a \notin S
    BY <1>3, BesideFacts
  <2> QED BY <2>1 DEF Vacant
<1>5. /\ v \in Tree
      /\ \A m \in Cell : IsRed(v, m) = IF m = a THEN TRUE ELSE IsRed(t, m)
      /\ \A m \in Cell : Par(v, m) = IF m = a THEN q ELSE Par(t, m)
      /\ \A s \in Side, m \in Cell : Kid(v, s, m) = IF m = a THEN nil ELSE IF s = side /\ m = q THEN a ELSE Kid(t, s, m)
  BY DEF Attached
<1>6. B \in [Cell -> SUBSET Box]
  BY <1>1 DEF Links
<1> DEFINE B2 == [m \in Cell |-> IF m = a THEN {a} ELSE IF q \in B[m] THEN B[m] \cup {a} ELSE B[m]]
<1>7. /\ B2 \in [Cell -> SUBSET Box] /\ B2[a] = {a}
      /\ \A m \in Cell \ {a} : B2[m] = IF q \in B[m] THEN B[m] \cup {a} ELSE B[m]
  BY <1>4, <1>6
<1> HIDE DEF B2
<1>8. Top(v) = IF q = root THEN a ELSE Top(t)
  <2>1. Kid(v, "left", root) = IF side = "left" /\ root = q THEN a ELSE Top(t)
    BY <1>4, <1>5 DEF Top
  <2> QED BY <2>1, <1>2 DEF Vacant, Top
<1>9. B2[nil] = {}
  BY <1>2, <1>4, <1>7
<1>10. B2[Top(v)] = S \cup {a}
  <2>1. CASE q = root
    BY <2>1, <1>2, <1>7, <1>8 DEF Vacant
  <2>2. CASE q # root
    BY <2>2, <1>2, <1>4, <1>7, <1>8 DEF Vacant
  <2> QED BY <2>1, <2>2
<1>11. SearchNode(v, B2, a)
  <2>1. \A s \in Side : Kid(v, s, a) = nil
    BY <1>4, <1>5
  <2>2. Par(v, a) = q
    BY <1>4, <1>5
  <2>3. Hangs(v, B2, a)
    <3>1. CASE q = root
      BY <3>1, <2>2, <1>8 DEF Hangs
    <3>2. CASE q # root
      <4>1. q \in S /\ Kid(t, side, q) = nil
        BY <3>2 DEF Vacant
      <4>2. a # Top(v) /\ q \in B2[Top(v)]
        BY <3>2, <4>1, <1>2, <1>4, <1>8, <1>10
      <4>3. Kid(v, side, q) = a /\ Kid(v, Other(side), q) = Kid(t, Other(side), q)
        BY <4>1, <1>4, <1>5
      <4>4. Kid(t, Other(side), q) # a
        BY <4>1, <1>1, <1>4, KidFacts
      <4>5. SideOf(v, a) = side
        <5>1. CASE side = "left"
          BY <5>1, <2>2, <4>3, <1>5, AccessFacts
        <5>2. CASE side = "right"
          BY <5>2, <2>2, <4>3, <4>4, <1>5, AccessFacts
        <5> QED BY <5>1, <5>2 DEF Side
      <4> QED BY <2>2, <4>2, <4>3, <4>5 DEF Hangs
    <3> QED BY <3>1, <3>2
  <2>4. \A s \in Side : InOrder(v, B2, a, s)
    BY <2>1, <1>9 DEF InOrder
  <2>5. B2[a] = {a} \cup B2[Kid(v, side, a)] \cup B2[Kid(v, Other(side), a)]
    BY <2>1, <1>7, <1>9
  <2> QED BY <2>3, <2>4, <2>5, SearchNodeParts
<1>12. ASSUME NEW m \in S
       PROVE  SearchNode(v, B2, m)
  <2>1. m \in Cell /\ m \in Box /\ m # nil /\ m # root /\ m # a
    BY <1>2, <1>4
  <2>2. ASSUME NEW s \in Side
        PROVE  /\ InOrder(v, B2, m, s)
               /\ B2[Kid(v, s, m)] = IF q \in B[Kid(t, s, m)] \/ (s = side /\ q = m) THEN B[Kid(t, s, m)] \cup {a}
                                     ELSE B[Kid(t, s, m)]
    <3> DEFINE k == Kid(t, s, m)
    <3>1. k \in Cell /\ InOrder(t, B, m, s) /\ m \notin B[k]
      BY <2>1, <1>1, <1>2, AccessFacts, PartsOfSearchNode, KidFacts
    <3>2. k \in S \cup {nil} /\ k # a
      BY <3>1, <1>4 DEF InOrder
    <3>3. CASE s = side /\ q = m
      <4>1. Kid(v, s, m) = a /\ k = nil /\ Beside(s, a, m) /\ Par(v, a) = m
        BY <3>3, <2>1, <1>4, <1>5 DEF Vacant
      <4>2. InOrder(v, B2, m, s)
        BY <4>1, <1>7, <1>10 DEF InOrder
      <4> QED BY <3>3, <4>1, <4>2, <1>2, <1>7
    <3>4. CASE ~(s = side /\ q = m)
      <4>1. Kid(v, s, m) = k
        BY <3>4, <2>1, <1>5
      <4>2. B2[k] = IF q \in B[k] THEN B[k] \cup {a} ELSE B[k]
        BY <3>1, <3>2, <1>7
      <4>3. k # nil => Par(v, k) = m
        BY <3>1, <3>2, <1>5 DEF InOrder
      <4>4. \A j \in B2[k] : Beside(s, j, m)
        BY <4>2, <3>1, <1>3 DEF InOrder
      <4>5. InOrder(v, B2, m, s)
        BY <4>1, <4>3, <4>4, <3>2, <1>10 DEF InOrder
      <4> QED BY <3>4, <4>1, <4>2, <4>5
    <3> QED BY <3>3, <3>4
  <2>3. Hangs(v, B2, m)
    <3> DEFINE p == Par(t, m)
               f == SideOf(t, m)
    <3>1. /\ p \in S \cup {root} /\ p \in Cell /\ p # m /\ f \in Side /\ Kid(t, f, p) = m /\ (m = Top(t) <=> p = root)
      BY <1>1, NodeFacts
    <3>2. Par(v, m) = p
      BY <2>1, <1>5
    <3>3. q # root
      BY <1>2 DEF Vacant
    <3>4. CASE m = Top(t)
      BY <3>1, <3>2, <3>3, <3>4, <1>8 DEF Hangs
    <3>5. CASE m # Top(t)
      <4>1. p \in S /\ p # a
        BY <3>1, <3>5, <1>4
      <4>2. Kid(v, f, p) = m
        BY <3>1, <4>1, <2>1, <3>3, <1>5 DEF Vacant
      <4>3. SideOf(v, m) = f
        <5>1. CASE f = "left"
          BY <5>1, <3>2, <4>2, <1>5, AccessFacts
        <5>2. CASE f = "right"
          <6>1. Kid(v, "left", p) # m
            <7>1. Kid(v, "left", p) = a \/ Kid(v, "left", p) = Kid(t, "left", p)
              BY <4>1, <3>1, <1>5
            <7>2. Kid(t, "left", p) # m
              BY <5>2, <1>2, AccessFacts
            <7> QED BY <7>1, <7>2, <2>1
          <6> QED BY <5>2, <6>1, <3>2, <1>5, AccessFacts
        <5> QED BY <5>1, <5>2, <3>1 DEF Side
      <4> QED BY <3>2, <3>3, <3>5, <4>1, <4>2, <4>3, <1>8, <1>10 DEF Hangs
    <3> QED BY <3>4, <3>5
  <2>4. B2[m] = {m} \cup B2[Kid(v, side, m)] \cup B2[Kid(v, Other(side), m)]
    <3>1. B[m] = {m} \cup B[Kid(t, side, m)] \cup B[Kid(t, Other(side), m)]
      BY <1>1, PartsOfSearchNode
    <3>2. B2[m] = IF q \in B[m] THEN B[m] \cup {a} ELSE B[m]
      BY <2>1, <1>7
    <3>3. q = m \/ q # m
      OBVIOUS
    <3> DEFINE l == B[Kid(t, side, m)]
               r == B[Kid(t, Other(side), m)]
    <3>4. B2[Kid(v, side, m)] = (IF q \in l \/ q = m THEN l \cup {a} ELSE l)
      BY <2>2, <1>2
    <3>5. B2[Kid(v, Other(side), m)] = (IF q \in r THEN r \cup {a} ELSE r)
      BY <2>2, <1>2
    <3> HIDE DEF l, r
    <3>6. B[m] = {m} \cup l \cup r
      BY <3>1 DEF l, r
    <3> QED BY ONLY <3>2, <3>3, <3>4, <3>5, <3>6
  <2> QED BY <2>2, <2>3, <2>4, SearchNodeParts
<1>13. Kid(v, "left", nil) = nil /\ Kid(v, "right", nil) = nil /\ Kid(v, "right", root) = nil
  <2>1. Kid(t, "left", nil) = nil /\ Kid(t, "right", nil) = nil /\ Kid(t, "right", root) = nil
    BY <1>1 DEF Links
  <2>2. q # nil /\ (q = root => side = "left")
    BY <1>2 DEF Vacant
  <2> QED BY <2>1, <2>2, <1>4, <1>5
<1>14. Links(v, B2)
  <2>1. Top(v) \in B2[Top(v)] \cup {nil}
    BY <1>2, <1>8, <1>10
  <2>2. \A m \in B2[Top(v)] : SearchNode(v, B2, m)
    BY <1>10, <1>11, <1>12
  <2> QED BY <2>1, <2>2, <1>5, <1>7, <1>9, <1>13 DEF Links
<1>15. ~IsRed(v, nil) /\ ~IsRed(v, root)
  BY <1>1, <1>4, <1>5
<1> QED BY <1>4, <1>10, <1>14, <1>15 DEF TreeOf, SearchTree

\* The new leaf is red: only its parent can be red too.
LEMMA AttachKeeps ==
  ASSUME NEW t, NEW S, TreeOf(t, S), NEW H, Sound(t, S, H), NEW q \in Cell, NEW side \in Side, NEW a \in Box, a \notin S,
         (q = root /\ S = {}) \/ (q \in S /\ Kid(t, side, q) = nil),
         NEW v, Attached(t, q, side, a, v), TreeOf(v, S \cup {a})
  PROVE  \E H2 : Inserting(v, S \cup {a}, H2, a)
<1> DEFINE H2 == [m \in Cell |-> IF m = a THEN 0 ELSE H[m]]
<1> USE SideFacts, CellFacts
<1>1. S \subseteq Cell /\ nil \notin S /\ root \notin S /\ ~IsRed(t, nil) /\ ~IsRed(t, root) /\ Top(t) \in Cell /\ a \in Cell /\ a # nil
  BY TreeOfFacts
<1>2. Even(t, S, H) /\ (\A n \in S : ~RedBelowRed(t, n)) /\ ~IsRed(t, Top(t))
  BY <1>1, EvenIsBalanced DEF Sound
<1>3. /\ H \in [Cell -> Nat] /\ H[nil] = 0
      /\ \A m \in S, s \in Side : H[m] = Black(t, m) + H[Kid(t, s, m)]
  BY <1>2 DEF Even
<1>4. /\ v \in Tree
      /\ \A m \in Cell : IsRed(v, m) = IF m = a THEN TRUE ELSE IsRed(t, m)
      /\ \A m \in Cell : Par(v, m) = IF m = a THEN q ELSE Par(t, m)
      /\ \A s \in Side, m \in Cell : Kid(v, s, m) = IF m = a THEN nil ELSE IF s = side /\ m = q THEN a ELSE Kid(t, s, m)
  BY DEF Attached
<1>5. H2 \in [Cell -> Nat] /\ H2[nil] = 0 /\ H2[a] = 0 /\ \A m \in Cell \ {a} : H2[m] = H[m]
  BY <1>1, <1>3
<1> HIDE DEF H2
<1>6. ASSUME NEW m \in S \cup {a}, NEW s \in Side
      PROVE  H2[m] = Black(v, m) + H2[Kid(v, s, m)]
  <2>1. CASE m = a
    <3>1. Kid(v, s, m) = nil /\ Black(v, m) = 0
      BY <2>1, <1>4 DEF Black
    <3> QED BY <3>1, <2>1, <1>5
  <2>2. CASE m # a
    <3>1. m \in S /\ m \in Cell
      BY <2>2, <1>1
    <3>2. Black(v, m) = Black(t, m)
      BY <2>2, <3>1, <1>4 DEF Black
    <3>3. Kid(t, s, m) \in Cell \ {a}
      BY <3>1, TreeOfFacts
    <3>4. H2[Kid(v, s, m)] = H[Kid(t, s, m)]
      <4>1. CASE s = side /\ m = q
        BY <4>1, <3>1, <1>1, <1>3, <1>4, <1>5
      <4>2. CASE ~(s = side /\ m = q)
        BY <4>2, <2>2, <3>1, <3>3, <1>4, <1>5
      <4> QED BY <4>1, <4>2
    <3> QED BY <2>2, <3>1, <3>2, <3>4, <1>3, <1>5
  <2> QED BY <2>1, <2>2
<1>7. Balanced(v, S \cup {a}, H2, nil, "left")
  <2>1. Even(v, S \cup {a}, H2)
    BY <1>5, <1>6 DEF Even
  <2> QED BY <2>1, <1>1, EvenIsBalanced
<1>8. ASSUME NEW m \in (S \cup {a}) \ {a} PROVE ~RedBelowRed(v, m)
  <2>1. m \in S /\ m \in Cell /\ Par(t, m) \in Cell /\ Par(t, m) # a /\ m # a
    BY TreeOfFacts
  <2> QED BY <2>1, <1>2, <1>4 DEF RedBelowRed
<1>9. IsRed(v, Top(v)) => Top(v) = a
  <2>1. Top(v) = a \/ Top(v) = Top(t)
    BY <1>4 DEF Top
  <2> QED BY <2>1, <1>1, <1>2, <1>4
<1>10. IsRed(v, a)
  BY <1>1, <1>4
<1> QED BY <1>7, <1>8, <1>9, <1>10 DEF Inserting

------------------------------------------------------------------------------
(* Splicing a node out                                                     *)

\* A node with at most one child leaves the tree, and the child takes its place.
LEMMA SpliceTree ==
  ASSUME NEW t, NEW B, SearchTree(t, B), NEW S, S = B[Top(t)], NEW n \in S, NEW side \in Side,
         NEW c, c = Kid(t, side, n), Kid(t, Other(side), n) = nil,
         NEW p, p = Par(t, n), NEW from, from = SideOf(t, n),
         NEW v, LinkSet(t, p, from, c, v)
  PROVE  /\ TreeOf(v, S \ {n})
         /\ Top(v) = IF p = root THEN c ELSE Top(t)
<1> USE SideFacts, CellFacts
<1>1. Links(t, B) /\ ~IsRed(t, nil) /\ ~IsRed(t, root)
  BY DEF SearchTree
<1>2. /\ nil \notin S /\ root \notin S /\ S \subseteq Box /\ S \subseteq Cell /\ t \in Tree
      /\ Top(t) \in Cell /\ Top(t) # root /\ B[nil] = {} /\ Top(t) \in S
  BY <1>1, TreeFacts
<1>3. /\ n \in Box /\ n \in Cell /\ n # nil /\ n # root /\ p \in S \cup {root} /\ p \in Cell /\ p # n /\ p # nil
      /\ n = Top(t) <=> p = root
      /\ from \in Side /\ Kid(t, from, p) = n /\ (p = root => from = "left")
      /\ n \in B[n]
  BY <1>1, NodeFacts
<1>4. /\ c \in Cell /\ c \in S \cup {nil} /\ n \notin B[c]
      /\ c # nil => Par(t, c) = n /\ c # p /\ c # Top(t) /\ c # n
  BY <1>1, KidFacts
<1>5. B[n] = {n} \cup B[c]
  BY <1>1, <1>2, NodeFacts
<1>6. /\ v \in Tree
      /\ \A m \in Cell : IsRed(v, m) = IsRed(t, m)
      /\ \A m \in Cell : Par(v, m) = IF m = c THEN p ELSE Par(t, m)
      /\ \A s \in Side, m \in Cell : Kid(v, s, m) = IF s = from /\ m = p THEN c ELSE Kid(t, s, m)
  BY DEF LinkSet
<1>7. B \in [Cell -> SUBSET Box]
  BY <1>1 DEF Links
<1> DEFINE B2 == [m \in Cell |-> B[m] \ {n}]
<1>8. B2 \in [Cell -> SUBSET Box] /\ \A m \in Cell : B2[m] = B[m] \ {n}
  BY <1>7
<1> HIDE DEF B2
<1>9. Top(v) = IF p = root THEN c ELSE Top(t)
  <2>1. Kid(v, "left", root) = IF from = "left" /\ root = p THEN c ELSE Top(t)
    BY <1>6 DEF Top
  <2> QED BY <2>1, <1>3 DEF Top
<1>10. B2[nil] = {} /\ B2[c] = B[c]
  <2>1. nil \in Cell /\ c \in Cell /\ n \notin B[c]
    BY <1>4
  <2> QED BY ONLY <2>1, <1>2, <1>8
<1>11. B2[Top(v)] = S \ {n}
  <2>1. CASE p = root
    BY <2>1, <1>3, <1>4, <1>5, <1>9, <1>10
  <2>2. CASE p # root
    BY <2>2, <1>2, <1>8, <1>9
  <2> QED BY <2>1, <2>2
<1>12. ASSUME NEW m \in S \ {n}
       PROVE  SearchNode(v, B2, m)
  <2>1. m \in Cell /\ m \in Box /\ m # nil /\ m # root
    BY <1>2
  <2>2. ASSUME NEW s \in Side
        PROVE  InOrder(v, B2, m, s) /\ B2[Kid(v, s, m)] = B[Kid(t, s, m)] \ {n}
    <3> DEFINE k == Kid(t, s, m)
    <3>1. k \in Cell /\ InOrder(t, B, m, s)
      BY <2>1, <1>1, <1>2, AccessFacts, PartsOfSearchNode
    <3>2. k # nil => Par(t, k) = m /\ SideOf(t, k) = s
      BY <1>1, KidFacts
    <3>3. CASE k = n
      <4>1. m = p /\ s = from /\ Kid(v, s, m) = c
        BY <2>1, <3>2, <3>3, <1>3, <1>6
      <4>2. c # nil => c \in S \ {n} /\ Par(v, c) = m
        BY <4>1, <1>4, <1>6
      <4>3. \A j \in B[c] : Beside(s, j, m)
        BY <3>1, <3>3, <1>5 DEF InOrder
      <4>4. InOrder(v, B2, m, s)
        BY <4>1, <4>2, <4>3, <1>10, <1>11 DEF InOrder
      <4> QED BY <4>1, <4>4, <3>3, <1>4, <1>5, <1>10
    <3>4. CASE k # n
      <4>1. Kid(v, s, m) = k
        <5>1. ~(s = from /\ m = p)
          BY <3>4, <1>3
        <5> QED BY <5>1, <2>1, <1>6
      <4>2. k # nil => k # c
        BY <3>2, <1>4
      <4>3. k # nil => Par(v, k) = m
        BY <3>1, <3>2, <4>2, <1>6
      <4>4. B2[k] = B[k] \ {n}
        BY <3>1, <1>8
      <4>5. InOrder(v, B2, m, s)
        BY <4>1, <4>3, <4>4, <3>1, <3>4, <1>11 DEF InOrder
      <4> QED BY <4>1, <4>4, <4>5
    <3> QED BY <3>3, <3>4
  <2>3. B2[m] = {m} \cup B2[Kid(v, side, m)] \cup B2[Kid(v, Other(side), m)]
    <3>1. B[m] = {m} \cup B[Kid(t, side, m)] \cup B[Kid(t, Other(side), m)]
      BY <1>1, PartsOfSearchNode
    <3> QED BY <3>1, <2>1, <2>2, <1>8
  <2>4. Hangs(v, B2, m)
    <3> DEFINE q == Par(t, m)
               f == SideOf(t, m)
    <3>1. /\ q \in S \cup {root} /\ q \in Cell /\ q # m /\ f \in Side /\ Kid(t, f, q) = m /\ (m = Top(t) <=> q = root)
      BY <1>1, NodeFacts
    <3>2. CASE m = c
      <4>1. Par(v, m) = p
        BY <2>1, <3>2, <1>6
      <4>2. CASE p = root
        BY <4>1, <4>2, <3>2, <1>9 DEF Hangs
      <4>3. CASE p # root
        <5>1. m # Top(v) /\ p \in S \ {n}
          BY <4>3, <3>2, <2>1, <1>3, <1>4, <1>9
        <5>2. Kid(v, from, p) = m
          BY <3>2, <1>3, <1>6
        <5>3. SideOf(v, m) = from
          <6>1. CASE from = "left"
            BY <6>1, <5>2, <4>1, <1>6, AccessFacts
          <6>2. CASE from = "right"
            <7>1. Kid(v, "left", p) = Kid(t, "left", p)
              BY <6>2, <1>3, <1>6
            <7>2. Kid(t, "left", p) # m
              BY <5>1, <3>2, <2>1, <1>1, <1>3, <1>4, KidFacts
            <7> QED BY <6>2, <7>1, <7>2, <4>1, <1>6, AccessFacts
          <6> QED BY <6>1, <6>2, <1>3 DEF Side
        <5> QED BY <4>1, <5>1, <5>2, <5>3, <1>11 DEF Hangs
      <4> QED BY <4>2, <4>3
    <3>3. CASE m # c
      <4>1. Par(v, m) = q
        BY <2>1, <3>3, <1>6
      <4>2. q # n
        <5> SUFFICES ASSUME q = n PROVE FALSE
          OBVIOUS
        <5>1. f = side \/ f = Other(side)
          BY <3>1
        <5> QED BY <5>1, <3>1, <3>3, <2>1
      <4>3. CASE m = Top(t)
        BY <4>1, <4>3, <3>1, <1>3, <1>9 DEF Hangs
      <4>4. CASE m # Top(t)
        <5>1. m # Top(v) /\ q \in S \ {n}
          BY <4>2, <4>4, <3>1, <3>3, <1>9
        <5>2. Kid(v, f, q) = m
          <6>1. ~(f = from /\ q = p)
            BY <3>1, <1>3
          <6> QED BY <6>1, <3>1, <1>6
        <5>3. SideOf(v, m) = f
          <6>1. CASE f = "left"
            BY <6>1, <5>2, <4>1, <1>6, AccessFacts
          <6>2. CASE f = "right"
            <7>1. Kid(v, "left", q) = c \/ Kid(v, "left", q) = Kid(t, "left", q)
              BY <3>1, <1>6
            <7>2. Kid(t, "left", q) # m
              BY <6>2, <1>2, AccessFacts
            <7> QED BY <6>2, <7>1, <7>2, <3>3, <4>1, <1>6, AccessFacts
          <6> QED BY <6>1, <6>2, <3>1 DEF Side
        <5> QED BY <4>1, <5>1, <5>2, <5>3, <1>11 DEF Hangs
      <4> QED BY <4>3, <4>4
    <3> QED BY <3>2, <3>3
  <2> QED BY <2>2, <2>3, <2>4, SearchNodeParts
<1>13. Kid(v, "left", nil) = nil /\ Kid(v, "right", nil) = nil /\ Kid(v, "right", root) = nil
  <2>1. Kid(t, "left", nil) = nil /\ Kid(t, "right", nil) = nil /\ Kid(t, "right", root) = nil
    BY <1>1 DEF Links
  <2> QED BY <2>1, <1>3, <1>6
<1>14. Links(v, B2)
  <2>1. Top(v) \in B2[Top(v)] \cup {nil}
    BY <1>2, <1>3, <1>4, <1>9, <1>11
  <2> QED BY <2>1, <1>6, <1>8, <1>10, <1>11, <1>12, <1>13 DEF Links
<1>15. ~IsRed(v, nil) /\ ~IsRed(v, root)
  BY <1>1, <1>6
<1> QED BY <1>9, <1>11, <1>14, <1>15 DEF TreeOf, SearchTree

\* A spliced-out black node is missed on the paths through its child, and nothing else is wrong.
LEMMA SpliceKeeps ==
  ASSUME NEW t, NEW S, TreeOf(t, S), NEW H, Sound(t, S, H), NEW n \in S, NEW side \in Side,
         NEW c, c = Kid(t, side, n), Kid(t, Other(side), n) = nil,
         NEW p, p = Par(t, n), NEW from, from = SideOf(t, n),
         NEW v, LinkSet(t, p, from, c, v), TreeOf(v, S \ {n}), Top(v) = IF p = root THEN c ELSE Top(t)
  PROVE  IF IsRed(t, n) THEN Sound(v, S \ {n}, H) ELSE Repairing(v, S \ {n}, H, c, Top(v))
<1> USE SideFacts, CellFacts
<1>1. S \subseteq Cell /\ nil \notin S /\ root \notin S /\ ~IsRed(t, nil) /\ ~IsRed(t, root) /\ Top(t) \in Cell /\ t \in Tree
  BY TreeOfFacts
<1>2. Even(t, S, H) /\ (\A m \in S : ~RedBelowRed(t, m)) /\ ~IsRed(t, Top(t))
  BY <1>1, EvenIsBalanced DEF Sound
<1>3. /\ H \in [Cell -> Nat] /\ H[nil] = 0
      /\ \A m \in S, s \in Side : H[m] = Black(t, m) + H[Kid(t, s, m)]
  BY <1>2 DEF Even
<1>4. /\ v \in Tree
      /\ \A m \in Cell : IsRed(v, m) = IsRed(t, m)
      /\ \A m \in Cell : Par(v, m) = IF m = c THEN p ELSE Par(t, m)
      /\ \A s \in Side, m \in Cell : Kid(v, s, m) = IF s = from /\ m = p THEN c ELSE Kid(t, s, m)
  BY DEF LinkSet
<1>5. /\ n # nil /\ n # root /\ p \in S \cup {root} /\ p \in Cell /\ p # n /\ p # nil
      /\ n = Top(t) <=> p = root
      /\ from \in Side /\ Kid(t, from, p) = n /\ (p = root => from = "left")
  BY TreeOfFacts
<1>6. /\ c \in Cell /\ c \in S \cup {nil} /\ c # n
      /\ c # nil => Par(t, c) = n
  BY TreeOfFacts
<1>7. \A m \in Cell : Black(v, m) = Black(t, m)
  BY <1>4 DEF Black
<1>8. H[c] \in Nat /\ H[c] = 0 /\ H[n] = Black(t, n)
  <2>1. H[n] = Black(t, n) + 0 /\ H[n] = Black(t, n) + H[c]
    BY <1>3
  <2>2. H[c] \in Nat /\ Black(t, n) \in Nat
    BY <1>3, <1>6 DEF Black
  <2> QED BY <2>1, <2>2
<1>9. ASSUME NEW m \in S \ {n}, NEW s \in Side, m # p \/ s # from
      PROVE  H[m] = Black(v, m) + H[Kid(v, s, m)]
  BY <1>1, <1>3, <1>4, <1>7, <1>9
<1>10. p \in S => H[p] = Black(v, p) + H[Kid(v, from, p)] + Black(t, n)
  <2> HAVE p \in S
  <2>1. H[p] = Black(t, p) + H[n]
    BY <1>3, <1>5
  <2>2. Kid(v, from, p) = c
    BY <1>4, <1>5
  <2>3. Black(t, p) \in Nat /\ Black(t, n) \in Nat
    BY DEF Black
  <2> QED BY <2>1, <2>2, <2>3, <1>5, <1>7, <1>8
<1>11. \A m \in S \ {n} : m # c => ~RedBelowRed(v, m)
  <2> SUFFICES ASSUME NEW m \in S \ {n}, m # c PROVE ~RedBelowRed(v, m)
    OBVIOUS
  <2>1. m \in Cell /\ Par(t, m) \in Cell /\ ~RedBelowRed(t, m)
    BY <1>2, TreeOfFacts
  <2> QED BY <2>1, <1>4 DEF RedBelowRed
<1>12. IsRed(v, Top(v)) => Top(v) = c
  BY <1>1, <1>2, <1>4
<1>13. Top(v) \in (S \ {n}) \cup {nil}
  BY TreeOfFacts
<1>14. CASE IsRed(t, n)
  <2>1. ASSUME NEW m \in S \ {n}, NEW s \in Side
        PROVE  H[m] = Black(v, m) + H[Kid(v, s, m)]
    <3>1. CASE m = p /\ s = from
      <4>1. Black(t, n) = 0
        BY <1>14 DEF Black
      <4>2. H[Kid(v, from, p)] \in Nat /\ Black(v, p) \in Nat
        BY <1>4, <1>5, <1>8 DEF Black
      <4> QED BY <3>1, <4>1, <4>2, <1>10
    <3>2. CASE m # p \/ s # from
      BY <3>2, <1>9
    <3> QED BY <3>1, <3>2
  <2>2. Balanced(v, S \ {n}, H, nil, "left")
    <3>1. Even(v, S \ {n}, H)
      BY <2>1, <1>3 DEF Even
    <3> QED BY <3>1, <1>1, EvenIsBalanced
  <2>3. ~IsRed(t, c)
    <3>1. c # nil => ~RedBelowRed(t, c)
      BY <1>2, <1>6
    <3> QED BY <3>1, <1>1, <1>6, <1>14 DEF RedBelowRed
  <2>4. \A m \in S \ {n} : ~RedBelowRed(v, m)
    BY <2>3, <1>4, <1>6, <1>11 DEF RedBelowRed
  <2>5. ~IsRed(v, Top(v))
    BY <2>3, <1>4, <1>6, <1>12
  <2> QED BY <2>2, <2>4, <2>5, <1>14 DEF Sound
<1>15. CASE ~IsRed(t, n)
  <2>1. Black(t, n) = 1 /\ H[n] = 1
    BY <1>8, <1>15 DEF Black
  <2>2. Par(v, c) = p
    BY <1>4, <1>6
  <2>3. CASE p = root
    <3>1. Even(v, S \ {n}, H)
      <4>1. \A m \in S \ {n} : m # p
        BY <2>3, <1>1
      <4> QED BY <4>1, <1>3, <1>9 DEF Even
    <3>2. Balanced(v, S \ {n}, H, nil, "left") /\ Balanced(v, S \ {n}, H, Par(v, c), SideOf(v, c))
      BY <3>1, <2>2, <2>3, <1>1, EvenIsBalanced
    <3>3. Top(v) = c
      BY <2>3
    <3>4. IsMissing(v, c, Top(v)) => c \in S \ {n}
      BY <3>3, <1>1, <1>4, <1>6 DEF IsMissing
    <3>5. \A m \in S \ {n} : RedBelowRed(v, m) => m = c
      BY <1>11
    <3> QED BY <3>2, <3>3, <3>4, <3>5, <1>12, <1>13, <1>15 DEF Repairing
  <2>4. CASE p # root
    <3>1. p \in S \ {n} /\ Kid(v, from, p) = c /\ Kid(v, Other(from), p) = Kid(t, Other(from), p)
      BY <2>4, <1>4, <1>5
    <3>2. Kid(t, Other(from), p) # nil
      <4>1. H[p] = Black(t, p) + H[Kid(t, Other(from), p)] /\ H[p] = Black(t, p) + 1 /\ Black(t, p) \in Nat
        BY <3>1, <2>1, <1>3, <1>5 DEF Black
      <4> QED BY <4>1, <1>3
    <3>3. SideOf(v, c) = from
      <4>1. CASE c = nil
        BY <4>1, <2>2, <3>1, <3>2, <1>4, <1>5, SideOfNil
      <4>2. CASE c # nil
        <5>1. TreeOf(v, S \ {n}) /\ p \in S \ {n} /\ from \in Side /\ c = Kid(v, from, p) /\ c # nil
          BY <4>2, <3>1, <1>5
        <5>2. \A m \in S \ {n}, s \in Side : Kid(v, s, m) # nil => SideOf(v, Kid(v, s, m)) = s
          BY TreeOfFacts
        <5>3. SideOf(v, Kid(v, from, p)) = from
          BY ONLY <5>1, <5>2
        <5> QED BY ONLY <5>1, <5>3
      <4> QED BY <4>1, <4>2
    <3>4. Balanced(v, S \ {n}, H, p, from)
      <4>1. H[p] = Black(v, p) + H[Kid(v, from, p)] + 1
        BY <3>1, <2>1, <1>10
      <4> QED BY <4>1, <3>1, <1>3, <1>5, <1>9, BalancedParts
    <3>5. c \in S \ {n} \/ (c = nil /\ Par(v, nil) \in S \ {n} /\ Kid(v, SideOf(v, nil), Par(v, nil)) = nil)
      BY <2>2, <3>1, <3>3, <1>6
    <3>6. IsMissing(v, c, Top(v)) \/ c = Top(v)
      BY DEF IsMissing
    <3>7. c # Top(v)
      <4>1. Top(v) = Top(t) /\ Top(t) # nil /\ Top(t) \in S
        BY <2>4, TreeOfFacts
      <4>2. c # nil => c # Top(t)
        BY TreeOfFacts
      <4> QED BY <4>1, <4>2
    <3>8. \A m \in S \ {n} : RedBelowRed(v, m) => m = c
      BY <1>11
    <3> QED BY <2>2, <3>3, <3>4, <3>5, <3>6, <3>7, <3>8, <1>12, <1>13, <1>15 DEF Repairing
  <2> QED BY <2>3, <2>4
<1> QED BY <1>14, <1>15

\* The spliced-out node is z or can take its place.
LEMMA SpliceDeletes ==
  ASSUME NEW t, NEW B, Links(t, B), NEW S, S = B[Top(t)], NEW n, NEW d, AtSuccessor(t, B, n, d),
         n = d \/ Kid(t, "left", n) = nil
  PROVE  Deletion(S \ {n}, n, d) /\ n \in S /\ d \in S
<1> DEFINE R == B[Kid(t, "right", d)]
           L == B[Kid(t, "left", d)]
<1> USE SideFacts
<1>1. /\ d \in S /\ n \in S /\ n \in Box /\ d \in Box
      /\ \A m \in S \ B[d] : \E s \in Side : \A j \in B[d] : Beside(s, j, m)
  BY NodeFacts DEF AtSuccessor
<1>2. CASE n = d
  BY <1>1, <1>2 DEF Deletion
<1>3. CASE n # d
  <2>1. n \in R /\ \A m \in R : m \in B[n] \/ Beside("left", n, m)
    BY <1>3 DEF AtSuccessor
  <2>2. B[d] = {d} \cup L \cup R /\ d \in B[d]
    BY <1>1, NodeFacts
  <2>3. (\A m \in L : Beside("left", m, d)) /\ (\A m \in R : Beside("right", m, d)) /\ L \subseteq Box /\ R \subseteq Box
    BY <1>1, KidFacts
  <2>4. B[n] = {n} \cup B[Kid(t, "right", n)]
    BY <1>1, <1>3, NodeFacts, TreeFacts
  <2>5. \A m \in B[Kid(t, "right", n)] : Beside("right", m, n)
    BY <1>1, KidFacts
  <2>6. Beside("right", n, d) /\ Beside("left", d, n) /\ n \in B[d]
    BY <2>1, <2>2, <2>3, <1>1, BesideFacts
  <2>7. ASSUME NEW m \in (S \ {n}) \ {d}, NEW s \in Side, Beside(s, m, d)
        PROVE  Beside(s, m, n)
    <3>1. m \in Box
      BY NodeFacts
    <3>2. CASE m \notin B[d]
      <4>1. PICK r \in Side : \A j \in B[d] : Beside(r, j, m)
        BY <3>2, <1>1
      <4>2. Beside(r, d, m) /\ Beside(r, n, m)
        BY <4>1, <2>2, <2>6
      <4>3. Beside(Other(r), m, d) /\ Beside(Other(r), m, n)
        BY <4>2, <3>1, <1>1, BesideFacts
      <4>4. s = Other(r)
        BY <4>3, <2>7, <3>1, <1>1, BesideFacts
      <4> QED BY <4>3, <4>4
    <3>3. CASE m \in L
      <4>1. Beside("left", m, d) /\ s = "left"
        BY <3>3, <3>1, <2>3, <2>7, <1>1, BesideFacts
      <4> QED BY <4>1, <2>6, <3>1, <1>1, BesideFacts
    <3>4. CASE m \in R
      <4>1. Beside("right", m, d) /\ s = "right"
        BY <3>4, <3>1, <2>3, <2>7, <1>1, BesideFacts
      <4>2. m \in B[n] \/ Beside("left", n, m)
        BY <3>4, <2>1
      <4>3. Beside("right", m, n)
        BY <4>2, <2>4, <2>5, <2>7, <3>1, <1>1, BesideFacts
      <4> QED BY <4>1, <4>3
    <3> QED BY <3>2, <3>3, <3>4, <2>2
  <2> QED BY <2>7, <1>1, <1>3 DEF Deletion, Replaces
<1> QED BY <1>2, <1>3

------------------------------------------------------------------------------
(* A successor in the place of the deleted node                            *)

As(old, new, m) == IF m = old THEN new ELSE m

\* v is t with the node old renamed to new.
Renamed(t, S, old, new, v) ==
    /\ v \in Tree
    /\ \A s \in Side, m \in S \cup {root} : Kid(v, s, As(old, new, m)) = As(old, new, Kid(t, s, m))
    /\ \A m \in S : Par(v, As(old, new, m)) = As(old, new, Par(t, m)) /\ IsRed(v, As(old, new, m)) = IsRed(t, m)
    /\ Kid(v, "left", nil) = nil /\ Kid(v, "right", nil) = nil
    /\ ~IsRed(v, nil) /\ ~IsRed(v, root)

\* What Free does.
LEMMA FreeAt ==
  ASSUME NEW t \in Tree, NEW n \in Cell, NEW v, v = Free(t, n)
  PROVE  /\ v \in Tree
         /\ \A m \in Cell \ {n} : IsRed(v, m) = IsRed(t, m) /\ Par(v, m) = Par(t, m)
         /\ \A s \in Side, m \in Cell \ {n} : Kid(v, s, m) = Kid(t, s, m)
<1> DEFINE l == [t.left EXCEPT ![n] = nil]
           r == [t.right EXCEPT ![n] = nil]
           q == [t.parent EXCEPT ![n] = nil]
           c == [t.red EXCEPT ![n] = FALSE]
<1>1. /\ t = [left |-> t.left, right |-> t.right, parent |-> t.parent, red |-> t.red]
      /\ t.left \in [Cell -> Cell] /\ t.right \in [Cell -> Cell] /\ t.parent \in [Cell -> Cell] /\ t.red \in [Cell -> BOOLEAN]
  BY DEF Tree
<1>2. v = [left |-> l, right |-> r, parent |-> q, red |-> c]
  BY <1>1 DEF Free
<1>3. /\ l \in [Cell -> Cell] /\ r \in [Cell -> Cell] /\ q \in [Cell -> Cell] /\ c \in [Cell -> BOOLEAN]
      /\ \A m \in Cell \ {n} : l[m] = t.left[m] /\ r[m] = t.right[m] /\ q[m] = t.parent[m] /\ c[m] = t.red[m]
  BY <1>1, CellFacts
<1> HIDE DEF l, r, q, c
<1>4. v.left = l /\ v.right = r /\ v.parent = q /\ v.red = c /\ v["left"] = l /\ v["right"] = r
  BY ONLY <1>2
<1>5. v \in Tree
  BY ONLY <1>2, <1>3 DEF Tree
<1>6. \A m \in Cell \ {n} : IsRed(v, m) = IsRed(t, m) /\ Par(v, m) = Par(t, m)
  BY <1>3, <1>4 DEF IsRed, Par
<1>7. \A m \in Cell \ {n} : Kid(v, "left", m) = Kid(t, "left", m) /\ Kid(v, "right", m) = Kid(t, "right", m)
  BY <1>3, <1>4 DEF Kid
<1>8. \A s \in Side, m \in Cell \ {n} : Kid(v, s, m) = Kid(t, s, m)
  BY <1>7 DEF Side
<1> QED BY <1>5, <1>6, <1>8

\* What PutInPlace does.
LEMMA PutInPlaceAt ==
  ASSUME NEW t \in Tree, NEW old \in Cell, NEW new \in Cell, NEW v, v = PutInPlace(t, old, new)
  PROVE  /\ v \in Tree
         /\ \A m \in Cell : IsRed(v, m) = IF m = new THEN IsRed(t, old) ELSE IsRed(t, m)
         /\ \A m \in Cell : Par(v, m) = IF m = new THEN Par(t, old)
                                        ELSE IF m = Kid(t, "left", old) \/ m = Kid(t, "right", old) THEN new
                                        ELSE Par(t, m)
         /\ \A s \in Side, m \in Cell : Kid(v, s, m) = IF s = SideOf(t, old) /\ m = Par(t, old) THEN new
                                                       ELSE IF m = new THEN Kid(t, s, old) ELSE Kid(t, s, m)
<1> USE SideFacts
<1> DEFINE l == Kid(t, "left", old)
           r == Kid(t, "right", old)
           p == Par(t, old)
           from == SideOf(t, old)
           t1 == [t EXCEPT !.red[new] = IsRed(t, old)]
           t2 == Link(t1, new, "left", l)
           t3 == Link(t2, new, "right", r)
<1>1. l \in Cell /\ r \in Cell /\ p \in Cell /\ from \in Side /\ IsRed(t, old) \in BOOLEAN
  BY AccessFacts
<1>2. v = Link(t3, p, from, new)
  BY AccessFacts DEF PutInPlace
<1>3. /\ t1 \in Tree
      /\ \A m \in Cell : IsRed(t1, m) = IF m = new THEN IsRed(t, old) ELSE IsRed(t, m)
      /\ \A m \in Cell : Par(t1, m) = Par(t, m)
      /\ \A s \in Side, m \in Cell : Kid(t1, s, m) = Kid(t, s, m)
  <2> HIDE DEF l, r, p, from
  <2> DEFINE c == [t.red EXCEPT ![new] = IsRed(t, old)]
  <2>1. /\ t = [left |-> t.left, right |-> t.right, parent |-> t.parent, red |-> t.red]
        /\ t.left \in [Cell -> Cell] /\ t.right \in [Cell -> Cell] /\ t.parent \in [Cell -> Cell] /\ t.red \in [Cell -> BOOLEAN]
    BY DEF Tree
  <2>2. t1 = [left |-> t.left, right |-> t.right, parent |-> t.parent, red |-> c]
    BY <2>1
  <2>3. c \in [Cell -> BOOLEAN] /\ \A m \in Cell : c[m] = IF m = new THEN IsRed(t, old) ELSE IsRed(t, m)
    BY <1>1, <2>1 DEF IsRed
  <2> HIDE DEF c, t1
  <2>4. t1.left = t.left /\ t1.right = t.right /\ t1.parent = t.parent /\ t1.red = c /\ t1["left"] = t.left /\ t1["right"] = t.right
    BY ONLY <2>2
  <2>5. t1 \in Tree
    BY ONLY <2>1, <2>2, <2>3 DEF Tree
  <2>6. \A m \in Cell : Kid(t1, "left", m) = Kid(t, "left", m) /\ Kid(t1, "right", m) = Kid(t, "right", m)
    BY <2>4 DEF Kid
  <2>7. \A s \in Side, m \in Cell : Kid(t1, s, m) = Kid(t, s, m)
    BY <2>6 DEF Side
  <2> QED BY <2>3, <2>4, <2>5, <2>7 DEF IsRed, Par
<1> HIDE DEF t1
<1>4. LinkSet(t1, new, "left", l, t2) /\ t2 \in Tree
  <2>1. LinkSet(t1, new, "left", l, t2)
    BY <1>1, <1>3, LinkAt
  <2> HIDE DEF t2
  <2> QED BY <2>1 DEF LinkSet
<1> HIDE DEF t2
<1>5. LinkSet(t2, new, "right", r, t3) /\ t3 \in Tree
  <2>1. LinkSet(t2, new, "right", r, t3)
    BY <1>1, <1>4, LinkAt
  <2> HIDE DEF t3
  <2> QED BY <2>1 DEF LinkSet
<1> HIDE DEF t3
<1>6. LinkSet(t3, p, from, new, v)
  BY <1>1, <1>2, <1>5, LinkAt
<1> HIDE DEF l, r, p, from
<1>7. v \in Tree
  BY <1>6 DEF LinkSet
<1>8. \A m \in Cell : IsRed(v, m) = IF m = new THEN IsRed(t, old) ELSE IsRed(t, m)
  BY <1>3, <1>4, <1>5, <1>6 DEF LinkSet
<1>9. \A m \in Cell : Par(v, m) = IF m = new THEN p ELSE IF m = l \/ m = r THEN new ELSE Par(t, m)
  BY <1>3, <1>4, <1>5, <1>6 DEF LinkSet
<1>10. \A s \in Side, m \in Cell : Kid(v, s, m) = IF s = from /\ m = p THEN new
                                                  ELSE IF s = "right" /\ m = new THEN r
                                                  ELSE IF s = "left" /\ m = new THEN l ELSE Kid(t, s, m)
  BY <1>3, <1>4, <1>5, <1>6 DEF LinkSet
<1>11. \A s \in Side, m \in Cell : Kid(v, s, m) = IF s = from /\ m = p THEN new
                                                  ELSE IF m = new THEN Kid(t, s, old) ELSE Kid(t, s, m)
  <2>1. ASSUME NEW m \in Cell
        PROVE  /\ Kid(v, "left", m) = IF "left" = from /\ m = p THEN new
                                      ELSE IF m = new THEN Kid(t, "left", old) ELSE Kid(t, "left", m)
               /\ Kid(v, "right", m) = IF "right" = from /\ m = p THEN new
                                      ELSE IF m = new THEN Kid(t, "right", old) ELSE Kid(t, "right", m)
    BY <1>10 DEF l, r
  <2> QED BY <2>1 DEF Side
<1> QED BY <1>7, <1>8, <1>9, <1>11 DEF l, r, p, from

\* To rename a node is to put it in the place of the other.
LEMMA RelinkRenames ==
  ASSUME NEW t, NEW S, TreeOf(t, S), NEW new, NEW old, Deletion(S, new, old),
         Kid(t, "left", nil) = nil, Kid(t, "right", nil) = nil,
         NEW v, v = IF new # old THEN Free(PutInPlace(t, old, new), old) ELSE Free(t, old)
  PROVE  Renamed(t, S, old, new, v)
<1> USE SideFacts, CellFacts
<1>1. /\ t \in Tree /\ S \subseteq Box /\ nil \notin S /\ root \notin S /\ S \subseteq Cell
      /\ ~IsRed(t, nil) /\ ~IsRed(t, root) /\ Top(t) \in S \cup {nil}
  BY TreeOfFacts
<1>2. old \in Box /\ old \in Cell /\ old # nil /\ old # root
  BY DEF Deletion
<1>3. Kid(t, "right", root) = nil
  BY DEF TreeOf, SearchTree, Links
<1>4. \A s \in Side, m \in S \cup {root} : Kid(t, s, m) \in S \cup {nil}
  BY <1>1, <1>3, TreeOfFacts DEF Side, Top
<1>5. \A m \in S : Par(t, m) \in S \cup {root} /\ Par(t, m) # m
  BY TreeOfFacts
<1>6. CASE new = old
  <2>1. old \notin S /\ v = Free(t, old)
    BY <1>6 DEF Deletion
  <2>2. /\ v \in Tree
        /\ \A m \in Cell \ {old} : IsRed(v, m) = IsRed(t, m) /\ Par(v, m) = Par(t, m)
        /\ \A s \in Side, m \in Cell \ {old} : Kid(v, s, m) = Kid(t, s, m)
    BY <1>1, <1>2, <2>1, FreeAt
  <2>3. \A m : As(old, new, m) = m
    BY <1>6 DEF As
  <2>4. \A s \in Side, m \in S \cup {root} : Kid(v, s, m) = Kid(t, s, m)
    BY <1>1, <1>2, <2>1, <2>2
  <2>5. \A m \in S : Par(v, m) = Par(t, m) /\ IsRed(v, m) = IsRed(t, m)
    BY <1>1, <1>2, <2>1, <2>2
  <2>6. Kid(v, "left", nil) = nil /\ Kid(v, "right", nil) = nil /\ ~IsRed(v, nil) /\ ~IsRed(v, root)
    BY <1>1, <1>2, <2>2
  <2> QED BY <2>2, <2>3, <2>4, <2>5, <2>6 DEF Renamed
<1>7. CASE new # old
  <2> DEFINE u == PutInPlace(t, old, new)
             p == Par(t, old)
             from == SideOf(t, old)
  <2>1. old \in S /\ new \in Box /\ new \notin S /\ v = Free(u, old) /\ new \in Cell /\ new # nil /\ new # root
    BY <1>7 DEF Deletion
  <2>2. /\ u \in Tree
        /\ \A m \in Cell : IsRed(u, m) = IF m = new THEN IsRed(t, old) ELSE IsRed(t, m)
        /\ \A m \in Cell : Par(u, m) = IF m = new THEN p
                                       ELSE IF m = Kid(t, "left", old) \/ m = Kid(t, "right", old) THEN new
                                       ELSE Par(t, m)
        /\ \A s \in Side, m \in Cell : Kid(u, s, m) = IF s = from /\ m = p THEN new
                                                      ELSE IF m = new THEN Kid(t, s, old) ELSE Kid(t, s, m)
    <3>1. t \in Tree /\ old \in Cell /\ new \in Cell /\ u = PutInPlace(t, old, new)
      BY <1>1, <1>2, <2>1
    <3> HIDE DEF u
    <3> QED BY ONLY <3>1, PutInPlaceAt
  <2> HIDE DEF u
  <2>3. /\ v \in Tree
        /\ \A m \in Cell \ {old} : IsRed(v, m) = IsRed(u, m) /\ Par(v, m) = Par(u, m)
        /\ \A s \in Side, m \in Cell \ {old} : Kid(v, s, m) = Kid(u, s, m)
    BY <1>2, <2>1, <2>2, FreeAt
  <2>4. /\ p \in S \cup {root} /\ p # old /\ p # nil /\ from \in Side /\ Kid(t, from, p) = old
        /\ p = root => from = "left"
    BY <2>1, TreeOfFacts
  <2>5. \A s \in Side, m \in S \cup {root} : Kid(t, s, m) = old => s = from /\ m = p
    <3> SUFFICES ASSUME NEW s \in Side, NEW m \in S \cup {root}, Kid(t, s, m) = old PROVE s = from /\ m = p
      OBVIOUS
    <3>1. CASE m = root
      <4>1. s = "left"
        BY <3>1, <1>2, <1>3 DEF Side
      <4>2. old = Top(t)
        BY <3>1, <4>1 DEF Top
      <4>3. p = root
        BY <4>2, <2>1, TreeOfFacts
      <4> QED BY <3>1, <4>1, <4>3, <2>4
    <3>2. CASE m \in S
      <4>1. Par(t, old) = m /\ SideOf(t, old) = s
        BY <3>2, <1>2, TreeOfFacts
      <4> QED BY <4>1
    <3> QED BY <3>1, <3>2
  <2>6. ASSUME NEW s \in Side, NEW m \in S \cup {root}
        PROVE  Kid(v, s, As(old, new, m)) = As(old, new, Kid(t, s, m))
    <3>1. m \in Cell /\ m # new
      BY <1>1, <2>1
    <3>2. CASE m = old
      <4>1. Kid(v, s, new) = Kid(t, s, old)
        BY <2>1, <2>2, <2>3, <2>4, <1>7
      <4>2. Kid(t, s, old) # old
        BY <2>1, TreeOfFacts
      <4> QED BY <3>2, <4>1, <4>2 DEF As
    <3>3. CASE m # old
      <4>1. Kid(v, s, m) = IF s = from /\ m = p THEN new ELSE Kid(t, s, m)
        BY <3>1, <3>3, <2>2, <2>3
      <4> QED BY <3>3, <4>1, <2>4, <2>5 DEF As
    <3> QED BY <3>2, <3>3
  <2>7. ASSUME NEW m \in S
        PROVE  Par(v, As(old, new, m)) = As(old, new, Par(t, m)) /\ IsRed(v, As(old, new, m)) = IsRed(t, m)
    <3>1. m \in Cell /\ m # new /\ m # nil /\ m # root
      BY <1>1, <2>1
    <3>2. CASE m = old
      <4>1. Par(v, new) = p /\ IsRed(v, new) = IsRed(t, old)
        BY <2>1, <2>2, <2>3, <1>7
      <4> QED BY <3>2, <4>1, <2>4 DEF As
    <3>3. CASE m # old
      <4>1. IsRed(v, m) = IsRed(t, m)
        BY <3>1, <3>3, <2>2, <2>3
      <4>2. Par(v, m) = IF m = Kid(t, "left", old) \/ m = Kid(t, "right", old) THEN new ELSE Par(t, m)
        BY <3>1, <3>3, <2>2, <2>3
      <4>3. m = Kid(t, "left", old) \/ m = Kid(t, "right", old) <=> Par(t, m) = old
        <5>1. \A s \in Side : m = Kid(t, s, old) => Par(t, m) = old
          BY <3>1, <2>1, TreeOfFacts
        <5>2. Par(t, m) = old => Kid(t, SideOf(t, m), old) = m /\ SideOf(t, m) \in Side
          BY TreeOfFacts
        <5> QED BY <5>1, <5>2 DEF Side
      <4> QED BY <3>3, <4>1, <4>2, <4>3 DEF As
    <3> QED BY <3>2, <3>3
  <2>8. Kid(v, "left", nil) = nil /\ Kid(v, "right", nil) = nil /\ ~IsRed(v, nil) /\ ~IsRed(v, root)
    BY <1>1, <1>2, <2>1, <2>2, <2>3, <2>4
  <2> QED BY <2>3, <2>6, <2>7, <2>8 DEF Renamed
<1> QED BY <1>6, <1>7

\* A tree stays a sound tree when a node is renamed to one that can take its place.
LEMMA RenamingKeeps ==
  ASSUME NEW t, NEW S, TreeOf(t, S), NEW H, Sound(t, S, H), NEW new, NEW old, Deletion(S, new, old),
         NEW v, Renamed(t, S, old, new, v),
         NEW S2, S2 = {As(old, new, m) : m \in S}
  PROVE  TreeOf(v, S2) /\ \E H2 : Sound(v, S2, H2)
<1> DEFINE N(m) == As(old, new, m)
<1> USE SideFacts, CellFacts
<1>1. PICK B : SearchTree(t, B) /\ B[Top(t)] = S
  BY DEF TreeOf
<1>2. /\ t \in Tree /\ S \subseteq Box /\ nil \notin S /\ root \notin S /\ S \subseteq Cell
      /\ Top(t) \in S \cup {nil}
  BY TreeOfFacts
<1>3. Links(t, B)
  BY <1>1 DEF SearchTree
<1>4. B \in [Cell -> SUBSET Box] /\ B[nil] = {} /\ Kid(t, "right", root) = nil
  BY <1>3 DEF Links
<1>5. \A m \in S \cup {nil} : B[m] \subseteq S
  BY <1>1, <1>3, BelowFacts
<1>6. /\ old \in Box /\ new \in Box /\ old \in Cell /\ new \in Cell /\ old # nil /\ old # root /\ new # nil /\ new # root
      /\ new \in S => FALSE
      /\ old \in S => new # old
  BY DEF Deletion
<1>7. /\ N(nil) = nil /\ N(root) = root
      /\ \A m \in S : N(m) \in S2 /\ N(m) \in Box
      /\ \A m, k \in S \cup {nil, root} : N(m) = N(k) => m = k
  BY <1>2, <1>6 DEF As
<1>8. /\ \A m \in S \cup {nil} : N(m) \in S2 \cup {nil}
      /\ \A m \in S \cup {root} : N(m) \in S2 \cup {root}
      /\ \A m \in S \cup {nil, root} : N(m) \in Cell
      /\ \A m \in S2 : \E k \in S : m = N(k)
  BY <1>7
<1>9. \A s \in Side, i, m \in S : Beside(s, i, m) => Beside(s, N(i), N(m))
  <2> SUFFICES ASSUME NEW s \in Side, NEW i \in S, NEW m \in S, Beside(s, i, m) PROVE Beside(s, N(i), N(m))
    OBVIOUS
  <2>1. i # m /\ i \in Box /\ m \in Box
    BY <1>2, BesideFacts
  <2>2. CASE i # old /\ m # old
    BY <2>2 DEF As
  <2>3. CASE m = old
    <3>1. Replaces(S, new, old)
      BY <2>3 DEF Deletion
    <3>2. Beside(s, i, new)
      BY <3>1, <2>1, <2>3 DEF Replaces
    <3> QED BY <3>2, <2>1, <2>3 DEF As
  <2>4. CASE i = old
    <3>1. Replaces(S, new, old)
      BY <2>4 DEF Deletion
    <3>2. Beside(Other(s), m, old)
      BY <2>1, <2>4, <1>6, BesideFacts
    <3>3. Beside(Other(s), m, new)
      BY <3>1, <3>2, <2>1, <2>4 DEF Replaces
    <3>4. Beside(s, new, m)
      BY <3>3, <2>1, <1>6, BesideFacts
    <3> QED BY <3>4, <2>1, <2>4 DEF As
  <2> QED BY <2>2, <2>3, <2>4
<1> HIDE DEF N
<1>10. /\ v \in Tree
       /\ \A s \in Side, m \in S \cup {root} : Kid(v, s, N(m)) = N(Kid(t, s, m))
       /\ \A m \in S : Par(v, N(m)) = N(Par(t, m)) /\ IsRed(v, N(m)) = IsRed(t, m)
       /\ Kid(v, "left", nil) = nil /\ Kid(v, "right", nil) = nil
       /\ ~IsRed(v, nil) /\ ~IsRed(v, root)
  BY DEF Renamed, N
<1>11. S2 = {N(m) : m \in S}
  BY DEF N
<1> DEFINE B2 == [m \in Cell |-> {N(i) : i \in IF m = new THEN B[old] ELSE B[m]} \cap Box]
<1>12. B2 \in [Cell -> SUBSET Box] /\ \A m \in S \cup {nil} : B2[N(m)] = {N(i) : i \in B[m]}
  <2>1. B2 \in [Cell -> SUBSET Box]
    OBVIOUS
  <2>2. ASSUME NEW m \in S \cup {nil} PROVE B2[N(m)] = {N(i) : i \in B[m]}
    <3>1. (IF N(m) = new THEN B[old] ELSE B[N(m)]) = B[m]
      BY <1>2, <1>6 DEF N, As
    <3>2. {N(i) : i \in B[m]} \subseteq Box
      BY <1>5, <1>7
    <3>3. N(m) \in Cell
      BY <1>8
    <3> QED BY <3>1, <3>2, <3>3
  <2> QED BY <2>1, <2>2
<1> HIDE DEF B2
<1>13. Top(v) = N(Top(t)) /\ Kid(v, "right", root) = nil
  <2>1. Kid(v, "left", N(root)) = N(Kid(t, "left", root)) /\ Kid(v, "right", N(root)) = N(Kid(t, "right", root))
    BY <1>10
  <2> QED BY <2>1, <1>4, <1>7 DEF Top
<1>14. B2[Top(v)] = S2 /\ B2[nil] = {}
  <2>1. B2[N(nil)] = {N(i) : i \in B[nil]}
    BY <1>12
  <2>2. B2[nil] = {}
    BY <2>1, <1>4, <1>7
  <2>3. B2[N(Top(t))] = {N(i) : i \in B[Top(t)]}
    BY <1>2, <1>12
  <2> QED BY <2>2, <2>3, <1>1, <1>11, <1>13
<1>15. ASSUME NEW m \in S
       PROVE  SearchNode(v, B2, N(m))
  <2> DEFINE l == Kid(t, "left", m)
             r == Kid(t, "right", m)
             q == Par(t, m)
  <2>1. /\ l \in S \cup {nil} /\ r \in S \cup {nil}
        /\ Kid(v, "left", N(m)) = N(l) /\ Kid(v, "right", N(m)) = N(r)
    BY <1>10, TreeOfFacts
  <2>2. ASSUME NEW s \in Side PROVE InOrder(v, B2, N(m), s)
    <3> DEFINE k == Kid(t, s, m)
    <3>1. k \in S \cup {nil} /\ (k # nil => Par(t, k) = m) /\ Kid(v, s, N(m)) = N(k)
      BY <1>10, TreeOfFacts
    <3>2. \A i \in B[k] : Beside(s, i, m) /\ i \in S
      BY <3>1, <1>1, <1>3, <1>5, KidFacts
    <3>3. \A j \in B2[N(k)] : Beside(s, j, N(m))
      BY <3>1, <3>2, <1>9, <1>12
    <3>4. N(k) \in S2 \cup {nil}
      BY <3>1, <1>8
    <3>5. N(k) # nil => Par(v, N(k)) = N(m)
      BY <3>1, <1>7, <1>10
    <3> QED BY <3>1, <3>3, <3>4, <3>5, <1>14 DEF InOrder
  <2>3. B2[N(m)] = {N(m)} \cup B2[Kid(v, "left", N(m))] \cup B2[Kid(v, "right", N(m))]
    <3>1. B[m] = {m} \cup B[l] \cup B[r]
      BY <1>1, <1>3, NodeFacts
    <3>2. B2[N(m)] = {N(i) : i \in B[m]} /\ B2[N(l)] = {N(i) : i \in B[l]} /\ B2[N(r)] = {N(i) : i \in B[r]}
      BY <2>1, <1>12
    <3> HIDE DEF l, r
    <3> QED BY <2>1, <3>1, <3>2
  <2>4. Hangs(v, B2, N(m))
    <3>1. /\ q \in S \cup {root} /\ (m = Top(t) <=> q = root)
          /\ SideOf(t, m) \in Side /\ Kid(t, SideOf(t, m), q) = m /\ Par(v, N(m)) = N(q)
      BY <1>10, TreeOfFacts
    <3>2. m = Top(t) <=> N(m) = Top(v)
      BY <1>2, <1>7, <1>13
    <3>3. CASE m = Top(t)
      BY <3>1, <3>2, <3>3, <1>7 DEF Hangs
    <3>4. CASE m # Top(t)
      <4>1. q \in S /\ N(q) \in S2
        BY <3>1, <3>4, <1>7
      <4>2. SideOf(v, N(m)) = SideOf(t, m)
        <5>1. Kid(v, "left", N(q)) = N(Kid(t, "left", q)) /\ Kid(t, "left", q) \in S \cup {nil}
          BY <4>1, <1>10, TreeOfFacts
        <5>2. Kid(v, "left", N(q)) = N(m) <=> Kid(t, "left", q) = m
          BY <5>1, <1>7
        <5>3. SideOf(v, N(m)) = IF Kid(v, "left", Par(v, N(m))) = N(m) THEN "left" ELSE "right"
          BY <1>10, AccessFacts
        <5>4. SideOf(t, m) = IF Kid(t, "left", Par(t, m)) = m THEN "left" ELSE "right"
          BY <1>2, AccessFacts
        <5> QED BY <3>1, <5>2, <5>3, <5>4
      <4>3. Kid(v, SideOf(t, m), N(q)) = N(m)
        BY <3>1, <4>1, <1>10
      <4> QED BY <3>1, <3>2, <3>4, <4>1, <4>2, <4>3, <1>14 DEF Hangs
    <3> QED BY <3>3, <3>4
  <2>5. InOrder(v, B2, N(m), "left") /\ InOrder(v, B2, N(m), Other("left"))
    BY <2>2
  <2> HIDE DEF l, r, q
  <2> QED BY <2>3, <2>4, <2>5, SearchNodeParts
<1>16. \A m \in B2[Top(v)] : SearchNode(v, B2, m)
  BY <1>8, <1>14, <1>15
<1>17. Top(v) \in B2[Top(v)] \cup {nil}
  BY <1>2, <1>8, <1>13, <1>14
<1>18. Links(v, B2)
  BY <1>10, <1>12, <1>13, <1>14, <1>16, <1>17 DEF Links
<1>19. TreeOf(v, S2)
  BY <1>10, <1>14, <1>18 DEF TreeOf, SearchTree
<1> DEFINE H2 == [m \in Cell |-> IF m = new THEN H[old] ELSE H[m]]
<1>20. Even(t, S, H)
  BY <1>2, EvenIsBalanced DEF Sound
<1>21. H2 \in [Cell -> Nat] /\ H2[nil] = 0 /\ \A m \in S \cup {nil} : H2[N(m)] = H[m]
  <2>1. H \in [Cell -> Nat] /\ H[nil] = 0
    BY <1>20 DEF Even
  <2>2. \A m \in S \cup {nil} : H2[N(m)] = H[m]
    BY <1>2, <1>6 DEF N, As
  <2> QED BY <2>1, <2>2, <1>6
<1> HIDE DEF H2
<1>22. ASSUME NEW m \in S, NEW s \in Side
       PROVE  H2[N(m)] = Black(v, N(m)) + H2[Kid(v, s, N(m))]
  <2>1. H[m] = Black(t, m) + H[Kid(t, s, m)]
    BY <1>20 DEF Even
  <2>2. Kid(t, s, m) \in S \cup {nil} /\ Kid(v, s, N(m)) = N(Kid(t, s, m)) /\ Black(v, N(m)) = Black(t, m)
    BY <1>10, TreeOfFacts DEF Black
  <2> QED BY <2>1, <2>2, <1>21
<1>23. Even(v, S2, H2)
  BY <1>8, <1>21, <1>22 DEF Even
<1>24. nil \notin S2
  <2>1. S2 \subseteq Box
    BY ONLY <1>7, <1>8
  <2> QED BY <2>1
<1>25. Balanced(v, S2, H2, nil, "left")
  BY <1>19, <1>23, <1>24, EvenIsBalanced
<1>26. ASSUME NEW m \in S PROVE ~RedBelowRed(v, N(m))
  <2>1. ~RedBelowRed(t, m) /\ Par(t, m) \in S \cup {root}
    BY TreeOfFacts DEF Sound
  <2>2. IsRed(v, N(Par(t, m))) => IsRed(t, Par(t, m))
    BY <2>1, <1>7, <1>10
  <2> QED BY <2>1, <2>2, <1>10 DEF RedBelowRed
<1>27. ~IsRed(v, Top(v))
  <2>1. CASE Top(t) = nil
    BY <2>1, <1>7, <1>10, <1>13
  <2>2. CASE Top(t) \in S
    BY <2>2, <1>10, <1>13 DEF Sound
  <2> QED BY <2>1, <2>2, <1>2
<1>28. \A m \in S2 : ~RedBelowRed(v, m)
  BY <1>8, <1>26
<1> QED BY <1>19, <1>25, <1>27, <1>28 DEF Sound

------------------------------------------------------------------------------
(* The inductive invariant                                                 *)

SoundTree(t, S) == TreeOf(t, S) /\ \E H : Sound(t, S, H)
InsertingTree(t, S, xx) == TreeOf(t, S) /\ \E H : Inserting(t, S, H, xx)
RepairingTree(t, S, xx, old) == TreeOf(t, S) /\ \E H : Repairing(t, S, H, xx, old)
Finding(t, S, xx, yy, a) == \E B : SearchTree(t, B) /\ B[Top(t)] = S /\ OnTheWay(t, B, xx, yy, a)
Succeeding(t, S, yy, zz) == \E B : SearchTree(t, B) /\ B[Top(t)] = S /\ AtSuccessor(t, B, yy, zz)

IsQuery(a) == a \in {<<q, q>> : q \in Point}

\* S is the set of the nodes that hang in the tree.
IInvOf(S) ==
    /\ pc \in {"ready", "answer", "descend", "splice", "insertFixup", "deleteFixup", "relink"}
    /\ pc \notin {"insertFixup", "deleteFixup"} => SoundTree(tree, S)
    /\ pc \in {"answer", "descend"} /\ op # "find" => arg \in Box
    /\ pc = "descend" => /\ op = "find" => IsQuery(arg)
                         /\ Finding(tree, S, x, y, arg)
    /\ pc = "splice" => Succeeding(tree, S, y, z)
    /\ pc = "insertFixup" => InsertingTree(tree, S, x)
    /\ pc = "deleteFixup" => RepairingTree(tree, S, x, oldRoot)
    /\ pc \in {"deleteFixup", "relink"} => Deletion(S, y, z)

\* In every state the cells form a tree.
LEMMA TreeAlways ==
  ASSUME NEW S, IInvOf(S)
  PROVE  TreeOf(tree, S) /\ tree \in Tree /\ tree.left[root] = Top(tree)
<1>1. TreeOf(tree, S)
  BY DEF IInvOf, SoundTree, InsertingTree, RepairingTree
<1>2. tree \in Tree
  BY <1>1, TreeOfFacts
<1>3. tree.left[root] = Top(tree)
  BY <1>2, AccessFacts DEF Top
<1> QED BY <1>1, <1>2, <1>3

\* The argument of a descent is an interval or a point.
LEMMA ArgIsSpan ==
  ASSUME NEW S, IInvOf(S), pc = "descend"
  PROVE  arg \in Span
<1>1. CASE op # "find"
  BY <1>1, BesideFacts DEF IInvOf
<1>2. CASE op = "find"
  <2>1. PICK q \in Point : arg = <<q, q>>
    BY <1>2 DEF IInvOf, IsQuery
  <2>2. q \in Nat
    BY BoxAssumption
  <2> QED BY <2>1, <2>2 DEF Span
<1> QED BY <1>1, <1>2

\* Initially the tree is empty.
LEMMA InitHolds ==
  ASSUME Init
  PROVE  IInvOf({})
<1> USE CellFacts, SideFacts
<1>1. /\ tree = [ left |-> [c \in Cell |-> nil], right |-> [c \in Cell |-> nil],
                  parent |-> [c \in Cell |-> nil], red |-> [c \in Cell |-> FALSE] ]
      /\ pc = "ready"
  BY DEF Init
<1>2. tree \in Tree
  BY <1>1 DEF Tree
<1>3. /\ \A s \in Side, m \in Cell : Kid(tree, s, m) = nil
      /\ \A m \in Cell : ~IsRed(tree, m)
  <2>1. /\ \A m \in Cell : tree["left"][m] = nil /\ tree["right"][m] = nil
        /\ \A m \in Cell : tree.red[m] = FALSE
    BY <1>1
  <2> QED BY <2>1 DEF Kid, IsRed, Side
<1> DEFINE B == [m \in Cell |-> {}]
           H == [m \in Cell |-> 0]
<1>4. B \in [Cell -> SUBSET Box] /\ (\A m \in Cell : B[m] = {}) /\ H \in [Cell -> Nat] /\ H[nil] = 0
  OBVIOUS
<1> HIDE DEF B, H
<1>5. Top(tree) = nil
  BY <1>3 DEF Top
<1>6. Links(tree, B)
  BY <1>2, <1>3, <1>4, <1>5 DEF Links
<1>7. TreeOf(tree, {})
  BY <1>3, <1>4, <1>5, <1>6 DEF TreeOf, SearchTree
<1>8. Sound(tree, {}, H)
  BY <1>3, <1>4, <1>5 DEF Sound, Balanced
<1> QED BY <1>1, <1>7, <1>8 DEF IInvOf, SoundTree

------------------------------------------------------------------------------
(* The steps of the descents                                               *)

\* A descent begins at the top of the tree.
LEMMA DescentFromTop ==
  ASSUME NEW t, NEW S, TreeOf(t, S), NEW a
  PROVE  Finding(t, S, Top(t), root, a)
<1>1. PICK B : SearchTree(t, B) /\ B[Top(t)] = S
  BY DEF TreeOf
<1>2. OnTheWay(t, B, Top(t), root, a)
  BY <1>1, DescentBegins DEF SearchTree
<1> QED BY <1>1, <1>2 DEF Finding

\* Begin keeps the invariant.
LEMMA BeginKeeps ==
  ASSUME NEW S, IInvOf(S), NEW o \in {"canInsert", "delete", "find"}, NEW a, Begin(o, a),
         o # "find" => a \in Box, o = "find" => IsQuery(a)
  PROVE  IInvOf(S)'
<1>1. TreeOf(tree, S) /\ tree.left[root] = Top(tree)
  BY TreeAlways
<1>2. /\ pc = "ready" /\ pc' = "descend" /\ op' = o /\ arg' = a /\ y' = root /\ x' = Top(tree) /\ tree' = tree
  BY <1>1 DEF Begin
<1>3. SoundTree(tree', S)
  BY <1>2 DEF IInvOf
<1>4. Finding(tree', S, x', y', arg')
  BY <1>1, <1>2, DescentFromTop
<1> QED BY <1>2, <1>3, <1>4 DEF IInvOf

\* Descend keeps the invariant.
LEMMA DescendKeeps ==
  ASSUME NEW S, IInvOf(S), Descend
  PROVE  IInvOf(S)'
<1> USE SideFacts, CellFacts
<1>1. TreeOf(tree, S) /\ tree \in Tree
  BY TreeAlways
<1>2. /\ pc = "descend" /\ x # nil /\ Compare # 0
      /\ x' = (CASE Compare = 1 -> Kid(tree, "left", x) [] Compare = -1 -> Kid(tree, "right", x) [] OTHER -> x)
      /\ y' = x /\ tree' = tree /\ pc' = pc /\ op' = op /\ arg' = arg /\ z' = z
  BY <1>1, AccessFacts DEF Descend
<1>3. PICK B : SearchTree(tree, B) /\ B[Top(tree)] = S /\ OnTheWay(tree, B, x, y, arg)
  BY <1>2 DEF IInvOf, Finding
<1>4. arg \in Span
  BY <1>2, ArgIsSpan
<1>5. x \in S /\ x \in Span /\ Links(tree, B)
  <2>1. x \in S
    BY <1>2, <1>3 DEF OnTheWay
  <2> QED BY <2>1, <1>1, <1>3, TreeOfFacts, BesideFacts DEF SearchTree
<1>6. /\ Compare = 1 => Beside("left", arg, x)
      /\ Compare = -1 => Beside("right", arg, x)
  <2>1. CASE op = "find"
    <3>1. PICK q \in Point : arg = <<q, q>>
      BY <2>1, <1>2 DEF IInvOf, IsQuery
    <3>2. q \in Nat
      BY BoxAssumption
    <3> QED BY <2>1, <3>1, <3>2, <1>5, QueryFacts DEF Compare
  <2>2. CASE op # "find"
    BY <2>2, <1>4, <1>5, CompareFacts DEF Compare
  <2> QED BY <2>1, <2>2
<1>7. OnTheWay(tree, B, x', x, arg)
  <2>1. CASE Compare = 1
    <3>1. OnTheWay(tree, B, Kid(tree, "left", x), x, arg)
      BY <2>1, <1>3, <1>4, <1>5, <1>6, DescentGoesOn
    <3> QED BY <3>1, <2>1, <1>2
  <2>2. CASE Compare = -1
    <3>1. OnTheWay(tree, B, Kid(tree, "right", x), x, arg)
      BY <2>2, <1>3, <1>4, <1>5, <1>6, DescentGoesOn
    <3> QED BY <3>1, <2>2, <1>2
  <2>3. CASE Compare # 1 /\ Compare # -1
    <3>1. OnTheWay(tree, B, x, x, arg)
      BY <1>3, <1>4, <1>5, DescentStays
    <3> QED BY <3>1, <2>3, <1>2
  <2> QED BY <2>1, <2>2, <2>3
<1>8. Finding(tree', S, x', y', arg')
  BY <1>2, <1>3, <1>7 DEF Finding
<1> QED BY <1>2, <1>8 DEF IInvOf

\* The answers leave the tree alone.
LEMMA AnswersKeep ==
  ASSUME NEW S, IInvOf(S), EndCanInsert \/ EndFind
  PROVE  IInvOf(S)' /\ pc = "descend" /\ pc' = "answer"
<1>1. /\ pc = "descend" /\ pc' = "answer" /\ tree' = tree /\ op' = op /\ arg' = arg
  BY DEF EndCanInsert, EndFind, Answer
<1> QED BY <1>1 DEF IInvOf

\* So do the ends of calls that change nothing on this level.
LEMMA FinishKeeps ==
  ASSUME NEW S, IInvOf(S), CollectReply \/ InsertFoundIdentical
  PROVE  IInvOf(S)'
<1>1. /\ pc \in {"answer", "descend"} /\ pc' = "ready" /\ tree' = tree
  BY DEF CollectReply, InsertFoundIdentical, Finish
<1> QED BY <1>1 DEF IInvOf

\* ProceedToInsert keeps the invariant.
LEMMA ProceedKeeps ==
  ASSUME NEW S, IInvOf(S), ProceedToInsert
  PROVE  IInvOf(S)'
<1>1. TreeOf(tree, S) /\ tree.left[root] = Top(tree)
  BY TreeAlways
<1>2. /\ pc = "answer" /\ op = "canInsert" /\ pc' = "descend" /\ op' = "insert" /\ arg' = arg
      /\ y' = root /\ x' = Top(tree) /\ tree' = tree
  BY <1>1 DEF ProceedToInsert
<1>3. Finding(tree', S, x', y', arg')
  BY <1>1, <1>2, DescentFromTop
<1> QED BY <1>2, <1>3 DEF IInvOf

\* FindNode keeps the invariant.
LEMMA FindNodeKeeps ==
  ASSUME NEW S, IInvOf(S), FindNode
  PROVE  IInvOf(S)'
<1>1. tree \in Tree
  BY TreeAlways
<1>2. /\ pc = "descend" /\ x # nil /\ pc' = "splice" /\ tree' = tree /\ z' = x
      /\ y' = IF Kid(tree, "left", x) = nil \/ Kid(tree, "right", x) = nil THEN x ELSE Kid(tree, "right", x)
  BY <1>1, AccessFacts DEF FindNode
<1>3. PICK B : SearchTree(tree, B) /\ B[Top(tree)] = S /\ OnTheWay(tree, B, x, y, arg)
  BY <1>2 DEF IInvOf, Finding
<1>4. x \in B[Top(tree)] /\ Links(tree, B)
  BY <1>2, <1>3 DEF OnTheWay, SearchTree
<1>5. AtSuccessor(tree, B, y', x)
  BY <1>2, <1>3, <1>4, SuccessorBegins
<1>6. Succeeding(tree', S, y', z')
  BY <1>2, <1>3, <1>5 DEF Succeeding
<1> QED BY <1>2, <1>6 DEF IInvOf

\* TreeSuccessor keeps the invariant.
LEMMA TreeSuccessorKeeps ==
  ASSUME NEW S, IInvOf(S), TreeSuccessor
  PROVE  IInvOf(S)'
<1>1. tree \in Tree
  BY TreeAlways
<1>2. /\ pc = "splice" /\ y # z /\ Kid(tree, "left", y) # nil /\ y' = Kid(tree, "left", y)
      /\ tree' = tree /\ pc' = pc /\ z' = z
  BY <1>1, AccessFacts DEF TreeSuccessor
<1>3. PICK B : SearchTree(tree, B) /\ B[Top(tree)] = S /\ AtSuccessor(tree, B, y, z)
  BY <1>2 DEF IInvOf, Succeeding
<1>4. AtSuccessor(tree, B, y', z)
  BY <1>2, <1>3, SuccessorGoesOn DEF SearchTree
<1>5. Succeeding(tree', S, y', z')
  BY <1>2, <1>3, <1>4 DEF Succeeding
<1> QED BY <1>2, <1>5 DEF IInvOf

------------------------------------------------------------------------------
(* The steps of an insertion                                               *)

\* Attach adds the interval, which lies apart from all that are there.
LEMMA AttachStep ==
  ASSUME NEW S, IInvOf(S), Attach, NEW R, R = S \cup {arg}
  PROVE  /\ IInvOf(R)' /\ arg \in Box /\ pc = "descend" /\ pc' = "insertFixup"
         /\ \A m \in S : \E s \in Side : Beside(s, arg, m)
<1> USE SideFacts, CellFacts
<1> DEFINE side == IF y = root \/ CompareBox(y, arg) = 1 THEN "left" ELSE "right"
<1>1. TreeOf(tree, S) /\ tree \in Tree
  BY TreeAlways
<1>2. /\ pc = "descend" /\ op = "insert" /\ x = nil /\ x' = arg /\ pc' = "insertFixup"
      /\ tree' = [Link(tree, y, side, arg) EXCEPT !.left[arg] = nil, !.right[arg] = nil, !.red[arg] = TRUE]
  BY DEF Attach
<1>3. PICK B : SearchTree(tree, B) /\ B[Top(tree)] = S /\ OnTheWay(tree, B, nil, y, arg)
  BY <1>2 DEF IInvOf, Finding
<1>4. arg \in Box /\ arg \in Span /\ arg \in Cell /\ SoundTree(tree, S)
  BY <1>2, BesideFacts DEF IInvOf
<1>5. Links(tree, B) /\ nil \notin S /\ root \notin S /\ S \subseteq Box /\ S \subseteq Cell /\ (Top(tree) = nil <=> S = {}) /\ B[nil] = {}
  BY <1>3, TreeFacts DEF SearchTree
<1>6. side \in Side /\ y \in Cell /\ Vacant(tree, B, y, side, arg)
  <2>1. CASE y = root
    <3>1. Top(tree) = nil
      BY <2>1, <1>3, <1>5 DEF OnTheWay
    <3> QED BY <2>1, <3>1 DEF Vacant
  <2>2. CASE y # root
    <3>1. y \in S /\ \E s \in Side : nil = Kid(tree, s, y) /\ Beside(s, arg, y)
      BY <2>2, <1>3, <1>5 DEF OnTheWay
    <3>2. PICK s \in Side : nil = Kid(tree, s, y) /\ Beside(s, arg, y)
      BY <3>1
    <3>3. y \in Box /\ y \in Span
      BY <3>1, <1>5, BesideFacts
    <3>4. CompareBox(y, arg) = 1 <=> Beside("left", arg, y)
      BY <3>3, <1>4, CompareFacts
    <3>5. side = s
      <4>1. CASE s = "left"
        BY <4>1, <2>2, <3>2, <3>4
      <4>2. CASE s = "right"
        <5>1. ~Beside("left", arg, y)
          BY <4>2, <3>2, <3>3, <1>4, BesideFacts
        <5> QED BY <4>2, <5>1, <2>2, <3>4
      <4> QED BY <4>1, <4>2 DEF Side
    <3> HIDE DEF side
    <3> QED BY <3>1, <3>2, <3>5, <1>3, <1>5 DEF Vacant
  <2> QED BY <2>1, <2>2
<1> HIDE DEF side
<1>7. Attached(tree, y, side, arg, tree')
  BY <1>1, <1>2, <1>4, <1>6, AttachAt
<1>8. TreeOf(tree', S \cup {arg}) /\ arg \notin S
  BY <1>3, <1>4, <1>6, <1>7, AttachTree
<1>9. (y = root /\ S = {}) \/ (y \in S /\ Kid(tree, side, y) = nil)
  BY <1>3, <1>5, <1>6 DEF Vacant
<1>10. PICK H : Sound(tree, S, H)
  BY <1>4 DEF SoundTree
<1>11. \E H2 : Inserting(tree', S \cup {arg}, H2, arg)
  <2>1. TreeOf(tree, S) /\ Sound(tree, S, H) /\ y \in Cell /\ side \in Side /\ arg \in Box /\ arg \notin S
    BY <1>1, <1>4, <1>6, <1>8, <1>10
  <2> QED BY ONLY <2>1, <1>7, <1>8, <1>9, AttachKeeps
<1>12. InsertingTree(tree', S \cup {arg}, x')
  BY <1>2, <1>8, <1>11 DEF InsertingTree
<1>13. \A m \in S : \E s \in Side : Beside(s, arg, m)
  BY <1>3, <1>4, <1>5, DescentIsExact
<1> QED BY <1>2, <1>4, <1>12, <1>13 DEF IInvOf

\* RecolorUncle keeps the invariant.
LEMMA RecolorUncleKeeps ==
  ASSUME NEW S, IInvOf(S), RecolorUncle
  PROVE  IInvOf(S)'
<1> USE SideFacts
<1> DEFINE p == Par(tree, x)
           g == Par(tree, p)
           w == Kid(tree, Other(SideOf(tree, p)), g)
<1>1. tree \in Tree
  BY TreeAlways
<1>2. /\ pc = "insertFixup" /\ pc' = pc /\ IsRed(tree, p) /\ IsRed(tree, w) /\ x' = g
      /\ tree' = Paint(Paint(tree, {p, w}, FALSE), {g}, TRUE)
  BY DEF RecolorUncle, Kid, Par, IsRed
<1>3. PICK H : TreeOf(tree, S) /\ Inserting(tree, S, H, x)
  BY <1>2 DEF IInvOf, InsertingTree
<1>4. Recolored(tree, {p, w}, {g}, tree')
  BY <1>1, <1>2, PaintTwice
<1>5. TreeOf(tree', S) /\ \E H2 : Inserting(tree', S, H2, g)
  BY <1>2, <1>3, <1>4, RecolorKeeps
<1> QED BY <1>2, <1>5 DEF IInvOf, InsertingTree

\* RotateAtInsertion keeps the invariant.
LEMMA RotateAtInsertionKeeps ==
  ASSUME NEW S, IInvOf(S), RotateAtInsertion
  PROVE  IInvOf(S)'
<1> USE SideFacts
<1> DEFINE p == Par(tree, x)
           g == Par(tree, p)
           side == SideOf(tree, p)
           inner == x = Kid(tree, Other(side), p)
           t == IF inner THEN Rotate(tree, p, side) ELSE tree
           top == IF inner THEN x ELSE p
           u == Paint(Paint(t, {top}, FALSE), {g}, TRUE)
<1>1. tree \in Tree
  BY TreeAlways
<1>2. /\ pc = "insertFixup" /\ pc' = pc /\ IsRed(tree, p) /\ ~IsRed(tree, Kid(tree, Other(side), g))
      /\ tree' = Rotate(u, g, Other(side))
      /\ x' = IF inner THEN p ELSE x
  BY DEF RotateAtInsertion, Kid, Par, IsRed
<1>3. PICK H : TreeOf(tree, S) /\ Inserting(tree, S, H, x)
  BY <1>2 DEF IInvOf, InsertingTree
<1>4. CASE inner
  <2>1. t = Rotate(tree, p, side) /\ top = x /\ x' = p
    BY <1>2, <1>4
  <2>2. x = Kid(tree, Other(side), p)
    BY <1>4
  <2> HIDE DEF p, g, side, inner, t, top
  <2>3. /\ TreeOf(t, S) /\ \E H2 : Inserting(t, S, H2, p)
        /\ Par(t, p) = x /\ IsRed(t, x) /\ Par(t, x) = g /\ SideOf(t, x) = side /\ Kid(t, side, x) = p
        /\ Kid(t, Other(side), g) = Kid(tree, Other(side), g)
        /\ \A m \in Cell : IsRed(t, m) = IsRed(tree, m)
    <3>1. p = Par(tree, x) /\ g = Par(tree, p) /\ side = SideOf(tree, p)
      BY DEF p, g, side
    <3> QED BY ONLY <3>1, <2>1, <2>2, <1>2, <1>3, InnerInsertionKeeps
  <2>4. PICK H2 : Inserting(t, S, H2, p)
    BY <2>3
  <2>5. ~IsRed(t, Kid(t, Other(side), g))
    <3>1. g \in S /\ side \in Side
      BY <1>2, <1>3, InsertionPlace DEF p, g, side
    <3>2. Kid(tree, Other(side), g) \in Cell
      BY <3>1, <1>3, TreeOfFacts
    <3> QED BY <3>2, <2>3, <1>2
  <2>6. Recolored(t, {x}, {g}, u)
    <3>1. t \in Tree
      BY <2>3, TreeOfFacts
    <3> QED BY <2>1, <3>1, PaintTwice
  <2> HIDE DEF u
  <2>7. TreeOf(tree', S) /\ \E H3 : Inserting(tree', S, H3, p)
    BY ONLY <2>3, <2>4, <2>5, <2>6, <1>2, OuterInsertionKeeps
  <2> QED BY <1>2, <2>1, <2>7 DEF IInvOf, InsertingTree
<1>5. CASE ~inner
  <2>1. t = tree /\ top = p /\ x' = x
    BY <1>2, <1>5
  <2>2. x = Kid(tree, side, p)
    <3>1. /\ SideOf(tree, x) \in Side /\ Kid(tree, SideOf(tree, x), p) = x /\ side \in Side
      BY <1>2, <1>3, InsertionPlace
    <3> QED BY <3>1, <1>5
  <2>3. Recolored(tree, {p}, {g}, u)
    BY <2>1, <1>1, PaintTwice
  <2>4. p = Par(tree, x) /\ g = Par(tree, p) /\ side = SideOf(tree, p)
    OBVIOUS
  <2> HIDE DEF p, g, side, inner, t, top, u
  <2>5. TreeOf(tree', S) /\ \E H3 : Inserting(tree', S, H3, x)
    BY ONLY <2>2, <2>3, <2>4, <1>2, <1>3, OuterInsertionKeeps
  <2> QED BY <1>2, <2>1, <2>5 DEF IInvOf, InsertingTree
<1> QED BY <1>4, <1>5

\* EndInsertion keeps the invariant.
LEMMA EndInsertionStep ==
  ASSUME NEW S, IInvOf(S), EndInsertion
  PROVE  IInvOf(S)'
<1>1. tree \in Tree /\ tree.left[root] = Top(tree)
  BY TreeAlways
<1>2. /\ pc = "insertFixup" /\ pc' = "ready" /\ ~IsRed(tree, Par(tree, x)) /\ tree' = Paint(tree, {Top(tree)}, FALSE)
  BY <1>1, AccessFacts DEF EndInsertion, Finish
<1>3. PICK H : TreeOf(tree, S) /\ Inserting(tree, S, H, x)
  BY <1>2 DEF IInvOf, InsertingTree
<1>4. Painted(tree, {Top(tree)}, FALSE, tree')
  BY <1>1, <1>2, PaintAt
<1>5. TreeOf(tree', S) /\ \E H2 : Sound(tree', S, H2)
  BY <1>2, <1>3, <1>4, EndInsertionKeeps
<1> QED BY <1>2, <1>5 DEF IInvOf, SoundTree

------------------------------------------------------------------------------
(* The steps of a deletion                                                 *)

\* Splice takes y out; y is z, or can take its place.
LEMMA SpliceStep ==
  ASSUME NEW S, IInvOf(S), Splice, NEW R, R = S \ {y}
  PROVE  IInvOf(R)' /\ y \in S /\ z \in S /\ y' = y /\ z' = z /\ pc = "splice" /\ pc' \in {"relink", "deleteFixup"}
<1> USE SideFacts
<1> DEFINE c == IF Kid(tree, "left", y) = nil THEN Kid(tree, "right", y) ELSE Kid(tree, "left", y)
           side == IF Kid(tree, "left", y) = nil THEN "right" ELSE "left"
           p == Par(tree, y)
           from == SideOf(tree, y)
<1>1. tree \in Tree
  BY TreeAlways
<1>2. /\ pc = "splice" /\ (y = z \/ Kid(tree, "left", y) = nil)
      /\ tree' = Link(tree, p, from, c) /\ x' = c /\ oldRoot' = tree'.left[root]
      /\ pc' = (IF IsRed(tree, y) THEN "relink" ELSE "deleteFixup")
      /\ y' = y /\ z' = z
  BY <1>1, AccessFacts DEF Splice
<1>3. PICK B : SearchTree(tree, B) /\ B[Top(tree)] = S /\ AtSuccessor(tree, B, y, z)
  BY <1>2 DEF IInvOf, Succeeding
<1>4. PICK H : TreeOf(tree, S) /\ Sound(tree, S, H)
  BY <1>2 DEF IInvOf, SoundTree
<1>5. y \in S /\ z \in S /\ Deletion(S \ {y}, y, z)
  BY <1>2, <1>3, SpliceDeletes DEF SearchTree
<1>6. c = Kid(tree, side, y) /\ Kid(tree, Other(side), y) = nil /\ side \in Side
  <2>1. y = z => Kid(tree, "left", y) = nil \/ Kid(tree, "right", y) = nil
    BY <1>3 DEF AtSuccessor
  <2> QED BY <2>1, <1>2
<1>7. y \in Cell /\ p \in Cell /\ from \in Side /\ c \in Cell
  BY <1>4, <1>5, TreeOfFacts, CellFacts
<1> HIDE DEF side, c, p, from
<1>8. LinkSet(tree, p, from, c, tree')
  BY <1>1, <1>2, <1>7, LinkAt
<1>9. TreeOf(tree', S \ {y}) /\ Top(tree') = IF p = root THEN c ELSE Top(tree)
  <2>1. p = Par(tree, y) /\ from = SideOf(tree, y)
    BY DEF p, from
  <2> QED BY ONLY <2>1, <1>3, <1>5, <1>6, <1>8, SpliceTree
<1>10. oldRoot' = Top(tree')
  <2>1. tree' \in Tree
    BY <1>8 DEF LinkSet
  <2> QED BY <2>1, <1>2, AccessFacts DEF Top
<1>11. IF IsRed(tree, y) THEN Sound(tree', S \ {y}, H) ELSE Repairing(tree', S \ {y}, H, c, Top(tree'))
  <2>1. p = Par(tree, y) /\ from = SideOf(tree, y)
    BY DEF p, from
  <2> QED BY ONLY <2>1, <1>4, <1>5, <1>6, <1>8, <1>9, SpliceKeeps
<1>12. CASE IsRed(tree, y)
  BY <1>2, <1>5, <1>9, <1>11, <1>12 DEF IInvOf, SoundTree
<1>13. CASE ~IsRed(tree, y)
  BY <1>2, <1>5, <1>9, <1>10, <1>11, <1>13 DEF IInvOf, RepairingTree
<1> QED BY <1>12, <1>13

\* What the loop of RBDeleteFixUp knows.
LEMMA InLoop ==
  ASSUME NEW S, IInvOf(S), InDeleteFixup
  PROVE  /\ pc = "deleteFixup" /\ ~IsRed(tree, x) /\ x # oldRoot
         /\ TreeOf(tree, S) /\ Deletion(S, y, z) /\ \E H : Repairing(tree, S, H, x, oldRoot)
<1>1. tree \in Tree
  BY TreeAlways
<1> QED BY <1>1, AccessFacts DEF InDeleteFixup, IInvOf, RepairingTree

\* RedSibling keeps the invariant.
LEMMA RedSiblingStep ==
  ASSUME NEW S, IInvOf(S), RedSibling
  PROVE  IInvOf(S)'
<1> DEFINE p == Par(tree, x)
           side == SideOf(tree, x)
           w == Kid(tree, Other(side), p)
           u == Paint(Paint(tree, {w}, FALSE), {p}, TRUE)
<1>1. tree \in Tree
  BY TreeAlways
<1>2. /\ InDeleteFixup /\ IsRed(tree, w) /\ tree' = Rotate(u, p, side)
      /\ pc' = pc /\ x' = x /\ y' = y /\ z' = z /\ oldRoot' = oldRoot
  BY DEF RedSibling, Kid, Par, IsRed
<1>3. /\ pc = "deleteFixup" /\ ~IsRed(tree, x) /\ x # oldRoot
      /\ TreeOf(tree, S) /\ Deletion(S, y, z) /\ \E H : Repairing(tree, S, H, x, oldRoot)
  BY <1>2, InLoop
<1>4. Recolored(tree, {w}, {p}, u)
  BY <1>1, PaintTwice
<1>5. p = Par(tree, x) /\ side = SideOf(tree, x) /\ w = Kid(tree, Other(side), p)
  OBVIOUS
<1> HIDE DEF p, side, w, u
<1>6. TreeOf(tree', S) /\ \E H2 : Repairing(tree', S, H2, x, oldRoot)
  BY ONLY <1>2, <1>3, <1>4, <1>5, RedSiblingKeeps
<1> QED BY <1>2, <1>3, <1>6 DEF IInvOf, RepairingTree

\* BlackNephews keeps the invariant.
LEMMA BlackNephewsStep ==
  ASSUME NEW S, IInvOf(S), BlackNephews
  PROVE  IInvOf(S)'
<1> DEFINE p == Par(tree, x)
           side == SideOf(tree, x)
           w == Kid(tree, Other(side), p)
<1>1. tree \in Tree
  BY TreeAlways
<1>2. /\ InDeleteFixup /\ ~IsRed(tree, w) /\ tree' = Paint(tree, {w}, TRUE) /\ x' = p
      /\ ~IsRed(tree, Kid(tree, "left", w)) /\ ~IsRed(tree, Kid(tree, "right", w))
      /\ pc' = pc /\ y' = y /\ z' = z /\ oldRoot' = oldRoot
  BY DEF BlackNephews, Kid, Par, IsRed
<1>3. /\ pc = "deleteFixup" /\ ~IsRed(tree, x) /\ x # oldRoot
      /\ TreeOf(tree, S) /\ Deletion(S, y, z) /\ \E H : Repairing(tree, S, H, x, oldRoot)
  BY <1>2, InLoop
<1>4. Painted(tree, {w}, TRUE, tree')
  BY <1>1, <1>2, PaintAt
<1>5. /\ p = Par(tree, x) /\ side = SideOf(tree, x) /\ w = Kid(tree, Other(side), p)
      /\ \A s \in Side : ~IsRed(tree, Kid(tree, s, w))
  BY <1>2 DEF Side
<1> HIDE DEF p, side, w
<1>6. TreeOf(tree', S) /\ \E H2 : Repairing(tree', S, H2, p, oldRoot)
  <2>1. PICK H : Repairing(tree, S, H, x, oldRoot)
    BY <1>3
  <2>2. TreeOf(tree, S) /\ ~IsRed(tree, x) /\ x # oldRoot /\ ~IsRed(tree, w)
    BY <1>2, <1>3
  <2> QED BY ONLY <2>1, <2>2, <1>4, <1>5, BlackNephewsKeep
<1> QED BY <1>2, <1>3, <1>6 DEF IInvOf, RepairingTree

Lend(t, p, w) == [t EXCEPT !.red[w] = t.red[p]]

\* The colours before the last rotation of RBDeleteFixUp.
LEMMA PaintNephew ==
  ASSUME NEW t \in Tree, NEW p \in Cell, NEW w \in Cell, NEW outer,
         NEW u, u = Paint(Lend(t, p, w), {p, outer}, FALSE)
  PROVE  NephewPainted(t, p, w, outer, u)
<1> DEFINE c == [t.red EXCEPT ![w] = t.red[p]]
           t1 == [t EXCEPT !.red[w] = t.red[p]]
<1>1. /\ t = [left |-> t.left, right |-> t.right, parent |-> t.parent, red |-> t.red]
      /\ t.left \in [Cell -> Cell] /\ t.right \in [Cell -> Cell] /\ t.parent \in [Cell -> Cell] /\ t.red \in [Cell -> BOOLEAN]
  BY DEF Tree
<1>2. t1 = [left |-> t.left, right |-> t.right, parent |-> t.parent, red |-> c]
  BY <1>1
<1>3. c \in [Cell -> BOOLEAN] /\ \A m \in Cell : c[m] = IF m = w THEN IsRed(t, p) ELSE IsRed(t, m)
  BY <1>1 DEF IsRed
<1> HIDE DEF c, t1
<1>4. t1.left = t.left /\ t1.right = t.right /\ t1.parent = t.parent /\ t1.red = c /\ t1["left"] = t.left /\ t1["right"] = t.right
  BY ONLY <1>2
<1>5. t1 \in Tree
  BY ONLY <1>1, <1>2, <1>3 DEF Tree
<1>6. \A m \in Cell : Kid(t1, "left", m) = Kid(t, "left", m) /\ Kid(t1, "right", m) = Kid(t, "right", m)
  BY <1>4 DEF Kid
<1>7. /\ \A s \in Side, m \in Cell : Kid(t1, s, m) = Kid(t, s, m)
      /\ \A m \in Cell : Par(t1, m) = Par(t, m)
      /\ \A m \in Cell : IsRed(t1, m) = IF m = w THEN IsRed(t, p) ELSE IsRed(t, m)
  BY <1>3, <1>4, <1>6 DEF Side, Par, IsRed
<1>8. Painted(t1, {p, outer}, FALSE, u)
  BY <1>5, PaintAt DEF t1, Lend
<1>9. NephewPainted(t, p, w, outer, u)
  BY <1>7, <1>8 DEF Painted, SameLinks, NephewPainted
<1> QED BY <1>9

\* RedNephew keeps the invariant.
LEMMA RedNephewStep ==
  ASSUME NEW S, IInvOf(S), RedNephew
  PROVE  IInvOf(S)'
<1> USE SideFacts, CellFacts
<1> DEFINE p == Par(tree, x)
           side == SideOf(tree, x)
           far == Other(side)
           w == Kid(tree, far, p)
           inner == Kid(tree, side, w)
           outer == Kid(tree, far, w)
           u0 == Paint(Paint(tree, {inner}, FALSE), {w}, TRUE)
           t == IF IsRed(tree, outer) THEN tree ELSE Rotate(u0, w, far)
           v == t[far][p]
           u == Paint(Lend(t, p, v), {p, t[far][v]}, FALSE)
<1>1. tree \in Tree
  BY TreeAlways
<1>2. /\ InDeleteFixup /\ ~IsRed(tree, w) /\ tree' = Rotate(u, p, side) /\ x' = oldRoot
      /\ IsRed(tree, Kid(tree, "left", w)) \/ IsRed(tree, Kid(tree, "right", w))
      /\ pc' = pc /\ y' = y /\ z' = z /\ oldRoot' = oldRoot
  BY DEF RedNephew, Lend, Kid, Par, IsRed
<1>3. /\ pc = "deleteFixup" /\ ~IsRed(tree, x) /\ x # oldRoot
      /\ TreeOf(tree, S) /\ Deletion(S, y, z) /\ \E H : Repairing(tree, S, H, x, oldRoot)
  BY <1>2, InLoop
<1>4. PICK H : Repairing(tree, S, H, x, oldRoot)
  BY <1>3
<1>5. p \in S /\ w \in S /\ side \in Side
  BY <1>3, <1>4, RepairPlace
<1>6. S \subseteq Cell
  BY <1>3, TreeOfFacts
<1>7. /\ p = Par(tree, x) /\ side = SideOf(tree, x) /\ far = Other(side) /\ w = Kid(tree, far, p)
      /\ inner = Kid(tree, side, w) /\ outer = Kid(tree, far, w) /\ far \in Side
  BY <1>5
<1>8. CASE IsRed(tree, outer)
  <2>1. t = tree
    BY <1>8
  <2>2. v = w /\ t[far][v] = outer
    BY <2>1 DEF Kid
  <2>3. u = Paint(Lend(tree, p, w), {p, outer}, FALSE)
    BY <2>1, <2>2
  <2>4. NephewPainted(tree, p, w, outer, u)
    <3>1. tree \in Tree /\ p \in Cell /\ w \in Cell
      BY <1>1, <1>5, <1>6
    <3> HIDE DEF u, v, t, outer, w, p
    <3> QED BY ONLY <2>3, <3>1, PaintNephew
  <2> HIDE DEF p, side, far, w, inner, outer, u0, t, v, u
  <2>5. TreeOf(tree', S) /\ \E H2 : Repairing(tree', S, H2, oldRoot, oldRoot)
    <3>1. /\ TreeOf(tree, S) /\ Repairing(tree, S, H, x, oldRoot) /\ ~IsRed(tree, x) /\ x # oldRoot
          /\ ~IsRed(tree, w) /\ IsRed(tree, outer) /\ tree' = Rotate(u, p, side)
      BY <1>2, <1>3, <1>4, <1>8
    <3> QED BY ONLY <3>1, <1>7, <2>4, OuterNephewKeeps
  <2> QED BY <1>2, <1>3, <2>5 DEF IInvOf, RepairingTree
<1>9. CASE ~IsRed(tree, outer)
  <2>1. t = Rotate(u0, w, far)
    BY <1>9
  <2>2. IsRed(tree, inner)
    <3>1. \E s \in Side : IsRed(tree, Kid(tree, s, w))
      BY <1>2
    <3>2. PICK s \in Side : IsRed(tree, Kid(tree, s, w))
      BY <3>1
    <3>3. s = far \/ s = side
      BY <1>5
    <3> QED BY <3>2, <3>3, <1>9
  <2>3. Recolored(tree, {inner}, {w}, u0)
    BY <1>1, PaintTwice
  <2>4. v = Kid(t, far, p) /\ t[far][v] = Kid(t, far, v)
    BY DEF Kid
  <2>5. u = Paint(Lend(t, p, v), {p, Kid(t, far, v)}, FALSE)
    BY <2>4
  <2> HIDE DEF p, side, far, w, inner, outer, u0, t, v, u
  <2>6. /\ TreeOf(t, S) /\ \E H2 : Repairing(t, S, H2, x, oldRoot)
        /\ ~IsRed(t, x) /\ Par(t, x) = p /\ SideOf(t, x) = side /\ Kid(t, far, p) = inner
        /\ ~IsRed(t, inner) /\ Kid(t, far, inner) = w /\ IsRed(t, w)
    BY ONLY <1>2, <1>3, <1>4, <1>7, <1>9, <2>1, <2>2, <2>3, InnerNephewKeeps
  <2>7. v = inner /\ Kid(t, far, v) = w
    BY <2>4, <2>6
  <2>8. u = Paint(Lend(t, p, inner), {p, w}, FALSE) /\ t \in Tree /\ inner \in Cell
    BY <2>5, <2>6, <2>7, <1>3, <1>5, <1>7, TreeOfFacts
  <2>9. NephewPainted(t, p, inner, w, u)
    <3>1. p \in Cell
      BY <1>5, <1>6
    <3> QED BY ONLY <2>8, <3>1, PaintNephew
  <2>10. PICK H2 : Repairing(t, S, H2, x, oldRoot)
    BY <2>6
  <2>11. TreeOf(tree', S) /\ \E H3 : Repairing(tree', S, H3, oldRoot, oldRoot)
    <3>1. /\ TreeOf(t, S) /\ Repairing(t, S, H2, x, oldRoot) /\ ~IsRed(t, x) /\ x # oldRoot
          /\ ~IsRed(t, inner) /\ IsRed(t, w) /\ tree' = Rotate(u, p, side)
          /\ p = Par(t, x) /\ side = SideOf(t, x) /\ far = Other(side) /\ inner = Kid(t, far, p) /\ w = Kid(t, far, inner)
      BY <1>2, <1>3, <1>7, <2>6, <2>10
    <3> QED BY ONLY <3>1, <2>9, OuterNephewKeeps
  <2> QED BY <1>2, <1>3, <2>11 DEF IInvOf, RepairingTree
<1> QED BY <1>8, <1>9

\* EndDeleteFixup keeps the invariant.
LEMMA EndDeleteFixupStep ==
  ASSUME NEW S, IInvOf(S), EndDeleteFixup
  PROVE  IInvOf(S)' /\ pc = "deleteFixup" /\ pc' = "relink" /\ y' = y /\ z' = z
<1>1. tree \in Tree
  BY TreeAlways
<1>2. /\ pc = "deleteFixup" /\ (IsRed(tree, x) \/ x = oldRoot)
      /\ tree' = Paint(tree, {x}, FALSE) /\ pc' = "relink" /\ y' = y /\ z' = z
  BY <1>1, AccessFacts DEF EndDeleteFixup
<1>3. PICK H : TreeOf(tree, S) /\ Repairing(tree, S, H, x, oldRoot) /\ Deletion(S, y, z)
  BY <1>2 DEF IInvOf, RepairingTree
<1>4. Painted(tree, {x}, FALSE, tree')
  BY <1>1, <1>2, PaintAt
<1>5. TreeOf(tree', S) /\ \E H2 : Sound(tree', S, H2)
  BY <1>2, <1>3, <1>4, EndRepairKeeps
<1> QED BY <1>2, <1>3, <1>5 DEF IInvOf, SoundTree

\* Relink puts y in the place of z; z is gone.
LEMMA RelinkStep ==
  ASSUME NEW S, IInvOf(S), Relink, NEW R, R = (S \cup {y}) \ {z}
  PROVE  IInvOf(R)' /\ pc = "relink" /\ pc' = "ready"
<1>1. TreeOf(tree, S) /\ tree \in Tree
  BY TreeAlways
<1>2. /\ pc = "relink" /\ pc' = "ready"
      /\ tree' = IF y # z THEN Free(PutInPlace(tree, z, y), z) ELSE Free(tree, z)
  BY DEF Relink, Finish
<1>3. PICK H : Sound(tree, S, H) /\ Deletion(S, y, z)
  BY <1>2 DEF IInvOf, SoundTree
<1>4. Kid(tree, "left", nil) = nil /\ Kid(tree, "right", nil) = nil
  BY <1>1 DEF TreeOf, SearchTree, Links
<1>5. Renamed(tree, S, z, y, tree')
  BY <1>1, <1>2, <1>3, <1>4, RelinkRenames
<1>6. R = {As(z, y, m) : m \in S}
  BY <1>3 DEF Deletion, As
<1>7. TreeOf(tree', R) /\ \E H2 : Sound(tree', R, H2)
  BY <1>1, <1>3, <1>5, <1>6, RenamingKeeps
<1> QED BY <1>2, <1>7 DEF IInvOf, SoundTree

------------------------------------------------------------------------------
(* The nodes that hang in the tree, and the black nodes on the paths       *)

\* Whatever function is applied n times, the results form a function.
LEMMA Iterated ==
  ASSUME NEW X, NEW f0 \in X, NEW F \in [X -> X], NEW n \in Nat
  PROVE  \E g \in [0 .. n -> X] : g[0] = f0 /\ \A i \in 1 .. n : g[i] = F[g[i - 1]]
<1> DEFINE Exists(k) == \E g \in [0 .. k -> X] : g[0] = f0 /\ \A i \in 1 .. k : g[i] = F[g[i - 1]]
           Missing == {k \in Nat : ~Exists(k)}
<1>1. SUFFICES ASSUME Missing # {} PROVE FALSE
  OBVIOUS
<1>2. PICK k \in Missing : \A j \in Missing : ~(j < k)
  <2>1. Missing \in SUBSET Nat
    OBVIOUS
  <2> HIDE DEF Missing
  <2> QED BY <1>1, <2>1, LeastNatural
<1>3. CASE k = 0
  <2> DEFINE g == [i \in 0 .. 0 |-> f0]
  <2>1. g \in [0 .. 0 -> X] /\ g[0] = f0 /\ \A i \in 1 .. 0 : FALSE
    OBVIOUS
  <2> HIDE DEF g
  <2>2. Exists(0)
    BY <2>1
  <2> QED BY <1>2, <1>3, <2>2
<1>4. CASE k # 0
  <2>1. k - 1 \in Nat /\ k - 1 < k /\ k \in Nat /\ k - 1 \in 0 .. k - 1 /\ 0 \in 0 .. k - 1
    BY <1>2, <1>4
  <2>2. Exists(k - 1)
    BY <1>2, <2>1
  <2>3. PICK g \in [0 .. k - 1 -> X] : g[0] = f0 /\ \A i \in 1 .. k - 1 : g[i] = F[g[i - 1]]
    BY <2>2
  <2> DEFINE h == [i \in 0 .. k |-> IF i = k THEN F[g[k - 1]] ELSE g[i]]
  <2>4. (\A i \in 0 .. k - 1 : h[i] = g[i]) /\ h[k] = F[g[k - 1]]
    BY <2>1
  <2>5. h \in [0 .. k -> X]
    <3>1. \A i \in 0 .. k : i # k => i \in 0 .. k - 1
      BY <2>1
    <3> QED BY <2>1, <2>3, <3>1
  <2> HIDE DEF h
  <2>6. ASSUME NEW i \in 1 .. k
        PROVE  h[i] = F[h[i - 1]]
    <3>1. i - 1 \in 0 .. k - 1
      BY <2>1
    <3>2. CASE i = k
      BY <2>4, <3>1, <3>2
    <3>3. CASE i # k
      <4>1. i \in 1 .. k - 1 /\ i \in 0 .. k - 1
        BY <2>1, <3>3
      <4> QED BY <2>3, <2>4, <3>1, <4>1
    <3> QED BY <3>2, <3>3
  <2>7. Exists(k)
    BY <2>1, <2>3, <2>4, <2>5, <2>6
  <2> QED BY <1>2, <2>7
<1> QED BY <1>3, <1>4

\* What the recursive function of Below computes from itself.
NodesOf(t, n, g) ==
    [depth \in 0 .. n |->
        [m \in Cell |-> IF m = nil \/ depth = 0 THEN {}
                        ELSE {m} \cup g[depth - 1][t.left[m]] \cup g[depth - 1][t.right[m]]]]

\* There is such a function.
LEMMA NodesExist ==
  ASSUME NEW t \in Tree, NEW n \in Nat
  PROVE  \E g : g = NodesOf(t, n, g)
<1> DEFINE X == [Cell -> SUBSET Cell]
           f0 == [m \in Cell |-> {}]
           F == [f \in X |-> [m \in Cell |-> IF m = nil THEN {} ELSE {m} \cup f[t.left[m]] \cup f[t.right[m]]]]
<1>1. \A m \in Cell : t.left[m] \in Cell /\ t.right[m] \in Cell
  BY DEF Tree
<1>2. f0 \in X /\ F \in [X -> X]
  BY <1>1
<1>3. PICK g \in [0 .. n -> X] : g[0] = f0 /\ \A i \in 1 .. n : g[i] = F[g[i - 1]]
  <2> HIDE DEF X, f0, F
  <2> QED BY <1>2, Iterated
<1>4. ASSUME NEW i \in 0 .. n
      PROVE  g[i] = [m \in Cell |-> IF m = nil \/ i = 0 THEN {} ELSE {m} \cup g[i - 1][t.left[m]] \cup g[i - 1][t.right[m]]]
  <2>1. CASE i = 0
    BY <1>3, <2>1
  <2>2. CASE i # 0
    <3>1. i \in 1 .. n /\ i - 1 \in 0 .. n
      BY <2>2
    <3>2. g[i] = F[g[i - 1]] /\ g[i - 1] \in X
      BY <1>3, <3>1
    <3> QED BY <3>2, <2>2
  <2> QED BY <2>1, <2>2
<1>5. g = [i \in 0 .. n |-> g[i]]
  BY <1>3
<1>6. g = NodesOf(t, n, g)
  BY <1>4, <1>5 DEF NodesOf
<1> QED BY <1>6

\* Below gives what is below a node.
LEMMA BelowIs ==
  ASSUME NEW t, NEW B, Links(t, B), NEW n \in B[Top(t)] \cup {nil}
  PROVE  Below(t, n) = B[n]
<1> USE SideFacts, CellFacts
<1> DEFINE N == Cardinality(Box)
           S == B[Top(t)]
           nodes == CHOOSE g : g = NodesOf(t, N, g)
<1>1. /\ t \in Tree /\ S \subseteq Box /\ S \subseteq Cell /\ nil \notin S /\ B[nil] = {} /\ N \in Nat
  BY TreeFacts, BoxAssumption, FS_CardinalityType
<1>2. Below(t, n) = nodes[N][n]
  BY DEF Below, NodesOf
<1>3. nodes = NodesOf(t, N, nodes)
  <2>1. \E g : g = NodesOf(t, N, g)
    BY <1>1, NodesExist
  <2> QED BY <2>1
<1> HIDE DEF nodes
<1>4. ASSUME NEW d \in 0 .. N, NEW m \in Cell
      PROVE  nodes[d][m] = IF m = nil \/ d = 0 THEN {}
                           ELSE {m} \cup nodes[d - 1][Kid(t, "left", m)] \cup nodes[d - 1][Kid(t, "right", m)]
  <2>1. nodes[d] = [k \in Cell |-> IF k = nil \/ d = 0 THEN {}
                                   ELSE {k} \cup nodes[d - 1][t.left[k]] \cup nodes[d - 1][t.right[k]]]
    BY <1>3 DEF NodesOf
  <2> QED BY <2>1 DEF Kid
<1> DEFINE P == {m \in S : \A d \in 0 .. N : Cardinality(B[m]) <= d => nodes[d][m] = B[m]}
<1>5. ASSUME NEW k \in S, \A s \in Side : Kid(t, s, k) \in P \cup {nil}
      PROVE  k \in P
  <2> SUFFICES ASSUME NEW d \in 0 .. N, Cardinality(B[k]) <= d PROVE nodes[d][k] = B[k]
    OBVIOUS
  <2>1. k \in Cell /\ k # nil /\ k \in B[k] /\ B[k] \in SUBSET Box
    BY <1>1, NodeFacts DEF Links
  <2>2. Cardinality(B[k]) \in Nat /\ Cardinality(B[k]) # 0
    BY <2>1, BoxSets
  <2>3. d # 0 /\ d - 1 \in 0 .. N /\ d \in Nat
    BY <2>2, <1>1
  <2>4. ASSUME NEW s \in Side PROVE nodes[d - 1][Kid(t, s, k)] = B[Kid(t, s, k)]
    <3> DEFINE c == Kid(t, s, k)
    <3>1. CASE c = nil
      BY <3>1, <2>3, <1>1, <1>4
    <3>2. CASE c # nil
      <4>1. c \in P /\ B[c] \subseteq B[k] /\ k \notin B[c]
        BY <3>2, <1>5, KidFacts
      <4>2. Cardinality(B[c]) \in Nat /\ Cardinality(B[c]) < Cardinality(B[k])
        BY <4>1, <2>1, BoxSets
      <4>3. Cardinality(B[c]) <= d - 1
        BY <4>2, <2>2, <2>3
      <4> QED BY <4>1, <4>3, <2>3
    <3> QED BY <3>1, <3>2
  <2>5. nodes[d][k] = {k} \cup nodes[d - 1][Kid(t, "left", k)] \cup nodes[d - 1][Kid(t, "right", k)]
    BY <2>1, <2>3, <1>4
  <2>6. B[k] = {k} \cup B[Kid(t, "left", k)] \cup B[Kid(t, "right", k)]
    BY NodeFacts
  <2> QED BY <2>4, <2>5, <2>6
<1>6. S \subseteq P
  <2> HIDE DEF P
  <2> QED BY <1>5, TreeInduction
<1>7. N \in 0 .. N
  BY <1>1
<1>8. CASE n = nil
  BY <1>8, <1>1, <1>2, <1>4, <1>7
<1>9. CASE n # nil
  <2>1. n \in P /\ B[n] \in SUBSET Box
    BY <1>1, <1>6, <1>9 DEF Links
  <2>2. Cardinality(B[n]) <= N
    BY <2>1, BoxSets
  <2> QED BY <2>1, <2>2, <1>2, <1>7
<1> QED BY <1>8, <1>9

\* The nodes of a tree are those below its top.
LEMMA LinkedIs ==
  ASSUME NEW t, NEW S, TreeOf(t, S)
  PROVE  Below(t, t.left[root]) = S
<1>1. PICK B : SearchTree(t, B) /\ B[Top(t)] = S
  BY DEF TreeOf
<1>2. Links(t, B) /\ t.left[root] = Top(t) /\ Top(t) \in S \cup {nil}
  BY <1>1, TreeOfFacts, AccessFacts DEF SearchTree, Top
<1> QED BY <1>1, <1>2, BelowIs

\* What the recursive function of BlackNodes computes from itself.
CountsOf(extra, n, g) ==
    [depth \in 0 .. n |->
        [m \in Cell |-> IF m = nil \/ depth = 0 THEN {0}
                        ELSE {c + Blackness(tree.left[m], m, extra) : c \in g[depth - 1][tree.left[m]]}
                        \cup {c + Blackness(tree.right[m], m, extra) : c \in g[depth - 1][tree.right[m]]}]]

\* There is such a function.
LEMMA CountsExist ==
  ASSUME tree \in Tree, NEW extra, NEW n \in Nat
  PROVE  \E g : g = CountsOf(extra, n, g)
<1> DEFINE X == [Cell -> SUBSET Nat]
           f0 == [m \in Cell |-> {0}]
           F == [f \in X |-> [m \in Cell |-> IF m = nil THEN {0}
                                             ELSE {c + Blackness(tree.left[m], m, extra) : c \in f[tree.left[m]]}
                                             \cup {c + Blackness(tree.right[m], m, extra) : c \in f[tree.right[m]]}]]
<1>1. \A m \in Cell : tree.left[m] \in Cell /\ tree.right[m] \in Cell
  BY DEF Tree
<1>2. \A k, m : Blackness(k, m, extra) \in Nat
  BY DEF Blackness
<1>3. f0 \in X /\ F \in [X -> X]
  <2>1. f0 \in X
    OBVIOUS
  <2>2. ASSUME NEW f \in X, NEW k \in Cell, NEW m
        PROVE  {c + Blackness(k, m, extra) : c \in f[k]} \subseteq Nat
    <3>1. \A c \in f[k] : c \in Nat
      OBVIOUS
    <3> QED BY <3>1, <1>2
  <2>3. ASSUME NEW f \in X
        PROVE  [m \in Cell |-> IF m = nil THEN {0}
                               ELSE {c + Blackness(tree.left[m], m, extra) : c \in f[tree.left[m]]}
                               \cup {c + Blackness(tree.right[m], m, extra) : c \in f[tree.right[m]]}] \in X
    <3>1. ASSUME NEW m \in Cell
          PROVE  /\ {c + Blackness(tree.left[m], m, extra) : c \in f[tree.left[m]]} \subseteq Nat
                 /\ {c + Blackness(tree.right[m], m, extra) : c \in f[tree.right[m]]} \subseteq Nat
      BY <2>2, <1>1
    <3> QED BY <3>1
  <2> QED BY <2>1, <2>3
<1>4. PICK g \in [0 .. n -> X] : g[0] = f0 /\ \A i \in 1 .. n : g[i] = F[g[i - 1]]
  <2> HIDE DEF X, f0, F
  <2> QED BY <1>3, Iterated, SMTT(60)
<1>5. ASSUME NEW i \in 0 .. n
      PROVE  g[i] = [m \in Cell |-> IF m = nil \/ i = 0 THEN {0}
                                    ELSE {c + Blackness(tree.left[m], m, extra) : c \in g[i - 1][tree.left[m]]}
                                    \cup {c + Blackness(tree.right[m], m, extra) : c \in g[i - 1][tree.right[m]]}]
  <2>1. CASE i = 0
    BY <1>4, <2>1
  <2>2. CASE i # 0
    <3>1. i \in 1 .. n /\ i - 1 \in 0 .. n
      BY <2>2
    <3>2. g[i] = F[g[i - 1]] /\ g[i - 1] \in X
      BY <1>4, <3>1
    <3> QED BY <3>2, <2>2
  <2> QED BY <2>1, <2>2
<1>6. g = [i \in 0 .. n |-> g[i]]
  BY <1>4
<1>7. g = CountsOf(extra, n, g)
  BY <1>5, <1>6 DEF CountsOf
<1> QED BY <1>7

\* When the heights are balanced but for one link, counted once more, all paths have as
\* many black nodes.
LEMMA OneCount ==
  ASSUME NEW S, TreeOf(tree, S), NEW H, NEW p, NEW s, Balanced(tree, S, H, p, s), NEW extra,
         \A m \in S, side \in Side : Kid(tree, side, m) = extra /\ m = Par(tree, extra) <=> m = p /\ side = s
  PROVE  Cardinality(BlackNodes(extra)) = 1
<1> USE SideFacts, CellFacts
<1> DEFINE N == Cardinality(Box)
           counts == CHOOSE g : g = CountsOf(extra, N, g)
           G == [m \in S \cup {nil} |-> IF m = nil THEN 0 ELSE H[m] - Black(tree, m)]
<1>1. PICK B : SearchTree(tree, B) /\ B[Top(tree)] = S
  BY DEF TreeOf
<1>2. /\ tree \in Tree /\ S \subseteq Box /\ S \subseteq Cell /\ nil \notin S /\ N \in Nat /\ Links(tree, B) /\ B[nil] = {}
      /\ Top(tree) \in S \cup {nil} /\ tree.left[root] = Top(tree)
  BY <1>1, TreeOfFacts, TreeFacts, AccessFacts, BoxAssumption, FS_CardinalityType DEF SearchTree, Top
<1>3. BlackNodes(extra) = counts[N][Top(tree)]
  BY <1>2 DEF BlackNodes, CountsOf
<1>4. counts = CountsOf(extra, N, counts)
  <2>1. \E g : g = CountsOf(extra, N, g)
    BY <1>2, CountsExist
  <2> QED BY <2>1
<1> HIDE DEF counts
<1>5. ASSUME NEW d \in 0 .. N, NEW m \in Cell
      PROVE  counts[d][m] = IF m = nil \/ d = 0 THEN {0}
                            ELSE {c + Blackness(Kid(tree, "left", m), m, extra) : c \in counts[d - 1][Kid(tree, "left", m)]}
                            \cup {c + Blackness(Kid(tree, "right", m), m, extra) : c \in counts[d - 1][Kid(tree, "right", m)]}
  <2>1. counts[d] = [k \in Cell |-> IF k = nil \/ d = 0 THEN {0}
                                   ELSE {c + Blackness(tree.left[k], k, extra) : c \in counts[d - 1][tree.left[k]]}
                                   \cup {c + Blackness(tree.right[k], k, extra) : c \in counts[d - 1][tree.right[k]]}]
    BY <1>4 DEF CountsOf
  <2> QED BY <2>1 DEF Kid
<1>6. ASSUME NEW m \in S, NEW side \in Side
      PROVE  /\ Kid(tree, side, m) \in S \cup {nil}
             /\ G[m] = G[Kid(tree, side, m)] + Blackness(Kid(tree, side, m), m, extra)
  <2> DEFINE k == Kid(tree, side, m)
             one == IF m = p /\ side = s THEN 1 ELSE 0
  <2>1. k \in S \cup {nil} /\ k \in Cell /\ m \in Cell /\ m # nil
    BY <1>2, TreeOfFacts
  <2>2. H[m] = Black(tree, m) + H[k] + one /\ H[k] \in Nat /\ H[m] \in Nat /\ H[nil] = 0
    BY <2>1, <1>2 DEF Balanced
  <2>3. Blackness(k, m, extra) = (IF k # nil THEN Black(tree, k) ELSE 0) + one
    <3>1. (IF k # nil /\ ~tree.red[k] THEN 1 ELSE 0) = IF k # nil THEN Black(tree, k) ELSE 0
      BY DEF Black, IsRed
    <3>2. (k = extra /\ m = tree.parent[k]) <=> (m = p /\ side = s)
      BY DEF Par
    <3> HIDE DEF k
    <3> QED BY <3>1, <3>2 DEF Blackness
  <2>4. Black(tree, m) \in Nat /\ Black(tree, k) \in Nat /\ one \in Nat
    BY DEF Black
  <2>5. G[m] = H[m] - Black(tree, m) /\ G[k] = IF k = nil THEN 0 ELSE H[k] - Black(tree, k)
    BY <2>1
  <2> HIDE DEF k, one, G
  <2>6. G[m] = G[k] + Blackness(k, m, extra)
    <3>1. CASE k = nil
      <4>1. G[k] = 0 /\ H[k] = 0 /\ Blackness(k, m, extra) = 0 + one
        BY <3>1, <2>2, <2>3, <2>5
      <4> QED BY <4>1, <2>2, <2>4, <2>5
    <3>2. CASE k # nil
      <4>1. G[k] = H[k] - Black(tree, k) /\ Blackness(k, m, extra) = Black(tree, k) + one
        BY <3>2, <2>3, <2>5
      <4> QED BY <4>1, <2>2, <2>4, <2>5
    <3> QED BY <3>1, <3>2
  <2> QED BY <2>1, <2>6 DEF k
<1>7. G[nil] = 0
  OBVIOUS
<1> HIDE DEF G
<1> DEFINE P == {m \in S : \A d \in 0 .. N : Cardinality(B[m]) <= d => counts[d][m] = {G[m]}}
<1>8. ASSUME NEW k \in S, \A side \in Side : Kid(tree, side, k) \in P \cup {nil}
      PROVE  k \in P
  <2> SUFFICES ASSUME NEW d \in 0 .. N, Cardinality(B[k]) <= d PROVE counts[d][k] = {G[k]}
    OBVIOUS
  <2>1. k \in Cell /\ k # nil /\ k \in B[k] /\ B[k] \in SUBSET Box
    BY <1>1, <1>2, NodeFacts DEF Links
  <2>2. Cardinality(B[k]) \in Nat /\ Cardinality(B[k]) # 0
    BY <2>1, BoxSets
  <2>3. d # 0 /\ d - 1 \in 0 .. N /\ d \in Nat
    BY <2>2, <1>2
  <2>4. ASSUME NEW side \in Side PROVE counts[d - 1][Kid(tree, side, k)] = {G[Kid(tree, side, k)]}
    <3> DEFINE c == Kid(tree, side, k)
    <3>1. CASE c = nil
      BY <3>1, <2>3, <1>5, <1>7
    <3>2. CASE c # nil
      <4>1. c \in P /\ B[c] \subseteq B[k] /\ k \notin B[c]
        BY <3>2, <1>1, <1>2, <1>8, KidFacts
      <4>2. Cardinality(B[c]) \in Nat /\ Cardinality(B[c]) < Cardinality(B[k])
        BY <4>1, <2>1, BoxSets
      <4>3. Cardinality(B[c]) <= d - 1
        BY <4>2, <2>2, <2>3
      <4> QED BY <4>1, <4>3, <2>3
    <3> QED BY <3>1, <3>2
  <2> DEFINE l == Kid(tree, "left", k)
             r == Kid(tree, "right", k)
  <2>5. counts[d][k] = {c + Blackness(l, k, extra) : c \in counts[d - 1][l]}
                       \cup {c + Blackness(r, k, extra) : c \in counts[d - 1][r]}
    <3>1. counts[d][k] = IF k = nil \/ d = 0 THEN {0}
                         ELSE {c + Blackness(Kid(tree, "left", k), k, extra) : c \in counts[d - 1][Kid(tree, "left", k)]}
                         \cup {c + Blackness(Kid(tree, "right", k), k, extra) : c \in counts[d - 1][Kid(tree, "right", k)]}
      BY ONLY <1>5, <2>1, d \in 0 .. N
    <3> QED BY ONLY <3>1, <2>1, <2>3
  <2>6. counts[d - 1][l] = {G[l]} /\ counts[d - 1][r] = {G[r]}
    BY <2>4
  <2>7. G[k] = G[l] + Blackness(l, k, extra) /\ G[k] = G[r] + Blackness(r, k, extra)
    BY <1>6
  <2> HIDE DEF l, r
  <2>8. /\ {c + Blackness(l, k, extra) : c \in counts[d - 1][l]} = {G[l] + Blackness(l, k, extra)}
        /\ {c + Blackness(r, k, extra) : c \in counts[d - 1][r]} = {G[r] + Blackness(r, k, extra)}
    BY ONLY <2>6
  <2>9. counts[d][k] = {G[l] + Blackness(l, k, extra)} \cup {G[r] + Blackness(r, k, extra)}
    BY ONLY <2>5, <2>8
  <2>10. counts[d][k] = {G[k]} \cup {G[k]}
    BY ONLY <2>7, <2>9
  <2> QED BY ONLY <2>10
<1>9. S \subseteq P
  <2> HIDE DEF P
  <2> QED BY <1>1, <1>2, <1>8, TreeInduction
<1>10. N \in 0 .. N
  BY <1>2
<1>11. BlackNodes(extra) = {G[Top(tree)]}
  <2>1. CASE Top(tree) = nil
    BY <2>1, <1>3, <1>5, <1>7, <1>10
  <2>2. CASE Top(tree) # nil
    <3>1. Top(tree) \in P /\ B[Top(tree)] \in SUBSET Box
      BY <1>1, <1>2, <1>9, <2>2
    <3>2. Cardinality(B[Top(tree)]) <= N
      BY <3>1, BoxSets
    <3> QED BY <3>1, <3>2, <1>3, <1>10
  <2> QED BY <2>1, <2>2
<1> QED BY <1>11, FS_Singleton

------------------------------------------------------------------------------
(* The theorems                                                            *)

\* Whatever the step, the nodes that hang in the tree afterwards form a tree too.
LEMMA StepKeeps ==
  ASSUME NEW S, IInvOf(S), [Next]_vars
  PROVE  \E R : IInvOf(R)'
<1>1. CASE UNCHANGED vars
  <2>1. IInvOf(S)'
    BY <1>1 DEF IInvOf, vars
  <2> QED BY <2>1
<1>2. CASE \E b \in Box : Begin("canInsert", b) \/ Begin("delete", b)
  BY <1>2, BeginKeeps
<1>3. CASE \E q \in Point : Begin("find", <<q, q>>)
  BY <1>3, BeginKeeps DEF IsQuery
<1>4. CASE Step
  <2>1. CASE Descend \/ EndCanInsert \/ EndFind \/ CollectReply \/ ProceedToInsert \/ InsertFoundIdentical
    BY <2>1, DescendKeeps, AnswersKeep, FinishKeeps, ProceedKeeps
  <2>2. CASE Attach
    BY <2>2, AttachStep
  <2>3. CASE RecolorUncle \/ RotateAtInsertion \/ EndInsertion
    BY <2>3, RecolorUncleKeeps, RotateAtInsertionKeeps, EndInsertionStep
  <2>4. CASE FindNode \/ TreeSuccessor
    BY <2>4, FindNodeKeeps, TreeSuccessorKeeps
  <2>5. CASE Splice
    BY <2>5, SpliceStep
  <2>6. CASE RedSibling \/ BlackNephews \/ RedNephew
    BY <2>6, RedSiblingStep, BlackNephewsStep, RedNephewStep
  <2>7. CASE EndDeleteFixup
    BY <2>7, EndDeleteFixupStep
  <2>8. CASE Relink
    BY <2>8, RelinkStep
  <2> QED BY <1>4, <2>1, <2>2, <2>3, <2>4, <2>5, <2>6, <2>7, <2>8 DEF Step
<1> QED BY <1>1, <1>2, <1>3, <1>4 DEF Next

\* The inductive invariant.
IInv == \E S : IInvOf(S)

\* In every reachable state the cells form a search tree that is sound, or wanting in
\* one way, at one place, known to the repair under way.
THEOREM RedBlackInvariance == Spec => []IInv
<1>1. Init => IInv
  BY InitHolds DEF IInv
<1>2. IInv /\ [Next]_vars => IInv'
  BY StepKeeps DEF IInv
<1> QED BY <1>1, <1>2, PTL DEF Spec

\* The nodes that hang in the tree.
LEMMA LinkedInInv ==
  ASSUME NEW S, IInvOf(S)
  PROVE  Linked = S
BY TreeAlways, LinkedIs DEF Linked

\* In every reachable state, the repair loops included, the parent pointers are those
\* of the children, and everything below a node lies on its side of it.
THEOREM SearchTreeAlways == Spec => []IsSearchTree
<1>1. IInv => IsSearchTree
  <2> SUFFICES ASSUME NEW S, IInvOf(S) PROVE IsSearchTree
    BY DEF IInv
  <2>1. Linked = S /\ TreeOf(tree, S) /\ tree \in Tree /\ tree.left[root] = Top(tree)
    BY LinkedInInv, TreeAlways
  <2>2. PICK B : SearchTree(tree, B) /\ B[Top(tree)] = S
    BY <2>1 DEF TreeOf
  <2>3. Links(tree, B)
    BY <2>2 DEF SearchTree
  <2>4. ASSUME NEW n \in S
        PROVE  /\ tree.left[n] # nil => tree.parent[tree.left[n]] = n
               /\ tree.right[n] # nil => tree.parent[tree.right[n]] = n
               /\ tree.left[root] = n <=> tree.parent[n] = root
               /\ \A m \in Below(tree, tree.left[n]) : m[2] < n[1]
               /\ \A m \in Below(tree, tree.right[n]) : n[2] < m[1]
    <3> DEFINE l == Kid(tree, "left", n)
               r == Kid(tree, "right", n)
    <3>1. tree.left[n] = l /\ tree.right[n] = r /\ \A m : tree.parent[m] = Par(tree, m)
      BY <2>1, AccessFacts
    <3>2. l \in S \cup {nil} /\ r \in S \cup {nil} /\ (l # nil => Par(tree, l) = n) /\ (r # nil => Par(tree, r) = n)
      BY <2>1, TreeOfFacts, SideFacts
    <3>3. n = Top(tree) <=> Par(tree, n) = root
      BY <2>1, TreeOfFacts
    <3>4. Below(tree, l) = B[l] /\ Below(tree, r) = B[r]
      BY <3>2, <2>2, <2>3, BelowIs
    <3>5. (\A m \in B[l] : Beside("left", m, n)) /\ (\A m \in B[r] : Beside("right", m, n))
      BY <2>2, <2>3, KidFacts, SideFacts
    <3>6. (\A m \in B[l] : m[2] < n[1]) /\ (\A m \in B[r] : n[2] < m[1])
      BY <3>5 DEF Beside
    <3> HIDE DEF l, r
    <3> QED BY <3>1, <3>2, <3>3, <3>4, <3>6, <2>1
  <2> QED BY <2>1, <2>4 DEF IsSearchTree
<1> QED BY <1>1, RedBlackInvariance, PTL

\* In every iteration of RBDeleteFixUp's loop x hangs where its parent pointer says,
\* nil's own pointer when x is nil, and has a sibling.
THEOREM RepairAlwaysKnowsItsPlace == Spec => []RepairKnowsItsPlace
<1>1. IInv => RepairKnowsItsPlace
  <2> SUFFICES ASSUME NEW S, IInvOf(S), pc = "deleteFixup", ~tree.red[x], x # oldRoot
               PROVE  LET p == tree.parent[x]
                      IN  /\ p \in Linked
                          /\ tree[SideOf(tree, x)][p] = x
                          /\ tree[Other(SideOf(tree, x))][p] # nil
    BY DEF IInv, RepairKnowsItsPlace
  <2>1. Linked = S /\ tree \in Tree /\ ~IsRed(tree, x)
    BY LinkedInInv, TreeAlways DEF IsRed
  <2>2. PICK H : TreeOf(tree, S) /\ Repairing(tree, S, H, x, oldRoot)
    BY DEF IInvOf, RepairingTree
  <2> DEFINE p == Par(tree, x)
             side == SideOf(tree, x)
             w == Kid(tree, Other(side), p)
  <2>3. p \in S /\ Kid(tree, side, p) = x /\ w \in S
    BY <2>1, <2>2, RepairPlace
  <2>4. w # nil
    BY <2>2, <2>3, TreeOfFacts
  <2> QED BY <2>1, <2>3, <2>4 DEF Kid, Par
<1> QED BY <1>1, RedBlackInvariance, PTL

\* Between calls the tree is a red-black tree; during a repair it is one but for the
\* fault under repair.
THEOREM RedBlackAlways == Spec => []IsRedBlackTree
<1>1. IInv => IsRedBlackTree
  <2> SUFFICES ASSUME NEW S, IInvOf(S) PROVE IsRedBlackTree
    BY DEF IInv
  <2> DEFINE top == tree.left[root]
             extra == IF pc = "deleteFixup" /\ (tree.red[x] \/ x # oldRoot) THEN x ELSE root
             faulty == CASE pc = "insertFixup" -> {x}
                         [] pc = "deleteFixup" -> {x} \cup {n \in Linked : tree.parent[n] = x}
                         [] OTHER              -> {}
  <2>1. Linked = S /\ TreeOf(tree, S) /\ tree \in Tree /\ top = Top(tree)
    BY LinkedInInv, TreeAlways
  <2>2. /\ ~IsRed(tree, nil) /\ ~IsRed(tree, root) /\ nil \notin S /\ root \notin S
        /\ \A m \in S, side \in Side : Kid(tree, side, m) \in S \cup {nil}
    BY <2>1, TreeOfFacts
  <2>3. \A n : tree.parent[n] = Par(tree, n) /\ tree.red[n] = IsRed(tree, n)
    BY DEF Par, IsRed
  <2>4. \A n : n \in RedAboveRed <=> n \in S /\ RedBelowRed(tree, n)
    BY <2>1, <2>3 DEF RedAboveRed, RedBelowRed
  <2>5. ASSUME NEW H, Balanced(tree, S, H, nil, "left"), extra = root
        PROVE  Cardinality(BlackNodes(extra)) = 1
    <3>1. root # nil
      BY CellFacts
    <3>2. \A m \in S, side \in Side : Kid(tree, side, m) = extra /\ m = Par(tree, extra) <=> m = nil /\ side = "left"
      BY <3>1, <2>2, <2>5
    <3> HIDE DEF extra
    <3> QED BY <3>2, <2>1, <2>5, OneCount
  <2>6. CASE pc \notin {"insertFixup", "deleteFixup"}
    <3>1. PICK H : Sound(tree, S, H)
      BY <2>6 DEF IInvOf, SoundTree
    <3>2. Balanced(tree, S, H, nil, "left") /\ (\A n \in S : ~RedBelowRed(tree, n)) /\ ~IsRed(tree, Top(tree))
      BY <3>1 DEF Sound
    <3>3. extra = root
      BY <2>6
    <3>4. Cardinality(BlackNodes(extra)) = 1
      BY <3>2, <3>3, <2>5
    <3>5. RedAboveRed = {}
      BY <3>2, <2>4
    <3>6. ~tree.red[nil] /\ ~tree.red[root] /\ ~tree.red[top]
      BY <3>2, <2>1, <2>2, <2>3
    <3> HIDE DEF extra, faulty, top
    <3> QED BY <3>4, <3>5, <3>6 DEF IsRedBlackTree, extra, faulty, top
  <2>7. CASE pc = "insertFixup"
    <3>1. PICK H : Inserting(tree, S, H, x)
      BY <2>7 DEF IInvOf, InsertingTree
    <3>2. /\ Balanced(tree, S, H, nil, "left") /\ \A n \in S \ {x} : ~RedBelowRed(tree, n)
          /\ IsRed(tree, Top(tree)) => Top(tree) = x
      BY <3>1 DEF Inserting
    <3>3. extra = root
      BY <2>7
    <3>4. Cardinality(BlackNodes(extra)) = 1
      BY <3>2, <3>3, <2>5
    <3>5. faulty = {x}
      BY <2>7
    <3>6. RedAboveRed \subseteq {x}
      BY <3>2, <2>4
    <3>7. ~tree.red[nil] /\ ~tree.red[root] /\ (tree.red[top] => top = x)
      BY <3>2, <2>1, <2>2, <2>3
    <3>8. /\ ~tree.red[nil] /\ ~tree.red[root]
          /\ Cardinality(BlackNodes(extra)) = 1
          /\ RedAboveRed \subseteq faulty
          /\ tree.red[top] => top = x /\ top \in faulty
      BY <3>4, <3>5, <3>6, <3>7
    <3> QED BY ONLY <3>8 DEF IsRedBlackTree
  <2>8. CASE pc = "deleteFixup"
    <3>1. PICK H : Repairing(tree, S, H, x, oldRoot)
      BY <2>8 DEF IInvOf, RepairingTree
    <3>2. /\ \A n \in S : RedBelowRed(tree, n) => n = x \/ Par(tree, n) = x
          /\ IsRed(tree, Top(tree)) => Top(tree) = x
      BY <3>1 DEF Repairing
    <3>3. faulty = {x} \cup {n \in S : Par(tree, n) = x}
      BY <2>1, <2>3, <2>8
    <3>4. RedAboveRed \subseteq faulty
      BY <3>2, <3>3, <2>4
    <3>5. Cardinality(BlackNodes(extra)) = 1
      <4>1. CASE ~IsMissing(tree, x, oldRoot)
        <5>1. Balanced(tree, S, H, nil, "left")
          BY <3>1, <4>1 DEF Repairing
        <5>2. extra = root
          BY <4>1, <2>3 DEF IsMissing
        <5> QED BY <5>1, <5>2, <2>5
      <4>2. CASE IsMissing(tree, x, oldRoot)
        <5> DEFINE p == Par(tree, x)
                   s == SideOf(tree, x)
        <5>1. Balanced(tree, S, H, p, s)
          BY <3>1, <4>2 DEF Repairing
        <5>2. extra = x
          BY <4>2, <2>3, <2>8 DEF IsMissing
        <5>3. x \in S \/ (x = nil /\ p \in S /\ Kid(tree, s, p) = nil)
          BY <3>1, <4>2 DEF Repairing
        <5>4. \A m \in S, side \in Side : Kid(tree, side, m) = x /\ m = p <=> m = p /\ side = s
          <6>1. CASE x \in S
            <7>1. Kid(tree, s, p) = x /\ x # nil
              BY <6>1, <2>1, TreeOfFacts
            <7>2. \A m \in S, side \in Side : Kid(tree, side, m) = x => side = s
              BY <7>1, <2>1, TreeOfFacts
            <7> QED BY <7>1, <7>2
          <6>2. CASE x \notin S
            <7>1. ~IsRed(tree, x) /\ x # oldRoot /\ x = nil
              BY <6>2, <5>3, <4>2, <2>2 DEF IsMissing
            <7>2. p \in S /\ Kid(tree, s, p) = x /\ Kid(tree, Other(s), p) \in S /\ s \in Side
              BY <7>1, <3>1, <2>1, RepairPlace
            <7>3. \A side \in Side : side = s \/ side = Other(s)
              BY <7>2, SideFacts
            <7> QED BY <7>1, <7>2, <7>3, <2>2
          <6> QED BY <6>1, <6>2
        <5> HIDE DEF extra, p, s
        <5>5. \A m \in S, side \in Side : Kid(tree, side, m) = extra /\ m = Par(tree, extra) <=> m = p /\ side = s
          BY <5>2, <5>4 DEF p
        <5> QED BY ONLY <5>1, <5>5, <2>1, OneCount
      <4> QED BY <4>1, <4>2
    <3>6. ~tree.red[nil] /\ ~tree.red[root] /\ (tree.red[top] => top = x /\ top \in faulty)
      BY <3>2, <3>3, <2>1, <2>2, <2>3
    <3>7. /\ ~tree.red[nil] /\ ~tree.red[root]
          /\ Cardinality(BlackNodes(extra)) = 1
          /\ RedAboveRed \subseteq faulty
          /\ tree.red[top] => top = x /\ top \in faulty
      BY <3>4, <3>5, <3>6
    <3> QED BY ONLY <3>7 DEF IsRedBlackTree
  <2> QED BY <2>6, <2>7, <2>8
<1> QED BY <1>1, RedBlackInvariance, PTL

------------------------------------------------------------------------------
(* The refinement                                                          *)

\* The refinement mapping of the module.
Held == IF Deleting THEN (Linked \cup {y}) \ {z} ELSE Linked
Replied == IF pc = "answer" THEN [asked |-> arg, answer |-> answer] ELSE None

\* The set that is stored, before and after a step.
LEMMA HeldIs ==
  ASSUME NEW S, IInvOf(S), NEW R, IInvOf(R)'
  PROVE  /\ Held = IF pc \in {"deleteFixup", "relink"} THEN (S \cup {y}) \ {z} ELSE S
         /\ Held' = IF pc' \in {"deleteFixup", "relink"} THEN (R \cup {y'}) \ {z'} ELSE R
<1>1. Linked = S
  BY LinkedInInv
<1>2. TreeOf(tree', R)
  BY DEF IInvOf, SoundTree, InsertingTree, RepairingTree
<1>3. Linked' = R
  BY <1>2, LinkedIs DEF Linked
<1> QED BY <1>1, <1>3 DEF Held, Deleting

\* Most steps change neither the set nor the reply.
LEMMA Stutters ==
  ASSUME NEW S, IInvOf(S), IInvOf(S)', pc' # "answer", pc # "answer",
         \/ pc \notin {"deleteFixup", "relink"} /\ pc' \notin {"deleteFixup", "relink"}
         \/ pc \in {"deleteFixup", "relink"} /\ pc' \in {"deleteFixup", "relink"} /\ y' = y /\ z' = z
  PROVE  Held' = Held /\ Replied' = Replied
BY HeldIs DEF Replied

\* To lie on one side of each other is to be apart.
LEMMA ApartIsBeside ==
  ASSUME NEW a, NEW b
  PROVE  /\ Intervals!Apart(a, b) <=> \E s \in Side : Beside(s, a, b)
         /\ Intervals!Apart(a, b) <=> \E s \in Side : Beside(s, b, a)
BY DEF Intervals!Apart, Side, Beside

\* Attach inserts an interval that fits.
LEMMA AttachRefines ==
  ASSUME NEW S, IInvOf(S), Attach
  PROVE  \E b \in Box : Intervals!Insert(b)
<1> DEFINE R == S \cup {arg}
<1>1. /\ IInvOf(R)' /\ arg \in Box /\ pc = "descend" /\ pc' = "insertFixup"
      /\ \A m \in S : \E s \in Side : Beside(s, arg, m)
  <2> HIDE DEF R
  <2>1. arg' = arg
    BY DEF Attach
  <2>2. \A Q : Q = S \cup {arg} => /\ IInvOf(Q)' /\ arg \in Box /\ pc = "descend" /\ pc' = "insertFixup"
                                   /\ \A m \in S : \E s \in Side : Beside(s, arg, m)
    BY AttachStep
  <2> QED BY <2>1, <2>2 DEF R
<1>2. Held = S /\ Held' = S \cup {arg} /\ Replied = None /\ Replied' = None
  <2>1. arg' = arg
    BY DEF Attach
  <2>2. \A Q : IInvOf(Q)' => Held = S /\ Held' = Q
    BY <1>1, HeldIs
  <2>3. PICK Q : Q = S \cup {arg} /\ IInvOf(Q)'
    BY AttachStep
  <2> QED BY <1>1, <2>2, <2>3 DEF Replied
<1>3. Intervals!Fits(arg, Held)
  BY <1>1, <1>2, ApartIsBeside DEF Intervals!Fits
<1>4. Intervals!Insert(arg)
  BY <1>2, <1>3 DEF Intervals!Insert, Held, Replied
<1> QED BY <1>1, <1>4

\* Splice deletes z, whichever node it takes out.
LEMMA SpliceRefines ==
  ASSUME NEW S, IInvOf(S), Splice
  PROVE  \E b \in Box : Intervals!Delete(b)
<1>1. PICK R : R = S \ {y}
  OBVIOUS
<1>2. IInvOf(R)' /\ y \in S /\ z \in S /\ y' = y /\ z' = z /\ pc = "splice" /\ pc' \in {"relink", "deleteFixup"}
  BY <1>1, SpliceStep
<1>3. Held = S /\ Held' = (R \cup {y}) \ {z} /\ Replied = None /\ Replied' = None
  BY <1>2, HeldIs DEF Replied
<1>4. Held' = Held \ {z}
  BY <1>1, <1>2, <1>3
<1>5. z \in Box
  BY <1>2, TreeAlways, TreeOfFacts
<1>6. Intervals!Delete(z)
  BY <1>2, <1>3, <1>4 DEF Intervals!Delete, Held, Replied
<1> QED BY <1>5, <1>6

\* Relink changes links, not the set.
LEMMA RelinkRefines ==
  ASSUME NEW S, IInvOf(S), Relink
  PROVE  Held' = Held /\ Replied' = Replied
<1>1. PICK R : R = (S \cup {y}) \ {z}
  OBVIOUS
<1>2. IInvOf(R)' /\ pc = "relink" /\ pc' = "ready"
  BY <1>1, RelinkStep
<1> QED BY <1>1, <1>2, HeldIs DEF Replied

\* What a descent for an interval has come to tells whether the interval fits.
LEMMA CanInsertIsExactHere ==
  ASSUME NEW S, IInvOf(S), EndCanInsert
  PROVE  arg \in Box /\ answer' = IF Intervals!Fits(arg, S) THEN {arg} ELSE {}
<1> USE SideFacts
<1>1. /\ pc = "descend" /\ op = "canInsert"
      /\ \/ x = nil /\ answer' = {arg}
         \/ x # nil /\ CompareBox(x, arg) = 0 /\ answer' = {arg}
         \/ x # nil /\ CompareBox(x, arg) = 2 /\ answer' = {}
  BY DEF EndCanInsert, Answer, Compare
<1>2. PICK B : SearchTree(tree, B) /\ B[Top(tree)] = S /\ OnTheWay(tree, B, x, y, arg)
  BY <1>1 DEF IInvOf, Finding
<1>3. arg \in Box /\ arg \in Span /\ S \subseteq Box /\ S \subseteq Span /\ nil \notin S /\ Links(tree, B)
  BY <1>1, <1>2, TreeFacts, BesideFacts DEF IInvOf, SearchTree
<1>4. \A m \in S : m # x => \/ Intervals!Apart(m, arg)
                            \/ x \in S /\ Intervals!Apart(m, x)
  <2> SUFFICES ASSUME NEW m \in S, m # x PROVE Intervals!Apart(m, arg) \/ (x \in S /\ Intervals!Apart(m, x))
    OBVIOUS
  <2>1. (\E s \in Side : Beside(s, arg, m)) \/ (x \in S /\ \E s \in Side : Beside(s, m, x))
    BY <1>2, <1>3, DescentIsExact
  <2> QED BY <2>1, ApartIsBeside
<1>5. CASE x = nil
  BY <1>1, <1>3, <1>4, <1>5 DEF Intervals!Fits
<1>6. CASE x # nil
  <2>1. x \in S
    BY <1>2, <1>6 DEF OnTheWay
  <2>2. CASE CompareBox(x, arg) = 0
    <3>1. x = arg
      BY <2>1, <2>2, <1>3, CompareFacts
    <3>2. Intervals!Fits(arg, S)
      BY <3>1, <1>4 DEF Intervals!Fits
    <3> QED BY <3>2, <2>2, <1>1, <1>3, <1>6
  <2>3. CASE CompareBox(x, arg) = 2
    <3>1. x # arg /\ ~Beside("left", arg, x) /\ ~Beside("right", arg, x)
      BY <2>1, <2>3, <1>3, CompareFacts
    <3>2. ~Intervals!Apart(x, arg)
      BY <3>1, ApartIsBeside DEF Side
    <3>3. ~Intervals!Fits(arg, S)
      BY <3>1, <3>2, <2>1 DEF Intervals!Fits
    <3> QED BY <3>3, <2>3, <1>1, <1>3, <1>6
  <2> QED BY <2>2, <2>3, <1>1, <1>6
<1> QED BY <1>5, <1>6

\* What a descent for a point has come to is the interval that holds it.
LEMMA FindIsExact ==
  ASSUME NEW S, IInvOf(S), EndFind
  PROVE  \E q \in Point : arg = <<q, q>> /\ answer' = {b \in S : Intervals!Holds(b, q)}
<1> USE SideFacts
<1>1. /\ pc = "descend" /\ op = "find"
      /\ \/ x = nil /\ answer' = {}
         \/ x # nil /\ CompareQuery(x, arg) = 0 /\ answer' = {x}
  BY DEF EndFind, Answer, Compare
<1>2. PICK B : SearchTree(tree, B) /\ B[Top(tree)] = S /\ OnTheWay(tree, B, x, y, arg)
  BY <1>1 DEF IInvOf, Finding
<1>3. PICK q \in Point : arg = <<q, q>>
  BY <1>1 DEF IInvOf, IsQuery
<1>4. q \in Nat /\ arg \in Span /\ S \subseteq Span /\ nil \notin S /\ Links(tree, B)
  BY <1>2, <1>3, TreeFacts, BesideFacts, BoxAssumption, ArgIsSpan, <1>1 DEF SearchTree
<1>5. \A m \in S : Intervals!Holds(m, q) <=> CompareQuery(m, arg) = 0
  BY <1>3, <1>4, QueryFacts DEF Intervals!Holds
<1>6. \A m \in S, s \in Side : Beside(s, arg, m) => ~Intervals!Holds(m, q)
  <2> SUFFICES ASSUME NEW m \in S PROVE (Beside("left", arg, m) \/ Beside("right", arg, m)) => CompareQuery(m, arg) # 0
    BY <1>5 DEF Side
  <2> QED BY <1>3, <1>4, QueryFacts
<1>7. CASE x = nil
  <2>1. \A m \in S : \E s \in Side : Beside(s, arg, m)
    BY <1>2, <1>4, <1>7, DescentIsExact
  <2> QED BY <2>1, <1>1, <1>3, <1>6, <1>7
<1>8. CASE x # nil
  <2>1. x \in S /\ Intervals!Holds(x, q)
    BY <1>1, <1>2, <1>5, <1>8 DEF OnTheWay
  <2>2. ASSUME NEW m \in S, m # x PROVE ~Intervals!Holds(m, q)
    <3>1. (\E s \in Side : Beside(s, arg, m)) \/ (\E s \in Side : Beside(s, m, x))
      BY <2>2, <1>2, <1>4, DescentIsExact
    <3>2. CASE \E s \in Side : Beside(s, m, x)
      <4>1. m[2] < x[1] \/ x[2] < m[1]
        BY <3>2 DEF Side, Beside
      <4>2. m[1] \in Nat /\ m[2] \in Nat /\ x[1] \in Nat /\ x[2] \in Nat
        BY <2>1, <1>4 DEF Span
      <4> QED BY <4>1, <4>2, <2>1, <1>4 DEF Intervals!Holds
    <3> QED BY <3>1, <3>2, <1>6
  <2> QED BY <2>1, <2>2, <1>1, <1>3, <1>8
<1> QED BY <1>7, <1>8

\* The replies of the descents are those of the set.
LEMMA AnswersRefine ==
  ASSUME NEW S, IInvOf(S), EndCanInsert \/ EndFind
  PROVE  \/ \E b \in Box : Intervals!CanInsert(b)
         \/ \E q \in Point : Intervals!Find(q)
<1>1. IInvOf(S)' /\ pc = "descend" /\ pc' = "answer" /\ arg' = arg
  BY AnswersKeep DEF EndCanInsert, EndFind, Answer
<1>2. Held = S /\ Held' = S /\ Replied = None /\ Replied' = [asked |-> arg, answer |-> answer']
  BY <1>1, HeldIs DEF Replied
<1>3. CASE EndCanInsert
  <2>1. arg \in Box /\ answer' = IF Intervals!Fits(arg, S) THEN {arg} ELSE {}
    BY <1>3, CanInsertIsExactHere
  <2>2. /\ Replied = None
        /\ Replied' = [asked |-> arg, answer |-> IF Intervals!Fits(arg, Held) THEN {arg} ELSE {}]
        /\ Held' = Held
    BY <1>2, <2>1
  <2>3. Intervals!CanInsert(arg)
    BY ONLY <2>2 DEF Intervals!CanInsert, Held, Replied
  <2> QED BY <2>1, <2>3
<1>4. CASE EndFind
  <2>1. PICK q \in Point : arg = <<q, q>> /\ answer' = {b \in S : Intervals!Holds(b, q)}
    BY <1>4, FindIsExact
  <2>2. /\ Replied = None
        /\ Replied' = [asked |-> <<q, q>>, answer |-> {b \in Held : Intervals!Holds(b, q)}]
        /\ Held' = Held
    BY <1>2, <2>1
  <2>3. Intervals!Find(q)
    BY ONLY <2>2 DEF Intervals!Find, Held, Replied
  <2> QED BY <2>3
<1> QED BY <1>3, <1>4

\* The caller takes the reply.
LEMMA ReplyTaken ==
  ASSUME NEW S, IInvOf(S), CollectReply \/ ProceedToInsert
  PROVE  Intervals!CollectReply \/ (Held' = Held /\ Replied' = Replied)
<1>1. IInvOf(S)' /\ pc = "answer" /\ pc' \in {"ready", "descend"}
  BY FinishKeeps, ProceedKeeps DEF CollectReply, ProceedToInsert, Finish
<1>2. Held' = Held /\ Replied' = None
  BY <1>1, HeldIs DEF Replied
<1> QED BY <1>2 DEF Intervals!CollectReply, Held, Replied

\* The steps inside an insertion or a deletion change neither.
LEMMA RepairsRefine ==
  ASSUME NEW S, IInvOf(S),
         \/ RecolorUncle \/ RotateAtInsertion \/ EndInsertion
         \/ RedSibling \/ BlackNephews \/ RedNephew \/ EndDeleteFixup
  PROVE  Held' = Held /\ Replied' = Replied
<1>1. CASE RecolorUncle \/ RotateAtInsertion \/ EndInsertion
  <2>1. pc = "insertFixup" /\ pc' \in {"insertFixup", "ready"}
    BY <1>1 DEF RecolorUncle, RotateAtInsertion, EndInsertion, Finish
  <2>2. IInvOf(S)'
    BY <1>1, RecolorUncleKeeps, RotateAtInsertionKeeps, EndInsertionStep
  <2> QED BY <2>1, <2>2, Stutters
<1>2. CASE RedSibling \/ BlackNephews \/ RedNephew
  <2>1. pc = "deleteFixup" /\ pc' = pc /\ y' = y /\ z' = z
    BY <1>2 DEF RedSibling, BlackNephews, RedNephew, InDeleteFixup
  <2>2. IInvOf(S)'
    BY <1>2, RedSiblingStep, BlackNephewsStep, RedNephewStep
  <2> QED BY <2>1, <2>2, Stutters
<1>3. CASE EndDeleteFixup
  BY <1>3, EndDeleteFixupStep, Stutters
<1> QED BY <1>1, <1>2, <1>3

\* So do the steps of the descents.
LEMMA DescentsRefine ==
  ASSUME NEW S, IInvOf(S),
         \/ \E b \in Box : Begin("canInsert", b) \/ Begin("delete", b)
         \/ \E q \in Point : Begin("find", <<q, q>>)
         \/ Descend \/ InsertFoundIdentical \/ FindNode \/ TreeSuccessor
  PROVE  Held' = Held /\ Replied' = Replied
<1>1. CASE \E b \in Box : Begin("canInsert", b) \/ Begin("delete", b)
  <2>1. IInvOf(S)'
    BY <1>1, BeginKeeps
  <2>2. pc = "ready" /\ pc' = "descend"
    BY <1>1 DEF Begin
  <2> QED BY <2>1, <2>2, Stutters
<1>2. CASE \E q \in Point : Begin("find", <<q, q>>)
  <2>1. IInvOf(S)'
    BY <1>2, BeginKeeps DEF IsQuery
  <2>2. pc = "ready" /\ pc' = "descend"
    BY <1>2 DEF Begin
  <2> QED BY <2>1, <2>2, Stutters
<1>3. CASE Descend \/ InsertFoundIdentical \/ FindNode \/ TreeSuccessor
  <2>1. IInvOf(S)'
    BY <1>3, DescendKeeps, FinishKeeps, FindNodeKeeps, TreeSuccessorKeeps
  <2>2. pc \in {"descend", "splice"} /\ pc' \in {"descend", "splice", "ready"}
    BY <1>3 DEF Descend, InsertFoundIdentical, Finish, FindNode, TreeSuccessor
  <2> QED BY <2>1, <2>2, Stutters
<1> QED BY <1>1, <1>2, <1>3

\* One level is a set of disjoint intervals: every call changes the set, or answers from
\* it, in one of its steps, and all its other steps, rotations included, are invisible.
THEOREM TreeIsIntervalSet == Spec => ImplementsIntervalSet
<1>1. Init => Intervals!Init
  <2> SUFFICES ASSUME Init PROVE Held = {} /\ Replied = None
    BY DEF Intervals!Init, Held, Replied
  <2>1. Linked = {} /\ pc = "ready"
    BY InitHolds, LinkedInInv DEF Init
  <2> QED BY <2>1 DEF Held, Replied, Deleting
<1>2. IInv /\ [Next]_vars => [Intervals!Next]_<<Held, Replied>>
  <2> SUFFICES ASSUME NEW S, IInvOf(S), [Next]_vars
               PROVE  Intervals!Next \/ (Held' = Held /\ Replied' = Replied)
    BY DEF IInv
  <2>1. CASE UNCHANGED vars
    <3>1. tree' = tree /\ pc' = pc /\ arg' = arg /\ answer' = answer /\ y' = y /\ z' = z
      BY <2>1 DEF vars
    <3>2. Linked' = Linked
      BY <3>1 DEF Linked
    <3> QED BY <3>1, <3>2 DEF Held, Deleting, Replied
  <2>2. CASE Next
    <3>1. CASE Attach
      BY <3>1, AttachRefines DEF Intervals!Next
    <3>2. CASE Splice
      BY <3>2, SpliceRefines DEF Intervals!Next
    <3>3. CASE EndCanInsert \/ EndFind
      BY <3>3, AnswersRefine DEF Intervals!Next
    <3>4. CASE CollectReply \/ ProceedToInsert
      BY <3>4, ReplyTaken DEF Intervals!Next
    <3>5. CASE Relink
      BY <3>5, RelinkRefines
    <3>6. CASE \/ RecolorUncle \/ RotateAtInsertion \/ EndInsertion
               \/ RedSibling \/ BlackNephews \/ RedNephew \/ EndDeleteFixup
      BY <3>6, RepairsRefine
    <3>7. CASE \/ \E b \in Box : Begin("canInsert", b) \/ Begin("delete", b)
               \/ \E q \in Point : Begin("find", <<q, q>>)
               \/ Descend \/ InsertFoundIdentical \/ FindNode \/ TreeSuccessor
      BY <3>7, DescentsRefine
    <3> QED BY <2>2, <3>1, <3>2, <3>3, <3>4, <3>5, <3>6, <3>7 DEF Next, Step
  <2> QED BY <2>1, <2>2
<1>3. [Intervals!Next]_<<Held, Replied>>
        <=> [Intervals!Next]_<<IF Deleting THEN (Linked \cup {y}) \ {z} ELSE Linked,
                               IF pc = "answer" THEN [asked |-> arg, answer |-> answer] ELSE None>>
  BY DEF Held, Replied
<1> QED BY <1>1, <1>2, <1>3, RedBlackInvariance, PTL DEF Spec, ImplementsIntervalSet, Intervals!Spec
=============================================================================
