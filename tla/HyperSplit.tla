----------------------------- MODULE HyperSplit -----------------------------
(***************************************************************************)
(* The decision tree of src/Trees/HyperSplit.{h,cpp}.  An inner node       *)
(* splits one field at a point: packets up to the point go left, the       *)
(* others right, and a rule goes to every side that it meets.  A leaf is a *)
(* list of rules.                                                          *)
(*                                                                         *)
(* A node is named by the path of sides that leads to it.  The recursion   *)
(* of SplitRules works on subtrees that share nothing, so one step stands  *)
(* for all its calls at one depth.                                         *)
(***************************************************************************)
EXTENDS Rules, Sequences, SequencesExt

CONSTANTS
    bounds,       \* bounds[f]: the interval of field f
    leafSize      \* a longer list is split, if it can be; 8 in the code

VARIABLES
    rules,        \* the installed rules, in the order of the vector
    tree,         \* from paths to nodes
    open,         \* the leaves on which SplitRules is to be called
    kept          \* the installed rules that were in no list emptied by a deletion

vars == <<rules, tree, open, kept>>

LEFT == 0
RIGHT == 1
Leaf == 0         \* the dimension of a node that is not split

Node == [bounds : [Field -> Nat \X Nat], rules : SUBSET Rule, dim : {Leaf} \cup Field, split : Nat]

ListNode(box, list) == [bounds |-> box, rules |-> list, dim |-> Leaf, split |-> 0]

------------------------------------------------------------------------------
(* Choice of the field and the point                                       *)

\* (mutation) A rule that begins at the point goes right only.
LeftListBefore(list, d, point) == {r \in list : Low(r, d) < point}

LeftList(list, d, point) == {r \in list : Low(r, d) <= point}
RightList(list, d, point) == {r \in list : High(r, d) > point}

\* The points at which a segment of constant cover ends.
GetSplitPoints(box, list, d) ==
    LET lows == {Max({Low(r, d), box[d][1]}) : r \in list} \ {box[d][1]}
    IN  {box[d][2]} \cup {Min({High(r, d), box[d][2]}) : r \in list} \cup {low - 1 : low \in lows}

GetRanges(box, list, d) ==
    LET ends == GetSplitPoints(box, list, d)
        begin(end) == Max({box[d][1] - 1} \cup {e \in ends : e < end}) + 1
    IN  {<<begin(end), end>> : end \in ends}

\* The number of rules that cover the segments, summed over them.
Cost(segments, list, d) ==
    MapThenSumSet(LAMBDA s : Cardinality({r \in list : Low(r, d) <= s[1] /\ High(r, d) >= s[2]}),
                  segments)

\* The first field with the least average cost.
SelectDimToSplit(box, list) ==
    LET segments(d) == GetRanges(box, list, d)
        IsBest(d) == \A e \in Field : Cost(segments(d), list, d) * Cardinality(segments(e))
                                        <= Cost(segments(e), list, e) * Cardinality(segments(d))
    IN  Min({d \in Field : IsBest(d)})

\* The end of the segment with which half of the cost is reached, or of the one
\* before when that is the last.
SelectSplitPoint(box, list, d) ==
    LET segments == GetRanges(box, list, d)
        upTo(s) == {t \in segments : t[2] <= s[2]}
        half == {s \in segments : Cost(upTo(s), list, d) >= Cost(segments, list, d) \div 2}
        middle == CHOOSE s \in half : \A t \in half : s[2] <= t[2]
    IN  IF Cardinality(segments) > 1 /\ upTo(middle) = segments THEN middle[1] - 1 ELSE middle[2]

------------------------------------------------------------------------------
(* Paths                                                                   *)

Leaves == {path \in DOMAIN tree : tree[path].dim = Leaf}

\* The side taken after the first k - 1 steps of the path is one that the rule
\* meets, or the one that holds the packet.
Above(path, k) == tree[SubSeq(path, 1, k - 1)]
Meets(r, path) == \A k \in DOMAIN path :
    IF path[k] = LEFT THEN Low(r, Above(path, k).dim) <= Above(path, k).split
    ELSE High(r, Above(path, k).dim) > Above(path, k).split
Holds(path, p) == \A k \in DOMAIN path :
    path[k] = LEFT <=> p[Above(path, k).dim] <= Above(path, k).split

\* ListNode::ClassifyAPacket on the leaf that the packet is led to.
ClassifyAPacket(p) ==
    BestPriority(tree[CHOOSE path \in Leaves : Holds(path, p)].rules, p)

\* An inner node with an empty list below it.
IsEmpty(path) == tree[path].dim = Leaf /\ tree[path].rules = {}
Collapsible == {path \in DOMAIN tree \ Leaves :
                    IsEmpty(Append(path, LEFT)) \/ IsEmpty(Append(path, RIGHT))}

InstalledRules == {rules[i] : i \in DOMAIN rules}
Settled == open = {} /\ Collapsible = {}

------------------------------------------------------------------------------
(* Operations                                                              *)

\* A file lists the rules by decreasing priority.
InFileOrder(set) ==
    [i \in 1 .. Cardinality(set) |->
        CHOOSE r \in set : Cardinality({s \in set : priority[s] > priority[r]}) = i - 1]

\* ConstructClassifier
Init == /\ \E set \in SUBSET Rule :
                /\ rules = InFileOrder(set) /\ kept = set
                /\ tree = (<<>> :> ListNode(bounds, set))
        /\ open = {<<>>}

SplitDim(node) == SelectDimToSplit(node.bounds, node.rules)
SplitPoint(node) == SelectSplitPoint(node.bounds, node.rules, SplitDim(node))

Lower(node) == LeftList(node.rules, SplitDim(node), SplitPoint(node))
Upper(node) == RightList(node.rules, SplitDim(node), SplitPoint(node))

\* A list that is short enough or would not become shorter stays a leaf.
Divides(node) ==
    /\ Cardinality(node.rules) > leafSize
    /\ SplitPoint(node) # node.bounds[SplitDim(node)][2]
    /\ Lower(node) # node.rules /\ Upper(node) # node.rules

HyperSplitNode(node) ==
    [node EXCEPT !.rules = {}, !.dim = SplitDim(node), !.split = SplitPoint(node)]

\* It is the upper bound that the right child gets, too.
ChildNode(node, side) ==
    LET d == SplitDim(node)
    IN  IF side = LEFT
        THEN ListNode([node.bounds EXCEPT ![d][2] = SplitPoint(node)], Lower(node))
        ELSE ListNode([node.bounds EXCEPT ![d][2] = SplitPoint(node) + 1], Upper(node))

SplitRules ==
    LET divided == {path \in open : Divides(tree[path])}
        born == {Append(path, side) : path \in divided, side \in {LEFT, RIGHT}}
    IN  /\ open # {}
        /\ tree' = [path \in DOMAIN tree \cup born |->
                        IF path \in born THEN ChildNode(tree[Front(path)], Last(path))
                        ELSE IF path \in divided THEN HyperSplitNode(tree[path])
                        ELSE tree[path]]
        /\ open' = born
        /\ UNCHANGED <<rules, kept>>

InsertRule(r) ==
    LET reached == {path \in Leaves : Meets(r, path)}
    IN  /\ Settled /\ r \notin InstalledRules
        /\ rules' = Append(rules, r) /\ kept' = kept \cup {r}
        /\ tree' = [path \in DOMAIN tree |->
                        IF path \in reached THEN [tree[path] EXCEPT !.rules = @ \cup {r}]
                        ELSE tree[path]]
        /\ open' = {path \in reached : Cardinality(tree'[path].rules) > leafSize}

\* The lambda of ListNode::DeleteRule compares a rule with itself, so every list
\* that the deleted rule is in loses all its rules.
DeleteRule(i) ==
    LET reached == {path \in Leaves : Meets(rules[i], path)}
    IN  /\ Settled /\ i \in DOMAIN rules
        /\ rules' = SubSeq([rules EXCEPT ![i] = Last(rules)], 1, Len(rules) - 1)
        /\ kept' = kept \ UNION {tree[path].rules : path \in reached}
        /\ tree' = [path \in DOMAIN tree |->
                        IF path \in reached THEN [tree[path] EXCEPT !.rules = {}]
                        ELSE tree[path]]
        /\ UNCHANGED open

\* The rest of a deletion: an inner node with an empty list is replaced by its
\* other child, which takes over the bounds of the node.
Collapse ==
    \E path \in Collapsible :
        LET side == IF IsEmpty(Append(path, LEFT)) THEN RIGHT ELSE LEFT
            old(q) == IF IsPrefix(path, q) THEN path \o <<side>> \o SubSeq(q, Len(path) + 1, Len(q)) ELSE q
            shrunk == {q \in DOMAIN tree : ~IsPrefix(path, q)}
                          \cup {path \o SubSeq(q, Len(path) + 2, Len(q)) :
                                    q \in {q \in DOMAIN tree : IsPrefix(Append(path, side), q)}}
        IN  /\ open = {}
            /\ tree' = [q \in shrunk |-> IF q = path THEN [tree[old(q)] EXCEPT !.bounds = tree[path].bounds]
                                         ELSE tree[old(q)]]
            /\ UNCHANGED <<rules, open, kept>>

Next ==
    \/ SplitRules
    \/ Collapse
    \/ \E r \in Rule : InsertRule(r)
    \/ \E i \in DOMAIN rules : DeleteRule(i)

Spec == Init /\ [][Next]_vars /\ WF_vars(SplitRules \/ Collapse)

------------------------------------------------------------------------------
(* Properties                                                              *)

\* A deletion destroys more than its rule, but never damages the tree: a packet
\* is answered with an installed rule that matches it, and no rule is missed
\* that shared no list with a deleted one.  Until the first deletion the answer
\* is therefore that of the best rule.
AnswerIsBracketed ==
    Settled => \A p \in Packet :
        /\ ClassifyAPacket(p) \in {NoMatch} \cup {priority[r] : r \in Matching(InstalledRules, p)}
        /\ BestPriority(kept, p) <= ClassifyAPacket(p)
==============================================================================
