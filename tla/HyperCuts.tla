------------------------------ MODULE HyperCuts ------------------------------
(***************************************************************************)
(* The decision tree of src/Trees/HyperCuts.{h,cpp}.  An inner node cuts   *)
(* its box into equal parts along one field or two, and finds the part of  *)
(* a packet by division.  The parts are computed by halving again and      *)
(* again, which goes on when they are single points: the second half of    *)
(* [l, l] is [l + 1, l], and the halves of that are whatever the           *)
(* arithmetic of Point yields.                                             *)
(*                                                                         *)
(* A node is named by the positions in the child arrays that lead to it.   *)
(***************************************************************************)
EXTENDS Rules, Sequences, SequencesExt

CONSTANTS
    Top,          \* Top[f]: the largest value of field f
    PointBits,    \* width of a Point, 32 in the code
    leafSize,     \* a longer list is cut; 8 in the code
    spfac         \* 4 in the code

VARIABLES
    cutTree,      \* from paths to nodes
    worklist,     \* paths to the nodes to be cut, the next one last
    dims,         \* the fields along which the last node of the list is cut
    pieces,       \* its parts, <<>> when they are not being computed
    level,        \* how often they have been halved
    gaveUp,       \* exit(1) was called
    given         \* the rules that the tree is built from

vars == <<cutTree, worklist, dims, pieces, level, gaveUp, given>>

Point(x) == x % (2 ^ PointBits)

\* A node with cuts[f] parts along each field f; children is their number.
NewNode(box, list) ==
    [bounds |-> box, classifier |-> list, cuts |-> [f \in Field |-> 1], children |-> 0]

ComputeSpan(interval, cuts) == (Point(interval[2] - interval[1]) \div cuts) + 1

------------------------------------------------------------------------------
(* Rules in a box                                                          *)

IsPresent(box, r) == \A f \in Field : High(r, f) >= box[f][1] /\ Low(r, f) <= box[f][2]

RangeInBoundary1D(r, interval, f) == <<Max({Low(r, f), interval[1]}), Min({High(r, f), interval[2]})>>

\* In the box, m matches whatever r matches.
AreEqual(m, r, box) == \A f \in Field :
    LET inner == RangeInBoundary1D(r, box[f], f)
        outer == RangeInBoundary1D(m, box[f], f)
    IN  outer[1] <= inner[1] /\ outer[2] >= inner[2]

\* (mutation) All rules stay.
RemoveNothing(list, box) == list

\* A rule behind one that covers it in the box goes.
RemoveRedund(list, box) ==
    {r \in list : ~ \E m \in list : priority[m] > priority[r] /\ AreEqual(m, r, box)}

------------------------------------------------------------------------------
(* Choice of the fields and the number of cuts                             *)

UniqueElements(node, f) ==
    Cardinality({RangeInBoundary1D(r, node.bounds[f], f) : r \in node.classifier})

\* The first two of the fields with at least the average number of different
\* intervals, the average being over those that can be cut.
CalcDimensionsToCut(node) ==
    LET wide == {f \in Field : node.bounds[f][2] > node.bounds[f][1]}
        total == MapThenSumSet(LAMBDA f : UniqueElements(node, f), wide)
        selected == {f \in wide : UniqueElements(node, f) * Cardinality(wide) >= total}
    IN  SetToSortSeq({f \in selected : Cardinality({e \in selected : e < f}) < 2}, <)

\* SetBoundary with two cuts along field f; k is the offset.
SetBoundary(box, f, k) ==
    LET interval == ComputeSpan(box[f], 2)
    IN  [box EXCEPT ![f] = IF k = 0 THEN <<@[1], Point(@[1] + interval - 1)>>
                           ELSE <<Point(@[1] + interval), @[2]>>]

Half(part, f, k) ==
    LET box == SetBoundary(part.bounds, f, k)
    IN  NewNode(box, {r \in part.classifier : IsPresent(box, r)})

\* The fields are halved in turn.
FieldOfLevel(n) == dims[1 + ((n - 1) % Len(dims))]

Halved(parts, f) == FlattenSeq([i \in DOMAIN parts |-> <<Half(parts[i], f, 0), Half(parts[i], f, 1)>>])

\* The pieces are halved until there are enough of them and of copies of rules.
Enough(node, parts) ==
    Len(parts) + FoldLeft(LAMBDA sum, part : sum + Cardinality(part.classifier), 0, parts)
        >= spfac * Cardinality(node.classifier)

------------------------------------------------------------------------------
(* Construction                                                            *)

\* SortRules and the root of CreateTree.
Init == /\ given \in SUBSET Rule
        /\ LET root == NewNode([f \in Field |-> <<0, Top[f]>>], given)
               list == RemoveRedund(given, root.bounds)
           IN  /\ cutTree = (<<>> :> [root EXCEPT !.classifier = list])
               /\ worklist = IF Cardinality(list) > leafSize THEN << <<>> >> ELSE <<>>
        /\ dims = <<>> /\ pieces = <<>> /\ level = 0 /\ gaveUp = FALSE

Current == cutTree[Last(worklist)]

\* (mutation) The node is looked at, not taken from the list.
Unchanged(list) == list

\* pop_back
Taken(list) == Front(list)

\* CalcCuts ends the program when there is no field to cut.
BeginCut ==
    /\ ~gaveUp /\ worklist # <<>> /\ pieces = <<>>
    /\ dims' = CalcDimensionsToCut(Current)
    /\ IF dims' = <<>> THEN gaveUp' = TRUE /\ UNCHANGED pieces
       ELSE pieces' = <<Current>> /\ UNCHANGED gaveUp
    /\ UNCHANGED <<given, cutTree, worklist, level>>

\* One level of CalcNumCuts1D or CalcNumCuts2D.
CutLevel ==
    /\ pieces # <<>> /\ (level = 0 \/ ~Enough(Current, pieces))
    /\ pieces' = Halved(pieces, FieldOfLevel(level + 1))
    /\ level' = level + 1
    /\ UNCHANGED <<given, dims, cutTree, worklist, gaveUp>>

Cuts == [f \in Field |-> 2 ^ Cardinality({n \in 1 .. level : FieldOfLevel(n) = f})]

\* By lower bounds; the comparison with <= makes std::list::sort turn around
\* pieces with equal ones.
Sorted(parts) ==
    LET low(i, k) == parts[i].bounds[dims[k]][1]
        before(i, j) == \/ \E k \in DOMAIN dims : /\ low(i, k) < low(j, k)
                                                  /\ \A l \in 1 .. k - 1 : low(i, l) = low(j, l)
                        \/ /\ \A k \in DOMAIN dims : low(i, k) = low(j, k)
                           /\ i > j
        rank(i) == 1 + Cardinality({j \in DOMAIN parts : before(j, i)})
        child(part) == [part EXCEPT !.classifier = RemoveRedund(@, part.bounds)]
    IN  [k \in DOMAIN parts |-> child(parts[CHOOSE i \in DOMAIN parts : rank(i) = k])]

\* The pieces become children; those with long lists will be cut in turn.  The
\* test that would stop at a child like its parent compares with the list that
\* has just been cleared, and so never does.
FinishCut ==
    /\ pieces # <<>> /\ level > 0 /\ Enough(Current, pieces)
    /\ \E children \in {Sorted(pieces)} :
        LET path == Last(worklist)
            born == {Append(path, i) : i \in DOMAIN children}
            long == SelectSeq([i \in DOMAIN children |-> i],
                              LAMBDA i : Cardinality(children[i].classifier) > leafSize)
        IN  /\ cutTree' = [q \in DOMAIN cutTree \cup born |->
                    IF q \in born THEN children[Last(q)]
                    ELSE IF q = path THEN [cutTree[q] EXCEPT !.classifier = {}, !.cuts = Cuts,
                                                             !.children = Len(children)]
                    ELSE cutTree[q]]
            /\ worklist' = Taken(worklist) \o [i \in DOMAIN long |-> Append(path, long[i])]
    /\ pieces' = <<>> /\ level' = 0 /\ dims' = <<>>
    /\ UNCHANGED <<given, gaveUp>>

Next == BeginCut \/ CutLevel \/ FinishCut

Spec == Init /\ [][Next]_vars /\ WF_vars(Next)

Built == worklist = <<>> /\ ~gaveUp

------------------------------------------------------------------------------
(* Classification                                                          *)

\* (mutation) The fields are combined the other way round.
IndexByLastField(node, p) ==
    FoldLeft(LAMBDA index, f : index * node.cuts[f]
                  + (Point(p[f] - node.bounds[f][1]) \div ComputeSpan(node.bounds[f], node.cuts[f])),
             0, Reverse([f \in Field |-> f]))

\* The position in the child array, row by row; a field that is not cut has one
\* part and adds nothing.
Index(node, p) ==
    FoldLeft(LAMBDA index, f : IF node.cuts[f] = 1 THEN index
                  ELSE index * node.cuts[f]
                  + (Point(p[f] - node.bounds[f][1]) \div ComputeSpan(node.bounds[f], node.cuts[f])),
             0, [f \in Field |-> f])

\* The nodes that Classify visits, one below the other.
Visited(p) == {path \in DOMAIN cutTree :
    \A k \in DOMAIN path : path[k] = Index(cutTree[SubSeq(path, 1, k - 1)], p) + 1}

Deepest(paths) == CHOOSE path \in paths : \A q \in paths : Len(q) <= Len(path)
LastVisited(p) == cutTree[Deepest(Visited(p))]

\* A position outside the child array may lead to anything.
Answers(p) ==
    IF LastVisited(p).children = 0 THEN {BestPriority(LastVisited(p).classifier, p)}
    ELSE {NoMatch} \cup {priority[r] : r \in Rule}

------------------------------------------------------------------------------
(* Properties                                                              *)

\* As long as no node on the way of a packet is cut into more parts than it has
\* points, the packet gets the answer of the best rule.
Fits(node) == \A f \in Field : node.cuts[f] <= node.bounds[f][2] - node.bounds[f][1] + 1
ExactWhereCutsFit ==
    Built => \A p \in Packet :
        (\A path \in Visited(p) : Fits(cutTree[path])) => Answers(p) = {BestPriority(given, p)}

\* A long list is never left in a box that cannot be cut, where the program
\* would end: in a single point all rules but one are redundant.
NeverGivesUp == ~gaveUp
==============================================================================
