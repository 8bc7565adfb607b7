----------------------------- MODULE Validation -----------------------------
(***************************************************************************)
(* The validation mode of src/main.cpp with the two decision trees: both   *)
(* are constructed from the same rules, then every packet is given to both *)
(* and the answers are compared.  Afterwards the trees may be updated      *)
(* through the interface of a packet classifier, which the program itself  *)
(* does not do with them; HyperCuts ignores that.                          *)
(***************************************************************************)
EXTENDS Rules, Sequences

CONSTANTS
    Top, PointBits,              \* fields, as in HyperCuts
    hyperSplitLeaf, hyperCutsLeaf, spfac,
    threshold,                   \* tests end after so many disagreements
    MaxUpdates                   \* bound on the updates that are looked at

ASSUME ThresholdAssumption == threshold \in Nat \ {0}

ASSUME TreesAssumption ==
    /\ hyperSplitLeaf \in Nat /\ hyperCutsLeaf \in Nat \ {0} /\ spfac \in Nat \ {0}
    /\ PointBits \in Nat /\ Top \in [Field -> 0 .. 2 ^ PointBits - 1]

\* HyperCuts sorts the rules by priority, HyperSplit takes them in file order.
ASSUME DistinctPriorities == \A r, s \in Rule : priority[r] = priority[s] => r = s

VARIABLES
    rules, tree, open, kept,                             \* HyperSplit
    cutTree, worklist, dims, pieces, level, gaveUp, given,     \* HyperCuts
    tested,       \* the packets that have been given to the classifiers
    numWrong,     \* how often the answers differed
    accord,       \* "unknown", or whether Validation returned true
    updates       \* the number of updates since then

hyperSplit == <<rules, tree, open, kept>>
hyperCuts == <<cutTree, worklist, dims, pieces, level, gaveUp, given>>
vars == <<hyperSplit, hyperCuts, tested, numWrong, accord, updates>>

HS == INSTANCE HyperSplit WITH leafSize <- hyperSplitLeaf, bounds <- [f \in Field |-> <<0, Top[f]>>]
HC == INSTANCE HyperCuts WITH leafSize <- hyperCutsLeaf

Init ==
    /\ HS!Init /\ HC!Init /\ given = HS!InstalledRules
    /\ tested = {} /\ numWrong = 0 /\ accord = "unknown" /\ updates = 0

\* The loop over the classifiers in RunValidation.
BuildHyperSplit == (HS!SplitRules \/ HS!Collapse) /\ UNCHANGED <<hyperCuts, tested, numWrong, accord, updates>>
BuildHyperCuts == open = {} /\ HC!Next /\ UNCHANGED <<hyperSplit, tested, numWrong, accord, updates>>

Ready == HS!Settled /\ HC!Built

\* One packet in the loop of Validation.
Test(p) ==
    /\ Ready /\ accord = "unknown" /\ p \notin tested
    /\ \E answer \in HC!Answers(p) :
        LET wrong == IF answer = HS!ClassifyAPacket(p) THEN 0 ELSE 1
        IN  numWrong' = numWrong + wrong
    /\ tested' = tested \cup {p}
    /\ accord' = IF tested' = Packet \/ numWrong' >= threshold
                 THEN IF numWrong' = 0 THEN "yes" ELSE "no"
                 ELSE accord
    /\ UNCHANGED <<hyperSplit, hyperCuts, updates>>

Update ==
    /\ accord # "unknown" /\ updates < MaxUpdates /\ HS!Settled
    /\ \/ \E r \in Rule : HS!InsertRule(r)
       \/ \E i \in DOMAIN rules : HS!DeleteRule(i)
    /\ updates' = updates + 1
    /\ UNCHANGED <<hyperCuts, tested, numWrong, accord>>

Next ==
    \/ BuildHyperSplit
    \/ BuildHyperCuts
    \/ \E p \in Packet : Test(p)
    \/ Update

\* The program does not stop on its own account.
Fairness == WF_vars(BuildHyperCuts) /\ WF_vars(\E p \in Packet : Test(p))

Spec == Init /\ [][Next]_vars /\ Fairness

------------------------------------------------------------------------------
(* Properties                                                              *)

\* HyperSplit answers with an installed rule or with none, and misses no rule that
\* never shared a list with a deleted one: deletions empty whole lists.
AnswerIsBracketed == HS!AnswerIsBracketed

\* HyperCuts answers as a scan of the rules it was given, for every packet whose way
\* down leads through no node that is cut into more parts than it has points.
ExactWhereCutsFit == HC!ExactWhereCutsFit

\* The construction of HyperCuts never comes to a node with too many rules that it
\* can halve along no field.
NeverGivesUp == HC!NeverGivesUp

\* "All classifiers are in accord" (src/main.cpp:238): HyperCuts has the answer of
\* HyperSplit for every packet.
InAccord == (Ready /\ accord = "unknown") => \A p \in Packet : HC!Answers(p) = {HS!ClassifyAPacket(p)}

\* When HyperSplit is constructed, HyperCuts will be, too, and the packets are
\* tested: the list of nodes to be cut runs empty, although the test that should
\* stop at a child that is like its parent never does.
ValidationEnds == open = {} ~> accord # "unknown"
==============================================================================
