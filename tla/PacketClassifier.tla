--------------------------- MODULE PacketClassifier ---------------------------
(***************************************************************************)
(* What every updatable packet classifier promises: the interface of       *)
(* src/Simulation.h with the behaviour of the reference implementation in  *)
(* src/BruteForce.h, which scans a plain vector of rules.                  *)
(*                                                                         *)
(* The position of a rule in the vector is part of the promise: DeleteRule *)
(* takes a position, and the simulator computes positions on its own copy  *)
(* of the vector.                                                          *)
(***************************************************************************)
EXTENDS Rules, Sequences

CONSTANT NoPacket      \* no classification is waiting to be collected

VARIABLES
    rules,             \* the installed rules, in the order the vector holds them
    answer             \* the last ClassifyAPacket call, until its caller has it

vars == <<rules, answer>>

NoAnswer == [packet |-> NoPacket, priority |-> NoMatch]

RuleSet(s) == {s[i] : i \in DOMAIN s}

\* rules[i] = std::move(rules.back()); rules.pop_back();
MoveLastInto(s, i) ==
    SubSeq([s EXCEPT ![i] = s[Len(s)]], 1, Len(s) - 1)

TypeOK ==
    /\ rules \in Seq(Rule)
    /\ answer \in [packet : Packet \cup {NoPacket}, priority : Int]

Init == rules = <<>> /\ answer = NoAnswer

\* The caller never installs a rule twice: the simulator draws from a pool of
\* rules that are not in use.
InsertRule(r) ==
    /\ answer = NoAnswer
    /\ r \notin RuleSet(rules)
    /\ rules' = Append(rules, r)
    /\ UNCHANGED answer

DeleteRule(i) ==
    /\ answer = NoAnswer
    /\ i \in DOMAIN rules
    /\ rules' = MoveLastInto(rules, i)
    /\ UNCHANGED answer

ClassifyAPacket(p) ==
    /\ answer = NoAnswer
    /\ answer' \in {[packet |-> p, priority |-> v] :
                      v \in {NoMatch} \cup {priority[r] : r \in RuleSet(rules)}}
    /\ IsBestPriority(answer'.priority, RuleSet(rules), p)
    /\ UNCHANGED rules

CollectAnswer ==
    /\ answer # NoAnswer
    /\ answer' = NoAnswer
    /\ UNCHANGED rules

Next ==
    \/ \E r \in Rule : InsertRule(r)
    \/ \E i \in DOMAIN rules : DeleteRule(i)
    \/ \E p \in Packet : ClassifyAPacket(p)
    \/ CollectAnswer

Spec == Init /\ [][Next]_vars
==============================================================================
