------------------------------- MODULE Simulator -------------------------------
(***************************************************************************)
(* The update simulation (src/Simulation.{h,cpp}): SetupComputation draws  *)
(* a sequence of requests, makes it feasible, and fixes for every request  *)
(* a random position; PerformPacketClassification replays it, ten times,   *)
(* on a classifier and on its own record of which rules are in use.        *)
(*                                                                         *)
(* The classifier is any that implements PacketClassifier; `rules` and     *)
(* `answer` are its state.  The properties say that the simulator uses it  *)
(* as it may be used, over all trials, although the positions were drawn   *)
(* for one.                                                                *)
(***************************************************************************)
EXTENDS Rules, Sequences, SequencesExt

CONSTANTS
    NumPacket, NumInsert, NumDelete,   \* the arguments of SetupComputation
    packets,                           \* the sequence of packets to classify
    NumTrial,                          \* 10 in the code
    NoPacket

ASSUME SimulatorAssumption ==
    /\ NumPacket \in 0 .. Len(packets) /\ NumTrial \in Nat
    /\ packets \in Seq(Packet) /\ NoPacket \notin Packet
    /\ NumInsert \in Nat /\ NumDelete = NumInsert     \* as in RunSimulatorUpdates (main.cpp:163)

VARIABLES
    phase,             \* "adjust", "trace" (SetupComputation), "construct", "perform", "done"
    i,                 \* position in the sequence
    sequence,          \* the requests: their types
    trace,             \* and their random_index_trace, 0 while undefined
    current_size,      \* the local of SetupComputation
    rules_in_use, available_pool,           \* the members
    rules_in_use_temp, available_pool_temp, \* the working copies
    trial, packet_counter,
    rules, answer      \* the classifier

setup == <<sequence, trace, current_size, rules_in_use, available_pool>>
books == <<rules_in_use_temp, available_pool_temp>>
vars == <<phase, i, setup, books, trial, packet_counter, rules, answer>>

Classifier == INSTANCE PacketClassifier

Request == {"ClassifyPacket", "Insertion", "Deletion"}
NumRequest == NumPacket + NumInsert + NumDelete
N == Cardinality(Rule)

NoAnswer == [packet |-> NoPacket, priority |-> NoMatch]

\* (mutation) The rules behind the popped one move up.
EraseFrom(s, k) == RemoveAt(s, k)

\* (mutation) The last rule goes, whichever was asked for.
PopLast(s, k) == SubSeq(s, 1, Len(s) - 1)

\* Bookkeeper::GetOneRuleAndPop: the last rule moves into the place of rule k.
PopFrom(s, k) == SubSeq([s EXCEPT ![k] = s[Len(s)]], 1, Len(s) - 1)

IsAmount(s, type, n) == Cardinality({k \in DOMAIN s : s[k] = type}) = n

\* Any order of the requests asked for.
GenerateRequests ==
    {s \in [1 .. NumRequest -> Request] :
        IsAmount(s, "Insertion", NumInsert) /\ IsAmount(s, "Deletion", NumDelete)}

Init ==
    /\ phase = "adjust" /\ i = 1
    /\ sequence \in GenerateRequests
    /\ trace = [k \in 1 .. NumRequest |-> 0]
    /\ \E shuff_rules \in SetToSeqs(Rule) :
         /\ rules_in_use = SubSeq(shuff_rules, 1, N \div 2)
         /\ available_pool = SubSeq(shuff_rules, N \div 2 + 1, N)
    /\ rules_in_use_temp = rules_in_use /\ available_pool_temp = available_pool
    /\ current_size = N \div 2
    /\ trial = 0 /\ packet_counter = 1
    /\ rules = <<>> /\ answer = NoAnswer

------------------------------------------------------------------------------
(* SetupComputation                                                        *)

TooMany == 10 * current_size >= 8 * N      \* (1 - treshold) * ruleset.size()
TooFew == 10 * current_size <= 2 * N       \* treshold * ruleset.size()

Opposite(type) == IF type = "Insertion" THEN "Deletion" ELSE "Insertion"

\* What the request executed instead does to the size.
SwapEffect(type) == IF type = "Insertion" THEN -1 ELSE 1

\* (mutation) The type of the request is changed and no other request with it.
ChangeOne ==
    /\ sequence' = [sequence EXCEPT ![i] = Opposite(sequence[i])]
    /\ current_size' = current_size + SwapEffect(sequence[i])

\* The request is exchanged with the furthest one of the opposite type; if
\* there is none it stays, and the size with it.
Exchange ==
    LET type == sequence[i]
        later == {j \in i + 1 .. NumRequest : sequence[j] = Opposite(type)}
    IN  IF later = {} THEN UNCHANGED <<sequence, current_size>>
        ELSE /\ sequence' = [sequence EXCEPT ![i] = Opposite(type), ![Max(later)] = type]
             /\ current_size' = current_size + SwapEffect(type)

Keep ==
    /\ current_size' = current_size + (CASE sequence[i] = "Insertion" -> 1
                                         [] sequence[i] = "Deletion" -> -1
                                         [] OTHER -> 0)
    /\ UNCHANGED sequence

\* One iteration of the first loop.
Adjust ==
    /\ phase = "adjust" /\ i <= NumRequest
    /\ IF (sequence[i] = "Insertion" /\ TooMany) \/ (sequence[i] = "Deletion" /\ TooFew)
       THEN Exchange ELSE Keep
    /\ i' = i + 1
    /\ UNCHANGED <<phase, trace, rules_in_use, available_pool, books, trial, packet_counter,
                   rules, answer>>

BeginTrace ==
    /\ phase = "adjust" /\ i > NumRequest
    /\ phase' = "trace" /\ i' = 1
    /\ UNCHANGED <<setup, books, trial, packet_counter, rules, answer>>

\* One iteration of the second loop.  The size it tests is the one the first
\* loop ended with, so it holds or fails for all requests alike.
DrawPosition ==
    /\ phase = "trace" /\ i <= NumRequest
    /\ CASE sequence[i] = "Insertion" /\ ~TooMany ->
              \E k \in DOMAIN available_pool_temp :
                /\ rules_in_use_temp' = Append(rules_in_use_temp, available_pool_temp[k])
                /\ available_pool_temp' = PopFrom(available_pool_temp, k)
                /\ trace' = [trace EXCEPT ![i] = k]
         [] sequence[i] = "Deletion" /\ ~TooFew ->
              \E k \in DOMAIN rules_in_use_temp :
                /\ available_pool_temp' = Append(available_pool_temp, rules_in_use_temp[k])
                /\ rules_in_use_temp' = PopFrom(rules_in_use_temp, k)
                /\ trace' = [trace EXCEPT ![i] = k]
         [] OTHER -> UNCHANGED <<books, trace>>
    /\ i' = i + 1
    /\ UNCHANGED <<phase, sequence, current_size, rules_in_use, available_pool, trial,
                   packet_counter, rules, answer>>

------------------------------------------------------------------------------
(* PerformPacketClassification                                             *)

\* Work on copies of the members; ConstructClassifier inserts the rules in use
\* one by one.
BeginPerform ==
    /\ phase = "trace" /\ i > NumRequest
    /\ phase' = "construct"
    /\ rules_in_use_temp' = rules_in_use /\ available_pool_temp' = available_pool
    /\ UNCHANGED <<i, setup, trial, packet_counter, rules, answer>>

ConstructClassifier ==
    /\ phase = "construct" /\ Len(rules) < Len(rules_in_use_temp)
    /\ rules' = Append(rules, rules_in_use_temp[Len(rules) + 1])
    /\ UNCHANGED <<phase, i, setup, books, trial, packet_counter, answer>>

\* (mutation) The working copies of the previous trial are replaced.
BeginTrialAfresh ==
    /\ \/ phase = "construct" /\ Len(rules) = Len(rules_in_use_temp)
       \/ phase = "perform" /\ i > NumRequest /\ trial < NumTrial
    /\ phase' = "perform" /\ i' = 1 /\ trial' = trial + 1 /\ packet_counter' = 1
    /\ rules_in_use_temp' = rules_in_use /\ available_pool_temp' = available_pool
    /\ UNCHANGED <<setup, rules, answer>>

\* Each trial starts from where the previous one ended.
BeginTrial ==
    /\ \/ phase = "construct" /\ Len(rules) = Len(rules_in_use_temp)
       \/ phase = "perform" /\ i > NumRequest /\ trial < NumTrial
    /\ phase' = "perform" /\ i' = 1 /\ trial' = trial + 1 /\ packet_counter' = 1
    /\ UNCHANGED <<setup, books, rules, answer>>

Performing(type) == phase = "perform" /\ i <= NumRequest /\ sequence[i] = type

PerformInsertion ==
    /\ Performing("Insertion")
    /\ trace[i] \in DOMAIN available_pool_temp
    /\ LET r == available_pool_temp[trace[i]]
       IN  /\ available_pool_temp' = PopFrom(available_pool_temp, trace[i])
           /\ rules_in_use_temp' = Append(rules_in_use_temp, r)
           /\ rules' = Append(rules, r)
    /\ i' = i + 1
    /\ UNCHANGED <<phase, setup, trial, packet_counter, answer>>

PerformDeletion ==
    /\ Performing("Deletion")
    /\ trace[i] \in DOMAIN rules_in_use_temp
    /\ available_pool_temp' = Append(available_pool_temp, rules_in_use_temp[trace[i]])
    /\ rules_in_use_temp' = PopFrom(rules_in_use_temp, trace[i])
    /\ rules' = Classifier!MoveLastInto(rules, trace[i])
    /\ i' = i + 1
    /\ UNCHANGED <<phase, setup, trial, packet_counter, answer>>

PerformClassification ==
    /\ Performing("ClassifyPacket") /\ answer = NoAnswer
    /\ answer' = [packet |-> packets[packet_counter],
                  priority |-> BestPriority(ToSet(rules), packets[packet_counter])]
    /\ packet_counter' = IF packet_counter = Len(packets) THEN 1 ELSE packet_counter + 1
    /\ UNCHANGED <<phase, i, setup, books, trial, rules>>

PushResult ==
    /\ Performing("ClassifyPacket") /\ answer # NoAnswer
    /\ answer' = NoAnswer
    /\ i' = i + 1
    /\ UNCHANGED <<phase, setup, books, trial, packet_counter, rules>>

EndOfTrials ==
    /\ phase = "perform" /\ i > NumRequest /\ trial = NumTrial
    /\ phase' = "done"
    /\ UNCHANGED <<i, setup, books, trial, packet_counter, rules, answer>>

Next ==
    \/ Adjust \/ BeginTrace \/ DrawPosition
    \/ BeginPerform \/ ConstructClassifier \/ BeginTrial
    \/ PerformInsertion \/ PerformDeletion \/ PerformClassification \/ PushResult
    \/ EndOfTrials

Spec == Init /\ [][Next]_vars

------------------------------------------------------------------------------
(* Properties                                                              *)

\* The two pools always divide the rule set: no rule is lost or in both.
PoolsPartitionTheRules ==
    LET both == rules_in_use_temp \o available_pool_temp
    IN  Len(both) = N /\ ToSet(both) = Rule

\* "at all time, DS.rules = rules_in_use.rules" (Simulation.cpp:198).
ClassifierHoldsRulesInUse == phase \in {"perform", "done"} => rules = rules_in_use_temp

\* A position is drawn from a pool that is not empty, and when a trial replays
\* it, on pools that hold other rules by then, it is again one of theirs.
PositionsExist ==
    i <= NumRequest =>
        LET pool == IF sequence[i] = "Insertion" THEN available_pool_temp ELSE rules_in_use_temp
        IN  sequence[i] # "ClassifyPacket" =>
                /\ phase = "trace" => pool # <<>>
                /\ phase = "perform" => trace[i] \in DOMAIN pool

\* The adjustment keeps as many insertions and deletions as were asked for, and
\* the size it computes is that of the rules in use after the last request:
\* the second loop, which tests that stale size, skips nothing.  No request
\* lacks its position.
NothingIsSkipped ==
    /\ phase # "adjust" =>
        /\ sequence \in GenerateRequests
        /\ current_size = Len(rules_in_use)
        /\ ~TooMany /\ ~TooFew
    /\ PositionsExist

\* The calls that the simulator makes are legal ones: no rule is inserted twice
\* and no position beyond the end is deleted.
UsesTheInterface == Classifier!Spec

==============================================================================
