-------------------------------- MODULE Rules --------------------------------
(***************************************************************************)
(* Packet-classification rules and packets (src/ElementaryClasses.h).      *)
(*                                                                         *)
(* A rule is a box: one closed interval of points per field, together      *)
(* with a priority.  A packet is one point per field.  Every classifier of *)
(* the repository must answer a packet with the highest priority among the *)
(* rules that match it, and with -1 when none does.                        *)
(***************************************************************************)
EXTENDS Integers, FiniteSetsExt

CONSTANTS
    Rule,        \* the rules of the rule set, each with its own identity
    Dim,         \* number of fields of a rule and of a packet
    range,       \* range[r][f] = <<low, high>>: the interval of rule r in field f
    priority,    \* priority[r]: the larger, the more important
    Packet       \* the packets that may arrive

Field == 1 .. Dim
NoMatch == -1

ASSUME RulesAssumption ==
    /\ IsFiniteSet(Rule)
    /\ Dim \in Nat \ {0}
    /\ range \in [Rule -> [Field -> Nat \X Nat]]
    /\ priority \in [Rule -> Nat]
    /\ Packet \subseteq [Field -> Nat]

Low(r, f) == range[r][f][1]
High(r, f) == range[r][f][2]

\* Rule::MatchesPacket: both bounds of an interval belong to it.
MatchesPacket(r, p) == \A f \in Field : Low(r, f) <= p[f] /\ p[f] <= High(r, f)

Matching(S, p) == {r \in S : MatchesPacket(r, p)}

\* v is the answer to packet p when exactly the rules of S are installed.
IsBestPriority(v, S, p) ==
    \/ v = NoMatch /\ Matching(S, p) = {}
    \/ \E r \in Matching(S, p) :
          /\ v = priority[r]
          /\ \A s \in Matching(S, p) : priority[s] <= v

\* The same answer as a value: the running maximum of BruteForce's loop.
BestPriority(S, p) == Max({NoMatch} \cup {priority[r] : r \in Matching(S, p)})
==============================================================================
