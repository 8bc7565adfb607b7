------------------------------- MODULE HashMap -------------------------------
(***************************************************************************)
(* What a hash map promises its client (src/OVS/cmap.h): the nodes with a  *)
(* given hash can be enumerated, and nothing but an insertion or a removal *)
(* changes them.  This is all that a tuple of the tuple space search       *)
(* relies on, see Chain in TupleSpaceSearch.                               *)
(***************************************************************************)
CONSTANTS
    Node,
    Hash,         \* the hashes computed by the client
    HashOf        \* HashOf[node]

VARIABLE chains   \* chains[h]: the nodes with hash h

Init == chains = [h \in Hash |-> {}]

Insert(node) == /\ node \notin chains[HashOf[node]]
                /\ chains' = [chains EXCEPT ![HashOf[node]] = @ \cup {node}]

Remove(node) == /\ node \in chains[HashOf[node]]
                /\ chains' = [chains EXCEPT ![HashOf[node]] = @ \ {node}]

Next == \E node \in Node : Insert(node) \/ Remove(node)

Spec == Init /\ [][Next]_chains
==============================================================================
