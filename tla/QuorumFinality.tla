--------------------------- MODULE QuorumFinality ---------------------------
(***************************************************************************)
(* What the SHPoNU consensus promises, independently of packets, channels, *)
(* goroutines and storage: a block may be voted for once it is proposed,   *)
(* and a node may take it as final once some quorum has voted for it.      *)
(*                                                                         *)
(* It is the common abstraction of the two implementations of the          *)
(* repository, pkg/validator/consensus.go (ValidatorConsensus) and         *)
(* pkg/consensus/protocol.go (Protocol).                                   *)
(***************************************************************************)
CONSTANTS
    Nodes,      \* the nodes that keep a record of the final blocks
    Voters,     \* the validators whose approvals count
    Blocks,     \* block hashes
    Quorums     \* the sets of voters that suffice, none of them empty

VARIABLES
    proposed,   \* blocks proposed so far
    voted,      \* for each block, the validators that have approved it
    final       \* for each node, the blocks it regards as final

vars == <<proposed, voted, final>>

TypeOK ==
    /\ proposed \subseteq Blocks
    /\ voted \in [Blocks -> SUBSET Voters]
    /\ final \in [Nodes -> SUBSET Blocks]

Init ==
    /\ proposed = {}
    /\ voted = [h \in Blocks |-> {}]
    /\ final = [n \in Nodes |-> {}]

Propose(h) ==
    /\ proposed' = proposed \cup {h}
    /\ UNCHANGED <<voted, final>>

Vote(v, h) ==
    /\ h \in proposed
    /\ voted' = [voted EXCEPT ![h] = @ \cup {v}]
    /\ UNCHANGED <<proposed, final>>

Finalize(n, h) ==
    /\ \E Q \in Quorums : Q \subseteq voted[h]
    /\ final' = [final EXCEPT ![n] = @ \cup {h}]
    /\ UNCHANGED <<proposed, voted>>

Agree ==
    \/ \E h \in Blocks : Propose(h)
    \/ \E v \in Voters, h \in Blocks : Vote(v, h)
    \/ \E n \in Nodes, h \in Blocks : Finalize(n, h)

\* What is final for a node remains so, as CONSENSUS.md promises it, of restarts
\* too: the finalized blocks are stored for recovery.
LastingSpec == Init /\ [][Agree]_vars

\* The code reads none of them back: a node that restarts has lost its record of
\* the final blocks.
Forget(n) ==
    /\ final' = [final EXCEPT ![n] = {}]
    /\ UNCHANGED <<proposed, voted>>

Next == Agree \/ \E n \in Nodes : Forget(n)

Spec == Init /\ [][Next]_vars

=============================================================================
