------------------------- MODULE ValidatorConsensus -------------------------
(***************************************************************************)
(* The consensus module that a node runs, pkg/validator/consensus.go, on   *)
(* every node of the network at once.                                      *)
(*                                                                         *)
(* Each node runs an election goroutine, a listener that deduplicates the  *)
(* packets of the pubsub topic and puts them into a bounded channel, one   *)
(* processor that takes them out and handles them, and one proposing       *)
(* goroutine for every election it has won.  The processor is the only     *)
(* goroutine that touches the maps approvals and finalized, and it touches *)
(* nothing else that another goroutine of the node writes except           *)
(* currentLeader, which each handler reads once.  A handler is therefore   *)
(* one action: any step of another goroutine that falls inside it can be   *)
(* moved before or after it.                                               *)
(*                                                                         *)
(* Topic.Publish hands a packet to every subscriber, the publisher too.    *)
(* `net' is the set of all packets ever published, and a listener may take *)
(* any of them at any time: packets are lost (never taken), reordered and  *)
(* delivered again.  Every packet is signed by the node that builds it and *)
(* all nodes follow the code, so a signature verifies whenever the signer  *)
(* is in the receiver's ValidatorSet.                                      *)
(***************************************************************************)
EXTENDS ConsensusState, Sequences

CONSTANTS
    Nodes,           \* the nodes, named by their peer IDs
    Members,         \* for each node, the keys of its ValidatorSet
    QuorumThreshold, \* ValidatorSet.quorumThreshold; 0 is not configured
    ChanCap,         \* capacity of messageChan (1000 in the code)
    NoOne,           \* the empty peer ID
    Contenders,      \* the nodes that may have the highest utility score
    Outcomes,        \* outcomes of a publish or a store write to consider
    MaxProposers,    \* bound: proposing goroutines of a node that are counted
    MaxStarts        \* bound: how often a node is started

ASSUME NodesAssumption == NoOne \notin Nodes
\* NewValidator refuses a node that is not in its own ValidatorSet.
ASSUME MembersAssumption ==
    /\ Members \in [Nodes -> SUBSET Nodes]
    /\ \A n \in Nodes : n \in Members[n] /\ IsFiniteSet(Members[n])
ASSUME BoundsAssumption ==
    /\ QuorumThreshold \in Nat
    /\ ChanCap \in Nat
    /\ MaxProposers \in Nat
    /\ MaxStarts \in Nat
    /\ Outcomes \subseteq BOOLEAN
    /\ Contenders \subseteq Nodes

VARIABLES
    net,        \* packets published on the topic
    up,         \* is the module running on this node
    starts,     \* how often NewConsensus and Start ran on this node
    leader,     \* Consensus.currentLeader, which follows ValidatorSet.leaderID
    proposers,  \* live proposeBlocks goroutines
    unrecorded, \* blocks broadcast by ProposeBlock and not yet in the state
    processed,  \* keys of processedMsgs
    chan,       \* messageChan
    st          \* consensus.State

vars == <<net, up, starts, leader, proposers, unrecorded, processed, chan, st>>

-----------------------------------------------------------------------------
(* Packets *)

Packets ==
    [type : {"proposal"}, proposer : Nodes, validator : {NoOne}, block : Blocks]
    \cup
    [type : {"approval", "finalization"}, proposer : {NoOne}, validator : Nodes,
     block : Blocks]

ProposalPacket(n, h) ==
    [type |-> "proposal", proposer |-> n, validator |-> NoOne, block |-> h]

ApprovalPacket(n, h) ==
    [type |-> "approval", proposer |-> NoOne, validator |-> n, block |-> h]

FinalizationPacket(n, h) ==
    [type |-> "finalization", proposer |-> NoOne, validator |-> n, block |-> h]

\* Mutant: duplicates are recognised by the block hash alone.
MsgIDByBlock(p) == <<NoOne, p.block>>

\* The identity under which listenToNetwork drops duplicates: the validator
\* and the block hash, whatever the type of the packet.
MsgID(p) == <<p.validator, p.block>>

SignerID(p) == IF p.type = "proposal" THEN p.proposer ELSE p.validator

VerifySignature(n, p) == SignerID(p) \in Members[n]

NodeQuorum(n) == QuorumSize(Members[n], QuorumThreshold)

-----------------------------------------------------------------------------
(* Lifecycle *)

Init ==
    /\ net = {}
    /\ up = [n \in Nodes |-> TRUE]
    /\ starts = [n \in Nodes |-> 1]
    /\ leader = [n \in Nodes |-> NoOne]
    /\ proposers = [n \in Nodes |-> 0]
    /\ unrecorded = [n \in Nodes |-> {}]
    /\ processed = [n \in Nodes |-> {}]
    /\ chan = [n \in Nodes |-> <<>>]
    /\ st = [n \in Nodes |-> NewState(EmptyDisk)]

\* Shutdown, or a crash: no goroutine of the node runs any more.
Shutdown(n) ==
    /\ up[n]
    /\ starts[n] < MaxStarts
    /\ up' = [up EXCEPT ![n] = FALSE]
    /\ UNCHANGED <<net, starts, leader, proposers, unrecorded, processed, chan, st>>

\* NewConsensus and Start of a new process on the old store.
Start(n) ==
    /\ ~up[n]
    /\ starts[n] < MaxStarts
    /\ up' = [up EXCEPT ![n] = TRUE]
    /\ starts' = [starts EXCEPT ![n] = @ + 1]
    /\ leader' = [leader EXCEPT ![n] = NoOne]
    /\ proposers' = [proposers EXCEPT ![n] = 0]
    /\ unrecorded' = [unrecorded EXCEPT ![n] = {}]
    /\ processed' = [processed EXCEPT ![n] = {}]
    /\ chan' = [chan EXCEPT ![n] = <<>>]
    /\ st' = [st EXCEPT ![n] = NewState(st[n].disk)]
    /\ UNCHANGED net

-----------------------------------------------------------------------------
(* Election and proposals *)

\* A tick of leaderElectionRoutine that finds a leader.  Every tick on which
\* the node itself is the leader starts one more proposing goroutine.
ElectLeaderTick(n) ==
    /\ up[n]
    /\ \E l \in ElectLeader(Members[n] \cap Contenders, leader[n]) :
        /\ HasCurrentLeader(Members[n], l)
        /\ leader' = [leader EXCEPT ![n] = l]
        /\ proposers' = IF l = n /\ proposers[n] < MaxProposers
                        THEN [proposers EXCEPT ![n] = @ + 1]
                        ELSE proposers
    /\ UNCHANGED <<net, up, starts, unrecorded, processed, chan, st>>

\* Mutant: the proposer approves its own block before it publishes it.
ApproveThenPropose(n) ==
    /\ up[n]
    /\ proposers[n] > 0
    /\ \E h \in Blocks :
        /\ \A p \in net : p.type = "proposal" => p.block # h
        /\ IF ApprovalPacket(n, h) \in net
           THEN /\ net' = net \cup {ProposalPacket(n, h)}
                /\ unrecorded' = [unrecorded EXCEPT ![n] = @ \cup {h}]
           ELSE /\ net' = net \cup {ApprovalPacket(n, h)}
                /\ UNCHANGED unrecorded
    /\ UNCHANGED <<up, starts, leader, proposers, processed, chan, st>>

\* Mutant: the packet has the type of a finalization.
ProposeAsFinal(n) ==
    /\ up[n]
    /\ proposers[n] > 0
    /\ \E h \in Blocks :
        /\ \A p \in net : p.type = "proposal" => p.block # h
        /\ net' = net \cup {FinalizationPacket(n, h)}
        /\ unrecorded' = [unrecorded EXCEPT ![n] = @ \cup {h}]
    /\ UNCHANGED <<up, starts, leader, proposers, processed, chan, st>>

\* A tick of proposeBlocks: the block data holds the time and the proposer,
\* so its hash is new.  ProposeBlock first broadcasts.
ProposeBlock(n) ==
    /\ up[n]
    /\ proposers[n] > 0
    /\ \E h \in Blocks :
        /\ \A p \in net : p.type = "proposal" => p.block # h
        /\ net' = net \cup {ProposalPacket(n, h)}
        /\ unrecorded' = [unrecorded EXCEPT ![n] = @ \cup {h}]
    /\ UNCHANGED <<up, starts, leader, proposers, processed, chan, st>>

\* ... and then adds the proposal to its own state.
RecordProposal(n) ==
    /\ up[n]
    /\ \E h \in unrecorded[n], ok \in Outcomes :
        /\ unrecorded' = [unrecorded EXCEPT ![n] = @ \ {h}]
        /\ st' = [st EXCEPT ![n] = AddProposal(@, h, ok)]
    /\ UNCHANGED <<net, up, starts, leader, proposers, processed, chan>>

-----------------------------------------------------------------------------
(* The listener *)

\* Mutant: the listener does not wait for room in the channel.
ListenUnbounded(n, p) ==
    /\ up[n]
    /\ p \in net
    /\ VerifySignature(n, p)
    /\ MsgID(p) \notin processed[n]
    /\ processed' = [processed EXCEPT ![n] = @ \cup {MsgID(p)}]
    /\ chan' = [chan EXCEPT ![n] = Append(@, p)]
    /\ UNCHANGED <<net, up, starts, leader, proposers, unrecorded, st>>

\* One packet with a valid signature that is not a duplicate enters the
\* channel; a packet that is dropped changes nothing.  The packet is marked
\* as processed before it is handled, and the listener waits while the
\* channel is full.
ListenToNetwork(n, p) ==
    /\ up[n]
    /\ p \in net
    /\ VerifySignature(n, p)
    /\ MsgID(p) \notin processed[n]
    /\ Len(chan[n]) < ChanCap
    /\ processed' = [processed EXCEPT ![n] = @ \cup {MsgID(p)}]
    /\ chan' = [chan EXCEPT ![n] = Append(@, p)]
    /\ UNCHANGED <<net, up, starts, leader, proposers, unrecorded, st>>

-----------------------------------------------------------------------------
(* The processor *)

\* The processor takes the packet at the head of the channel.
Takes(n, type) ==
    /\ up[n]
    /\ chan[n] # <<>>
    /\ Head(chan[n]).type = type
    /\ chan' = [chan EXCEPT ![n] = Tail(@)]

\* Mutant: the approval is recorded before it is published.
RecordThenPublish(n) ==
    /\ Takes(n, "proposal")
    /\ LET p == Head(chan[n])
           h == p.block
       IN \/ p.proposer # leader[n] /\ UNCHANGED <<net, st>>
          \/ /\ p.proposer = leader[n]
             /\ \E stored, published, recorded \in Outcomes :
                LET s == AddProposal(st[n], h, stored)
                IN /\ st' = [st EXCEPT ![n] = IF stored THEN AddApproval(s, n, h, recorded)
                                                      ELSE s]
                   /\ net' = IF stored /\ recorded /\ published
                             THEN net \cup {ApprovalPacket(n, h)}
                             ELSE net
    /\ UNCHANGED <<up, starts, leader, proposers, unrecorded, processed>>

\* Accept a proposal of the current leader only; store it, and if that
\* succeeds publish an approval and then record it (ApproveProposal).
HandleProposal(n) ==
    /\ Takes(n, "proposal")
    /\ LET p == Head(chan[n])
           h == p.block
       IN \/ p.proposer # leader[n] /\ UNCHANGED <<net, st>>
          \/ /\ p.proposer = leader[n]
             /\ \E stored, published, recorded \in Outcomes :
                LET s == AddProposal(st[n], h, stored)
                    approves == stored /\ n \in Members[n] /\ published
                IN IF approves
                   THEN /\ net' = net \cup {ApprovalPacket(n, h)}
                        /\ st' = [st EXCEPT ![n] = AddApproval(s, n, h, recorded)]
                   ELSE /\ st' = [st EXCEPT ![n] = s]
                        /\ UNCHANGED net
    /\ UNCHANGED <<up, starts, leader, proposers, unrecorded, processed>>

\* Mutant: the leader finalizes on the first approval.
FinalizesOnFirst(n, s, h) == n = leader[n] /\ ~IsFinalized(s, h)

\* Would the leader n finalize h once its state is s?
FinalizesOn(n, s, h) ==
    /\ n = leader[n]
    /\ HasReachedQuorum(s, h, NodeQuorum(n))
    /\ ~IsFinalized(s, h)

\* Record the approval; the leader checks for a quorum and, when there is
\* one, publishes the finalization and then records it (FinalizeBlock).
HandleApproval(n) ==
    /\ Takes(n, "approval")
    /\ LET v == Head(chan[n]).validator
           h == Head(chan[n]).block
       IN \E stored, published, recorded \in Outcomes :
            LET s == AddApproval(st[n], v, h, stored)
                finalizes == /\ ~AddApprovalFails(st[n], v, h, stored)
                             /\ FinalizesOn(n, s, h)
                             /\ published
            IN IF finalizes
               THEN /\ net' = net \cup {FinalizationPacket(n, h)}
                    /\ st' = [st EXCEPT ![n] = FinalizeState(s, h, recorded)]
               ELSE /\ st' = [st EXCEPT ![n] = s]
                    /\ UNCHANGED net
    /\ UNCHANGED <<up, starts, leader, proposers, unrecorded, processed>>

\* Any finalization of a known validator is taken over as it is.
HandleFinalization(n) ==
    /\ Takes(n, "finalization")
    /\ \E recorded \in Outcomes :
         st' = [st EXCEPT ![n] = FinalizeState(@, Head(chan[n]).block, recorded)]
    /\ UNCHANGED <<net, up, starts, leader, proposers, unrecorded, processed>>

ProcessMessages(n) ==
    HandleProposal(n) \/ HandleApproval(n) \/ HandleFinalization(n)

-----------------------------------------------------------------------------

Next ==
    \E n \in Nodes :
        \/ Shutdown(n)
        \/ Start(n)
        \/ ElectLeaderTick(n)
        \/ ProposeBlock(n)
        \/ RecordProposal(n)
        \/ \E p \in net : ListenToNetwork(n, p)
        \/ ProcessMessages(n)

Spec == Init /\ [][Next]_vars

\* Every packet reaches every running node in the end, a processor does not
\* sleep while its channel holds a packet, and ProposeBlock runs to its end.
\* Nothing obliges the tickers or the supervisor to act.
Fairness ==
    \A n \in Nodes :
        /\ \A p \in Packets : WF_vars(ListenToNetwork(n, p))
        /\ WF_vars(ProcessMessages(n))
        /\ WF_vars(RecordProposal(n))

LiveSpec == Spec /\ Fairness

-----------------------------------------------------------------------------
(* Properties *)

\* Every variable keeps its type, and the channel its capacity.
TypeOK ==
    /\ net \subseteq Packets
    /\ up \in [Nodes -> BOOLEAN]
    /\ starts \in [Nodes -> Nat]
    /\ leader \in [Nodes -> Nodes \cup {NoOne}]
    /\ proposers \in [Nodes -> Nat]
    /\ unrecorded \in [Nodes -> SUBSET Blocks]
    /\ processed \in [Nodes -> SUBSET ((Nodes \cup {NoOne}) \X Blocks)]
    /\ chan \in [Nodes -> Seq(Packets)]
    /\ \A n \in Nodes : Len(chan[n]) <= ChanCap
    /\ st \in [Nodes -> States(Nodes)]

Proposed == {h \in Blocks : \E n \in Nodes : ProposalPacket(n, h) \in net}

Approvers(h) == {v \in Nodes : ApprovalPacket(v, h) \in net}

\* The quorums of the network: enough members of one node's ValidatorSet.
Quorums ==
    {Q \in SUBSET Nodes :
        \E n \in Nodes : Q \subseteq Members[n] /\ Cardinality(Q) >= NodeQuorum(n)}

\* A block that any node regards as final, because it counted approvals or
\* because it was told so by an unchecked finalization packet, was approved
\* by a whole quorum, and each of these approvals was really published
\* (handleApproval, handleFinalization, HasReachedQuorum).
FinalizedHasQuorum ==
    \A n \in Nodes : \A h \in st[n].finalized :
        \E Q \in Quorums : Q \subseteq Approvers(h)

\* Nothing is final that no leader candidate ever proposed, although neither
\* handleApproval nor handleFinalization looks for the proposal.
FinalizedWasProposed ==
    \A n \in Nodes : st[n].finalized \subseteq Proposed

\* The inductive strengthening: a channel holds published packets of members,
\* a recorded approval was published, an approved block was proposed, a
\* finalization packet and a finalized block are backed by a quorum.
ApprovalsPublished ==
    \A n \in Nodes, h \in Blocks :
        st[n].approvals[h] \subseteq Approvers(h) \cap Members[n]

ApprovedWasProposed ==
    \A h \in Blocks : Approvers(h) # {} => h \in Proposed

ChannelFromNet ==
    \A n \in Nodes : \A i \in 1 .. Len(chan[n]) :
        chan[n][i] \in net /\ VerifySignature(n, chan[n][i])

FinalizationHasQuorum ==
    \A n \in Nodes, h \in Blocks :
        FinalizationPacket(n, h) \in net =>
            \E Q \in Quorums : Q \subseteq Approvers(h)

\* Together they are what every handler preserves.
IInv ==
    /\ TypeOK
    /\ ChannelFromNet
    /\ ApprovalsPublished
    /\ ApprovedWasProposed
    /\ FinalizationHasQuorum
    /\ FinalizedHasQuorum

\* The packet exchange implements the abstract vote: every step of every
\* goroutine, dropped, repeated and late packets and restarts included, is a
\* proposal, a vote, a finalization backed by a quorum, the loss of all
\* finalizations of a node that restarts, or nothing.
Finality ==
    INSTANCE QuorumFinality
        WITH Voters <- Nodes, proposed <- Proposed,
             voted <- [h \in Blocks |-> Approvers(h)],
             final <- [n \in Nodes |-> st[n].finalized]

ImplementsQuorumFinality == Finality!Spec

\* A leader whose followers agree on it from the moment it publishes a
\* proposal finalizes that proposal in the end: the approvals, its own among
\* them, come back through deduplication and the bounded channel, and the
\* last one to arrive finds the quorum (listenToNetwork, handleApproval).
LeaderFinalizes ==
    \A l \in Nodes, h \in Blocks :
        []( ProposalPacket(l, h) \in net =>
                \A n \in Members[l] : leader[n] = l /\ up[n] )
        => (ProposalPacket(l, h) \in net ~> h \in st[l].finalized)

\* CONSENSUS.md: "The finalized block is broadcast to all validators, who
\* update their local state."  (listenToNetwork drops the packet.)
FollowersFinalize ==
    \A l \in Nodes, h \in Blocks :
        FinalizationPacket(l, h) \in net ~>
            \A n \in Members[l] : h \in st[n].finalized

=============================================================================
