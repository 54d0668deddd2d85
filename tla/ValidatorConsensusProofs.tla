---------------------- MODULE ValidatorConsensusProofs ----------------------
(***************************************************************************)
(* Proofs about ValidatorConsensus, for any set of nodes, any validator    *)
(* sets and thresholds, any channel capacity and any bounds.               *)
(***************************************************************************)
EXTENDS ValidatorConsensus, FiniteSetTheorems, TLAPS

-----------------------------------------------------------------------------
(* What the operations of consensus.State do to its fields. *)

LEMMA NewStateFields ==
    ASSUME NEW V, NEW disk \in [Blocks -> Stored]
    PROVE  /\ NewState(disk) \in States(V)
           /\ NewState(disk).approvals = [h \in Blocks |-> {}]
           /\ NewState(disk).finalized = {}
    BY DEF NewState, States

LEMMA AddProposalFields ==
    ASSUME NEW V, NEW s \in States(V), NEW h \in Blocks, NEW ok \in BOOLEAN
    PROVE  /\ AddProposal(s, h, ok) \in States(V)
           /\ AddProposal(s, h, ok).approvals = s.approvals
           /\ AddProposal(s, h, ok).finalized = s.finalized
    BY DEF AddProposal, Persist, States, Stored

\* The approvals b are the approvals a with v added to those of h.
Adds(a, b, v, h) ==
    \A g \in Blocks : b[g] = IF g = h THEN a[g] \cup {v} ELSE a[g]

LEMMA AddApprovalFields ==
    ASSUME NEW V, NEW s \in States(V), NEW v \in V, NEW h \in Blocks,
           NEW ok \in BOOLEAN
    PROVE  /\ AddApproval(s, v, h, ok) \in States(V)
           /\ Adds(s.approvals, AddApproval(s, v, h, ok).approvals, v, h)
           /\ AddApproval(s, v, h, ok).finalized = s.finalized
    <1>1. CASE v \in s.approvals[h]
        BY <1>1 DEF AddApproval, States, Adds
    <1>2. CASE v \notin s.approvals[h]
        <2> DEFINE a == [s.approvals EXCEPT ![h] = @ \cup {v}]
                   d == Persist(s.disk, h, "signature", ok)
        <2>1. AddApproval(s, v, h, ok) = [s EXCEPT !.approvals = a, !.disk = d]
            BY <1>2 DEF AddApproval
        <2>2. a \in [Blocks -> SUBSET V] /\ d \in [Blocks -> Stored]
            BY DEF States, Persist, Stored
        <2> HIDE DEF a, d
        <2>3. /\ AddApproval(s, v, h, ok) \in States(V)
              /\ AddApproval(s, v, h, ok).approvals = a
              /\ AddApproval(s, v, h, ok).finalized = s.finalized
            BY <2>1, <2>2 DEF States
        <2>4. Adds(s.approvals, a, v, h)
            BY DEF a, States, Adds
        <2>5. QED BY <2>3, <2>4
    <1>3. QED BY <1>1, <1>2

LEMMA FinalizeStateFields ==
    ASSUME NEW V, NEW s \in States(V), NEW h \in Blocks, NEW ok \in BOOLEAN
    PROVE  /\ FinalizeState(s, h, ok) \in States(V)
           /\ FinalizeState(s, h, ok).approvals = s.approvals
           /\ FinalizeState(s, h, ok).finalized = s.finalized \cup {h}
    BY DEF FinalizeState, Persist, States, Stored

-----------------------------------------------------------------------------
(* Type correctness *)

LEMMA PacketTyping ==
    ASSUME NEW n \in Nodes, NEW h \in Blocks
    PROVE  /\ ProposalPacket(n, h) \in Packets
           /\ ApprovalPacket(n, h) \in Packets
           /\ FinalizationPacket(n, h) \in Packets
    BY DEF ProposalPacket, ApprovalPacket, FinalizationPacket, Packets

\* Taking a packet off the channel leaves the channel well-typed.
LEMMA TakesTyping ==
    ASSUME TypeOK, NEW n \in Nodes, NEW type, Takes(n, type)
    PROVE  /\ Head(chan[n]) \in Packets
           /\ Head(chan[n]) = chan[n][1]
           /\ Head(chan[n]).type = type
           /\ 1 \in 1 .. Len(chan[n])
           /\ chan' \in [Nodes -> Seq(Packets)]
           /\ \A m \in Nodes : Len(chan'[m]) <= ChanCap
           /\ \A m \in Nodes : \A i \in 1 .. Len(chan'[m]) :
                \E j \in 1 .. Len(chan[m]) : chan'[m][i] = chan[m][j]
    <1>1. chan[n] \in Seq(Packets) /\ chan[n] # <<>> /\ Len(chan[n]) \in Nat
        BY DEF TypeOK, Takes
    <1>2. /\ Head(chan[n]) \in Packets
          /\ Head(chan[n]) = chan[n][1]
          /\ 1 \in 1 .. Len(chan[n])
        BY <1>1
    <1>3. /\ Tail(chan[n]) \in Seq(Packets)
          /\ Len(Tail(chan[n])) = Len(chan[n]) - 1
          /\ \A i \in 1 .. Len(Tail(chan[n])) :
                i + 1 \in 1 .. Len(chan[n]) /\ Tail(chan[n])[i] = chan[n][i + 1]
        BY <1>1
    <1>4. chan' = [chan EXCEPT ![n] = Tail(chan[n])]
        BY DEF Takes
    <1>5. chan' \in [Nodes -> Seq(Packets)]
        BY <1>3, <1>4 DEF TypeOK
    <1>6. ASSUME NEW m \in Nodes
          PROVE  /\ Len(chan'[m]) <= ChanCap
                 /\ \A i \in 1 .. Len(chan'[m]) :
                        \E j \in 1 .. Len(chan[m]) : chan'[m][i] = chan[m][j]
        <2>1. CASE m = n
            BY <1>1, <1>3, <1>4, <2>1, BoundsAssumption DEF TypeOK
        <2>2. CASE m # n
            BY <1>4, <2>2 DEF TypeOK
        <2>3. QED BY <2>1, <2>2
    <1>7. QED BY <1>2, <1>5, <1>6 DEF Takes

LEMMA TypeOKInit == Init => TypeOK
    <1> SUFFICES ASSUME Init PROVE TypeOK
        OBVIOUS
    <1>1. EmptyDisk \in [Blocks -> Stored]
        BY DEF EmptyDisk, Stored
    <1>2. NewState(EmptyDisk) \in States(Nodes)
        BY <1>1, NewStateFields
    <1>3. chan \in [Nodes -> Seq(Packets)] /\ \A n \in Nodes : Len(chan[n]) <= ChanCap
        BY BoundsAssumption DEF Init
    <1>4. QED BY <1>2, <1>3 DEF Init, TypeOK

LEMMA TypeOKNext == TypeOK /\ [Next]_vars => TypeOK'
    <1> SUFFICES ASSUME TypeOK, [Next]_vars PROVE TypeOK'
        OBVIOUS
    <1> USE BoundsAssumption
    <1>1. ASSUME NEW n \in Nodes, Shutdown(n) PROVE TypeOK'
        BY <1>1 DEF Shutdown, TypeOK
    <1>2. ASSUME NEW n \in Nodes, Start(n) PROVE TypeOK'
        <2>1. NewState(st[n].disk) \in States(Nodes)
            <3>1. st[n].disk \in [Blocks -> Stored]
                BY DEF TypeOK, States
            <3>2. QED BY <3>1, NewStateFields
        <2>2. st' \in [Nodes -> States(Nodes)]
            BY <1>2, <2>1 DEF Start, TypeOK
        <2>3. chan' \in [Nodes -> Seq(Packets)] /\ \A m \in Nodes : Len(chan'[m]) <= ChanCap
            BY <1>2 DEF Start, TypeOK
        <2>4. QED BY <1>2, <2>2, <2>3 DEF Start, TypeOK
    <1>3. ASSUME NEW n \in Nodes, ElectLeaderTick(n) PROVE TypeOK'
        <2>1. PICK l : l \in Members[n] /\ leader' = [leader EXCEPT ![n] = l]
            BY <1>3 DEF ElectLeaderTick, HasCurrentLeader
        <2>2. leader' \in [Nodes -> Nodes \cup {NoOne}]
            BY <2>1, MembersAssumption DEF TypeOK
        <2>3. \/ proposers' = proposers
              \/ proposers' = [proposers EXCEPT ![n] = proposers[n] + 1]
            BY <1>3 DEF ElectLeaderTick
        <2>4. proposers[n] + 1 \in Nat /\ proposers \in [Nodes -> Nat]
            BY DEF TypeOK
        <2>5. proposers' \in [Nodes -> Nat]
            BY <2>3, <2>4
        <2>6. QED BY <1>3, <2>2, <2>5 DEF ElectLeaderTick, TypeOK
    <1>4. ASSUME NEW n \in Nodes, ProposeBlock(n) PROVE TypeOK'
        BY <1>4, PacketTyping DEF ProposeBlock, TypeOK
    <1>5. ASSUME NEW n \in Nodes, RecordProposal(n) PROVE TypeOK'
        <2>1. PICK h \in unrecorded[n], ok \in Outcomes :
                 /\ unrecorded' = [unrecorded EXCEPT ![n] = @ \ {h}]
                 /\ st' = [st EXCEPT ![n] = AddProposal(@, h, ok)]
            BY <1>5 DEF RecordProposal
        <2>2. AddProposal(st[n], h, ok) \in States(Nodes)
            BY AddProposalFields DEF TypeOK
        <2>3. QED BY <1>5, <2>1, <2>2 DEF RecordProposal, TypeOK
    <1>6. ASSUME NEW n \in Nodes, NEW p \in net, ListenToNetwork(n, p) PROVE TypeOK'
        <2>1. p \in Packets
            BY DEF TypeOK
        <2>2. MsgID(p) \in (Nodes \cup {NoOne}) \X Blocks
            BY <2>1 DEF MsgID, Packets
        <2>3. processed' \in [Nodes -> SUBSET ((Nodes \cup {NoOne}) \X Blocks)]
            BY <1>6, <2>2 DEF ListenToNetwork, TypeOK
        <2>4. chan' \in [Nodes -> Seq(Packets)] /\ \A m \in Nodes : Len(chan'[m]) <= ChanCap
            BY <1>6, <2>1 DEF ListenToNetwork, TypeOK
        <2>5. QED BY <1>6, <2>3, <2>4 DEF ListenToNetwork, TypeOK
    <1>7. ASSUME NEW n \in Nodes, HandleProposal(n) PROVE TypeOK'
        <2>1. Takes(n, "proposal")
            BY <1>7 DEF HandleProposal
        <2>2. Head(chan[n]).block \in Blocks
            BY <2>1, TakesTyping DEF Packets
        <2>3. net' \subseteq Packets /\ st' \in [Nodes -> States(Nodes)]
            <3> DEFINE h == Head(chan[n]).block
            <3>1. CASE UNCHANGED <<net, st>>
                BY <3>1 DEF TypeOK
            <3>2. ASSUME NEW stored \in Outcomes, NEW recorded \in Outcomes,
                         net' = net \cup {ApprovalPacket(n, h)},
                         st' = [st EXCEPT ![n] =
                                 AddApproval(AddProposal(st[n], h, stored), n, h, recorded)]
                  PROVE  net' \subseteq Packets /\ st' \in [Nodes -> States(Nodes)]
                <4>1. AddProposal(st[n], h, stored) \in States(Nodes)
                    BY <2>2, AddProposalFields DEF TypeOK
                <4>2. AddApproval(AddProposal(st[n], h, stored), n, h, recorded)
                        \in States(Nodes)
                    BY <2>2, <4>1, AddApprovalFields
                <4>3. QED BY <2>2, <3>2, <4>2, PacketTyping DEF TypeOK
            <3>3. ASSUME NEW stored \in Outcomes, net' = net,
                         st' = [st EXCEPT ![n] = AddProposal(st[n], h, stored)]
                  PROVE  net' \subseteq Packets /\ st' \in [Nodes -> States(Nodes)]
                BY <2>2, <3>3, AddProposalFields DEF TypeOK
            <3>4. QED BY <1>7, <3>1, <3>2, <3>3 DEF HandleProposal
        <2>4. QED BY <1>7, <2>1, <2>3, TakesTyping DEF HandleProposal, TypeOK
    <1>8. ASSUME NEW n \in Nodes, HandleApproval(n) PROVE TypeOK'
        <2>1. Takes(n, "approval")
            BY <1>8 DEF HandleApproval
        <2>2. Head(chan[n]).block \in Blocks /\ Head(chan[n]).validator \in Nodes
            BY <2>1, TakesTyping DEF Packets
        <2>3. net' \subseteq Packets /\ st' \in [Nodes -> States(Nodes)]
            <3> DEFINE h == Head(chan[n]).block
                       v == Head(chan[n]).validator
            <3>1. PICK stored \in Outcomes, recorded \in Outcomes :
                    LET s == AddApproval(st[n], v, h, stored)
                    IN \/ /\ net' = net \cup {FinalizationPacket(n, h)}
                          /\ st' = [st EXCEPT ![n] = FinalizeState(s, h, recorded)]
                       \/ /\ net' = net
                          /\ st' = [st EXCEPT ![n] = s]
                BY <1>8 DEF HandleApproval
            <3>2. AddApproval(st[n], v, h, stored) \in States(Nodes)
                BY <2>2, AddApprovalFields DEF TypeOK
            <3>3. FinalizeState(AddApproval(st[n], v, h, stored), h, recorded)
                    \in States(Nodes)
                BY <2>2, <3>2, FinalizeStateFields
            <3>4. net' \subseteq Packets
                BY <2>2, <3>1, PacketTyping DEF TypeOK
            <3>5. st \in [Nodes -> States(Nodes)]
                BY DEF TypeOK
            <3>6. QED BY <3>1, <3>2, <3>3, <3>4, <3>5
        <2>4. QED BY <1>8, <2>1, <2>3, TakesTyping DEF HandleApproval, TypeOK
    <1>9. ASSUME NEW n \in Nodes, HandleFinalization(n) PROVE TypeOK'
        <2>1. Takes(n, "finalization")
            BY <1>9 DEF HandleFinalization
        <2>2. Head(chan[n]).block \in Blocks
            BY <2>1, TakesTyping DEF Packets
        <2>3. PICK recorded \in Outcomes :
                 st' = [st EXCEPT ![n] = FinalizeState(@, Head(chan[n]).block, recorded)]
            BY <1>9 DEF HandleFinalization
        <2>4. st' \in [Nodes -> States(Nodes)]
            BY <2>2, <2>3, FinalizeStateFields DEF TypeOK
        <2>5. QED BY <1>9, <2>1, <2>4, TakesTyping DEF HandleFinalization, TypeOK
    <1>10. CASE UNCHANGED vars
        BY <1>10 DEF vars, TypeOK
    <1>11. QED
        BY <1>1, <1>2, <1>3, <1>4, <1>5, <1>6, <1>7, <1>8, <1>9, <1>10
        DEF Next, ProcessMessages

\* Every reachable state of the consensus network is well-typed and no
\* channel exceeds its capacity.
THEOREM TypeCorrect == Spec => []TypeOK
    <1>1. QED BY TypeOKInit, TypeOKNext, PTL DEF Spec

-----------------------------------------------------------------------------
(***************************************************************************)
(* The seven things a step can do to the published packets, the approvals  *)
(* and the finalized blocks.                                               *)
(***************************************************************************)

KeepsApprovals(m) == st'[m].approvals = st[m].approvals
KeepsFinalized(m) == st'[m].finalized = st[m].finalized

Counts(n, v, h) ==
    /\ Adds(st[n].approvals, st'[n].approvals, v, h)
    /\ \A m \in Nodes \ {n} : KeepsApprovals(m)

Learns(n, h) ==
    /\ st'[n].finalized = st[n].finalized \cup {h}
    /\ \A m \in Nodes \ {n} : KeepsFinalized(m)

Quiet ==
    net' = net /\ \A m \in Nodes : KeepsApprovals(m) /\ KeepsFinalized(m)

Proposes(n, h) ==
    /\ net' = net \cup {ProposalPacket(n, h)}
    /\ \A m \in Nodes : KeepsApprovals(m) /\ KeepsFinalized(m)

Approves(n, h) ==
    /\ h \in Proposed
    /\ net' = net \cup {ApprovalPacket(n, h)}
    /\ Counts(n, n, h)
    /\ \A m \in Nodes : KeepsFinalized(m)

CountsApproval(n, v, h) ==
    /\ net' = net
    /\ v \in Approvers(h) \cap Members[n]
    /\ Counts(n, v, h)
    /\ \A m \in Nodes : KeepsFinalized(m)

Finalizes(n, v, h) ==
    /\ net' = net \cup {FinalizationPacket(n, h)}
    /\ v \in Approvers(h) \cap Members[n]
    /\ Counts(n, v, h)
    /\ Cardinality(st'[n].approvals[h]) >= NodeQuorum(n)
    /\ Learns(n, h)

LearnsFrom(n, v, h) ==
    /\ net' = net
    /\ FinalizationPacket(v, h) \in net
    /\ \A m \in Nodes : KeepsApprovals(m)
    /\ Learns(n, h)

Forgets(n) ==
    /\ net' = net
    /\ st'[n].approvals = [h \in Blocks |-> {}]
    /\ st'[n].finalized = {}
    /\ \A m \in Nodes \ {n} : KeepsApprovals(m) /\ KeepsFinalized(m)

LEMMA PacketShape ==
    ASSUME NEW p \in Packets
    PROVE  /\ p.block \in Blocks
           /\ p.type = "proposal" =>
                p.proposer \in Nodes /\ p = ProposalPacket(p.proposer, p.block)
           /\ p.type = "approval" =>
                p.validator \in Nodes /\ p = ApprovalPacket(p.validator, p.block)
           /\ p.type = "finalization" =>
                p.validator \in Nodes /\ p = FinalizationPacket(p.validator, p.block)
    BY DEF Packets, ProposalPacket, ApprovalPacket, FinalizationPacket

LEMMA PacketsDiffer ==
    ASSUME NEW m \in Nodes, NEW n \in Nodes, NEW g \in Blocks, NEW h \in Blocks
    PROVE  /\ ProposalPacket(m, g) # ApprovalPacket(n, h)
           /\ ProposalPacket(m, g) # FinalizationPacket(n, h)
           /\ ApprovalPacket(m, g) # FinalizationPacket(n, h)
           /\ ProposalPacket(m, g) = ProposalPacket(n, h) => m = n /\ g = h
           /\ ApprovalPacket(m, g) = ApprovalPacket(n, h) => m = n /\ g = h
           /\ FinalizationPacket(m, g) = FinalizationPacket(n, h) => m = n /\ g = h
    BY DEF ProposalPacket, ApprovalPacket, FinalizationPacket

LEMMA HandleProposalEffect ==
    ASSUME TypeOK, ChannelFromNet, NEW n \in Nodes, HandleProposal(n)
    PROVE  Quiet \/ \E h \in Blocks : Approves(n, h)
    <1> DEFINE p == Head(chan[n])
               h == p.block
    <1>1. p \in net /\ p \in Packets /\ p.type = "proposal"
        BY TakesTyping DEF HandleProposal, ChannelFromNet
    <1>2. h \in Blocks /\ h \in Proposed
        BY <1>1, PacketShape DEF Proposed
    <1>3. CASE UNCHANGED <<net, st>>
        BY <1>3 DEF Quiet, KeepsApprovals, KeepsFinalized
    <1>4. ASSUME NEW stored \in Outcomes, NEW recorded \in Outcomes,
                 net' = net \cup {ApprovalPacket(n, h)},
                 st' = [st EXCEPT ![n] =
                         AddApproval(AddProposal(st[n], h, stored), n, h, recorded)]
          PROVE  Approves(n, h)
        <2> DEFINE s == AddProposal(st[n], h, stored)
                   t == AddApproval(s, n, h, recorded)
        <2>1. s \in States(Nodes) /\ s.approvals = st[n].approvals
                                  /\ s.finalized = st[n].finalized
            BY <1>2, AddProposalFields, BoundsAssumption DEF TypeOK
        <2>2. Adds(s.approvals, t.approvals, n, h) /\ t.finalized = s.finalized
            BY <1>2, <2>1, AddApprovalFields, BoundsAssumption
        <2> HIDE DEF s, t
        <2>3. st'[n] = t /\ \A m \in Nodes \ {n} : st'[m] = st[m]
            BY <1>4 DEF TypeOK, s, t
        <2>4. QED BY <1>2, <1>4, <2>1, <2>2, <2>3
                  DEF Approves, Counts, KeepsApprovals, KeepsFinalized
    <1>5. ASSUME NEW stored \in Outcomes, net' = net,
                 st' = [st EXCEPT ![n] = AddProposal(st[n], h, stored)]
          PROVE  Quiet
        <2>1. /\ AddProposal(st[n], h, stored).approvals = st[n].approvals
              /\ AddProposal(st[n], h, stored).finalized = st[n].finalized
            BY <1>2, AddProposalFields, BoundsAssumption DEF TypeOK
        <2>2. QED BY <1>5, <2>1 DEF TypeOK, Quiet, KeepsApprovals, KeepsFinalized
    <1>6. QED BY <1>2, <1>3, <1>4, <1>5 DEF HandleProposal

LEMMA HandleApprovalEffect ==
    ASSUME TypeOK, ChannelFromNet, NEW n \in Nodes, HandleApproval(n)
    PROVE  \E v \in Nodes, h \in Blocks : CountsApproval(n, v, h) \/ Finalizes(n, v, h)
    <1> DEFINE p == Head(chan[n])
               h == p.block
               v == p.validator
    <1>1. p \in net /\ p \in Packets /\ p.type = "approval" /\ VerifySignature(n, p)
        BY TakesTyping DEF HandleApproval, ChannelFromNet
    <1>2. h \in Blocks /\ v \in Nodes /\ v \in Approvers(h) \cap Members[n]
        BY <1>1, PacketShape DEF Approvers, VerifySignature, SignerID
    <1>3. PICK stored \in Outcomes, recorded \in Outcomes :
            LET s == AddApproval(st[n], v, h, stored)
            IN \/ /\ HasReachedQuorum(s, h, NodeQuorum(n))
                  /\ net' = net \cup {FinalizationPacket(n, h)}
                  /\ st' = [st EXCEPT ![n] = FinalizeState(s, h, recorded)]
               \/ /\ net' = net
                  /\ st' = [st EXCEPT ![n] = s]
        BY DEF HandleApproval, FinalizesOn
    <1> DEFINE s == AddApproval(st[n], v, h, stored)
               t == FinalizeState(s, h, recorded)
    <1>4. /\ s \in States(Nodes)
          /\ Adds(st[n].approvals, s.approvals, v, h)
          /\ s.finalized = st[n].finalized
        <2>1. st[n] \in States(Nodes) /\ stored \in BOOLEAN
            BY BoundsAssumption DEF TypeOK
        <2> HIDE DEF h, v
        <2>2. QED BY <1>2, <2>1, AddApprovalFields
    <1> HIDE DEF s
    <1>5. t.approvals = s.approvals /\ t.finalized = s.finalized \cup {h}
        <2>1. recorded \in BOOLEAN
            BY BoundsAssumption
        <2> HIDE DEF h
        <2>2. QED BY <1>2, <1>4, <2>1, FinalizeStateFields
    <1> HIDE DEF t
    <1>6. CASE /\ HasReachedQuorum(s, h, NodeQuorum(n))
               /\ net' = net \cup {FinalizationPacket(n, h)}
               /\ st' = [st EXCEPT ![n] = t]
        <2>1. st'[n] = t /\ \A m \in Nodes \ {n} : st'[m] = st[m]
            BY <1>6 DEF TypeOK
        <2>2. Finalizes(n, v, h)
            BY <1>2, <1>4, <1>5, <1>6, <2>1
            DEF Finalizes, Counts, Learns, KeepsApprovals, KeepsFinalized, HasReachedQuorum
        <2>3. QED BY <1>2, <2>2
    <1>7. CASE net' = net /\ st' = [st EXCEPT ![n] = s]
        <2>1. st'[n] = s /\ \A m \in Nodes \ {n} : st'[m] = st[m]
            BY <1>7 DEF TypeOK
        <2>2. CountsApproval(n, v, h)
            BY <1>2, <1>4, <1>7, <2>1
            DEF CountsApproval, Counts, KeepsApprovals, KeepsFinalized
        <2>3. QED BY <1>2, <2>2
    <1>8. QED BY <1>3, <1>6, <1>7 DEF s, t

LEMMA HandleFinalizationEffect ==
    ASSUME TypeOK, ChannelFromNet, NEW n \in Nodes, HandleFinalization(n)
    PROVE  \E v \in Nodes, h \in Blocks : LearnsFrom(n, v, h)
    <1> DEFINE p == Head(chan[n])
               h == p.block
    <1>1. p \in net /\ p \in Packets /\ p.type = "finalization"
        BY TakesTyping DEF HandleFinalization, ChannelFromNet
    <1>2. h \in Blocks /\ p.validator \in Nodes /\ FinalizationPacket(p.validator, h) \in net
        BY <1>1, PacketShape
    <1>3. PICK recorded \in Outcomes :
             st' = [st EXCEPT ![n] = FinalizeState(st[n], h, recorded)]
        BY DEF HandleFinalization
    <1>4. /\ FinalizeState(st[n], h, recorded).approvals = st[n].approvals
          /\ FinalizeState(st[n], h, recorded).finalized = st[n].finalized \cup {h}
        BY <1>2, FinalizeStateFields, BoundsAssumption DEF TypeOK
    <1>5. net' = net
        BY DEF HandleFinalization
    <1>6. LearnsFrom(n, p.validator, h)
        BY <1>2, <1>3, <1>4, <1>5
        DEF LearnsFrom, Learns, KeepsApprovals, KeepsFinalized, TypeOK
    <1>7. QED BY <1>2, <1>6

LEMMA StartEffect ==
    ASSUME TypeOK, NEW n \in Nodes, Start(n)
    PROVE  Forgets(n)
    <1>1. st[n].disk \in [Blocks -> Stored]
        BY DEF TypeOK, States
    <1>2. /\ NewState(st[n].disk).approvals = [h \in Blocks |-> {}]
          /\ NewState(st[n].disk).finalized = {}
        BY <1>1, NewStateFields
    <1>3. st'[n] = NewState(st[n].disk) /\ \A m \in Nodes \ {n} : st'[m] = st[m]
        BY DEF Start, TypeOK
    <1>4. QED BY <1>2, <1>3 DEF Start, Forgets, KeepsApprovals, KeepsFinalized

LEMMA RecordProposalEffect ==
    ASSUME TypeOK, NEW n \in Nodes, RecordProposal(n)
    PROVE  Quiet
    <1>1. PICK h \in unrecorded[n], ok \in Outcomes :
             st' = [st EXCEPT ![n] = AddProposal(st[n], h, ok)]
        BY DEF RecordProposal
    <1>2. h \in Blocks
        BY DEF TypeOK
    <1>3. /\ AddProposal(st[n], h, ok).approvals = st[n].approvals
          /\ AddProposal(st[n], h, ok).finalized = st[n].finalized
        BY <1>2, AddProposalFields, BoundsAssumption DEF TypeOK
    <1>4. QED BY <1>1, <1>3 DEF RecordProposal, TypeOK, Quiet, KeepsApprovals, KeepsFinalized

\* Every step of the specification has one of the seven effects.
Effect ==
    \/ Quiet
    \/ \E n \in Nodes, h \in Blocks : Proposes(n, h)
    \/ \E n \in Nodes, h \in Blocks : Approves(n, h)
    \/ \E n \in Nodes, v \in Nodes, h \in Blocks : CountsApproval(n, v, h)
    \/ \E n \in Nodes, v \in Nodes, h \in Blocks : Finalizes(n, v, h)
    \/ \E n \in Nodes, v \in Nodes, h \in Blocks : LearnsFrom(n, v, h)
    \/ \E n \in Nodes : Forgets(n)

LEMMA StepEffect == TypeOK /\ ChannelFromNet /\ [Next]_vars => Effect
    <1> SUFFICES ASSUME TypeOK, ChannelFromNet, [Next]_vars PROVE Effect
        OBVIOUS
    <1>1. ASSUME UNCHANGED <<net, st>> PROVE Effect
        BY <1>1 DEF Effect, Quiet, KeepsApprovals, KeepsFinalized
    <1>2. ASSUME NEW n \in Nodes, Start(n) PROVE Effect
        BY <1>2, StartEffect DEF Effect
    <1>3. ASSUME NEW n \in Nodes, ProposeBlock(n) PROVE Effect
        <2>1. PICK h \in Blocks : net' = net \cup {ProposalPacket(n, h)}
            BY <1>3 DEF ProposeBlock
        <2>2. Proposes(n, h)
            BY <1>3, <2>1 DEF ProposeBlock, Proposes, KeepsApprovals, KeepsFinalized
        <2>3. QED BY <2>2 DEF Effect
    <1>4. ASSUME NEW n \in Nodes, RecordProposal(n) PROVE Effect
        BY <1>4, RecordProposalEffect DEF Effect
    <1>5. ASSUME NEW n \in Nodes, HandleProposal(n) PROVE Effect
        BY <1>5, HandleProposalEffect DEF Effect
    <1>6. ASSUME NEW n \in Nodes, HandleApproval(n) PROVE Effect
        BY <1>6, HandleApprovalEffect DEF Effect
    <1>7. ASSUME NEW n \in Nodes, HandleFinalization(n) PROVE Effect
        BY <1>7, HandleFinalizationEffect DEF Effect
    <1>8. ASSUME NEW n \in Nodes,
                 \/ Shutdown(n)
                 \/ ElectLeaderTick(n)
                 \/ \E p \in net : ListenToNetwork(n, p)
          PROVE  UNCHANGED <<net, st>>
        BY <1>8 DEF Shutdown, ElectLeaderTick, ListenToNetwork
    <1>9. UNCHANGED vars => UNCHANGED <<net, st>>
        BY DEF vars
    <1>10. QED BY <1>1, <1>2, <1>3, <1>4, <1>5, <1>6, <1>7, <1>8, <1>9
               DEF Next, ProcessMessages

-----------------------------------------------------------------------------
(* How an effect changes the views Proposed and Approvers. *)

LEMMA NetGrows ==
    ASSUME Effect
    PROVE  /\ net \subseteq net'
           /\ Proposed \subseteq Proposed'
           /\ \A h \in Blocks : Approvers(h) \subseteq Approvers(h)'
    BY DEF Effect, Quiet, Proposes, Approves, CountsApproval, Finalizes, LearnsFrom,
           Forgets, Proposed, Approvers

\* The channel of a node only holds published packets of its validators.
LEMMA ChannelNext ==
    TypeOK /\ ChannelFromNet /\ [Next]_vars => ChannelFromNet'
    <1> SUFFICES ASSUME TypeOK, ChannelFromNet, [Next]_vars PROVE ChannelFromNet'
        OBVIOUS
    <1>1. net \subseteq net'
        BY StepEffect, NetGrows
    <1>2. ASSUME \A m \in Nodes : \A i \in 1 .. Len(chan'[m]) :
                    \E j \in 1 .. Len(chan[m]) : chan'[m][i] = chan[m][j]
          PROVE  ChannelFromNet'
        BY <1>1, <1>2 DEF ChannelFromNet, VerifySignature, SignerID
    <1>3. ASSUME UNCHANGED chan PROVE ChannelFromNet'
        BY <1>1, <1>3 DEF ChannelFromNet, VerifySignature, SignerID
    <1>4. ASSUME NEW n \in Nodes, Start(n) PROVE ChannelFromNet'
        <2>1. chan'[n] = <<>> /\ \A m \in Nodes \ {n} : chan'[m] = chan[m]
            BY <1>4 DEF Start, TypeOK
        <2>2. QED BY <1>1, <2>1 DEF ChannelFromNet, VerifySignature, SignerID
    <1>5. ASSUME NEW n \in Nodes, NEW p \in net, ListenToNetwork(n, p)
          PROVE  ChannelFromNet'
        <2>1. /\ chan'[n] = Append(chan[n], p)
              /\ \A m \in Nodes \ {n} : chan'[m] = chan[m]
              /\ VerifySignature(n, p)
            BY <1>5 DEF ListenToNetwork, TypeOK
        <2>2. \A i \in 1 .. Len(chan'[n]) :
                 chan'[n][i] = p \/ \E j \in 1 .. Len(chan[n]) : chan'[n][i] = chan[n][j]
            <3>1. chan[n] \in Seq(Packets) /\ p \in Packets
                BY DEF TypeOK
            <3>2. QED BY <2>1, <3>1
        <2>3. ASSUME NEW m \in Nodes, NEW i \in 1 .. Len(chan'[m])
              PROVE  chan'[m][i] \in net' /\ VerifySignature(m, chan'[m][i])
            <3>1. CASE m = n
                BY <1>1, <2>1, <2>2, <3>1 DEF ChannelFromNet
            <3>2. CASE m # n
                BY <1>1, <2>1, <3>2 DEF ChannelFromNet
            <3>3. QED BY <3>1, <3>2
        <2>4. QED BY <2>3 DEF ChannelFromNet, VerifySignature, SignerID
    <1>6. ASSUME NEW n \in Nodes, NEW type, Takes(n, type) PROVE ChannelFromNet'
        BY <1>2, <1>6, TakesTyping
    <1>7. ASSUME NEW n \in Nodes, ProcessMessages(n) PROVE ChannelFromNet'
        BY <1>6, <1>7 DEF ProcessMessages, HandleProposal, HandleApproval, HandleFinalization
    <1>8. ASSUME NEW n \in Nodes,
                 \/ Shutdown(n)
                 \/ ElectLeaderTick(n)
                 \/ ProposeBlock(n)
                 \/ RecordProposal(n)
          PROVE  UNCHANGED chan
        BY <1>8 DEF Shutdown, ElectLeaderTick, ProposeBlock, RecordProposal
    <1>9. UNCHANGED vars => UNCHANGED chan
        BY DEF vars
    <1>10. QED BY <1>3, <1>4, <1>5, <1>7, <1>8, <1>9 DEF Next

-----------------------------------------------------------------------------
(* Which packets a publication adds to the views. *)

KeepsViews == Proposed' = Proposed /\ \A g \in Blocks : Approvers(g)' = Approvers(g)

LEMMA SameNetViews == ASSUME net' = net PROVE KeepsViews
    BY DEF KeepsViews, Proposed, Approvers

LEMMA ProposesViews ==
    ASSUME NEW n \in Nodes, NEW h \in Blocks, net' = net \cup {ProposalPacket(n, h)}
    PROVE  /\ Proposed' = Proposed \cup {h}
           /\ \A g \in Blocks : Approvers(g)' = Approvers(g)
           /\ \A v \in Nodes, g \in Blocks :
                FinalizationPacket(v, g) \in net' => FinalizationPacket(v, g) \in net
    BY PacketsDiffer DEF Proposed, Approvers

LEMMA ApprovesViews ==
    ASSUME NEW n \in Nodes, NEW h \in Blocks, net' = net \cup {ApprovalPacket(n, h)}
    PROVE  /\ Proposed' = Proposed
           /\ Approvers(h)' = Approvers(h) \cup {n}
           /\ \A g \in Blocks \ {h} : Approvers(g)' = Approvers(g)
           /\ \A v \in Nodes, g \in Blocks :
                FinalizationPacket(v, g) \in net' => FinalizationPacket(v, g) \in net
    BY PacketsDiffer DEF Proposed, Approvers

LEMMA FinalizesViews ==
    ASSUME NEW n \in Nodes, NEW h \in Blocks, net' = net \cup {FinalizationPacket(n, h)}
    PROVE  /\ KeepsViews
           /\ \A v \in Nodes, g \in Blocks : FinalizationPacket(v, g) \in net' =>
                FinalizationPacket(v, g) \in net \/ (v = n /\ g = h)
    BY PacketsDiffer DEF KeepsViews, Proposed, Approvers

-----------------------------------------------------------------------------
(* The inductive invariant *)

\* A quorum approved block h.
Backed(h) == \E Q \in Quorums : Q \subseteq Approvers(h)

LEMMA BackedStays ==
    ASSUME Effect, NEW h \in Blocks, Backed(h)
    PROVE  Backed(h)'
    <1>1. Quorums' = Quorums
        BY DEF Quorums, NodeQuorum, QuorumSize
    <1>2. QED BY <1>1, NetGrows DEF Backed

\* The approvals that a finalizing leader has counted are a published quorum.
LEMMA FinalizesBacked ==
    ASSUME ApprovalsPublished, NEW n \in Nodes, NEW v \in Nodes, NEW h \in Blocks,
           Finalizes(n, v, h)
    PROVE  Backed(h)
    <1>1. st'[n].approvals[h] = st[n].approvals[h] \cup {v}
        BY DEF Finalizes, Counts, Adds
    <1>2. st'[n].approvals[h] \subseteq Approvers(h) \cap Members[n]
        BY <1>1 DEF Finalizes, ApprovalsPublished
    <1>3. st'[n].approvals[h] \in Quorums
        BY <1>2, MembersAssumption DEF Quorums, Finalizes, Approvers
    <1>4. QED BY <1>2, <1>3 DEF Backed

LEMMA ApprovalsPublishedNext ==
    ASSUME Effect, ApprovalsPublished
    PROVE  ApprovalsPublished'
    <1>1. SUFFICES ASSUME NEW m \in Nodes, NEW g \in Blocks
                   PROVE  st'[m].approvals[g] \subseteq Approvers(g)' \cap Members[m]
        BY DEF ApprovalsPublished, Approvers
    <1>2. Approvers(g) \subseteq Approvers(g)'
        BY NetGrows
    <1>3. CASE KeepsApprovals(m)
        BY <1>2, <1>3 DEF KeepsApprovals, ApprovalsPublished
    <1>4. ASSUME NEW n \in Nodes, NEW v \in Nodes, NEW h \in Blocks,
                 Counts(n, v, h), v \in Approvers(h)' \cap Members[n]
          PROVE  st'[m].approvals[g] \subseteq Approvers(g)' \cap Members[m]
        <2>1. CASE m = n
            BY <1>2, <1>4, <2>1 DEF Counts, Adds, ApprovalsPublished
        <2>2. CASE m # n
            BY <1>3, <1>4, <2>2 DEF Counts
        <2>3. QED BY <2>1, <2>2
    <1>5. ASSUME NEW n \in Nodes, NEW h \in Blocks, Approves(n, h)
          PROVE  st'[m].approvals[g] \subseteq Approvers(g)' \cap Members[m]
        <2>1. n \in Approvers(h)' \cap Members[n]
            BY <1>5, ApprovesViews, MembersAssumption DEF Approves
        <2>2. QED BY <1>4, <1>5, <2>1 DEF Approves
    <1>6. ASSUME NEW n \in Nodes, NEW v \in Nodes, NEW h \in Blocks,
                 CountsApproval(n, v, h) \/ Finalizes(n, v, h)
          PROVE  st'[m].approvals[g] \subseteq Approvers(g)' \cap Members[m]
        <2>1. v \in Approvers(h)' \cap Members[n]
            BY <1>6, NetGrows DEF CountsApproval, Finalizes
        <2>2. QED BY <1>4, <1>6, <2>1 DEF CountsApproval, Finalizes
    <1>7. ASSUME NEW n \in Nodes, Forgets(n)
          PROVE  st'[m].approvals[g] \subseteq Approvers(g)' \cap Members[m]
        <2>1. CASE m = n
            BY <1>7, <2>1 DEF Forgets
        <2>2. CASE m # n
            BY <1>3, <1>7, <2>2 DEF Forgets
        <2>3. QED BY <2>1, <2>2
    <1>8. QED BY <1>3, <1>5, <1>6, <1>7 DEF Effect, Quiet, Proposes, LearnsFrom

LEMMA ApprovedWasProposedNext ==
    ASSUME Effect, ApprovedWasProposed
    PROVE  ApprovedWasProposed'
    <1>1. SUFFICES ASSUME NEW g \in Blocks, Approvers(g)' # {}
                   PROVE  g \in Proposed'
        BY DEF ApprovedWasProposed, Approvers, Proposed
    <1>2. CASE Approvers(g)' = Approvers(g)
        BY <1>1, <1>2, NetGrows DEF ApprovedWasProposed
    <1>3. ASSUME NEW n \in Nodes, NEW h \in Blocks, Approves(n, h)
          PROVE  g \in Proposed'
        <2>1. CASE g = h
            BY <1>3, <2>1, NetGrows DEF Approves
        <2>2. CASE g # h
            BY <1>2, <1>3, <2>2, ApprovesViews DEF Approves
        <2>3. QED BY <2>1, <2>2
    <1>4. CASE KeepsViews
        BY <1>2, <1>4 DEF KeepsViews
    <1>5. ASSUME NEW n \in Nodes, NEW h \in Blocks, Proposes(n, h)
          PROVE  g \in Proposed'
        BY <1>2, <1>5, ProposesViews DEF Proposes
    <1>6. ASSUME NEW n \in Nodes, NEW v \in Nodes, NEW h \in Blocks, Finalizes(n, v, h)
          PROVE  KeepsViews
        BY <1>6, FinalizesViews DEF Finalizes
    <1>7. QED BY <1>3, <1>4, <1>5, <1>6, SameNetViews
              DEF Effect, Quiet, CountsApproval, LearnsFrom, Forgets

LEMMA FinalizationHasQuorumNext ==
    ASSUME Effect, ApprovalsPublished, FinalizationHasQuorum
    PROVE  FinalizationHasQuorum'
    <1>1. Quorums' = Quorums
        BY DEF Quorums, NodeQuorum, QuorumSize
    <1>2. SUFFICES ASSUME NEW w \in Nodes, NEW g \in Blocks,
                          FinalizationPacket(w, g) \in net'
                   PROVE  Backed(g)'
        BY <1>1 DEF FinalizationHasQuorum, Backed, Approvers, FinalizationPacket,
                    ApprovalPacket
    <1>3. CASE FinalizationPacket(w, g) \in net
        BY <1>3, BackedStays DEF FinalizationHasQuorum, Backed
    <1>4. ASSUME NEW n \in Nodes, NEW v \in Nodes, NEW h \in Blocks, Finalizes(n, v, h)
          PROVE  Backed(g)'
        <2>1. CASE w = n /\ g = h
            BY <1>4, <2>1, FinalizesBacked, BackedStays
        <2>2. QED BY <1>2, <1>3, <1>4, <2>1, FinalizesViews DEF Finalizes
    <1>5. CASE net' = net
        BY <1>2, <1>3, <1>5
    <1>6. ASSUME NEW n \in Nodes, NEW h \in Blocks, Proposes(n, h) \/ Approves(n, h)
          PROVE  Backed(g)'
        BY <1>2, <1>3, <1>6, ProposesViews, ApprovesViews DEF Proposes, Approves
    <1>7. QED BY <1>4, <1>5, <1>6
              DEF Effect, Quiet, CountsApproval, LearnsFrom, Forgets

LEMMA FinalizedHasQuorumNext ==
    ASSUME Effect, TypeOK, ApprovalsPublished, FinalizationHasQuorum, FinalizedHasQuorum
    PROVE  FinalizedHasQuorum'
    <1>1. Quorums' = Quorums
        BY DEF Quorums, NodeQuorum, QuorumSize
    <1>2. \A m \in Nodes : st[m].finalized \subseteq Blocks
        BY DEF TypeOK, States
    <1>3. ASSUME NEW m \in Nodes, KeepsFinalized(m)
          PROVE  \A g \in st'[m].finalized : Backed(g)'
        BY <1>2, <1>3, BackedStays DEF KeepsFinalized, FinalizedHasQuorum, Backed
    <1>4. ASSUME NEW n \in Nodes, NEW h \in Blocks, Learns(n, h), Backed(h)',
                 NEW m \in Nodes
          PROVE  \A g \in st'[m].finalized : Backed(g)'
        <2>1. CASE m # n
            BY <1>3, <1>4, <2>1 DEF Learns
        <2>2. CASE m = n
            BY <1>2, <1>4, <2>2, BackedStays DEF Learns, FinalizedHasQuorum, Backed
        <2>3. QED BY <2>1, <2>2
    <1>5. SUFFICES ASSUME NEW m \in Nodes
                   PROVE  \A g \in st'[m].finalized : Backed(g)'
        BY <1>1 DEF FinalizedHasQuorum, Backed, Approvers, ApprovalPacket
    <1>6. ASSUME NEW n \in Nodes, NEW v \in Nodes, NEW h \in Blocks, Finalizes(n, v, h)
          PROVE  \A g \in st'[m].finalized : Backed(g)'
        <2>1. Backed(h)'
            BY <1>6, FinalizesBacked, BackedStays
        <2>2. QED BY <1>4, <1>6, <2>1 DEF Finalizes
    <1>7. ASSUME NEW n \in Nodes, NEW v \in Nodes, NEW h \in Blocks, LearnsFrom(n, v, h)
          PROVE  \A g \in st'[m].finalized : Backed(g)'
        <2>1. Backed(h)
            BY <1>7 DEF LearnsFrom, FinalizationHasQuorum, Backed
        <2>2. QED BY <1>4, <1>7, <2>1, BackedStays DEF LearnsFrom
    <1>8. ASSUME NEW n \in Nodes, Forgets(n)
          PROVE  \A g \in st'[m].finalized : Backed(g)'
        <2>1. CASE m # n
            BY <1>3, <1>8, <2>1 DEF Forgets
        <2>2. CASE m = n
            BY <1>8, <2>2 DEF Forgets
        <2>3. QED BY <2>1, <2>2
    <1>9. QED BY <1>3, <1>6, <1>7, <1>8
              DEF Effect, Quiet, Proposes, Approves, CountsApproval

LEMMA IInvInit == Init => IInv
    <1> SUFFICES ASSUME Init PROVE IInv
        OBVIOUS
    <1>1. EmptyDisk \in [Blocks -> Stored]
        BY DEF EmptyDisk, Stored
    <1>2. \A n \in Nodes : st[n].approvals = [h \in Blocks |-> {}] /\ st[n].finalized = {}
        BY <1>1, NewStateFields DEF Init
    <1>3. ChannelFromNet
        BY DEF Init, ChannelFromNet
    <1>4. net = {}
        BY DEF Init
    <1>5. ApprovalsPublished /\ FinalizedHasQuorum
        BY <1>2 DEF ApprovalsPublished, FinalizedHasQuorum
    <1>6. ApprovedWasProposed /\ FinalizationHasQuorum
        BY <1>4 DEF ApprovedWasProposed, FinalizationHasQuorum, Approvers
    <1>7. QED BY <1>3, <1>5, <1>6, TypeOKInit DEF IInv

LEMMA IInvNext == IInv /\ [Next]_vars => IInv'
    <1> SUFFICES ASSUME IInv, [Next]_vars PROVE IInv'
        OBVIOUS
    <1>1. TypeOK /\ ChannelFromNet /\ Effect
        BY StepEffect DEF IInv
    <1>2. TypeOK' /\ ChannelFromNet'
        BY <1>1, TypeOKNext, ChannelNext
    <1>3. ApprovalsPublished' /\ ApprovedWasProposed' /\ FinalizationHasQuorum'
        BY <1>1, ApprovalsPublishedNext, ApprovedWasProposedNext,
           FinalizationHasQuorumNext DEF IInv
    <1>4. FinalizedHasQuorum'
        BY <1>1, FinalizedHasQuorumNext DEF IInv
    <1>5. QED BY <1>2, <1>3, <1>4 DEF IInv

\* The inductive invariant holds in every reachable state.
THEOREM Invariant == Spec => []IInv
    BY IInvInit, IInvNext, PTL DEF Spec

\* Whatever is lost, repeated, reordered or restarted, a node only regards a
\* block as final that a whole quorum has approved (handleApproval,
\* handleFinalization, HasReachedQuorum).
THEOREM QuorumSafety == Spec => []FinalizedHasQuorum
    <1>1. IInv => FinalizedHasQuorum
        BY DEF IInv
    <1>2. QED BY <1>1, Invariant, PTL

\* A quorum is never empty, so somebody approved what is final, and nobody
\* approves what was not proposed.
LEMMA QuorumNotEmpty == ASSUME NEW Q \in Quorums PROVE Q # {}
    <1>1. PICK n \in Nodes : Cardinality(Q) >= NodeQuorum(n)
        BY DEF Quorums
    <1>2. Cardinality(Members[n]) \in Nat
        BY MembersAssumption, FS_CardinalityType
    <1>3. NodeQuorum(n) >= 1
        BY <1>2, BoundsAssumption DEF NodeQuorum, QuorumSize
    <1>4. Cardinality({}) = 0
        BY FS_EmptySet
    <1>5. NodeQuorum(n) \in Nat
        BY <1>2, BoundsAssumption DEF NodeQuorum, QuorumSize
    <1>6. QED BY <1>1, <1>3, <1>4, <1>5

\* Only proposed blocks become final, although neither handleApproval nor
\* handleFinalization looks for the proposal.
THEOREM OnlyProposedBlocks == Spec => []FinalizedWasProposed
    <1>1. IInv => FinalizedWasProposed
        <2> SUFFICES ASSUME IInv, NEW n \in Nodes, NEW h \in st[n].finalized
                     PROVE  h \in Proposed
            BY DEF FinalizedWasProposed
        <2>1. h \in Blocks
            BY DEF IInv, TypeOK, States
        <2>2. PICK Q \in Quorums : Q \subseteq Approvers(h)
            BY DEF IInv, FinalizedHasQuorum
        <2>3. Approvers(h) # {}
            BY <2>2, QuorumNotEmpty
        <2>4. QED BY <2>1, <2>3 DEF IInv, ApprovedWasProposed
    <1>2. QED BY <1>1, Invariant, PTL

-----------------------------------------------------------------------------
(* Refinement *)

LEMMA FinalityInit == Init => Finality!Init
    <1> SUFFICES ASSUME Init PROVE Finality!Init
        OBVIOUS
    <1>1. net = {}
        BY DEF Init
    <1>2. Proposed = {} /\ \A h \in Blocks : Approvers(h) = {}
        BY <1>1 DEF Proposed, Approvers
    <1>3. EmptyDisk \in [Blocks -> Stored]
        BY DEF EmptyDisk, Stored
    <1>4. \A n \in Nodes : st[n].finalized = {}
        BY <1>3, NewStateFields DEF Init
    <1>5. QED BY <1>2, <1>4 DEF Finality!Init

LEMMA FinalityNext == IInv /\ [Next]_vars => [Finality!Next]_(Finality!vars)
    <1> SUFFICES ASSUME IInv, Effect PROVE [Finality!Next]_(Finality!vars)
        BY StepEffect DEF IInv
    <1> DEFINE votes == [h \in Blocks |-> Approvers(h)]
               final == [n \in Nodes |-> st[n].finalized]
    <1>1. ASSUME KeepsViews PROVE Proposed' = Proposed /\ votes' = votes
        BY <1>1 DEF KeepsViews
    <1>2. ASSUME \A m \in Nodes : KeepsFinalized(m) PROVE final' = final
        BY <1>2 DEF KeepsFinalized
    <1>3. ASSUME KeepsViews, \A m \in Nodes : KeepsFinalized(m)
          PROVE  UNCHANGED Finality!vars
        BY <1>1, <1>2, <1>3 DEF Finality!vars
    <1>4. ASSUME NEW n \in Nodes, NEW h \in Blocks, Proposes(n, h)
          PROVE  Finality!Next
        <2>1. Proposed' = Proposed \cup {h} /\ votes' = votes
            BY <1>4, ProposesViews DEF Proposes
        <2>2. final' = final
            BY <1>2, <1>4 DEF Proposes
        <2>3. Finality!Propose(h)
            BY <2>1, <2>2 DEF Finality!Propose
        <2>4. QED BY <2>3 DEF Finality!Next, Finality!Agree
    <1>5. ASSUME NEW n \in Nodes, NEW h \in Blocks, Approves(n, h)
          PROVE  Finality!Next
        <2>1. Proposed' = Proposed /\ votes' = [votes EXCEPT ![h] = @ \cup {n}]
            BY <1>5, ApprovesViews DEF Approves
        <2>2. final' = final
            BY <1>2, <1>5 DEF Approves
        <2>3. Finality!Vote(n, h)
            BY <1>5, <2>1, <2>2 DEF Finality!Vote, Approves
        <2>4. QED BY <2>3 DEF Finality!Next, Finality!Agree
    <1>6. ASSUME NEW n \in Nodes, NEW h \in Blocks, Learns(n, h), Backed(h), KeepsViews
          PROVE  Finality!Next
        <2>1. Proposed' = Proposed /\ votes' = votes
            BY <1>1, <1>6
        <2>2. final' = [final EXCEPT ![n] = @ \cup {h}]
            BY <1>6 DEF Learns, KeepsFinalized
        <2>3. \E Q \in Quorums : Q \subseteq votes[h]
            BY <1>6 DEF Backed
        <2>4. Finality!Finalize(n, h)
            BY <2>1, <2>2, <2>3 DEF Finality!Finalize
        <2>5. QED BY <2>4 DEF Finality!Next, Finality!Agree
    <1>7. ASSUME NEW n \in Nodes, NEW v \in Nodes, NEW h \in Blocks, Finalizes(n, v, h)
          PROVE  Finality!Next
        <2>1. Backed(h)
            BY <1>7, FinalizesBacked DEF IInv
        <2>2. KeepsViews
            BY <1>7, FinalizesViews DEF Finalizes
        <2>3. QED BY <1>6, <1>7, <2>1, <2>2 DEF Finalizes
    <1>8. ASSUME NEW n \in Nodes, NEW v \in Nodes, NEW h \in Blocks, LearnsFrom(n, v, h)
          PROVE  Finality!Next
        <2>1. Backed(h)
            BY <1>8 DEF IInv, FinalizationHasQuorum, LearnsFrom, Backed
        <2>2. QED BY <1>6, <1>8, <2>1, SameNetViews DEF LearnsFrom
    <1>9. ASSUME NEW n \in Nodes, Forgets(n)
          PROVE  Finality!Next
        <2>1. Proposed' = Proposed /\ votes' = votes
            BY <1>1, <1>9, SameNetViews DEF Forgets
        <2>2. final' = [final EXCEPT ![n] = {}]
            BY <1>9 DEF Forgets, KeepsFinalized
        <2>3. Finality!Forget(n)
            BY <2>1, <2>2 DEF Finality!Forget
        <2>4. QED BY <2>3 DEF Finality!Next, Finality!Agree
    <1>10. QED
        BY <1>3, <1>4, <1>5, <1>7, <1>8, <1>9, SameNetViews
        DEF Effect, Quiet, CountsApproval

\* The packet exchange of pkg/validator implements the abstract vote.
THEOREM Refinement == Spec => ImplementsQuorumFinality
    <1>1. QED
        BY Invariant, FinalityInit, FinalityNext, PTL
        DEF Spec, ImplementsQuorumFinality, Finality!Spec

=============================================================================
