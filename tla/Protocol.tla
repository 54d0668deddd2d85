------------------------------ MODULE Protocol ------------------------------
(***************************************************************************)
(* The consensus library pkg/consensus/protocol.go with its MessagePool, on *)
(* several hosts that share a pubsub topic.                                *)
(*                                                                         *)
(* The Start loop of a host puts every packet into the pool and handles it *)
(* in a goroutine of its own; applications call ProposeBlock,              *)
(* ApproveProposal and FinalizeBlock from theirs.  A goroutine inside one  *)
(* of these is a task: the packet it works on, where it is (pc), and       *)
(* whether an application called it (api).  A step of a task is one        *)
(* critical section or one store write: State guards each map by a lock of *)
(* its own and writes to the store after it has released that lock.        *)
(*                                                                         *)
(* A broadcast puts the packet into the inbox of every host, the sender's  *)
(* too.  Since inboxes are unordered, a broadcast at the end of a step     *)
(* covers one that happens later.                                          *)
(***************************************************************************)
EXTENDS ConsensusState

CONSTANTS
    Hosts,          \* P2PNetwork.HostID of each running Protocol
    Validators,     \* all peer IDs that are ever in a ValidatorSet
    InitialSet,     \* the validators at NewProtocol, the same on every host
    Threshold,      \* ValidatorSet.quorumThreshold; 0 is not configured
    LeaderID,       \* ValidatorSet.leaderID (SetLeader)
    Keys,           \* for each host, the validators whose private keys it has
    NoOne,          \* the empty peer ID
    Slots,          \* bound: the goroutines each host runs at a time
    Outcomes,       \* outcomes of a store write or a broadcast to consider
    Redelivery,     \* may a packet stay in an inbox after it was received
    Movers,         \* the validators that may join and leave
    MaxCalls        \* bound: calls of a host's application after ProposeBlock

ASSUME HostsAssumption ==
    /\ Keys \in [Hosts -> SUBSET Validators]
    /\ \A n \in Hosts \cap Validators : n \in Keys[n]
    /\ NoOne \notin Validators
ASSUME SetAssumption ==
    /\ InitialSet \subseteq Validators
    /\ IsFiniteSet(InitialSet)
    /\ Threshold \in Nat
ASSUME LimitsAssumption ==
    /\ Outcomes \subseteq BOOLEAN
    /\ Redelivery \subseteq BOOLEAN
    /\ Movers \subseteq Validators
    /\ MaxCalls \in [Hosts -> Nat]
    /\ DOMAIN Slots = Hosts

VARIABLES
    status,     \* is the Start loop running, told to stop, or has Shutdown returned
    inbox,      \* packets the subscription of this host may deliver
    pool,       \* MessagePool.messages
    task,       \* what the goroutines of this host are doing
    lock,       \* owners of Protocol.mutex and Protocol.approvalMutex
    validators, \* keys of ValidatorSet.validators
    calls,      \* calls the application has made
    st          \* consensus.State

vars == <<status, inbox, pool, task, lock, validators, calls, st>>

-----------------------------------------------------------------------------
(* Packets and tasks *)

\* id is the proposer, the validator, or nobody: a finalization packet names
\* no validator and is not signed.
Packets ==
    [type : {"proposal", "approval"}, id : Validators, block : Blocks]
    \cup [type : {"finalization"}, id : {NoOne}, block : Blocks]

Packet(type, id, h) == [type |-> type, id |-> id, block |-> h]

\* Mutant: a finalization names the leader.
FinalizationOfLeader(h) == Packet("finalization", LeaderID, h)

FinalizationPacket(h) == Packet("finalization", NoOne, h)

NoPacket == [type |-> "none"]

Steps == {"idle", "handle", "persistProposal", "approve", "persistApproval", "check",
          "finalize", "persistFinal", "deliver", "remove"}

Tasks == [pc : Steps, pkt : Packets \cup {NoPacket}, api : BOOLEAN]

Idle == [pc |-> "idle", pkt |-> NoPacket, api |-> FALSE]

Running(pc, pkt, api) == [pc |-> pc, pkt |-> pkt, api |-> api]

\* Protocol.quorumThreshold is computed once, by NewProtocol.
QuorumThreshold == QuorumSize(InitialSet, Threshold)

Locks == {"mutex", "approvalMutex"}
LockOf(p) == IF p.type = "approval" THEN "approvalMutex" ELSE "mutex"

NewMessagePool == [h \in Blocks |-> NoPacket]

Init ==
    /\ status = [n \in Hosts |-> "running"]
    /\ inbox = [n \in Hosts |-> {}]
    /\ pool = [n \in Hosts |-> NewMessagePool]
    /\ task = [n \in Hosts |-> [s \in Slots[n] |-> Idle]]
    /\ lock = [n \in Hosts |-> [l \in Locks |-> {}]]
    /\ validators = [n \in Hosts |-> InitialSet]
    /\ calls = [n \in Hosts |-> 0]
    /\ st = [n \in Hosts |-> NewState(EmptyDisk)]

\* BroadcastMessage, which may fail.
Broadcast(p, sent) ==
    inbox' = IF sent THEN [m \in Hosts |-> inbox[m] \cup {p}] ELSE inbox

\* A task that is not running; which one does not matter.
HasSlot(n) == \E s \in Slots[n] : task[n][s] = Idle
FreeSlot(n) == CHOOSE s \in Slots[n] : task[n][s] = Idle
Spawn(n, t) == task' = [task EXCEPT ![n][FreeSlot(n)] = t]

Goto(n, s, pc) == task' = [task EXCEPT ![n][s].pc = pc]

\* Mutant: a goroutine of the Start loop ends without RemoveMessage.
ReturnAtOnce(n, s) ==
    /\ task' = [task EXCEPT ![n][s] = Idle]
    /\ lock' = [lock EXCEPT ![n] = [l \in Locks |-> @[l] \ {s}]]

\* Mutant: no Unlock is deferred.
ReturnLocked(n, s) ==
    /\ task' = [task EXCEPT ![n][s] = IF @.api THEN Idle ELSE [@ EXCEPT !.pc = "remove"]]
    /\ UNCHANGED lock

\* A handler returns and its deferred Unlock runs.  The goroutine of the
\* Start loop goes on to RemoveMessage, an application is done.
Return(n, s) ==
    /\ task' = [task EXCEPT ![n][s] = IF @.api THEN Idle ELSE [@ EXCEPT !.pc = "remove"]]
    /\ lock' = [lock EXCEPT ![n] = [l \in Locks |-> @[l] \ {s}]]

-----------------------------------------------------------------------------
(* The application interface *)

\* One more call of the application, within the bound.
Calls(n) ==
    /\ calls[n] < MaxCalls[n]
    /\ calls' = [calls EXCEPT ![n] = @ + 1]

\* ProposeBlock of new block data.  Nobody can know the hash before it
\* returns, so its steps are one.
ProposeBlock(n) ==
    /\ HasCurrentLeader(validators[n], LeaderID)
    /\ LeaderID \in Keys[n]
    /\ \E h \in Blocks, stored, sent \in Outcomes :
        /\ \A m \in Hosts : ~HasProposal(st[m], h)
        /\ st' = [st EXCEPT ![n] = AddProposal(@, h, stored)]
        /\ Broadcast(Packet("proposal", LeaderID, h), stored /\ sent)
    /\ UNCHANGED <<status, pool, task, lock, validators, calls>>

\* ApproveProposal is called for a proposal the application knows of and in
\* the name of a validator whose key the host has.
ApproveProposal(n) ==
    /\ Calls(n)
    /\ HasSlot(n)
    /\ \E h \in st[n].proposals, v \in validators[n] \cap Keys[n] :
        Spawn(n, Running("approve", Packet("approval", v, h), TRUE))
    /\ UNCHANGED <<status, inbox, pool, lock, validators, st>>

FinalizeBlock(n) ==
    /\ Calls(n)
    /\ HasSlot(n)
    /\ \E h \in st[n].proposals :
        Spawn(n, Running("check", FinalizationPacket(h), TRUE))
    /\ UNCHANGED <<status, inbox, pool, lock, validators, st>>

\* Validators join and leave at any time.
AddValidator(n, v) ==
    /\ Calls(n)
    /\ validators' = [validators EXCEPT ![n] = @ \cup {v}]
    /\ UNCHANGED <<status, inbox, pool, task, lock, st>>

RemoveValidator(n, v) ==
    /\ Calls(n)
    /\ validators' = [validators EXCEPT ![n] = @ \ {v}]
    /\ UNCHANGED <<status, inbox, pool, task, lock, st>>

\* Shutdown cancels the context ...
Shutdown(n) ==
    /\ Calls(n)
    /\ status[n] = "running"
    /\ status' = [status EXCEPT ![n] = "stopping"]
    /\ UNCHANGED <<inbox, pool, task, lock, validators, st>>

\* ... and returns when every goroutine of the Start loop has ended.
ShutdownReturns(n) ==
    /\ status[n] = "stopping"
    /\ \A s \in Slots[n] : task[n][s].pc = "idle" \/ task[n][s].api
    /\ status' = [status EXCEPT ![n] = "stopped"]
    /\ UNCHANGED <<inbox, pool, task, lock, validators, calls, st>>

-----------------------------------------------------------------------------
(* The Start loop *)

\* There is one packet for each block hash, the last.
AddMessage(n, p) == pool' = [pool EXCEPT ![n][p.block] = p]

\* Add the packet to the pool and handle it in a goroutine.
Receive(n, p) ==
    /\ status[n] = "running"
    /\ p \in inbox[n]
    /\ HasSlot(n)
    /\ \E again \in Redelivery :
         inbox' = IF again THEN inbox ELSE [inbox EXCEPT ![n] = @ \ {p}]
    /\ AddMessage(n, p)
    /\ Spawn(n, Running("handle", p, FALSE))
    /\ UNCHANGED <<status, lock, validators, calls, st>>

\* The step of the Start loop that takes some packet.
ReceiveNext(n) == \E p \in inbox[n] : Receive(n, p)

RemoveMessage(n, s) ==
    /\ task[n][s].pc = "remove"
    /\ pool' = [pool EXCEPT ![n][task[n][s].pkt.block] = NoPacket]
    /\ task' = [task EXCEPT ![n][s] = Idle]
    /\ UNCHANGED <<status, inbox, lock, validators, calls, st>>

-----------------------------------------------------------------------------
(* The handlers *)

\* Task s of host n is about to handle a packet of this type and takes the
\* mutex of its handler.
Acquires(n, s, type) ==
    /\ task[n][s].pc = "handle"
    /\ task[n][s].pkt.type = type
    /\ lock[n][LockOf(task[n][s].pkt)] = {}

\* Go on under the lock.
Enter(n, s, pc) ==
    /\ Goto(n, s, pc)
    /\ lock' = [lock EXCEPT ![n][LockOf(task[n][s].pkt)] = {s}]

\* Does the set of host n have validator v?
GetValidator(n, v) == v \in validators[n]
IsValidator(n, v) == v \in validators[n]

\* A proposal that is known or not of a validator is dropped.
HandleProposal(n, s) ==
    /\ Acquires(n, s, "proposal")
    /\ LET p == task[n][s].pkt
       IN IF HasProposal(st[n], p.block) \/ ~GetValidator(n, p.id)
          THEN Return(n, s) /\ UNCHANGED st
          ELSE /\ st' = [st EXCEPT ![n] = AddProposal(@, p.block, FALSE)]
               /\ Enter(n, s, "persistProposal")
    /\ UNCHANGED <<status, inbox, pool, validators, calls>>

\* The proposal is written; a validator that is not the proposer approves.
PersistProposal(n, s) ==
    /\ task[n][s].pc = "persistProposal"
    /\ LET p == task[n][s].pkt
       IN \E ok \in Outcomes :
            /\ st' = [st EXCEPT ![n].disk = Persist(@, p.block, "data", ok)]
            /\ IF ok /\ IsValidator(n, n) /\ n # p.id
               THEN Goto(n, s, "approve") /\ UNCHANGED lock
               ELSE Return(n, s)
    /\ UNCHANGED <<status, inbox, pool, validators, calls>>

\* An approval of an unknown validator is dropped.
HandleApproval(n, s) ==
    /\ Acquires(n, s, "approval")
    /\ IF GetValidator(n, task[n][s].pkt.id)
       THEN Enter(n, s, "approve")
       ELSE Return(n, s)
    /\ UNCHANGED <<status, inbox, pool, validators, calls, st>>

\* Whose approval the task records: the host's own when it is handling a
\* proposal.
Approver(n, s) == IF task[n][s].pkt.type = "proposal" THEN n ELSE task[n][s].pkt.id

\* ApproveProposal announces the approval it has recorded, HandleApproval
\* does not.  Both then look for a quorum.
Announces(n, s) == task[n][s].pkt.type = "proposal" \/ task[n][s].api

Approved(n, s) ==
    IF Announces(n, s)
    THEN \E sent \in Outcomes :
            /\ Broadcast(Packet("approval", Approver(n, s), task[n][s].pkt.block), sent)
            /\ IF sent THEN Goto(n, s, "check") /\ UNCHANGED lock ELSE Return(n, s)
    ELSE Goto(n, s, "check") /\ UNCHANGED <<inbox, lock>>

\* State.AddApproval up to the release of approvalsMu.
RecordApproval(n, s) ==
    /\ task[n][s].pc = "approve"
    /\ LET v == Approver(n, s)
           h == task[n][s].pkt.block
       IN /\ st' = [st EXCEPT ![n] = AddApproval(@, v, h, FALSE)]
          /\ IF v \in st[n].approvals[h]
             THEN Approved(n, s)
             ELSE Goto(n, s, "persistApproval") /\ UNCHANGED <<inbox, lock>>
    /\ UNCHANGED <<status, pool, validators, calls>>

\* The rest of it logs all approvals of the block and writes this one.
PersistApproval(n, s) ==
    /\ task[n][s].pc = "persistApproval"
    /\ \E ok \in Outcomes :
        /\ st' = [st EXCEPT ![n].disk = Persist(@, task[n][s].pkt.block, "signature", ok)]
        /\ IF ok THEN Approved(n, s) ELSE Return(n, s) /\ UNCHANGED inbox
    /\ UNCHANGED <<status, pool, validators, calls>>

\* Mutant: FinalizeBlock takes mutex (protocol.go has this commented out).
CheckQuorumLocked(n, s) ==
    /\ task[n][s].pc = "check"
    /\ LET h == task[n][s].pkt.block
       IN IF HasReachedQuorum(st[n], h, QuorumThreshold)
          THEN /\ lock[n]["mutex"] = {}
               /\ IF IsFinalized(st[n], h)
                  THEN Return(n, s)
                  ELSE Goto(n, s, "finalize") /\ UNCHANGED lock
          ELSE Return(n, s)
    /\ UNCHANGED <<status, inbox, pool, validators, calls, st>>

\* HasReachedQuorum and FinalizeBlock's own checks.  Approvals are never
\* withdrawn, so the three reads are one.
CheckQuorum(n, s) ==
    /\ task[n][s].pc = "check"
    /\ LET h == task[n][s].pkt.block
       IN IF HasReachedQuorum(st[n], h, QuorumThreshold) /\ ~IsFinalized(st[n], h)
          THEN Goto(n, s, "finalize") /\ UNCHANGED lock
          ELSE Return(n, s)
    /\ UNCHANGED <<status, inbox, pool, validators, calls, st>>

\* State.FinalizeBlock on behalf of Protocol.FinalizeBlock: nothing prevents
\* two tasks from getting here.
MarkFinalized(n, s) ==
    /\ task[n][s].pc = "finalize"
    /\ st' = [st EXCEPT ![n] = FinalizeState(@, task[n][s].pkt.block, FALSE)]
    /\ Goto(n, s, "persistFinal")
    /\ UNCHANGED <<status, inbox, pool, lock, validators, calls>>

\* A finalization is believed as it is.
HandleFinalization(n, s) ==
    /\ Acquires(n, s, "finalization")
    /\ LET h == task[n][s].pkt.block
       IN IF IsFinalized(st[n], h)
          THEN Return(n, s) /\ UNCHANGED st
          ELSE /\ st' = [st EXCEPT ![n] = FinalizeState(@, h, FALSE)]
               /\ Enter(n, s, "persistFinal")
    /\ UNCHANGED <<status, inbox, pool, validators, calls>>

\* The finalization is written.  FinalizeBlock then broadcasts it, while
\* HandleFinalization first tells the BlockFinalizer.
PersistFinal(n, s) ==
    /\ task[n][s].pc = "persistFinal"
    /\ LET t == task[n][s]
           h == t.pkt.block
       IN \E ok, sent \in Outcomes :
            /\ st' = [st EXCEPT ![n].disk = Persist(@, h, "finalized", ok)]
            /\ IF ok /\ t.pkt.type = "finalization" /\ ~t.api
               THEN Goto(n, s, "deliver") /\ UNCHANGED <<inbox, lock>>
               ELSE Broadcast(FinalizationPacket(h), ok /\ sent) /\ Return(n, s)
    /\ UNCHANGED <<status, pool, validators, calls>>

\* HandleFinalization reads the block back from the store, hands it to the
\* BlockFinalizer and broadcasts; an error of either ends it.
Deliver(n, s) ==
    /\ task[n][s].pc = "deliver"
    /\ LET h == task[n][s].pkt.block
       IN \E accepted, sent \in Outcomes : Broadcast(FinalizationPacket(h), accepted /\ sent)
    /\ Return(n, s)
    /\ UNCHANGED <<status, pool, validators, calls, st>>

HandleMessage(n, s) ==
    HandleProposal(n, s) \/ HandleApproval(n, s) \/ HandleFinalization(n, s)

TaskStep(n, s) ==
    \/ HandleMessage(n, s)
    \/ PersistProposal(n, s)
    \/ RecordApproval(n, s)
    \/ PersistApproval(n, s)
    \/ CheckQuorum(n, s)
    \/ MarkFinalized(n, s)
    \/ PersistFinal(n, s)
    \/ Deliver(n, s)
    \/ RemoveMessage(n, s)

-----------------------------------------------------------------------------

Next ==
    \E n \in Hosts :
        \/ ProposeBlock(n)
        \/ ApproveProposal(n)
        \/ FinalizeBlock(n)
        \/ \E v \in Movers : AddValidator(n, v) \/ RemoveValidator(n, v)
        \/ Shutdown(n)
        \/ ShutdownReturns(n)
        \/ ReceiveNext(n)
        \/ \E s \in Slots[n] : TaskStep(n, s)

Spec == Init /\ [][Next]_vars

\* A goroutine that can run does, the Start loop takes the next packet while
\* there is one, and wg.Wait returns.  Nothing obliges an application to act.
Fairness ==
    \A n \in Hosts :
        /\ \A s \in Slots[n] : WF_vars(TaskStep(n, s))
        /\ WF_vars(ReceiveNext(n))
        /\ WF_vars(ShutdownReturns(n))

LiveSpec == Spec /\ Fairness

-----------------------------------------------------------------------------
(* Properties *)

\* Every variable keeps its type.
TypeOK ==
    /\ status \in [Hosts -> {"running", "stopping", "stopped"}]
    /\ inbox \in [Hosts -> SUBSET Packets]
    /\ pool \in [Hosts -> [Blocks -> Packets \cup {NoPacket}]]
    /\ DOMAIN task = Hosts /\ \A n \in Hosts : task[n] \in [Slots[n] -> Tasks]
    /\ DOMAIN lock = Hosts /\ \A n \in Hosts : lock[n] \in [Locks -> SUBSET Slots[n]]
    /\ validators \in [Hosts -> SUBSET Validators]
    /\ calls \in [Hosts -> Nat]
    /\ st \in [Hosts -> States(Validators)]

Proposed == UNION {st[n].proposals : n \in Hosts}

Approvers(h) == UNION {st[n].approvals[h] : n \in Hosts}

Quorums == {Q \in SUBSET Validators : Cardinality(Q) >= QuorumThreshold}

\* The handlers, however their steps interleave, implement the abstract vote, and
\* no step takes a finalization back.
Finality ==
    INSTANCE QuorumFinality
        WITH Nodes <- Hosts, Voters <- Validators, proposed <- Proposed,
             voted <- [h \in Blocks |-> Approvers(h)],
             final <- [n \in Hosts |-> st[n].finalized]

ImplementsQuorumFinality == Finality!LastingSpec

\* A packet stays in the pool only while a goroutine of the Start loop still
\* works on its block, so the pool cannot fill up (Start, RemoveMessage).
PoolDrains ==
    \A n \in Hosts, h \in Blocks :
        pool[n][h] # NoPacket =>
            \E s \in Slots[n] : ~task[n][s].api /\ task[n][s].pkt = pool[n][h]

\* A handler that has started returns: no path waits for a mutex that it, or
\* a goroutine waiting for it, holds (HandleProposal calls ApproveProposal,
\* which calls FinalizeBlock, under mutex).
HandlersReturn ==
    \A n \in Hosts : \A s \in Slots[n] : task[n][s].pc # "idle" ~> task[n][s].pc = "idle"

\* A block that is final on some host becomes final on every host that is not
\* shut down: a finalization reaches it, before or after the proposal and the
\* approvals (HandleFinalization passes it on).
AllFinalize ==
    \A h \in Blocks :
        (\E n \in Hosts : h \in st[n].finalized) ~>
            (\A m \in Hosts : h \in st[m].finalized \/ status[m] # "running")

=============================================================================
