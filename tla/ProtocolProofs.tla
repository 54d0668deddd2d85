---------------------------- MODULE ProtocolProofs ----------------------------
(***************************************************************************)
(* Proofs about the safety of Protocol, for any hosts, validators, blocks    *)
(* and thresholds, any number of goroutines, and whichever writes and        *)
(* broadcasts fail or are delivered again.                                   *)
(***************************************************************************)
EXTENDS Protocol, FiniteSetTheorems, TLAPS

-----------------------------------------------------------------------------
(* The inductive invariant *)

\* Some quorum has approved block h, though no single host may know all of it.
Quorate(h) == \E Q \in Quorums : Q \subseteq Approvers(h)

\* What must have happened before a packet can be on its way.
Justified(p) == IF p.type = "finalization" THEN Quorate(p.block) ELSE p.block \in Proposed

\* What a goroutine of host n may be doing.  The packet of an application that
\* calls FinalizeBlock is one that may never be sent.
TaskInv(n, t) ==
    /\ t.pc # "idle" => t.pkt \in Packets
    /\ t.pc = "handle" => ~t.api
    /\ t.pc = "persistProposal" => t.pkt.type = "proposal"
    /\ t.pc \in {"approve", "persistApproval"} =>
            t.pkt.type # "finalization" /\ (t.pkt.type = "proposal" => n \in Validators)
    /\ t.pkt \in Packets /\ ~(t.api /\ t.pkt.type = "finalization") => Justified(t.pkt)
    /\ t.pc \in {"finalize", "persistFinal", "deliver"} => Quorate(t.pkt.block)

TasksInv == \A n \in Hosts : \A s \in Slots[n] : TaskInv(n, task[n][s])

InboxInv == \A n \in Hosts : \A p \in inbox[n] : Justified(p)

\* The packet in the pool is of the block it is filed under.
PoolInv == \A n \in Hosts, h \in Blocks : pool[n][h] # NoPacket => pool[n][h].block = h

ProtocolInv == TypeOK /\ TasksInv /\ InboxInv /\ PoolInv /\ PoolDrains

-----------------------------------------------------------------------------
(* What a step does to the consensus states *)

Same(m) ==
    /\ st'[m].proposals = st[m].proposals
    /\ st'[m].approvals = st[m].approvals
    /\ st'[m].finalized = st[m].finalized

OthersSame(n) == \A m \in Hosts \ {n} : Same(m)

Quiet == \A m \in Hosts : Same(m)

Proposes(n, h) ==
    /\ OthersSame(n)
    /\ st'[n].proposals = st[n].proposals \cup {h}
    /\ st'[n].approvals = st[n].approvals /\ st'[n].finalized = st[n].finalized

Approves(n, v, h) ==
    /\ OthersSame(n) /\ h \in Proposed
    /\ \A g \in Blocks : st'[n].approvals[g] =
            IF g = h THEN st[n].approvals[g] \cup {v} ELSE st[n].approvals[g]
    /\ st'[n].proposals = st[n].proposals /\ st'[n].finalized = st[n].finalized

Finalizes(n, h) ==
    /\ OthersSame(n) /\ Quorate(h)
    /\ st'[n].finalized = st[n].finalized \cup {h}
    /\ st'[n].proposals = st[n].proposals /\ st'[n].approvals = st[n].approvals

\* Every step does one of these to the states.
Effect ==
    /\ st' \in [Hosts -> States(Validators)]
    /\ \/ Quiet
       \/ \E n \in Hosts, h \in Blocks : Proposes(n, h)
       \/ \E n \in Hosts, v \in Validators, h \in Blocks : Approves(n, v, h)
       \/ \E n \in Hosts, h \in Blocks : Finalizes(n, h)

\* Nothing is withdrawn, so what justified a packet still does.
LEMMA EffectKeeps ==
    ASSUME Effect
    PROVE  /\ \A p \in Packets : Justified(p) => Justified(p)'
           /\ \A h \in Blocks : Quorate(h) => Quorate(h)'
    <1>1. \A m \in Hosts : st[m].proposals \subseteq st'[m].proposals
        BY DEF Effect, Quiet, Proposes, Approves, Finalizes, OthersSame, Same
    <1>2. Proposed \subseteq Proposed'
        BY <1>1 DEF Proposed
    <1>3. \A h \in Blocks : \A m \in Hosts : st[m].approvals[h] \subseteq st'[m].approvals[h]
        <2>1. CASE Quiet \/ \E n \in Hosts, h \in Blocks : Proposes(n, h) \/ Finalizes(n, h)
            BY <2>1 DEF Quiet, Proposes, Finalizes, OthersSame, Same
        <2>2. CASE \E n \in Hosts, v \in Validators, h \in Blocks : Approves(n, v, h)
            BY <2>2 DEF Approves, OthersSame, Same
        <2>3. QED BY <2>1, <2>2 DEF Effect
    <1>4. \A h \in Blocks : Approvers(h) \subseteq Approvers(h)'
        BY <1>3 DEF Approvers
    <1>5. \A h \in Blocks : Quorate(h) => Quorate(h)'
        BY <1>4 DEF Quorate, Quorums
    <1>6. \A p \in Packets : p.block \in Blocks
        BY DEF Packets
    <1>7. QED BY <1>2, <1>5, <1>6 DEF Justified

LEMMA TaskInvKept ==
    ASSUME Effect, NEW n \in Hosts, NEW t, TaskInv(n, t)
    PROVE  TaskInv(n, t)'
    <1>1. t.pkt \in Packets => t.pkt.block \in Blocks
        BY DEF Packets
    <1>2. QED BY <1>1, EffectKeeps DEF TaskInv

-----------------------------------------------------------------------------
(* The operations of consensus.State *)

LEMMA StIs ==
    ASSUME TypeOK, NEW n \in Hosts, NEW x \in States(Validators), st' = [st EXCEPT ![n] = x]
    PROVE  /\ st' \in [Hosts -> States(Validators)]
           /\ st[n] \in States(Validators)
           /\ st'[n] = x
           /\ OthersSame(n)
    BY DEF TypeOK, OthersSame, Same

LEMMA AddProposalIs ==
    ASSUME TypeOK, NEW n \in Hosts, NEW h \in Blocks, NEW ok \in BOOLEAN,
           st' = [st EXCEPT ![n] = AddProposal(st[n], h, ok)]
    PROVE  Effect
    <1>1. st[n] \in States(Validators)
        BY DEF TypeOK
    <1>2. /\ AddProposal(st[n], h, ok) \in States(Validators)
          /\ AddProposal(st[n], h, ok).proposals = st[n].proposals \cup {h}
          /\ AddProposal(st[n], h, ok).approvals = st[n].approvals
          /\ AddProposal(st[n], h, ok).finalized = st[n].finalized
        BY <1>1 DEF AddProposal, Persist, States, Stored
    <1>3. QED BY <1>2, StIs DEF Effect, Proposes

LEMMA AddApprovalIs ==
    ASSUME TypeOK, NEW n \in Hosts, NEW v \in Validators, NEW h \in Blocks, h \in Proposed,
           st' = [st EXCEPT ![n] = AddApproval(st[n], v, h, FALSE)]
    PROVE  Effect
    <1> DEFINE x == AddApproval(st[n], v, h, FALSE)
               a == [st[n].approvals EXCEPT ![h] = @ \cup {v}]
    <1>1. st[n] \in States(Validators)
        BY DEF TypeOK
    <1>2. CASE v \in st[n].approvals[h]
        <2>1. x = st[n]
            BY <1>2 DEF AddApproval
        <2>2. st'[n] = st[n] /\ st' \in [Hosts -> States(Validators)] /\ OthersSame(n)
            BY <1>1, <2>1, StIs
        <2>3. QED BY <2>2 DEF Effect, Quiet, OthersSame, Same
    <1>3. CASE v \notin st[n].approvals[h]
        <2>1. x = [st[n] EXCEPT !.approvals = a]
            BY <1>1, <1>3 DEF AddApproval, Persist, States
        <2>2. /\ a \in [Blocks -> SUBSET Validators]
              /\ \A g \in Blocks : a[g] = IF g = h THEN st[n].approvals[g] \cup {v}
                                                   ELSE st[n].approvals[g]
            BY <1>1 DEF States
        <2> HIDE DEF a
        <2>3. /\ x \in States(Validators) /\ x.approvals = a
              /\ x.proposals = st[n].proposals /\ x.finalized = st[n].finalized
            BY <1>1, <2>1, <2>2 DEF States
        <2> HIDE DEF x
        <2>4. st' = [st EXCEPT ![n] = x]
            BY DEF x
        <2>5. Approves(n, v, h)
            BY <2>2, <2>3, <2>4, StIs DEF Approves
        <2>6. QED BY <2>3, <2>4, <2>5, StIs DEF Effect
    <1>4. QED BY <1>2, <1>3

LEMMA FinalizeStateIs ==
    ASSUME TypeOK, NEW n \in Hosts, NEW h \in Blocks, Quorate(h),
           st' = [st EXCEPT ![n] = FinalizeState(st[n], h, FALSE)]
    PROVE  Effect
    <1>1. st[n] \in States(Validators)
        BY DEF TypeOK
    <1>2. /\ FinalizeState(st[n], h, FALSE) \in States(Validators)
          /\ FinalizeState(st[n], h, FALSE).proposals = st[n].proposals
          /\ FinalizeState(st[n], h, FALSE).approvals = st[n].approvals
          /\ FinalizeState(st[n], h, FALSE).finalized = st[n].finalized \cup {h}
        BY <1>1 DEF FinalizeState, Persist, States, Stored
    <1>3. QED BY <1>2, StIs DEF Effect, Finalizes

LEMMA PersistIs ==
    ASSUME TypeOK, NEW n \in Hosts, NEW h \in Blocks, NEW value \in Stored, NEW ok \in BOOLEAN,
           st' = [st EXCEPT ![n].disk = Persist(@, h, value, ok)]
    PROVE  Effect
    <1> DEFINE d == Persist(st[n].disk, h, value, ok)
               x == [st[n] EXCEPT !.disk = d]
    <1>1. st[n] \in States(Validators)
        BY DEF TypeOK
    <1>2. d \in [Blocks -> Stored]
        BY <1>1 DEF Persist, States
    <1>3. st' = [st EXCEPT ![n] = x]
        OBVIOUS
    <1> HIDE DEF d
    <1>4. /\ x \in States(Validators)
          /\ x.proposals = st[n].proposals
          /\ x.approvals = st[n].approvals /\ x.finalized = st[n].finalized
        BY <1>1, <1>2 DEF States
    <1> HIDE DEF x
    <1>5. QED BY <1>3, <1>4, StIs DEF Effect, Quiet, OthersSame, Same

LEMMA UnchangedIs ==
    ASSUME TypeOK, UNCHANGED st
    PROVE  Effect
    BY DEF TypeOK, Effect, Quiet, Same

-----------------------------------------------------------------------------
(* A goroutine moves *)

LEMMA TaskIs ==
    ASSUME TypeOK, NEW n \in Hosts, NEW s \in Slots[n]
    PROVE  /\ task[n] \in [Slots[n] -> Tasks] /\ task[n][s] \in Tasks
           /\ task[n][s].pc \in Steps /\ task[n][s].api \in BOOLEAN
           /\ task[n][s].pkt \in Packets \cup {NoPacket}
    BY DEF TypeOK, Tasks

\* One slot is written, and what all slots hold then.
SetsTask(n, s, t) == task' = [task EXCEPT ![n][s] = t]

TasksAfter(n, s, t) ==
    /\ DOMAIN task' = Hosts /\ \A m \in Hosts : task'[m] \in [Slots[m] -> Tasks]
    /\ \A m \in Hosts : \A r \in Slots[m] :
        task'[m][r] = IF m = n /\ r = s THEN t ELSE task[m][r]

LEMMA TaskAfter ==
    ASSUME TypeOK, NEW n \in Hosts, NEW s \in Slots[n], NEW t \in Tasks, SetsTask(n, s, t)
    PROVE  TasksAfter(n, s, t)
    BY DEF TypeOK, SetsTask, TasksAfter

LEMMA NoPacketIs == NoPacket \notin Packets
    BY DEF NoPacket, Packets

InboxGrows ==
    /\ inbox' \in [Hosts -> SUBSET Packets]
    /\ \A m \in Hosts : \A p \in inbox'[m] : p \in inbox[m] \/ Justified(p)

LockTypes == DOMAIN lock = Hosts /\ \A n \in Hosts : lock[n] \in [Locks -> SUBSET Slots[n]]

\* A goroutine that is not an application keeps its packet and stays one.
LEMMA TaskMoves ==
    ASSUME ProtocolInv, Effect, NEW n \in Hosts, NEW s \in Slots[n], NEW t \in Tasks,
           task' = [task EXCEPT ![n][s] = t], TaskInv(n, t),
           \/ task[n][s].api
           \/ t.api = task[n][s].api /\ t.pkt = task[n][s].pkt,
           InboxGrows, LockTypes',
           UNCHANGED <<status, pool, validators, calls>>
    PROVE  ProtocolInv'
    <1>1. /\ DOMAIN task' = Hosts /\ \A m \in Hosts : task'[m] \in [Slots[m] -> Tasks]
          /\ \A m \in Hosts : \A r \in Slots[m] :
                task'[m][r] = IF m = n /\ r = s THEN t ELSE task[m][r]
        <2>1. SetsTask(n, s, t) /\ TypeOK
            BY DEF SetsTask, ProtocolInv
        <2>2. TasksAfter(n, s, t)
            BY <2>1, TaskAfter
        <2>3. QED BY <2>2 DEF TasksAfter
    <1>2. TypeOK'
        BY <1>1 DEF ProtocolInv, TypeOK, InboxGrows, LockTypes, Effect
    <1>3. TasksInv'
        <2>1. ASSUME NEW m \in Hosts, NEW r \in Slots[m] PROVE TaskInv(m, task'[m][r])
            BY <1>1 DEF ProtocolInv, TasksInv
        <2>2. ASSUME NEW m \in Hosts, NEW r \in Slots[m] PROVE TaskInv(m, task[m][r])'
            <3>1. PICK u : u = task'[m][r]
                OBVIOUS
            <3>2. TaskInv(m, u)'
                BY <2>1, <3>1, TaskInvKept
            <3>3. QED BY <3>1, <3>2 DEF TaskInv
        <2>3. QED BY <2>2 DEF TasksInv
    <1>4. InboxInv'
        BY EffectKeeps DEF ProtocolInv, InboxInv, InboxGrows
    <1>5. PoolInv'
        BY DEF ProtocolInv, PoolInv
    <1>6. PoolDrains'
        BY <1>1 DEF ProtocolInv, PoolDrains
    <1>7. QED BY <1>2, <1>3, <1>4, <1>5, <1>6 DEF ProtocolInv

LEMMA BroadcastGrows ==
    ASSUME TypeOK, NEW p \in Packets, NEW sent \in BOOLEAN, Broadcast(p, sent),
           sent => Justified(p)
    PROVE  InboxGrows
    BY DEF TypeOK, Broadcast, InboxGrows

LEMMA InboxSame ==
    ASSUME TypeOK, UNCHANGED inbox
    PROVE  InboxGrows
    BY DEF TypeOK, InboxGrows

LEMMA LocksSame ==
    ASSUME TypeOK, UNCHANGED lock
    PROVE  LockTypes'
    BY DEF TypeOK, LockTypes

\* What holds of the task where it goes, given what holds of it now.
MayGoTo(n, s, pc) ==
    LET p == task[n][s].pkt
    IN /\ pc # "handle"
       /\ pc = "persistProposal" => p.type = "proposal"
       /\ pc \in {"approve", "persistApproval"} =>
                p.type # "finalization" /\ (p.type = "proposal" => n \in Validators)
       /\ pc \in {"finalize", "persistFinal", "deliver"} => Quorate(p.block)

LEMMA GotoKeeps ==
    ASSUME ProtocolInv, Effect, NEW n \in Hosts, NEW s \in Slots[n], NEW pc \in Steps,
           task[n][s].pc # "idle", Goto(n, s, pc), MayGoTo(n, s, pc),
           InboxGrows, LockTypes', UNCHANGED <<status, pool, validators, calls>>
    PROVE  ProtocolInv'
    <1> DEFINE t == [task[n][s] EXCEPT !.pc = pc]
    <1>1. /\ task[n][s] \in Tasks /\ TaskInv(n, task[n][s])
        BY TaskIs DEF ProtocolInv, TasksInv
    <1>2. /\ t \in Tasks /\ t.pc = pc /\ t.api = task[n][s].api /\ t.pkt = task[n][s].pkt
        BY <1>1 DEF Tasks
    <1>3. task' = [task EXCEPT ![n][s] = t]
        BY DEF Goto
    <1> HIDE DEF t
    <1>4. TaskInv(n, t)
        BY <1>1, <1>2 DEF TaskInv, MayGoTo
    <1>5. QED BY <1>2, <1>3, <1>4, TaskMoves

LEMMA EnterKeeps ==
    ASSUME ProtocolInv, Effect, NEW n \in Hosts, NEW s \in Slots[n], NEW pc \in Steps,
           task[n][s].pc # "idle", Enter(n, s, pc), MayGoTo(n, s, pc),
           UNCHANGED <<status, inbox, pool, validators, calls>>
    PROVE  ProtocolInv'
    <1>1. LockOf(task[n][s].pkt) \in Locks
        BY DEF LockOf, Locks
    <1>2. LockTypes'
        BY <1>1 DEF ProtocolInv, TypeOK, LockTypes, Enter
    <1>3. QED BY <1>2, GotoKeeps, InboxSame DEF Enter, ProtocolInv

\* A handler can return at any time.
LEMMA ReturnKeeps ==
    ASSUME ProtocolInv, Effect, NEW n \in Hosts, NEW s \in Slots[n],
           task[n][s].pc # "idle", Return(n, s),
           InboxGrows, UNCHANGED <<status, pool, validators, calls>>
    PROVE  ProtocolInv'
    <1>1. task[n][s] \in Tasks /\ TaskInv(n, task[n][s])
        BY TaskIs DEF ProtocolInv, TasksInv
    <1>2. LockTypes'
        BY DEF ProtocolInv, TypeOK, LockTypes, Return
    <1>3. CASE task[n][s].api
        <2>1. task' = [task EXCEPT ![n][s] = Idle]
            BY <1>3 DEF Return
        <2>2. Idle \in Tasks
            BY DEF Idle, Tasks, Steps
        <2>3. TaskInv(n, Idle)
            BY NoPacketIs DEF TaskInv, Idle
        <2>4. QED BY <1>2, <1>3, <2>1, <2>2, <2>3, TaskMoves
    <1>4. CASE ~task[n][s].api
        <2> DEFINE t == [task[n][s] EXCEPT !.pc = "remove"]
        <2>1. task' = [task EXCEPT ![n][s] = t]
            BY <1>4 DEF Return
        <2>2. t \in Tasks /\ t.pc = "remove" /\ t.api = task[n][s].api /\ t.pkt = task[n][s].pkt
            BY <1>1 DEF Tasks, Steps
        <2> HIDE DEF t
        <2>3. TaskInv(n, t)
            BY <1>1, <2>2 DEF TaskInv
        <2>4. QED BY <1>2, <2>1, <2>2, <2>3, TaskMoves
    <1>5. QED BY <1>3, <1>4

\* A new goroutine takes a slot in which none is running.
LEMMA SpawnIs ==
    ASSUME TypeOK, NEW n \in Hosts, HasSlot(n), NEW t, Spawn(n, t)
    PROVE  \E s \in Slots[n] : task[n][s] = Idle /\ task' = [task EXCEPT ![n][s] = t]
    BY DEF HasSlot, FreeSlot, Spawn

\* An application's call.
LEMMA CallSpawns ==
    ASSUME ProtocolInv, NEW n \in Hosts, Calls(n), HasSlot(n), NEW p \in Packets,
           NEW pc \in {"approve", "check"}, Spawn(n, Running(pc, p, TRUE)),
           p.type # "finalization" => Justified(p),
           pc = "approve" => p.type = "approval",
           UNCHANGED <<status, inbox, pool, lock, validators, st>>
    PROVE  ProtocolInv'
    <1> DEFINE t == Running(pc, p, TRUE)
    <1>0. PICK s \in Slots[n] : task[n][s] = Idle /\ task' = [task EXCEPT ![n][s] = t]
        BY SpawnIs DEF ProtocolInv
    <1>1. t \in Tasks /\ t.pc = pc /\ t.api = TRUE /\ t.pkt = p
        BY DEF Running, Tasks, Steps
    <1> HIDE DEF t
    <1>2. TaskInv(n, t)
        BY <1>1 DEF TaskInv
    <1>3. /\ DOMAIN task' = Hosts /\ \A m \in Hosts : task'[m] \in [Slots[m] -> Tasks]
          /\ \A m \in Hosts : \A r \in Slots[m] :
                task'[m][r] = IF m = n /\ r = s THEN t ELSE task[m][r]
        <2>1. TypeOK
            BY DEF ProtocolInv
        <2>2. SetsTask(n, s, t)
            BY <1>0 DEF SetsTask
        <2>3. TasksAfter(n, s, t)
            BY <1>1, <2>1, <2>2, TaskAfter
        <2>4. QED BY <2>3 DEF TasksAfter
    <1>4. Effect
        BY UnchangedIs DEF ProtocolInv
    <1>5. TypeOK'
        BY <1>3 DEF ProtocolInv, TypeOK, Calls
    <1>6. TasksInv'
        <2>1. ASSUME NEW m \in Hosts, NEW r \in Slots[m] PROVE TaskInv(m, task[m][r])'
            <3>1. PICK u : u = task'[m][r]
                OBVIOUS
            <3>2. TaskInv(m, u)
                BY <1>2, <1>3, <3>1 DEF ProtocolInv, TasksInv
            <3>3. TaskInv(m, u)'
                BY <1>4, <3>2, TaskInvKept
            <3>4. QED BY <3>1, <3>3 DEF TaskInv
        <2>2. QED BY <2>1 DEF TasksInv
    <1>7. InboxInv' /\ PoolInv'
        BY <1>4, EffectKeeps DEF ProtocolInv, InboxInv, PoolInv, TypeOK
    <1>8. PoolDrains'
        BY <1>0, <1>3 DEF ProtocolInv, PoolDrains, Idle
    <1>9. QED BY <1>5, <1>6, <1>7, <1>8 DEF ProtocolInv

LEMMA ReceiveKeeps ==
    ASSUME ProtocolInv, NEW n \in Hosts, NEW p, Receive(n, p)
    PROVE  ProtocolInv'
    <1> DEFINE t == Running("handle", p, FALSE)
    <1>0. PICK s \in Slots[n] : task[n][s] = Idle /\ task' = [task EXCEPT ![n][s] = t]
        BY SpawnIs DEF ProtocolInv, Receive
    <1>p. p \in Packets /\ p.block \in Blocks /\ Justified(p) /\ p # NoPacket
        BY NoPacketIs DEF Receive, ProtocolInv, TypeOK, InboxInv, Packets
    <1>1. t \in Tasks /\ t.pc = "handle" /\ t.api = FALSE /\ t.pkt = p
        BY <1>p DEF Running, Tasks, Steps
    <1> HIDE DEF t
    <1>2. TaskInv(n, t)
        BY <1>1, <1>p DEF TaskInv
    <1>3. /\ DOMAIN task' = Hosts /\ \A m \in Hosts : task'[m] \in [Slots[m] -> Tasks]
          /\ \A m \in Hosts : \A r \in Slots[m] :
                task'[m][r] = IF m = n /\ r = s THEN t ELSE task[m][r]
        <2>1. TypeOK
            BY DEF ProtocolInv
        <2>2. SetsTask(n, s, t)
            BY <1>0 DEF SetsTask
        <2>3. TasksAfter(n, s, t)
            BY <1>1, <2>1, <2>2, TaskAfter
        <2>4. QED BY <2>3 DEF TasksAfter
    <1>4. Effect
        BY UnchangedIs DEF ProtocolInv, Receive
    <1>5. /\ pool' \in [Hosts -> [Blocks -> Packets \cup {NoPacket}]]
          /\ \A m \in Hosts, h \in Blocks :
                pool'[m][h] = IF m = n /\ h = p.block THEN p ELSE pool[m][h]
        BY <1>p DEF Receive, AddMessage, ProtocolInv, TypeOK
    <1>6. /\ inbox' \in [Hosts -> SUBSET Packets]
          /\ \A m \in Hosts : inbox'[m] \subseteq inbox[m]
        BY DEF Receive, ProtocolInv, TypeOK
    <1>7. TypeOK'
        BY <1>3, <1>5, <1>6 DEF ProtocolInv, TypeOK, Receive
    <1>8. TasksInv'
        <2>1. ASSUME NEW m \in Hosts, NEW r \in Slots[m] PROVE TaskInv(m, task[m][r])'
            <3>1. PICK u : u = task'[m][r]
                OBVIOUS
            <3>2. TaskInv(m, u)
                BY <1>2, <1>3, <3>1 DEF ProtocolInv, TasksInv
            <3>3. TaskInv(m, u)'
                BY <1>4, <3>2, TaskInvKept
            <3>4. QED BY <3>1, <3>3 DEF TaskInv
        <2>2. QED BY <2>1 DEF TasksInv
    <1>9. InboxInv'
        BY <1>4, <1>6, EffectKeeps DEF ProtocolInv, InboxInv
    <1>10. PoolInv'
        BY <1>5 DEF ProtocolInv, PoolInv
    <1>11. PoolDrains'
        <2>1. ASSUME NEW m \in Hosts, NEW h \in Blocks, pool'[m][h] # NoPacket
              PROVE  \E r \in Slots[m] : ~task'[m][r].api /\ task'[m][r].pkt = pool'[m][h]
            <3>1. CASE m = n /\ h = p.block
                BY <1>1, <1>3, <1>5, <3>1
            <3>2. CASE ~(m = n /\ h = p.block)
                <4>1. pool'[m][h] = pool[m][h]
                    BY <1>5, <3>2
                <4>2. PICK r \in Slots[m] : ~task[m][r].api /\ task[m][r].pkt = pool[m][h]
                    BY <2>1, <4>1 DEF ProtocolInv, PoolDrains
                <4>3. ~(m = n /\ r = s)
                    BY <1>0, <2>1, <4>1, <4>2 DEF Idle
                <4>4. QED BY <1>3, <4>1, <4>2, <4>3
            <3>3. QED BY <3>1, <3>2
        <2>2. QED BY <2>1 DEF PoolDrains
    <1>12. QED BY <1>7, <1>8, <1>9, <1>10, <1>11 DEF ProtocolInv

\* The goroutine that removes a block's packet from the pool removes only what is
\* filed under that block, whichever packet that is by now.
LEMMA RemoveMessageKeeps ==
    ASSUME ProtocolInv, NEW n \in Hosts, NEW s \in Slots[n], RemoveMessage(n, s)
    PROVE  ProtocolInv'
    <1> DEFINE b == task[n][s].pkt.block
    <1>1. task[n][s].pkt \in Packets /\ b \in Blocks
        BY DEF RemoveMessage, ProtocolInv, TasksInv, TaskInv, Packets
    <1>2. Idle \in Tasks /\ TaskInv(n, Idle) /\ Idle.pkt = NoPacket
        BY NoPacketIs DEF Idle, Tasks, Steps, TaskInv
    <1>3. /\ DOMAIN task' = Hosts /\ \A m \in Hosts : task'[m] \in [Slots[m] -> Tasks]
          /\ \A m \in Hosts : \A r \in Slots[m] :
                task'[m][r] = IF m = n /\ r = s THEN Idle ELSE task[m][r]
        <2>1. TypeOK
            BY DEF ProtocolInv
        <2>2. SetsTask(n, s, Idle)
            BY DEF RemoveMessage, SetsTask
        <2>3. TasksAfter(n, s, Idle)
            BY <1>2, <2>1, <2>2, TaskAfter
        <2>4. QED BY <2>3 DEF TasksAfter
    <1>4. Effect
        BY UnchangedIs DEF ProtocolInv, RemoveMessage
    <1>5. /\ pool' \in [Hosts -> [Blocks -> Packets \cup {NoPacket}]]
          /\ \A m \in Hosts, h \in Blocks :
                pool'[m][h] = IF m = n /\ h = b THEN NoPacket ELSE pool[m][h]
        BY <1>1 DEF RemoveMessage, ProtocolInv, TypeOK
    <1>6. TypeOK'
        BY <1>3, <1>5 DEF ProtocolInv, TypeOK, RemoveMessage
    <1>7. TasksInv'
        <2>1. ASSUME NEW m \in Hosts, NEW r \in Slots[m] PROVE TaskInv(m, task[m][r])'
            <3>1. PICK u : u = task'[m][r]
                OBVIOUS
            <3>2. TaskInv(m, u)
                BY <1>2, <1>3, <3>1 DEF ProtocolInv, TasksInv
            <3>3. TaskInv(m, u)'
                BY <1>4, <3>2, TaskInvKept
            <3>4. QED BY <3>1, <3>3 DEF TaskInv
        <2>2. QED BY <2>1 DEF TasksInv
    <1>8. InboxInv'
        BY <1>4, EffectKeeps DEF ProtocolInv, InboxInv, RemoveMessage, TypeOK
    <1>9. PoolInv'
        BY <1>5 DEF ProtocolInv, PoolInv
    <1>10. PoolDrains'
        <2>1. ASSUME NEW m \in Hosts, NEW h \in Blocks, pool'[m][h] # NoPacket
              PROVE  \E r \in Slots[m] : ~task'[m][r].api /\ task'[m][r].pkt = pool'[m][h]
            <3>1. ~(m = n /\ h = b) /\ pool'[m][h] = pool[m][h] /\ pool[m][h].block = h
                BY <1>5, <2>1 DEF ProtocolInv, PoolInv
            <3>2. PICK r \in Slots[m] : ~task[m][r].api /\ task[m][r].pkt = pool[m][h]
                BY <2>1, <3>1 DEF ProtocolInv, PoolDrains
            <3>3. ~(m = n /\ r = s)
                BY <3>1, <3>2
            <3>4. QED BY <1>3, <3>1, <3>2, <3>3
        <2>2. QED BY <2>1 DEF PoolDrains
    <1>11. QED BY <1>6, <1>7, <1>8, <1>9, <1>10 DEF ProtocolInv

-----------------------------------------------------------------------------
(* The handlers *)

\* What every handler may rely on where it is.
LEMMA TaskFacts ==
    ASSUME ProtocolInv, NEW n \in Hosts, NEW s \in Slots[n], task[n][s].pc # "idle"
    PROVE  /\ task[n][s].pkt \in Packets /\ task[n][s].pkt.block \in Blocks
           /\ TaskInv(n, task[n][s]) /\ st[n] \in States(Validators)
           /\ task[n][s].pkt.type = "finalization" \/ task[n][s].pkt.id \in Validators
    <1>1. TaskInv(n, task[n][s]) /\ task[n][s].pkt \in Packets
        BY DEF ProtocolInv, TasksInv, TaskInv
    <1>2. QED BY <1>1 DEF Packets, ProtocolInv, TypeOK

LEMMA HandleProposalKeeps ==
    ASSUME ProtocolInv, NEW n \in Hosts, NEW s \in Slots[n], HandleProposal(n, s)
    PROVE  Effect /\ ProtocolInv'
    <1> DEFINE p == task[n][s].pkt
    <1>1. task[n][s].pc # "idle" /\ p.type = "proposal" /\ TypeOK
        BY DEF HandleProposal, Acquires, ProtocolInv
    <1>2. p.block \in Blocks
        BY <1>1, TaskFacts
    <1>3. CASE HasProposal(st[n], p.block) \/ ~GetValidator(n, p.id)
        <2>1. Return(n, s) /\ UNCHANGED <<st, status, inbox, pool, validators, calls>>
            BY <1>3 DEF HandleProposal
        <2>2. Effect
            BY <1>1, <2>1, UnchangedIs
        <2>3. QED BY <1>1, <2>1, <2>2, ReturnKeeps, InboxSame
    <1>4. CASE ~(HasProposal(st[n], p.block) \/ ~GetValidator(n, p.id))
        <2>1. /\ st' = [st EXCEPT ![n] = AddProposal(st[n], p.block, FALSE)]
              /\ Enter(n, s, "persistProposal")
              /\ UNCHANGED <<status, inbox, pool, validators, calls>>
            BY <1>4 DEF HandleProposal
        <2>2. Effect
            BY <1>1, <1>2, <2>1, AddProposalIs
        <2>3. MayGoTo(n, s, "persistProposal") /\ "persistProposal" \in Steps
            BY <1>1 DEF MayGoTo, Steps
        <2>4. QED BY <1>1, <2>1, <2>2, <2>3, EnterKeeps
    <1>5. QED BY <1>3, <1>4

LEMMA PersistProposalKeeps ==
    ASSUME ProtocolInv, NEW n \in Hosts, NEW s \in Slots[n], PersistProposal(n, s)
    PROVE  Effect /\ ProtocolInv'
    <1> DEFINE p == task[n][s].pkt
    <1>1. task[n][s].pc = "persistProposal" /\ TypeOK
          /\ UNCHANGED <<status, inbox, pool, validators, calls>>
        BY DEF PersistProposal, ProtocolInv
    <1>2. p.block \in Blocks /\ p.type = "proposal"
        BY <1>1, TaskFacts DEF TaskInv
    <1>3. PICK ok \in Outcomes :
            /\ st' = [st EXCEPT ![n].disk = Persist(@, p.block, "data", ok)]
            /\ IF ok /\ IsValidator(n, n) /\ n # p.id
               THEN Goto(n, s, "approve") /\ UNCHANGED lock
               ELSE Return(n, s)
        BY DEF PersistProposal
    <1>4. ok \in BOOLEAN /\ "data" \in Stored
        BY LimitsAssumption DEF Stored
    <1>5. Effect
        BY <1>1, <1>2, <1>3, <1>4, PersistIs
    <1>6. CASE ok /\ IsValidator(n, n) /\ n # p.id
        <2>1. Goto(n, s, "approve") /\ UNCHANGED lock
            BY <1>3, <1>6
        <2>2. n \in Validators
            BY <1>6 DEF IsValidator, ProtocolInv, TypeOK
        <2>3. MayGoTo(n, s, "approve") /\ "approve" \in Steps
            BY <1>2, <2>2 DEF MayGoTo, Steps
        <2>4. InboxGrows /\ LockTypes'
            BY <1>1, <2>1, InboxSame, LocksSame
        <2>5. QED BY <1>1, <1>5, <2>1, <2>3, <2>4, GotoKeeps
    <1>7. CASE ~(ok /\ IsValidator(n, n) /\ n # p.id)
        <2>1. Return(n, s)
            BY <1>3, <1>7
        <2>2. QED BY <1>1, <1>5, <2>1, InboxSame, ReturnKeeps
    <1>8. QED BY <1>6, <1>7

LEMMA HandleApprovalKeeps ==
    ASSUME ProtocolInv, NEW n \in Hosts, NEW s \in Slots[n], HandleApproval(n, s)
    PROVE  Effect /\ ProtocolInv'
    <1>1. /\ task[n][s].pc # "idle" /\ task[n][s].pkt.type = "approval" /\ TypeOK
          /\ UNCHANGED <<status, inbox, pool, validators, calls, st>>
        BY DEF HandleApproval, Acquires, ProtocolInv
    <1>2. Effect
        BY <1>1, UnchangedIs
    <1>3. CASE Enter(n, s, "approve")
        <2>1. MayGoTo(n, s, "approve") /\ "approve" \in Steps
            BY <1>1 DEF MayGoTo, Steps
        <2>2. QED BY <1>1, <1>2, <1>3, <2>1, EnterKeeps
    <1>4. CASE Return(n, s)
        BY <1>1, <1>2, <1>4, InboxSame, ReturnKeeps
    <1>5. QED BY <1>3, <1>4 DEF HandleApproval

\* A block is approved only in the name of a validator.
LEMMA ApproverIs ==
    ASSUME ProtocolInv, NEW n \in Hosts, NEW s \in Slots[n],
           task[n][s].pc \in {"approve", "persistApproval"}
    PROVE  /\ Approver(n, s) \in Validators
           /\ task[n][s].pkt.block \in Proposed
    <1>1. /\ TaskInv(n, task[n][s]) /\ task[n][s].pkt \in Packets
          /\ task[n][s].pkt.type = "finalization" \/ task[n][s].pkt.id \in Validators
        BY TaskFacts
    <1>2. task[n][s].pkt.type # "finalization"
          /\ (task[n][s].pkt.type = "proposal" => n \in Validators)
        BY <1>1 DEF TaskInv
    <1>3. Justified(task[n][s].pkt)
        BY <1>1, <1>2 DEF TaskInv
    <1>4. QED BY <1>1, <1>2, <1>3 DEF Approver, Justified

\* An approval that is announced has a proposal behind it.
LEMMA ApprovedKeeps ==
    ASSUME ProtocolInv, Effect, NEW n \in Hosts, NEW s \in Slots[n],
           task[n][s].pc \in {"approve", "persistApproval"}, Approved(n, s),
           UNCHANGED <<status, pool, validators, calls>>
    PROVE  ProtocolInv'
    <1> DEFINE p == Packet("approval", Approver(n, s), task[n][s].pkt.block)
    <1>1. p \in Packets /\ Justified(p)
        BY ApproverIs, TaskFacts DEF Packet, Packets, Justified
    <1>2. MayGoTo(n, s, "check") /\ "check" \in Steps /\ task[n][s].pc # "idle" /\ TypeOK
        BY DEF MayGoTo, Steps, ProtocolInv
    <1> HIDE DEF p
    <1>3. CASE Announces(n, s)
        <2>1. PICK sent \in Outcomes :
                /\ Broadcast(p, sent)
                /\ IF sent THEN Goto(n, s, "check") /\ UNCHANGED lock ELSE Return(n, s)
            BY <1>3 DEF Approved, p
        <2>2. sent \in BOOLEAN
            BY LimitsAssumption
        <2>3. InboxGrows
            BY <1>1, <1>2, <2>1, <2>2, BroadcastGrows
        <2>4. CASE sent
            BY <1>2, <2>1, <2>3, <2>4, LocksSame, GotoKeeps
        <2>5. CASE ~sent
            BY <1>2, <2>1, <2>3, <2>5, ReturnKeeps
        <2>6. QED BY <2>4, <2>5
    <1>4. CASE ~Announces(n, s)
        <2>1. Goto(n, s, "check") /\ UNCHANGED <<inbox, lock>>
            BY <1>4 DEF Approved
        <2>2. InboxGrows /\ LockTypes'
            BY <1>2, <2>1, InboxSame, LocksSame
        <2>3. QED BY <1>2, <2>1, <2>2, GotoKeeps
    <1>5. QED BY <1>3, <1>4

LEMMA RecordApprovalKeeps ==
    ASSUME ProtocolInv, NEW n \in Hosts, NEW s \in Slots[n], RecordApproval(n, s)
    PROVE  Effect /\ ProtocolInv'
    <1> DEFINE v == Approver(n, s)
               h == task[n][s].pkt.block
    <1>1. /\ task[n][s].pc = "approve" /\ TypeOK
          /\ UNCHANGED <<status, pool, validators, calls>>
          /\ st' = [st EXCEPT ![n] = AddApproval(st[n], v, h, FALSE)]
        BY DEF RecordApproval, ProtocolInv
    <1>2. h \in Blocks /\ TaskInv(n, task[n][s])
        BY <1>1, TaskFacts
    <1>3. v \in Validators /\ h \in Proposed
        BY <1>1, ApproverIs
    <1>4. Effect
        <2> HIDE DEF v, h
        <2>1. QED BY <1>1, <1>2, <1>3, AddApprovalIs
    <1>5. CASE Approved(n, s)
        BY <1>1, <1>4, <1>5, ApprovedKeeps
    <1>6. CASE Goto(n, s, "persistApproval") /\ UNCHANGED <<inbox, lock>>
        <2>1. MayGoTo(n, s, "persistApproval") /\ "persistApproval" \in Steps
            BY <1>1, <1>2 DEF MayGoTo, Steps, TaskInv
        <2>2. InboxGrows /\ LockTypes'
            BY <1>1, <1>6, InboxSame, LocksSame
        <2>3. QED BY <1>1, <1>4, <1>6, <2>1, <2>2, GotoKeeps
    <1>7. QED BY <1>5, <1>6 DEF RecordApproval

LEMMA PersistApprovalKeeps ==
    ASSUME ProtocolInv, NEW n \in Hosts, NEW s \in Slots[n], PersistApproval(n, s)
    PROVE  Effect /\ ProtocolInv'
    <1> DEFINE h == task[n][s].pkt.block
    <1>1. /\ task[n][s].pc = "persistApproval" /\ TypeOK
          /\ UNCHANGED <<status, pool, validators, calls>>
        BY DEF PersistApproval, ProtocolInv
    <1>2. PICK ok \in Outcomes :
            /\ st' = [st EXCEPT ![n].disk = Persist(@, h, "signature", ok)]
            /\ IF ok THEN Approved(n, s) ELSE Return(n, s) /\ UNCHANGED inbox
        BY DEF PersistApproval
    <1>3. h \in Blocks /\ ok \in BOOLEAN /\ "signature" \in Stored
        BY <1>1, TaskFacts, LimitsAssumption DEF Stored
    <1>4. Effect
        BY <1>1, <1>2, <1>3, PersistIs
    <1>5. CASE ok
        BY <1>1, <1>2, <1>4, <1>5, ApprovedKeeps
    <1>6. CASE ~ok
        BY <1>1, <1>2, <1>4, <1>6, InboxSame, ReturnKeeps
    <1>7. QED BY <1>5, <1>6

\* The approvals one host has are a quorum of all approvals given.
LEMMA CheckQuorumKeeps ==
    ASSUME ProtocolInv, NEW n \in Hosts, NEW s \in Slots[n], CheckQuorum(n, s)
    PROVE  Effect /\ ProtocolInv'
    <1> DEFINE h == task[n][s].pkt.block
    <1>1. /\ task[n][s].pc = "check" /\ TypeOK
          /\ UNCHANGED <<status, inbox, pool, validators, calls, st>>
        BY DEF CheckQuorum, ProtocolInv
    <1>2. h \in Blocks /\ st[n] \in States(Validators)
        BY <1>1, TaskFacts
    <1>3. Effect
        BY <1>1, UnchangedIs
    <1>4. CASE HasReachedQuorum(st[n], h, QuorumThreshold) /\ ~IsFinalized(st[n], h)
        <2>1. Goto(n, s, "finalize") /\ UNCHANGED lock
            BY <1>4 DEF CheckQuorum
        <2>2. st[n].approvals[h] \in Quorums
            BY <1>2, <1>4 DEF HasReachedQuorum, Quorums, States
        <2>3. Quorate(h)
            BY <2>2 DEF Quorate, Approvers
        <2>4. MayGoTo(n, s, "finalize") /\ "finalize" \in Steps
            BY <2>3 DEF MayGoTo, Steps
        <2>5. InboxGrows /\ LockTypes'
            BY <1>1, <2>1, InboxSame, LocksSame
        <2>6. QED BY <1>1, <1>3, <2>1, <2>4, <2>5, GotoKeeps
    <1>5. CASE ~(HasReachedQuorum(st[n], h, QuorumThreshold) /\ ~IsFinalized(st[n], h))
        <2>1. Return(n, s)
            BY <1>5 DEF CheckQuorum
        <2>2. QED BY <1>1, <1>3, <2>1, InboxSame, ReturnKeeps
    <1>6. QED BY <1>4, <1>5

LEMMA MarkFinalizedKeeps ==
    ASSUME ProtocolInv, NEW n \in Hosts, NEW s \in Slots[n], MarkFinalized(n, s)
    PROVE  Effect /\ ProtocolInv'
    <1> DEFINE h == task[n][s].pkt.block
    <1>1. /\ task[n][s].pc = "finalize" /\ TypeOK /\ Goto(n, s, "persistFinal")
          /\ UNCHANGED <<status, inbox, pool, lock, validators, calls>>
          /\ st' = [st EXCEPT ![n] = FinalizeState(st[n], h, FALSE)]
        BY DEF MarkFinalized, ProtocolInv
    <1>2. h \in Blocks /\ Quorate(h)
        BY <1>1, TaskFacts DEF TaskInv
    <1>3. Effect
        BY <1>1, <1>2, FinalizeStateIs
    <1>4. MayGoTo(n, s, "persistFinal") /\ "persistFinal" \in Steps
        BY <1>2 DEF MayGoTo, Steps
    <1>5. InboxGrows /\ LockTypes'
        BY <1>1, InboxSame, LocksSame
    <1>6. QED BY <1>1, <1>3, <1>4, <1>5, GotoKeeps

\* Nobody signs a finalization, but only a host that knew a quorum has sent one.
LEMMA HandleFinalizationKeeps ==
    ASSUME ProtocolInv, NEW n \in Hosts, NEW s \in Slots[n], HandleFinalization(n, s)
    PROVE  Effect /\ ProtocolInv'
    <1> DEFINE h == task[n][s].pkt.block
    <1>1. /\ task[n][s].pc = "handle" /\ task[n][s].pkt.type = "finalization" /\ TypeOK
          /\ UNCHANGED <<status, inbox, pool, validators, calls>>
        BY DEF HandleFinalization, Acquires, ProtocolInv
    <1>2. h \in Blocks /\ task[n][s].pkt \in Packets /\ TaskInv(n, task[n][s])
        BY <1>1, TaskFacts
    <1>3. Quorate(h)
        BY <1>1, <1>2 DEF TaskInv, Justified
    <1>4. CASE IsFinalized(st[n], h)
        <2>1. Return(n, s) /\ UNCHANGED st
            BY <1>4 DEF HandleFinalization
        <2>2. Effect
            BY <1>1, <2>1, UnchangedIs
        <2>3. QED BY <1>1, <2>1, <2>2, InboxSame, ReturnKeeps
    <1>5. CASE ~IsFinalized(st[n], h)
        <2>1. /\ st' = [st EXCEPT ![n] = FinalizeState(st[n], h, FALSE)]
              /\ Enter(n, s, "persistFinal")
            BY <1>5 DEF HandleFinalization
        <2>2. Effect
            BY <1>1, <1>2, <1>3, <2>1, FinalizeStateIs
        <2>3. MayGoTo(n, s, "persistFinal") /\ "persistFinal" \in Steps
            BY <1>3 DEF MayGoTo, Steps
        <2>4. QED BY <1>1, <2>1, <2>2, <2>3, EnterKeeps
    <1>6. QED BY <1>4, <1>5

LEMMA FinalizationIs ==
    ASSUME NEW h \in Blocks, Quorate(h)
    PROVE  FinalizationPacket(h) \in Packets /\ Justified(FinalizationPacket(h))
    BY DEF FinalizationPacket, Packet, Packets, Justified

LEMMA PersistFinalKeeps ==
    ASSUME ProtocolInv, NEW n \in Hosts, NEW s \in Slots[n], PersistFinal(n, s)
    PROVE  Effect /\ ProtocolInv'
    <1> DEFINE t == task[n][s]
               h == t.pkt.block
    <1>1. /\ t.pc = "persistFinal" /\ TypeOK
          /\ UNCHANGED <<status, pool, validators, calls>>
        BY DEF PersistFinal, ProtocolInv
    <1>2. h \in Blocks /\ Quorate(h)
        BY <1>1, TaskFacts DEF TaskInv
    <1>3. PICK ok \in Outcomes, sent \in Outcomes :
            /\ st' = [st EXCEPT ![n].disk = Persist(@, h, "finalized", ok)]
            /\ IF ok /\ t.pkt.type = "finalization" /\ ~t.api
               THEN Goto(n, s, "deliver") /\ UNCHANGED <<inbox, lock>>
               ELSE Broadcast(FinalizationPacket(h), ok /\ sent) /\ Return(n, s)
        BY DEF PersistFinal
    <1>4. ok \in BOOLEAN /\ "finalized" \in Stored /\ (ok /\ sent) \in BOOLEAN
        BY LimitsAssumption DEF Stored
    <1>5. Effect
        BY <1>1, <1>2, <1>3, <1>4, PersistIs
    <1>6. CASE ok /\ t.pkt.type = "finalization" /\ ~t.api
        <2>1. Goto(n, s, "deliver") /\ UNCHANGED <<inbox, lock>>
            BY <1>3, <1>6
        <2>2. MayGoTo(n, s, "deliver") /\ "deliver" \in Steps
            BY <1>2 DEF MayGoTo, Steps
        <2>3. InboxGrows /\ LockTypes'
            BY <1>1, <2>1, InboxSame, LocksSame
        <2>4. QED BY <1>1, <1>5, <2>1, <2>2, <2>3, GotoKeeps
    <1>7. CASE ~(ok /\ t.pkt.type = "finalization" /\ ~t.api)
        <2>1. Broadcast(FinalizationPacket(h), ok /\ sent) /\ Return(n, s)
            BY <1>3, <1>7
        <2>2. InboxGrows
            BY <1>1, <1>2, <1>4, <2>1, FinalizationIs, BroadcastGrows
        <2>3. QED BY <1>1, <1>5, <2>1, <2>2, ReturnKeeps
    <1>8. QED BY <1>6, <1>7

LEMMA DeliverKeeps ==
    ASSUME ProtocolInv, NEW n \in Hosts, NEW s \in Slots[n], Deliver(n, s)
    PROVE  Effect /\ ProtocolInv'
    <1> DEFINE h == task[n][s].pkt.block
    <1>1. /\ task[n][s].pc = "deliver" /\ TypeOK /\ Return(n, s)
          /\ UNCHANGED <<status, pool, validators, calls, st>>
        BY DEF Deliver, ProtocolInv
    <1>2. h \in Blocks /\ Quorate(h)
        BY <1>1, TaskFacts DEF TaskInv
    <1>3. PICK accepted \in Outcomes, sent \in Outcomes :
            Broadcast(FinalizationPacket(h), accepted /\ sent)
        BY DEF Deliver
    <1>4. (accepted /\ sent) \in BOOLEAN
        OBVIOUS
    <1>5. InboxGrows
        BY <1>1, <1>2, <1>3, <1>4, FinalizationIs, BroadcastGrows
    <1>6. Effect
        BY <1>1, UnchangedIs
    <1>7. QED BY <1>1, <1>5, <1>6, ReturnKeeps

LEMMA TaskStepKeeps ==
    ASSUME ProtocolInv, NEW n \in Hosts, NEW s \in Slots[n], TaskStep(n, s)
    PROVE  Effect /\ ProtocolInv'
    <1>1. CASE RemoveMessage(n, s)
        BY <1>1, RemoveMessageKeeps, UnchangedIs DEF RemoveMessage, ProtocolInv
    <1>2. CASE HandleMessage(n, s)
        BY <1>2, HandleProposalKeeps, HandleApprovalKeeps, HandleFinalizationKeeps
        DEF HandleMessage
    <1>3. QED
        BY <1>1, <1>2, PersistProposalKeeps, RecordApprovalKeeps, PersistApprovalKeeps,
           CheckQuorumKeeps, MarkFinalizedKeeps, PersistFinalKeeps, DeliverKeeps
        DEF TaskStep

-----------------------------------------------------------------------------
(* The application *)

\* Steps that leave packets, goroutines and the consensus states alone.
LEMMA OtherwiseIdle ==
    ASSUME ProtocolInv, UNCHANGED <<inbox, pool, task, lock, st>>,
           status' \in [Hosts -> {"running", "stopping", "stopped"}],
           validators' \in [Hosts -> SUBSET Validators], calls' \in [Hosts -> Nat]
    PROVE  Effect /\ ProtocolInv'
    <1>1. Effect
        BY UnchangedIs DEF ProtocolInv
    <1>2. TypeOK'
        BY DEF ProtocolInv, TypeOK
    <1>3. TasksInv'
        <2>1. ASSUME NEW m \in Hosts, NEW r \in Slots[m] PROVE TaskInv(m, task[m][r])'
            <3>1. PICK u : u = task[m][r] /\ task'[m][r] = u
                OBVIOUS
            <3>2. TaskInv(m, u)
                BY <3>1 DEF ProtocolInv, TasksInv
            <3>3. TaskInv(m, u)'
                BY <1>1, <3>2, TaskInvKept
            <3>4. QED BY <3>1, <3>3 DEF TaskInv
        <2>2. QED BY <2>1 DEF TasksInv
    <1>4. InboxInv'
        BY <1>1, EffectKeeps DEF ProtocolInv, InboxInv, TypeOK
    <1>5. PoolInv' /\ PoolDrains'
        BY DEF ProtocolInv, PoolInv, PoolDrains
    <1>6. QED BY <1>1, <1>2, <1>3, <1>4, <1>5 DEF ProtocolInv

LEMMA CallsIs ==
    ASSUME TypeOK, NEW n \in Hosts, Calls(n)
    PROVE  calls' \in [Hosts -> Nat]
    BY DEF TypeOK, Calls

\* The block is proposed by the step that broadcasts its proposal.
LEMMA ProposeBlockKeeps ==
    ASSUME ProtocolInv, NEW n \in Hosts, ProposeBlock(n)
    PROVE  Effect /\ ProtocolInv'
    <1>1. /\ TypeOK /\ LeaderID \in Validators
          /\ UNCHANGED <<status, pool, task, lock, validators, calls>>
        BY HostsAssumption DEF ProposeBlock, ProtocolInv
    <1>2. PICK h \in Blocks, stored \in Outcomes, sent \in Outcomes :
            /\ st' = [st EXCEPT ![n] = AddProposal(st[n], h, stored)]
            /\ Broadcast(Packet("proposal", LeaderID, h), stored /\ sent)
        BY DEF ProposeBlock
    <1>3. Effect
        BY <1>1, <1>2, AddProposalIs, LimitsAssumption
    <1> DEFINE p == Packet("proposal", LeaderID, h)
    <1>4. p \in Packets /\ p.type = "proposal" /\ p.block = h
        BY <1>1 DEF Packet, Packets
    <1>5. st[n] \in States(Validators)
        BY <1>1 DEF TypeOK
    <1>6. h \in st'[n].proposals
        BY <1>1, <1>2, <1>5 DEF AddProposal, States, TypeOK
    <1>7. Justified(p)'
        BY <1>4, <1>6 DEF Justified, Proposed
    <1> HIDE DEF p
    <1>8. /\ inbox' \in [Hosts -> SUBSET Packets]
          /\ \A m \in Hosts : inbox'[m] \subseteq inbox[m] \cup {p}
        BY <1>1, <1>2, <1>4 DEF Broadcast, TypeOK, p
    <1>9. TypeOK'
        BY <1>1, <1>3, <1>8 DEF TypeOK, Effect
    <1>10. TasksInv'
        <2>1. ASSUME NEW m \in Hosts, NEW r \in Slots[m] PROVE TaskInv(m, task[m][r])'
            <3>1. PICK u : u = task[m][r]
                OBVIOUS
            <3>2. TaskInv(m, u)
                BY <3>1 DEF ProtocolInv, TasksInv
            <3>3. TaskInv(m, u)'
                BY <1>3, <3>2, TaskInvKept
            <3>4. task'[m][r] = u
                BY <1>1, <3>1
            <3>5. QED BY <3>3, <3>4 DEF TaskInv
        <2>2. QED BY <2>1 DEF TasksInv
    <1>11. InboxInv'
        <2>1. ASSUME NEW m \in Hosts, NEW q \in inbox'[m] PROVE Justified(q)'
            <3>1. CASE q = p
                BY <1>7, <3>1 DEF Justified
            <3>2. CASE q # p
                <4>1. q \in inbox[m] /\ q \in Packets
                    BY <1>8, <3>2
                <4>2. QED BY <1>3, <4>1, EffectKeeps DEF ProtocolInv, InboxInv
            <3>3. QED BY <3>1, <3>2
        <2>2. QED BY <2>1 DEF InboxInv
    <1>12. PoolInv' /\ PoolDrains'
        BY <1>1 DEF ProtocolInv, PoolInv, PoolDrains
    <1>13. QED BY <1>3, <1>9, <1>10, <1>11, <1>12 DEF ProtocolInv

LEMMA ApproveProposalKeeps ==
    ASSUME ProtocolInv, NEW n \in Hosts, ApproveProposal(n)
    PROVE  Effect /\ ProtocolInv'
    <1>1. /\ TypeOK /\ Calls(n) /\ HasSlot(n)
          /\ UNCHANGED <<status, inbox, pool, lock, validators, st>>
        BY DEF ApproveProposal, ProtocolInv
    <1>2. PICK h \in st[n].proposals, v \in validators[n] :
            Spawn(n, Running("approve", Packet("approval", v, h), TRUE))
        BY DEF ApproveProposal
    <1> DEFINE p == Packet("approval", v, h)
    <1>3. h \in Blocks /\ v \in Validators /\ h \in Proposed
        BY <1>1 DEF TypeOK, States, Proposed
    <1>4. p \in Packets /\ p.type = "approval" /\ Justified(p)
        BY <1>3 DEF Packet, Packets, Justified
    <1> HIDE DEF p
    <1>5. Spawn(n, Running("approve", p, TRUE))
        BY <1>2 DEF p
    <1>6. QED BY <1>1, <1>4, <1>5, CallSpawns, UnchangedIs

LEMMA FinalizeBlockKeeps ==
    ASSUME ProtocolInv, NEW n \in Hosts, FinalizeBlock(n)
    PROVE  Effect /\ ProtocolInv'
    <1>1. /\ TypeOK /\ Calls(n) /\ HasSlot(n)
          /\ UNCHANGED <<status, inbox, pool, lock, validators, st>>
        BY DEF FinalizeBlock, ProtocolInv
    <1>2. PICK h \in st[n].proposals :
            Spawn(n, Running("check", FinalizationPacket(h), TRUE))
        BY DEF FinalizeBlock
    <1> DEFINE p == FinalizationPacket(h)
    <1>3. h \in Blocks
        BY <1>1 DEF TypeOK, States
    <1>4. p \in Packets /\ p.type = "finalization"
        BY <1>3 DEF FinalizationPacket, Packet, Packets
    <1> HIDE DEF p
    <1>5. Spawn(n, Running("check", p, TRUE))
        BY <1>2 DEF p
    <1>6. QED BY <1>1, <1>4, <1>5, CallSpawns, UnchangedIs

LEMMA MoverKeeps ==
    ASSUME ProtocolInv, NEW n \in Hosts, NEW v \in Movers,
           AddValidator(n, v) \/ RemoveValidator(n, v)
    PROVE  Effect /\ ProtocolInv'
    <1>1. TypeOK /\ Calls(n) /\ UNCHANGED <<status, inbox, pool, task, lock, st>>
        BY DEF AddValidator, RemoveValidator, ProtocolInv
    <1>2. validators' \in [Hosts -> SUBSET Validators]
        <2>1. /\ validators \in [Hosts -> SUBSET Validators] /\ v \in Validators
              /\ validators[n] \in SUBSET Validators
            BY <1>1, LimitsAssumption DEF TypeOK
        <2>2. PICK x \in SUBSET Validators : validators' = [validators EXCEPT ![n] = x]
            <3>1. CASE AddValidator(n, v)
                <4>1. validators[n] \cup {v} \in SUBSET Validators
                    BY <2>1
                <4>2. QED BY <3>1, <4>1 DEF AddValidator
            <3>2. CASE RemoveValidator(n, v)
                <4>1. validators[n] \ {v} \in SUBSET Validators
                    BY <2>1
                <4>2. QED BY <3>2, <4>1 DEF RemoveValidator
            <3>3. QED BY <3>1, <3>2
        <2>3. QED BY <2>1, <2>2
    <1>3. status' \in [Hosts -> {"running", "stopping", "stopped"}]
        BY <1>1 DEF TypeOK
    <1>4. QED BY <1>1, <1>2, <1>3, CallsIs, OtherwiseIdle

LEMMA ShutdownKeeps ==
    ASSUME ProtocolInv, NEW n \in Hosts, Shutdown(n) \/ ShutdownReturns(n)
    PROVE  Effect /\ ProtocolInv'
    <1>1. TypeOK /\ UNCHANGED <<inbox, pool, task, lock, validators, st>>
        BY DEF Shutdown, ShutdownReturns, ProtocolInv
    <1>2. status' \in [Hosts -> {"running", "stopping", "stopped"}]
        BY <1>1 DEF Shutdown, ShutdownReturns, TypeOK
    <1>3. calls' \in [Hosts -> Nat]
        BY <1>1, CallsIs DEF Shutdown, ShutdownReturns, TypeOK
    <1>4. validators' \in [Hosts -> SUBSET Validators]
        BY <1>1 DEF TypeOK
    <1>5. QED BY <1>1, <1>2, <1>3, <1>4, OtherwiseIdle

LEMMA ReceiveNextKeeps ==
    ASSUME ProtocolInv, NEW n \in Hosts, ReceiveNext(n)
    PROVE  Effect /\ ProtocolInv'
    <1>1. PICK p \in inbox[n] : Receive(n, p)
        BY DEF ReceiveNext
    <1>2. QED BY <1>1, ReceiveKeeps, UnchangedIs DEF Receive, ProtocolInv

-----------------------------------------------------------------------------
(* The invariant *)

LEMMA ProtocolInvInit == Init => ProtocolInv
    <1> SUFFICES ASSUME Init PROVE ProtocolInv
        OBVIOUS
    <1>1. NewState(EmptyDisk) \in States(Validators)
        BY DEF NewState, EmptyDisk, States, Stored
    <1>2. Idle \in Tasks /\ \A n \in Hosts : TaskInv(n, Idle)
        BY NoPacketIs DEF Idle, Tasks, Steps, TaskInv
    <1>3. TypeOK
        <2>1. pool \in [Hosts -> [Blocks -> Packets \cup {NoPacket}]]
            BY DEF Init, NewMessagePool
        <2>2. DOMAIN task = Hosts /\ \A n \in Hosts : task[n] \in [Slots[n] -> Tasks]
            BY <1>2 DEF Init
        <2>3. DOMAIN lock = Hosts /\ \A n \in Hosts : lock[n] \in [Locks -> SUBSET Slots[n]]
            BY DEF Init
        <2>4. QED BY <1>1, <2>1, <2>2, <2>3, SetAssumption DEF Init, TypeOK
    <1>4. TasksInv
        BY <1>2 DEF Init, TasksInv
    <1>5. InboxInv /\ PoolInv /\ PoolDrains
        BY DEF Init, InboxInv, PoolInv, PoolDrains, NewMessagePool
    <1>6. QED BY <1>3, <1>4, <1>5 DEF ProtocolInv

\* Every step keeps the invariant and has one of the effects on the states.
LEMMA ProtocolStep == ProtocolInv /\ [Next]_vars => Effect /\ ProtocolInv'
    <1> SUFFICES ASSUME ProtocolInv, [Next]_vars PROVE Effect /\ ProtocolInv'
        OBVIOUS
    <1>1. CASE UNCHANGED vars
        <2>1. /\ UNCHANGED <<inbox, pool, task, lock, st, status, validators, calls>>
              /\ TypeOK
            BY <1>1 DEF vars, ProtocolInv
        <2>2. /\ status' \in [Hosts -> {"running", "stopping", "stopped"}]
              /\ validators' \in [Hosts -> SUBSET Validators] /\ calls' \in [Hosts -> Nat]
            BY <2>1 DEF TypeOK
        <2>3. QED BY <2>1, <2>2, OtherwiseIdle
    <1>2. CASE Next
        <2>1. PICK n \in Hosts :
                \/ ProposeBlock(n) \/ ApproveProposal(n) \/ FinalizeBlock(n)
                \/ \E v \in Movers : AddValidator(n, v) \/ RemoveValidator(n, v)
                \/ Shutdown(n) \/ ShutdownReturns(n) \/ ReceiveNext(n)
                \/ \E s \in Slots[n] : TaskStep(n, s)
            BY <1>2 DEF Next
        <2>2. CASE ProposeBlock(n) \/ ApproveProposal(n) \/ FinalizeBlock(n)
            BY <2>2, ProposeBlockKeeps, ApproveProposalKeeps, FinalizeBlockKeeps
        <2>3. CASE \E v \in Movers : AddValidator(n, v) \/ RemoveValidator(n, v)
            BY <2>3, MoverKeeps
        <2>4. CASE Shutdown(n) \/ ShutdownReturns(n)
            BY <2>4, ShutdownKeeps
        <2>5. CASE ReceiveNext(n)
            BY <2>5, ReceiveNextKeeps
        <2>6. CASE \E s \in Slots[n] : TaskStep(n, s)
            BY <2>6, TaskStepKeeps
        <2>7. QED BY <2>1, <2>2, <2>3, <2>4, <2>5, <2>6
    <1>3. QED BY <1>1, <1>2

\* Whatever the goroutines of the hosts do and in whichever order, a packet is on
\* its way, and a goroutine at work on it, only when what it reports has happened:
\* a proposal for an approval, and a quorum of approvals for a finalization, which
\* carries no proof of it (HandleFinalization).
THEOREM ProtocolInvariant == Spec => []ProtocolInv
    <1>1. ProtocolInv /\ [Next]_vars => ProtocolInv'
        BY ProtocolStep
    <1>2. QED BY ProtocolInvInit, <1>1, PTL DEF Spec

\* Every variable keeps its type: in particular a task's packet and a host's
\* approvals name only validators (ApproveProposal, HandleProposal).
THEOREM TypeCorrect == Spec => []TypeOK
    <1>1. ProtocolInv => TypeOK
        BY DEF ProtocolInv
    <1>2. QED BY <1>1, ProtocolInvariant, PTL

\* A packet stays in the MessagePool only while a goroutine of the Start loop still
\* works on it, however many packets of one block overwrite each other there and
\* whichever of their goroutines removes the last (Start, RemoveMessage).
THEOREM PoolIsDrained == Spec => []PoolDrains
    <1>1. ProtocolInv => PoolDrains
        BY DEF ProtocolInv
    <1>2. QED BY <1>1, ProtocolInvariant, PTL

-----------------------------------------------------------------------------
(* The mutexes *)

\* Where a goroutine is that does not wait: behind the Lock of its handler, and
\* before its deferred Unlock.
Working == Steps \ {"idle", "handle", "remove"}

\* A goroutine of the Start loop is in a handler that has locked mutex l.
Inside(t, l) == ~t.api /\ t.pc \in Working /\ LockOf(t.pkt) = l

\* Exactly the goroutines inside such a handler hold the mutex,
HeldInv ==
    \A n \in Hosts : \A l \in Locks : \A s \in Slots[n] :
        s \in lock[n][l] <=> Inside(task[n][s], l)

\* and there is at most one.
AloneInv == \A n \in Hosts : \A l \in Locks : \A s, r \in lock[n][l] : s = r

LocksInv == HeldInv /\ AloneInv

\* Goroutine s of host n works on, returns, locks its mutex, or ends.
LockEffect(n, s) ==
    \/ /\ task[n][s].pc \in Working /\ UNCHANGED lock
       /\ \E pc \in Working : Goto(n, s, pc)
    \/ Return(n, s)
    \/ /\ task[n][s].pc = "handle" /\ lock[n][LockOf(task[n][s].pkt)] = {}
       /\ \E pc \in Working : Enter(n, s, pc)
    \/ /\ task[n][s].pc = "remove" /\ UNCHANGED lock
       /\ task' = [task EXCEPT ![n][s] = Idle]

LEMMA WorkingIs ==
    /\ {"persistProposal", "approve", "persistApproval", "check", "finalize", "persistFinal", "deliver"}
            \subseteq Working
    /\ Working \subseteq Steps
    /\ "idle" \notin Working /\ "handle" \notin Working /\ "remove" \notin Working
    BY DEF Working, Steps

LEMMA ApprovedLocks ==
    ASSUME NEW n \in Hosts, NEW s \in Slots[n], task[n][s].pc \in Working, Approved(n, s)
    PROVE  LockEffect(n, s)
    BY WorkingIs DEF Approved, LockEffect

LEMMA TaskStepLocks ==
    ASSUME NEW n \in Hosts, NEW s \in Slots[n], TaskStep(n, s)
    PROVE  LockEffect(n, s)
    <1>1. CASE HandleProposal(n, s)
        <2>1. task[n][s].pc = "handle" /\ lock[n][LockOf(task[n][s].pkt)] = {}
            BY <1>1 DEF HandleProposal, Acquires
        <2>2. Return(n, s) \/ Enter(n, s, "persistProposal")
            BY <1>1 DEF HandleProposal
        <2>3. QED BY <2>1, <2>2, WorkingIs DEF LockEffect
    <1>2. CASE HandleApproval(n, s)
        <2>1. task[n][s].pc = "handle" /\ lock[n][LockOf(task[n][s].pkt)] = {}
            BY <1>2 DEF HandleApproval, Acquires
        <2>2. Return(n, s) \/ Enter(n, s, "approve")
            BY <1>2 DEF HandleApproval
        <2>3. QED BY <2>1, <2>2, WorkingIs DEF LockEffect
    <1>3. CASE HandleFinalization(n, s)
        <2>1. task[n][s].pc = "handle" /\ lock[n][LockOf(task[n][s].pkt)] = {}
            BY <1>3 DEF HandleFinalization, Acquires
        <2>2. Return(n, s) \/ Enter(n, s, "persistFinal")
            BY <1>3 DEF HandleFinalization
        <2>3. QED BY <2>1, <2>2, WorkingIs DEF LockEffect
    <1>4. CASE PersistProposal(n, s)
        <2>1. task[n][s].pc = "persistProposal" /\ (Return(n, s) \/ (Goto(n, s, "approve") /\ UNCHANGED lock))
            BY <1>4 DEF PersistProposal
        <2>2. QED BY <2>1, WorkingIs DEF LockEffect
    <1>5. CASE RecordApproval(n, s)
        <2>1. /\ task[n][s].pc = "approve"
              /\ Approved(n, s) \/ (Goto(n, s, "persistApproval") /\ UNCHANGED lock)
            BY <1>5 DEF RecordApproval
        <2>2. QED BY <2>1, WorkingIs, ApprovedLocks DEF LockEffect
    <1>6. CASE PersistApproval(n, s)
        <2>1. task[n][s].pc = "persistApproval" /\ (Approved(n, s) \/ Return(n, s))
            BY <1>6 DEF PersistApproval
        <2>2. QED BY <2>1, WorkingIs, ApprovedLocks DEF LockEffect
    <1>7. CASE CheckQuorum(n, s)
        <2>1. task[n][s].pc = "check" /\ (Return(n, s) \/ (Goto(n, s, "finalize") /\ UNCHANGED lock))
            BY <1>7 DEF CheckQuorum
        <2>2. QED BY <2>1, WorkingIs DEF LockEffect
    <1>8. CASE MarkFinalized(n, s)
        <2>1. task[n][s].pc = "finalize" /\ Goto(n, s, "persistFinal") /\ UNCHANGED lock
            BY <1>8 DEF MarkFinalized
        <2>2. QED BY <2>1, WorkingIs DEF LockEffect
    <1>9. CASE PersistFinal(n, s)
        <2>1. task[n][s].pc = "persistFinal" /\ (Return(n, s) \/ (Goto(n, s, "deliver") /\ UNCHANGED lock))
            BY <1>9 DEF PersistFinal
        <2>2. QED BY <2>1, WorkingIs DEF LockEffect
    <1>10. CASE Deliver(n, s)
        BY <1>10 DEF Deliver, LockEffect
    <1>11. CASE RemoveMessage(n, s)
        BY <1>11 DEF RemoveMessage, LockEffect
    <1>12. QED BY <1>1, <1>2, <1>3, <1>4, <1>5, <1>6, <1>7, <1>8, <1>9, <1>10, <1>11
        DEF TaskStep, HandleMessage

\* One goroutine moves and the mutexes stay as they are,
LEMMA LocksStay ==
    ASSUME TypeOK, LocksInv, NEW n \in Hosts, NEW s \in Slots[n], NEW t \in Tasks,
           task' = [task EXCEPT ![n][s] = t], UNCHANGED lock,
           \A l \in Locks : Inside(t, l) <=> Inside(task[n][s], l)
    PROVE  LocksInv'
    <1>1. \A m \in Hosts : \A r \in Slots[m] : task'[m][r] = IF m = n /\ r = s THEN t ELSE task[m][r]
        <2>1. SetsTask(n, s, t)
            BY DEF SetsTask
        <2>2. TasksAfter(n, s, t)
            BY <2>1, TaskAfter
        <2>3. QED BY <2>2 DEF TasksAfter
    <1>2. ASSUME NEW m \in Hosts, NEW l \in Locks, NEW r \in Slots[m]
          PROVE  r \in lock'[m][l] <=> Inside(task'[m][r], l)
        <2>1. r \in lock[m][l] <=> Inside(task[m][r], l)
            BY DEF LocksInv, HeldInv
        <2>2. QED BY <1>1, <2>1
    <1>3. AloneInv'
        BY DEF LocksInv, AloneInv
    <1>4. QED BY <1>2, <1>3 DEF LocksInv, HeldInv, Inside

\* it gives up what it holds,
LEMMA LocksGivenUp ==
    ASSUME TypeOK, LocksInv, NEW n \in Hosts, NEW s \in Slots[n], NEW t \in Tasks,
           task' = [task EXCEPT ![n][s] = t],
           lock' = [lock EXCEPT ![n] = [l \in Locks |-> lock[n][l] \ {s}]],
           \A l \in Locks : ~Inside(t, l)
    PROVE  LocksInv'
    <1>1. \A m \in Hosts : \A r \in Slots[m] : task'[m][r] = IF m = n /\ r = s THEN t ELSE task[m][r]
        <2>1. SetsTask(n, s, t)
            BY DEF SetsTask
        <2>2. TasksAfter(n, s, t)
            BY <2>1, TaskAfter
        <2>3. QED BY <2>2 DEF TasksAfter
    <1>2. \A m \in Hosts : \A l \in Locks : lock'[m][l] = IF m = n THEN lock[m][l] \ {s} ELSE lock[m][l]
        BY DEF TypeOK
    <1>3. ASSUME NEW m \in Hosts, NEW l \in Locks, NEW r \in Slots[m]
          PROVE  r \in lock'[m][l] <=> Inside(task'[m][r], l)
        <2>1. r \in lock[m][l] <=> Inside(task[m][r], l)
            BY DEF LocksInv, HeldInv
        <2>2. CASE m = n /\ r = s
            <3>1. task'[m][r] = t
                BY <1>1, <2>2
            <3>2. r \notin lock'[m][l]
                <4>1. lock'[m][l] = lock[m][l] \ {s}
                    BY <1>2, <2>2
                <4>2. r \notin lock[m][l] \ {s}
                    BY <2>2
                <4>3. QED BY <4>1, <4>2
            <3>3. QED BY <3>1, <3>2
        <2>3. CASE ~(m = n /\ r = s)
            <3>1. task'[m][r] = task[m][r]
                BY <1>1, <2>3
            <3>2. r \in lock'[m][l] <=> r \in lock[m][l]
                BY <1>2, <2>3
            <3>3. QED BY <2>1, <3>1, <3>2
        <2>4. QED BY <2>2, <2>3
    <1>4. AloneInv'
        BY <1>2 DEF LocksInv, AloneInv
    <1>5. QED BY <1>3, <1>4 DEF LocksInv, HeldInv, Inside

\* or it takes one that is free.
LEMMA LockTaken ==
    ASSUME TypeOK, LocksInv, NEW n \in Hosts, NEW s \in Slots[n], NEW t \in Tasks, NEW k \in Locks,
           task' = [task EXCEPT ![n][s] = t],
           lock[n][k] = {}, lock' = [lock EXCEPT ![n][k] = {s}],
           \A l \in Locks : ~Inside(task[n][s], l),
           \A l \in Locks : Inside(t, l) <=> l = k
    PROVE  LocksInv'
    <1>1. \A m \in Hosts : \A r \in Slots[m] : task'[m][r] = IF m = n /\ r = s THEN t ELSE task[m][r]
        <2>1. SetsTask(n, s, t)
            BY DEF SetsTask
        <2>2. TasksAfter(n, s, t)
            BY <2>1, TaskAfter
        <2>3. QED BY <2>2 DEF TasksAfter
    <1>2. \A m \in Hosts : \A l \in Locks : lock'[m][l] = IF m = n /\ l = k THEN {s} ELSE lock[m][l]
        BY DEF TypeOK
    <1>3. ASSUME NEW m \in Hosts, NEW l \in Locks, NEW r \in Slots[m]
          PROVE  r \in lock'[m][l] <=> Inside(task'[m][r], l)
        <2>1. r \in lock[m][l] <=> Inside(task[m][r], l)
            BY DEF LocksInv, HeldInv
        <2>2. CASE m = n /\ r = s
            BY <1>1, <1>2, <2>1, <2>2
        <2>3. CASE m = n /\ r # s /\ l = k
            <3>1. r \notin lock[m][l] /\ r \notin lock'[m][l]
                BY <1>2, <2>3
            <3>2. task'[m][r] = task[m][r]
                BY <1>1, <2>3
            <3>3. QED BY <2>1, <3>1, <3>2
        <2>4. CASE ~(m = n /\ r = s) /\ ~(m = n /\ l = k)
            BY <1>1, <1>2, <2>1, <2>4
        <2>5. QED BY <2>2, <2>3, <2>4
    <1>4. AloneInv'
        BY <1>2 DEF LocksInv, AloneInv
    <1>5. QED BY <1>3, <1>4 DEF LocksInv, HeldInv, Inside

LEMMA NotInside ==
    ASSUME NEW t, t.pc \notin Working \/ t.api, NEW l
    PROVE  ~Inside(t, l)
    BY DEF Inside

LEMMA LockEffectKeeps ==
    ASSUME ProtocolInv, LocksInv, NEW n \in Hosts, NEW s \in Slots[n], LockEffect(n, s)
    PROVE  LocksInv'
    <1>1. /\ TypeOK /\ task[n][s] \in Tasks /\ TaskInv(n, task[n][s])
        BY TaskIs DEF ProtocolInv, TasksInv
    <1>2. Idle \in Tasks /\ Idle.pc \notin Working
        BY WorkingIs DEF Idle, Tasks, Steps
    <1>3. ASSUME NEW pc \in Working, task[n][s].pc \in Working, UNCHANGED lock, Goto(n, s, pc)
          PROVE  LocksInv'
        <2> DEFINE t == [task[n][s] EXCEPT !.pc = pc]
        <2>1. t \in Tasks /\ t.pc = pc /\ t.api = task[n][s].api /\ t.pkt = task[n][s].pkt
            BY <1>1, WorkingIs DEF Tasks
        <2>2. task' = [task EXCEPT ![n][s] = t]
            BY <1>3 DEF Goto
        <2> HIDE DEF t
        <2>3. \A l \in Locks : Inside(t, l) <=> Inside(task[n][s], l)
            BY <1>3, <2>1 DEF Inside
        <2>4. QED BY <1>1, <1>3, <2>1, <2>2, <2>3, LocksStay
    <1>4. ASSUME Return(n, s) PROVE LocksInv'
        <2> DEFINE t == IF task[n][s].api THEN Idle ELSE [task[n][s] EXCEPT !.pc = "remove"]
        <2>1. t \in Tasks /\ t.pc \notin Working
            BY <1>1, <1>2, WorkingIs DEF Tasks, Steps
        <2>2. /\ task' = [task EXCEPT ![n][s] = t]
              /\ lock' = [lock EXCEPT ![n] = [l \in Locks |-> lock[n][l] \ {s}]]
            BY <1>4 DEF Return
        <2> HIDE DEF t
        <2>3. \A l \in Locks : ~Inside(t, l)
            BY <2>1, NotInside
        <2>4. QED BY <1>1, <2>1, <2>2, <2>3, LocksGivenUp
    <1>5. ASSUME NEW pc \in Working, task[n][s].pc = "handle", lock[n][LockOf(task[n][s].pkt)] = {},
                 Enter(n, s, pc)
          PROVE  LocksInv'
        <2> DEFINE t == [task[n][s] EXCEPT !.pc = pc]
                   k == LockOf(task[n][s].pkt)
        <2>1. t \in Tasks /\ t.pc = pc /\ t.api = task[n][s].api /\ t.pkt = task[n][s].pkt
            BY <1>1, WorkingIs DEF Tasks
        <2>2. task' = [task EXCEPT ![n][s] = t] /\ lock' = [lock EXCEPT ![n][k] = {s}]
            BY <1>5 DEF Enter, Goto
        <2>3. k \in Locks
            BY DEF LockOf, Locks
        <2>4. ~task[n][s].api
            BY <1>1, <1>5 DEF TaskInv
        <2> HIDE DEF t
        <2>5. \A l \in Locks : Inside(t, l) <=> l = k
            BY <2>1, <2>4 DEF Inside
        <2>6. \A l \in Locks : ~Inside(task[n][s], l)
            BY <1>5, WorkingIs, NotInside
        <2> HIDE DEF k
        <2>7. lock[n][k] = {}
            BY <1>5 DEF k
        <2>8. QED BY <1>1, <2>1, <2>2, <2>3, <2>5, <2>6, <2>7, LockTaken
    <1>6. ASSUME task[n][s].pc = "remove", UNCHANGED lock, task' = [task EXCEPT ![n][s] = Idle]
          PROVE  LocksInv'
        <2>1. \A l \in Locks : ~Inside(Idle, l) /\ ~Inside(task[n][s], l)
            BY <1>2, <1>6, WorkingIs, NotInside
        <2>2. QED BY <1>1, <1>2, <1>6, <2>1, LocksStay
    <1>7. QED BY <1>3, <1>4, <1>5, <1>6 DEF LockEffect

\* A new goroutine is an application's or has its mutex still to take.
LEMMA SpawnLocks ==
    ASSUME ProtocolInv, LocksInv, NEW n \in Hosts, HasSlot(n), NEW t \in Tasks, Spawn(n, t),
           UNCHANGED lock, t.api \/ t.pc = "handle"
    PROVE  LocksInv'
    <1>1. PICK s \in Slots[n] : task[n][s] = Idle /\ task' = [task EXCEPT ![n][s] = t]
        BY SpawnIs DEF ProtocolInv
    <1>2. Idle.pc \notin Working
        BY WorkingIs DEF Idle
    <1>3. \A l \in Locks : ~Inside(t, l) /\ ~Inside(task[n][s], l)
        BY <1>1, <1>2, WorkingIs, NotInside
    <1>4. QED BY <1>1, <1>3, LocksStay DEF ProtocolInv

LEMMA LocksInit == Init => LocksInv
    <1> SUFFICES ASSUME Init PROVE LocksInv
        OBVIOUS
    <1>1. Idle.pc \notin Working
        BY WorkingIs DEF Idle
    <1>2. \A l \in Locks : ~Inside(Idle, l)
        BY <1>1, NotInside
    <1>3. \A n \in Hosts : \A l \in Locks : lock[n][l] = {}
        BY DEF Init
    <1>4. \A n \in Hosts : \A s \in Slots[n] : task[n][s] = Idle
        BY DEF Init
    <1>5. QED BY <1>2, <1>3, <1>4 DEF LocksInv, HeldInv, AloneInv

LEMMA LocksStep == ProtocolInv /\ LocksInv /\ [Next]_vars => LocksInv'
    <1> SUFFICES ASSUME ProtocolInv, LocksInv, [Next]_vars PROVE LocksInv'
        OBVIOUS
    <1>1. ASSUME UNCHANGED <<task, lock>> PROVE LocksInv'
        BY <1>1 DEF LocksInv, HeldInv, AloneInv, Inside
    <1>2. CASE UNCHANGED vars
        BY <1>1, <1>2 DEF vars
    <1>3. ASSUME NEW n \in Hosts, ApproveProposal(n) PROVE LocksInv'
        <2>1. PICK h \in st[n].proposals, v \in validators[n] \cap Keys[n] :
                Spawn(n, Running("approve", Packet("approval", v, h), TRUE))
            BY <1>3 DEF ApproveProposal
        <2> DEFINE t == Running("approve", Packet("approval", v, h), TRUE)
        <2>2. t \in Tasks /\ t.api
            <3>1. h \in Blocks /\ v \in Validators
                BY <2>1 DEF ProtocolInv, TypeOK, States
            <3>2. QED BY <3>1 DEF Running, Packet, Tasks, Packets, Steps
        <2>3. HasSlot(n) /\ UNCHANGED lock
            BY <1>3 DEF ApproveProposal
        <2> HIDE DEF t
        <2>4. Spawn(n, t)
            BY <2>1 DEF t
        <2>5. QED BY <2>2, <2>3, <2>4, SpawnLocks
    <1>4. ASSUME NEW n \in Hosts, FinalizeBlock(n) PROVE LocksInv'
        <2>1. PICK h \in st[n].proposals : Spawn(n, Running("check", FinalizationPacket(h), TRUE))
            BY <1>4 DEF FinalizeBlock
        <2> DEFINE t == Running("check", FinalizationPacket(h), TRUE)
        <2>2. t \in Tasks /\ t.api
            <3>1. h \in Blocks
                BY <2>1 DEF ProtocolInv, TypeOK, States
            <3>2. QED BY <3>1 DEF Running, FinalizationPacket, Packet, Tasks, Packets, Steps
        <2>3. HasSlot(n) /\ UNCHANGED lock
            BY <1>4 DEF FinalizeBlock
        <2> HIDE DEF t
        <2>4. Spawn(n, t)
            BY <2>1 DEF t
        <2>5. QED BY <2>2, <2>3, <2>4, SpawnLocks
    <1>5. ASSUME NEW n \in Hosts, ReceiveNext(n) PROVE LocksInv'
        <2>1. PICK p \in inbox[n] : Receive(n, p)
            BY <1>5 DEF ReceiveNext
        <2> DEFINE t == Running("handle", p, FALSE)
        <2>2. t \in Tasks /\ t.pc = "handle"
            <3>1. p \in Packets
                BY <2>1 DEF ProtocolInv, TypeOK
            <3>2. QED BY <3>1 DEF Running, Tasks, Steps
        <2>3. HasSlot(n) /\ UNCHANGED lock /\ Spawn(n, t)
            BY <2>1 DEF Receive
        <2> HIDE DEF t
        <2>4. QED BY <2>2, <2>3, SpawnLocks
    <1>6. CASE Next
        <2>1. PICK n \in Hosts :
                \/ ProposeBlock(n) \/ ApproveProposal(n) \/ FinalizeBlock(n)
                \/ \E v \in Movers : AddValidator(n, v) \/ RemoveValidator(n, v)
                \/ Shutdown(n) \/ ShutdownReturns(n) \/ ReceiveNext(n)
                \/ \E s \in Slots[n] : TaskStep(n, s)
            BY <1>6 DEF Next
        <2>2. CASE ProposeBlock(n) \/ Shutdown(n) \/ ShutdownReturns(n)
            BY <1>1, <2>2 DEF ProposeBlock, Shutdown, ShutdownReturns
        <2>3. CASE \E v \in Movers : AddValidator(n, v) \/ RemoveValidator(n, v)
            BY <1>1, <2>3 DEF AddValidator, RemoveValidator
        <2>4. CASE \E s \in Slots[n] : TaskStep(n, s)
            BY <2>4, TaskStepLocks, LockEffectKeeps
        <2>5. QED BY <1>3, <1>4, <1>5, <2>1, <2>2, <2>3, <2>4
    <1>7. QED BY <1>2, <1>6

LEMMA LocksAlways == Spec => []LocksInv
    BY LocksInit, LocksStep, ProtocolInvariant, PTL DEF Spec

\* A mutex is held by one goroutine, which is inside the handler that has locked it
\* and waits for no mutex; so who waits for one holds none.
NobodyWaitsForAWaiter ==
    \A n \in Hosts : \A l \in Locks : \A s \in lock[n][l] :
        /\ lock[n][l] = {s}
        /\ task[n][s].pc \notin {"idle", "handle", "remove"}
        /\ \A k \in Locks : s \in lock[n][k] => k = l

\* The handlers never wait in a circle: whoever holds a mutex needs no other one,
\* though HandleProposal calls ApproveProposal and FinalizeBlock under mutex, and
\* has given it up when it returns, on every path and whatever write or broadcast
\* has failed (the deferred Unlock of HandleProposal, HandleApproval and
\* HandleFinalization).  That such a goroutine then returns is fairness.
THEOREM NoCircularWait == Spec => []NobodyWaitsForAWaiter
    <1>1. ProtocolInv /\ LocksInv => NobodyWaitsForAWaiter
        <2> SUFFICES ASSUME ProtocolInv, LocksInv, NEW n \in Hosts, NEW l \in Locks, NEW s \in lock[n][l]
                     PROVE  /\ lock[n][l] = {s}
                            /\ task[n][s].pc \notin {"idle", "handle", "remove"}
                            /\ \A k \in Locks : s \in lock[n][k] => k = l
            BY DEF NobodyWaitsForAWaiter
        <2>1. s \in Slots[n]
            BY DEF ProtocolInv, TypeOK
        <2>2. Inside(task[n][s], l)
            BY <2>1 DEF LocksInv, HeldInv
        <2>3. lock[n][l] = {s}
            BY DEF LocksInv, AloneInv
        <2>4. \A k \in Locks : s \in lock[n][k] => k = l
            BY <2>1, <2>2 DEF LocksInv, HeldInv, Inside
        <2>5. QED BY <2>2, <2>3, <2>4 DEF Inside, Working
    <1>2. QED BY <1>1, ProtocolInvariant, LocksAlways, PTL

\* Two goroutines of the Start loop are never at work in handlers that share a
\* mutex: a host works on one proposal or finalization and on one approval at a
\* time (HandleProposal and HandleFinalization; HandleApproval).
HandlersTakeTurns ==
    \A n \in Hosts : \A l \in Locks : \A s, r \in Slots[n] :
        Inside(task[n][s], l) /\ Inside(task[n][r], l) => s = r

\* No two handlers of the same mutex are ever between their Lock and their Unlock.
THEOREM HandlersExclude == Spec => []HandlersTakeTurns
    <1>1. LocksInv => HandlersTakeTurns
        BY DEF LocksInv, HeldInv, AloneInv, HandlersTakeTurns
    <1>2. QED BY <1>1, LocksAlways, PTL

-----------------------------------------------------------------------------
(* What is final *)

\* A block that some host has recorded as final was approved by a quorum,
FinalizedHasQuorum == \A n \in Hosts : \A h \in st[n].finalized : Quorate(h)

\* and a block that was approved was proposed.
ApprovedWasProposed == \A h \in Blocks : Approvers(h) # {} => h \in Proposed

VotesInv == FinalizedHasQuorum /\ ApprovedWasProposed

LEMMA VotesInit == Init => VotesInv
    <1> SUFFICES ASSUME Init PROVE VotesInv
        OBVIOUS
    <1>1. \A n \in Hosts : st[n].finalized = {} /\ \A h \in Blocks : st[n].approvals[h] = {}
        BY DEF Init, NewState
    <1>2. \A h \in Blocks : Approvers(h) = {}
        BY <1>1 DEF Approvers
    <1>3. QED BY <1>1, <1>2 DEF VotesInv, FinalizedHasQuorum, ApprovedWasProposed

LEMMA VotesStep ==
    ASSUME TypeOK, VotesInv, Effect
    PROVE  VotesInv'
    <1>1. \A n \in Hosts : st[n].finalized \subseteq Blocks /\ st'[n].finalized \subseteq Blocks
        BY DEF TypeOK, Effect, States
    <1>2. \A h \in Blocks : Quorate(h) => Quorate(h)'
        BY EffectKeeps
    <1>3. ASSUME NEW m \in Hosts, NEW h \in st'[m].finalized PROVE h \in st[m].finalized \/ Quorate(h)
        <2>1. CASE Quiet \/ \E n \in Hosts, g \in Blocks : Proposes(n, g)
            BY <1>3, <2>1 DEF Quiet, Proposes, OthersSame, Same
        <2>2. CASE \E n \in Hosts, v \in Validators, g \in Blocks : Approves(n, v, g)
            BY <1>3, <2>2 DEF Approves, OthersSame, Same
        <2>3. CASE \E n \in Hosts, g \in Blocks : Finalizes(n, g)
            BY <1>3, <2>3 DEF Finalizes, OthersSame, Same
        <2>4. QED BY <2>1, <2>2, <2>3 DEF Effect
    <1>4. FinalizedHasQuorum'
        <2>1. ASSUME NEW m \in Hosts, NEW h \in st'[m].finalized PROVE Quorate(h)'
            <3>1. h \in Blocks /\ Quorate(h)
                BY <1>1, <1>3, <2>1 DEF VotesInv, FinalizedHasQuorum
            <3>2. QED BY <1>2, <3>1
        <2>2. QED BY <2>1 DEF FinalizedHasQuorum
    <1>5. Proposed \subseteq Proposed'
        <2>1. \A m \in Hosts : st[m].proposals \subseteq st'[m].proposals
            BY DEF Effect, Quiet, Proposes, Approves, Finalizes, OthersSame, Same
        <2>2. QED BY <2>1 DEF Proposed
    <1>6. ASSUME NEW h \in Blocks, NEW m \in Hosts, NEW w \in st'[m].approvals[h]
          PROVE  w \in st[m].approvals[h] \/ h \in Proposed
        <2>1. CASE Quiet \/ \E n \in Hosts, g \in Blocks : Proposes(n, g) \/ Finalizes(n, g)
            BY <1>6, <2>1 DEF Quiet, Proposes, Finalizes, OthersSame, Same
        <2>2. CASE \E n \in Hosts, v \in Validators, g \in Blocks : Approves(n, v, g)
            BY <1>6, <2>2 DEF Approves, OthersSame, Same
        <2>3. QED BY <2>1, <2>2 DEF Effect
    <1>7. ApprovedWasProposed'
        <2>1. ASSUME NEW h \in Blocks, Approvers(h)' # {} PROVE h \in Proposed
            <3>1. PICK m \in Hosts : st'[m].approvals[h] # {}
                BY <2>1 DEF Approvers
            <3>2. PICK w : w \in st'[m].approvals[h]
                BY <3>1
            <3>3. CASE w \in st[m].approvals[h]
                BY <3>3 DEF Approvers, VotesInv, ApprovedWasProposed
            <3>4. QED BY <1>6, <3>2, <3>3
        <2>2. QED BY <1>5, <2>1 DEF ApprovedWasProposed
    <1>8. QED BY <1>4, <1>7 DEF VotesInv

LEMMA VotesAlways == Spec => []VotesInv
    <1>1. ProtocolInv /\ VotesInv /\ [Next]_vars => VotesInv'
        BY ProtocolStep, VotesStep DEF ProtocolInv
    <1>2. QED BY <1>1, VotesInit, ProtocolInvariant, PTL DEF Spec

\* What a host records as final has the approvals of a whole quorum of validators,
\* though the host may have seen none of them: HandleFinalization believes a packet
\* that nobody has signed.
THEOREM QuorumSafety == Spec => []FinalizedHasQuorum
    <1>1. VotesInv => FinalizedHasQuorum
        BY DEF VotesInv
    <1>2. QED BY <1>1, VotesAlways, PTL

\* A quorum has a member, whatever the validators and the threshold.
LEMMA QuorumHasMember ==
    ASSUME NEW Q \in Quorums
    PROVE  Q # {}
    <1>1. QuorumThreshold \in Nat \ {0}
        <2>1. Cardinality(InitialSet) \in Nat
            BY SetAssumption, FS_CardinalityType
        <2>2. QED BY <2>1, SetAssumption DEF QuorumThreshold, QuorumSize
    <1>2. Cardinality(Q) >= QuorumThreshold
        BY DEF Quorums
    <1>3. QED BY <1>1, <1>2, FS_EmptySet

\* A block that no host has proposed is final on none.
FinalizedWasProposed == \A n \in Hosts : st[n].finalized \subseteq Proposed

\* Nothing becomes final that was never proposed, although neither FinalizeBlock
\* nor HandleFinalization looks for the proposal.
THEOREM OnlyProposedBlocks == Spec => []FinalizedWasProposed
    <1>1. TypeOK /\ VotesInv => FinalizedWasProposed
        <2> SUFFICES ASSUME TypeOK, VotesInv, NEW n \in Hosts, NEW h \in st[n].finalized
                     PROVE  h \in Proposed
            BY DEF FinalizedWasProposed
        <2>1. h \in Blocks
            BY DEF TypeOK, States
        <2>2. PICK Q \in Quorums : Q \subseteq Approvers(h)
            BY DEF VotesInv, FinalizedHasQuorum, Quorate
        <2>3. Approvers(h) # {}
            BY <2>2, QuorumHasMember
        <2>4. QED BY <2>1, <2>3 DEF VotesInv, ApprovedWasProposed
    <1>2. QED BY <1>1, VotesAlways, TypeCorrect, PTL

\* Two quorums of the default size, 2/3 of the validators and one (QuorumSize),
\* have more than a third of the validators in common.
THEOREM QuorumsOverlap ==
    ASSUME NEW V, IsFiniteSet(V), NEW Q \in SUBSET V, NEW R \in SUBSET V,
           Cardinality(Q) >= QuorumSize(V, 0), Cardinality(R) >= QuorumSize(V, 0)
    PROVE  3 * Cardinality(Q \cap R) > Cardinality(V)
    <1> DEFINE v == Cardinality(V)
               q == Cardinality(Q)
               r == Cardinality(R)
               u == Cardinality(Q \cup R)
               c == Cardinality(Q \cap R)
    <1>1. IsFiniteSet(Q) /\ IsFiniteSet(R)
        BY FS_Subset
    <1>2. IsFiniteSet(Q \cap R) /\ IsFiniteSet(Q \cup R) /\ u = q + r - c
        BY <1>1, FS_Union, FS_Intersection
    <1>3. u <= v
        <2>1. Q \cup R \in SUBSET V
            OBVIOUS
        <2>2. QED BY <2>1, FS_Subset
    <1>4. v \in Nat /\ q \in Nat /\ r \in Nat /\ u \in Nat /\ c \in Nat
        BY <1>1, <1>2, FS_CardinalityType
    <1>5. q >= (2 * v) \div 3 + 1 /\ r >= (2 * v) \div 3 + 1
        BY DEF QuorumSize
    <1> HIDE DEF v, q, r, u, c
    <1>6. 3 * ((2 * v) \div 3) + 2 >= 2 * v /\ (2 * v) \div 3 \in Nat
        BY <1>4
    <1>7. 3 * c > v
        BY <1>2, <1>3, <1>4, <1>5, <1>6
    <1>8. QED BY <1>7 DEF v, c

\* Any two blocks that are final, on whichever hosts, were approved by more than a
\* third of the validators both.
FinalBlocksShareVoters ==
    \A n, m \in Hosts : \A g \in st[n].finalized, h \in st[m].finalized :
        3 * Cardinality(Approvers(g) \cap Approvers(h)) > Cardinality(InitialSet)

\* With the default threshold and validators that may leave and come back but not
\* be replaced, what one host takes as final and what another does rest on common
\* validators, more than a third of all (QuorumSize, NewProtocol).
THEOREM FinalBlocksOverlap ==
    ASSUME Validators = InitialSet, Threshold = 0
    PROVE  Spec => []FinalBlocksShareVoters
    <1>1. TypeOK /\ VotesInv => FinalBlocksShareVoters
        <2> SUFFICES ASSUME TypeOK, VotesInv, NEW n \in Hosts, NEW m \in Hosts,
                            NEW g \in st[n].finalized, NEW h \in st[m].finalized
                     PROVE  3 * Cardinality(Approvers(g) \cap Approvers(h)) > Cardinality(InitialSet)
            BY DEF FinalBlocksShareVoters
        <2>1. g \in Blocks /\ h \in Blocks
            BY DEF TypeOK, States
        <2>2. PICK Q \in Quorums : Q \subseteq Approvers(g)
            BY DEF VotesInv, FinalizedHasQuorum, Quorate
        <2>3. PICK R \in Quorums : R \subseteq Approvers(h)
            BY DEF VotesInv, FinalizedHasQuorum, Quorate
        <2>4. /\ Q \in SUBSET InitialSet /\ R \in SUBSET InitialSet
              /\ Cardinality(Q) >= QuorumSize(InitialSet, 0) /\ Cardinality(R) >= QuorumSize(InitialSet, 0)
            BY <2>2, <2>3 DEF Quorums, QuorumThreshold
        <2>5. 3 * Cardinality(Q \cap R) > Cardinality(InitialSet)
            BY <2>4, SetAssumption, QuorumsOverlap
        <2>6. Approvers(g) \cap Approvers(h) \in SUBSET InitialSet
            BY <2>1 DEF Approvers, TypeOK, States
        <2>7. IsFiniteSet(Approvers(g) \cap Approvers(h))
            BY <2>6, SetAssumption, FS_Subset
        <2>8. Q \cap R \in SUBSET (Approvers(g) \cap Approvers(h))
            BY <2>2, <2>3
        <2>9. /\ Cardinality(Q \cap R) <= Cardinality(Approvers(g) \cap Approvers(h))
              /\ Cardinality(Q \cap R) \in Nat /\ Cardinality(Approvers(g) \cap Approvers(h)) \in Nat
            BY <2>7, <2>8, FS_Subset, FS_CardinalityType
        <2>10. Cardinality(InitialSet) \in Nat
            BY SetAssumption, FS_CardinalityType
        <2>11. QED BY <2>5, <2>9, <2>10
    <1>2. QED BY <1>1, VotesAlways, TypeCorrect, PTL

-----------------------------------------------------------------------------
(* Refinement *)

LEMMA FinalityInit == Init => Finality!Init
    <1> SUFFICES ASSUME Init PROVE Finality!Init
        OBVIOUS
    <1>1. \A n \in Hosts : /\ st[n].proposals = {} /\ st[n].finalized = {}
                           /\ \A h \in Blocks : st[n].approvals[h] = {}
        BY DEF Init, NewState
    <1>2. Proposed = {} /\ \A h \in Blocks : Approvers(h) = {}
        BY <1>1 DEF Proposed, Approvers
    <1>3. QED BY <1>1, <1>2 DEF Finality!Init

\* Each effect is a step of the abstract vote, or none.
LEMMA FinalityNext == Effect => [Finality!Agree]_(Finality!vars)
    <1> SUFFICES ASSUME Effect PROVE [Finality!Agree]_(Finality!vars)
        OBVIOUS
    <1> DEFINE votes == [h \in Blocks |-> Approvers(h)]
               final == [n \in Hosts |-> st[n].finalized]
    <1>1. ASSUME \A m \in Hosts : st'[m].proposals = st[m].proposals PROVE Proposed' = Proposed
        BY <1>1 DEF Proposed
    <1>2. ASSUME \A m \in Hosts : st'[m].approvals = st[m].approvals PROVE votes' = votes
        BY <1>2 DEF Approvers
    <1>3. ASSUME \A m \in Hosts : st'[m].finalized = st[m].finalized PROVE final' = final
        BY <1>3
    <1>4. ASSUME Quiet PROVE UNCHANGED Finality!vars
        BY <1>1, <1>2, <1>3, <1>4 DEF Quiet, Same, Finality!vars
    <1>5. ASSUME NEW n \in Hosts, NEW h \in Blocks, Proposes(n, h) PROVE Finality!Agree
        <2>1. Proposed' = Proposed \cup {h}
            BY <1>5 DEF Proposes, OthersSame, Same, Proposed
        <2>2. votes' = votes /\ final' = final
            BY <1>2, <1>3, <1>5 DEF Proposes, OthersSame, Same
        <2>3. Finality!Propose(h)
            BY <2>1, <2>2 DEF Finality!Propose
        <2>4. QED BY <2>3 DEF Finality!Agree
    <1>6. ASSUME NEW n \in Hosts, NEW v \in Validators, NEW h \in Blocks, Approves(n, v, h)
          PROVE  Finality!Agree
        <2>1. Proposed' = Proposed /\ final' = final
            BY <1>1, <1>3, <1>6 DEF Approves, OthersSame, Same
        <2>2. \A g \in Blocks : Approvers(g)' = IF g = h THEN Approvers(g) \cup {v}
                                                         ELSE Approvers(g)
            <3>1. ASSUME NEW g \in Blocks, NEW m \in Hosts
                  PROVE  st'[m].approvals[g] =
                            IF m = n /\ g = h THEN st[m].approvals[g] \cup {v}
                                              ELSE st[m].approvals[g]
                BY <1>6 DEF Approves, OthersSame, Same
            <3>2. ASSUME NEW g \in Blocks, NEW x
                  PROVE  x \in Approvers(g)' <=> x \in Approvers(g) \/ (g = h /\ x = v)
                <4>1. x \in Approvers(g)' <=> \E m \in Hosts : x \in st'[m].approvals[g]
                    BY DEF Approvers
                <4>2. x \in Approvers(g) <=> \E m \in Hosts : x \in st[m].approvals[g]
                    BY DEF Approvers
                <4>3. ASSUME NEW m \in Hosts
                      PROVE  x \in st'[m].approvals[g] <=>
                                x \in st[m].approvals[g] \/ (m = n /\ g = h /\ x = v)
                    <5>1. st'[m].approvals[g] =
                            IF m = n /\ g = h THEN st[m].approvals[g] \cup {v}
                                              ELSE st[m].approvals[g]
                        BY <3>1
                    <5>2. QED BY <5>1
                <4>4. QED BY <4>1, <4>2, <4>3
            <3>3. QED BY <3>2
        <2>3. votes' = [votes EXCEPT ![h] = @ \cup {v}]
            BY <2>2
        <2>4. Finality!Vote(v, h)
            BY <1>6, <2>1, <2>3 DEF Finality!Vote, Approves
        <2>5. QED BY <2>4 DEF Finality!Agree
    <1>7. ASSUME NEW n \in Hosts, NEW h \in Blocks, Finalizes(n, h) PROVE Finality!Agree
        <2>1. Proposed' = Proposed /\ votes' = votes
            BY <1>1, <1>2, <1>7 DEF Finalizes, OthersSame, Same
        <2>2. final' = [final EXCEPT ![n] = @ \cup {h}]
            BY <1>7 DEF Finalizes, OthersSame, Same
        <2>3. \E Q \in Quorums : Q \subseteq votes[h]
            BY <1>7 DEF Finalizes, Quorate
        <2>4. Finality!Finalize(n, h)
            BY <2>1, <2>2, <2>3 DEF Finality!Finalize
        <2>5. QED BY <2>4 DEF Finality!Agree
    <1>8. QED BY <1>4, <1>5, <1>6, <1>7 DEF Effect

\* The consensus library implements the abstract vote: a block is approved only
\* when it was proposed, and a host takes it as final only when a quorum of
\* validators has approved it, though a finalization is believed without a proof,
\* handlers race with each other and with the application's calls, validators come
\* and go, packets are lost or delivered again and any write may fail.
THEOREM Refinement == Spec => ImplementsQuorumFinality
    <1>1. ProtocolInv /\ [Next]_vars => [Finality!Agree]_(Finality!vars)
        BY ProtocolStep, FinalityNext
    <1>2. QED
        BY ProtocolInvariant, FinalityInit, <1>1, PTL
        DEF Spec, ImplementsQuorumFinality, Finality!LastingSpec

=============================================================================
