----------------------------- MODULE Lifecycle ------------------------------
(***************************************************************************)
(* How the runtime command builds and starts its services and shuts them    *)
(* down.                                                                   *)
(*                                                                         *)
(* main opens the storage and the accounts and runs the handlers that the   *)
(* services' packages have registered, in the order of a map; the one of    *)
(* the chain service builds the node.  BaseService.Start then runs every    *)
(* requested service in a goroutine.  The chain service starts the node,   *)
(* which starts the validator and its consensus module; the consensus      *)
(* service waits for the chain service and starts the validator again;     *)
(* the other services have nothing to start.  All the while the shutdown   *)
(* manager waits for a signal or the context, and then runs its            *)
(* callbacks: the node's Shutdown, which NewService registered, and Stop   *)
(* of each service.  All of them use state managers.                       *)
(*                                                                         *)
(* A step of a goroutine is one call of SetState, one critical section, or  *)
(* one call that can fail or block.  When main has exited nothing runs.    *)
(***************************************************************************)
EXTENDS StateManager

CONSTANTS
    Handlers,       \* the services that have registered a handler
    Requested,      \* the services named on the command line
    Signals,        \* the signals that may arrive
    Outcomes        \* outcomes of starting and closing the network

ASSUME RequestedAssumption ==
    /\ Requested # {} /\ IsFiniteSet(Requested)
    /\ "chain" \in Handlers
\* The other goroutines and components are told apart from the services.
ASSUME NamesAssumption ==
    Requested \cap {"main", "base", "shutdown", "node", "validator", "module",
                    "node/consensus"} = {}
ASSUME SignalsAssumption == Signals \subseteq {"SIGINT", "SIGTERM"}
ASSUME OutcomesAssumption == Outcomes \subseteq BOOLEAN
ASSUME StateTypesAssumption ==
    StateTypes = Requested \cup {"chain", "node", "validator", "module", "node/consensus"}
ASSUME WaitersAssumption == Waiters = {"chain", "consensus", "node", "shutdown"}

VARIABLES
    pc,         \* where each goroutine is
    callbacks,  \* shutdown.Manager.callbacks
    ran,        \* how many of them have run
    cancelled,  \* is the context of the runtime done
    running,    \* Consensus.wg: how often the module was started and not left
    received,   \* the signals that have arrived
    registry,   \* the services that have been built
    resources,  \* what the resource manager holds
    dbs,        \* the databases of the storage manager
    startedAt   \* the services that had started when the shutdown began

bootVars == <<registry, resources, dbs>>
runVars == <<callbacks, ran, cancelled, running, received, startedAt>>
vars == <<stateVars, pc, runVars, bootVars>>

Goroutines == Requested \cup {"main", "base", "shutdown", "node"}

Init ==
    /\ serviceStates = [t \in StateTypes |-> "absent"]
    /\ waitChans = [t \in StateTypes |-> {}]
    /\ calls = [p \in Waiters |-> NoCall]
    /\ pc = [g \in Goroutines |->
            CASE g = "main" -> "storage"
              [] g = "shutdown" -> "select"
              [] OTHER -> "notStarted"]
    /\ callbacks = <<>>
    /\ ran = 0
    /\ cancelled = FALSE
    /\ running = 0
    /\ received = {}
    /\ registry = {}
    /\ resources = {}
    /\ dbs = "none"
    /\ startedAt = {}

\* g moves on from one place to another.
Moves(g, from, to) == pc[g] = from /\ pc' = [pc EXCEPT ![g] = to]

\* Most steps are one call of SetState.
Sets(g, from, t, s, to) ==
    /\ Moves(g, from, to)
    /\ SetState(t, s)
    /\ UNCHANGED <<runVars, bootVars>>

\* A call of WaitForState and what follows it.
Awaits(g, at, t, desired, reached, timeout) ==
    /\ \/ /\ pc[g] = at
          /\ WaitForState(g, t, desired)
          /\ UNCHANGED pc
       \/ Returns(g, "reached") /\ Moves(g, at, reached)
       \/ Returns(g, "timeout") /\ Moves(g, at, timeout)
    /\ UNCHANGED <<runVars, bootVars>>

\* The state manager of the services, that of the node and that of the validator.
SetsService(g, from, t, s, to) == Sets(g, from, t, s, to)
SetsNode(g, from, t, s, to) == Sets(g, from, t, s, to)
SetsValidator(g, from, t, s, to) == Sets(g, from, t, s, to)
AwaitsService(g, at, t, s, reached, timeout) == Awaits(g, at, t, s, reached, timeout)
AwaitsNode(g, at, t, s, reached, timeout) == Awaits(g, at, t, s, reached, timeout)
AwaitsValidator(g, at, t, s, reached, timeout) == Awaits(g, at, t, s, reached, timeout)

\* The maps of the runtime package and of the resource manager.
Register(s) == registry' = registry \cup {s}
Exists(services) == services \subseteq registry
RegisterResource(name) == resources' = resources \cup {name}
R(name) == name \in resources

\* A call that changes nothing here.
Calling(g, from, to) ==
    /\ Moves(g, from, to)
    /\ UNCHANGED <<stateVars, runVars, bootVars>>

-----------------------------------------------------------------------------
(* The validator and its consensus module *)

\* Consensus.Start: the three goroutines count as one.
SpawnRoutines(g) ==
    /\ Moves(g, "c.spawn", "c.started")
    /\ running' = running + 1
    /\ UNCHANGED <<stateVars, callbacks, ran, cancelled, received, startedAt, bootVars>>

ConsensusStart(g) ==
    \/ SetsValidator(g, "c.starting", "module", "Starting", "c.spawn")
    \/ SpawnRoutines(g)
    \/ SetsValidator(g, "c.started", "module", "Started", "v.started")

ValidatorStart(g) ==
    \/ SetsValidator(g, "v.starting", "validator", "Starting", "c.starting")
    \/ ConsensusStart(g)
    \/ SetsValidator(g, "v.started", "validator", "Started", IF g = "node" THEN "n.await" ELSE "starting")

\* Mutant: the goroutines say twice that they are done.
RoutinesEndTwice ==
    /\ running > 0
    /\ cancelled
    /\ running' = running - 2
    /\ UNCHANGED <<stateVars, pc, callbacks, ran, cancelled, received, startedAt, bootVars>>

\* The goroutines of a started module leave when their context is done.
RoutinesEnd ==
    /\ running > 0
    /\ cancelled
    /\ running' = running - 1
    /\ UNCHANGED <<stateVars, pc, callbacks, ran, cancelled, received, startedAt, bootVars>>

-----------------------------------------------------------------------------
(* The node *)

\* Mutant: without a network the node does without its validator.
NodeStartAlone ==
    \/ SetsNode("node", "n.starting", "node", "Starting", "n.network")
    \/ \E ok \in Outcomes : Calling("node", "n.network", IF ok THEN "v.starting" ELSE "n.started")
    \/ ValidatorStart("node")
    \/ AwaitsValidator("node", "n.await", "validator", "Started", "n.started", "failed")
    \/ SetsNode("node", "n.started", "node", "Started", "done")

\* An error of the network or of the wait leaves the node Starting.
NodeStart ==
    \/ SetsNode("node", "n.starting", "node", "Starting", "n.network")
    \/ \E ok \in Outcomes : Calling("node", "n.network", IF ok THEN "v.starting" ELSE "failed")
    \/ ValidatorStart("node")
    \/ AwaitsValidator("node", "n.await", "validator", "Started", "n.started", "failed")
    \/ SetsNode("node", "n.started", "node", "Started", "done")

\* Mutant: Consensus.Shutdown waits for nobody.
DrainNothing == Calling("shutdown", "c.drain", "c.stopped")

\* Consensus.Shutdown waits for the goroutines of the module.
DrainRoutines ==
    /\ running = 0
    /\ Calling("shutdown", "c.drain", "c.stopped")

ConsensusShutdown ==
    \/ SetsValidator("shutdown", "c.stopping", "module", "Stopping", "c.drain")
    \/ DrainRoutines
    \/ SetsValidator("shutdown", "c.stopped", "module", "Stopped", "v.await")

\* When the wait fails the validator has failed, and the node says the same
\* of its consensus component before it goes on.
ValidatorShutdown ==
    \/ SetsValidator("shutdown", "v.stopping", "validator", "Stopping", "c.stopping")
    \/ ConsensusShutdown
    \/ AwaitsValidator("shutdown", "v.await", "module", "Stopped", "v.stopped", "v.failed")
    \/ SetsValidator("shutdown", "v.stopped", "validator", "Stopped", "n.await")
    \/ SetsValidator("shutdown", "v.failed", "validator", "Failed", "n.log")
    \/ SetsNode("shutdown", "n.log", "node/consensus", "Failed", "n.await")

\* Manager.Close of the storage; after an error some databases stay open.
CloseStorage ==
    \E ok \in Outcomes :
        /\ Moves("shutdown", "n.storage", IF ok THEN "n.stopped" ELSE "n.failed")
        /\ dbs' = IF ok THEN "closed" ELSE dbs
        /\ UNCHANGED <<stateVars, runVars, registry, resources>>

NodeShutdown ==
    \/ SetsNode("shutdown", "n.stopping", "node", "Stopping", "v.stopping")
    \/ ValidatorShutdown
    \/ AwaitsValidator("shutdown", "n.await", "validator", "Stopped", "n.network", "n.failed")
    \/ \E ok \in Outcomes :
            Calling("shutdown", "n.network", IF ok THEN "n.storage" ELSE "n.failed")
    \/ CloseStorage
    \/ SetsNode("shutdown", "n.stopped", "node", "Stopped", "next")
    \/ SetsNode("shutdown", "n.failed", "node", "Failed", "next")

-----------------------------------------------------------------------------
(* The services *)

\* shutdown holds the lock of the callbacks while it runs them.
CallbacksLocked == pc["shutdown"] \notin {"select", "done"}

AddShutdownCallback(s) ==
    /\ ~CallbacksLocked
    /\ Moves(s, "addCallback",
             CASE s = "chain" -> "spawn"
               [] s = "consensus" -> "await"
               [] OTHER -> "starting")
    /\ callbacks' = Append(callbacks, s)
    /\ UNCHANGED <<stateVars, ran, cancelled, running, received, startedAt, bootVars>>

\* The chain service starts the node in a goroutine of its own ...
SpawnNode ==
    /\ pc["chain"] = "spawn"
    /\ pc' = [pc EXCEPT !["chain"] = "await", !["node"] = "n.starting"]
    /\ UNCHANGED <<stateVars, runVars, bootVars>>

\* ... and when it is started, or has timed out, takes the goroutine's result.
JoinNode ==
    /\ pc["node"] \in {"done", "failed"}
    /\ Calling("chain", "join", IF pc["node"] = "done" THEN "starting" ELSE "failing")

ChainStart ==
    \/ SpawnNode
    \/ AwaitsNode("chain", "await", "node", "Started", "join", "failing")
    \/ JoinNode

ConsensusServiceStart ==
    \/ AwaitsService("consensus", "await", "chain", "Started",
            IF R("node") THEN "v.starting" ELSE "failing", "failing")
    \/ ValidatorStart("consensus")

\* The goroutine of BaseService.Start for service s.
ServiceStep(s) ==
    \/ SetsService(s, "initializing", s, "Initializing", "addCallback")
    \/ AddShutdownCallback(s)
    \/ s = "chain" /\ ChainStart
    \/ s = "consensus" /\ ConsensusServiceStart
    \/ SetsService(s, "starting", s, "Started", "done")
    \/ SetsService(s, "failing", s, "Failed", "failed")

\* BaseService.Start runs the services if all of them are registered ...
BaseStart ==
    /\ pc["base"] = "exists"
    /\ IF Exists(Requested)
       THEN /\ pc' = [g \in Goroutines |->
                       CASE g = "base" -> "wait"
                         [] g \in Requested -> "initializing"
                         [] OTHER -> pc[g]]
            /\ UNCHANGED cancelled
       ELSE Moves("base", "exists", "failed") /\ cancelled' = TRUE
    /\ UNCHANGED <<stateVars, callbacks, ran, running, received, startedAt, bootVars>>

\* ... and waits for all of them.  After an error main is woken by
\* closing its signal channel, and the context is cancelled.
BaseReturns ==
    /\ \A s \in Requested : pc[s] \in {"done", "failed"}
    /\ LET failed == \E s \in Requested : pc[s] = "failed"
       IN /\ Moves("base", "wait", IF failed THEN "failed" ELSE "done")
          /\ cancelled' = (cancelled \/ failed)
    /\ UNCHANGED <<stateVars, callbacks, ran, running, received, startedAt, bootVars>>

-----------------------------------------------------------------------------
(* Construction *)

\* The environment and the database in it; an error is ConstructionFails.
NewDb == dbs' = "open"

\* NewManager of the storage opens the databases of the configuration.
NewStorageManager == NewDb /\ RegisterResource("storage")

\* NewBaseService: the databases and then the accounts.
NewBaseService ==
    /\ \/ /\ Moves("main", "storage", "identity")
          /\ NewStorageManager
       \/ /\ Moves("main", "identity", "inject")
          /\ RegisterResource("identity") /\ UNCHANGED dbs
    /\ UNCHANGED <<stateVars, runVars, registry>>

\* The handler of a service that has only itself to build.
ServiceHandler(s) == Register(s) /\ UNCHANGED pc

\* InjectServices: the handlers in any order.
InjectService(s) ==
    /\ pc["main"] = "inject" /\ s \notin registry
    /\ IF s = "chain"
       THEN Moves("main", "inject", "newNode") /\ UNCHANGED registry
       ELSE ServiceHandler(s)
    /\ UNCHANGED <<stateVars, runVars, resources, dbs>>

\* NewValidator with NewConsensus.
NewValidator ==
    /\ Moves("main", "newValidator", "initNode")
    /\ serviceStates' = [serviceStates EXCEPT !["validator"] = "Initialized",
                                              !["module"] = "Uninitialized"]
    /\ UNCHANGED <<waitChans, calls, runVars, bootVars>>

\* The ledger, the network, the chain and then the validator.
NewNode ==
    \/ SetsNode("main", "newNode", "node", "Uninitialized", "newValidator")
    \/ NewValidator
    \/ SetsNode("main", "initNode", "node", "Initialized", "addNode")

\* The node's Shutdown is registered even after the shutdown manager is done ...
AddNodeCallback ==
    /\ ~CallbacksLocked
    /\ Moves("main", "addNode", "register")
    /\ callbacks' = Append(callbacks, "node")
    /\ UNCHANGED <<stateVars, ran, cancelled, running, received, startedAt, bootVars>>

\* ... and then the node and the service.
RegisterChain ==
    /\ Moves("main", "register", "inject")
    /\ RegisterResource("node")
    /\ Register("chain")
    /\ UNCHANGED <<stateVars, runVars, dbs>>

SpawnBase ==
    /\ registry = Handlers
    /\ pc["main"] = "inject"
    /\ pc' = [pc EXCEPT !["main"] = "wait", !["base"] = "exists"]
    /\ UNCHANGED <<stateVars, runVars, bootVars>>

\* An error in NewBaseService or NewNode ends the command.
ConstructionFails ==
    /\ FALSE \in Outcomes
    /\ pc["main"] \in {"storage", "identity", "newNode", "newValidator"}
    /\ Moves("main", pc["main"], "exited")
    /\ cancelled' = TRUE
    /\ UNCHANGED <<stateVars, callbacks, ran, running, received, startedAt, bootVars>>

Construct ==
    \/ NewBaseService \/ NewNode \/ AddNodeCallback \/ RegisterChain \/ SpawnBase
    \/ \E s \in Handlers : InjectService(s)

-----------------------------------------------------------------------------
(* Shutdown *)

\* A signal reaches the shutdown manager; main listens for the interrupt only.
Signal(sig) ==
    /\ received = {}
    /\ received' = {sig}
    /\ UNCHANGED <<stateVars, pc, callbacks, ran, cancelled, running, startedAt, bootVars>>

\* Mutant: the manager waits for a signal only.
HandleSignalsOnly ==
    /\ received # {}
    /\ Moves("shutdown", "select", "next")
    /\ cancelled' = TRUE
    /\ startedAt' = {s \in Requested : serviceStates[s] = "Started"}
    /\ UNCHANGED <<stateVars, callbacks, ran, running, received, bootVars>>

\* A signal or the end of the context starts the shutdown.
HandleSignals ==
    /\ received # {} \/ cancelled
    /\ Moves("shutdown", "select", "next")
    /\ cancelled' = TRUE
    /\ startedAt' = {s \in Requested : serviceStates[s] = "Started"}
    /\ UNCHANGED <<stateVars, callbacks, ran, running, received, bootVars>>

\* Mutant: the callbacks are run without the one that was registered last.
SkipLastCallback ==
    /\ Moves("shutdown", "next",
             IF ran + 1 >= Len(callbacks) THEN "done"
             ELSE IF callbacks[ran + 1] = "node" THEN "n.stopping" ELSE "stop")
    /\ ran' = ran + 1
    /\ UNCHANGED <<stateVars, callbacks, cancelled, running, received, startedAt, bootVars>>

\* The next callback; after the last one the manager is done.
NextCallback ==
    /\ Moves("shutdown", "next",
             IF ran = Len(callbacks) THEN "done"
             ELSE IF callbacks[ran + 1] = "node" THEN "n.stopping" ELSE "stop")
    /\ ran' = IF ran = Len(callbacks) THEN ran ELSE ran + 1
    /\ UNCHANGED <<stateVars, callbacks, cancelled, running, received, startedAt, bootVars>>

StopService == SetsService("shutdown", "stop", callbacks[ran], "Stopped", "next")

ShutdownStep == HandleSignals \/ NextCallback \/ NodeShutdown \/ StopService

Interrupted == "SIGINT" \in received \/ pc["base"] = "failed"

\* main cancels the context, waits for the shutdown manager and exits.
MainStep ==
    /\ \/ /\ Interrupted
          /\ Moves("main", "wait", "join")
          /\ cancelled' = TRUE
       \/ /\ pc["shutdown"] = "done"
          /\ Moves("main", "join", "exited")
          /\ UNCHANGED cancelled
    /\ UNCHANGED <<stateVars, callbacks, ran, running, received, startedAt, bootVars>>

-----------------------------------------------------------------------------

\* A step inside WaitForState.
WaiterStep(p) == WaitStep(p) /\ UNCHANGED <<pc, runVars, bootVars>>

\* The process is there until main has returned.
Runs == pc["main"] # "exited"

\* A step of some goroutine of the process.
Progress ==
    \/ Construct
    \/ MainStep
    \/ BaseStart
    \/ BaseReturns
    \/ \E s \in Requested : ServiceStep(s)
    \/ NodeStart
    \/ ShutdownStep
    \/ RoutinesEnd
    \/ \E p \in Waiters : WaiterStep(p)

Next ==
    \/ Runs /\ Progress
    \/ Runs /\ ConstructionFails
    \/ \E sig \in Signals : Runs /\ Signal(sig)

Spec == Init /\ [][Next]_vars

\* As long as some goroutine can go on, one does: the scheduler of Go and the
\* passing of time ask for no less.  No goroutine here runs for ever, so nothing
\* has to be assumed of each of them.  Signals need not arrive.
Fairness == WF_vars(Runs /\ Progress)

LiveSpec == Spec /\ Fairness

-----------------------------------------------------------------------------
(* Properties *)

Labels == {"wait", "join", "exited", "select", "next", "stop", "notStarted",
           "initializing", "addCallback", "spawn", "await", "starting", "failing",
           "done", "failed"}
          \cup {"storage", "identity", "inject", "newNode", "newValidator", "initNode",
                "addNode", "register", "exists"}
          \cup {"n.starting", "n.network", "n.await", "n.started", "n.stopping",
                "n.stopped", "n.failed", "n.log", "n.storage"}
          \cup {"v.starting", "v.started", "v.stopping", "v.await", "v.stopped", "v.failed"}
          \cup {"c.starting", "c.spawn", "c.started", "c.stopping", "c.drain", "c.stopped"}

\* Every variable keeps its type, and the module is started at most twice.
TypeOK ==
    /\ StateTypeOK
    /\ pc \in [Goroutines -> Labels]
    /\ Len(callbacks) <= Cardinality(Requested) + 1
    /\ \A i \in DOMAIN callbacks : callbacks[i] \in Requested \cup {"node"}
    /\ ran \in 0 .. Len(callbacks)
    /\ cancelled \in BOOLEAN
    /\ running \in 0 .. 2
    /\ received \subseteq Signals
    /\ registry \subseteq Handlers
    /\ resources \subseteq {"storage", "identity", "node"}
    /\ dbs \in {"none", "open", "closed"}
    /\ startedAt \subseteq Requested

\* services/chain/service.go: the service is not reported as started before
\* the node is: until a shutdown the node is Started and the consensus module
\* runs, whatever the timeouts do.
ChainStartedMeansRunning ==
    "chain" \in Requested /\ serviceStates["chain"] = "Started" /\ ~cancelled
    => serviceStates["node"] = "Started" /\ running > 0

\* The consensus service touches the validator only after the chain service
\* has completed its start, so that the validator is never started by two
\* goroutines at once (WaitForState, services/consensus/service.go).
OneStarterAtATime ==
    "consensus" \in Requested /\ pc["consensus"] \in {"v.starting", "c.starting", "c.spawn",
                                "c.started", "v.started", "starting"}
    => pc["chain"] = "done" /\ pc["node"] = "done"

\* A service that had started before the shutdown began is Stopped when the
\* shutdown is done: its callback was registered in time and has run, and its
\* goroutine does not overwrite the state (BaseService.Start).
StartedServicesStop ==
    pc["shutdown"] = "done" => \A s \in startedAt : serviceStates[s] = "Stopped"

\* When all services had started before the shutdown began, the databases are
\* closed only after the last goroutine of the consensus module, which writes to
\* one of them, has ended (Node.Shutdown).
StorageClosesLast == startedAt = Requested /\ dbs = "closed" => running = 0

\* After an interrupt, or a failed start, the process exits: no callback waits
\* for ever, whatever the services are doing (Manager.shutdown, Wait).
InterruptExits == Interrupted ~> pc["main"] = "exited"

=============================================================================
