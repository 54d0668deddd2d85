---------------------------- MODULE NetworkProofs -----------------------------
(***************************************************************************)
(* Proofs about the safety of Network, for any number of nodes and workers,  *)
(* whichever calls fail and however Start and Shutdown overlap.              *)
(***************************************************************************)
EXTENDS Network, SequenceTheorems, FiniteSetTheorems, TLAPS

-----------------------------------------------------------------------------
(* The inductive invariant *)

Steps == {"off", "free", "open", "asked", "first", "second", "done"}

WorkerStates == [at : Steps, peer : Nodes, ok : BOOLEAN]

PhaseTypes ==
    /\ start \in [Nodes -> {"new", "network", "handler", "started", "late", "failed"}]
    /\ shutdown \in [Nodes -> {"no", "monitor", "validator", "network", "storage", "stopped", "failed"}]
    /\ cancelled \in [Nodes -> BOOLEAN]
    /\ handler \in [Nodes -> {"none", "stream", "ping"}]
    /\ host \in [Nodes -> {"open", "closed"}]
    /\ peers \in [Nodes -> SUBSET Nodes]
    /\ collector \in [Nodes -> {"off", "run", "closed"}]

LinksInv == \A l \in links : Cardinality(l) = 2 /\ \A n \in l : host[n] = "open"

ChannelInv ==
    /\ DOMAIN channel = Nodes
    /\ \A n \in Nodes :
        channel[n] \in Seq(Nodes \ {n}) /\ Len(channel[n]) <= Cardinality(Workers)

WorkersInv == worker \in [Nodes -> [Workers -> WorkerStates]]

\* Shutdown cancels the context before anything else, so a monitor that starts
\* after that is late; once Stop of the monitor has returned no other one runs,
\* and only then is the host closed.
ShutdownInv ==
    \A n \in Nodes :
        /\ shutdown[n] # "no" => cancelled[n]
        /\ host[n] = "closed" => shutdown[n] \in {"storage", "stopped", "failed"}
        /\ shutdown[n] \notin {"no", "monitor"} /\ start[n] # "late"
            => \A w \in Workers : worker[n][w].at \in {"off", "done"}

NetworkInv == PhaseTypes /\ LinksInv /\ ChannelInv /\ WorkersInv /\ ShutdownInv

-----------------------------------------------------------------------------
(* Connections and the channel of the monitor *)

LEMMA PairHasTwo ==
    ASSUME NEW n, NEW p
    PROVE  n # p <=> Cardinality({n, p}) = 2
    <1>1. IsFiniteSet({p}) /\ Cardinality({p}) = 1
        BY FS_Singleton
    <1>2. {n, p} = {p} \cup {n}
        OBVIOUS
    <1>3. CASE n # p
        BY <1>1, <1>2, <1>3, FS_AddElement
    <1>4. CASE n = p
        <2>1. {n, p} = {p}
            BY <1>4
        <2>2. QED BY <1>1, <1>4, <2>1
    <1>5. QED BY <1>3, <1>4

\* A tick adds peers, never the node itself, and no more than there is room for.
LEMMA CollectedIs ==
    ASSUME NEW n \in Nodes, LinksInv, NEW c \in Seq(Nodes \ {n}),
           NEW s \in SetToSeqs({p \in Nodes : Linked(n, p)})
    PROVE  LET f == FirstOf(c \o s, Cardinality(Workers))
           IN f \in Seq(Nodes \ {n}) /\ Len(f) <= Cardinality(Workers)
    <1> DEFINE S == {p \in Nodes : Linked(n, p)}
               k == Cardinality(Workers)
               cs == c \o s
    <1>1. S \subseteq Nodes \ {n}
        BY PairHasTwo DEF LinksInv, Linked
    <1>2. IsFiniteSet(S) /\ Cardinality(S) \in Nat
        BY NetworkAssumption, FS_Subset, FS_CardinalityType
    <1>3. s \in [1 .. Cardinality(S) -> S]
        BY DEF SetToSeqs
    <1> HIDE DEF S
    <1>4. s \in Seq(Nodes \ {n})
        <2>1. s \in [1 .. Cardinality(S) -> Nodes \ {n}]
            BY <1>1, <1>3
        <2>2. QED BY <1>2, <2>1, SeqDef
    <1>5. k \in Nat
        BY NetworkAssumption, FS_CardinalityType
    <1>6. cs \in Seq(Nodes \ {n}) /\ Len(cs) \in Nat
        BY <1>4, ConcatProperties
    <1> HIDE DEF k, cs
    <1>7. CASE Len(cs) <= k
        BY <1>6, <1>7 DEF FirstOf, k, cs
    <1>8. CASE ~(Len(cs) <= k)
        <2>1. \A i \in 1 .. k : cs[i] \in Nodes \ {n}
            BY <1>5, <1>6, <1>8
        <2>2. /\ SubSeq(cs, 1, k) \in Seq(Nodes \ {n})
              /\ Len(SubSeq(cs, 1, k)) = IF 1 <= k THEN k - 1 + 1 ELSE 0
            BY <1>5, <2>1, SubSeqProperties
        <2>3. Len(SubSeq(cs, 1, k)) <= k
            BY <1>5, <2>2
        <2>4. FirstOf(cs, k) = SubSeq(cs, 1, k)
            BY <1>8 DEF FirstOf
        <2>5. QED BY <2>2, <2>3, <2>4 DEF k, cs
    <1>9. QED BY <1>7, <1>8

-----------------------------------------------------------------------------
(* The invariant *)

LEMMA NetworkInvInit == Init => NetworkInv
    <1> SUFFICES ASSUME Init PROVE NetworkInv
        OBVIOUS
    <1> USE DEF Init
    <1>1. PhaseTypes
        BY DEF PhaseTypes, NewPeersManager
    <1>2. LinksInv
        BY DEF LinksInv
    <1>3. ChannelInv
        <2>1. Cardinality(Workers) \in Nat
            BY NetworkAssumption, FS_CardinalityType
        <2>2. \A S : <<>> \in Seq(S) /\ Len(<<>>) = 0
            BY EmptySeq
        <2>3. QED BY <2>1, <2>2 DEF ChannelInv
    <1>4. WorkersInv
        BY DEF WorkersInv, WorkerStates, Off, Worker, Steps
    <1>5. ShutdownInv
        BY DEF ShutdownInv, Off, Worker
    <1>6. QED BY <1>1, <1>2, <1>3, <1>4, <1>5 DEF NetworkInv

\* Connections do not touch anything but the connections and the peers.
LEMMA ConnectKeeps ==
    ASSUME NetworkInv, NEW n \in Nodes, NEW p \in Nodes, Connect(n, p),
           peers' \in [Nodes -> SUBSET Nodes]
    PROVE  NetworkInv'
    <1> USE DEF NetworkInv, Connect, startVars, monitorVars
    <1>1. PhaseTypes'
        BY DEF PhaseTypes
    <1>2. LinksInv'
        <2>1. Cardinality({n, p}) = 2
            BY PairHasTwo
        <2>2. QED BY <2>1 DEF LinksInv
    <1>3. ChannelInv' /\ WorkersInv' /\ ShutdownInv'
        BY DEF ChannelInv, WorkersInv, ShutdownInv
    <1>4. QED BY <1>1, <1>2, <1>3

\* What a worker does that is not its end: it is not done before and it is
\* not done after, so Stop has not returned unless the monitor was late.
LEMMA WorkerKeeps ==
    ASSUME NetworkInv, NEW n \in Nodes, NEW w \in Workers, NEW state \in WorkerStates,
           SetWorker(n, w, state), ChannelInv',
           state.at \in {"off", "done"} \/ worker[n][w].at \notin {"off", "done"}
    PROVE  NetworkInv'
    <1> USE DEF NetworkInv, SetWorker, startVars, netVars
    <1>1. PhaseTypes' /\ LinksInv'
        BY DEF PhaseTypes, LinksInv
    <1>2. WorkersInv'
        BY DEF WorkersInv
    <1>3. ShutdownInv'
        <2>1. \A m \in Nodes, v \in Workers :
                worker'[m][v] = IF m = n /\ v = w THEN state ELSE worker[m][v]
            BY DEF WorkersInv
        <2>2. QED BY <2>1 DEF ShutdownInv
    <1>4. QED BY <1>1, <1>2, <1>3

\* The steps of Start and Shutdown, and the collector, leave the other nodes.
LEMMA NetworkInvNext == NetworkInv /\ [Next]_vars => NetworkInv'
    <1> SUFFICES ASSUME NetworkInv, [Next]_vars PROVE NetworkInv'
        OBVIOUS
    <1>stutter. CASE UNCHANGED vars
        BY <1>stutter DEF vars, startVars, netVars, monitorVars, NetworkInv, PhaseTypes,
            LinksInv, ChannelInv, WorkersInv, ShutdownInv
    <1>connect. CASE \E n, p \in Nodes :
                        NewDiscoveryService(n, p) \/ ConnectPeer(n, p) \/ HandlePeerFound(n, p)
        <2>1. PICK n \in Nodes, p \in Nodes :
                NewDiscoveryService(n, p) \/ ConnectPeer(n, p) \/ HandlePeerFound(n, p)
            BY <1>connect
        <2>2. Connect(n, p)
            BY <2>1 DEF NewDiscoveryService, ConnectPeer, HandlePeerFound, ConnectPeerInfo
        <2>3. peers' \in [Nodes -> SUBSET Nodes]
            BY <2>1 DEF NewDiscoveryService, ConnectPeer, HandlePeerFound, ConnectPeerInfo,
                AddPeer, NetworkInv, PhaseTypes
        <2>4. QED BY <2>2, <2>3, ConnectKeeps
    <1>disconnect. CASE \E l \in links : Disconnect(l)
        <2> USE <1>disconnect DEF Disconnect, startVars, monitorVars, NetworkInv
        <2>1. PhaseTypes'
            BY DEF PhaseTypes
        <2>2. ChannelInv' /\ WorkersInv'
            BY DEF ChannelInv, WorkersInv
        <2>3. ShutdownInv'
            BY DEF ShutdownInv
        <2>4. LinksInv'
            BY DEF LinksInv
        <2>5. QED BY <2>1, <2>2, <2>3, <2>4
    <1>node. ASSUME NEW n \in Nodes,
                    \/ NetworkStart(n) \/ SetPingHandler(n) \/ StartMonitor(n)
                    \/ CollectPeers(n) \/ CloseChannel(n)
                    \/ BeginShutdown(n) \/ ShutdownStep(n)
             PROVE  NetworkInv'
        <2> USE DEF NetworkInv, startVars, netVars, monitorVars
        <2>1. CASE NetworkStart(n)
            <3>1. PhaseTypes' /\ LinksInv'
                BY <2>1 DEF NetworkStart, PhaseTypes, LinksInv
            <3>2. ChannelInv' /\ WorkersInv'
                BY <2>1 DEF NetworkStart, ChannelInv, WorkersInv
            <3>3. ShutdownInv'
                BY <2>1 DEF NetworkStart, PhaseTypes, ShutdownInv
            <3>4. QED BY <3>1, <3>2, <3>3
        <2>2. CASE SetPingHandler(n)
            <3>1. PhaseTypes' /\ LinksInv' /\ ChannelInv' /\ WorkersInv'
                BY <2>2 DEF SetPingHandler, PhaseTypes, LinksInv, ChannelInv, WorkersInv
            <3>2. ShutdownInv'
                BY <2>2 DEF SetPingHandler, PhaseTypes, ShutdownInv
            <3>3. QED BY <3>1, <3>2
        <2>3. CASE StartMonitor(n)
            <3>1. PhaseTypes' /\ LinksInv' /\ ChannelInv'
                BY <2>3 DEF StartMonitor, MonitorStart, PhaseTypes, LinksInv, ChannelInv
            <3>2. WorkersInv'
                BY <2>3 DEF StartMonitor, MonitorStart, WorkersInv, WorkerStates, Free, Worker, Steps
            <3>3. ShutdownInv'
                <4>1. shutdown[n] # "no" => start'[n] = "late"
                    BY <2>3 DEF StartMonitor, ShutdownInv, PhaseTypes
                <4>2. \A m \in Nodes \ {n} : start'[m] = start[m] /\ worker'[m] = worker[m]
                    BY <2>3 DEF StartMonitor, MonitorStart, PhaseTypes, WorkersInv
                <4>3. UNCHANGED <<shutdown, cancelled, host>>
                    BY <2>3 DEF StartMonitor
                <4>4. QED BY <4>1, <4>2, <4>3 DEF ShutdownInv
            <3>4. QED BY <3>1, <3>2, <3>3
        <2>4. CASE CollectPeers(n)
            <3>1. PICK s \in SetToSeqs({p \in Nodes : Linked(n, p)}) :
                    channel' = [channel EXCEPT ![n] =
                                    FirstOf(channel[n] \o s, Cardinality(Workers))]
                BY <2>4 DEF CollectPeers
            <3>2. channel[n] \in Seq(Nodes \ {n})
                BY DEF ChannelInv
            <3>3. /\ channel'[n] \in Seq(Nodes \ {n})
                  /\ Len(channel'[n]) <= Cardinality(Workers)
                BY <3>1, <3>2, CollectedIs DEF ChannelInv
            <3>4. ChannelInv'
                BY <3>1, <3>3 DEF ChannelInv
            <3>5. PhaseTypes' /\ LinksInv' /\ WorkersInv' /\ ShutdownInv'
                BY <2>4 DEF CollectPeers, PhaseTypes, LinksInv, WorkersInv, ShutdownInv
            <3>6. QED BY <3>4, <3>5
        <2>5. CASE CloseChannel(n)
            BY <2>5 DEF CloseChannel, PhaseTypes, LinksInv, ChannelInv, WorkersInv, ShutdownInv
        <2>6. CASE BeginShutdown(n)
            <3>1. PhaseTypes' /\ LinksInv' /\ ChannelInv' /\ WorkersInv'
                BY <2>6 DEF BeginShutdown, SetShutdown, PhaseTypes, LinksInv, ChannelInv, WorkersInv
            <3>2. ShutdownInv'
                BY <2>6 DEF BeginShutdown, SetShutdown, PhaseTypes, ShutdownInv
            <3>3. QED BY <3>1, <3>2
        <2>7. CASE StopMonitor(n)
            <3>1. PhaseTypes' /\ LinksInv' /\ ChannelInv' /\ WorkersInv'
                BY <2>7 DEF StopMonitor, SetShutdown, PhaseTypes, LinksInv, ChannelInv, WorkersInv
            <3>2. ShutdownInv'
                BY <2>7 DEF StopMonitor, MonitorStopped, SetShutdown, PhaseTypes, ShutdownInv
            <3>3. QED BY <3>1, <3>2
        <2>8. CASE StopValidator(n)
            <3>1. PhaseTypes' /\ LinksInv' /\ ChannelInv' /\ WorkersInv'
                BY <2>8 DEF StopValidator, SetShutdown, PhaseTypes, LinksInv, ChannelInv, WorkersInv
            <3>2. ShutdownInv'
                BY <2>8 DEF StopValidator, SetShutdown, PhaseTypes, ShutdownInv
            <3>3. QED BY <3>1, <3>2
        <2>9. CASE NetworkShutdown(n)
            <3>1. PhaseTypes' /\ ChannelInv' /\ WorkersInv'
                BY <2>9 DEF NetworkShutdown, SetShutdown, PhaseTypes, ChannelInv, WorkersInv
            <3>2. LinksInv'
                BY <2>9 DEF NetworkShutdown, PhaseTypes, LinksInv
            <3>3. ShutdownInv'
                BY <2>9 DEF NetworkShutdown, SetShutdown, PhaseTypes, ShutdownInv
            <3>4. QED BY <3>1, <3>2, <3>3
        <2>10. CASE CloseStorage(n)
            <3>1. PhaseTypes' /\ LinksInv' /\ ChannelInv' /\ WorkersInv'
                BY <2>10 DEF CloseStorage, SetShutdown, PhaseTypes, LinksInv, ChannelInv, WorkersInv
            <3>2. ShutdownInv'
                BY <2>10 DEF CloseStorage, SetShutdown, PhaseTypes, ShutdownInv
            <3>3. QED BY <3>1, <3>2
        <2>11. QED
            BY <1>node, <2>1, <2>2, <2>3, <2>4, <2>5, <2>6, <2>7, <2>8, <2>9, <2>10
                DEF ShutdownStep
    <1>worker. ASSUME NEW n \in Nodes, NEW w \in Workers, WorkerStep(n, w)
               PROVE  NetworkInv'
        <2> DEFINE p == worker[n][w].peer
        <2>types. /\ worker[n][w] \in WorkerStates
                  /\ worker[n][w].ok \in BOOLEAN
                  /\ p \in Nodes
            BY DEF NetworkInv, WorkersInv, WorkerStates
        <2>new. \A at \in Steps, q \in Nodes, ok \in BOOLEAN :
                    Worker(at, q, ok) \in WorkerStates /\ Worker(at, q, ok).at = at
            BY DEF Worker, WorkerStates
        <2>same. channel' = channel => ChannelInv'
            BY DEF NetworkInv, ChannelInv
        <2> HIDE DEF p
        <2>1. CASE WorkerEnds(n, w)
            <3>1. /\ Done(n) \in WorkerStates /\ Done(n).at = "done"
                  /\ SetWorker(n, w, Done(n)) /\ channel' = channel
                BY <2>1, <2>new DEF WorkerEnds, Done, Steps
            <3>2. QED BY <2>same, <3>1, WorkerKeeps
        <2>2. CASE WorkerTakes(n, w)
            <3>1. /\ channel[n] \in Seq(Nodes \ {n}) /\ channel[n] # <<>>
                  /\ Len(channel[n]) <= Cardinality(Workers)
                BY <2>2 DEF WorkerTakes, NetworkInv, ChannelInv
            <3>2. /\ Head(channel[n]) \in Nodes /\ Tail(channel[n]) \in Seq(Nodes \ {n})
                  /\ Len(Tail(channel[n])) = Len(channel[n]) - 1 /\ Len(channel[n]) \in Nat
                BY <3>1, HeadTailProperties, LenProperties
            <3>3. Cardinality(Workers) \in Nat
                BY NetworkAssumption, FS_CardinalityType
            <3>4. Len(Tail(channel[n])) <= Cardinality(Workers)
                BY <3>1, <3>2, <3>3
            <3>5. ChannelInv'
                BY <2>2, <3>2, <3>4 DEF WorkerTakes, NetworkInv, ChannelInv
            <3> DEFINE state == Worker("open", Head(channel[n]), FALSE)
            <3>6. /\ state \in WorkerStates
                  /\ SetWorker(n, w, state) /\ worker[n][w].at = "free"
                BY <2>2, <2>new, <3>2 DEF WorkerTakes, Steps
            <3> HIDE DEF state
            <3>7. QED BY <3>5, <3>6, WorkerKeeps
        <2>3. CASE OpenStream(n, w)
            <3> DEFINE asked == Worker("asked", p, FALSE)
                       first == Worker("first", p, FALSE)
            <3>1. /\ asked \in WorkerStates /\ first \in WorkerStates
                  /\ SetWorker(n, w, asked) \/ SetWorker(n, w, first)
                  /\ worker[n][w].at = "open" /\ channel' = channel
                BY <2>3, <2>types, <2>new DEF OpenStream, Steps, p
            <3> HIDE DEF asked, first
            <3>2. QED BY <2>same, <3>1, WorkerKeeps
        <2>4. CASE HandleStream(n, w) \/ Answer(n, w) \/ StreamLost(n, w)
            <3>1. PICK ok \in BOOLEAN :
                    /\ SetWorker(n, w, Worker("first", p, ok))
                    /\ worker[n][w].at = "asked" /\ channel' = channel
                BY <2>4 DEF HandleStream, Answer, StreamLost, p
            <3>2. Worker("first", p, ok) \in WorkerStates
                BY <2>types, <2>new DEF Steps
            <3>3. QED BY <2>same, <3>1, <3>2, WorkerKeeps
        <2>5. CASE UpdateResponsiveness(n, w)
            <3> DEFINE state == [worker[n][w] EXCEPT !.at = "second"]
            <3>1. /\ state \in WorkerStates
                  /\ SetWorker(n, w, state)
                  /\ worker[n][w].at = "first" /\ channel' = channel
                BY <2>5, <2>types DEF UpdateResponsiveness, WorkerStates, Steps
            <3> HIDE DEF state
            <3>2. QED BY <2>same, <3>1, WorkerKeeps
        <2>6. CASE UpdateReliability(n, w)
            <3>1. /\ Free(n) \in WorkerStates
                  /\ SetWorker(n, w, Free(n))
                  /\ worker[n][w].at = "second" /\ channel' = channel
                BY <2>6, <2>new DEF UpdateReliability, Free, Steps
            <3>2. QED BY <2>same, <3>1, WorkerKeeps
        <2>7. QED
            BY <1>worker, <2>1, <2>2, <2>3, <2>4, <2>5, <2>6 DEF WorkerStep, Pinging
    <1>next. Next =>
                \/ \E n, p \in Nodes :
                        NewDiscoveryService(n, p) \/ ConnectPeer(n, p) \/ HandlePeerFound(n, p)
                \/ \E l \in links : Disconnect(l)
                \/ \E n \in Nodes :
                        \/ NetworkStart(n) \/ SetPingHandler(n) \/ StartMonitor(n)
                        \/ CollectPeers(n) \/ CloseChannel(n)
                        \/ BeginShutdown(n) \/ ShutdownStep(n)
                \/ \E n \in Nodes, w \in Workers : WorkerStep(n, w)
        BY DEF Next
    <1>qed. QED BY <1>stutter, <1>connect, <1>disconnect, <1>node, <1>worker, <1>next

-----------------------------------------------------------------------------
(* Theorems *)

\* The inductive invariant holds in every reachable state.
THEOREM NetworkInvariant == Spec => []NetworkInv
    <1>1. Init => NetworkInv
        BY NetworkInvInit
    <1>2. NetworkInv /\ [Next]_vars => NetworkInv'
        BY NetworkInvNext
    <1>3. QED BY <1>1, <1>2, PTL DEF Spec

\* Every variable keeps its type, connections join different nodes with open
\* hosts, and the channel of a monitor never holds more peers than it has
\* room for, nor the node itself (CollectPeers, Network.Shutdown).
THEOREM TypeCorrect == Spec => []TypeOK
    <1>1. NetworkInv => TypeOK
        <2>1. WorkersInv => \A n \in Nodes, w \in Workers : worker[n][w].at \in Steps
            BY DEF WorkersInv, WorkerStates
        <2>2. QED BY <2>1 DEF NetworkInv, PhaseTypes, LinksInv, ChannelInv, Steps, TypeOK
    <1>2. QED BY <1>1, NetworkInvariant, PTL

\* No ping runs on a closed host, whichever calls of Start and Shutdown fail and
\* however they overlap, unless the monitor was started after Shutdown had begun
\* (Node.Shutdown stops the monitor before it closes the network).
THEOREM PingsNeedAHost == Spec => []NoPingOnClosedHost
    <1>1. NetworkInv => NoPingOnClosedHost
        BY DEF NetworkInv, ShutdownInv, NoPingOnClosedHost
    <1>2. QED BY <1>1, NetworkInvariant, PTL
===============================================================================
