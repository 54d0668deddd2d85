------------------------------ MODULE Network -------------------------------
(***************************************************************************)
(* The P2P network of the nodes (pkg/networking), the performance monitor   *)
(* that pings the peers (pkg/metrics) and how a node starts and shuts them  *)
(* down (pkg/node), concurrently: Shutdown may begin while Start still runs. *)
(*                                                                         *)
(* A ping waits for its answer without a deadline, and the monitor's Stop   *)
(* waits for the pings; the answers come from the stream handlers of nodes  *)
(* that may be shutting down themselves.  Every peer runs this program.     *)
(* The network itself loses connections at any time; a stream ends with an  *)
(* error when its connection is lost or either host is closed.              *)
(***************************************************************************)
EXTENDS Naturals, Sequences, FiniteSets, SequencesExt

CONSTANTS
    Nodes,
    Workers,        \* goroutines of one monitor; also the room of its channel
    Outcomes        \* of calls that may fail: subset of BOOLEAN

ASSUME NetworkAssumption ==
    /\ IsFiniteSet(Nodes) /\ IsFiniteSet(Workers) /\ Workers # {}
    /\ Outcomes \subseteq BOOLEAN /\ TRUE \in Outcomes

VARIABLES
    start,          \* [Nodes -> how far Start is]
    shutdown,       \* [Nodes -> how far Shutdown is]
    cancelled,      \* [Nodes -> is the context of the node cancelled]
    handler,        \* [Nodes -> its stream handler]
    host,           \* [Nodes -> "open" or "closed"]
    links,          \* connections: sets of two nodes
    peers,          \* [Nodes -> the IDs in its PeersManager]
    collector,      \* [Nodes -> the goroutine that lists the peers to ping]
    channel,        \* [Nodes -> the peers to ping]
    worker,         \* [Nodes -> [Workers -> where it is]]
    metrics         \* [Nodes -> [Nodes -> what is known of that peer]]

startVars == <<start, handler>>
netVars == <<host, links, peers>>
monitorVars == <<collector, channel, worker, metrics>>
vars == <<startVars, shutdown, cancelled, netVars, monitorVars>>

Worker(at, p, ok) == [at |-> at, peer |-> p, ok |-> ok]
Off(n) == Worker("off", n, FALSE)
Free(n) == Worker("free", n, FALSE)
Done(n) == Worker("done", n, FALSE)

Unknown == [responsiveness |-> 0, reliability |-> 0]

NewPeersManager == {}

Init ==
    /\ start = [n \in Nodes |-> "new"]
    /\ shutdown = [n \in Nodes |-> "no"]
    /\ cancelled = [n \in Nodes |-> FALSE]
    /\ handler = [n \in Nodes |-> "none"]
    /\ host = [n \in Nodes |-> "open"]
    /\ links = {}
    /\ peers = [n \in Nodes |-> NewPeersManager]
    /\ collector = [n \in Nodes |-> "off"]
    /\ channel = [n \in Nodes |-> <<>>]
    /\ worker = [n \in Nodes |-> [w \in Workers |-> Off(n)]]
    /\ metrics = [n \in Nodes |-> [p \in Nodes |-> Unknown]]

-----------------------------------------------------------------------------
(* Connections *)

Linked(n, p) == {n, p} \in links

\* AddPeer of the PeersManager; nothing removes a peer that has left.
AddPeer(n, p) == peers' = [peers EXCEPT ![n] = @ \cup {p}]

\* Connect of the host; a connection that fails changes nothing.
Connect(n, p) ==
    /\ n # p
    /\ host[n] = "open" /\ host[p] = "open" /\ ~cancelled[n]
    /\ links' = links \cup {{n, p}}
    /\ UNCHANGED <<startVars, shutdown, cancelled, host, monitorVars>>

\* NewDiscoveryService connects to the bootstrap peers while the node is built;
\* the PeersManager does not hear of them.
NewDiscoveryService(n, p) ==
    /\ start[n] = "new"
    /\ Connect(n, p)
    /\ UNCHANGED peers

ConnectPeerInfo(n, p) == Connect(n, p) /\ AddPeer(n, p)

\* A bootstrap peer again, by its address, at the end of Network.Start.
ConnectPeer(n, p) ==
    /\ start[n] = "network"
    /\ ConnectPeerInfo(n, p)

\* A peer found by mDNS, whose service runs from Network.Start on.
HandlePeerFound(n, p) ==
    /\ handler[n] # "none"
    /\ ConnectPeerInfo(n, p)

Disconnect(l) ==
    /\ links' = links \ {l}
    /\ UNCHANGED <<startVars, shutdown, cancelled, host, peers, monitorVars>>

-----------------------------------------------------------------------------
(* The monitor *)

\* Start of the monitor.
MonitorStart(n) ==
    /\ collector' = [collector EXCEPT ![n] = "run"]
    /\ worker' = [worker EXCEPT ![n] = [w \in Workers |-> Free(n)]]
    /\ UNCHANGED <<channel, metrics>>

FirstOf(s, k) == IF Len(s) <= k THEN s ELSE SubSeq(s, 1, k)

\* Mutant: without the test that skips the node itself, and from a list that has
\* it, like that of the peerstore.
CollectPeersAndSelf(n) ==
    /\ collector[n] = "run" /\ host[n] = "open"
    /\ \E s \in SetToSeqs({p \in Nodes : Linked(n, p) \/ p = n}) :
        channel' = [channel EXCEPT ![n] = FirstOf(@ \o s, Cardinality(Workers))]
    /\ UNCHANGED <<startVars, shutdown, cancelled, netVars, collector, worker, metrics>>

\* A tick: the peers, in any order, as long as there is room.
CollectPeers(n) ==
    /\ collector[n] = "run" /\ host[n] = "open"
    /\ \E s \in SetToSeqs({p \in Nodes : Linked(n, p)}) :
        channel' = [channel EXCEPT ![n] = FirstOf(@ \o s, Cardinality(Workers))]
    /\ UNCHANGED <<startVars, shutdown, cancelled, netVars, collector, worker, metrics>>

CloseChannel(n) ==
    /\ collector[n] = "run" /\ cancelled[n]
    /\ collector' = [collector EXCEPT ![n] = "closed"]
    /\ UNCHANGED <<startVars, shutdown, cancelled, netVars, channel, worker, metrics>>

SetWorker(n, w, state) ==
    /\ worker' = [worker EXCEPT ![n][w] = state]
    /\ UNCHANGED <<startVars, shutdown, cancelled, netVars, collector>>

WorkerEnds(n, w) ==
    /\ worker[n][w].at = "free"
    /\ cancelled[n] \/ (collector[n] = "closed" /\ channel[n] = <<>>)
    /\ SetWorker(n, w, Done(n))
    /\ UNCHANGED <<channel, metrics>>

\* A select: also if the context is cancelled.
WorkerTakes(n, w) ==
    /\ worker[n][w].at = "free" /\ channel[n] # <<>>
    /\ SetWorker(n, w, Worker("open", Head(channel[n]), FALSE))
    /\ channel' = [channel EXCEPT ![n] = Tail(@)]
    /\ UNCHANGED metrics

\* NewStream and Write, with a timeout and under the context of the node.
OpenStream(n, w) ==
    LET p == worker[n][w].peer
    IN /\ worker[n][w].at = "open"
       /\ \/ /\ ~cancelled[n] /\ Linked(n, p) /\ handler[p] # "none"
             /\ SetWorker(n, w, Worker("asked", p, FALSE))
          \/ SetWorker(n, w, Worker("first", p, FALSE))
       /\ UNCHANGED <<channel, metrics>>

\* The handler of Network.Start logs what it has read and closes the stream.
HandleStream(n, w) ==
    LET p == worker[n][w].peer
    IN /\ worker[n][w].at = "asked" /\ Linked(n, p) /\ handler[p] = "stream"
       /\ SetWorker(n, w, Worker("first", p, FALSE))
       /\ UNCHANGED <<channel, metrics>>

\* The handler of Node.Start answers "pong".
Answer(n, w) ==
    LET p == worker[n][w].peer
    IN /\ worker[n][w].at = "asked" /\ Linked(n, p) /\ handler[p] = "ping"
       /\ SetWorker(n, w, Worker("first", p, TRUE))
       /\ UNCHANGED <<channel, metrics>>

\* Mutant: a Read that fails is tried again.
StreamLostRetried(n, w) ==
    /\ worker[n][w].at = "asked" /\ ~Linked(n, worker[n][w].peer)
    /\ SetWorker(n, w, worker[n][w])
    /\ UNCHANGED <<channel, metrics>>

\* Read ends with an error.
StreamLost(n, w) ==
    /\ worker[n][w].at = "asked" /\ ~Linked(n, worker[n][w].peer)
    /\ SetWorker(n, w, Worker("first", worker[n][w].peer, FALSE))
    /\ UNCHANGED <<channel, metrics>>

Score(ok) == IF ok THEN 1 ELSE 0

\* UpdateResponsiveness and UpdateReliability, under the lock one by one.
UpdateResponsiveness(n, w) ==
    /\ worker[n][w].at = "first"
    /\ metrics' = [metrics EXCEPT ![n][worker[n][w].peer].responsiveness = Score(worker[n][w].ok)]
    /\ SetWorker(n, w, [worker[n][w] EXCEPT !.at = "second"])
    /\ UNCHANGED channel

UpdateReliability(n, w) ==
    /\ worker[n][w].at = "second"
    /\ metrics' = [metrics EXCEPT ![n][worker[n][w].peer].reliability = Score(worker[n][w].ok)]
    /\ SetWorker(n, w, Free(n))
    /\ UNCHANGED channel

-----------------------------------------------------------------------------
(* Start of a node *)

\* Network.Start: the topic and the first handler; it may fail.
NetworkStart(n) ==
    /\ start[n] = "new"
    /\ \E ok \in Outcomes :
        /\ start' = [start EXCEPT ![n] = IF ok THEN "network" ELSE "failed"]
        /\ handler' = [handler EXCEPT ![n] = IF ok THEN "stream" ELSE @]
    /\ UNCHANGED <<shutdown, cancelled, netVars, monitorVars>>

\* The handler that answers pings takes the place of the first one.
SetPingHandler(n) ==
    /\ start[n] = "network"
    /\ start' = [start EXCEPT ![n] = "handler"]
    /\ handler' = [handler EXCEPT ![n] = "ping"]
    /\ UNCHANGED <<shutdown, cancelled, netVars, monitorVars>>

StartMonitor(n) ==
    /\ start[n] = "handler"
    /\ start' = [start EXCEPT ![n] = IF cancelled[n] THEN "late" ELSE "started"]
    /\ MonitorStart(n)
    /\ UNCHANGED <<handler, shutdown, cancelled, netVars>>

-----------------------------------------------------------------------------
(* Shutdown of a node *)

SetShutdown(n, at) == shutdown' = [shutdown EXCEPT ![n] = at]

BeginShutdown(n) ==
    /\ shutdown[n] = "no" /\ start[n] # "new"
    /\ SetShutdown(n, "monitor")
    /\ cancelled' = [cancelled EXCEPT ![n] = TRUE]
    /\ UNCHANGED <<startVars, netVars, monitorVars>>

\* Mutant: Stop does not wait.
MonitorStoppedAtOnce(n) == TRUE

\* wg.Wait of the monitor.
MonitorStopped(n) == \A w \in Workers : worker[n][w].at \in {"off", "done"}

\* Stop of the monitor has returned.
StopMonitor(n) ==
    /\ shutdown[n] = "monitor"
    /\ MonitorStopped(n)
    /\ SetShutdown(n, "validator")
    /\ UNCHANGED <<startVars, cancelled, netVars, monitorVars>>

\* The validator is stopped, or Shutdown gives up with an error.
StopValidator(n) ==
    /\ shutdown[n] = "validator"
    /\ \E ok \in Outcomes : SetShutdown(n, IF ok THEN "network" ELSE "failed")
    /\ UNCHANGED <<startVars, cancelled, netVars, monitorVars>>

\* Network.Shutdown: an error of the mDNS service leaves the host open.
NetworkShutdown(n) ==
    /\ shutdown[n] = "network"
    /\ \E ok \in Outcomes :
        /\ SetShutdown(n, IF ok THEN "storage" ELSE "failed")
        /\ host' = [host EXCEPT ![n] = IF ok THEN "closed" ELSE @]
        /\ links' = IF ok THEN {l \in links : n \notin l} ELSE links
    /\ UNCHANGED <<startVars, cancelled, peers, monitorVars>>

CloseStorage(n) ==
    /\ shutdown[n] = "storage"
    /\ \E ok \in Outcomes : SetShutdown(n, IF ok THEN "stopped" ELSE "failed")
    /\ UNCHANGED <<startVars, cancelled, netVars, monitorVars>>

-----------------------------------------------------------------------------

\* The steps of a ping, of which there is always one to take.
Pinging(n, w) ==
    \/ OpenStream(n, w) \/ HandleStream(n, w) \/ Answer(n, w) \/ StreamLost(n, w)
    \/ UpdateResponsiveness(n, w) \/ UpdateReliability(n, w)

WorkerStep(n, w) == WorkerEnds(n, w) \/ WorkerTakes(n, w) \/ Pinging(n, w)

ShutdownStep(n) ==
    StopMonitor(n) \/ StopValidator(n) \/ NetworkShutdown(n) \/ CloseStorage(n)

Next ==
    \/ \E n, p \in Nodes : NewDiscoveryService(n, p) \/ ConnectPeer(n, p) \/ HandlePeerFound(n, p)
    \/ \E l \in links : Disconnect(l)
    \/ \E n \in Nodes :
        \/ NetworkStart(n) \/ SetPingHandler(n) \/ StartMonitor(n)
        \/ CollectPeers(n) \/ CloseChannel(n)
        \/ BeginShutdown(n) \/ ShutdownStep(n)
        \/ \E w \in Workers : WorkerStep(n, w)

Spec == Init /\ [][Next]_vars

\* A goroutine that can go on does.  WorkerEnds: the select of a worker whose
\* context is cancelled chooses that case after finitely many others.  Answer:
\* the handlers, which libp2p runs as long as the host is open.
Fairness ==
    \A n \in Nodes :
        /\ WF_vars(ShutdownStep(n))
        /\ WF_vars(CloseChannel(n))
        /\ \A w \in Workers :
            /\ WF_vars(Pinging(n, w))
            /\ SF_vars(WorkerEnds(n, w))

LiveSpec == Spec /\ Fairness

-----------------------------------------------------------------------------
(* Properties *)

\* The state has its types; connections join different nodes with open hosts.
TypeOK ==
    /\ start \in [Nodes -> {"new", "network", "handler", "started", "late", "failed"}]
    /\ shutdown \in [Nodes -> {"no", "monitor", "validator", "network", "storage", "stopped", "failed"}]
    /\ cancelled \in [Nodes -> BOOLEAN]
    /\ handler \in [Nodes -> {"none", "stream", "ping"}]
    /\ \A l \in links : Cardinality(l) = 2 /\ \A n \in l : host[n] = "open"
    /\ peers \in [Nodes -> SUBSET Nodes]
    /\ collector \in [Nodes -> {"off", "run", "closed"}]
    /\ \A n \in Nodes : channel[n] \in Seq(Nodes \ {n}) /\ Len(channel[n]) <= Cardinality(Workers)
    /\ \A n \in Nodes, w \in Workers :
        worker[n][w].at \in {"off", "free", "open", "asked", "first", "second", "done"}

\* No ping runs on a closed host: Shutdown stops the monitor before it closes
\* the network, unless Start has started the monitor after that.
NoPingOnClosedHost ==
    \A n \in Nodes : host[n] = "closed" /\ start[n] # "late"
        => \A w \in Workers : worker[n][w].at \in {"off", "done"}

\* Shutdown returns on every node, though all of them may be shutting down and
\* wait for each other's answers and Start may still be running.
ShutdownReturns ==
    \A n \in Nodes : shutdown[n] = "monitor" ~> shutdown[n] \in {"stopped", "failed"}
=============================================================================
