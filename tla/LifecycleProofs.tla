--------------------------- MODULE LifecycleProofs ----------------------------
(***************************************************************************)
(* Proofs about the safety of Lifecycle, for any services on the command     *)
(* line, whichever calls fail, time out or block and whenever a signal       *)
(* arrives.                                                                *)
(***************************************************************************)
EXTENDS Lifecycle, SequenceTheorems, FiniteSetTheorems, TLAPS

-----------------------------------------------------------------------------
(* The inductive invariant *)

\* A goroutine that holds the channel of a component waits for that component.
StateInv ==
    /\ StateTypeOK
    /\ \A t \in StateTypes : \A p \in waitChans[t] :
        calls[p] # NoCall /\ calls[p].type = t /\ calls[p].step \in {"appear", "wait"}

MainLabels == {"storage", "identity", "inject", "newNode", "newValidator", "initNode",
               "addNode", "register", "wait", "join", "exited"}

BaseLabels == {"notStarted", "exists", "wait", "done", "failed"}

StarterLabels == {"v.starting", "c.starting", "c.spawn", "c.started", "v.started"}

NodeLabels == {"notStarted", "n.starting", "n.network", "n.await", "n.started", "done",
               "failed"} \cup StarterLabels

ServiceLabels(s) ==
    {"notStarted", "initializing", "addCallback", "starting", "failing", "done", "failed"}
    \cup (IF s = "chain" THEN {"spawn", "await", "join"} ELSE {})
    \cup (IF s = "consensus" THEN {"await"} \cup StarterLabels ELSE {})

\* The shutdown manager at work, and then past the wait for the module.
Undrained == {"next", "stop", "n.stopping", "v.stopping", "c.stopping", "c.drain"}
Drained == {"c.stopped", "v.await", "v.stopped", "v.failed", "n.log", "n.await",
            "n.network", "n.storage", "n.stopped", "n.failed"}

PcTypes ==
    /\ pc \in [Goroutines -> Labels]
    /\ pc["main"] \in MainLabels
    /\ pc["base"] \in BaseLabels
    /\ pc["node"] \in NodeLabels
    /\ pc["shutdown"] \in {"select", "done"} \cup Undrained \cup Drained
    /\ \A s \in Requested : pc[s] \in ServiceLabels(s)

\* main spawns base, base the services and the chain service the node, each once;
\* the chain service goes on only with a node that has started, and the
\* consensus service only after the chain service.
SpawnInv ==
    /\ pc["main"] \notin {"wait", "join", "exited"} => pc["base"] = "notStarted"
    /\ pc["base"] \in {"notStarted", "exists"} => \A s \in Requested : pc[s] = "notStarted"
    /\ pc["node"] # "notStarted" =>
            /\ "chain" \in Requested
            /\ pc["chain"] \notin {"notStarted", "initializing", "addCallback", "spawn"}
    /\ "chain" \in Requested /\ pc["chain"] \in {"starting", "done"} => pc["node"] = "done"
    /\ "consensus" \in Requested /\ pc["consensus"] \in StarterLabels \cup {"starting", "done"}
            => "chain" \in Requested /\ pc["chain"] = "done"

\* What the consensus service waits for is the Started of the chain service,
\* and nothing else can end its wait without an error.
AwaitInv ==
    calls["consensus"] # NoCall =>
        /\ calls["consensus"].type = "chain" /\ calls["consensus"].desired = "Started"
        /\ calls["consensus"].step = "reached" => "chain" \in Requested /\ pc["chain"] = "done"

\* A service is Started by its own goroutine, in its last step; the node is and
\* stays Started until the context is cancelled.
StartedInv ==
    /\ \A s \in Requested : serviceStates[s] = "Started" => pc[s] = "done"
    /\ serviceStates["chain"] = "Started" => "chain" \in Requested
    /\ pc["node"] = "done" /\ ~cancelled => serviceStates["node"] = "Started"

\* The shutdown manager works on a cancelled context.
CancelInv ==
    /\ cancelled \in BOOLEAN
    /\ pc["shutdown"] # "select" => cancelled

\* Each service registers its callback once, before it starts anything; main
\* registers that of the node while it builds the chain service.
Unregistered == {"notStarted", "initializing", "addCallback"}

Holds(s) == \E i \in DOMAIN callbacks : callbacks[i] = s

CallbacksInv ==
    /\ callbacks \in Seq(Requested \cup {"node"})
    /\ \A i, j \in DOMAIN callbacks : callbacks[i] = callbacks[j] => i = j
    /\ ran \in 0 .. Len(callbacks)
    /\ \A s \in Requested : Holds(s) <=> pc[s] \notin Unregistered
    /\ Holds("node") => "chain" \in registry \/ pc["main"] = "register"
    /\ pc["main"] \in {"newNode", "newValidator", "initNode", "addNode"} => ~Holds("node")
    /\ pc["shutdown"] = "select" => ran = 0
    /\ pc["shutdown"] = "stop" => ran > 0 /\ callbacks[ran] \in Requested

BootInv ==
    /\ received \subseteq Signals
    /\ registry \subseteq Handlers
    /\ resources \subseteq {"storage", "identity", "node"}
    /\ dbs \in {"none", "open", "closed"}

\* Each of the two that start the module counts once.
Spawned(g) == g \in Goroutines /\ pc[g] \notin
    {"notStarted", "initializing", "addCallback", "await", "n.starting", "n.network",
     "v.starting", "c.starting", "c.spawn"}

RunningInv ==
    /\ running \in Nat
    /\ running <= (IF Spawned("node") THEN 1 ELSE 0) + (IF Spawned("consensus") THEN 1 ELSE 0)
    /\ pc["node"] \in {"c.started", "v.started", "n.await", "n.started", "done"} /\ ~cancelled
            => running > 0

\* A service that had started is stopped, or its callback is still to come.
StoppingInv ==
    /\ startedAt \subseteq Requested
    /\ pc["shutdown"] = "select" => startedAt = {} /\ dbs # "closed"
    /\ \A s \in startedAt :
        /\ pc[s] = "done"
        /\ \/ serviceStates[s] = "Stopped"
           \/ /\ pc["shutdown"] # "done"
              /\ \E i \in DOMAIN callbacks :
                    callbacks[i] = s /\ (i > ran \/ (i = ran /\ pc["shutdown"] = "stop"))

\* Once the module has been waited for, nobody starts it again.
DrainInv ==
    startedAt = Requested /\ (pc["shutdown"] \in Drained \/ dbs = "closed") => running = 0

\* What depends on how far the waits are, and what does not.
WaitsInv == StateInv /\ AwaitInv

StepsInv ==
    /\ PcTypes /\ SpawnInv
    /\ StartedInv /\ CancelInv
    /\ CallbacksInv /\ BootInv
    /\ RunningInv /\ StoppingInv /\ DrainInv

LifecycleInv == WaitsInv /\ StepsInv

-----------------------------------------------------------------------------
(* The state managers *)

ChainStaysDone == "chain" \in Requested /\ pc["chain"] = "done" => pc'["chain"] = "done"

LEMMA CallIs ==
    ASSUME StateInv, NEW p \in Waiters
    PROVE  /\ calls[p] = NoCall \/ calls[p] \in [step : {"appear", "recheck", "register", "wait",
                                                         "reached", "timeout"},
                                                 type : StateTypes, desired : States]
           /\ calls[p] = NoCall <=> calls[p].step = "none"
    BY DEF StateInv, StateTypeOK, Calls, NoCall

LEMMA SetStateTypes ==
    ASSUME StateInv, NEW t \in StateTypes, NEW s \in States, SetState(t, s)
    PROVE  StateInv'
    <1>1. serviceStates' \in [StateTypes -> States \cup {"absent"}]
        BY DEF StateInv, StateTypeOK, SetState
    <1>2. CASE s = "Started"
        <2>1. waitChans' = [waitChans EXCEPT ![t] = {}] /\ calls' = Woken(t)
            BY <1>2 DEF SetState
        <2>2. waitChans' \in [StateTypes -> SUBSET Waiters]
            BY <2>1 DEF StateInv, StateTypeOK
        <2>3. ASSUME NEW p \in Waiters PROVE calls'[p] \in Calls
            <3>1. CASE p \in waitChans[t]
                <4>1. calls[p] # NoCall
                    BY <3>1 DEF StateInv
                <4>2. calls'[p] = [calls[p] EXCEPT !.step =
                                    IF @ = "appear" THEN "recheck" ELSE "reached"]
                    BY <2>1, <3>1 DEF Woken
                <4>3. QED BY <4>1, <4>2, CallIs DEF Calls
            <3>2. CASE p \notin waitChans[t]
                BY <2>1, <3>2 DEF Woken, StateInv, StateTypeOK
            <3>3. QED BY <3>1, <3>2
        <2>4. calls' \in [Waiters -> Calls]
            BY <2>1, <2>3 DEF Woken
        <2>5. ASSUME NEW u \in StateTypes, NEW p \in waitChans'[u]
              PROVE  /\ calls'[p] # NoCall /\ calls'[p].type = u
                     /\ calls'[p].step \in {"appear", "wait"}
            <3>1. u # t /\ p \in waitChans[u]
                BY <2>1, <2>5 DEF StateInv, StateTypeOK
            <3>2. p \in Waiters /\ calls[p].type = u
                BY <3>1 DEF StateInv, StateTypeOK
            <3>3. p \notin waitChans[t]
                BY <3>1, <3>2 DEF StateInv
            <3>4. calls'[p] = calls[p]
                BY <2>1, <3>2, <3>3 DEF Woken
            <3>5. QED BY <3>1, <3>4 DEF StateInv
        <2>6. QED BY <1>1, <2>2, <2>4, <2>5 DEF StateInv, StateTypeOK
    <1>3. CASE s # "Started"
        BY <1>1, <1>3 DEF SetState, StateInv, StateTypeOK
    <1>4. QED BY <1>2, <1>3

\* Only the Started of the chain service can wake the consensus service.
LEMMA SetStateKeeps ==
    ASSUME WaitsInv, NEW t \in StateTypes, NEW s \in States, SetState(t, s), ChainStaysDone,
           t = "chain" /\ s = "Started" => "chain" \in Requested /\ pc'["chain"] = "done"
    PROVE  WaitsInv'
    <1>1. StateInv'
        BY SetStateTypes DEF WaitsInv
    <1>2. AwaitInv'
        <2>1. CASE s = "Started" /\ "consensus" \in waitChans[t]
            <3>1. "consensus" \in Waiters
                BY WaitersAssumption
            <3>2. /\ calls["consensus"] # NoCall /\ calls["consensus"].type = t
                  /\ calls["consensus"].desired = "Started" /\ t = "chain"
                BY <2>1 DEF WaitsInv, StateInv, AwaitInv
            <3>3. calls'["consensus"] = [calls["consensus"] EXCEPT !.step =
                                            IF @ = "appear" THEN "recheck" ELSE "reached"]
                BY <2>1, <3>1 DEF SetState, Woken
            <3>4. /\ calls'["consensus"].type = "chain"
                  /\ calls'["consensus"].desired = "Started"
                BY <3>1, <3>2, <3>3, CallIs DEF WaitsInv
            <3>5. QED BY <2>1, <3>2, <3>4 DEF AwaitInv
        <2>2. CASE ~(s = "Started" /\ "consensus" \in waitChans[t])
            <3>1. calls'["consensus"] = calls["consensus"]
                BY <2>2, WaitersAssumption DEF SetState, Woken
            <3>2. QED BY <3>1 DEF WaitsInv, AwaitInv, ChainStaysDone
        <2>3. QED BY <2>1, <2>2
    <1>3. QED BY <1>1, <1>2 DEF WaitsInv

LEMMA UnchangedKeeps ==
    ASSUME WaitsInv, UNCHANGED stateVars, ChainStaysDone
    PROVE  WaitsInv'
    BY DEF WaitsInv, StateInv, StateTypeOK, AwaitInv, stateVars, ChainStaysDone

\* A change of the call of p that keeps p out of channels it does not wait for.
LEMMA CallKeeps ==
    ASSUME WaitsInv, NEW p \in Waiters, NEW c \in Calls, calls' = [calls EXCEPT ![p] = c],
           UNCHANGED serviceStates, ChainStaysDone,
           waitChans' \in [StateTypes -> SUBSET Waiters],
           \A t \in StateTypes : waitChans'[t] \subseteq waitChans[t] \cup {p},
           \A t \in StateTypes : p \in waitChans'[t] =>
                c # NoCall /\ c.type = t /\ c.step \in {"appear", "wait"},
           p = "consensus" /\ c # NoCall =>
                /\ c.type = "chain" /\ c.desired = "Started"
                /\ c.step = "reached" => "chain" \in Requested /\ pc["chain"] = "done"
    PROVE  WaitsInv'
    <1>1. calls \in [Waiters -> Calls]
        BY DEF WaitsInv, StateInv, StateTypeOK
    <1>2. \A q \in Waiters : calls'[q] = IF q = p THEN c ELSE calls[q]
        BY <1>1
    <1>3. StateInv'
        <2>1. StateTypeOK'
            BY <1>1 DEF WaitsInv, StateInv, StateTypeOK
        <2>2. ASSUME NEW t \in StateTypes, NEW q \in waitChans'[t]
              PROVE  /\ calls'[q] # NoCall /\ calls'[q].type = t
                     /\ calls'[q].step \in {"appear", "wait"}
            <3>1. q \in Waiters
                BY <2>2
            <3>2. CASE q = p
                BY <1>2, <2>2, <3>1, <3>2
            <3>3. CASE q # p
                <4>1. q \in waitChans[t]
                    BY <2>2, <3>3
                <4>2. QED BY <1>2, <3>1, <3>3, <4>1 DEF WaitsInv, StateInv
            <3>4. QED BY <3>2, <3>3
        <2>3. QED BY <2>1, <2>2 DEF StateInv
    <1>4. AwaitInv'
        BY <1>2, WaitersAssumption DEF WaitsInv, AwaitInv, ChainStaysDone
    <1>5. QED BY <1>3, <1>4 DEF WaitsInv

LEMMA WaitForStateKeeps ==
    ASSUME WaitsInv, NEW p \in Waiters, NEW t \in StateTypes, NEW desired \in States,
           WaitForState(p, t, desired), ChainStaysDone,
           p = "consensus" => t = "chain" /\ desired = "Started",
           serviceStates["chain"] = "Started" => "chain" \in Requested /\ pc["chain"] = "done"
    PROVE  WaitsInv'
    <1>1. \A step \in {"appear", "register", "reached"} :
            /\ Call(step, t, desired) \in Calls /\ Call(step, t, desired) # NoCall
            /\ Call(step, t, desired).type = t /\ Call(step, t, desired).desired = desired
            /\ Call(step, t, desired).step = step
        BY DEF Call, Calls, NoCall
    <1>2. \A u \in StateTypes : p \notin waitChans[u]
        BY DEF WaitForState, WaitsInv, StateInv
    <1>3. waitChans \in [StateTypes -> SUBSET Waiters] /\ UNCHANGED serviceStates
        BY DEF WaitForState, WaitsInv, StateInv, StateTypeOK
    <1>4. CASE serviceStates[t] = "absent"
        <2> DEFINE c == Call("appear", t, desired)
        <2>1. waitChans' = [waitChans EXCEPT ![t] = {p}] /\ calls' = [calls EXCEPT ![p] = c]
            BY <1>4 DEF WaitForState
        <2>2. /\ waitChans' \in [StateTypes -> SUBSET Waiters]
              /\ \A u \in StateTypes : waitChans'[u] \subseteq waitChans[u] \cup {p}
              /\ \A u \in StateTypes : p \in waitChans'[u] => u = t
            BY <1>2, <1>3, <2>1
        <2>3. c \in Calls /\ c # NoCall /\ c.type = t /\ c.desired = desired /\ c.step = "appear"
            BY <1>1
        <2> HIDE DEF c
        <2>4. QED BY <1>3, <2>1, <2>2, <2>3, CallKeeps
    <1>5. CASE serviceStates[t] # "absent"
        <2> DEFINE step == IF serviceStates[t] = desired THEN "reached" ELSE "register"
                   c == Call(step, t, desired)
        <2>1. waitChans' = waitChans /\ calls' = [calls EXCEPT ![p] = c]
            BY <1>5 DEF WaitForState
        <2>2. c \in Calls /\ c # NoCall /\ c.type = t /\ c.desired = desired /\ c.step = step
            BY <1>1
        <2>3. step = "reached" => serviceStates[t] = desired
            OBVIOUS
        <2> HIDE DEF step, c
        <2>4. p = "consensus" /\ c # NoCall =>
                /\ c.type = "chain" /\ c.desired = "Started"
                /\ c.step = "reached" => "chain" \in Requested /\ pc["chain"] = "done"
            BY <2>2, <2>3
        <2>5. QED BY <1>2, <1>3, <2>1, <2>2, <2>4, CallKeeps
    <1>6. QED BY <1>4, <1>5

LEMMA ReturnsKeeps ==
    ASSUME WaitsInv, NEW p \in Waiters, NEW result \in {"reached", "timeout"},
           Returns(p, result), ChainStaysDone
    PROVE  WaitsInv'
    <1>1. \A u \in StateTypes : p \notin waitChans[u]
        BY DEF Returns, At, WaitsInv, StateInv
    <1>2. /\ waitChans' \in [StateTypes -> SUBSET Waiters]
          /\ waitChans' = waitChans /\ UNCHANGED serviceStates
        BY DEF Returns, WaitsInv, StateInv, StateTypeOK
    <1>3. NoCall \in Calls /\ calls' = [calls EXCEPT ![p] = NoCall]
        BY DEF Calls, Returns
    <1>4. QED BY <1>1, <1>2, <1>3, CallKeeps

LEMMA WaitStepKeeps ==
    ASSUME WaitsInv, NEW p \in Waiters, WaitStep(p), ChainStaysDone,
           serviceStates["chain"] = "Started" => "chain" \in Requested /\ pc["chain"] = "done"
    PROVE  WaitsInv'
    <1> DEFINE t == calls[p].type
               Moved(step) == [calls[p] EXCEPT !.step = step]
    <1>1. calls[p] # NoCall /\ UNCHANGED serviceStates
        BY CallIs DEF WaitsInv, WaitStep, Recheck, RegisterWait, TimeOut, At
    <1>2. /\ t \in StateTypes
          /\ \A step \in {"reached", "register", "wait", "timeout"} :
                /\ Moved(step) \in Calls /\ Moved(step) # NoCall
                /\ Moved(step).type = t /\ Moved(step).desired = calls[p].desired
                /\ Moved(step).step = step
        BY <1>1, CallIs DEF WaitsInv, Calls, NoCall
    <1>3. p = "consensus" => t = "chain" /\ calls[p].desired = "Started"
        BY <1>1 DEF WaitsInv, AwaitInv
    <1>4. waitChans \in [StateTypes -> SUBSET Waiters]
        BY DEF WaitsInv, StateInv, StateTypeOK
    <1>5. \A u \in StateTypes : p \in waitChans[u] => u = t /\ calls[p].step \in {"appear", "wait"}
        BY DEF WaitsInv, StateInv
    <1>6. \A step : Advance(p, step) => calls' = [calls EXCEPT ![p] = Moved(step)]
        BY DEF Advance
    <1> HIDE DEF t, Moved
    <1>7. CASE Recheck(p)
        <2> DEFINE step == IF serviceStates[calls[p].type] = calls[p].desired
                           THEN "reached" ELSE "register"
        <2>1. /\ calls' = [calls EXCEPT ![p] = Moved(step)] /\ waitChans' = waitChans
              /\ calls[p].step = "recheck"
            BY <1>6, <1>7 DEF Recheck, At
        <2>2. step = "reached" => serviceStates[t] = calls[p].desired
            BY DEF t
        <2>3. step \in {"reached", "register"}
            OBVIOUS
        <2> HIDE DEF step
        <2>4. QED BY <1>1, <1>2, <1>3, <1>4, <1>5, <2>1, <2>2, <2>3, CallKeeps
    <1>8. CASE RegisterWait(p)
        <2>1. /\ calls' = [calls EXCEPT ![p] = Moved("wait")]
              /\ waitChans' = [waitChans EXCEPT ![t] = @ \cup {p}]
              /\ calls[p].step = "register"
            BY <1>6, <1>8 DEF RegisterWait, At, t
        <2>2. /\ waitChans' \in [StateTypes -> SUBSET Waiters]
              /\ \A u \in StateTypes : waitChans'[u] \subseteq waitChans[u] \cup {p}
              /\ \A u \in StateTypes : p \in waitChans'[u] => u = t
            BY <1>2, <1>4, <1>5, <2>1
        <2> DEFINE c == Moved("wait")
        <2>3. /\ c \in Calls /\ c # NoCall /\ c.type = t /\ c.step = "wait"
              /\ c.desired = calls[p].desired /\ calls' = [calls EXCEPT ![p] = c]
            BY <1>2, <2>1
        <2> HIDE DEF c
        <2>4. QED BY <1>1, <1>3, <2>2, <2>3, CallKeeps
    <1>9. CASE TimeOut(p)
        <2>1. /\ calls' = [calls EXCEPT ![p] = Moved("timeout")]
              /\ waitChans' = [waitChans EXCEPT ![t] = @ \ {p}]
            BY <1>6, <1>9 DEF TimeOut, At, t
        <2>2. /\ waitChans' \in [StateTypes -> SUBSET Waiters]
              /\ \A u \in StateTypes : waitChans'[u] \subseteq waitChans[u] \cup {p}
              /\ \A u \in StateTypes : p \notin waitChans'[u]
            BY <1>2, <1>4, <1>5, <2>1
        <2>3. QED BY <1>1, <1>2, <1>3, <2>1, <2>2, CallKeeps
    <1>10. QED BY <1>7, <1>8, <1>9 DEF WaitStep

-----------------------------------------------------------------------------
(* One goroutine moves *)

Others == {"main", "base", "shutdown", "node"}

LEMMA Names ==
    /\ Others \subseteq Goroutines /\ Requested \subseteq Goroutines
    /\ Goroutines = Others \cup Requested
    /\ Others \cap Requested = {}
    BY NamesAssumption DEF Goroutines, Others

LEMMA PcAfter ==
    ASSUME PcTypes, NEW g \in Goroutines, NEW to, pc' = [pc EXCEPT ![g] = to]
    PROVE  \A h \in Goroutines : pc'[h] = IF h = g THEN to ELSE pc[h]
    BY DEF PcTypes

\* The states of services, which the other components' states do not touch.
ServicesSame == \A t \in Requested \cup {"chain"} : serviceStates'[t] = serviceStates[t]

\* The shutdown manager, inside a callback.
LEMMA ShutdownKeeps ==
    ASSUME StepsInv, NEW from \in (Undrained \cup Drained) \ {"next", "stop"},
           NEW to \in (Undrained \cup Drained) \ {"stop"}, Moves("shutdown", from, to),
           UNCHANGED <<runVars, registry, resources>>,
           dbs' = dbs \/ (dbs' = "closed" /\ from \in Drained),
           to \in Drained => from \in Drained \/ running = 0,
           ServicesSame
    PROVE  StepsInv'
    <1> USE DEF StepsInv, runVars
    <1>1. /\ pc["shutdown"] = from /\ pc'["shutdown"] = to
          /\ \A g \in Goroutines \ {"shutdown"} : pc'[g] = pc[g]
          /\ pc' \in [Goroutines -> Labels]
        <2>1. to \in Labels
            BY DEF Undrained, Drained, Labels
        <2>2. QED BY <2>1, Names, PcAfter DEF Moves, PcTypes, Others
    <1>2. \A s \in Requested \cup {"main", "base", "node"} : pc'[s] = pc[s]
        BY <1>1, Names DEF Others
    <1>3. PcTypes'
        BY <1>1, <1>2 DEF PcTypes
    <1>4. SpawnInv'
        BY <1>2 DEF SpawnInv
    <1>5. CancelInv' /\ cancelled
        BY <1>1 DEF CancelInv, Undrained, Drained
    <1>6. StartedInv'
        BY <1>2, <1>5 DEF StartedInv, ServicesSame
    <1>7. CallbacksInv'
        BY <1>1, <1>2 DEF CallbacksInv, Holds, Undrained, Drained
    <1>8. BootInv'
        BY DEF BootInv
    <1>9. RunningInv'
        <2>1. Spawned("node")' = Spawned("node") /\ Spawned("consensus")' = Spawned("consensus")
            BY <1>1 DEF Spawned
        <2>2. QED BY <1>2, <2>1 DEF RunningInv
    <1>10. StoppingInv'
        BY <1>1, <1>2 DEF StoppingInv, ServicesSame, Undrained, Drained
    <1>11. DrainInv'
        BY <1>1 DEF DrainInv
    <1>12. QED BY <1>3, <1>4, <1>5, <1>6, <1>7, <1>8, <1>9, <1>10, <1>11

\* The goroutine that starts the node; it spawns those of the module elsewhere.
Running == {"c.started", "v.started", "n.await", "n.started", "done"}
Before == {"n.starting", "n.network", "v.starting", "c.starting", "c.spawn"}

LEMMA NodeKeeps ==
    ASSUME StepsInv, NEW from \in NodeLabels \ {"notStarted", "done"},
           NEW to \in NodeLabels \ {"notStarted"}, Moves("node", from, to),
           UNCHANGED <<runVars, bootVars>>, ServicesSame,
           to = "done" => serviceStates'["node"] = "Started",
           to \in Running => from \in Running, to \in Before => from \in Before
    PROVE  StepsInv'
    <1> USE DEF StepsInv, runVars, bootVars
    <1>1. /\ pc["node"] = from /\ pc'["node"] = to
          /\ \A g \in Goroutines \ {"node"} : pc'[g] = pc[g]
          /\ pc' \in [Goroutines -> Labels]
        <2>1. to \in Labels
            BY DEF NodeLabels, StarterLabels, Labels
        <2>2. QED BY <2>1, Names, PcAfter DEF Moves, PcTypes, Others
    <1>2. \A s \in Requested \cup {"main", "base", "shutdown"} : pc'[s] = pc[s]
        BY <1>1, Names DEF Others
    <1>3. PcTypes'
        BY <1>1, <1>2 DEF PcTypes
    <1>4. SpawnInv'
        BY <1>1, <1>2 DEF SpawnInv
    <1>5. CancelInv'
        BY <1>2 DEF CancelInv
    <1>6. StartedInv'
        BY <1>1, <1>2 DEF StartedInv, ServicesSame
    <1>7. CallbacksInv'
        BY <1>2 DEF CallbacksInv, Holds
    <1>8. BootInv'
        BY DEF BootInv
    <1>9. RunningInv'
        <2>1. Spawned("node") => Spawned("node")'
            BY <1>1 DEF Spawned, Before, NodeLabels, StarterLabels
        <2>2. Spawned("consensus")' = Spawned("consensus")
            BY <1>1 DEF Spawned
        <2>3. running <= (IF Spawned("node") THEN 1 ELSE 0)' + (IF Spawned("consensus") THEN 1 ELSE 0)'
            BY <2>1, <2>2 DEF RunningInv
        <2>4. QED BY <1>1, <2>3 DEF RunningInv, Running
    <1>10. StoppingInv'
        BY <1>2 DEF StoppingInv, ServicesSame
    <1>11. DrainInv'
        BY <1>2 DEF DrainInv
    <1>12. QED BY <1>3, <1>4, <1>5, <1>6, <1>7, <1>8, <1>9, <1>10, <1>11

\* The goroutine of a service, between its callback and its end.
Early == {"initializing", "addCallback", "spawn"}
ConsensusBefore == {"initializing", "addCallback", "await", "v.starting", "c.starting", "c.spawn"}

LEMMA ServiceKeeps ==
    ASSUME StepsInv, NEW s \in Requested,
           NEW from \in ServiceLabels(s) \ {"notStarted", "done"},
           NEW to \in ServiceLabels(s) \ {"notStarted"}, Moves(s, from, to),
           UNCHANGED <<runVars, bootVars>>,
           from \in Unregistered <=> to \in Unregistered,
           \A t \in (Requested \cup {"chain", "node"}) \ {s} : serviceStates'[t] = serviceStates[t],
           serviceStates'[s] = "Started" => to = "done",
           s = "chain" /\ to \in {"starting", "done"} => pc["node"] = "done",
           s = "chain" /\ to \in Early => from \in Early,
           s = "consensus" /\ to \in StarterLabels \cup {"starting", "done"} =>
                "chain" \in Requested /\ pc["chain"] = "done",
           s = "consensus" /\ to \in ConsensusBefore => from \in ConsensusBefore
    PROVE  StepsInv'
    <1> USE DEF StepsInv, runVars, bootVars
    <1>1. /\ pc[s] = from /\ pc'[s] = to
          /\ \A g \in Goroutines \ {s} : pc'[g] = pc[g]
          /\ pc' \in [Goroutines -> Labels]
        <2>1. to \in Labels
            BY DEF ServiceLabels, StarterLabels, Labels
        <2>2. QED BY <2>1, Names, PcAfter DEF Moves, PcTypes
    <1>2. \A g \in Others : pc'[g] = pc[g]
        BY <1>1, Names
    <1>3. \A r \in Requested \ {s} : pc'[r] = pc[r]
        BY <1>1, Names
    <1>4. PcTypes'
        BY <1>1, <1>2, <1>3 DEF PcTypes, Others
    <1>5. SpawnInv'
        <2>1. /\ pc["main"] \notin {"wait", "join", "exited"} => pc["base"] = "notStarted"
              /\ pc["base"] \notin {"notStarted", "exists"}
            BY <1>1 DEF SpawnInv
        <2>2. CASE s = "chain"
            <3>1. "consensus" \in Requested =>
                    pc["consensus"] \notin StarterLabels \cup {"starting", "done"}
                BY <1>1, <2>2 DEF SpawnInv
            <3>2. pc["node"] # "notStarted" => to \notin Early
                BY <1>1, <2>2 DEF SpawnInv, Early
            <3>3. QED BY <1>1, <1>2, <1>3, <2>1, <2>2, <3>1, <3>2 DEF SpawnInv, Early, Others
        <2>3. CASE s # "chain"
            BY <1>1, <1>2, <1>3, <2>1, <2>3 DEF SpawnInv, Others
        <2>4. QED BY <2>2, <2>3
    <1>6. CancelInv'
        BY <1>2 DEF CancelInv, Others
    <1>7. StartedInv'
        <2>1. "chain" \notin Requested => serviceStates'["chain"] = serviceStates["chain"]
            OBVIOUS
        <2>2. "chain" \in Requested => pc'["node"] = pc["node"] /\ serviceStates'["node"] = serviceStates["node"]
            BY <1>2, Names DEF Others
        <2>3. pc'["node"] = pc["node"] /\ serviceStates'["node"] = serviceStates["node"]
            BY <1>2, Names DEF Others
        <2>4. QED BY <1>1, <1>3, <2>1, <2>3 DEF StartedInv
    <1>8. CallbacksInv'
        BY <1>1, <1>2, <1>3 DEF CallbacksInv, Holds, Others
    <1>9. BootInv'
        BY DEF BootInv
    <1>10. RunningInv'
        <2>1. Spawned("node")' = Spawned("node")
            BY <1>2 DEF Spawned, Others
        <2>2. Spawned("consensus") => Spawned("consensus")'
            <3>1. CASE s = "consensus"
                BY <1>1, <3>1, Names DEF Spawned, ConsensusBefore, ServiceLabels, StarterLabels
            <3>2. CASE s # "consensus"
                BY <1>1, <3>2 DEF Spawned
            <3>3. QED BY <3>1, <3>2
        <2>3. running <= (IF Spawned("node") THEN 1 ELSE 0)' + (IF Spawned("consensus") THEN 1 ELSE 0)'
            BY <2>1, <2>2 DEF RunningInv
        <2>4. QED BY <1>2, <2>3 DEF RunningInv, Others
    <1>11. StoppingInv'
        <2>1. s \notin startedAt
            BY <1>1 DEF StoppingInv
        <2>2. \A r \in startedAt : serviceStates'[r] = serviceStates[r] /\ pc'[r] = pc[r]
            BY <1>3, <2>1 DEF StoppingInv
        <2>3. QED BY <1>2, <2>2 DEF StoppingInv, Others
    <1>12. DrainInv'
        BY <1>2 DEF DrainInv, Others
    <1>13. QED BY <1>4, <1>5, <1>6, <1>7, <1>8, <1>9, <1>10, <1>11, <1>12

\* main, except where it registers the callback of the node or spawns base.
LEMMA MainKeeps ==
    ASSUME StepsInv, NEW from \in MainLabels, NEW to \in MainLabels, Moves("main", from, to),
           from \notin {"wait", "join", "exited"} \/ to \in {"wait", "join", "exited"},
           UNCHANGED <<callbacks, ran, running, received, startedAt>>,
           cancelled' = cancelled \/ cancelled' = TRUE,
           registry \subseteq registry', BootInv',
           dbs' \in {dbs, "open"},
           ServicesSame,
           from \in {"wait", "join"} => serviceStates'["node"] = serviceStates["node"],
           Holds("node") => "chain" \in registry' \/ to = "register",
           to \in {"newNode", "newValidator", "initNode", "addNode"} => ~Holds("node"),
           from # "exited"
    PROVE  StepsInv'
    <1> USE DEF StepsInv
    <1>1. /\ pc["main"] = from /\ pc'["main"] = to
          /\ \A g \in Goroutines \ {"main"} : pc'[g] = pc[g]
          /\ pc' \in [Goroutines -> Labels]
        <2>1. to \in Labels
            BY DEF MainLabels, Labels
        <2>2. QED BY <2>1, Names, PcAfter DEF Moves, PcTypes, Others
    <1>2. \A s \in Requested \cup {"node", "base", "shutdown"} : pc'[s] = pc[s]
        BY <1>1, Names DEF Others
    <1>3. PcTypes'
        BY <1>1, <1>2 DEF PcTypes
    <1>4. SpawnInv'
        BY <1>1, <1>2 DEF SpawnInv
    <1>5. CancelInv'
        BY <1>2 DEF CancelInv
    <1>6. StartedInv'
        <2>1. pc["node"] = "done" => from \in {"wait", "join"}
            BY <1>1 DEF SpawnInv
        <2>2. QED BY <1>2, <2>1 DEF StartedInv, ServicesSame
    <1>7. CallbacksInv'
        BY <1>1, <1>2 DEF CallbacksInv, Holds
    <1>8. RunningInv'
        <2>1. Spawned("node")' = Spawned("node") /\ Spawned("consensus")' = Spawned("consensus")
            BY <1>1 DEF Spawned
        <2>2. QED BY <1>2, <2>1 DEF RunningInv
    <1>9. StoppingInv'
        BY <1>2 DEF StoppingInv, ServicesSame
    <1>10. DrainInv'
        BY <1>2 DEF DrainInv
    <1>11. QED BY <1>3, <1>4, <1>5, <1>6, <1>7, <1>8, <1>9, <1>10

-----------------------------------------------------------------------------
(* The steps that change more *)

LEMMA AppendedIs ==
    ASSUME CallbacksInv, NEW e \in Requested \cup {"node"}, ~Holds(e),
           callbacks' = Append(callbacks, e)
    PROVE  /\ callbacks' \in Seq(Requested \cup {"node"})
           /\ Len(callbacks) \in Nat /\ Len(callbacks') = Len(callbacks) + 1
           /\ \A i, j \in DOMAIN callbacks' : callbacks'[i] = callbacks'[j] => i = j
           /\ \A x : Holds(x)' <=> Holds(x) \/ x = e
           /\ \A i \in DOMAIN callbacks : i \in DOMAIN callbacks' /\ callbacks'[i] = callbacks[i]
    <1>1. callbacks \in Seq(Requested \cup {"node"})
        BY DEF CallbacksInv
    <1>2. /\ callbacks' \in Seq(Requested \cup {"node"})
          /\ Len(callbacks) \in Nat /\ Len(callbacks') = Len(callbacks) + 1
          /\ \A i \in 1 .. Len(callbacks) : callbacks'[i] = callbacks[i]
          /\ callbacks'[Len(callbacks) + 1] = e
        BY <1>1, AppendProperties, LenProperties
    <1>3. DOMAIN callbacks = 1 .. Len(callbacks) /\ DOMAIN callbacks' = 1 .. (Len(callbacks) + 1)
        BY <1>1, <1>2, LenProperties
    <1>4. \A i \in DOMAIN callbacks' : i \in DOMAIN callbacks \/ i = Len(callbacks) + 1
        BY <1>2, <1>3
    <1>5. \A i \in DOMAIN callbacks : i \in DOMAIN callbacks' /\ callbacks'[i] = callbacks[i]
        BY <1>2, <1>3
    <1>6. Len(callbacks) + 1 \in DOMAIN callbacks'
        BY <1>2, <1>3
    <1>7. \A i, j \in DOMAIN callbacks' : callbacks'[i] = callbacks'[j] => i = j
        BY <1>2, <1>4, <1>5 DEF Holds, CallbacksInv
    <1>8. \A x : Holds(x)' <=> Holds(x) \/ x = e
        BY <1>2, <1>4, <1>5, <1>6 DEF Holds
    <1>9. QED BY <1>2, <1>5, <1>7, <1>8

\* While callbacks can be registered none is running, and none will run for a
\* service that had started.
LEMMA AppendKeepsStopping ==
    ASSUME StepsInv, ~CallbacksLocked, UNCHANGED <<ran, startedAt, dbs, serviceStates>>,
           pc'["shutdown"] = pc["shutdown"], \A s \in startedAt : pc'[s] = pc[s]
    PROVE  StoppingInv'
    BY DEF StepsInv, CallbacksLocked, StoppingInv

LEMMA AddShutdownCallbackKeeps ==
    ASSUME StepsInv, NEW s \in Requested, AddShutdownCallback(s)
    PROVE  StepsInv'
    <1> USE DEF StepsInv, stateVars, bootVars
    <1> DEFINE to == CASE s = "chain" -> "spawn"
                       [] s = "consensus" -> "await"
                       [] OTHER -> "starting"
    <1>0. /\ to = IF s = "chain" THEN "spawn" ELSE IF s = "consensus" THEN "await" ELSE "starting"
          /\ Moves(s, "addCallback", to)
        BY DEF AddShutdownCallback
    <1> HIDE DEF to
    <1>1. /\ pc[s] = "addCallback" /\ pc'[s] = to
          /\ \A g \in Goroutines \ {s} : pc'[g] = pc[g]
          /\ pc' \in [Goroutines -> Labels]
        <2>1. to \in Labels
            BY <1>0 DEF Labels
        <2>2. QED BY <1>0, <2>1, Names, PcAfter DEF Moves, PcTypes
    <1>2. \A g \in Others : pc'[g] = pc[g]
        BY <1>1, Names
    <1>3. \A r \in Requested \ {s} : pc'[r] = pc[r]
        BY <1>1, Names
    <1>4. /\ ~CallbacksLocked /\ callbacks' = Append(callbacks, s)
          /\ UNCHANGED <<serviceStates, ran, cancelled, running, received, startedAt,
                         registry, resources, dbs>>
        BY DEF AddShutdownCallback
    <1>5. PcTypes'
        <2>1. to \in ServiceLabels(s)
            BY <1>0 DEF ServiceLabels
        <2>2. QED BY <1>1, <1>2, <1>3, <2>1 DEF PcTypes, Others
    <1>6. SpawnInv'
        <2>1. s = "chain" => pc["node"] = "notStarted"
            BY <1>1 DEF SpawnInv
        <2>2. QED BY <1>0, <1>1, <1>2, <1>3, <2>1 DEF SpawnInv, StarterLabels, Others
    <1>7. CancelInv' /\ BootInv'
        BY <1>2, <1>4 DEF CancelInv, BootInv, Others
    <1>8. StartedInv'
        BY <1>1, <1>2, <1>3, <1>4 DEF StartedInv, Others
    <1>9. CallbacksInv'
        <2>1. ~Holds(s) /\ s # "node"
            BY <1>1, Names DEF CallbacksInv, Unregistered, Others
        <2>2. /\ callbacks' \in Seq(Requested \cup {"node"})
              /\ Len(callbacks) \in Nat /\ Len(callbacks') = Len(callbacks) + 1
              /\ \A i, j \in DOMAIN callbacks' : callbacks'[i] = callbacks'[j] => i = j
              /\ \A x : Holds(x)' <=> Holds(x) \/ x = s
            BY <1>4, <2>1, AppendedIs
        <2>3. to \notin Unregistered
            BY <1>0 DEF Unregistered
        <2>4. \A r \in Requested : Holds(r)' <=> pc'[r] \notin Unregistered
            BY <1>1, <1>3, <2>2, <2>3 DEF CallbacksInv
        <2>5. ran' \in 0 .. Len(callbacks')
            BY <1>4, <2>2 DEF CallbacksInv
        <2>6. pc'["shutdown"] # "stop"
            BY <1>2, <1>4 DEF CallbacksLocked, Others
        <2>7. QED BY <1>2, <1>4, <2>1, <2>2, <2>4, <2>5, <2>6 DEF CallbacksInv, Others
    <1>10. RunningInv'
        <2>1. Spawned("node")' = Spawned("node")
            BY <1>2 DEF Spawned, Others
        <2>2. Spawned("consensus") => Spawned("consensus")'
            BY <1>0, <1>1 DEF Spawned
        <2>3. running <= (IF Spawned("node") THEN 1 ELSE 0)' + (IF Spawned("consensus") THEN 1 ELSE 0)'
            BY <2>1, <2>2 DEF RunningInv
        <2>4. QED BY <1>2, <1>4, <2>3 DEF RunningInv, Others
    <1>11. StoppingInv'
        <2>1. \A r \in startedAt : pc'[r] = pc[r]
            BY <1>1, <1>3 DEF StoppingInv
        <2>2. QED BY <1>2, <1>4, <2>1, AppendKeepsStopping DEF Others
    <1>12. DrainInv'
        BY <1>2, <1>4 DEF DrainInv, Others
    <1>13. QED BY <1>5, <1>6, <1>7, <1>8, <1>9, <1>10, <1>11, <1>12

LEMMA AddNodeCallbackKeeps ==
    ASSUME StepsInv, AddNodeCallback
    PROVE  StepsInv'
    <1> USE DEF StepsInv, stateVars, bootVars
    <1>1. /\ pc["main"] = "addNode" /\ pc'["main"] = "register"
          /\ \A g \in Goroutines \ {"main"} : pc'[g] = pc[g]
          /\ pc' \in [Goroutines -> Labels]
        BY Names, PcAfter DEF AddNodeCallback, Moves, PcTypes, Others, Labels
    <1>2. \A s \in Requested \cup {"node", "base", "shutdown"} : pc'[s] = pc[s]
        BY <1>1, Names DEF Others
    <1>3. /\ ~CallbacksLocked /\ callbacks' = Append(callbacks, "node")
          /\ UNCHANGED <<serviceStates, ran, cancelled, running, received, startedAt,
                         registry, resources, dbs>>
        BY DEF AddNodeCallback
    <1>4. PcTypes' /\ SpawnInv'
        BY <1>1, <1>2 DEF PcTypes, SpawnInv, MainLabels
    <1>5. CancelInv' /\ BootInv' /\ StartedInv'
        BY <1>2, <1>3 DEF CancelInv, BootInv, StartedInv
    <1>6. CallbacksInv'
        <2>1. ~Holds("node")
            BY <1>1 DEF CallbacksInv
        <2>2. /\ callbacks' \in Seq(Requested \cup {"node"})
              /\ Len(callbacks) \in Nat /\ Len(callbacks') = Len(callbacks) + 1
              /\ \A i, j \in DOMAIN callbacks' : callbacks'[i] = callbacks'[j] => i = j
              /\ \A x : Holds(x)' <=> Holds(x) \/ x = "node"
            BY <1>3, <2>1, AppendedIs
        <2>3. \A r \in Requested : Holds(r)' <=> pc'[r] \notin Unregistered
            BY <1>2, <2>2, Names DEF CallbacksInv, Others
        <2>4. ran' \in 0 .. Len(callbacks')
            BY <1>3, <2>2 DEF CallbacksInv
        <2>5. pc'["shutdown"] # "stop"
            BY <1>2, <1>3 DEF CallbacksLocked
        <2>6. QED BY <1>1, <1>2, <1>3, <2>2, <2>3, <2>4, <2>5 DEF CallbacksInv
    <1>7. RunningInv'
        <2>1. Spawned("node")' = Spawned("node") /\ Spawned("consensus")' = Spawned("consensus")
            BY <1>1 DEF Spawned
        <2>2. QED BY <1>2, <1>3, <2>1 DEF RunningInv
    <1>8. StoppingInv'
        BY <1>2, <1>3, AppendKeepsStopping DEF StoppingInv
    <1>9. DrainInv'
        BY <1>2, <1>3 DEF DrainInv
    <1>10. QED BY <1>4, <1>5, <1>6, <1>7, <1>8, <1>9

\* The module is started by a goroutine that has not ended, so not when every
\* service had started.
LEMMA SpawnRoutinesKeeps ==
    ASSUME StepsInv, NEW g \in {"node", "consensus"}, g = "consensus" => g \in Requested,
           SpawnRoutines(g)
    PROVE  StepsInv'
    <1> USE DEF StepsInv, stateVars, bootVars
    <1>0. g \in Goroutines
        BY Names DEF Others
    <1>1. /\ pc[g] = "c.spawn" /\ pc'[g] = "c.started"
          /\ \A h \in Goroutines \ {g} : pc'[h] = pc[h]
          /\ pc' \in [Goroutines -> Labels]
        BY <1>0, Names, PcAfter DEF SpawnRoutines, Moves, PcTypes, Labels
    <1>2. \A h \in {"main", "base", "shutdown"} : pc'[h] = pc[h]
        BY <1>1, Names DEF Others
    <1>3. \A r \in Requested \ {g} : pc'[r] = pc[r]
        BY <1>1, Names
    <1>4. /\ running' = running + 1
          /\ UNCHANGED <<serviceStates, callbacks, ran, cancelled, received, startedAt,
                         registry, resources, dbs>>
        BY DEF SpawnRoutines
    <1>5. \A r \in Requested : pc'[r] = pc[r] \/ (r = g /\ g = "consensus")
        BY <1>3, Names DEF Others
    <1>6. pc'["node"] = pc["node"] \/ (g = "node" /\ pc["node"] = "c.spawn" /\ pc'["node"] = "c.started")
        BY <1>1, Names DEF Others
    <1>7. PcTypes'
        <2>1. \A r \in Requested : pc'[r] \in ServiceLabels(r)
            BY <1>1, <1>5 DEF PcTypes, ServiceLabels, StarterLabels
        <2>2. pc'["node"] \in NodeLabels
            BY <1>6 DEF PcTypes, NodeLabels, StarterLabels
        <2>3. QED BY <1>1, <1>2, <2>1, <2>2 DEF PcTypes
    <1>8. SpawnInv'
        <2>1. "chain" \in Requested => pc'["chain"] = pc["chain"]
            BY <1>5
        <2>2. pc'["node"] # "notStarted" <=> pc["node"] # "notStarted"
            BY <1>6
        <2>3. pc["node"] = "done" => pc'["node"] = "done"
            BY <1>6
        <2>4. "consensus" \in Requested =>
                (pc'["consensus"] \in StarterLabels \cup {"starting", "done"}
                    => pc["consensus"] \in StarterLabels \cup {"starting", "done"})
            BY <1>1, <1>5 DEF StarterLabels
        <2>5. pc["base"] \in {"notStarted", "exists"} => \A r \in Requested : pc'[r] = "notStarted"
            BY <1>1, <1>5 DEF SpawnInv
        <2>6. QED BY <1>2, <2>1, <2>2, <2>3, <2>4, <2>5 DEF SpawnInv
    <1>9. CancelInv' /\ BootInv'
        BY <1>2, <1>4 DEF CancelInv, BootInv
    <1>10. StartedInv'
        BY <1>1, <1>4, <1>5, <1>6 DEF StartedInv
    <1>11. CallbacksInv'
        <2>1. \A r \in Requested : pc'[r] \notin Unregistered <=> pc[r] \notin Unregistered
            BY <1>1, <1>5 DEF Unregistered
        <2>2. QED BY <1>2, <1>4, <2>1 DEF CallbacksInv, Holds
    <1>12. RunningInv'
        <2>1. CASE g = "node"
            <3>1. ~Spawned("node") /\ Spawned("node")'
                BY <1>0, <1>1, <2>1 DEF Spawned
            <3>2. Spawned("consensus")' = Spawned("consensus")
                BY <1>1, <2>1 DEF Spawned
            <3>3. QED BY <1>4, <3>1, <3>2 DEF RunningInv
        <2>2. CASE g = "consensus"
            <3>1. ~Spawned("consensus") /\ Spawned("consensus")'
                BY <1>0, <1>1, <2>2 DEF Spawned
            <3>2. Spawned("node")' = Spawned("node")
                BY <1>1, <2>2 DEF Spawned
            <3>3. QED BY <1>4, <3>1, <3>2 DEF RunningInv
        <2>3. QED BY <2>1, <2>2
    <1>13. StoppingInv'
        <2>1. \A r \in startedAt : pc'[r] = pc[r]
            BY <1>1, <1>5 DEF StoppingInv
        <2>2. QED BY <1>2, <1>4, <2>1 DEF StoppingInv
    <1>14. DrainInv'
        <2>1. startedAt # Requested
            <3>1. CASE g = "consensus"
                BY <1>1, <3>1 DEF StoppingInv
            <3>2. CASE g = "node"
                BY <1>1, <3>2 DEF StoppingInv, SpawnInv
            <3>3. QED BY <3>1, <3>2
        <2>2. QED BY <1>4, <2>1 DEF DrainInv
    <1>15. QED BY <1>7, <1>8, <1>9, <1>10, <1>11, <1>12, <1>13, <1>14

LEMMA SpawnNodeKeeps ==
    ASSUME StepsInv, "chain" \in Requested, SpawnNode
    PROVE  StepsInv'
    <1> USE DEF StepsInv, stateVars, runVars, bootVars
    <1>0. "chain" \in Goroutines /\ "node" \in Goroutines
        BY Names DEF Others
    <1>1. /\ pc["chain"] = "spawn" /\ pc'["chain"] = "await" /\ pc'["node"] = "n.starting"
          /\ \A h \in Goroutines \ {"chain", "node"} : pc'[h] = pc[h]
          /\ pc' \in [Goroutines -> Labels]
        BY <1>0 DEF SpawnNode, PcTypes, Labels
    <1>2. \A h \in (Requested \cup {"main", "base", "shutdown"}) \ {"chain"} : pc'[h] = pc[h]
        BY <1>1, Names DEF Others
    <1>3. UNCHANGED <<serviceStates, callbacks, ran, cancelled, running, received, startedAt,
                      registry, resources, dbs>>
        BY DEF SpawnNode
    <1>4. pc["node"] = "notStarted" /\ pc["base"] \notin {"notStarted", "exists"}
        BY <1>1 DEF SpawnInv
    <1>5. PcTypes'
        BY <1>1, <1>2 DEF PcTypes, ServiceLabels, NodeLabels
    <1>6. SpawnInv'
        BY <1>1, <1>2, <1>4 DEF SpawnInv
    <1>7. CancelInv' /\ BootInv'
        BY <1>2, <1>3 DEF CancelInv, BootInv
    <1>8. StartedInv'
        BY <1>1, <1>2, <1>3 DEF StartedInv
    <1>9. CallbacksInv'
        <2>1. \A r \in Requested : pc'[r] \notin Unregistered <=> pc[r] \notin Unregistered
            BY <1>1, <1>2 DEF Unregistered
        <2>2. QED BY <1>2, <1>3, <2>1 DEF CallbacksInv, Holds
    <1>10. RunningInv'
        <2>1. Spawned("node")' = Spawned("node")
            BY <1>0, <1>1, <1>4 DEF Spawned
        <2>2. Spawned("consensus")' = Spawned("consensus")
            BY <1>1 DEF Spawned
        <2>3. QED BY <1>1, <1>3, <2>1, <2>2 DEF RunningInv
    <1>11. StoppingInv'
        BY <1>1, <1>2, <1>3 DEF StoppingInv
    <1>12. DrainInv'
        BY <1>2, <1>3 DEF DrainInv
    <1>13. QED BY <1>5, <1>6, <1>7, <1>8, <1>9, <1>10, <1>11, <1>12

\* The steps of base: no service runs before BaseStart.
LEMMA BaseStartKeeps ==
    ASSUME StepsInv, BaseStart
    PROVE  StepsInv'
    <1> USE DEF StepsInv, stateVars, bootVars
    <1>0. "base" \in Goroutines /\ pc["base"] = "exists"
        BY Names DEF BaseStart, Others
    <1>1. /\ \A s \in Requested : pc[s] = "notStarted"
          /\ pc["node"] = "notStarted" /\ pc["main"] \in {"wait", "join", "exited"}
        BY <1>0 DEF SpawnInv
    <1>2. /\ UNCHANGED <<serviceStates, callbacks, ran, running, received, startedAt,
                         registry, resources, dbs>>
          /\ cancelled' = cancelled \/ cancelled' = TRUE
        BY DEF BaseStart
    <1>3. \E next \in {"initializing", "notStarted"} :
            /\ pc' \in [Goroutines -> Labels]
            /\ pc'["base"] \in {"wait", "failed"}
            /\ \A s \in Requested : pc'[s] = next
            /\ \A h \in {"main", "shutdown", "node"} : pc'[h] = pc[h]
        <2>1. CASE Exists(Requested)
            <3>1. pc' = [g \in Goroutines |->
                            CASE g = "base" -> "wait"
                              [] g \in Requested -> "initializing"
                              [] OTHER -> pc[g]]
                BY <2>1 DEF BaseStart
            <3>2. pc' = [g \in Goroutines |-> IF g = "base" THEN "wait" ELSE
                            IF g \in Requested THEN "initializing" ELSE pc[g]]
                BY <3>1, Names DEF Others
            <3>3. QED BY <3>2, Names DEF Others, PcTypes, Labels
        <2>2. CASE ~Exists(Requested)
            <3>1. pc' = [pc EXCEPT !["base"] = "failed"]
                BY <2>2 DEF BaseStart, Moves
            <3>2. \A h \in Goroutines : pc'[h] = IF h = "base" THEN "failed" ELSE pc[h]
                BY <1>0, <3>1, PcAfter
            <3>3. QED BY <1>1, <3>1, <3>2, Names DEF Others, PcTypes, Labels
        <2>3. QED BY <2>1, <2>2
    <1>4. PICK next \in {"initializing", "notStarted"} :
            /\ pc' \in [Goroutines -> Labels]
            /\ pc'["base"] \in {"wait", "failed"}
            /\ \A s \in Requested : pc'[s] = next
            /\ \A h \in {"main", "shutdown", "node"} : pc'[h] = pc[h]
        BY <1>3
    <1>5. PcTypes'
        BY <1>4 DEF PcTypes, BaseLabels, ServiceLabels
    <1>6. SpawnInv'
        BY <1>1, <1>4 DEF SpawnInv, StarterLabels
    <1>7. CancelInv' /\ BootInv'
        BY <1>2, <1>4 DEF CancelInv, BootInv
    <1>8. StartedInv'
        BY <1>1, <1>2, <1>4 DEF StartedInv
    <1>9. CallbacksInv'
        <2>1. \A r \in Requested : pc'[r] \in Unregistered /\ pc[r] \in Unregistered
            BY <1>1, <1>4 DEF Unregistered
        <2>2. QED BY <1>2, <1>4, <2>1 DEF CallbacksInv, Holds
    <1>10. RunningInv'
        <2>1. ~Spawned("node") /\ ~Spawned("node")'
            BY <1>1, <1>4 DEF Spawned
        <2>2. ~Spawned("consensus") /\ ~Spawned("consensus")'
            BY <1>1, <1>4, Names DEF Spawned, Others
        <2>3. QED BY <1>1, <1>2, <1>4, <2>1, <2>2 DEF RunningInv
    <1>11. StoppingInv'
        BY <1>1, <1>2, <1>4 DEF StoppingInv
    <1>12. DrainInv'
        BY <1>2, <1>4 DEF DrainInv
    <1>13. QED BY <1>5, <1>6, <1>7, <1>8, <1>9, <1>10, <1>11, <1>12

LEMMA BaseReturnsKeeps ==
    ASSUME StepsInv, BaseReturns
    PROVE  StepsInv'
    <1> USE DEF StepsInv, stateVars, bootVars
    <1>0. PICK to \in {"failed", "done"} : Moves("base", "wait", to)
        BY DEF BaseReturns
    <1>1. /\ pc["base"] = "wait" /\ pc'["base"] = to
          /\ \A h \in Goroutines \ {"base"} : pc'[h] = pc[h]
          /\ pc' \in [Goroutines -> Labels]
        BY <1>0, Names, PcAfter DEF Moves, PcTypes, Others, Labels
    <1>2. \A h \in Requested \cup {"main", "node", "shutdown"} : pc'[h] = pc[h]
        BY <1>1, Names DEF Others
    <1>3. /\ UNCHANGED <<serviceStates, callbacks, ran, running, received, startedAt,
                         registry, resources, dbs>>
          /\ cancelled' = cancelled \/ cancelled' = TRUE
        BY DEF BaseReturns, CancelInv
    <1>4. PcTypes' /\ SpawnInv'
        BY <1>1, <1>2 DEF PcTypes, SpawnInv, BaseLabels
    <1>5. CancelInv' /\ BootInv' /\ StartedInv'
        BY <1>2, <1>3 DEF CancelInv, BootInv, StartedInv
    <1>6. CallbacksInv'
        BY <1>2, <1>3 DEF CallbacksInv, Holds
    <1>7. RunningInv'
        <2>1. Spawned("node")' = Spawned("node") /\ Spawned("consensus")' = Spawned("consensus")
            BY <1>1 DEF Spawned
        <2>2. QED BY <1>2, <1>3, <2>1 DEF RunningInv
    <1>8. StoppingInv' /\ DrainInv'
        BY <1>2, <1>3 DEF StoppingInv, DrainInv
    <1>9. QED BY <1>4, <1>5, <1>6, <1>7, <1>8

LEMMA SpawnBaseKeeps ==
    ASSUME StepsInv, SpawnBase
    PROVE  StepsInv'
    <1> USE DEF StepsInv, stateVars, runVars, bootVars
    <1>1. /\ pc["main"] = "inject" /\ pc'["main"] = "wait" /\ pc'["base"] = "exists"
          /\ \A h \in Goroutines \ {"base", "main"} : pc'[h] = pc[h]
          /\ pc' \in [Goroutines -> Labels]
        BY Names DEF SpawnBase, PcTypes, Others, Labels
    <1>2. \A h \in Requested \cup {"node", "shutdown"} : pc'[h] = pc[h]
        BY <1>1, Names DEF Others
    <1>3. UNCHANGED <<serviceStates, callbacks, ran, cancelled, running, received, startedAt,
                      registry, resources, dbs>>
        BY DEF SpawnBase
    <1>4. PcTypes' /\ SpawnInv'
        BY <1>1, <1>2 DEF PcTypes, SpawnInv, BaseLabels, MainLabels
    <1>5. CancelInv' /\ BootInv' /\ StartedInv'
        BY <1>2, <1>3 DEF CancelInv, BootInv, StartedInv
    <1>6. CallbacksInv'
        BY <1>1, <1>2, <1>3 DEF CallbacksInv, Holds
    <1>7. RunningInv'
        <2>1. Spawned("node")' = Spawned("node") /\ Spawned("consensus")' = Spawned("consensus")
            BY <1>1 DEF Spawned
        <2>2. QED BY <1>2, <1>3, <2>1 DEF RunningInv
    <1>8. StoppingInv' /\ DrainInv'
        BY <1>2, <1>3 DEF StoppingInv, DrainInv
    <1>9. QED BY <1>4, <1>5, <1>6, <1>7, <1>8

\* pc is left alone: the goroutines of the module end, a signal arrives, a
\* waiting goroutine takes a step.
LEMMA PcSameKeeps ==
    ASSUME StepsInv, UNCHANGED <<pc, serviceStates, callbacks, ran, cancelled, startedAt, bootVars>>,
           running' = running \/ (running > 0 /\ cancelled /\ running' = running - 1),
           received' \subseteq Signals
    PROVE  StepsInv'
    <1> USE DEF StepsInv, bootVars
    <1>1. PcTypes' /\ SpawnInv' /\ StartedInv' /\ CancelInv' /\ BootInv'
        BY DEF PcTypes, SpawnInv, StartedInv, CancelInv, BootInv
    <1>2. CallbacksInv' /\ StoppingInv'
        BY DEF CallbacksInv, Holds, StoppingInv
    <1>3. RunningInv'
        <2>1. Spawned("node")' = Spawned("node") /\ Spawned("consensus")' = Spawned("consensus")
            BY DEF Spawned
        <2>2. running' \in Nat /\ running' <= running
            BY DEF RunningInv
        <2>3. running' <= (IF Spawned("node") THEN 1 ELSE 0) + (IF Spawned("consensus") THEN 1 ELSE 0)
            BY <2>2 DEF RunningInv
        <2>4. QED BY <2>1, <2>2, <2>3 DEF RunningInv
    <1>4. DrainInv'
        BY DEF DrainInv
    <1>5. QED BY <1>1, <1>2, <1>3, <1>4

\* The steps of the shutdown manager outside its callbacks.  When it begins, a
\* service that has started has its callback in the list.
LEMMA HandleSignalsKeeps ==
    ASSUME StepsInv, HandleSignals
    PROVE  StepsInv'
    <1> USE DEF StepsInv, stateVars, bootVars
    <1>1. /\ pc["shutdown"] = "select" /\ pc'["shutdown"] = "next"
          /\ \A h \in Goroutines \ {"shutdown"} : pc'[h] = pc[h]
          /\ pc' \in [Goroutines -> Labels]
        BY Names, PcAfter DEF HandleSignals, Moves, PcTypes, Others, Labels
    <1>2. \A h \in Requested \cup {"main", "node", "base"} : pc'[h] = pc[h]
        BY <1>1, Names DEF Others
    <1>3. /\ UNCHANGED <<serviceStates, callbacks, ran, running, received,
                         registry, resources, dbs>>
          /\ cancelled' = TRUE
          /\ startedAt' = {s \in Requested : serviceStates[s] = "Started"}
        BY DEF HandleSignals
    <1>4. PcTypes' /\ SpawnInv'
        BY <1>1, <1>2 DEF PcTypes, SpawnInv, Undrained
    <1>5. CancelInv' /\ BootInv' /\ StartedInv'
        BY <1>2, <1>3 DEF CancelInv, BootInv, StartedInv
    <1>6. CallbacksInv'
        BY <1>1, <1>2, <1>3 DEF CallbacksInv, Holds
    <1>7. RunningInv'
        <2>1. Spawned("node")' = Spawned("node") /\ Spawned("consensus")' = Spawned("consensus")
            BY <1>1 DEF Spawned
        <2>2. QED BY <1>2, <1>3, <2>1 DEF RunningInv
    <1>8. StoppingInv'
        <2>1. ASSUME NEW s \in startedAt'
              PROVE  pc'[s] = "done" /\ \E i \in DOMAIN callbacks' : callbacks'[i] = s /\ i > ran'
            <3>1. s \in Requested /\ pc[s] = "done"
                BY <1>3, <2>1 DEF StartedInv
            <3>2. Holds(s)
                BY <3>1 DEF CallbacksInv, Unregistered
            <3>3. \A i \in DOMAIN callbacks : i > ran
                BY <1>1, LenProperties DEF CallbacksInv
            <3>4. QED BY <1>2, <1>3, <3>1, <3>2, <3>3 DEF Holds
        <2>2. QED BY <1>1, <1>3, <2>1 DEF StoppingInv
    <1>9. DrainInv'
        BY <1>1, <1>3 DEF StoppingInv, DrainInv, Drained
    <1>10. QED BY <1>4, <1>5, <1>6, <1>7, <1>8, <1>9

LEMMA NextIndex ==
    ASSUME NEW n \in Nat, NEW k \in 0 .. n
    PROVE  /\ k # n => k + 1 \in 1 .. n /\ k + 1 \in 0 .. n /\ k + 1 > 0
           /\ \A i \in 1 .. n : i > k => k # n /\ (i # k + 1 => i > k + 1)
    OBVIOUS

LEMMA NextCallbackKeeps ==
    ASSUME StepsInv, NextCallback
    PROVE  StepsInv'
    <1> USE DEF StepsInv, stateVars, bootVars
    <1> DEFINE to == IF ran = Len(callbacks) THEN "done"
                     ELSE IF callbacks[ran + 1] = "node" THEN "n.stopping" ELSE "stop"
    <1>0. Moves("shutdown", "next", to)
        BY DEF NextCallback
    <1>to. /\ ran = Len(callbacks) => to = "done" /\ ran' = ran
           /\ ran # Len(callbacks) =>
                /\ ran' = ran + 1
                /\ callbacks[ran + 1] = "node" => to = "n.stopping"
                /\ callbacks[ran + 1] # "node" => to = "stop"
           /\ to \in {"done", "n.stopping", "stop"}
        BY DEF NextCallback
    <1> HIDE DEF to
    <1>1. /\ pc["shutdown"] = "next" /\ pc'["shutdown"] = to
          /\ \A h \in Goroutines \ {"shutdown"} : pc'[h] = pc[h]
          /\ pc' \in [Goroutines -> Labels]
        <2>1. to \in Labels
            BY <1>to DEF Labels
        <2>2. QED BY <1>0, <2>1, Names, PcAfter DEF Moves, PcTypes, Others
    <1>2. \A h \in Requested \cup {"main", "node", "base"} : pc'[h] = pc[h]
        BY <1>1, Names DEF Others
    <1>3. UNCHANGED <<serviceStates, callbacks, cancelled, running, received, startedAt,
                      registry, resources, dbs>>
        BY DEF NextCallback
    <1>4. PcTypes' /\ SpawnInv'
        BY <1>1, <1>2, <1>to DEF PcTypes, SpawnInv, Undrained
    <1>5. CancelInv' /\ BootInv' /\ StartedInv'
        BY <1>1, <1>2, <1>3 DEF CancelInv, BootInv, StartedInv
    <1>6. /\ callbacks \in Seq(Requested \cup {"node"})
          /\ DOMAIN callbacks = 1 .. Len(callbacks) /\ Len(callbacks) \in Nat
          /\ ran \in 0 .. Len(callbacks)
        BY LenProperties DEF CallbacksInv
    <1>7. ran # Len(callbacks) =>
            ran + 1 \in DOMAIN callbacks /\ callbacks[ran + 1] \in Requested \cup {"node"}
        <2>1. ran # Len(callbacks) => ran + 1 \in 1 .. Len(callbacks)
            BY <1>6, NextIndex
        <2>2. QED BY <1>6, <2>1, ElementOfSeq
    <1>8. CallbacksInv'
        <2>1. ran' \in 0 .. Len(callbacks)
            <3>1. CASE ran = Len(callbacks)
                BY <1>6, <1>to, <3>1
            <3>2. CASE ran # Len(callbacks)
                <4>1. ran + 1 \in 0 .. Len(callbacks)
                    BY <1>6, <3>2, NextIndex
                <4>2. ran' = ran + 1
                    BY <1>to, <3>2
                <4>3. QED BY ONLY <4>1, <4>2
            <3>3. QED BY <3>1, <3>2
        <2>2. pc'["shutdown"] = "stop" => ran' > 0 /\ callbacks[ran'] \in Requested
            BY <1>1, <1>6, <1>7, <1>to, NextIndex
        <2>3. pc'["shutdown"] # "select"
            BY <1>1, <1>to
        <2>4. QED BY <1>2, <1>3, <2>1, <2>2, <2>3 DEF CallbacksInv, Holds
    <1>9. RunningInv'
        <2>1. Spawned("node")' = Spawned("node") /\ Spawned("consensus")' = Spawned("consensus")
            BY <1>1 DEF Spawned
        <2>2. QED BY <1>2, <1>3, <2>1 DEF RunningInv
    <1>10. StoppingInv'
        <2>1. ASSUME NEW s \in startedAt, serviceStates[s] # "Stopped"
              PROVE  /\ pc'["shutdown"] # "done"
                     /\ \E i \in DOMAIN callbacks :
                            callbacks[i] = s /\ (i > ran' \/ (i = ran' /\ pc'["shutdown"] = "stop"))
            <3>1. PICK i \in DOMAIN callbacks : callbacks[i] = s /\ i > ran
                BY <1>1, <2>1 DEF StoppingInv
            <3>2. ran # Len(callbacks)
                BY <1>6, <3>1, NextIndex
            <3>3. CASE i = ran + 1
                <4>1. s # "node"
                    BY <2>1, Names DEF StoppingInv, Others
                <4>2. pc'["shutdown"] = "stop" /\ ran' = i
                    BY <1>1, <1>to, <3>1, <3>2, <3>3, <4>1
                <4>3. QED BY <3>1, <4>2
            <3>4. CASE i # ran + 1
                <4>1. ran' = ran + 1 /\ i > ran + 1 /\ pc'["shutdown"] # "done"
                    BY <1>1, <1>6, <1>7, <1>to, <3>1, <3>2, <3>4, NextIndex
                <4>2. QED BY <3>1, <4>1
            <3>5. QED BY <3>3, <3>4
        <2>2. pc'["shutdown"] # "select"
            BY <1>1, <1>to
        <2>3. \A s \in startedAt : pc'[s] = "done"
            BY <1>2 DEF StoppingInv
        <2>4. QED BY <1>3, <2>1, <2>2, <2>3 DEF StoppingInv
    <1>11. DrainInv'
        <2>1. pc'["shutdown"] \notin Drained
            BY <1>1, <1>to DEF Drained
        <2>2. QED BY <1>3, <2>1 DEF DrainInv
    <1>12. QED BY <1>4, <1>5, <1>8, <1>9, <1>10, <1>11

LEMMA StopServiceKeeps ==
    ASSUME StepsInv, StateInv, StopService
    PROVE  StepsInv'
    <1> USE DEF StepsInv, runVars, bootVars
    <1> DEFINE t == callbacks[ran]
    <1>0. Sets("shutdown", "stop", t, "Stopped", "next")
        BY DEF StopService, SetsService
    <1>1. /\ pc["shutdown"] = "stop" /\ pc'["shutdown"] = "next"
          /\ \A h \in Goroutines \ {"shutdown"} : pc'[h] = pc[h]
          /\ pc' \in [Goroutines -> Labels]
        BY <1>0, Names, PcAfter DEF Sets, Moves, PcTypes, Others, Labels
    <1>2. \A h \in Requested \cup {"main", "node", "base"} : pc'[h] = pc[h]
        BY <1>1, Names DEF Others
    <1>3. UNCHANGED <<callbacks, ran, cancelled, running, received, startedAt,
                      registry, resources, dbs>>
        BY <1>0 DEF Sets
    <1>4. t \in Requested /\ ran \in DOMAIN callbacks
        BY <1>1, LenProperties DEF CallbacksInv
    <1>5. \A u \in StateTypes : serviceStates'[u] = IF u = t THEN "Stopped" ELSE serviceStates[u]
        BY <1>0 DEF Sets, SetState, StateInv, StateTypeOK
    <1> HIDE DEF t
    <1>6. cancelled
        BY <1>1 DEF CancelInv
    <1>7. PcTypes' /\ SpawnInv'
        BY <1>1, <1>2 DEF PcTypes, SpawnInv, Undrained
    <1>8. CancelInv' /\ BootInv'
        BY <1>3, <1>6 DEF CancelInv, BootInv
    <1>9. StartedInv'
        BY <1>2, <1>3, <1>5, <1>6, StateTypesAssumption DEF StartedInv
    <1>10. CallbacksInv'
        BY <1>1, <1>2, <1>3 DEF CallbacksInv, Holds
    <1>11. RunningInv'
        <2>1. Spawned("node")' = Spawned("node") /\ Spawned("consensus")' = Spawned("consensus")
            BY <1>1 DEF Spawned
        <2>2. QED BY <1>2, <1>3, <2>1 DEF RunningInv
    <1>12. StoppingInv'
        <2>1. ASSUME NEW s \in startedAt, serviceStates'[s] # "Stopped"
              PROVE  \E i \in DOMAIN callbacks : callbacks[i] = s /\ i > ran
            <3>1. s \in StateTypes /\ s # t /\ serviceStates[s] # "Stopped"
                BY <1>4, <1>5, <2>1, StateTypesAssumption DEF StoppingInv
            <3>2. QED BY <1>1, <2>1, <3>1 DEF StoppingInv, t
        <2>2. QED BY <1>1, <1>2, <1>3, <2>1 DEF StoppingInv
    <1>13. DrainInv'
        BY <1>1, <1>3 DEF DrainInv, Drained
    <1>14. QED BY <1>7, <1>8, <1>9, <1>10, <1>11, <1>12, <1>13

-----------------------------------------------------------------------------
(* Calls of SetState and WaitForState *)

LEMMA ChainStays ==
    ASSUME PcTypes, NEW g \in Goroutines, NEW from, NEW to, Moves(g, from, to),
           g = "chain" => from # "done"
    PROVE  ChainStaysDone
    BY Names, PcAfter DEF ChainStaysDone, Moves

LEMMA ChainHasStarted ==
    ASSUME StepsInv
    PROVE  serviceStates["chain"] = "Started" => "chain" \in Requested /\ pc["chain"] = "done"
    BY DEF StepsInv, StartedInv

\* A component whose state is no service's.
Components == {"node", "validator", "module", "node/consensus"}

LEMMA ComponentSets ==
    ASSUME LifecycleInv, NEW g \in Goroutines, NEW from, NEW to, NEW t \in Components,
           NEW s \in States, Sets(g, from, t, s, to), g = "chain" => from # "done"
    PROVE  /\ WaitsInv' /\ ServicesSame
           /\ serviceStates'["node"] = IF t = "node" THEN s ELSE serviceStates["node"]
           /\ Moves(g, from, to) /\ UNCHANGED <<runVars, bootVars>>
    <1>1. t \in StateTypes /\ t \notin Requested \cup {"chain"}
        BY StateTypesAssumption, NamesAssumption DEF Components
    <1>2. ChainStaysDone
        BY ChainStays DEF LifecycleInv, StepsInv, Sets
    <1>3. WaitsInv'
        BY <1>1, <1>2, SetStateKeeps DEF LifecycleInv, Sets
    <1>4. \A u \in StateTypes : serviceStates'[u] = IF u = t THEN s ELSE serviceStates[u]
        BY DEF Sets, SetState, LifecycleInv, WaitsInv, StateInv, StateTypeOK
    <1>5. QED BY <1>1, <1>3, <1>4, StateTypesAssumption DEF ServicesSame, Sets

LEMMA NodeSets ==
    ASSUME LifecycleInv, NEW from \in NodeLabels \ {"notStarted", "done"},
           NEW to \in NodeLabels \ {"notStarted"}, NEW t \in Components, NEW s \in States,
           Sets("node", from, t, s, to),
           to = "done" => t = "node" /\ s = "Started",
           to \in Running => from \in Running, to \in Before => from \in Before
    PROVE  LifecycleInv'
    <1>1. "node" \in Goroutines
        BY Names DEF Others
    <1>2. /\ WaitsInv' /\ ServicesSame
          /\ serviceStates'["node"] = IF t = "node" THEN s ELSE serviceStates["node"]
          /\ Moves("node", from, to) /\ UNCHANGED <<runVars, bootVars>>
        BY <1>1, ComponentSets
    <1>3. StepsInv'
        BY <1>2, NodeKeeps DEF LifecycleInv
    <1>4. QED BY <1>2, <1>3 DEF LifecycleInv

LEMMA ShutdownSets ==
    ASSUME LifecycleInv, NEW from \in (Undrained \cup Drained) \ {"next", "stop"},
           NEW to \in (Undrained \cup Drained) \ {"stop"}, NEW t \in Components,
           NEW s \in States, Sets("shutdown", from, t, s, to),
           to \in Drained => from \in Drained
    PROVE  LifecycleInv'
    <1>1. "shutdown" \in Goroutines
        BY Names DEF Others
    <1>2. /\ WaitsInv' /\ ServicesSame
          /\ Moves("shutdown", from, to) /\ UNCHANGED <<runVars, bootVars>>
        BY <1>1, ComponentSets
    <1>3. StepsInv'
        BY <1>2, ShutdownKeeps DEF LifecycleInv, bootVars
    <1>4. QED BY <1>2, <1>3 DEF LifecycleInv

LEMMA ConsensusSets ==
    ASSUME LifecycleInv, "consensus" \in Requested, NEW from \in StarterLabels,
           NEW to \in StarterLabels \cup {"starting"}, NEW t \in {"validator", "module"},
           NEW s \in States, Sets("consensus", from, t, s, to),
           to \in ConsensusBefore => from \in ConsensusBefore
    PROVE  LifecycleInv'
    <1>1. "consensus" \in Goroutines
        BY Names
    <1>2. /\ WaitsInv' /\ ServicesSame
          /\ serviceStates'["node"] = serviceStates["node"]
          /\ Moves("consensus", from, to) /\ UNCHANGED <<runVars, bootVars>>
        BY <1>1, ComponentSets DEF Components
    <1>3. /\ from \in ServiceLabels("consensus") \ {"notStarted", "done"}
          /\ to \in ServiceLabels("consensus") \ {"notStarted"}
          /\ from \notin Unregistered /\ to \notin Unregistered /\ to # "done"
        BY DEF ServiceLabels, StarterLabels, Unregistered
    <1>4. pc["consensus"] = from
        BY <1>2 DEF Moves
    <1>5. "chain" \in Requested /\ pc["chain"] = "done" /\ serviceStates["consensus"] # "Started"
        BY <1>3, <1>4 DEF LifecycleInv, StepsInv, SpawnInv, StartedInv
    <1>6. StepsInv'
        <2>1. \A u \in (Requested \cup {"chain", "node"}) \ {"consensus"} :
                    serviceStates'[u] = serviceStates[u]
            BY <1>2 DEF ServicesSame
        <2>2. serviceStates'["consensus"] = "Started" => to = "done"
            BY <1>2, <1>5 DEF ServicesSame
        <2>3. QED BY <1>2, <1>3, <1>5, <2>1, <2>2, ServiceKeeps DEF LifecycleInv
    <1>7. QED BY <1>2, <1>6 DEF LifecycleInv

\* A service's own state: the chain service is Started only with a node.
LEMMA ServiceSets ==
    ASSUME LifecycleInv, NEW r \in Requested,
           NEW from \in {"initializing", "starting", "failing"},
           NEW to \in {"addCallback", "done", "failed"}, NEW s \in States,
           Sets(r, from, r, s, to), s = "Started" <=> to = "done",
           from = "initializing" <=> to = "addCallback", to = "done" => from = "starting"
    PROVE  LifecycleInv'
    <1>1. r \in Goroutines /\ r \in StateTypes
        BY Names, StateTypesAssumption
    <1>2. Moves(r, from, to) /\ SetState(r, s) /\ UNCHANGED <<runVars, bootVars>>
        BY DEF Sets
    <1>3. pc[r] = from /\ pc'[r] = to /\ ChainStaysDone
        BY <1>1, <1>2, PcAfter, ChainStays DEF Moves, LifecycleInv, StepsInv
    <1>4. WaitsInv'
        BY <1>1, <1>2, <1>3, SetStateKeeps DEF LifecycleInv
    <1>5. \A u \in StateTypes : serviceStates'[u] = IF u = r THEN s ELSE serviceStates[u]
        BY <1>2 DEF SetState, LifecycleInv, WaitsInv, StateInv, StateTypeOK
    <1>6. /\ from \in ServiceLabels(r) \ {"notStarted", "done"}
          /\ to \in ServiceLabels(r) \ {"notStarted"}
          /\ from \in Unregistered <=> to \in Unregistered
          /\ to \in Early => from \in Early
          /\ to \in ConsensusBefore => from \in ConsensusBefore
          /\ to \notin StarterLabels
        BY DEF ServiceLabels, Unregistered, Early, ConsensusBefore, StarterLabels
    <1>7. /\ r = "chain" /\ to \in {"starting", "done"} => pc["node"] = "done"
          /\ r = "consensus" /\ to \in {"starting", "done"} =>
                "chain" \in Requested /\ pc["chain"] = "done"
        BY <1>3 DEF LifecycleInv, StepsInv, SpawnInv
    <1>8. StepsInv'
        <2>1. \A u \in (Requested \cup {"chain", "node"}) \ {r} : serviceStates'[u] = serviceStates[u]
            BY <1>5, StateTypesAssumption
        <2>2. serviceStates'[r] = "Started" => to = "done"
            BY <1>1, <1>5
        <2>3. QED BY <1>2, <1>6, <1>7, <2>1, <2>2, ServiceKeeps DEF LifecycleInv
    <1>9. QED BY <1>4, <1>8 DEF LifecycleInv

\* WaitForState: it is called, or it has returned.
LEMMA AwaitsIs ==
    ASSUME LifecycleInv, NEW g \in Waiters, g \in Goroutines, NEW at, NEW t \in StateTypes,
           NEW desired \in States, NEW reached, NEW timeout,
           Awaits(g, at, t, desired, reached, timeout), at # "done",
           g = "consensus" => t = "chain" /\ desired = "Started"
    PROVE  /\ WaitsInv' /\ UNCHANGED <<serviceStates, runVars, bootVars>>
           /\ \/ UNCHANGED pc
              \/ At(g, "reached") /\ Moves(g, at, reached)
              \/ Moves(g, at, timeout)
    <1>1. CASE UNCHANGED pc /\ WaitForState(g, t, desired)
        <2>1. ChainStaysDone
            BY <1>1 DEF ChainStaysDone
        <2>2. WaitsInv'
            BY <1>1, <2>1, WaitForStateKeeps, ChainHasStarted DEF LifecycleInv
        <2>3. QED BY <1>1, <2>2 DEF Awaits, WaitForState
    <1>2. ASSUME NEW result \in {"reached", "timeout"}, Returns(g, result), NEW to, Moves(g, at, to)
          PROVE  WaitsInv' /\ UNCHANGED serviceStates
        <2>1. ChainStaysDone
            BY <1>2, ChainStays DEF LifecycleInv, StepsInv
        <2>2. QED BY <1>2, <2>1, ReturnsKeeps DEF LifecycleInv, Returns
    <1>3. QED BY <1>1, <1>2 DEF Awaits, Returns

\* A step that leaves pc, and what the steps depend on, alone.
LEMMA PcSame ==
    ASSUME StepsInv, UNCHANGED <<pc, serviceStates, runVars, bootVars>>
    PROVE  StepsInv'
    BY PcSameKeeps DEF runVars, StepsInv, BootInv

\* A step of the goroutine g that calls no state manager.
LEMMA CallingIs ==
    ASSUME LifecycleInv, NEW g \in Goroutines, NEW from, NEW to, Moves(g, from, to),
           UNCHANGED stateVars, g = "chain" => from # "done"
    PROVE  WaitsInv' /\ ServicesSame /\ serviceStates'["node"] = serviceStates["node"]
    BY ChainStays, UnchangedKeeps DEF LifecycleInv, StepsInv, ServicesSame, stateVars

-----------------------------------------------------------------------------
(* The invariant, goroutine by goroutine *)

LEMMA LifecycleInvInit == Init => LifecycleInv
    <1> SUFFICES ASSUME Init PROVE LifecycleInv
        OBVIOUS
    <1>1. pc = [g \in Goroutines |-> IF g = "main" THEN "storage" ELSE
                                     IF g = "shutdown" THEN "select" ELSE "notStarted"]
        BY DEF Init
    <1>2. /\ pc \in [Goroutines -> Labels]
          /\ pc["main"] = "storage" /\ pc["base"] = "notStarted" /\ pc["node"] = "notStarted"
          /\ pc["shutdown"] = "select" /\ \A s \in Requested : pc[s] = "notStarted"
        BY <1>1, Names DEF Others, Labels
    <1>3. callbacks = <<>> /\ Len(callbacks) = 0 /\ DOMAIN callbacks = {}
          /\ callbacks \in Seq(Requested \cup {"node"})
        BY EmptySeq DEF Init
    <1>4. WaitsInv
        BY WaitersAssumption DEF Init, WaitsInv, StateInv, StateTypeOK, AwaitInv, Calls
    <1>5. PcTypes /\ SpawnInv
        BY <1>2 DEF PcTypes, SpawnInv, MainLabels, BaseLabels, NodeLabels, ServiceLabels,
            StarterLabels
    <1>6. StartedInv
        BY <1>2, StateTypesAssumption DEF Init, StartedInv
    <1>7. CancelInv /\ BootInv
        BY <1>2 DEF Init, CancelInv, BootInv
    <1>8. CallbacksInv
        BY <1>2, <1>3 DEF Init, CallbacksInv, Holds, Unregistered
    <1>9. RunningInv
        <2>1. ~Spawned("node") /\ ~Spawned("consensus")
            BY <1>2, Names DEF Spawned, Others
        <2>2. QED BY <1>2, <2>1 DEF Init, RunningInv
    <1>10. StoppingInv /\ DrainInv
        BY <1>2, RequestedAssumption DEF Init, StoppingInv, DrainInv, Drained
    <1>11. QED
        BY <1>4, <1>5, <1>6, <1>7, <1>8, <1>9, <1>10 DEF LifecycleInv, StepsInv

LEMMA NodeStartKeeps ==
    ASSUME LifecycleInv, NodeStart
    PROVE  LifecycleInv'
    <1> USE DEF SetsNode, SetsValidator
    <1>node. "node" \in Goroutines /\ "node" \in Waiters
        BY Names, WaitersAssumption DEF Others
    <1>1. CASE Sets("node", "n.starting", "node", "Starting", "n.network")
        BY <1>1, NodeSets DEF NodeLabels, Components, States, Running, Before
    <1>2. CASE \E ok \in Outcomes :
                Calling("node", "n.network", IF ok THEN "v.starting" ELSE "failed")
        <2>1. PICK to \in {"v.starting", "failed"} : Calling("node", "n.network", to)
            BY <1>2
        <2>2. WaitsInv' /\ ServicesSame
            BY <1>node, <2>1, CallingIs DEF Calling
        <2>3. StepsInv'
            BY <2>1, <2>2, NodeKeeps DEF LifecycleInv, Calling, NodeLabels, StarterLabels,
                Running, Before
        <2>4. QED BY <2>2, <2>3 DEF LifecycleInv
    <1>3. CASE ValidatorStart("node")
        <2>1. CASE Sets("node", "v.starting", "validator", "Starting", "c.starting")
            BY <2>1, NodeSets DEF NodeLabels, StarterLabels, Components, States, Running, Before
        <2>2. CASE Sets("node", "c.starting", "module", "Starting", "c.spawn")
            BY <2>2, NodeSets DEF NodeLabels, StarterLabels, Components, States, Running, Before
        <2>3. CASE SpawnRoutines("node")
            <3>1. WaitsInv'
                BY <1>node, <2>3, CallingIs DEF SpawnRoutines
            <3>2. StepsInv'
                BY <2>3, SpawnRoutinesKeeps DEF LifecycleInv
            <3>3. QED BY <3>1, <3>2 DEF LifecycleInv
        <2>4. CASE Sets("node", "c.started", "module", "Started", "v.started")
            BY <2>4, NodeSets DEF NodeLabels, StarterLabels, Components, States, Running, Before
        <2>5. CASE Sets("node", "v.started", "validator", "Started", "n.await")
            BY <2>5, NodeSets DEF NodeLabels, StarterLabels, Components, States, Running, Before
        <2>6. QED BY <1>3, <2>1, <2>2, <2>3, <2>4, <2>5 DEF ValidatorStart, ConsensusStart
    <1>4. CASE Awaits("node", "n.await", "validator", "Started", "n.started", "failed")
        <2>1. /\ WaitsInv' /\ UNCHANGED <<serviceStates, runVars, bootVars>>
              /\ \/ UNCHANGED pc
                 \/ \E to \in {"n.started", "failed"} : Moves("node", "n.await", to)
            BY <1>4, <1>node, AwaitsIs, StateTypesAssumption DEF States
        <2>2. CASE UNCHANGED pc
            BY <2>1, <2>2, PcSame DEF LifecycleInv
        <2>3. ASSUME NEW to \in {"n.started", "failed"}, Moves("node", "n.await", to)
              PROVE  StepsInv'
            BY <2>1, <2>3, NodeKeeps DEF LifecycleInv, ServicesSame, NodeLabels, Running, Before
        <2>4. QED BY <2>1, <2>2, <2>3 DEF LifecycleInv
    <1>5. CASE Sets("node", "n.started", "node", "Started", "done")
        BY <1>5, NodeSets DEF NodeLabels, Components, States, Running, Before
    <1>6. QED BY <1>1, <1>2, <1>3, <1>4, <1>5 DEF NodeStart, AwaitsValidator

LEMMA ServiceStepKeeps ==
    ASSUME LifecycleInv, NEW s \in Requested, ServiceStep(s)
    PROVE  LifecycleInv'
    <1> USE DEF SetsService, SetsValidator
    <1>service. s \in Goroutines
        BY Names
    <1>1. CASE Sets(s, "initializing", s, "Initializing", "addCallback")
        BY <1>1, ServiceSets DEF States
    <1>2. CASE AddShutdownCallback(s)
        <2>1. PICK to : Moves(s, "addCallback", to)
            BY <1>2 DEF AddShutdownCallback
        <2>2. WaitsInv'
            BY <1>2, <1>service, <2>1, CallingIs DEF AddShutdownCallback
        <2>3. StepsInv'
            BY <1>2, AddShutdownCallbackKeeps DEF LifecycleInv
        <2>4. QED BY <2>2, <2>3 DEF LifecycleInv
    <1>3. CASE s = "chain" /\ ChainStart
        <2>waiter. "chain" \in Waiters /\ "node" \in StateTypes /\ "chain" \in Requested
            BY <1>3, WaitersAssumption, StateTypesAssumption
        <2>1. CASE SpawnNode
            <3>1. ChainStaysDone
                BY <2>1 DEF SpawnNode, ChainStaysDone
            <3>2. WaitsInv'
                BY <2>1, <3>1, UnchangedKeeps DEF LifecycleInv, SpawnNode
            <3>3. StepsInv'
                BY <2>1, <2>waiter, SpawnNodeKeeps DEF LifecycleInv
            <3>4. QED BY <3>2, <3>3 DEF LifecycleInv
        <2>2. CASE Awaits("chain", "await", "node", "Started", "join", "failing")
            <3>1. /\ WaitsInv' /\ UNCHANGED <<serviceStates, runVars, bootVars>>
                  /\ \/ UNCHANGED pc
                     \/ \E to \in {"join", "failing"} : Moves("chain", "await", to)
                BY <1>3, <1>service, <2>2, <2>waiter, AwaitsIs DEF States
            <3>2. CASE UNCHANGED pc
                BY <3>1, <3>2, PcSame DEF LifecycleInv
            <3>3. ASSUME NEW to \in {"join", "failing"}, Moves("chain", "await", to)
                  PROVE  StepsInv'
                <4>1. serviceStates["chain"] # "Started"
                    BY <2>waiter, <3>3 DEF LifecycleInv, StepsInv, StartedInv, Moves
                <4>2. QED
                    BY <2>waiter, <3>1, <3>3, <4>1, ServiceKeeps DEF LifecycleInv, ServiceLabels,
                        Unregistered, Early
            <3>4. QED BY <3>1, <3>2, <3>3 DEF LifecycleInv
        <2>3. CASE JoinNode
            <3>1. PICK to \in {"starting", "failing"} :
                    Calling("chain", "join", to) /\ (to = "starting" => pc["node"] = "done")
                BY <2>3 DEF JoinNode
            <3>2. WaitsInv'
                BY <1>3, <1>service, <3>1, CallingIs DEF Calling
            <3>3. serviceStates["chain"] # "Started"
                BY <2>waiter, <3>1 DEF LifecycleInv, StepsInv, StartedInv, Calling, Moves
            <3>4. StepsInv'
                BY <2>waiter, <3>1, <3>3, ServiceKeeps DEF LifecycleInv, Calling, stateVars,
                    ServiceLabels, Unregistered, Early
            <3>5. QED BY <3>2, <3>4 DEF LifecycleInv
        <2>4. QED BY <1>3, <2>1, <2>2, <2>3 DEF ChainStart, AwaitsNode
    <1>4. CASE s = "consensus" /\ ConsensusServiceStart
        <2>waiter. "consensus" \in Waiters /\ "chain" \in StateTypes /\ "consensus" \in Requested
            BY <1>4, WaitersAssumption, StateTypesAssumption
        <2>1. CASE Awaits("consensus", "await", "chain", "Started",
                          IF R("node") THEN "v.starting" ELSE "failing", "failing")
            <3> DEFINE reached == IF R("node") THEN "v.starting" ELSE "failing"
            <3>0. reached \in {"v.starting", "failing"}
                OBVIOUS
            <3>1. /\ WaitsInv' /\ UNCHANGED <<serviceStates, runVars, bootVars>>
                  /\ \/ UNCHANGED pc
                     \/ At("consensus", "reached") /\ Moves("consensus", "await", reached)
                     \/ Moves("consensus", "await", "failing")
                BY <1>4, <1>service, <2>1, <2>waiter, AwaitsIs DEF States
            <3> HIDE DEF reached
            <3>2. CASE UNCHANGED pc
                BY <3>1, <3>2, PcSame DEF LifecycleInv
            <3>3. ASSUME NEW to \in {"v.starting", "failing"}, Moves("consensus", "await", to),
                         to = "failing" \/ At("consensus", "reached")
                  PROVE  StepsInv'
                <4>1. serviceStates["consensus"] # "Started"
                    BY <2>waiter, <3>3 DEF LifecycleInv, StepsInv, StartedInv, Moves
                <4>2. to = "v.starting" => "chain" \in Requested /\ pc["chain"] = "done"
                    BY <2>waiter, <3>3, CallIs DEF LifecycleInv, WaitsInv, AwaitInv, At
                <4>3. QED
                    BY <2>waiter, <3>1, <3>3, <4>1, <4>2, ServiceKeeps DEF LifecycleInv,
                        ServiceLabels, StarterLabels, Unregistered, ConsensusBefore
            <3>4. QED BY <3>0, <3>1, <3>2, <3>3 DEF LifecycleInv
        <2>2. CASE ValidatorStart("consensus")
            <3>1. CASE Sets("consensus", "v.starting", "validator", "Starting", "c.starting")
                BY <2>waiter, <3>1, ConsensusSets DEF StarterLabels, States, ConsensusBefore
            <3>2. CASE Sets("consensus", "c.starting", "module", "Starting", "c.spawn")
                BY <2>waiter, <3>2, ConsensusSets DEF StarterLabels, States, ConsensusBefore
            <3>3. CASE SpawnRoutines("consensus")
                <4>1. WaitsInv'
                    BY <1>4, <1>service, <3>3, CallingIs DEF SpawnRoutines
                <4>2. StepsInv'
                    BY <2>waiter, <3>3, SpawnRoutinesKeeps DEF LifecycleInv
                <4>3. QED BY <4>1, <4>2 DEF LifecycleInv
            <3>4. CASE Sets("consensus", "c.started", "module", "Started", "v.started")
                BY <2>waiter, <3>4, ConsensusSets DEF StarterLabels, States, ConsensusBefore
            <3>5. CASE Sets("consensus", "v.started", "validator", "Started", "starting")
                BY <2>waiter, <3>5, ConsensusSets DEF StarterLabels, States, ConsensusBefore
            <3>6. QED BY <2>2, <3>1, <3>2, <3>3, <3>4, <3>5 DEF ValidatorStart, ConsensusStart
        <2>3. QED BY <1>4, <2>1, <2>2 DEF ConsensusServiceStart, AwaitsService
    <1>5. CASE Sets(s, "starting", s, "Started", "done")
        BY <1>5, ServiceSets DEF States
    <1>6. CASE Sets(s, "failing", s, "Failed", "failed")
        BY <1>6, ServiceSets DEF States
    <1>7. QED BY <1>1, <1>2, <1>3, <1>4, <1>5, <1>6 DEF ServiceStep

LEMMA NodeShutdownKeeps ==
    ASSUME LifecycleInv, NodeShutdown
    PROVE  LifecycleInv'
    <1> USE DEF SetsNode, SetsValidator
    <1>shutdown. "shutdown" \in Goroutines /\ "shutdown" \in Waiters
        BY Names, WaitersAssumption DEF Others
    <1>1. CASE Sets("shutdown", "n.stopping", "node", "Stopping", "v.stopping")
        BY <1>1, ShutdownSets DEF Undrained, Drained, Components, States
    <1>2. CASE Sets("shutdown", "v.stopping", "validator", "Stopping", "c.stopping")
        BY <1>2, ShutdownSets DEF Undrained, Drained, Components, States
    <1>3. CASE Sets("shutdown", "c.stopping", "module", "Stopping", "c.drain")
        BY <1>3, ShutdownSets DEF Undrained, Drained, Components, States
    <1>4. CASE DrainRoutines
        <2>1. WaitsInv' /\ ServicesSame
            BY <1>4, <1>shutdown, CallingIs DEF DrainRoutines, Calling
        <2>2. StepsInv'
            BY <1>4, <2>1, ShutdownKeeps DEF LifecycleInv, DrainRoutines, Calling, bootVars,
                Undrained, Drained
        <2>3. QED BY <2>1, <2>2 DEF LifecycleInv
    <1>5. CASE Sets("shutdown", "c.stopped", "module", "Stopped", "v.await")
        BY <1>5, ShutdownSets DEF Undrained, Drained, Components, States
    <1>6. CASE Awaits("shutdown", "v.await", "module", "Stopped", "v.stopped", "v.failed")
        <2>1. /\ WaitsInv' /\ UNCHANGED <<serviceStates, runVars, bootVars>>
              /\ \/ UNCHANGED pc
                 \/ \E to \in {"v.stopped", "v.failed"} : Moves("shutdown", "v.await", to)
            BY <1>6, <1>shutdown, AwaitsIs, StateTypesAssumption DEF States
        <2>2. CASE UNCHANGED pc
            BY <2>1, <2>2, PcSame DEF LifecycleInv
        <2>3. ASSUME NEW to \in {"v.stopped", "v.failed"}, Moves("shutdown", "v.await", to)
              PROVE  StepsInv'
            BY <2>1, <2>3, ShutdownKeeps DEF LifecycleInv, bootVars, ServicesSame,
                Undrained, Drained
        <2>4. QED BY <2>1, <2>2, <2>3 DEF LifecycleInv
    <1>7. CASE Sets("shutdown", "v.stopped", "validator", "Stopped", "n.await")
        BY <1>7, ShutdownSets DEF Undrained, Drained, Components, States
    <1>8. CASE Sets("shutdown", "v.failed", "validator", "Failed", "n.log")
        BY <1>8, ShutdownSets DEF Undrained, Drained, Components, States
    <1>9. CASE Sets("shutdown", "n.log", "node/consensus", "Failed", "n.await")
        BY <1>9, ShutdownSets DEF Undrained, Drained, Components, States
    <1>10. CASE Awaits("shutdown", "n.await", "validator", "Stopped", "n.network", "n.failed")
        <2>1. /\ WaitsInv' /\ UNCHANGED <<serviceStates, runVars, bootVars>>
              /\ \/ UNCHANGED pc
                 \/ \E to \in {"n.network", "n.failed"} : Moves("shutdown", "n.await", to)
            BY <1>10, <1>shutdown, AwaitsIs, StateTypesAssumption DEF States
        <2>2. CASE UNCHANGED pc
            BY <2>1, <2>2, PcSame DEF LifecycleInv
        <2>3. ASSUME NEW to \in {"n.network", "n.failed"}, Moves("shutdown", "n.await", to)
              PROVE  StepsInv'
            BY <2>1, <2>3, ShutdownKeeps DEF LifecycleInv, bootVars, ServicesSame,
                Undrained, Drained
        <2>4. QED BY <2>1, <2>2, <2>3 DEF LifecycleInv
    <1>11. CASE \E ok \in Outcomes :
                Calling("shutdown", "n.network", IF ok THEN "n.storage" ELSE "n.failed")
        <2>1. PICK to \in {"n.storage", "n.failed"} : Calling("shutdown", "n.network", to)
            BY <1>11
        <2>2. WaitsInv' /\ ServicesSame
            BY <1>shutdown, <2>1, CallingIs DEF Calling
        <2>3. StepsInv'
            BY <2>1, <2>2, ShutdownKeeps DEF LifecycleInv, Calling, bootVars, Undrained, Drained
        <2>4. QED BY <2>2, <2>3 DEF LifecycleInv
    <1>12. CASE CloseStorage
        <2>1. PICK to \in {"n.stopped", "n.failed"} :
                /\ Moves("shutdown", "n.storage", to)
                /\ dbs' \in {dbs, "closed"}
                /\ UNCHANGED <<stateVars, runVars, registry, resources>>
            BY <1>12 DEF CloseStorage
        <2>2. WaitsInv' /\ ServicesSame
            BY <1>shutdown, <2>1, CallingIs
        <2>3. StepsInv'
            BY <2>1, <2>2, ShutdownKeeps DEF LifecycleInv, Undrained, Drained
        <2>4. QED BY <2>2, <2>3 DEF LifecycleInv
    <1>13. CASE Sets("shutdown", "n.stopped", "node", "Stopped", "next")
        BY <1>13, ShutdownSets DEF Undrained, Drained, Components, States
    <1>14. CASE Sets("shutdown", "n.failed", "node", "Failed", "next")
        BY <1>14, ShutdownSets DEF Undrained, Drained, Components, States
    <1>15. QED
        BY <1>1, <1>2, <1>3, <1>4, <1>5, <1>6, <1>7, <1>8, <1>9, <1>10, <1>11, <1>12, <1>13,
            <1>14
            DEF NodeShutdown, ValidatorShutdown, ConsensusShutdown, AwaitsValidator

LEMMA ShutdownStepKeeps ==
    ASSUME LifecycleInv, ShutdownStep
    PROVE  LifecycleInv'
    <1>shutdown. "shutdown" \in Goroutines
        BY Names DEF Others
    <1>1. CASE HandleSignals
        <2>1. WaitsInv'
            BY <1>1, <1>shutdown, CallingIs DEF HandleSignals
        <2>2. QED BY <1>1, <2>1, HandleSignalsKeeps DEF LifecycleInv
    <1>2. CASE NextCallback
        <2>1. PICK to : Moves("shutdown", "next", to)
            BY <1>2 DEF NextCallback
        <2>2. WaitsInv'
            BY <1>2, <1>shutdown, <2>1, CallingIs DEF NextCallback
        <2>3. QED BY <1>2, <2>2, NextCallbackKeeps DEF LifecycleInv
    <1>3. CASE NodeShutdown
        BY <1>3, NodeShutdownKeeps
    <1>4. CASE StopService
        <2>1. /\ Moves("shutdown", "stop", "next") /\ SetState(callbacks[ran], "Stopped")
              /\ callbacks[ran] \in StateTypes
            BY <1>4, StateTypesAssumption DEF StopService, SetsService, Sets, Moves, LifecycleInv,
                StepsInv, CallbacksInv
        <2>2. ChainStaysDone
            BY <1>shutdown, <2>1, ChainStays DEF LifecycleInv, StepsInv
        <2>3. WaitsInv'
            BY <2>1, <2>2, SetStateKeeps DEF LifecycleInv, States
        <2>4. StepsInv'
            BY <1>4, StopServiceKeeps DEF LifecycleInv, WaitsInv
        <2>5. QED BY <2>3, <2>4 DEF LifecycleInv
    <1>5. QED BY <1>1, <1>2, <1>3, <1>4 DEF ShutdownStep

\* main, by its steps; the databases are opened before anything can close them.
LEMMA MainStepsKeep ==
    ASSUME LifecycleInv, Construct \/ MainStep \/ ConstructionFails
    PROVE  LifecycleInv'
    <1> DEFINE building == {"newNode", "newValidator", "initNode", "addNode"}
    <1>main. "main" \in Goroutines
        BY Names DEF Others
    <1>inv. /\ StepsInv /\ pc["main"] \in MainLabels /\ BootInv
            /\ Holds("node") => "chain" \in registry \/ pc["main"] = "register"
            /\ pc["main"] \in building => ~Holds("node")
        BY DEF LifecycleInv, StepsInv, PcTypes, CallbacksInv
    <1>1. CASE NewBaseService
        <2>1. PICK from \in {"storage", "identity"}, to \in {"identity", "inject"} :
                Moves("main", from, to)
            BY <1>1 DEF NewBaseService
        <2>2. /\ UNCHANGED <<stateVars, runVars, registry>> /\ dbs' \in {dbs, "open"}
              /\ resources' \subseteq resources \cup {"storage", "identity"}
            BY <1>1 DEF NewBaseService, NewStorageManager, NewDb, RegisterResource
        <2>3. WaitsInv' /\ ServicesSame
            BY <1>main, <2>1, <2>2, CallingIs
        <2>4. BootInv'
            BY <1>inv, <2>2 DEF BootInv, runVars
        <2>5. Holds("node") => "chain" \in registry
            BY <1>inv, <2>1 DEF Moves
        <2>6. StepsInv'
            BY <1>inv, <2>1, <2>2, <2>3, <2>4, <2>5, MainKeeps DEF MainLabels, runVars
        <2>7. QED BY <2>3, <2>6 DEF LifecycleInv
    <1>2. CASE \E s \in Handlers : InjectService(s)
        <2>1. PICK s \in Handlers : InjectService(s)
            BY <1>2
        <2>2. PICK to \in {"inject", "newNode"} :
                /\ Moves("main", "inject", to)
                /\ registry \subseteq registry' /\ registry' \subseteq Handlers
                /\ to = "newNode" => "chain" \notin registry
            BY <2>1, <1>inv DEF InjectService, ServiceHandler, Register, Moves, BootInv,
                LifecycleInv, StepsInv, PcTypes
        <2>3. UNCHANGED <<stateVars, runVars, resources, dbs>>
            BY <2>1 DEF InjectService
        <2>4. WaitsInv' /\ ServicesSame
            BY <1>main, <2>2, <2>3, CallingIs
        <2>5. BootInv'
            BY <1>inv, <2>2, <2>3 DEF BootInv, runVars
        <2>6. Holds("node") => "chain" \in registry
            BY <1>inv, <2>2 DEF Moves
        <2>7. StepsInv'
            BY <1>inv, <2>2, <2>3, <2>4, <2>5, <2>6, MainKeeps DEF MainLabels, runVars
        <2>8. QED BY <2>4, <2>7 DEF LifecycleInv
    <1>3. CASE NewNode
        <2>1. ASSUME NEW from \in building, NEW to \in building, Moves("main", from, to),
                     ServicesSame, UNCHANGED <<runVars, bootVars>>
              PROVE  StepsInv'
            <3>1. BootInv'
                BY <1>inv, <2>1 DEF BootInv, runVars, bootVars
            <3>2. ~Holds("node")
                BY <1>inv, <2>1 DEF Moves
            <3>3. QED BY <1>inv, <2>1, <3>1, <3>2, MainKeeps DEF MainLabels, runVars, bootVars
        <2>2. ASSUME NEW from \in building, NEW to \in building, NEW s \in States,
                     Sets("main", from, "node", s, to)
              PROVE  LifecycleInv'
            <3>1. /\ WaitsInv' /\ ServicesSame
                  /\ Moves("main", from, to) /\ UNCHANGED <<runVars, bootVars>>
                BY <1>main, <2>2, ComponentSets DEF Components
            <3>2. QED BY <2>1, <3>1 DEF LifecycleInv
        <2>3. CASE NewValidator
            <3>1. /\ Moves("main", "newValidator", "initNode")
                  /\ UNCHANGED <<waitChans, calls, runVars, bootVars>>
                BY <2>3 DEF NewValidator
            <3>2. /\ serviceStates' \in [StateTypes -> States \cup {"absent"}]
                  /\ \A u \in StateTypes \ {"validator", "module"} :
                        serviceStates'[u] = serviceStates[u]
                BY <2>3 DEF NewValidator, LifecycleInv, WaitsInv, StateInv, StateTypeOK, States
            <3>3. ServicesSame
                BY <3>2, StateTypesAssumption, NamesAssumption DEF ServicesSame
            <3>4. ChainStaysDone
                BY <1>main, <3>1, ChainStays DEF LifecycleInv, StepsInv
            <3>5. WaitsInv'
                BY <3>1, <3>2, <3>4 DEF LifecycleInv, WaitsInv, StateInv, StateTypeOK, AwaitInv,
                    ChainStaysDone
            <3>6. QED BY <2>1, <3>1, <3>3, <3>5 DEF LifecycleInv
        <2>4. QED BY <1>3, <2>2, <2>3 DEF NewNode, SetsNode, States
    <1>4. CASE AddNodeCallback
        <2>1. WaitsInv'
            BY <1>4, <1>main, CallingIs DEF AddNodeCallback
        <2>2. QED BY <1>4, <1>inv, <2>1, AddNodeCallbackKeeps DEF LifecycleInv
    <1>5. CASE RegisterChain
        <2>1. /\ Moves("main", "register", "inject") /\ UNCHANGED <<stateVars, runVars, dbs>>
              /\ registry' = registry \cup {"chain"} /\ resources' = resources \cup {"node"}
            BY <1>5 DEF RegisterChain, Register, RegisterResource
        <2>2. WaitsInv' /\ ServicesSame
            BY <1>main, <2>1, CallingIs
        <2>3. BootInv'
            BY <1>inv, <2>1, RequestedAssumption DEF BootInv, runVars
        <2>4. StepsInv'
            BY <1>inv, <2>1, <2>2, <2>3, MainKeeps DEF MainLabels, runVars
        <2>5. QED BY <2>2, <2>4 DEF LifecycleInv
    <1>6. CASE SpawnBase
        <2>1. ChainStaysDone
            BY <1>6, <1>inv, Names DEF SpawnBase, ChainStaysDone, Others, StepsInv, PcTypes
        <2>2. WaitsInv'
            BY <1>6, <2>1, UnchangedKeeps DEF LifecycleInv, SpawnBase
        <2>3. QED BY <1>6, <1>inv, <2>2, SpawnBaseKeeps DEF LifecycleInv
    <1>7. CASE MainStep \/ ConstructionFails
        <2>1. PICK from \in MainLabels \ {"exited"}, to \in {"join", "exited"} :
                /\ Moves("main", from, to)
                /\ from # "register"
                /\ cancelled' = cancelled \/ cancelled' = TRUE
                /\ UNCHANGED <<stateVars, callbacks, ran, running, received, startedAt, bootVars>>
            BY <1>7, <1>inv DEF MainStep, ConstructionFails, MainLabels, Moves
        <2>2. WaitsInv' /\ ServicesSame /\ serviceStates'["node"] = serviceStates["node"]
            BY <1>main, <2>1, CallingIs
        <2>3. BootInv'
            BY <1>inv, <2>1 DEF BootInv, bootVars
        <2>4. Holds("node") => "chain" \in registry
            BY <1>inv, <2>1 DEF Moves
        <2>5. StepsInv'
            BY <1>inv, <2>1, <2>2, <2>3, <2>4, MainKeeps DEF MainLabels, bootVars
        <2>6. QED BY <2>2, <2>5 DEF LifecycleInv
    <1>8. QED BY <1>1, <1>2, <1>3, <1>4, <1>5, <1>6, <1>7 DEF Construct

LEMMA LifecycleInvNext == LifecycleInv /\ [Next]_vars => LifecycleInv'
    <1> SUFFICES ASSUME LifecycleInv, [Next]_vars PROVE LifecycleInv'
        OBVIOUS
    <1>inv. WaitsInv /\ StepsInv /\ received \subseteq Signals
        BY DEF LifecycleInv, StepsInv, BootInv
    <1>same. UNCHANGED <<stateVars, pc>> => WaitsInv'
        BY <1>inv, UnchangedKeeps DEF ChainStaysDone
    <1>1. CASE UNCHANGED vars
        <2>1. StepsInv'
            BY <1>1, <1>inv, PcSame DEF vars, stateVars
        <2>2. QED BY <1>1, <1>same, <2>1 DEF LifecycleInv, vars
    <1>2. CASE Construct \/ MainStep \/ ConstructionFails
        BY <1>2, MainStepsKeep
    <1>3. CASE BaseStart
        <2>1. ChainStaysDone
            BY <1>3, <1>inv DEF StepsInv, SpawnInv, BaseStart, ChainStaysDone
        <2>2. WaitsInv'
            BY <1>3, <1>inv, <2>1, UnchangedKeeps DEF BaseStart
        <2>3. QED BY <1>3, <1>inv, <2>2, BaseStartKeeps DEF LifecycleInv
    <1>4. CASE BaseReturns
        <2>1. PICK to : Moves("base", "wait", to)
            BY <1>4 DEF BaseReturns
        <2>2. WaitsInv'
            BY <1>4, <2>1, Names, CallingIs DEF BaseReturns, Others
        <2>3. QED BY <1>4, <1>inv, <2>2, BaseReturnsKeeps DEF LifecycleInv
    <1>5. CASE \E s \in Requested : ServiceStep(s)
        BY <1>5, ServiceStepKeeps
    <1>6. CASE NodeStart
        BY <1>6, NodeStartKeeps
    <1>7. CASE ShutdownStep
        BY <1>7, ShutdownStepKeeps
    <1>8. CASE RoutinesEnd
        <2>1. StepsInv'
            BY <1>8, <1>inv, PcSameKeeps DEF RoutinesEnd, stateVars
        <2>2. QED BY <1>8, <1>same, <2>1 DEF RoutinesEnd, LifecycleInv
    <1>9. ASSUME NEW p \in Waiters, WaiterStep(p)
          PROVE  LifecycleInv'
        <2>1. ChainStaysDone /\ UNCHANGED serviceStates
            BY <1>9 DEF WaiterStep, WaitStep, Recheck, RegisterWait, TimeOut, ChainStaysDone
        <2>2. WaitsInv'
            BY <1>9, <1>inv, <2>1, WaitStepKeeps, ChainHasStarted DEF WaiterStep
        <2>3. StepsInv'
            BY <1>9, <1>inv, <2>1, PcSame DEF WaiterStep
        <2>4. QED BY <2>2, <2>3 DEF LifecycleInv
    <1>10. ASSUME NEW sig \in Signals, Signal(sig)
           PROVE  LifecycleInv'
        <2>1. StepsInv'
            BY <1>10, <1>inv, PcSameKeeps DEF Signal, stateVars
        <2>2. QED BY <1>10, <1>same, <2>1 DEF Signal, LifecycleInv
    <1>11. QED
        BY <1>1, <1>2, <1>3, <1>4, <1>5, <1>6, <1>7, <1>8, <1>9, <1>10 DEF Next, Progress

-----------------------------------------------------------------------------
(* Theorems *)

\* The inductive invariant holds in every reachable state.
THEOREM LifecycleInvariant == Spec => []LifecycleInv
    <1>1. Init => LifecycleInv
        BY LifecycleInvInit
    <1>2. LifecycleInv /\ [Next]_vars => LifecycleInv'
        BY LifecycleInvNext
    <1>3. QED BY <1>1, <1>2, PTL DEF Spec

\* Every variable keeps its type; the consensus module is never started more
\* than twice, and the list of callbacks holds at most one for each requested
\* service and one for the node (Consensus.Start, AddShutdownCallback).
THEOREM TypeCorrect == Spec => []TypeOK
    <1>1. ASSUME CallbacksInv PROVE Len(callbacks) <= Cardinality(Requested) + 1
        <2> DEFINE S == 1 .. Len(callbacks)
                   T == Requested \cup {"node"}
        <2>1. callbacks \in [S -> T] /\ Len(callbacks) \in Nat /\ DOMAIN callbacks = S
            BY <1>1, LenProperties, SeqDef DEF CallbacksInv
        <2>2. callbacks \in Injection(S, T)
            BY <1>1, <2>1 DEF CallbacksInv, Injection, IsInjective
        <2>3. /\ IsFiniteSet(T) /\ Cardinality(T) = Cardinality(Requested) + 1
            BY RequestedAssumption, NamesAssumption, FS_AddElement
        <2>4. Cardinality(S) <= Cardinality(T)
            BY <2>2, <2>3, FS_Injection
        <2>5. Cardinality(S) = Len(callbacks)
            <3>1. \A n \in Nat : Cardinality(1 .. n) = n
                BY FS_Interval
            <3>2. QED BY <2>1, <3>1
        <2>6. QED BY <2>3, <2>4, <2>5
    <1>2. ASSUME RunningInv PROVE running \in 0 .. 2
        BY <1>2 DEF RunningInv
    <1>3. LifecycleInv => TypeOK
        <2> SUFFICES ASSUME LifecycleInv PROVE TypeOK
            OBVIOUS
        <2> USE DEF LifecycleInv, WaitsInv, StepsInv
        <2>1. StateTypeOK /\ pc \in [Goroutines -> Labels] /\ cancelled \in BOOLEAN
            BY DEF StateInv, PcTypes, CancelInv
        <2>2. Len(callbacks) <= Cardinality(Requested) + 1 /\ running \in 0 .. 2
            BY <1>1, <1>2
        <2>3. /\ \A i \in DOMAIN callbacks : callbacks[i] \in Requested \cup {"node"}
              /\ ran \in 0 .. Len(callbacks)
            BY ElementOfSeq, LenProperties DEF CallbacksInv
        <2>4. QED BY <2>1, <2>2, <2>3 DEF TypeOK, BootInv, StoppingInv
    <1>4. QED BY <1>3, LifecycleInvariant, PTL

\* The chain service is not Started before the node is and the consensus
\* module runs, and both stay so until a shutdown, whichever waits time out
\* (services/chain, Node.Start).
THEOREM ChainReportsTheNode == Spec => []ChainStartedMeansRunning
    <1>1. LifecycleInv => ChainStartedMeansRunning
        BY DEF LifecycleInv, StepsInv, StartedInv, SpawnInv, RunningInv, ChainStartedMeansRunning
    <1>2. QED BY <1>1, LifecycleInvariant, PTL

\* The validator is never started by the chain and the consensus service at
\* once, whatever wakes or times out the latter's wait (WaitForState).
THEOREM StartersTakeTurns == Spec => []OneStarterAtATime
    <1>1. LifecycleInv => OneStarterAtATime
        BY DEF LifecycleInv, StepsInv, SpawnInv, StarterLabels, OneStarterAtATime
    <1>2. QED BY <1>1, LifecycleInvariant, PTL

\* A service that had started when the shutdown began is Stopped when it is
\* done (BaseService.Start, shutdown.Manager).
THEOREM StartedServicesAreStopped == Spec => []StartedServicesStop
    <1>1. LifecycleInv => StartedServicesStop
        BY DEF LifecycleInv, StepsInv, StoppingInv, StartedServicesStop
    <1>2. QED BY <1>1, LifecycleInvariant, PTL

\* When all services had started, the databases are closed only after the last
\* goroutine of the consensus module has ended (Node.Shutdown).
THEOREM StorageIsClosedLast == Spec => []StorageClosesLast
    <1>1. LifecycleInv => StorageClosesLast
        BY DEF LifecycleInv, StepsInv, DrainInv, StorageClosesLast
    <1>2. QED BY <1>1, LifecycleInvariant, PTL
===============================================================================
