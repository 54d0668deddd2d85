---------------------------- MODULE StateManager ----------------------------
(***************************************************************************)
(* The state manager that pkg/node, pkg/validator and pkg/runtime each have *)
(* a copy of (state.go): a map from the components to their states, and one *)
(* channel per component, which SetState closes to wake the goroutines that *)
(* wait for it.                                                            *)
(*                                                                         *)
(* No operation uses the entries of two components, so the maps of all the *)
(* managers are one function here.  waitChans[t] is the set of goroutines   *)
(* that hold the channel in the map.  A channel that nobody holds any more *)
(* and no channel cannot be told apart.                                    *)
(***************************************************************************)
EXTENDS Naturals, Sequences, FiniteSets

CONSTANTS
    StateTypes,     \* the components whose states are tracked
    Waiters         \* the goroutines that call WaitForState

VARIABLES
    serviceStates,  \* the state of each component, "absent" before SetState
    waitChans,      \* the holders of each component's channel
    calls           \* how far each goroutine is inside WaitForState

stateVars == <<serviceStates, waitChans, calls>>

States == {"Uninitialized", "Initializing", "Initialized", "Starting", "Started",
           "Failed", "Stopping", "Stopped"}

NoCall == [step |-> "none"]

Call(step, t, desired) == [step |-> step, type |-> t, desired |-> desired]

Calls ==
    {NoCall} \cup
    [step : {"appear", "recheck", "register", "wait", "reached", "timeout"},
     type : StateTypes, desired : States]

StateTypeOK ==
    /\ serviceStates \in [StateTypes -> States \cup {"absent"}]
    /\ waitChans \in [StateTypes -> SUBSET Waiters]
    /\ calls \in [Waiters -> Calls]

At(p, step) == calls[p].step = step

Advance(p, step) == calls' = [calls EXCEPT ![p].step = step]

-----------------------------------------------------------------------------

\* Closing the channel of t: a goroutine that waits for t to appear looks
\* again, one that waits for a state takes it as reached.
Woken(t) ==
    [p \in Waiters |->
        IF p \in waitChans[t]
        THEN [calls[p] EXCEPT !.step = IF @ = "appear" THEN "recheck" ELSE "reached"]
        ELSE calls[p]]

\* Mutant: every change of the state closes the channel.
SetStateNotifyAll(t, s) ==
    /\ serviceStates' = [serviceStates EXCEPT ![t] = s]
    /\ waitChans' = [waitChans EXCEPT ![t] = {}]
    /\ calls' = Woken(t)

SetState(t, s) ==
    /\ serviceStates' = [serviceStates EXCEPT ![t] = s]
    /\ IF s = "Started"
       THEN waitChans' = [waitChans EXCEPT ![t] = {}] /\ calls' = Woken(t)
       ELSE UNCHANGED <<waitChans, calls>>

\* The first critical section of WaitForState.  For a component that is not
\* tracked yet it puts a new channel into the map, even if there is one.
WaitForState(p, t, desired) ==
    /\ calls[p] = NoCall
    /\ IF serviceStates[t] = "absent"
       THEN /\ waitChans' = [waitChans EXCEPT ![t] = {p}]
            /\ calls' = [calls EXCEPT ![p] = Call("appear", t, desired)]
       ELSE /\ calls' = [calls EXCEPT ![p] =
                            Call(IF serviceStates[t] = desired THEN "reached" ELSE "register",
                                 t, desired)]
            /\ UNCHANGED waitChans
    /\ UNCHANGED serviceStates

\* The channel was closed while the component was not tracked.
Recheck(p) ==
    /\ At(p, "recheck")
    /\ Advance(p, IF serviceStates[calls[p].type] = calls[p].desired
                  THEN "reached" ELSE "register")
    /\ UNCHANGED <<serviceStates, waitChans>>

\* The second critical section takes the channel in the map, or a new one,
\* and does not look at the state.
RegisterWait(p) ==
    /\ At(p, "register")
    /\ waitChans' = [waitChans EXCEPT ![calls[p].type] = @ \cup {p}]
    /\ Advance(p, "wait")
    /\ UNCHANGED serviceStates

TimeOut(p) ==
    /\ At(p, "appear") \/ At(p, "wait")
    /\ waitChans' = [waitChans EXCEPT ![calls[p].type] = @ \ {p}]
    /\ Advance(p, "timeout")
    /\ UNCHANGED serviceStates

WaitStep(p) == Recheck(p) \/ RegisterWait(p) \/ TimeOut(p)

\* WaitForState returns: nil ("reached") or an error ("timeout").
Returns(p, result) ==
    /\ At(p, result)
    /\ calls' = [calls EXCEPT ![p] = NoCall]
    /\ UNCHANGED <<serviceStates, waitChans>>

=============================================================================
