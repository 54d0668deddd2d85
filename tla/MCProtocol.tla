----------------------------- MODULE MCProtocol -----------------------------
(* Instances of Protocol for TLC. *)
EXTENDS Protocol, TLC

\* Every host has its own key, as in a deployment.
OwnKeys == [n \in Hosts |-> {n} \cap Validators]

\* How often the applications call after ProposeBlock.
LeaderCalls == [n \in Hosts |-> IF n = LeaderID THEN 1 ELSE 0]
LeaderCallsTwice == [n \in Hosts |-> IF n = LeaderID THEN 2 ELSE 0]

\* How many goroutines each host has.
Two == [n \in Hosts |-> 1 .. 2]
TwoForFollowers == [n \in Hosts |-> IF n = LeaderID THEN 1 .. 1 ELSE 1 .. 2]
=============================================================================
