------------------------ MODULE MCValidatorConsensus ------------------------
(* Instances of ValidatorConsensus for TLC. *)
EXTENDS ValidatorConsensus, TLC

\* The documented deployment: every node knows every validator.
AllMembers == [n \in Nodes |-> Nodes]

\* The wiring of pkg/node/node.go: a node adds only itself.
OnlySelf == [n \in Nodes |-> {n}]

NodeSymmetry == Permutations(Nodes)
=============================================================================
