--------------------------- MODULE ConsensusState ---------------------------
(***************************************************************************)
(* The data of one consensus instance, pkg/consensus/state.go, and the     *)
(* questions it asks of its ValidatorSet, pkg/consensus/validator_set.go.  *)
(*                                                                         *)
(* A State is a record: the keys of the maps proposals and finalized, the  *)
(* validators of each inner map of approvals, and what the MDBX store      *)
(* holds under each block hash.  Every write of the Go type goes first to  *)
(* the map and then to the store, and the store may refuse it: `ok' is the *)
(* outcome of that write, and an operation returns an error exactly when   *)
(* its write was refused.  All three kinds of record are stored under the  *)
(* same key, the block hash.                                               *)
(***************************************************************************)
EXTENDS Integers, FiniteSets

CONSTANT Blocks     \* block hashes (types.HashData of the block data)

\* What storage.Db holds under a block hash: nothing, the block data of the
\* last proposal, the signature of the last approval, or the word finalized.
Stored == {"none", "data", "signature", "finalized"}

States(Validators) ==
    [proposals : SUBSET Blocks,
     approvals : [Blocks -> SUBSET Validators],
     finalized : SUBSET Blocks,
     disk      : [Blocks -> Stored]]

\* The empty store of a node that has never run.
EmptyDisk == [h \in Blocks |-> "none"]

\* NewState starts with empty maps on top of the store it is given; nothing
\* is read back from it.
NewState(disk) ==
    [proposals |-> {},
     approvals |-> [h \in Blocks |-> {}],
     finalized |-> {},
     disk      |-> disk]

\* storage.Db.Set, whose transaction may fail.
Persist(disk, h, value, ok) ==
    IF ok THEN [disk EXCEPT ![h] = value] ELSE disk

AddProposal(s, h, ok) ==
    [s EXCEPT !.proposals = @ \cup {h},
              !.disk      = Persist(@, h, "data", ok)]

HasProposal(s, h) == h \in s.proposals

\* A second approval of the same validator changes nothing and is no error.
AddApproval(s, v, h, ok) ==
    IF v \in s.approvals[h]
    THEN s
    ELSE [s EXCEPT !.approvals[h] = @ \cup {v},
                   !.disk         = Persist(@, h, "signature", ok)]

AddApprovalFails(s, v, h, ok) == v \notin s.approvals[h] /\ ~ok

\* Mutant: one approval too few is enough.
QuorumOffByOne(s, h, quorumSize) == Cardinality(s.approvals[h]) + 1 >= quorumSize

HasReachedQuorum(s, h, quorumSize) == Cardinality(s.approvals[h]) >= quorumSize

FinalizeState(s, h, ok) ==
    [s EXCEPT !.finalized = @ \cup {h},
              !.disk      = Persist(@, h, "finalized", ok)]

IsFinalized(s, h) == h \in s.finalized

-----------------------------------------------------------------------------
(* validator_set.go *)

\* The configured threshold, or more than two thirds of the validators.
QuorumSize(validators, threshold) ==
    IF threshold > 0 THEN threshold
                     ELSE (2 * Cardinality(validators)) \div 3 + 1

\* The possible values of leaderID after ElectLeader.  The scores are what
\* this node has measured of its peers, so any validator may have the highest
\* one; when no score is positive the leader stays what it was.
ElectLeader(validators, leaderID) == validators \cup {leaderID}

\* CurrentLeader finds a validator only while leaderID is a key of the map.
HasCurrentLeader(validators, leaderID) == leaderID \in validators

=============================================================================
