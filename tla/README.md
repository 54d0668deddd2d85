# A TLA+ model of peerdns

peerdns is a Go node for a peer-to-peer name system. Its core is a leader-based
quorum consensus ("SHPoNU", described in `CONSENSUS.md`); around it are a ledger
with a transaction pool and a block producer, MDBX storage, libp2p networking
and lifecycle management. This directory models that core in TLA+, checks it
with TLC on small instances and proves its safety with TLAPS for all instances.

## 1. Inventory

| Component | State | Operations | Interacts with | Hard behaviour | What makes it correct |
|---|---|---|---|---|---|
| `pkg/validator/consensus.go` | `currentLeader`, `processedMsgs`, `messageChan`, a `State` | election tick, proposing goroutine, listener, processor and its three handlers, Start, Shutdown | pubsub topic, `State`, `ValidatorSet`, metrics | five goroutines, late, lost, repeated and reordered packets, several nodes that all believe to be leader, restart | a final block has a quorum of published approvals and was proposed; a leader finalizes; followers learn of it |
| `pkg/consensus/state.go` | maps `proposals`, `approvals`, `finalized`, one store key per block | Add, Has, Finalize | MDBX store | a write after the lock is released, and one that fails after the map changed | map and store agree on what is final |
| `pkg/consensus/validator_set.go` | members, leader, threshold | Add, Remove, ElectLeader, QuorumSize | metrics collector | a set that changes while approvals are counted | quorum size, leader is a member |
| `pkg/consensus/protocol.go`, `message_pool.go` | `State`, pool, two mutexes, frozen quorum | ProposeBlock, ApproveProposal, FinalizeBlock, three handlers, Start, Shutdown | pubsub, `BlockFinalizer` | one goroutine per packet, two mutexes, check-then-act in FinalizeBlock | as above; handlers return; pool drains; finalizer gets the block |
| `pkg/{validator,node,runtime,sequencer}/state.go` | component states, wait channels | SetState, WaitForState | lifecycle | lost wake-up, replaced channel, timeout | a waiter returns nil only in the state it waited for |
| `pkg/txpool`, `pkg/sequencer` | pending transactions, the goroutine and the state it reports | Add, evict, expire, forge, Start, Stop | chain | eviction at the limit, forging against a changing pool, Stop during a forge | bound respected, nothing applied by two blocks, a stopped sequencer forges nothing |
| `pkg/chain` | head, balances, nonces | ValidateBlock, AddBlock, applyBlock | ledger | validation against the balances before the block, repeated blocks and transactions, application before storage | no overspending, no repeated application, head in the store |
| `pkg/ledger`, `pkg/graphmdbx`, `pkg/storage` | keys of an MDBX database: vertices and edges of the DAG of blocks | AddBlock, GetLatestBlock, GetBlockByIndex, GetTransaction, ListBlocks, TraverseSuccessors, iteration | chain, graph library | a query of several read transactions beside AddBlock, a crash between vertex and edge, a read that fails and is passed over | a block that had been added is in what a query returns, unless it is about a key that could not be read |
| `pkg/types`, `pkg/packets`, `pkg/topology/message.go` | none | encodings, Merkle root | everything | lengths and widths, a message of which only the beginning arrives | decode inverts encode, no read behind the data, the root commits to the IDs |
| `pkg/accounts` | two maps and a directory of files | Load, Create, Save, Delete, lookups | keygen, node | two processes, a crash during a write, a failing removal | maps agree, nothing stored is lost, nothing deleted returns |
| `pkg/networking`, `pkg/metrics` | connections, peers, workers, scores | Start, Shutdown, connect, discover, ping, answer | libp2p, node | pings without deadline between nodes that shut down, late Start | Shutdown returns, no ping on a closed host |
| `cmd/runtime.go`, `pkg/node`, `pkg/runtime`, `pkg/resources`, `pkg/shutdown`, `services` | handlers, resources, callbacks, the goroutines' positions | construction, Start, Shutdown | all | random order of construction, failure half-way, interrupt at any moment | what was started is stopped, the stores close last, the process exits |
| `pkg/sharding`, `pkg/topology`, `pkg/state`, `pkg/routing` | tables under a mutex | update, assign | nothing that runs | -- | -- |
| signatures, certs, eBPF, DNS, config, observability | files, keys, stubs | -- | -- | cryptography and I/O | -- |

`PROJECT.json` lists the components with their status and, under `hazards`, the
places in this code that are hard to test, each with its line.

## 2. Modules

* `ConsensusState` - the data of one `consensus.State` and the questions asked of
  the `ValidatorSet`, as operators without variables. An operation takes the
  outcome `ok` of its store write, because the Go code changes its map first and
  returns an error when the write fails.
* `QuorumFinality` - the abstract specification: blocks are proposed, validators
  vote for proposed blocks, a node may take a block as final once some quorum
  has voted for it, and a restarting node forgets. `Forget` is what the code does; that
  `CONSENSUS.md` promises recovery from the store is a finding (see `vc_faults`).
* `ValidatorConsensus` - `pkg/validator/consensus.go` on every node. `net` is the
  set of all published packets; a listener may take any of them at any time or
  never, which covers loss, delay, reordering and repetition. Actions:
  `ElectLeaderTick`, `ProposeBlock` (publish) and `RecordProposal` (the rest of
  ProposeBlock, since the node's own processor runs in between),
  `ListenToNetwork`, `HandleProposal`, `HandleApproval`, `HandleFinalization`,
  `Shutdown` (or crash) and `Start`. A handler is one action: it is the only
  goroutine that touches `approvals` and `finalized` and it reads
  `currentLeader` once, so steps of others can be moved out of it. Publishing
  and writing inside a handler have separate outcomes; a crash in the middle of
  a handler is a failed outcome followed by `Shutdown`. The unlocked read of
  `currentLeader` yields the old or the new leader, or the process dies, which
  is `Shutdown` again.
* `Protocol` - `pkg/consensus/protocol.go` with one task per goroutine. Every
  critical section and every store write is a step. A broadcast is part of the
  step before it: inboxes are unordered, so an earlier broadcast covers a later
  one. The two quorum checks and the `IsFinalized` check are one step because
  approvals are never withdrawn. The library is used in the repository only by
  its tests, over `MockP2PNetwork`; the model runs it on several hosts, over any
  implementation of `P2PNetworkInterface`. Applications approve and finalize
  blocks their host has a proposal for, as the tests do.
* `StateManager` - `SetState` and `WaitForState`, of which `pkg/node`, `pkg/validator`
  and `pkg/runtime` have a copy each. A step is one critical section. Since no
  operation relates two components, one map stands for all managers.
* `Lifecycle` - extends `StateManager` with what uses it. `Construct` is main up to
  the start of the services: storage, identity, the handlers in any order, the
  chain's one building validator and node and registering them, the consensus's
  one looking them up; each step may fail. Then follow the goroutines of
  `cmd/runtime.go`, `BaseService.Start`, the chain and consensus services, `Node`,
  `Validator` and `Consensus` Start and Shutdown, and the shutdown manager, which
  runs from the beginning. A service starts the node, the node the validator, the
  validator the consensus module; each step is a call of `SetState`, a critical
  section or a call that can fail or block. Nothing runs after main has returned.
  With both services requested the module is started twice, one after the other;
  `ValidatorConsensus` models a module that is started once.
* `Chain` - transaction pool, block producer, `Blockchain` and ledger of one node,
  beside other nodes whose blocks come in through `HandleIncomingBlock`. A block
  is the sequence of transaction lists up to it, which is what its hash stands
  for. `AddBlock` and `HandleIncomingBlock` run under the mutex and are one
  step each, with the store's vertex and edge as writes that may fail; the steps of
  `ForgeBlock` before and after them are separate. Balances are words of 64
  bits (`Word`) with the code's conversions to signed and back. `Restart` keeps
  the stored blocks and, like the code, nothing of balances and nonces. A block of
  another node is any list `NewBlock` accepts (`AnyBatch`), repetitions included. Reads
  of the store do not fail here; `Ledger` has them. The genesis block is there from the
  beginning: `setup` cannot create it, since `GetLatestBlock` fails on an empty ledger.
  Its allocations, to distinct addresses, are only credited, as `AddBlock` does with the
  genesis block. `SequencerStart` is taken once: `Start` does not refuse a second call, and
  its only callers, the tests, make none.
  `sequencer` is the goroutine of the Sequencer: `SequencerStop` only cancels its
  context, which it notices between two calls of `ForgeBlock`.
* `Ledger` - the ledger on the graph store on the key-value store. `store` is the
  set of keys. Adding a block is `ApplyBlock`, `AddVertexStep` and `AddEdge`, whose
  writes may fail; the process may restart anywhere. A reader takes
  `ListVerticesStep` and `ListEdgesStep`, which are two read transactions of the graph
  library's AdjacencyMap, and then the step of its query. The read lock that the
  queries hold is no obstacle to `AddBlock`, which never takes it. Reading one key (`Get`)
  finds it, does not find it, or fails: `ListEdges` and the lookups then skip the edge or
  the block, the traversal ends, and `AddBlock` takes the edge for one that is there, all
  with a nil error. `skipped` and `unread` are the edges and blocks a call cannot read.
  `unlinked` are the blocks whose AddBlock has returned nil without an edge.
* `Encoding` - the encodings as pure operators. A type is described by its format,
  the sequence of its fields with the way each is read (slice, checked, or a short
  Read); `Encode` and `Decode` interpret formats, and blocks and transactions, which
  compute a buffer size beforehand, have their sizes and minimum sizes. Numbers are
  written and read in little-endian bytes, so a length, and the 32-bit size of a
  transaction, wraps around if it does not fit (`Uint`, `Fits`). The machine sends one
  message, whole or cut. In the run bytes have four values, so lengths wrap early.
  `HashPair` is injective, so another pair has another hash; an ID may be such a hash, since
  the code marks neither and never computes an ID again.
* `Accounts` - the account store of several processes on one directory. `WriteFile`
  is a truncation and a write, so that a crash leaves a file that cannot be read
  or one that lacks its last signers.
* `Network` - networking, performance monitor and the part of `Node` that starts and
  stops them, on several nodes. Connections can be lost at any time, Shutdown may
  begin while Start runs (`late`), and a ping goes through opening a stream, asking,
  the other node's answer, and two updates of the metrics. `Lifecycle` treats the
  same Shutdown as one goroutine among those of its process; here it meets
  the Shutdown of other nodes.
* `MCValidatorConsensus`, `MCProtocol`, `MCLifecycle`, `MCChain`, `MCLedger`,
  `MCEncoding`, `MCAccounts`, `MCNetwork` - values of the constants for TLC.
* `ValidatorConsensusProofs`, `ProtocolProofs`, `LifecycleProofs`, `ChainProofs`,
  `LedgerProofs`, `EncodingProofs`, `AccountsProofs`, `NetworkProofs` - the TLAPS proofs
  about these modules.

An operator whose comment starts with "Mutant" is a deliberately wrong version of the
definition after it. No specification uses it; it serves to show that a property notices
the mistake.

Not modelled inside these modules: logging and exported metrics, the mathematics of signatures (a signature verifies when the signer is in the
receiver's `ValidatorSet`, and all nodes run this code), utility scores (any
contender may win an election) and real time (tickers may fire at any moment).

## 3. Runs

| Run | Instance | Result |
|---|---|---|
| `vc_quorum` | 3 nodes, threshold 2, channel capacity 1, one leader candidate, fair | `TypeOK`, `FinalizedHasQuorum`, `FinalizedWasProposed`, `LeaderFinalizes` and the refinement of `QuorumFinality` hold |
| `vc_faults` | 2 nodes, default quorum (both), one leader candidate, every write and publication may fail, each node restarts once | the inductive invariant `IInv` and the refinement hold; the latter needs `Forget`, which `CONSENSUS.md` rules out |
| `vc_followers` | 2 nodes, both contend for the leadership, fair | **violated**: `FollowersFinalize`. `listenToNetwork` ignores the packet type when it drops duplicates, so a follower that has seen the leader's approval drops its finalization |
| `p_safety` | 2 hosts, two goroutines on the follower and one on the leader, failing writes and broadcasts, repeated packets, a validator that leaves and joins | `TypeOK`, `PoolDrains` and the refinement hold |
| `p_live` | the same hosts, no failures, fair | `HandlersReturn`, `AllFinalize` hold |
| `lc` | three services built in any order, the chain and the consensus service requested, every wait may time out, construction, network and storage may fail, an interrupt at any moment, fair | `TypeOK`, `ChainStartedMeansRunning`, `OneStarterAtATime`, `StartedServicesStop`, `StorageClosesLast`, `InterruptExits` hold |
| `ch` | three transactions of one sender, two with the same nonce, one whose amount and fee add up to zero in the word; blocks of up to two transactions, equal ones too, up to three blocks beside the genesis block, pool limits 0 and 2, a sequencer that is started and stopped, failing writes, restarts | `TypeOK`, `AppliedInOneBlock`, `HeadOnDisk`, `StoppedForgesNothing`, `PoolWithinLimit` hold |
| `ch_double_spend` | two payments of more than half the balance with the same nonce | **violated**: `NoDoubleSpend`. Each transaction of a block is checked against the state before the block, so two of the same nonce, or the same one twice, pass together and are applied |
| `led` | two blocks in a row and a fork, one reader of any query, failing writes, up to two failing reads of a key in a query, restarts | `TypeOK`, `ListIsComplete`, `LatestNotStale`, `AddedIsFound`, `SuccessorsFound` hold |
| `enc` | some hundred messages of six kinds with empty, full and overlong fields, cut at every byte | `RoundTrip`, `NoPanic`, `CutIsNoticed`, `SignedBytesSurvive`, `MerkleCommits` hold |
| `acc` | two processes, two names, three accounts, crashes and failures in every write and removal | `TypeOK`, `FoundByAddress`, `OpenFindsAll`, `DeletedStaysDeleted` hold |
| `net` | two nodes with one worker each, lost connections, failing calls, Start and Shutdown at any moment, fair | `TypeOK`, `NoPingOnClosedHost`, `ShutdownReturns` hold |

What the properties of the passing runs do not say is part of the result. The properties
of `led` name what a failed read takes away: `ListIsComplete` the blocks whose own lookup
fails, `LatestNotStale` successors whose edge is missing (`unlinked`) or could not be read,
`AddedIsFound` and `SuccessorsFound` both; that nothing else is lost is what they state.
The refinement in `vc_faults` admits that a restart forgets what was final; what was
documented is `QuorumFinality!LastingSpec`, which `Protocol`, in its runs without restarts,
implements and `vc_faults` does not, at the first `Start` after a finalization.
`AppliedInOneBlock` counts blocks: a repetition inside one block is in `ch_double_spend`. `MerkleCommits` compares
lists of one length. Lists of different lengths can share a root (a, b, x and x, x, if x is
claimed to be the hash of a and b), and so can transactions with the same claimed ID: the
code computes neither the ID again nor marks inner nodes, and no text promises more of the
root. `NoPanic` is about reading behind the data and not about the memory a decoder asks
for when it makes a list of the length it has just read.
`CutIsNoticed` excepts the last field of consensus, network and topology
messages, whose missing bytes are zeros for the receiver; the signature then fails.
`RoundTrip` excepts topology messages with lengths above one byte. `FoundByAddress`
is about one direction: the map of addresses keeps deleted accounts. A query of the ledger
may end in a panic when an edge appears between its two transactions; what
holds is about the answers. `NoPingOnClosedHost` excepts a monitor that Start
starts after Shutdown has stopped it.

Found while modelling, without a run of their own: an approval that is handled
after the finalization overwrites the stored record (`consensus/state.go:123`); the
approvals map is logged after its lock is released (`consensus/state.go:119`);
`WaitForState` can miss a state that is reached between its check and the
registration of its channel and then times out (`node/state.go:217`); a deleted account
is still found by its address, though the comment speaks of removing it from
memory (`accounts/store.go:380`); a read that fails is not reported by the ledger, so
`AddBlock` may return without an error and without "linking it to its predecessor"
(`ledger/block.go:14` and 63), `ListBlocks` may not list "all blocks" (`ledger/traversal.go:13`
and 28), `GetLatestBlock` may return a block with "No successors" found but some in the store
(`ledger/block.go:124`, `graphmdbx/store.go:261`) and `TraverseSuccessors` may not traverse "all
successors" (`ledger/traversal.go:54` and 73); `Transaction.Size` leaves out the four bytes of the
signature type (`types/transaction.go:220`).

Bounds. One block is enough for the consensus runs: no handler relates two
blocks, every map and key is per block, and only the channel is shared, which a
capacity of one makes as scarce as it can be. Two nodes already give a leader, a
follower, two competing leaders and packets to oneself; three with a threshold
of two give a quorum that does not need everybody and an approval that comes
too late. `MaxProposers` only stops counting: whether a node proposes depends on
having any proposing goroutine. `MaxStarts` allows one restart of each node,
`MaxCalls` two calls of the leader's application. The proofs have no bounds.
`Lifecycle` needs no bounds: each goroutine runs through its code once. The
services other than chain and consensus start nothing, so one of them stands for all;
one signal is enough because the manager and main take only the first.
`Chain`: a word of 16 lets sums wrap around as 2^64 does; no block is begun when the store has
more than `MaxBlocks` (two) of them, the genesis block included, which leaves room for forks,
stale predecessors, repeated transactions on a second branch and the same block again; a limit of two
below three transactions makes the pool evict, and zero leaves it nothing to
evict. Since a transaction with a gap in its nonces is never valid, longer
chains need longer series of transactions and repeat the same cases.
`Ledger`: a query reads only; a second reader changes nothing the first one sees, so
one suffices. `MaxFailed` of two lets an edge and a block, or two of them, be unreadable in one
call; a third would be on a branch of its own. `Encoding`: what decides is whether a length is zero, fits, is the greatest
or wraps around, and for the Merkle tree whether a level is odd; the samples have each.
`Accounts`: three accounts allow one that is lost, one that is kept and a name used twice.
`Network`: two nodes wait for each other; a ping concerns two nodes only, and one worker
makes the channel full soonest.

Deadlock checking is on for `ValidatorConsensus`, whose election ticker never
stops. It is off where the system may stop: `Protocol`, when the applications make no
further call and the inboxes are empty; `Lifecycle`, where the services just run
without a signal and nothing runs after the exit; `Chain` and `Accounts`, which may
have no transactions or accounts left; `Ledger`, `Encoding` and `Network` at their end.

Fairness. `ValidatorConsensus`: each published packet reaches each running node
(gossip), the processor and a started ProposeBlock go on; nothing is assumed of
tickers or restarts. `LeaderFinalizes` is about a leader whose followers agree
on it from the proposal on, because each node elects by its own measurements.
`Protocol`: each goroutine that can run does, and the Start loop takes packets.
Weak fairness suffices, as the bounded calls produce finitely many packets.
`Lifecycle`: as long as some goroutine can go on, one does. No goroutine of the model
runs for ever, so fairness to each of them would add nothing; timers run out, and the
goroutines of the consensus module notice a cancelled context (each of their
blocking operations selects on it). Signals need not arrive.
`Network`: the goroutines of Shutdown, of the monitor and of the pings go on, where the
step of a ping includes the answer of the peer's handler, or the end of the stream;
a worker whose context is cancelled leaves its loop (strong fairness: the select chooses
among ready cases at random, and the channel may be ready every time).

## 4. Proofs

Every safety property that a passing run checks is a theorem for all values of the
constants. Each proof module has an inductive invariant of its component, which TLC has
checked on the instance of the component's run, and proves that every action preserves
it; the properties then follow from the invariant, or for action properties from the
invariant and the step. `EncodingProofs` is about pure operators more than about a
machine, and most of it is induction over bytes, fields and levels.

The assumptions are those stated with the constants. They say what the code gives:
constants have their types and finite sets where the program has finitely many things,
a node is in its own validator set and a host has its own key, a hash is not one of the
key prefixes of the graph store, the index of a block is one more than that of its
predecessor, the requested services have other names than the goroutines and
components beside them, sizes are not zero, and a message that is sent has the fields
of its Go type. None of them bounds an instance.

**`ValidatorConsensusProofs`**: `TypeCorrect` (channel capacity included), `Invariant`,
`QuorumSafety`, `OnlyProposedBlocks`, `Refinement`. `FinalizedHasQuorum` alone is not
inductive: a node also finalizes on the word of a finalization packet, so packets need a
quorum too (`FinalizationHasQuorum`); a leader counts its own map, so what is in the map
must have been published by a member (`ApprovalsPublished`); what it adds comes from the
channel, so the channel must hold published packets with valid signatures
(`ChannelFromNet`). `ApprovedWasProposed` links votes to proposals. The argument goes
through one lemma, `StepEffect`: whatever a step does, its effect on packets, approvals
and finalized blocks is one of seven (nothing, a proposal, an approval, counting an
approval, finalizing, learning a finalization, forgetting). Each part of the invariant,
and the refinement, is then proved per effect and not per action. No cardinality theory
is needed: the approvals a leader has counted are the quorum.

**`ProtocolProofs`**: `ProtocolInvariant`, `TypeCorrect`, `PoolIsDrained`, `Refinement`,
`NoCircularWait`, `HandlersExclude`, `QuorumSafety`, `OnlyProposedBlocks`, `QuorumsOverlap`,
`FinalBlocksOverlap`. The
library has no check of a finalization, so the invariant says of every packet on its way
and of every goroutine at work on one that what it reports has happened (`Justified`): a
proposal for an approval, a quorum for a finalization. A goroutine that has passed the
quorum check carries that fact through its writes (`TaskInv`), since approvals are never
withdrawn. Only the packet of an application that calls FinalizeBlock needs no
justification, because it may never be sent. As above, each step has one of four effects
on the states, and the refinement is proved per effect. `PoolDrains` needs that a packet is
filed under its own block (`PoolInv`): a goroutine then removes only what has its block,
and the packet of another block keeps its own goroutine. A second invariant, `LocksInv`,
says that exactly the goroutines between the Lock and the deferred Unlock of their handler
hold its mutex; it is the reason why `HandlersReturn` needs no more than that each
goroutine goes on, since whoever holds a mutex waits for none (`NoCircularWait`). A third,
`VotesInv`, has a quorum behind every final block and a proposal behind every approval.
How much two quorums have in common is counting: a default quorum is more than two
thirds, so two of them share more than a third (`QuorumsOverlap`), and with a fixed set of
validators so do any two final blocks. With a configured threshold, or validators
that are replaced, the code gives no such guarantee, and none is stated.

**`LifecycleProofs`**: `LifecycleInvariant`, `TypeCorrect`, `ChainReportsTheNode`,
`StartersTakeTurns`, `StartedServicesAreStopped`, `StorageIsClosedLast`. The invariant has
nine parts besides those of the state managers. `SpawnInv` orders the goroutines: the chain
service goes on only with a node that has started, the consensus service only after the
chain service. This rests on the wait of the consensus service ending without an error
only if the chain service has reported Started (`AwaitInv`, `StartedInv`). `CallbacksInv`
says that a service has registered exactly one callback before it starts
anything, and `StoppingInv` that a service that had started is either stopped or its
callback has not run. `RunningInv` counts the starts of the module and `DrainInv` says that
nobody starts it after the shutdown has waited for it. The proof showed
that `NextCallback` of the model, then a CASE, left its value open where two guards overlap,
the second of them reading behind the end of the list; it is now written as the code's loop.

**`ChainProofs`**: `ChainInvariant`, `TypeCorrect`, `TransactionsInOneBlock`, `HeadIsOnDisk`,
`StoppedIsIdle`, `PoolIsLimited`. A transaction that a block has applied has a nonce its sender has
passed (`NonceInv`), so no later block with it is valid, whatever list it is; that a block may
hold it twice does not matter, since the check of the block precedes all of it.
`StoreInv` has the head and with each block its predecessor.
That a block applies its transactions one after the other is a fold, about which the proof
argues by induction on its length.

**`LedgerProofs`**: `LedgerInvariant`, `TypeCorrect`, `ListComplete`, `LatestIsNotStale`,
`AddedFound`, `SuccessorsAreFound`. The invariant says which keys the database can hold
(`KeysInv`, `ChainInv`), how far the goroutine is that adds a block (`AddingInv`), that an added
block has both keys, or is `unlinked` and has one (`AddedInv`), and what a reader can hold between its transactions: its
vertices are closed under the predecessor and have all blocks added before the call, its
edges start at one of them and miss only those it could not read (`ListedInv`, `EdgesInv`). For the traversal, `Line(b)` is shown to be
the least set with `b` and all predecessors; the traversal only follows edges, which stay
in such lines, and reaches a block after as many steps as it is above the start, which is
less than the number of blocks (`EnoughSteps`).

**`EncodingProofs`**: `NeverPanics`, `RoundTrips`, `CutsAreNoticed`, `SignedBytesAlwaysSurvive`,
`MerkleAlwaysCommits`, from `DecodersNeverPanic`, `MessageRoundTrip`, `CutMessageNoticed`
and `RootTellsListsApart`, which do not mention the machine. The invariant of the machine,
`OnTheWay`, only says that the wire holds the encoding or a proper beginning of it.
The argument goes from bytes to fields, from fields to formats and from formats to the
six kinds:

* Numbers: the digits of `Number` are read back by `ValueOf`, by induction on their number,
  with one multiplication by `Byte` at a time. A number that fits into its bytes comes back.
* Fields: for each of the seven types, reading the encoding of a value followed by any
  bytes gives the value and leaves these bytes; reading a proper part of it fails, or
  gives a value only where the field is read short; reading anything at all panics only
  if the field is a slice and there are too few bytes.
* Formats: by induction on the fields. For panics a function `need` gives the bytes that the
  slices at the beginning of a format take; `TransactionMinSize` and `BlockMinSize` are at
  least that, and no format has a slice behind a field of variable length. That the buffer
  has the right size is a sum over the fields (`TransactionWritten`, `BlockWritten`).
* The Merkle root: trees over lists of one length have levels of the same lengths
  (`SameShape`), a level of known length is told apart by the level above (`LevelBelow`), and
  so, from the root down, by the root. Nothing is assumed of the hashes at the bottom.

`MessageRoundTrip` needs `Fits`: each length can be written in its bytes and, because
`Transaction.Serialize` adds up its size in 32 bits (`types/transaction.go:74`), so can the size
of a transaction. Beyond that `Serialize` writes behind its buffer and panics itself; the
model says nothing of such messages but that decoders do not panic. A decoder may still ask for
up to 4 GB of memory on the word of a length, which the model does not limit.

**`AccountsProofs`**: `AccountsInvariant`, `TypeCorrect`, `AddressFound`, `OpeningFindsAll`,
`DeletionIsFinal`. The two maps agree on accounts with an address (`MapsInv`), no two processes
save the same account (`SavingInv`), and the files are what the history of stored and
deleted accounts says (`FilesInv`); a process that opens loads these files or fails.

**`NetworkProofs`**: `NetworkInvariant`, `TypeCorrect`, `PingsNeedAHost`. `ShutdownInv` orders what
Shutdown does: the context is cancelled first, once the monitor was waited for no worker of
it runs unless Start came late, and only then is the host closed.

Induction. The library's induction theorems take an operator as a parameter, which the
installed provers cannot instantiate. Induction is therefore proved for a set of numbers,
from the well-foundedness of the naturals (`NatMin`, `SetInduction`, `Upwards`), and from it
that minima and maxima exist and that a recursive function on the first numbers exists and
has the values its definition says (`Recursion`, `RecursionStays`, `Growing`). What Chain,
Ledger, Accounts and Encoding compute by folds, recursive functions and Max is proved with
these lemmas, of which each proof module states those it needs.

Only model-checked: the liveness properties `LeaderFinalizes`, `HandlersReturn`, `AllFinalize`,
`InterruptExits` and `ShutdownReturns`, because the proof system does not handle fairness.

The properties of the violated runs are of course not proved.

## 5. Plan

1. `Lifecycle` and `Network`: more of what their liveness rests on as safety properties, as
   `NoCircularWait` is for `Protocol`: until the process exits, nobody waits for a goroutine
   that waits for it.
2. A quorum overlap for `ValidatorConsensus`, whose nodes have validator sets of their own: it
   needs an assumption about how far these may differ, which the code does not enforce.

## 6. Not modelled

* Cryptography, `pkg/privacy` included: signatures verify when their signer is known, hashes are
  injective.
* libp2p: transports, DHT and gossip are what `net`, `links` and `Connect` say; MDBX
  transactions are atomic.
* The graph library: AdjacencyMap as its two listings, BFS as reachability, and not the
  topological sort behind `ValidateChain`.
* Code nothing calls: `BatchWriter`, the removal operations of the graph store, the ledger's own
  `ValidateBlock`, waiters of the sequencer's state manager.
* `pkg/sharding` and `pkg/topology` (beyond its message): tables under one mutex that no running part reads. `pkg/state`, `pkg/routing` and `pkg/ebpf` do not compile
  at this commit, so there is no program to be faithful to.
* Configuration, logging, observability, certificates, DNS resolvers: parsing and I/O.
* Two consensus listeners in one process, which result from starting both services:
  `processedMsgs` is then written without a lock, and the Go runtime ends the process.
