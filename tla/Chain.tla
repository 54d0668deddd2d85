------------------------------- MODULE Chain --------------------------------
(***************************************************************************)
(* The chain of one node: the transaction pool (pkg/txpool), the block     *)
(* producer of the sequencer (pkg/sequencer), the Blockchain that checks   *)
(* blocks (pkg/chain) and the ledger below it (pkg/ledger).                *)
(*                                                                         *)
(* The hash of a block covers its transactions and its predecessor, so a    *)
(* block is the sequence of the transaction lists from the first block      *)
(* after the genesis block up to its own; the genesis block is <<>>.  Its   *)
(* index is the length, its predecessor the front.  Blocks are built by     *)
(* NewBlock, here and on other nodes, so index, hash and Merkle root fit.   *)
(* Blocks that differ only in their time are one: no check tells them apart.*)
(*                                                                         *)
(* The store holds the genesis block from the beginning: setup would create *)
(* it, but GetLatestBlock fails on an empty store and setup with it.        *)
(*                                                                         *)
(* The blocks are in the store, balances and nonces in memory only.        *)
(* AddBlock and HandleIncomingBlock hold the mutex of the Blockchain and    *)
(* are one step each; the producer reads the pool and the latest block     *)
(* without it, in steps before, and empties the pool after it, one         *)
(* transaction at a time.                                                  *)
(***************************************************************************)
EXTENDS Integers, Sequences, FiniteSets, SequencesExt

CONSTANTS
    Accounts,       \* addresses, the zero address not among them
    Validator,      \* ValidatorID of the genesis block, passed on to all blocks
    Alloc,          \* the balances of the genesis configuration, by account
    Transactions,   \* records with id, sender, recipient, amount, fee, nonce
    Limits,         \* values given to SetMaxSize
    BlockSize,      \* the 100 of ForgeBlock, and a bound for the blocks of others
    Word,           \* 2^64
    Writes,         \* outcomes of the store's writes
    MaxBlocks       \* bound: no block is begun when the store has more than these

ASSUME ValidatorAssumption == Validator \in Accounts
ASSUME WordAssumption == Word \in Nat /\ Word > 0 /\ Word % 2 = 0
ASSUME AllocAssumption ==
    /\ IsFiniteSet(DOMAIN Alloc) /\ DOMAIN Alloc \subseteq Accounts
    /\ Alloc \in [DOMAIN Alloc -> Nat]
ASSUME TransactionsAssumption ==
    /\ IsFiniteSet(Transactions)
    /\ \A t \in Transactions :
        /\ t.sender \in Accounts /\ t.recipient \in Accounts
        /\ t.amount \in 0 .. Word - 1 /\ t.fee \in 0 .. Word - 1 /\ t.nonce \in Nat
ASSUME BoundsAssumption ==
    BlockSize \in Nat \ {0} /\ MaxBlocks \in Nat /\ Limits \subseteq Nat /\ Limits # {}
ASSUME WritesAssumption == Writes \subseteq {"stored", "noVertex", "noEdge"}

VARIABLES
    pool,       \* TxPool.transactions, oldest first
    maxSize,    \* TxPool.maxSize
    sequencer,  \* the state of the Sequencer; "Stopping" once Stop has returned
    producer,   \* where ForgeBlock is and what it has read
    vertices,   \* the blocks in the store
    linked,     \* the blocks with an edge from their predecessor
    head,       \* Blockchain.head
    balances,   \* State.balances
    nonces,     \* State.nonces
    applied,    \* how often each transaction was applied to the state
    appliedIn   \* and by how many blocks

poolVars == <<pool, maxSize>>
stateVars == <<balances, nonces, applied, appliedIn>>
chainVars == <<vertices, linked, head>>
forgeVars == <<sequencer, producer>>
vars == <<poolVars, forgeVars, chainVars, stateVars>>

Idle == [at |-> "idle", txs |-> <<>>, latest |-> <<>>]

-----------------------------------------------------------------------------
(* The transaction pool *)

\* Mutant: the pool may hold one transaction too many.
FullLate(p) == Len(p) > maxSize

\* Is there no room for another transaction?
Full(p) == Len(p) >= maxSize

\* The check of the pool, unless it was given another.
ValidateTransactionDefault(t) == t.amount > 0

\* A full pool gives up its oldest transaction; if it has none, because the
\* limit is zero, the new one is refused.
AddTransaction(t) ==
    /\ ValidateTransactionDefault(t)
    /\ ~Contains(pool, t)
    /\ Full(pool) => pool # <<>>
    /\ pool' = Append(IF Full(pool) THEN Tail(pool) ELSE pool, t)
    /\ UNCHANGED <<maxSize, forgeVars, chainVars, stateVars>>

\* The cleanup drops everything that is older than the expiry.
CleanupExpired ==
    /\ \E n \in 1 .. Len(pool) : pool' = SubSeq(pool, n + 1, Len(pool))
    /\ UNCHANGED <<maxSize, forgeVars, chainVars, stateVars>>

SetMaxSize(max) ==
    /\ maxSize' = max
    /\ UNCHANGED <<pool, forgeVars, chainVars, stateVars>>

\* RemoveTransaction of the pool, where an ID is a key.
PoolWithout(tx) == RemoveFirst(pool, tx)

\* GetTransactions: the order of equal nonces is that of a Go map, any.
ByNonce(txs) == \A i, j \in DOMAIN txs : i < j => txs[i].nonce <= txs[j].nonce

Batches(ts) ==
    LET size == IF Cardinality(ts) < BlockSize THEN Cardinality(ts) ELSE BlockSize
    IN {SubSeq(txs, 1, size) : txs \in {s \in SetToSeqs(ts) : ByNonce(s)}}

\* What another node may put into a block: NewBlock takes any list but the empty
\* one, in any order and with repetitions, and no check of ValidateBlock is about
\* the list.
AnyBatch == UNION {[1 .. n -> Transactions] : n \in 1 .. BlockSize}

-----------------------------------------------------------------------------
(* Balances: unsigned words, to which signed amounts are added *)

Unsigned(n) == n % Word
Signed(n) == IF Unsigned(n) < Word \div 2 THEN Unsigned(n) ELSE Unsigned(n) - Word

\* Mutant: a balance is stored as it comes out.
UpdateUnclamped(bal, a, n) == [bal EXCEPT ![a] = Signed(Signed(@) + Signed(n))]

\* A balance never becomes negative, it becomes zero.
UpdateBalance(bal, a, n) ==
    LET new == Signed(Signed(bal[a]) + Signed(n))
    IN [bal EXCEPT ![a] = IF new < 0 THEN 0 ELSE new]

ApplyTransaction(bal, t) ==
    UpdateBalance(
        UpdateBalance(
            UpdateBalance(bal, t.sender, -(t.amount + t.fee)),
            t.recipient, t.amount),
        Validator, t.fee)

\* applyBlock
Apply(txs) ==
    /\ balances' = FoldLeft(ApplyTransaction, balances, txs)
    /\ nonces' = [a \in Accounts |->
            nonces[a] + Cardinality({i \in DOMAIN txs : txs[i].sender = a})]
    /\ applied' = [t \in Transactions |->
            applied[t] + Cardinality({i \in DOMAIN txs : txs[i] = t})]
    /\ appliedIn' = [t \in Transactions |->
            IF t \in ToSet(txs) THEN appliedIn[t] + 1 ELSE appliedIn[t]]

-----------------------------------------------------------------------------
(* The genesis block *)

\* Of balances and of nonces.
Zeros == [a \in Accounts |-> 0]

\* CreateGenesisBlock: one transaction for each allocation, with the low word of
\* the number in the configuration.
CreateGenesisBlock == [a \in DOMAIN Alloc |-> Unsigned(Alloc[a])]

\* The genesis block is stored, and its recipients are credited; nobody is debited
\* and no nonce is used.
Init ==
    /\ pool = <<>>
    /\ maxSize \in Limits
    /\ sequencer = "Uninitialized"
    /\ producer = Idle
    /\ vertices = {<<>>} /\ linked = {} /\ head = <<>>
    /\ balances = [a \in Accounts |->
            IF a \in DOMAIN Alloc THEN UpdateBalance(Zeros, a, CreateGenesisBlock[a])[a] ELSE 0]
    /\ nonces = Zeros
    /\ applied = [t \in Transactions |-> 0] /\ appliedIn = applied

-----------------------------------------------------------------------------
(* Validation *)

\* Mutant: the nonce of the last transaction is accepted again.
NonceNotPast(t) == t.nonce >= nonces[t.sender]

ExpectedNonce(t) == t.nonce = nonces[t.sender] + 1

\* Every transaction is checked against the state before the block.
ValidTransaction(t) ==
    /\ t.amount > 0
    /\ balances[t.sender] >= Unsigned(t.amount + t.fee)
    /\ ExpectedNonce(t)

ValidBlock(prev, txs) ==
    /\ prev \in vertices
    /\ \A i \in DOMAIN txs : ValidTransaction(txs[i])

-----------------------------------------------------------------------------
(* The ledger and the chain *)

\* Mutant: the head moves before the block is stored.
HeadFirst(prev, txs, result) ==
    LET block == Append(prev, txs)
    IN /\ Apply(txs)
       /\ vertices' = IF result = "noVertex" THEN vertices ELSE vertices \cup {block}
       /\ linked' = IF result = "stored" THEN linked \cup {block} ELSE linked
       /\ head' = block

\* Ledger.AddBlock applies the block, then stores it, then links it, and the
\* head follows if all of that went well.  A block that is already there is
\* not an error.
LedgerAddBlock(prev, txs, result) ==
    LET block == Append(prev, txs)
    IN /\ Apply(txs)
       /\ vertices' = IF result = "noVertex" THEN vertices ELSE vertices \cup {block}
       /\ linked' = IF result = "stored" THEN linked \cup {block} ELSE linked
       /\ head' = IF result = "stored" THEN block ELSE head

\* GetLatestBlock: any block without a successor.
LatestBlocks == {b \in vertices : \A c \in linked : Front(c) # b}

\* A block from another node has to extend the head.
HandleIncomingBlock(prev, txs) ==
    /\ prev = head
    /\ ValidBlock(prev, txs)
    /\ \E result \in Writes : LedgerAddBlock(prev, txs, result)
    /\ UNCHANGED <<poolVars, forgeVars>>

-----------------------------------------------------------------------------
(* The sequencer and, at every tick, ForgeBlock *)

\* Start sets the ticker and runs produce in a goroutine of its own.  It does not
\* look at the state: a second Start would run a second produce.  Nothing in the
\* repository but its tests starts a sequencer, and they do it once.
SequencerStart ==
    /\ sequencer = "Uninitialized"
    /\ sequencer' = "Started"
    /\ UNCHANGED <<poolVars, producer, chainVars, stateVars>>

\* Mutant: Stop does not leave it to produce to set the state.
StopAtOnce ==
    /\ sequencer = "Started"
    /\ sequencer' = "Stopped"
    /\ UNCHANGED <<poolVars, producer, chainVars, stateVars>>

\* Stop cancels the context and returns, whatever produce is doing.
SequencerStop ==
    /\ sequencer = "Started"
    /\ sequencer' = "Stopping"
    /\ UNCHANGED <<poolVars, producer, chainVars, stateVars>>

\* produce looks at the context between two blocks only, and even then may take
\* a tick that has come first.
Produces == producer.at = "idle" /\ sequencer \in {"Started", "Stopping"}

ProduceEnds ==
    /\ Produces /\ sequencer = "Stopping"
    /\ sequencer' = "Stopped"
    /\ UNCHANGED <<poolVars, producer, chainVars, stateVars>>

GetTransactions ==
    /\ Produces
    /\ pool # <<>>
    /\ \E txs \in Batches(ToSet(pool)) :
        producer' = [producer EXCEPT !.at = "latest", !.txs = txs]
    /\ UNCHANGED <<poolVars, sequencer, chainVars, stateVars>>

\* It lists vertices and edges in two reads of the store.  If a block is added
\* in between, it finds none without a successor, and the producer gives up.
GetLatestBlock ==
    /\ producer.at = "latest"
    /\ \/ \E b \in LatestBlocks :
            /\ Cardinality(vertices) <= MaxBlocks
            /\ producer' = [producer EXCEPT !.at = "add", !.latest = b]
       \/ producer' = Idle
    /\ UNCHANGED <<poolVars, sequencer, chainVars, stateVars>>

\* AddBlock takes any block the validation accepts, whatever the head is.
AddBlock ==
    /\ producer.at = "add"
    /\ \/ /\ ~ValidBlock(producer.latest, producer.txs)
          /\ producer' = Idle
          /\ UNCHANGED <<chainVars, stateVars>>
       \/ /\ ValidBlock(producer.latest, producer.txs)
          /\ \E result \in Writes :
                /\ LedgerAddBlock(producer.latest, producer.txs, result)
                /\ producer' = IF result = "stored"
                               THEN [producer EXCEPT !.at = "remove"] ELSE Idle
    /\ UNCHANGED <<poolVars, sequencer>>

\* ForgeBlock empties the pool of what the block holds.
RemoveTransaction ==
    /\ producer.at = "remove"
    /\ pool' = PoolWithout(Head(producer.txs))
    /\ producer' = IF Len(producer.txs) = 1 THEN Idle
                   ELSE [producer EXCEPT !.txs = Tail(@)]
    /\ UNCHANGED <<maxSize, sequencer, chainVars, stateVars>>

\* The process ends and starts again: NewLedger begins with an empty state,
\* and setup takes some latest block as the head and applies nothing.
Restart ==
    /\ head' \in LatestBlocks
    /\ pool' = <<>>
    /\ sequencer' = "Uninitialized" /\ producer' = Idle
    /\ balances' = Zeros
    /\ nonces' = Zeros
    /\ applied' = [t \in Transactions |-> 0] /\ appliedIn' = applied'
    /\ UNCHANGED <<maxSize, vertices, linked>>

Next ==
    \/ \E t \in Transactions : AddTransaction(t)
    \/ CleanupExpired
    \/ \E max \in Limits : SetMaxSize(max)
    \/ SequencerStart \/ SequencerStop \/ ProduceEnds
    \/ GetTransactions
    \/ GetLatestBlock
    \/ AddBlock
    \/ RemoveTransaction
    \/ \E prev \in vertices, txs \in AnyBatch :
        Cardinality(vertices) <= MaxBlocks /\ HandleIncomingBlock(prev, txs)
    \/ Restart

Spec == Init /\ [][Next]_vars

-----------------------------------------------------------------------------
(* Properties *)

\* Every variable keeps its type; balances and nonces fit into their words.
TypeOK ==
    /\ IsInjective(pool) /\ ToSet(pool) \subseteq Transactions
    /\ maxSize \in Limits
    /\ sequencer \in {"Uninitialized", "Started", "Stopping", "Stopped"}
    /\ producer.at \in {"idle", "latest", "add", "remove"}
    /\ ToSet(producer.txs) \subseteq Transactions
    /\ linked \subseteq vertices
    /\ balances \in [Accounts -> 0 .. Word - 1]
    /\ nonces \in [Accounts -> Nat]
    /\ applied \in [Transactions -> Nat] /\ appliedIn \in [Transactions -> Nat]

\* No transaction is applied by two blocks to the balances a process keeps: not
\* when a block is forged again after a failed write, not when the same
\* transaction comes in a block of another node or on another branch, and not
\* after a block that has it twice (validateTransaction).
AppliedInOneBlock == \A t \in Transactions : appliedIn[t] <= 1

\* What the chain has to find again after a restart is in the store: the head,
\* and with a block all its predecessors, in spite of failing writes and of
\* blocks added to an old one (setup, ValidateBlock).
HeadOnDisk ==
    /\ head \in vertices
    /\ \A b \in vertices : b # <<>> => Front(b) \in vertices

\* When the sequencer is reported as stopped no block is being forged any more
\* and the pool has been cleared of the last one, though Stop returns at once
\* and may come at any point of ForgeBlock (Stop, produce).
StoppedForgesNothing == sequencer \in {"Uninitialized", "Stopped"} => producer = Idle

\* The pool does not grow beyond its limit, and one above a lowered limit does
\* not grow at all (AddTransaction).
PoolWithinLimit == [][Len(pool') > maxSize => Len(pool') <= Len(pool)]_pool

\* chain/validation.go: "Prevent double-spending by checking the transaction
\* nonce."  No nonce of a sender is spent twice, neither by two transactions nor
\* by one that is applied twice.  (The transactions of one block are all compared
\* with the state before it.)
NoDoubleSpend ==
    /\ \A t \in Transactions : applied[t] <= 1
    /\ \A t, u \in Transactions :
        t # u /\ applied[t] > 0 /\ applied[u] > 0 /\ t.sender = u.sender => t.nonce # u.nonce
=============================================================================
