------------------------------- MODULE Ledger -------------------------------
(***************************************************************************)
(* The ledger (pkg/ledger) on its graph store (pkg/graphmdbx) on the        *)
(* key-value store (pkg/storage): how blocks reach the store, in which      *)
(* steps, and what the readers of the ledger find meanwhile.                *)
(*                                                                         *)
(* Adding a block writes two keys in two transactions, the vertex and the   *)
(* edge from the predecessor; either write may fail, and the process may    *)
(* end in between.  The Blockchain lets one block in at a time.  The readers *)
(* hold the read lock of the ledger, which nothing ever holds for writing,  *)
(* so they run beside it: they list the vertices in one transaction, the    *)
(* edges in the next one and look the blocks up after that.  Each read of   *)
(* one key is a transaction too and may fail for a reason of its own; the   *)
(* callers take that for a key that is not there, or for one that is.       *)
(***************************************************************************)
EXTENDS Naturals, FiniteSets

CONSTANTS
    Blocks,         \* blocks that may be added, each known by its hash
    Genesis,        \* the genesis block
    Parent,         \* [Blocks -> the predecessor]
    Index,          \* [all blocks -> Nat]
    Transactions,   \* [all blocks -> the IDs of its transactions]
    Writes,         \* outcomes of a write: subset of BOOLEAN
    Readers,        \* goroutines that read
    MaxFailed       \* bound: reads of one key that fail in one call

All == Blocks \cup {Genesis}

ASSUME LedgerAssumption ==
    /\ Genesis \notin Blocks /\ IsFiniteSet(Blocks)
    /\ Genesis \notin {"vertex", "edge"}     \* a hash is not a prefix
    /\ Parent \in [Blocks -> All]
    /\ Index \in [All -> Nat] /\ Index[Genesis] = 0
    /\ \A b \in Blocks : Index[b] = Index[Parent[b]] + 1
    /\ DOMAIN Transactions = All
    /\ Writes \subseteq BOOLEAN /\ Writes # {}
    /\ MaxFailed \in Nat

VARIABLES
    store,          \* the keys of the database
    applied,        \* blocks applied to the balances, in memory
    adding,         \* the block that is being added, and where
    added,          \* blocks whose AddBlock has returned nil
    unlinked,       \* of these, the ones it has returned for without an edge
    readers         \* [Readers -> the call, what it has read, its result]

vars == <<store, applied, adding, added, unlinked, readers>>

NotAdding == [at |-> "free"]
IdleReader == [at |-> "idle"]

\* The keys: a prefix and one hash or two.
VertexKey(b) == <<"vertex", b>>
EdgeKey(source, target) == <<"edge", source, target>>

\* The genesis block is there: AddBlock has stored it without an edge, and once
\* more under its bare hash.
Init ==
    /\ store = {VertexKey(Genesis), <<Genesis>>}
    /\ applied = {Genesis}
    /\ adding = NotAdding
    /\ added = {Genesis}
    /\ unlinked = {}
    /\ readers = [r \in Readers |-> IdleReader]

-----------------------------------------------------------------------------
(* The key-value store and the graph store *)

\* Db.Set: one transaction, all or nothing.
Set(key, ok) == store' = IF ok THEN store \cup {key} ELSE store

\* Db.Get: ok says whether the transaction could begin and read.
Get(key, ok) ==
    IF ~ok THEN "error" ELSE IF key \in store THEN "value" ELSE "ErrKeyNotFound"

\* What one read transaction sees.
ListKeysWithPrefix(prefix) == {key \in store : key[1] = prefix}

AddVertex(b, ok) == Set(VertexKey(b), ok)

\* The block, or none: every caller treats the two errors alike.
Vertex(b, ok) == IF Get(VertexKey(b), ok) = "value" THEN {b} ELSE {}

ListVertices == {key[2] : key \in ListKeysWithPrefix("vertex")}

StoreEdge(source, target, ok) == Set(EdgeKey(source, target), ok)

Edge(source, target, ok) == Get(EdgeKey(source, target), ok)

\* The keys say which edges there are; each is then read by itself, and left out
\* without a word if that fails.
ListEdges(skipped) ==
    {e \in {<<key[2], key[3]>> : key \in ListKeysWithPrefix("edge")} :
        Edge(e[1], e[2], e \notin skipped) = "value"}

\* Ledger.GetBlock, for the validation of a block and for everybody else.
GetBlock(b, ok) == Vertex(b, ok)

-----------------------------------------------------------------------------
(* Adding a block, under the mutex of the Blockchain *)

\* Validation finds the predecessor; the state comes first.
ApplyBlock(b) ==
    /\ adding = NotAdding
    /\ b \notin applied
    /\ \E ok \in BOOLEAN : GetBlock(Parent[b], ok) # {}
    /\ applied' = applied \cup {b}
    /\ adding' = [at |-> "vertex", block |-> b]
    /\ UNCHANGED <<store, added, unlinked, readers>>

\* Mutant: the error of AddVertex is not looked at.
AddVertexStepUnchecked ==
    /\ adding.at = "vertex"
    /\ \E ok \in Writes : AddVertex(adding.block, ok)
    /\ adding' = [adding EXCEPT !.at = "edge"]
    /\ UNCHANGED <<applied, added, unlinked, readers>>

AddVertexStep ==
    /\ adding.at = "vertex"
    /\ \E ok \in Writes :
        /\ AddVertex(adding.block, ok)
        /\ adding' = IF ok THEN [adding EXCEPT !.at = "edge"] ELSE NotAdding
    /\ UNCHANGED <<applied, added, unlinked, readers>>

\* Mutant: the error of AddEdge is not looked at.
AddEdgeUnchecked ==
    /\ adding.at = "edge"
    /\ \E ok \in Writes : StoreEdge(Parent[adding.block], adding.block, ok)
    /\ added' = added \cup {adding.block}
    /\ adding' = NotAdding
    /\ UNCHANGED <<applied, unlinked, readers>>

\* A block never closes a cycle: its hash covers that of its predecessor.  The
\* graph library first reads the edge, and takes every answer other than "not
\* found" for an edge that is already there; that is not an error for AddBlock.
\* Reads that fail before (the map for the cycle check, the two vertices) end
\* AddBlock as a failed write does.
AddEdge ==
    LET b == adding.block
    IN /\ adding.at = "edge"
       /\ \E read \in BOOLEAN :
            \/ /\ Edge(Parent[b], b, read) # "ErrKeyNotFound"
               /\ added' = added \cup {b}
               /\ unlinked' = unlinked \cup {c \in {b} : EdgeKey(Parent[b], b) \notin store}
               /\ UNCHANGED store
            \/ /\ Edge(Parent[b], b, read) = "ErrKeyNotFound"
               /\ \E ok \in Writes :
                    /\ StoreEdge(Parent[b], b, ok)
                    /\ added' = IF ok THEN added \cup {b} ELSE added
                    /\ unlinked' = IF ok THEN unlinked \ {b} ELSE unlinked
       /\ adding' = NotAdding
       /\ UNCHANGED <<applied, readers>>

\* The process ends and starts again, with the store and an empty state.
Restart ==
    /\ applied' = {Genesis}
    /\ adding' = NotAdding
    /\ readers' = [r \in Readers |-> IdleReader]
    /\ UNCHANGED <<store, added, unlinked>>

-----------------------------------------------------------------------------
(* Reading *)

Calls == {"GetLatestBlock", "ListBlocks", "GetBlockByIndex", "GetTransaction",
          "SeekTransactions", "TraverseSuccessors"}

\* The map of the graph library: an entry for every listed vertex, filled with
\* the edges.  An edge whose source has no entry ends the process (a write to a
\* nil map).
ListVerticesStep(r, call) ==
    /\ readers[r].at = "idle"
    /\ readers' = [readers EXCEPT ![r] =
            [at |-> "edges", call |-> call, listed |-> ListVertices,
             before |-> added, linked |-> added \ (unlinked \cup {Genesis})]]
    /\ UNCHANGED <<store, applied, adding, added, unlinked>>

\* skipped and unread: the edges, and later the blocks, that cannot be read.
ListEdgesStep(r) ==
    /\ readers[r].at = "edges"
    /\ \E skipped \in SUBSET ListEdges({}), unread \in SUBSET ListVertices :
        /\ Cardinality(skipped) + Cardinality(unread) <= MaxFailed
        /\ \A e \in ListEdges(skipped) : e[1] \in readers[r].listed
        /\ readers' = [readers EXCEPT ![r] =
                [at |-> "found", call |-> @.call, listed |-> @.listed, before |-> @.before,
                 linked |-> @.linked, edges |-> ListEdges(skipped),
                 skipped |-> skipped, unread |-> unread]]
    /\ UNCHANGED <<store, applied, adding, added, unlinked>>

\* A list cannot be read: no transaction could begin, or the context is done.
ListFails(r) ==
    /\ readers[r].at = "edges"
    /\ readers' = [readers EXCEPT ![r] = IdleReader]
    /\ UNCHANGED <<store, applied, adding, added, unlinked>>

\* The panic of ListEdgesStep.
Panic(r) ==
    /\ readers[r].at = "edges"
    /\ \E e \in ListEdges({}) : e[1] \notin readers[r].listed
    /\ Restart

\* What a call returns, from the two lists it has read and the lookups after.
Targets(found) == {e[2] : e \in found.edges}

Lookup(found, b) == Vertex(b, b \notin found.unread)

\* Mutant: the vertices that have no edge of their own are left out.
ListBlocksOfEdges(found) == UNION {Lookup(found, b) : b \in Targets(found)}

ListBlocks(found) == UNION {Lookup(found, b) : b \in found.listed \cup Targets(found)}

\* Any of these; an error if there is none, or if the lookup fails.
GetLatestBlock(found) ==
    UNION {Lookup(found, b) : b \in {v \in found.listed : \A e \in found.edges : e[1] # v}}

\* Only blocks with an edge from a predecessor are looked at.
GetBlockByIndex(found, index) ==
    {b \in UNION {Lookup(found, t) : t \in Targets(found)} : Index[b] = index}

IterateTransactions(found) == UNION {Transactions[b] : b \in ListBlocks(found)}

\* matching: the transactions for which the predicate holds.
SeekTransactions(found, matching) == IterateTransactions(found) \cap matching

GetTransaction(found, id) == {b \in ListBlocks(found) : id \in Transactions[b]}

\* Mutant: a block that cannot be looked up is skipped, and the search goes on.
TraverseOverGaps(found, b) ==
    LET step(s) == s \cup {e[2] : e \in {d \in found.edges : d[1] \in s \cup {b}}}
        reach[n \in 0 .. Cardinality(All)] == IF n = 0 THEN {} ELSE step(reach[n - 1])
    IN UNION {Lookup(found, c) : c \in reach[Cardinality(All)]}

\* A breadth-first search, by levels; the first lookup that fails ends it without
\* an error.  A block of that level that would have come later counts as unread.
TraverseSuccessors(found, b) ==
    LET step(s) == IF \E c \in s : Lookup(found, c) = {} THEN s
                   ELSE s \cup {e[2] : e \in {d \in found.edges : d[1] \in s \cup {b}}}
        reach[n \in 0 .. Cardinality(All)] == IF n = 0 THEN {} ELSE step(reach[n - 1])
    IN UNION {Lookup(found, c) : c \in reach[Cardinality(All)]}

\* The call returns.
Return(r) ==
    /\ readers[r].at = "found"
    /\ readers' = [readers EXCEPT ![r] = IdleReader]
    /\ UNCHANGED <<store, applied, adding, added, unlinked>>

Next ==
    \/ \E b \in Blocks : ApplyBlock(b)
    \/ AddVertexStep \/ AddEdge \/ Restart
    \/ \E r \in Readers :
        \/ \E call \in Calls : ListVerticesStep(r, call)
        \/ ListEdgesStep(r) \/ ListFails(r) \/ Panic(r) \/ Return(r)

Spec == Init /\ [][Next]_vars

-----------------------------------------------------------------------------
(* Properties *)

Found(call) == {readers[r] : r \in {q \in Readers : readers[q].at = "found" /\ readers[q].call = call}}

\* An edge joins a block in the store to its predecessor, and a block whose
\* AddBlock has returned nil has its vertex, and its edge unless AddBlock could
\* not read whether there is one, after any failures and restarts.
TypeOK ==
    /\ ListVertices \subseteq All
    /\ ListEdges({}) \subseteq {<<Parent[b], b>> : b \in Blocks \cap ListVertices}
    /\ applied \subseteq All
    /\ adding.at \in {"free", "vertex", "edge"}
    /\ added \subseteq ListVertices
    /\ unlinked \subseteq added
    /\ \A b \in added \ (unlinked \cup {Genesis}) : <<Parent[b], b>> \in ListEdges({})
    /\ \A r \in Readers : readers[r].at \in {"idle", "edges", "found"}

\* ListBlocks misses no block that was added before the call but those whose own
\* lookup fails, whatever becomes of the edges, and it has the predecessors of
\* every block it returns, but for those, though blocks are added between its
\* reads.
ListIsComplete ==
    \A found \in Found("ListBlocks") :
        /\ found.before \ found.unread \subseteq ListBlocks(found)
        /\ \A b \in ListBlocks(found) \ {Genesis} :
            Parent[b] \in ListBlocks(found) \cup found.unread

\* The blocks that had been added with their edge before the call, and whose edge
\* it could read.
Linked(found) == {b \in found.linked : <<Parent[b], b>> \notin found.skipped}

\* GetLatestBlock does not return a block that had a successor when the call
\* began, and so ForgeBlock does not build on one, unless the edge to every such
\* successor is missing or cannot be read.
LatestNotStale ==
    \A found \in Found("GetLatestBlock") : \A b \in Linked(found) :
        Parent[b] \notin GetLatestBlock(found)

\* A block that was added before the call is found by its index if its edge and
\* the block itself can be read, and its transactions by their IDs if the block
\* can be read, whichever other reads fail.
AddedIsFound ==
    /\ \A found \in Found("GetBlockByIndex") : \A b \in Linked(found) \ found.unread :
        b \in GetBlockByIndex(found, Index[b])
    /\ \A found \in Found("GetTransaction") : \A b \in found.before \ found.unread :
        \A id \in Transactions[b] : b \in GetTransaction(found, id)
    /\ \A found \in Found("SeekTransactions") : \A b \in found.before \ found.unread :
        Transactions[b] \subseteq SeekTransactions(found, Transactions[b])

Ancestors(b) ==
    LET up[n \in 0 .. Index[b]] == IF n = 0 THEN {b} ELSE
            up[n - 1] \cup {Parent[c] : c \in up[n - 1] \ {Genesis}}
    IN up[Index[b]] \ {b}

\* TraverseSuccessors finds nothing but successors, and leaves no gap where a
\* failed read has cut it short: with a block it returns all blocks in between.
\* If no lookup fails it finds every successor on a way of blocks that had been
\* added with their edges, and whose edges it could read.
SuccessorsFound ==
    \A found \in Found("TraverseSuccessors") : \A b \in found.listed :
        /\ \A c \in TraverseSuccessors(found, b) :
            /\ b \in Ancestors(c)
            /\ Parent[c] \in TraverseSuccessors(found, b) \cup {b}
        /\ found.unread = {} => \A c \in Linked(found) :
            b \in Ancestors(c) /\ Ancestors(c) \subseteq Linked(found) \cup Ancestors(b) \cup {b}
                => c \in TraverseSuccessors(found, b)
=============================================================================
