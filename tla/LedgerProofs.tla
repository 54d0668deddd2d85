----------------------------- MODULE LedgerProofs -----------------------------
(***************************************************************************)
(* Proofs about Ledger, for any tree of blocks and any number of readers,   *)
(* whichever reads and writes fail and whenever the process ends.           *)
(***************************************************************************)
EXTENDS Ledger, Integers, FiniteSetTheorems, WellFoundedInduction, TLAPS

-----------------------------------------------------------------------------
(* Induction for a set of numbers, and recursion on the first numbers *)

\* A non-empty set of natural numbers has a least element.
LEMMA NatMin ==
    ASSUME NEW S, S \subseteq Nat, S # {}
    PROVE  \E m \in S : \A n \in S : m <= n
    <1> DEFINE R == OpToRel(<, Nat)
    <1>1. \A m, n \in Nat : n < m => <<n, m>> \in R
        BY DEF OpToRel
    <1>2. IsWellFoundedOn(R, Nat)
        BY NatLessThanWellFounded
    <1> HIDE DEF R
    <1>3. PICK m \in S : \A n \in S : <<n, m>> \notin R
        BY <1>2, WFMin
    <1>4. \A n \in S : ~(n < m)
        BY <1>1, <1>3
    <1>5. QED BY <1>3, <1>4

\* Induction for a set: what holds of 0 and of the next number holds of all.
LEMMA SetInduction ==
    ASSUME NEW S, 0 \in S, \A n \in Nat : n \in S => n + 1 \in S
    PROVE  Nat \subseteq S
    <1> SUFFICES ASSUME Nat \ S # {} PROVE FALSE
        OBVIOUS
    <1>1. PICK m \in Nat \ S : \A n \in Nat \ S : m <= n
        BY NatMin
    <1>2. m # 0
        BY <1>1
    <1>3. m - 1 \in Nat /\ m - 1 \in S
        BY <1>1, <1>2
    <1>4. (m - 1) + 1 \in S
        BY <1>3
    <1>5. QED BY <1>1, <1>4

\* f has N steps of g from x on.
IsIteration(f, N, X, x, g) ==
    f \in [0 .. N -> X] /\ f[0] = x /\ \A n \in 1 .. N : f[n] = g[f[n - 1]]

\* A recursive function on the first numbers exists,
LEMMA Recursion ==
    ASSUME NEW X, NEW g, g \in [X -> X], NEW x \in X, NEW N \in Nat
    PROVE  \E f : IsIteration(f, N, X, x, g)
    <1> DEFINE S == {m \in Nat : \E f \in [0 .. m -> X] :
                        f[0] = x /\ \A n \in 1 .. m : f[n] = g[f[n - 1]]}
    <1>1. 0 \in S
        <2>1. [n \in 0 .. 0 |-> x] \in [0 .. 0 -> X] /\ [n \in 0 .. 0 |-> x][0] = x
            OBVIOUS
        <2>2. \A n \in 1 .. 0 : FALSE
            OBVIOUS
        <2>3. QED BY <2>1, <2>2
    <1>2. ASSUME NEW m \in Nat, m \in S PROVE m + 1 \in S
        <2>1. PICK f \in [0 .. m -> X] : f[0] = x /\ \A n \in 1 .. m : f[n] = g[f[n - 1]]
            BY <1>2
        <2> DEFINE h == [n \in 0 .. m + 1 |-> IF n = m + 1 THEN g[f[m]] ELSE f[n]]
        <2>2. h \in [0 .. m + 1 -> X] /\ h[0] = x
            BY <2>1
        <2>3. ASSUME NEW n \in 1 .. m + 1 PROVE h[n] = g[h[n - 1]]
            <3>1. n - 1 \in 0 .. m /\ h[n - 1] = f[n - 1]
                OBVIOUS
            <3>2. CASE n = m + 1
                BY <3>1, <3>2
            <3>3. CASE n # m + 1
                BY <2>1, <3>1, <3>3
            <3>4. QED BY <3>2, <3>3
        <2> HIDE DEF h
        <2>4. QED BY <2>2, <2>3
    <1> HIDE DEF S
    <1>3. Nat \subseteq S
        BY <1>1, <1>2, SetInduction
    <1>4. N \in S
        BY <1>3
    <1>5. QED BY <1>4 DEF S, IsIteration

\* has the values it must,
LEMMA RecursionStays ==
    ASSUME NEW X, NEW N \in Nat, NEW f, f[0] \in X,
           \A n \in 1 .. N : f[n - 1] \in X => f[n] \in X
    PROVE  \A n \in 0 .. N : f[n] \in X
    <1> DEFINE S == {m \in Nat : m <= N => f[m] \in X}
    <1>1. 0 \in S
        OBVIOUS
    <1>2. ASSUME NEW m \in Nat, m \in S PROVE m + 1 \in S
        <2>1. m + 1 <= N => m + 1 \in 1 .. N /\ (m + 1) - 1 = m
            OBVIOUS
        <2>2. QED BY <1>2, <2>1
    <1> HIDE DEF S
    <1>3. Nat \subseteq S
        BY <1>1, <1>2, SetInduction
    <1>4. QED BY <1>3 DEF S

\* and sets that grow with each step grow with all of them.
LEMMA Growing ==
    ASSUME NEW N \in Nat, NEW f, \A n \in 1 .. N : f[n - 1] \subseteq f[n],
           NEW n \in 0 .. N, NEW k \in 0 .. n
    PROVE  f[k] \subseteq f[n]
    <1> DEFINE S == {m \in Nat : m <= N => \A i \in 0 .. m : f[i] \subseteq f[m]}
    <1>1. 0 \in S
        OBVIOUS
    <1>2. ASSUME NEW m \in Nat, m \in S PROVE m + 1 \in S
        <2> SUFFICES ASSUME m + 1 <= N, NEW i \in 0 .. m + 1 PROVE f[i] \subseteq f[m + 1]
            OBVIOUS
        <2>1. f[m] \subseteq f[m + 1]
            <3>1. m + 1 \in 1 .. N /\ (m + 1) - 1 = m
                OBVIOUS
            <3>2. QED BY <3>1
        <2>2. CASE i = m + 1
            BY <2>2
        <2>3. CASE i # m + 1
            <3>1. i \in 0 .. m /\ m <= N
                BY <2>3
            <3>2. f[i] \subseteq f[m]
                BY <1>2, <3>1
            <3>3. QED BY <2>1, <3>2
        <2>4. QED BY <2>2, <2>3
    <1> HIDE DEF S
    <1>3. Nat \subseteq S
        BY <1>1, <1>2, SetInduction
    <1>4. n \in S /\ n <= N
        BY <1>3
    <1>5. QED BY <1>4 DEF S

-----------------------------------------------------------------------------
(* The inductive invariant *)

\* The database has no keys but the three kinds that AddBlock writes; an edge is
\* written after its target.
KeysInv ==
    \A key \in store :
        \/ key = <<Genesis>>
        \/ \E b \in All : key = VertexKey(b)
        \/ \E b \in Blocks : key = EdgeKey(Parent[b], b) /\ VertexKey(b) \in store

\* With a block its predecessor is stored, down to the genesis block.
ChainInv ==
    /\ VertexKey(Genesis) \in store
    /\ \A b \in Blocks : VertexKey(b) \in store => VertexKey(Parent[b]) \in store

\* What the goroutine that adds a block has found and written so far.
AddingInv ==
    \/ adding = NotAdding
    \/ /\ adding \in [at : {"vertex", "edge"}, block : Blocks]
       /\ VertexKey(Parent[adding.block]) \in store
       /\ adding.at = "edge" => VertexKey(adding.block) \in store

AddedInv ==
    /\ added \subseteq All
    /\ \A b \in added : VertexKey(b) \in store
    /\ unlinked \subseteq added \ {Genesis}
    /\ \A b \in added \ (unlinked \cup {Genesis}) : EdgeKey(Parent[b], b) \in store

\* The vertices a reader has listed, whatever was stored since.
ListedInv(reader) ==
    /\ reader.listed \subseteq All
    /\ \A b \in reader.listed : VertexKey(b) \in store
    /\ \A b \in reader.listed \ {Genesis} : Parent[b] \in reader.listed
    /\ reader.before \subseteq reader.listed
    /\ reader.linked \subseteq reader.before \ {Genesis}
    /\ \A b \in reader.linked : EdgeKey(Parent[b], b) \in store

\* The edges it has listed after that: each starts at a listed vertex, and those
\* of the blocks added before the call are there, but for the ones it skipped.
EdgesInv(reader) ==
    /\ \A e \in reader.edges : \E b \in Blocks :
        e = <<Parent[b], b>> /\ Parent[b] \in reader.listed /\ VertexKey(b) \in store
    /\ \A b \in Linked(reader) : <<Parent[b], b>> \in reader.edges

ReadersInv ==
    /\ DOMAIN readers = Readers
    /\ \A r \in Readers :
        \/ readers[r].at = "idle"
        \/ readers[r].at = "edges" /\ ListedInv(readers[r])
        \/ readers[r].at = "found" /\ ListedInv(readers[r]) /\ EdgesInv(readers[r])

LedgerInv ==
    KeysInv /\ ChainInv /\ applied \subseteq All /\ AddingInv /\ AddedInv /\ ReadersInv

-----------------------------------------------------------------------------
(* The lists of the graph store *)

LEMMA ListVerticesIs ==
    ASSUME KeysInv
    PROVE  ListVertices = {b \in All : VertexKey(b) \in store}
    <1>1. ASSUME NEW b \in ListVertices PROVE b \in All /\ VertexKey(b) \in store
        <2>1. PICK key \in store : key[1] = "vertex" /\ b = key[2]
            BY <1>1 DEF ListVertices, ListKeysWithPrefix
        <2>2. key # <<Genesis>>
            BY <2>1, LedgerAssumption
        <2>3. ASSUME NEW c \in Blocks, key = EdgeKey(Parent[c], c) PROVE FALSE
            BY <2>1, <2>3 DEF EdgeKey
        <2>4. PICK c \in All : key = VertexKey(c)
            BY <2>1, <2>2, <2>3 DEF KeysInv
        <2>5. QED BY <2>1, <2>4 DEF VertexKey
    <1>2. ASSUME NEW b \in All, VertexKey(b) \in store PROVE b \in ListVertices
        <2>1. VertexKey(b)[1] = "vertex" /\ VertexKey(b)[2] = b
            BY DEF VertexKey
        <2>2. QED BY <1>2, <2>1 DEF ListVertices, ListKeysWithPrefix
    <1>3. QED BY <1>1, <1>2

LEMMA ListEdgesIs ==
    ASSUME KeysInv, NEW skipped
    PROVE  /\ \A e \in ListEdges(skipped) : \E b \in Blocks :
                e = <<Parent[b], b>> /\ VertexKey(b) \in store
           /\ \A b \in Blocks : EdgeKey(Parent[b], b) \in store /\ <<Parent[b], b>> \notin skipped
                => <<Parent[b], b>> \in ListEdges(skipped)
    <1>1. ASSUME NEW e \in ListEdges(skipped)
          PROVE  \E b \in Blocks : e = <<Parent[b], b>> /\ VertexKey(b) \in store
        <2>1. PICK key \in store : key[1] = "edge" /\ e = <<key[2], key[3]>>
            BY <1>1 DEF ListEdges, ListKeysWithPrefix
        <2>3. key # <<Genesis>>
            BY <2>1, LedgerAssumption
        <2>4. ASSUME NEW c \in All, key = VertexKey(c) PROVE FALSE
            BY <2>1, <2>4 DEF VertexKey
        <2>5. PICK b \in Blocks : key = EdgeKey(Parent[b], b) /\ VertexKey(b) \in store
            BY <2>1, <2>3, <2>4 DEF KeysInv
        <2>6. QED BY <2>1, <2>5 DEF EdgeKey
    <1>2. ASSUME NEW b \in Blocks, EdgeKey(Parent[b], b) \in store, <<Parent[b], b>> \notin skipped
          PROVE  <<Parent[b], b>> \in ListEdges(skipped)
        <2> DEFINE key == EdgeKey(Parent[b], b)
                   e == <<Parent[b], b>>
        <2>1. key[1] = "edge" /\ e = <<key[2], key[3]>>
            BY DEF EdgeKey
        <2>2. key \in ListKeysWithPrefix("edge")
            BY <1>2, <2>1 DEF ListKeysWithPrefix
        <2>3. e[1] = Parent[b] /\ e[2] = b
            OBVIOUS
        <2>4. Edge(Parent[b], b, TRUE) = "value"
            BY <1>2 DEF Edge, Get
        <2> HIDE DEF key, e
        <2>5. (e \notin skipped) = TRUE
            BY <1>2 DEF e
        <2>6. e \in ListEdges(skipped)
            BY <2>1, <2>2, <2>3, <2>4, <2>5 DEF ListEdges
        <2>7. QED BY <2>6 DEF e
    <1>3. QED BY <1>1, <1>2

\* A lookup that does not fail finds what is stored.
LEMMA VertexIs ==
    ASSUME NEW b, NEW ok \in BOOLEAN
    PROVE  Vertex(b, ok) = IF ok /\ VertexKey(b) \in store THEN {b} ELSE {}
    BY DEF Vertex, Get

LEMMA LookupIs ==
    ASSUME NEW found, NEW b
    PROVE  Lookup(found, b) = IF b \notin found.unread /\ VertexKey(b) \in store THEN {b} ELSE {}
    BY VertexIs DEF Lookup

-----------------------------------------------------------------------------
(* Every step preserves the invariant *)

LEMMA LedgerInvInit == Init => LedgerInv
    <1> SUFFICES ASSUME Init PROVE LedgerInv
        OBVIOUS
    <1>1. KeysInv /\ ChainInv
        <2>1. \A b \in Blocks : VertexKey(b) \notin store
            BY LedgerAssumption DEF Init, VertexKey
        <2>2. QED BY <2>1 DEF Init, KeysInv, ChainInv, All
    <1>2. AddingInv /\ AddedInv /\ applied \subseteq All
        BY DEF Init, AddingInv, AddedInv, All
    <1>3. ReadersInv
        BY DEF Init, ReadersInv, IdleReader
    <1>4. QED BY <1>1, <1>2, <1>3 DEF LedgerInv

\* What a reader has read stays true while keys and blocks are added.
LEMMA ReadersKeep ==
    ASSUME ReadersInv, store \subseteq store', readers' = readers
    PROVE  ReadersInv'
    <1> SUFFICES ASSUME NEW r \in Readers, readers[r].at # "idle"
                 PROVE  /\ ListedInv(readers[r])'
                        /\ readers[r].at = "found" => EdgesInv(readers[r])'
        BY DEF ReadersInv
    <1>1. ListedInv(readers[r])'
        BY DEF ReadersInv, ListedInv, VertexKey, EdgeKey
    <1>2. ASSUME readers[r].at = "found" PROVE EdgesInv(readers[r])'
        <2>1. EdgesInv(readers[r])
            BY <1>2 DEF ReadersInv
        <2>2. QED BY <2>1 DEF EdgesInv, Linked, VertexKey
    <1>3. QED BY <1>1, <1>2

\* A write that adds a block's vertex after its predecessor's, or its edge after
\* its vertex, leaves the store in order.
LEMMA SetVertexKeeps ==
    ASSUME KeysInv, ChainInv, NEW b \in Blocks, VertexKey(Parent[b]) \in store,
           store' = store \cup {VertexKey(b)}
    PROVE  KeysInv' /\ ChainInv'
    <1>1. KeysInv'
        <2> SUFFICES ASSUME NEW key \in store'
                     PROVE  \/ key = <<Genesis>>
                            \/ \E c \in All : key = VertexKey(c)
                            \/ \E c \in Blocks :
                                key = EdgeKey(Parent[c], c) /\ VertexKey(c) \in store'
            BY DEF KeysInv, VertexKey, EdgeKey
        <2>1. CASE key = VertexKey(b)
            BY <2>1 DEF All
        <2>2. CASE key \in store
            BY <2>2 DEF KeysInv
        <2>3. QED BY <2>1, <2>2
    <1>2. ASSUME NEW c \in Blocks, VertexKey(c) \in store'
          PROVE  VertexKey(Parent[c]) \in store'
        <2>1. CASE VertexKey(c) \in store
            BY <2>1 DEF ChainInv
        <2>2. CASE VertexKey(c) = VertexKey(b)
            BY <2>2 DEF VertexKey
        <2>3. QED BY <1>2, <2>1, <2>2
    <1>3. QED BY <1>1, <1>2 DEF ChainInv, VertexKey

LEMMA SetEdgeKeeps ==
    ASSUME KeysInv, ChainInv, NEW b \in Blocks, VertexKey(b) \in store,
           store' = store \cup {EdgeKey(Parent[b], b)}
    PROVE  KeysInv' /\ ChainInv'
    <1>1. KeysInv'
        <2> SUFFICES ASSUME NEW key \in store'
                     PROVE  \/ key = <<Genesis>>
                            \/ \E c \in All : key = VertexKey(c)
                            \/ \E c \in Blocks :
                                key = EdgeKey(Parent[c], c) /\ VertexKey(c) \in store'
            BY DEF KeysInv, VertexKey, EdgeKey
        <2>1. CASE key = EdgeKey(Parent[b], b)
            BY <2>1
        <2>2. CASE key \in store
            BY <2>2 DEF KeysInv
        <2>3. QED BY <2>1, <2>2
    <1>2. \A c \in All : VertexKey(c) # EdgeKey(Parent[b], b)
        BY DEF VertexKey, EdgeKey
    <1>3. \A c \in All : VertexKey(c) \in store' <=> VertexKey(c) \in store
        BY <1>2
    <1>4. ChainInv'
        BY <1>3 DEF ChainInv, VertexKey, All
    <1>5. QED BY <1>1, <1>4

\* What the look at the edge says: AddEdge goes on to write only if it has seen
\* that there is none.
LEMMA EdgeIs ==
    ASSUME NEW source, NEW target, NEW ok \in BOOLEAN
    PROVE  Edge(source, target, ok) = "ErrKeyNotFound"
            <=> ok /\ EdgeKey(source, target) \notin store
    BY DEF Edge, Get

LEMMA LedgerInvNext == LedgerInv /\ [Next]_vars => LedgerInv'
    <1> SUFFICES ASSUME LedgerInv, [Next]_vars PROVE LedgerInv'
        OBVIOUS
    <1> USE DEF LedgerInv
    <1>1. ASSUME NEW b \in Blocks, ApplyBlock(b) PROVE LedgerInv'
        <2>1. VertexKey(Parent[b]) \in store
            BY <1>1, VertexIs DEF ApplyBlock, GetBlock
        <2>2. AddingInv'
            BY <1>1, <2>1 DEF ApplyBlock, AddingInv, VertexKey
        <2>3. ReadersInv'
            BY <1>1, ReadersKeep DEF ApplyBlock
        <2>4. QED
            BY <1>1, <2>2, <2>3
            DEF ApplyBlock, KeysInv, ChainInv, AddedInv, VertexKey, EdgeKey, All
    <1>2. ASSUME AddVertexStep PROVE LedgerInv'
        <2> DEFINE b == adding.block
        <2>1. PICK ok \in Writes :
                /\ store' = IF ok THEN store \cup {VertexKey(b)} ELSE store
                /\ adding' = IF ok THEN [adding EXCEPT !.at = "edge"] ELSE NotAdding
            BY <1>2 DEF AddVertexStep, AddVertex, Set
        <2>2. /\ adding \in [at : {"vertex", "edge"}, block : Blocks]
              /\ VertexKey(Parent[b]) \in store
            BY <1>2 DEF AddVertexStep, AddingInv, NotAdding
        <2>3. b \in Blocks
            BY <2>2
        <2>4. KeysInv' /\ ChainInv'
            <3>1. CASE ok
                BY <2>1, <2>2, <2>3, <3>1, SetVertexKeeps
            <3>2. CASE ~ok
                BY <2>1, <3>2 DEF KeysInv, ChainInv, VertexKey, EdgeKey
            <3>3. QED BY <3>1, <3>2
        <2>5. AddingInv'
            <3>1. CASE ok
                <4>1. adding' = [adding EXCEPT !.at = "edge"]
                    BY <2>1, <3>1
                <4>2. /\ adding' \in [at : {"vertex", "edge"}, block : Blocks]
                      /\ adding'.block = b
                    BY <2>2, <4>1
                <4>3. VertexKey(b) \in store' /\ VertexKey(Parent[b]) \in store'
                    BY <2>1, <2>2, <3>1
                <4>4. QED BY <4>2, <4>3 DEF AddingInv, VertexKey
            <3>2. CASE ~ok
                BY <2>1, <3>2 DEF AddingInv, NotAdding
            <3>3. QED BY <3>1, <3>2
        <2>6. /\ store \subseteq store' /\ added' = added /\ unlinked' = unlinked
              /\ readers' = readers /\ applied' = applied
            BY <1>2, <2>1 DEF AddVertexStep
        <2>7. AddedInv' /\ ReadersInv'
            BY <2>6, ReadersKeep DEF AddedInv, VertexKey, EdgeKey
        <2>8. QED BY <2>4, <2>5, <2>6, <2>7
    <1>3. ASSUME AddEdge PROVE LedgerInv'
        <2> DEFINE b == adding.block
        <2>1. b \in Blocks /\ VertexKey(b) \in store
            BY <1>3 DEF AddEdge, AddingInv, NotAdding
        <2>2. \/ /\ store' = store /\ added' = added \cup {b}
                 /\ EdgeKey(Parent[b], b) \in store /\ unlinked' = unlinked
              \/ /\ store' = store /\ added' = added \cup {b}
                 /\ EdgeKey(Parent[b], b) \notin store /\ unlinked' = unlinked \cup {b}
              \/ store' = store /\ added' = added /\ unlinked' = unlinked
              \/ /\ store' = store \cup {EdgeKey(Parent[b], b)}
                 /\ added' = added \cup {b} /\ unlinked' = unlinked \ {b}
            BY <1>3, EdgeIs DEF AddEdge, StoreEdge, Set
        <2>3. KeysInv' /\ ChainInv'
            <3>1. CASE store' = store
                BY <3>1 DEF KeysInv, ChainInv, VertexKey, EdgeKey
            <3>2. CASE store' = store \cup {EdgeKey(Parent[b], b)}
                BY <2>1, <3>2, SetEdgeKeeps
            <3>3. QED BY <2>2, <3>1, <3>2
        <2>4. store \subseteq store' /\ added \subseteq added'
            BY <2>2
        <2>5. AddedInv'
            <3>1. \A c \in added' : VertexKey(c) \in store'
                BY <2>1, <2>2, <2>4 DEF AddedInv
            <3>2. \A c \in added' \ (unlinked' \cup {Genesis}) : EdgeKey(Parent[c], c) \in store'
                BY <2>1, <2>2, <2>4 DEF AddedInv
            <3>3. added' \subseteq All /\ unlinked' \subseteq added' \ {Genesis}
                BY <2>1, <2>2, LedgerAssumption DEF AddedInv, All
            <3>4. QED BY <3>1, <3>2, <3>3 DEF AddedInv, VertexKey, EdgeKey
        <2>6. readers' = readers /\ applied' = applied /\ adding' = NotAdding
            BY <1>3 DEF AddEdge
        <2>7. ReadersInv' /\ AddingInv'
            BY <2>4, <2>6, ReadersKeep DEF AddingInv, NotAdding
        <2>8. QED BY <2>3, <2>5, <2>6, <2>7
    <1>4. ASSUME Restart PROVE LedgerInv'
        <2>1. ReadersInv'
            BY <1>4 DEF Restart, ReadersInv, IdleReader
        <2>2. AddingInv' /\ applied' \subseteq All
            BY <1>4 DEF Restart, AddingInv, NotAdding, All
        <2>3. QED
            BY <1>4, <2>1, <2>2 DEF Restart, KeysInv, ChainInv, AddedInv, VertexKey, EdgeKey
    \* The readers change nothing but their own entry.
    <1>5. ASSUME NEW r \in Readers, NEW reader, UNCHANGED <<store, applied, adding, added, unlinked>>,
                 readers' = [readers EXCEPT ![r] = reader],
                 \/ reader.at = "idle"
                 \/ reader.at = "edges" /\ ListedInv(reader)
                 \/ reader.at = "found" /\ ListedInv(reader) /\ EdgesInv(reader)
          PROVE  LedgerInv'
        <2>1. ReadersInv'
            <3>1. DOMAIN readers' = Readers /\ readers'[r] = reader
                BY <1>5 DEF ReadersInv
            <3>2. ListedInv(reader) => ListedInv(readers[r])'
                BY <1>5, <3>1 DEF ListedInv, VertexKey, EdgeKey
            <3>3. EdgesInv(reader) => EdgesInv(readers[r])'
                BY <1>5, <3>1 DEF EdgesInv, Linked, VertexKey
            <3>4. ASSUME NEW q \in Readers, q # r
                  PROVE  /\ readers'[q] = readers[q]
                         /\ ListedInv(readers[q]) => ListedInv(readers[q])'
                         /\ EdgesInv(readers[q]) => EdgesInv(readers[q])'
                BY <1>5, <3>4 DEF ReadersInv, ListedInv, EdgesInv, Linked, VertexKey, EdgeKey
            <3>5. QED BY <1>5, <3>1, <3>2, <3>3, <3>4 DEF ReadersInv
        <2>2. QED
            BY <1>5, <2>1 DEF KeysInv, ChainInv, AddingInv, AddedInv, VertexKey, EdgeKey
    <1>6. ASSUME NEW r \in Readers, NEW call \in Calls, ListVerticesStep(r, call)
          PROVE  LedgerInv'
        <2> DEFINE reader == [at |-> "edges", call |-> call, listed |-> ListVertices,
                              before |-> added, linked |-> added \ (unlinked \cup {Genesis})]
        <2>1. ListVertices = {b \in All : VertexKey(b) \in store}
            BY ListVerticesIs
        <2>2. ListedInv(reader)
            <3>1. /\ reader.listed = {b \in All : VertexKey(b) \in store} /\ reader.before = added
                  /\ reader.linked = added \ (unlinked \cup {Genesis})
                BY <2>1
            <3>2. \A b \in reader.listed \ {Genesis} : Parent[b] \in reader.listed
                BY <3>1, LedgerAssumption DEF ChainInv, All
            <3>3. QED BY <3>1, <3>2 DEF ListedInv, AddedInv
        <2>3. QED BY <1>5, <1>6, <2>2 DEF ListVerticesStep
    <1>7. ASSUME NEW r \in Readers, ListEdgesStep(r) PROVE LedgerInv'
        <2>1. PICK skipped \in SUBSET ListEdges({}), unread \in SUBSET ListVertices :
                /\ \A e \in ListEdges(skipped) : e[1] \in readers[r].listed
                /\ readers' = [readers EXCEPT ![r] =
                    [at |-> "found", call |-> @.call, listed |-> @.listed, before |-> @.before,
                     linked |-> @.linked, edges |-> ListEdges(skipped),
                     skipped |-> skipped, unread |-> unread]]
            BY <1>7 DEF ListEdgesStep
        <2> DEFINE old == readers[r]
                   reader == [at |-> "found", call |-> old.call, listed |-> old.listed,
                              before |-> old.before, linked |-> old.linked,
                              edges |-> ListEdges(skipped),
                              skipped |-> skipped, unread |-> unread]
        <2>2. readers' = [readers EXCEPT ![r] = reader]
            BY <2>1 DEF ReadersInv
        <2>3. ListedInv(old)
            BY <1>7 DEF ListEdgesStep, ReadersInv
        <2>4. ListedInv(reader)
            BY <2>3 DEF ListedInv
        <2>5. EdgesInv(reader)
            <3>1. ASSUME NEW e \in ListEdges(skipped)
                  PROVE  \E b \in Blocks : /\ e = <<Parent[b], b>>
                                           /\ Parent[b] \in old.listed
                                           /\ VertexKey(b) \in store
                <4>1. PICK b \in Blocks : e = <<Parent[b], b>> /\ VertexKey(b) \in store
                    BY <3>1, ListEdgesIs
                <4>2. e[1] = Parent[b] /\ e[1] \in old.listed
                    BY <2>1, <3>1, <4>1
                <4>3. QED BY <4>1, <4>2
            <3>2. ASSUME NEW b \in old.linked, <<Parent[b], b>> \notin skipped
                  PROVE  <<Parent[b], b>> \in ListEdges(skipped)
                <4>1. b \in Blocks /\ EdgeKey(Parent[b], b) \in store
                    BY <2>3, <3>2 DEF ListedInv, AddedInv, All
                <4>2. QED BY <3>2, <4>1, ListEdgesIs
            <3>3. QED BY <3>1, <3>2 DEF EdgesInv, Linked
        <2> HIDE DEF reader
        <2>6. reader.at = "found"
            BY DEF reader
        <2>7. QED BY <1>5, <1>7, <2>2, <2>4, <2>5, <2>6 DEF ListEdgesStep
    <1>8. ASSUME NEW r \in Readers, ListFails(r) \/ Return(r) PROVE LedgerInv'
        BY <1>5, <1>8 DEF ListFails, Return, IdleReader
    <1>9. CASE UNCHANGED vars
        <2>1. ReadersInv'
            BY <1>9, ReadersKeep DEF vars
        <2>2. QED
            BY <1>9, <2>1 DEF vars, KeysInv, ChainInv, AddingInv, AddedInv, VertexKey, EdgeKey
    <1>10. QED
        BY <1>1, <1>2, <1>3, <1>4, <1>6, <1>7, <1>8, <1>9 DEF Next, Panic

\* Every reachable state satisfies the inductive invariant: what AddBlock has
\* written, what it is writing and what the readers have read fit together.
THEOREM LedgerInvariant == Spec => []LedgerInv
    <1>1. QED BY LedgerInvInit, LedgerInvNext, PTL DEF Spec

-----------------------------------------------------------------------------
(* The properties *)

\* A reader's record in its last step, with what the invariant says of it.
LEMMA FoundIs ==
    ASSUME LedgerInv, NEW call, NEW found \in Found(call)
    PROVE  /\ ListedInv(found)
           /\ EdgesInv(found)
           /\ \A b \in found.listed \ found.unread : b \in ListBlocks(found)
           /\ \A b \in Targets(found) \ found.unread :
                b \in Lookup(found, b) /\ b \in ListBlocks(found)
           /\ ListBlocks(found) \subseteq found.listed \cup Targets(found)
           /\ \A b \in Linked(found) : b \in Targets(found)
    <1>1. ListedInv(found) /\ EdgesInv(found)
        BY DEF Found, LedgerInv, ReadersInv
    <1>2. \A b \in found.listed \ found.unread : b \in ListBlocks(found)
        BY <1>1, LookupIs DEF ListedInv, ListBlocks
    <1>3. ASSUME NEW b \in Targets(found) \ found.unread
          PROVE  b \in Lookup(found, b) /\ b \in ListBlocks(found)
        <2>1. PICK e \in found.edges : b = e[2]
            BY <1>3 DEF Targets
        <2>2. PICK c \in Blocks : e = <<Parent[c], c>> /\ VertexKey(c) \in store
            BY <1>1, <2>1 DEF EdgesInv
        <2>3. VertexKey(b) \in store
            BY <2>1, <2>2
        <2>4. b \in Lookup(found, b)
            BY <1>3, <2>3, LookupIs
        <2>5. QED BY <1>3, <2>4 DEF ListBlocks
    <1>4. ListBlocks(found) \subseteq found.listed \cup Targets(found)
        BY LookupIs DEF ListBlocks
    <1>5. ASSUME NEW b \in Linked(found) PROVE b \in Targets(found)
        <2>1. <<Parent[b], b>> \in found.edges /\ <<Parent[b], b>>[2] = b
            BY <1>1, <1>5 DEF EdgesInv
        <2>2. QED BY <2>1 DEF Targets
    <1>6. QED BY <1>1, <1>2, <1>3, <1>4, <1>5

\* The store holds an edge only from the predecessor of a stored block, and a
\* block whose AddBlock has returned nil keeps its vertex, and its edge unless
\* the look at the edge failed, over any failures and restarts.
THEOREM TypeCorrect == Spec => []TypeOK
    <1>1. LedgerInv => TypeOK
        <2> SUFFICES ASSUME LedgerInv PROVE TypeOK
            OBVIOUS
        <2> USE DEF LedgerInv
        <2>1. ListVertices = {b \in All : VertexKey(b) \in store}
            BY ListVerticesIs
        <2>2. ListEdges({}) \subseteq {<<Parent[b], b>> : b \in Blocks \cap ListVertices}
            <3>1. ASSUME NEW e \in ListEdges({})
                  PROVE  \E b \in Blocks \cap ListVertices : e = <<Parent[b], b>>
                BY <2>1, <3>1, ListEdgesIs DEF All
            <3>2. QED BY <3>1
        <2>3. added \subseteq ListVertices /\ unlinked \subseteq added
            BY <2>1 DEF AddedInv
        <2>4. \A b \in added \ (unlinked \cup {Genesis}) : <<Parent[b], b>> \in ListEdges({})
            <3>1. \A b \in Blocks : EdgeKey(Parent[b], b) \in store => <<Parent[b], b>> \in ListEdges({})
                BY ListEdgesIs
            <3>2. QED BY <3>1 DEF AddedInv, All
        <2>5. adding.at \in {"free", "vertex", "edge"}
            BY DEF AddingInv, NotAdding
        <2>6. \A r \in Readers : readers[r].at \in {"idle", "edges", "found"}
            BY DEF ReadersInv
        <2>7. QED BY <2>1, <2>2, <2>3, <2>4, <2>5, <2>6 DEF TypeOK
    <1>2. QED BY <1>1, LedgerInvariant, PTL

\* ListBlocks misses no block that was added before the call, nor a predecessor
\* of one it returns, but those whose own lookup failed, for any interleaving
\* with AddBlock and whichever edges could not be read.
THEOREM ListComplete == Spec => []ListIsComplete
    <1>1. LedgerInv => ListIsComplete
        <2> SUFFICES ASSUME LedgerInv, NEW found \in Found("ListBlocks")
                     PROVE  /\ found.before \ found.unread \subseteq ListBlocks(found)
                            /\ \A b \in ListBlocks(found) \ {Genesis} :
                                Parent[b] \in ListBlocks(found) \cup found.unread
            BY DEF ListIsComplete
        <2>1. found.before \ found.unread \subseteq ListBlocks(found)
            BY FoundIs DEF ListedInv
        <2>2. ASSUME NEW b \in ListBlocks(found) \ {Genesis} PROVE Parent[b] \in found.listed
            <3>1. CASE b \in found.listed
                BY <2>2, <3>1, FoundIs DEF ListedInv
            <3>2. CASE b \in Targets(found)
                <4>1. PICK e \in found.edges : b = e[2]
                    BY <3>2 DEF Targets
                <4>2. PICK c \in Blocks : e = <<Parent[c], c>> /\ Parent[c] \in found.listed
                    BY <4>1, FoundIs DEF EdgesInv
                <4>3. QED BY <4>1, <4>2
            <3>3. QED BY <2>2, <3>1, <3>2, FoundIs
        <2>3. QED BY <2>1, <2>2, FoundIs
    <1>2. QED BY <1>1, LedgerInvariant, PTL

\* GetLatestBlock never returns a block with a successor that was linked to it
\* before the call, if that one edge can be read: no other failure, of whatever
\* read or write, makes the latest block stale.
THEOREM LatestIsNotStale == Spec => []LatestNotStale
    <1>1. LedgerInv => LatestNotStale
        <2> SUFFICES ASSUME LedgerInv, NEW found \in Found("GetLatestBlock"),
                            NEW b \in Linked(found),
                            Parent[b] \in GetLatestBlock(found)
                     PROVE  FALSE
            BY DEF LatestNotStale
        <2>1. \A e \in found.edges : e[1] # Parent[b]
            BY LookupIs DEF GetLatestBlock
        <2>2. <<Parent[b], b>> \in found.edges
            BY FoundIs DEF EdgesInv
        <2>3. QED BY <2>1, <2>2
    <1>2. QED BY <1>1, LedgerInvariant, PTL

\* A block that was added before the call is found by its index, and its
\* transactions by their IDs, unless the read of its own keys fails.
THEOREM AddedFound == Spec => []AddedIsFound
    <1>1. LedgerInv => AddedIsFound
        <2> SUFFICES ASSUME LedgerInv PROVE AddedIsFound
            OBVIOUS
        <2>1. ASSUME NEW found \in Found("GetBlockByIndex"),
                     NEW b \in Linked(found) \ found.unread
              PROVE  b \in GetBlockByIndex(found, Index[b])
            BY FoundIs DEF GetBlockByIndex
        <2>2. ASSUME NEW found \in Found("GetTransaction"),
                     NEW b \in found.before \ found.unread,
                     NEW id \in Transactions[b]
              PROVE  b \in GetTransaction(found, id)
            BY FoundIs DEF GetTransaction, ListedInv
        <2>3. ASSUME NEW found \in Found("SeekTransactions"),
                     NEW b \in found.before \ found.unread
              PROVE  Transactions[b] \subseteq SeekTransactions(found, Transactions[b])
            <3>1. b \in ListBlocks(found)
                BY FoundIs DEF ListedInv
            <3>2. QED BY <3>1 DEF SeekTransactions, IterateTransactions
        <2>4. QED BY <2>1, <2>2, <2>3 DEF AddedIsFound
    <1>2. QED BY <1>1, LedgerInvariant, PTL

-----------------------------------------------------------------------------
(* Ancestors and successors *)

\* The recursive function in Ancestors exists and has the values it says.
LEMMA AncestorsIs ==
    ASSUME NEW b \in All
    PROVE  \E up \in [0 .. Index[b] -> SUBSET All] :
            /\ up[0] = {b}
            /\ \A n \in 1 .. Index[b] :
                up[n] = up[n - 1] \cup {Parent[c] : c \in up[n - 1] \ {Genesis}}
            /\ Ancestors(b) = up[Index[b]] \ {b}
    <1> DEFINE I == Index[b]
               next(s) == s \cup {Parent[c] : c \in s \ {Genesis}}
               g == [s \in SUBSET All |-> next(s)]
               body(f) == [n \in 0 .. I |-> IF n = 0 THEN {b} ELSE next(f[n - 1])]
               up == CHOOSE f : f = body(f)
    <1>1. I \in Nat /\ {b} \in SUBSET All
        BY LedgerAssumption
    <1>2. \A s \in SUBSET All : next(s) \in SUBSET All
        BY LedgerAssumption DEF All
    <1>3. g \in [SUBSET All -> SUBSET All] /\ \A s \in SUBSET All : g[s] = next(s)
        BY <1>2
    <1> HIDE DEF I, next, g
    <1>4. PICK f \in [0 .. I -> SUBSET All] : f[0] = {b} /\ \A n \in 1 .. I : f[n] = g[f[n - 1]]
        <2> DEFINE X == SUBSET All
                   x == {b}
        <2>1. g \in [X -> X] /\ x \in X
            BY <1>1, <1>3
        <2> HIDE DEF X, x, body, up
        <2>2. \E f : IsIteration(f, I, X, x, g)
            BY <1>1, <2>1, Recursion
        <2>3. QED BY <2>2 DEF X, x, IsIteration
    <1>5. f = body(f)
        <2>1. ASSUME NEW n \in 0 .. I PROVE f[n] = IF n = 0 THEN {b} ELSE next(f[n - 1])
            <3>1. CASE n = 0
                BY <1>4, <3>1
            <3>2. CASE n # 0
                <4>1. n \in 1 .. I /\ n - 1 \in 0 .. I
                    BY <1>1, <3>2
                <4>2. QED BY <1>3, <1>4, <3>2, <4>1
            <3>3. QED BY <3>1, <3>2
        <2>2. QED BY <2>1
    <1>6. up = body(up)
        BY <1>5
    <1>7. Ancestors(b) = up[I] \ {b}
        BY DEF Ancestors, I, next
    <1> HIDE DEF up
    <1>8. up[0] = {b} /\ \A n \in 1 .. I : up[n] = next(up[n - 1])
        <2>1. \A n \in 0 .. I : body(up)[n] = IF n = 0 THEN {b} ELSE next(up[n - 1])
            OBVIOUS
        <2> HIDE DEF body
        <2>2. \A n \in 0 .. I : up[n] = IF n = 0 THEN {b} ELSE next(up[n - 1])
            BY <1>6, <2>1
        <2>3. 0 \in 0 .. I /\ \A n \in 1 .. I : n \in 0 .. I /\ n # 0
            BY <1>1
        <2>4. QED BY <2>2, <2>3
    <1>9. \A n \in 0 .. I : up[n] \in SUBSET All
        <2> DEFINE X == SUBSET All
        <2>1. up[0] \in X /\ \A n \in 1 .. I : up[n - 1] \in X => up[n] \in X
            BY <1>2, <1>8
        <2> HIDE DEF X
        <2>2. \A n \in 0 .. I : up[n] \in X
            BY <1>1, <2>1, RecursionStays
        <2>3. QED BY <2>2 DEF X
    <1>10. up \in [0 .. I -> SUBSET All]
        BY <1>6, <1>9
    <1>11. QED BY <1>7, <1>8, <1>10 DEF I, next

\* The block and its ancestors.
Line(b) == Ancestors(b) \cup {b}

\* They are the least set with the block and all predecessors: it has them,
LEMMA LineClosed ==
    ASSUME NEW b \in All
    PROVE  /\ b \in Line(b) /\ Line(b) \subseteq All
           /\ \A c \in Line(b) \ {Genesis} : Parent[c] \in Line(b)
    <1> DEFINE I == Index[b]
    <1>1. PICK up \in [0 .. I -> SUBSET All] :
            /\ up[0] = {b}
            /\ \A n \in 1 .. I :
                up[n] = up[n - 1] \cup {Parent[c] : c \in up[n - 1] \ {Genesis}}
            /\ Ancestors(b) = up[I] \ {b}
        BY AncestorsIs
    <1>2. I \in Nat
        BY LedgerAssumption
    <1> HIDE DEF I
    <1>3. ASSUME NEW n \in 0 .. I, NEW k \in 0 .. n PROVE up[k] \subseteq up[n]
        <2>1. \A m \in 1 .. I : up[m - 1] \subseteq up[m]
            BY <1>1
        <2>2. QED BY <1>2, <2>1, Growing
    <1>4. Line(b) = up[I]
        <2>1. b \in up[I]
            BY <1>1, <1>2, <1>3
        <2>2. QED BY <1>1, <2>1 DEF Line
    \* A block of the line is found after as many steps as it is older.
    <1> DEFINE S == {n \in Nat : n <= I => \A c \in up[n] :
                        Index[c] <= I /\ I - Index[c] <= n /\ c \in up[I - Index[c]]}
    <1>5. 0 \in S
        BY <1>1, <1>2 DEF I
    <1>6. ASSUME NEW n \in Nat, n \in S PROVE n + 1 \in S
        <2> SUFFICES ASSUME n + 1 <= I, NEW c \in up[n + 1]
                     PROVE  Index[c] <= I /\ I - Index[c] <= n + 1 /\ c \in up[I - Index[c]]
            BY <1>6
        <2>1. n + 1 \in 1 .. I /\ (n + 1) - 1 = n /\ n \in 0 .. I
            BY <1>2
        <2>2. up[n] \subseteq All /\ up[n + 1] = up[n] \cup {Parent[d] : d \in up[n] \ {Genesis}}
            BY <1>1, <2>1
        <2>3. \A d \in up[n] : Index[d] <= I /\ I - Index[d] <= n /\ d \in up[I - Index[d]]
            BY <1>6, <2>1
        <2>4. CASE c \in up[n]
            <3>1. Index[c] \in Nat
                BY <2>2, <2>4, LedgerAssumption
            <3>2. QED BY <1>2, <2>3, <2>4, <3>1
        <2>5. CASE c \notin up[n]
            <3>1. PICK d \in up[n] \ {Genesis} : c = Parent[d]
                BY <2>2, <2>5
            <3>2. d \in Blocks /\ c \in All
                BY <2>2, <3>1, LedgerAssumption DEF All
            <3>3. Index[d] = Index[c] + 1 /\ Index[c] \in Nat
                BY <3>1, <3>2, LedgerAssumption
            <3>4. Index[d] <= I /\ I - Index[d] <= n /\ d \in up[I - Index[d]]
                BY <2>3, <3>1
            <3>5. /\ Index[c] <= I /\ I - Index[c] <= n + 1
                  /\ I - Index[c] \in 1 .. I /\ (I - Index[c]) - 1 = I - Index[d]
                BY <1>2, <3>3, <3>4
            <3>6. c \in up[I - Index[c]]
                BY <1>1, <3>1, <3>4, <3>5
            <3>7. QED BY <3>5, <3>6
        <2>6. QED BY <2>4, <2>5
    <1> HIDE DEF S
    <1>7. I \in S
        BY <1>2, <1>5, <1>6, SetInduction
    <1>8. ASSUME NEW c \in up[I] \ {Genesis} PROVE Parent[c] \in up[I]
        <2>1. Index[c] <= I /\ c \in up[I - Index[c]]
            BY <1>2, <1>7 DEF S
        <2>2. c \in Blocks
            BY <1>1, <1>2 DEF All
        <2>3. Index[c] \in Nat /\ Index[c] > 0
            BY <2>2, LedgerAssumption
        <2>4. /\ (I - Index[c]) + 1 \in 1 .. I /\ ((I - Index[c]) + 1) - 1 = I - Index[c]
            BY <1>2, <2>1, <2>3
        <2>5. Parent[c] \in up[(I - Index[c]) + 1]
            BY <1>1, <2>1, <2>4
        <2>6. I \in 0 .. I /\ (I - Index[c]) + 1 \in 0 .. I
            BY <1>2, <2>4
        <2>7. QED BY <1>3, <2>5, <2>6
    <1>9. up[I] \subseteq All
        BY <1>1, <1>2
    <1>10. QED BY <1>4, <1>8, <1>9 DEF Line

\* and it is in every such set.
LEMMA LineLeast ==
    ASSUME NEW b \in All, NEW X, b \in X, \A c \in (X \cap All) \ {Genesis} : Parent[c] \in X
    PROVE  Line(b) \subseteq X
    <1> DEFINE I == Index[b]
               Y == SUBSET (X \cap All)
    <1>1. PICK up \in [0 .. I -> SUBSET All] :
            /\ up[0] = {b}
            /\ \A n \in 1 .. I :
                up[n] = up[n - 1] \cup {Parent[c] : c \in up[n - 1] \ {Genesis}}
            /\ Ancestors(b) = up[I] \ {b}
        BY AncestorsIs
    <1>2. I \in Nat
        BY LedgerAssumption
    <1>3. up[0] \in Y
        BY <1>1
    <1>4. ASSUME NEW n \in 1 .. I, up[n - 1] \in Y PROVE up[n] \in Y
        <2>1. up[n] = up[n - 1] \cup {Parent[c] : c \in up[n - 1] \ {Genesis}}
            BY <1>1
        <2>2. up[n] \in SUBSET All
            BY <1>1, <1>2
        <2>3. QED BY <1>4, <2>1, <2>2
    <1> HIDE DEF I, Y
    <1>5. \A n \in 0 .. I : up[n] \in Y
        BY <1>2, <1>3, <1>4, RecursionStays
    <1>6. up[I] \in Y
        BY <1>2, <1>5
    <1>7. QED BY <1>1, <1>6 DEF Line, Y

\* What follows for one block and its predecessor.
LEMMA LineIs ==
    ASSUME NEW b \in All
    PROVE  /\ \A c \in Line(b) : c = b \/ Index[c] < Index[b]
           /\ Ancestors(b) = {c \in Line(b) : c # b}
           /\ b # Genesis => Parent[b] \in All /\ Line(b) = Line(Parent[b]) \cup {b}
    <1>1. \A c \in Line(b) : c = b \/ Index[c] < Index[b]
        <2> DEFINE X == {c \in All : c = b \/ Index[c] < Index[b]}
        <2>1. ASSUME NEW c \in (X \cap All) \ {Genesis} PROVE Parent[c] \in X
            <3>1. c \in Blocks /\ Parent[c] \in All
                BY LedgerAssumption DEF All
            <3>2. /\ Index[c] = Index[Parent[c]] + 1 /\ Index[Parent[c]] \in Nat
                  /\ Index[b] \in Nat
                BY <3>1, LedgerAssumption
            <3>3. QED BY <3>1, <3>2
        <2>2. b \in X
            OBVIOUS
        <2> HIDE DEF X
        <2>3. Line(b) \subseteq X
            BY <2>1, <2>2, LineLeast
        <2>4. QED BY <2>3 DEF X
    <1>2. Ancestors(b) = {c \in Line(b) : c # b}
        <2>1. b \notin Ancestors(b)
            BY AncestorsIs
        <2>2. QED BY <2>1 DEF Line
    <1>3. ASSUME b # Genesis PROVE Parent[b] \in All /\ Line(b) = Line(Parent[b]) \cup {b}
        <2>1. Parent[b] \in All
            BY <1>3, LedgerAssumption DEF All
        <2>2. Line(b) \subseteq Line(Parent[b]) \cup {b}
            <3> DEFINE X == Line(Parent[b]) \cup {b}
            <3>1. \A c \in (X \cap All) \ {Genesis} : Parent[c] \in X
                BY <2>1, LineClosed
            <3> HIDE DEF X
            <3>2. b \in X
                BY DEF X
            <3>3. Line(b) \subseteq X
                BY <3>1, <3>2, LineLeast
            <3>4. QED BY <3>3 DEF X
        <2>3. Line(Parent[b]) \subseteq Line(b)
            <3>1. Parent[b] \in Line(b) /\ \A c \in Line(b) \ {Genesis} : Parent[c] \in Line(b)
                BY <1>3, LineClosed
            <3>2. QED BY <2>1, <3>1, LineLeast
        <2>4. QED BY <2>1, <2>2, <2>3, LineClosed
    <1>4. QED BY <1>1, <1>2, <1>3

\* There are more blocks than any block has ancestors, so that the traversal is
\* done after as many steps as there are blocks.
LEMMA EnoughSteps ==
    ASSUME NEW b \in All
    PROVE  Cardinality(All) \in Nat /\ Index[b] < Cardinality(All)
    <1> DEFINE I == Index[b]
               S == {n \in Nat : n <= I => \E c \in All : Index[c] = I - n}
               T == {c \in All : Index[c] \in 0 .. I}
               f == [c \in T |-> Index[c]]
    <1>1. I \in Nat
        BY LedgerAssumption
    <1>2. IsFiniteSet(All)
        BY LedgerAssumption, FS_Singleton, FS_Union DEF All
    <1>3. 0 \in S
        BY <1>1
    <1>4. ASSUME NEW n \in Nat, n \in S PROVE n + 1 \in S
        <2> SUFFICES ASSUME n + 1 <= I PROVE \E c \in All : Index[c] = I - (n + 1)
            OBVIOUS
        <2>1. PICK c \in All : Index[c] = I - n
            BY <1>1, <1>4
        <2>2. c # Genesis
            BY <1>1, <2>1, LedgerAssumption
        <2>3. c \in Blocks /\ Parent[c] \in All /\ Index[Parent[c]] \in Nat
              /\ Index[c] = Index[Parent[c]] + 1
            BY <2>2, LedgerAssumption DEF All
        <2>4. QED BY <1>1, <2>1, <2>3
    <1> HIDE DEF S
    <1>5. Nat \subseteq S
        BY <1>3, <1>4, SetInduction
    <1>6. ASSUME NEW m \in 0 .. I PROVE \E c \in T : f[c] = m
        <2>1. I - m \in Nat /\ I - m <= I /\ I - (I - m) = m
            BY <1>1
        <2>2. PICK c \in All : Index[c] = I - (I - m)
            BY <1>5, <2>1 DEF S
        <2>3. QED BY <2>1, <2>2
    <1>7. f \in Surjection(T, 0 .. I)
        BY <1>6 DEF Surjection
    <1>8. IsFiniteSet(T) /\ Cardinality(T) <= Cardinality(All)
        <2>1. T \in SUBSET All
            OBVIOUS
        <2>2. QED BY <1>2, <2>1, FS_Subset
    <1>9. Cardinality(0 .. I) <= Cardinality(T)
        BY <1>7, <1>8, FS_Surjection
    <1>10. Cardinality(0 .. I) = I + 1
        BY <1>1, FS_Interval
    <1>11. Cardinality(All) \in Nat /\ Cardinality(T) \in Nat
        BY <1>2, <1>8, FS_CardinalityType
    <1>12. QED BY <1>1, <1>8, <1>9, <1>10, <1>11

StoredBlocks == {d \in Blocks : VertexKey(d) \in store}

\* One step of the traversal, from the blocks it has found so far.
Further(found, b, s) ==
    IF \E c \in s : Lookup(found, c) = {} THEN s
    ELSE s \cup {e[2] : e \in {d \in found.edges : d[1] \in s \cup {b}}}

\* The blocks of a set that could be looked up.
Looked(found, s) == UNION {Lookup(found, c) : c \in s}

\* The same of the traversal.
LEMMA TraversalIs ==
    ASSUME NEW found, EdgesInv(found), NEW b
    PROVE  \E reach \in [0 .. Cardinality(All) -> SUBSET StoredBlocks] :
            /\ reach[0] = {}
            /\ \A n \in 1 .. Cardinality(All) : reach[n] = Further(found, b, reach[n - 1])
            /\ TraverseSuccessors(found, b) = Looked(found, reach[Cardinality(All)])
    <1> DEFINE N == Cardinality(All)
               next(s) == Further(found, b, s)
               g == [s \in SUBSET StoredBlocks |-> next(s)]
               body(f) == [n \in 0 .. N |-> IF n = 0 THEN {} ELSE next(f[n - 1])]
               reach == CHOOSE f : f = body(f)
    <1>1. N \in Nat
        BY EnoughSteps DEF All
    <1>2. \A s \in SUBSET StoredBlocks : next(s) \in SUBSET StoredBlocks
        BY DEF EdgesInv, Further, StoredBlocks
    <1>3. g \in [SUBSET StoredBlocks -> SUBSET StoredBlocks] /\ \A s \in SUBSET StoredBlocks : g[s] = next(s)
        BY <1>2
    <1> HIDE DEF N, next, g
    <1>4. PICK f \in [0 .. N -> SUBSET StoredBlocks] : f[0] = {} /\ \A n \in 1 .. N : f[n] = g[f[n - 1]]
        <2> DEFINE X == SUBSET StoredBlocks
                   x == {}
        <2>1. g \in [X -> X] /\ x \in X
            BY <1>1, <1>3
        <2> HIDE DEF X, x, body, reach
        <2>2. \E f : IsIteration(f, N, X, x, g)
            BY <1>1, <2>1, Recursion
        <2>3. QED BY <2>2 DEF X, x, IsIteration
    <1>5. f = body(f)
        <2>1. ASSUME NEW n \in 0 .. N PROVE f[n] = IF n = 0 THEN {} ELSE next(f[n - 1])
            <3>1. CASE n = 0
                BY <1>4, <3>1
            <3>2. CASE n # 0
                <4>1. n \in 1 .. N /\ n - 1 \in 0 .. N
                    BY <1>1, <3>2
                <4>2. QED BY <1>3, <1>4, <3>2, <4>1
            <3>3. QED BY <3>1, <3>2
        <2>2. QED BY <2>1
    <1>6. reach = body(reach)
        BY <1>5
    <1>7. TraverseSuccessors(found, b) = Looked(found, reach[N])
        BY DEF TraverseSuccessors, N, next, Further, Looked
    <1> HIDE DEF reach
    <1>8. reach[0] = {} /\ \A n \in 1 .. N : reach[n] = next(reach[n - 1])
        <2>1. \A n \in 0 .. N : body(reach)[n] = IF n = 0 THEN {} ELSE next(reach[n - 1])
            OBVIOUS
        <2> HIDE DEF body
        <2>2. \A n \in 0 .. N : reach[n] = IF n = 0 THEN {} ELSE next(reach[n - 1])
            BY <1>6, <2>1
        <2>3. 0 \in 0 .. N /\ \A n \in 1 .. N : n \in 0 .. N /\ n # 0
            BY <1>1
        <2>4. QED BY <2>2, <2>3
    <1>9. \A n \in 0 .. N : reach[n] \in SUBSET StoredBlocks
        <2> DEFINE X == SUBSET StoredBlocks
        <2>1. reach[0] \in X /\ \A n \in 1 .. N : reach[n - 1] \in X => reach[n] \in X
            BY <1>2, <1>8
        <2> HIDE DEF X
        <2>2. \A n \in 0 .. N : reach[n] \in X
            BY <1>1, <2>1, RecursionStays
        <2>3. QED BY <2>2 DEF X
    <1>10. reach \in [0 .. N -> SUBSET StoredBlocks]
        BY <1>6, <1>9
    <1>11. QED BY <1>7, <1>8, <1>10 DEF N, next

\* d is above b, and the search has come to it through its predecessor.
Reached(found, b, s, d) ==
    /\ b \in Line(d) /\ b # d
    /\ Parent[d] = b \/ (Parent[d] \in s /\ Lookup(found, Parent[d]) # {})

\* A traversal finds only successors, and with each all blocks in between,
LEMMA TraversalSound ==
    ASSUME NEW found, EdgesInv(found), NEW b \in All, NEW c \in TraverseSuccessors(found, b)
    PROVE  b \in Ancestors(c) /\ Parent[c] \in TraverseSuccessors(found, b) \cup {b}
    <1> DEFINE N == Cardinality(All)
               X == {s \in SUBSET StoredBlocks : \A d \in s : Reached(found, b, s, d)}
    <1>1. PICK reach \in [0 .. N -> SUBSET StoredBlocks] :
            /\ reach[0] = {}
            /\ \A n \in 1 .. N : reach[n] = Further(found, b, reach[n - 1])
            /\ TraverseSuccessors(found, b) = Looked(found, reach[N])
        BY TraversalIs, Zenon
    <1>2. N \in Nat
        BY EnoughSteps
    <1>3. reach[0] \in X
        BY <1>1
    <1>4. ASSUME NEW n \in 1 .. N, reach[n - 1] \in X PROVE reach[n] \in X
        <2> DEFINE s == reach[n - 1]
        <2>1. ASSUME NEW e \in found.edges, e[1] \in s \cup {b}
              PROVE  e[2] \in Blocks /\ b \in Line(e[2]) /\ b # e[2] /\ Parent[e[2]] = e[1]
            <3>1. PICK d \in Blocks : e = <<Parent[d], d>>
                BY <2>1 DEF EdgesInv
            <3>2. d \in All /\ d # Genesis /\ Parent[d] \in All
                BY LedgerAssumption DEF All
            <3>3. b \in Line(Parent[d])
                BY <1>4, <2>1, <3>1, LineClosed DEF Reached
            <3>4. b \in Line(d)
                BY <3>2, <3>3, LineIs
            <3>5. b # d
                <4>1. Index[d] = Index[Parent[d]] + 1 /\ Index[Parent[d]] \in Nat
                    BY <3>2, LedgerAssumption
                <4>2. b = Parent[d] \/ Index[b] < Index[Parent[d]]
                    BY <3>2, <3>3, LineIs
                <4>3. QED BY <4>1, <4>2
            <3>6. QED BY <3>1, <3>4, <3>5
        <2>2. n \in 0 .. N /\ reach[n] \in SUBSET StoredBlocks /\ reach[n] = Further(found, b, s)
            BY <1>1, <1>2
        <2>3. CASE \E d \in s : Lookup(found, d) = {}
            <3>1. reach[n] = s
                BY <2>2, <2>3 DEF Further
            <3>2. QED BY <1>4, <3>1
        <2>4. CASE \A d \in s : Lookup(found, d) # {}
            <3> DEFINE t == {e[2] : e \in {x \in found.edges : x[1] \in s \cup {b}}}
            <3>1. reach[n] = s \cup t
                BY <2>2, <2>4 DEF Further
            <3>2. ASSUME NEW d \in s PROVE Reached(found, b, s \cup t, d)
                <4>1. Reached(found, b, s, d)
                    BY <1>4, <3>2
                <4>2. QED BY <4>1 DEF Reached
            <3>3. ASSUME NEW d \in t PROVE Reached(found, b, s \cup t, d)
                <4>1. PICK e \in found.edges : e[1] \in s \cup {b} /\ d = e[2]
                    BY <3>3
                <4>2. b \in Line(d) /\ b # d /\ Parent[d] \in s \cup {b}
                    BY <2>1, <4>1
                <4> HIDE DEF t
                <4>3. QED BY <2>4, <4>2 DEF Reached
            <3> HIDE DEF t, s
            <3>4. \A d \in s \cup t : Reached(found, b, s \cup t, d)
                BY <3>2, <3>3
            <3>5. QED BY <2>2, <3>1, <3>4
        <2>5. QED BY <2>3, <2>4
    <1> HIDE DEF N, X
    <1>5. \A n \in 0 .. N : reach[n] \in X
        BY <1>2, <1>3, <1>4, RecursionStays
    <1>6. c \in reach[N]
        BY <1>1, LookupIs DEF Looked
    <1>7. c \in Blocks /\ Reached(found, b, reach[N], c)
        BY <1>2, <1>5, <1>6 DEF X, StoredBlocks
    <1>8. b \in Ancestors(c)
        BY <1>7, LineIs DEF All, Reached
    <1>9. ASSUME Parent[c] # b PROVE Parent[c] \in TraverseSuccessors(found, b)
        <2>1. Parent[c] \in reach[N] /\ Lookup(found, Parent[c]) = {Parent[c]}
            BY <1>7, <1>9, LookupIs DEF Reached
        <2>2. QED BY <1>1, <2>1 DEF Looked
    <1>10. QED BY <1>8, <1>9

\* and every successor, if the blocks on the way there are linked and the reads
\* do not fail.
LEMMA TraversalComplete ==
    ASSUME NEW found, EdgesInv(found), NEW b \in All, NEW c \in All, found.unread = {},
           c \in Linked(found), b \in Ancestors(c),
           Ancestors(c) \subseteq Linked(found) \cup Line(b)
    PROVE  c \in TraverseSuccessors(found, b)
    <1> DEFINE N == Cardinality(All)
    <1>1. PICK reach \in [0 .. N -> SUBSET StoredBlocks] :
            /\ reach[0] = {}
            /\ \A n \in 1 .. N : reach[n] = Further(found, b, reach[n - 1])
            /\ TraverseSuccessors(found, b) = Looked(found, reach[N])
        BY TraversalIs, Zenon
    <1>a. ASSUME NEW s \in SUBSET StoredBlocks
          PROVE  Looked(found, s) = s /\ \A d \in s : Lookup(found, d) # {}
        <2>1. \A d \in s : Lookup(found, d) = {d}
            BY LookupIs DEF StoredBlocks
        <2>2. QED BY <2>1 DEF Looked
    <1>2. N \in Nat /\ Index[b] \in Nat /\ Index[c] \in Nat /\ Index[c] < N
        BY EnoughSteps, LedgerAssumption
    <1> HIDE DEF N
    <1> DEFINE S == {n \in Nat : n < N => \A x \in Line(c) :
                        b \in Line(x) /\ Index[x] = Index[b] + n + 1 => x \in reach[n + 1]}
    \* One step to a block whose predecessor was found.
    <1>3. ASSUME NEW n \in 1 .. N, NEW x \in Line(c), Index[b] < Index[x],
                 Parent[x] \in reach[n - 1] \cup {b}
          PROVE  x \in reach[n]
        <2>1. x \notin Line(b)
            <3>1. x \in All /\ Index[x] \in Nat
                BY LineClosed, LedgerAssumption
            <3>2. \A d \in Line(b) : d = b \/ Index[d] < Index[b]
                BY LineIs
            <3>3. QED BY <1>2, <1>3, <3>1, <3>2
        <2>2. x \in Linked(found)
            BY <1>3, <2>1 DEF Line
        <2>3. <<Parent[x], x>> \in found.edges
            BY <2>2 DEF EdgesInv
        <2>4. <<Parent[x], x>>[1] = Parent[x] /\ <<Parent[x], x>>[2] = x
            OBVIOUS
        <2>5. n - 1 \in 0 .. N /\ reach[n - 1] \in SUBSET StoredBlocks
            BY <1>1, <1>2, <1>3
        <2>6. \A d \in reach[n - 1] : Lookup(found, d) # {}
            BY <1>a, <2>5
        <2>7. reach[n] = Further(found, b, reach[n - 1])
            BY <1>1, <1>3
        <2>8. x \in {e[2] : e \in {d \in found.edges : d[1] \in reach[n - 1] \cup {b}}}
            BY <1>3, <2>3, <2>4
        <2>9. QED BY <2>6, <2>7, <2>8 DEF Further
    \* A block above b has a predecessor from b on.
    <1>4. ASSUME NEW n \in Nat, NEW x \in Line(c), b \in Line(x), Index[x] = Index[b] + n + 1
          PROVE  /\ x # Genesis /\ Parent[x] \in Line(c) /\ b \in Line(Parent[x])
                 /\ Parent[x] \in All /\ Index[Parent[x]] = Index[b] + n
                 /\ Index[b] < Index[x]
        <2>1. x \in All
            BY LineClosed
        <2>2. x # Genesis /\ b # x
            BY <1>2, <1>4, LedgerAssumption
        <2>3. Parent[x] \in Line(c) /\ b \in Line(Parent[x]) /\ Parent[x] \in All
            BY <1>4, <2>1, <2>2, LineClosed, LineIs
        <2>4. Index[x] = Index[Parent[x]] + 1 /\ Index[Parent[x]] \in Nat
            BY <2>1, <2>2, <2>3, LedgerAssumption DEF All
        <2>5. \A i, j \in Nat : j + 1 = i + n + 1 => j = i + n
            OBVIOUS
        <2>6. Index[Parent[x]] + 1 = Index[b] + n + 1
            BY <1>4, <2>4
        <2>7. Index[Parent[x]] = Index[b] + n
            BY <1>2, <2>4, <2>5, <2>6
        <2>8. Index[b] < Index[x]
            BY <1>2, <1>4
        <2>9. QED BY <2>2, <2>3, <2>7, <2>8
    <1>5. 0 \in S
        <2> SUFFICES ASSUME 0 < N, NEW x \in Line(c), b \in Line(x), Index[x] = Index[b] + 0 + 1
                     PROVE  x \in reach[0 + 1]
            OBVIOUS
        <2>1. x # Genesis /\ b \in Line(Parent[x]) /\ Parent[x] \in All
              /\ Index[Parent[x]] = Index[b] + 0 /\ Index[b] < Index[x]
            BY <1>4
        <2>2. Parent[x] = b
            BY <1>2, <2>1, LineIs
        <2>3. 0 + 1 \in 1 .. N
            BY <1>2
        <2>4. QED BY <1>3, <2>1, <2>2, <2>3
    <1>6. ASSUME NEW n \in Nat, n \in S PROVE n + 1 \in S
        <2> SUFFICES ASSUME n + 1 < N, NEW x \in Line(c), b \in Line(x),
                            Index[x] = Index[b] + (n + 1) + 1
                     PROVE  x \in reach[(n + 1) + 1]
            BY <1>6
        <2>1. /\ x # Genesis /\ Parent[x] \in Line(c) /\ b \in Line(Parent[x])
              /\ Index[Parent[x]] = Index[b] + n + 1 /\ Index[b] < Index[x]
            <3>1. n + 1 \in Nat
                OBVIOUS
            <3>2. /\ x # Genesis /\ Parent[x] \in Line(c) /\ b \in Line(Parent[x])
                  /\ Index[Parent[x]] = Index[b] + (n + 1) /\ Index[b] < Index[x]
                BY <1>4, <3>1
            <3>3. QED BY <1>2, <3>2
        <2>2. n < N /\ (n + 1) + 1 \in 1 .. N /\ ((n + 1) + 1) - 1 = n + 1
            BY <1>2
        <2>3. Parent[x] \in reach[n + 1]
            BY <1>6, <2>1, <2>2
        <2>4. QED BY <1>3, <2>1, <2>2, <2>3
    <1> HIDE DEF S
    <1>7. Nat \subseteq S
        BY <1>5, <1>6, SetInduction
    <1>8. b \in Line(c) /\ Index[b] < Index[c]
        BY LineIs
    <1>9. PICK n \in Nat : n < N /\ Index[c] = Index[b] + n + 1
        <2>1. /\ (Index[c] - Index[b]) - 1 \in Nat /\ (Index[c] - Index[b]) - 1 < N
              /\ Index[c] = Index[b] + ((Index[c] - Index[b]) - 1) + 1
            BY <1>2, <1>8
        <2>2. QED BY <2>1
    <1>10. c \in reach[n + 1]
        BY <1>7, <1>8, <1>9, LineClosed DEF S
    <1>11. reach[n + 1] \subseteq reach[N]
        <2>1. \A m \in 1 .. N : reach[m - 1] \subseteq reach[m]
            BY <1>1 DEF Further
        <2>2. N \in 0 .. N /\ n + 1 \in 0 .. N
            BY <1>2, <1>9
        <2>3. QED BY <1>2, <2>1, <2>2, Growing
    <1>12. TraverseSuccessors(found, b) = reach[N]
        BY <1>1, <1>2, <1>a
    <1>13. QED BY <1>10, <1>11, <1>12

\* TraverseSuccessors returns nothing but successors of the block and leaves no
\* gap, even if a failed read ends it early; when no lookup fails it returns each
\* successor that had been linked with all blocks in between before the call,
\* whatever AddBlock, a failed write or a restart did while it read.
THEOREM SuccessorsAreFound == Spec => []SuccessorsFound
    <1>1. LedgerInv => SuccessorsFound
        <2> SUFFICES ASSUME LedgerInv, NEW found \in Found("TraverseSuccessors"),
                            NEW b \in found.listed
                     PROVE  /\ \A c \in TraverseSuccessors(found, b) :
                                /\ b \in Ancestors(c)
                                /\ Parent[c] \in TraverseSuccessors(found, b) \cup {b}
                            /\ found.unread = {} => \A c \in Linked(found) :
                                /\ b \in Ancestors(c)
                                /\ Ancestors(c) \subseteq Linked(found) \cup Ancestors(b) \cup {b}
                                => c \in TraverseSuccessors(found, b)
            BY DEF SuccessorsFound
        <2>1. EdgesInv(found) /\ ListedInv(found) /\ b \in All
            BY FoundIs DEF ListedInv
        <2>2. \A c \in TraverseSuccessors(found, b) :
                b \in Ancestors(c) /\ Parent[c] \in TraverseSuccessors(found, b) \cup {b}
            BY <2>1, TraversalSound
        <2>3. ASSUME found.unread = {}, NEW c \in Linked(found), b \in Ancestors(c),
                     Ancestors(c) \subseteq Linked(found) \cup Ancestors(b) \cup {b}
              PROVE  c \in TraverseSuccessors(found, b)
            <3>1. c \in All
                BY <2>1 DEF ListedInv, Linked
            <3>2. Ancestors(c) \subseteq Linked(found) \cup Line(b)
                BY <2>3 DEF Line
            <3>3. QED BY <2>1, <2>3, <3>1, <3>2, TraversalComplete
        <2>4. QED BY <2>2, <2>3
    <1>2. QED BY <1>1, LedgerInvariant, PTL
===============================================================================
