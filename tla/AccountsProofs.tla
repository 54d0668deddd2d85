---------------------------- MODULE AccountsProofs ----------------------------
(***************************************************************************)
(* Proofs about Accounts, for any number of processes and of accounts,       *)
(* whenever one of them crashes and whichever writes fail.                   *)
(***************************************************************************)
EXTENDS Accounts, Integers, WellFoundedInduction, TLAPS

-----------------------------------------------------------------------------
(* Least and greatest numbers *)

\* A non-empty set of natural numbers has a least element.
LEMMA NatMin ==
    ASSUME NEW S, S \subseteq Nat, S # {}
    PROVE  \E m \in S : \A n \in S : m <= n
    <1> DEFINE R == OpToRel(<, Nat)
    <1>1. \A m, n \in Nat : n < m => <<n, m>> \in R
        BY DEF OpToRel
    <1>2. IsWellFoundedOn(R, Nat)
        BY NatLessThanWellFounded
    <1> HIDE DEF R
    <1>3. PICK m \in S : \A n \in S : <<n, m>> \notin R
        BY <1>2, WFMin
    <1>4. \A n \in S : ~(n < m)
        BY <1>1, <1>3
    <1>5. QED BY <1>3, <1>4

\* Max is one of the elements of a set that is bounded.
LEMMA MaxIsElement ==
    ASSUME NEW N \in Nat, NEW S, S \subseteq 0 .. N, S # {}
    PROVE  Max(S) \in S /\ \A n \in S : n <= Max(S)
    <1> DEFINE T == {N - x : x \in S}
    <1>1. T \subseteq Nat
        OBVIOUS
    <1>2. T # {}
        <2>1. PICK x : x \in S
            OBVIOUS
        <2>2. N - x \in T
            BY <2>1
        <2>3. QED BY <2>2
    <1>3. PICK m \in T : \A n \in T : m <= n
        BY <1>1, <1>2, NatMin
    <1>4. PICK x \in S : m = N - x
        BY <1>3
    <1>5. \A y \in S : x >= y
        BY <1>3, <1>4
    <1>6. Max(S) \in S /\ \A n \in S : Max(S) >= n
        BY <1>4, <1>5 DEF Max
    <1>7. QED BY <1>6

-----------------------------------------------------------------------------
(* The inductive invariant *)

\* The two maps of a store, where D are the accounts that exist: an account with
\* an address is in both.
MapsInv(k, a, D) ==
    /\ IsPartialMap(k, D, D \cup {NoAddress})
    /\ IsPartialMap(a, D \cup {NoAddress}, D)
    /\ \A id \in DOMAIN k : k[id] # NoAddress =>
        k[id] = id /\ id \in DOMAIN a /\ a[id] = id

\* What a process has in memory.
MemoryInv ==
    /\ DOMAIN keys = Procs /\ DOMAIN addresses = Procs
    /\ keys = [p \in Procs |-> keys[p]] /\ addresses = [p \in Procs |-> addresses[p]]
    /\ \A p \in Procs :
        /\ MapsInv(keys[p], addresses[p], DOMAIN name)
        /\ ~opened[p] => keys[p] = Empty /\ addresses[p] = Empty /\ saving[p] = None

\* An account is in Save once: it is new, and no two processes write one file.
SavingInv ==
    /\ \A p \in Procs : saving[p] # None =>
        /\ saving[p] \in DOMAIN name \ persisted
        /\ files[saving[p]] = "none" => saving[p] \in deleted
    /\ \A p, q \in Procs : saving[p] = saving[q] /\ saving[p] # None => p = q

\* What the files say of the accounts.
FilesInv ==
    /\ \A id \in PeerIDs : files[id] # "none" => id \in DOMAIN name
    /\ \A id \in persisted \ deleted : files[id] = "whole"
    /\ \A id \in deleted : files[id] = "none"

SharedTypes ==
    /\ IsPartialMap(name, PeerIDs, Names)
    /\ files \in [PeerIDs -> {"none", "unreadable", "partial", "whole"}]
    /\ opened \in [Procs -> BOOLEAN]
    /\ saving \in [Procs -> PeerIDs \cup {None}]
    /\ persisted \subseteq DOMAIN name /\ deleted \subseteq DOMAIN name

AccountsInv == SharedTypes /\ MemoryInv /\ SavingInv /\ FilesInv

-----------------------------------------------------------------------------
(* The maps *)


LEMMA OverIs ==
    ASSUME NEW f, NEW g
    PROVE  /\ DOMAIN Over(f, g) = DOMAIN f \cup DOMAIN g
           /\ \A x \in DOMAIN f : Over(f, g)[x] = f[x]
           /\ \A x \in DOMAIN g \ DOMAIN f : Over(f, g)[x] = g[x]
    BY DEF Over

LEMMA PutIs ==
    ASSUME NEW f, NEW key, NEW value
    PROVE  /\ DOMAIN Put(f, key, value) = DOMAIN f \cup {key}
           /\ Put(f, key, value)[key] = value
           /\ \A x \in DOMAIN f \ {key} : Put(f, key, value)[x] = f[x]
    BY DEF Put, Over

LEMMA OverIsPartialMap ==
    ASSUME NEW D, NEW R, NEW f, NEW g, IsPartialMap(f, D, R), IsPartialMap(g, D, R)
    PROVE  IsPartialMap(Over(f, g), D, R)
    <1>1. DOMAIN Over(f, g) \subseteq D
        BY OverIs DEF IsPartialMap
    <1>2. ASSUME NEW x \in DOMAIN Over(f, g) PROVE Over(f, g)[x] \in R
        BY <1>2 DEF Over, IsPartialMap
    <1>3. QED BY <1>1, <1>2 DEF IsPartialMap

\* Load, with or without an error, keeps the two maps in step.
LEMMA LoadedMaps ==
    ASSUME SharedTypes, FilesInv, NEW k, NEW a, MapsInv(k, a, DOMAIN name)
    PROVE  MapsInv(Over(LoadedKeys, k), Over(LoadedAddresses, a), DOMAIN name)
    <1> DEFINE D == DOMAIN name
               nk == Over(LoadedKeys, k)
               na == Over(LoadedAddresses, a)
    <1>1. Loaded \subseteq D /\ Loaded \subseteq PeerIDs
        BY DEF Loaded, Present, FilesInv
    <1>2. \A id \in PeerIDs : id \in Nat /\ id # NoAddress /\ id <= MaxAccounts
        BY AccountsAssumption DEF PeerIDs, NoAddress
    <1>3. DOMAIN LoadedKeys = Loaded /\ \A id \in Loaded : LoadedKeys[id] = LoadedAddress(id)
        BY DEF LoadedKeys
    <1>4. \A id \in Loaded : LoadedAddress(id) \in {id, NoAddress}
        BY DEF LoadedAddress
    <1> DEFINE With(x) == {id \in Loaded : LoadedAddress(id) = x}
               A == {LoadedAddress(id) : id \in Loaded}
    <1>5. DOMAIN LoadedAddresses = A /\ \A x \in A : LoadedAddresses[x] = Max(With(x))
        BY DEF LoadedAddresses
    <1>6. ASSUME NEW x \in A
          PROVE  /\ Max(With(x)) \in Loaded
                 /\ x \in D \cup {NoAddress}
                 /\ x # NoAddress => x \in Loaded /\ Max(With(x)) = x
        <2>1. With(x) \subseteq 0 .. MaxAccounts /\ With(x) # {}
            BY <1>1, <1>2
        <2>2. Max(With(x)) \in With(x)
            BY <2>1, AccountsAssumption, MaxIsElement
        <2>3. QED BY <1>1, <1>4, <2>2
    <1>7. IsPartialMap(nk, D, D \cup {NoAddress})
        <2>1. IsPartialMap(LoadedKeys, D, D \cup {NoAddress})
            BY <1>1, <1>3, <1>4 DEF IsPartialMap
        <2>2. QED BY <2>1, OverIsPartialMap DEF MapsInv
    <1> HIDE DEF With, A
    <1>8. IsPartialMap(na, D \cup {NoAddress}, D)
        <2>1. IsPartialMap(LoadedAddresses, D \cup {NoAddress}, D)
            BY <1>1, <1>5, <1>6 DEF IsPartialMap
        <2>2. QED BY <2>1, OverIsPartialMap DEF MapsInv
    <1>9. /\ DOMAIN nk = Loaded \cup DOMAIN k
          /\ \A x \in Loaded : nk[x] = LoadedAddress(x)
          /\ \A x \in DOMAIN k \ Loaded : nk[x] = k[x]
        <2> DEFINE f == LoadedKeys
        <2> HIDE DEF f
        <2>1. nk = Over(f, k)
            BY DEF f
        <2>2. /\ DOMAIN Over(f, k) = DOMAIN f \cup DOMAIN k
              /\ \A x \in DOMAIN f : Over(f, k)[x] = f[x]
              /\ \A x \in DOMAIN k \ DOMAIN f : Over(f, k)[x] = k[x]
            BY OverIs
        <2>3. DOMAIN f = Loaded /\ \A x \in Loaded : f[x] = LoadedAddress(x)
            BY <1>3 DEF f
        <2> HIDE DEF nk
        <2>4. QED BY <2>1, <2>2, <2>3
    <1>10. /\ DOMAIN na = A \cup DOMAIN a
           /\ \A x \in A : na[x] = Max(With(x))
           /\ \A x \in DOMAIN a \ A : na[x] = a[x]
        <2> DEFINE f == LoadedAddresses
        <2> HIDE DEF f
        <2>1. na = Over(f, a)
            BY DEF f
        <2>2. /\ DOMAIN Over(f, a) = DOMAIN f \cup DOMAIN a
              /\ \A x \in DOMAIN f : Over(f, a)[x] = f[x]
              /\ \A x \in DOMAIN a \ DOMAIN f : Over(f, a)[x] = a[x]
            BY OverIs
        <2>3. DOMAIN f = A /\ \A x \in A : f[x] = Max(With(x))
            BY <1>5 DEF f
        <2> HIDE DEF na
        <2>4. QED BY <2>1, <2>2, <2>3
    <1> HIDE DEF nk, na
    <1>11. ASSUME NEW id \in DOMAIN nk, nk[id] # NoAddress
           PROVE  nk[id] = id /\ id \in DOMAIN na /\ na[id] = id
        <2>1. CASE id \in Loaded
            <3>1. nk[id] = LoadedAddress(id)
                BY <1>9, <2>1
            <3>2. LoadedAddress(id) = id
                BY <1>4, <1>11, <2>1, <3>1
            <3>3. id \in A /\ id # NoAddress
                BY <1>11, <2>1, <3>1, <3>2 DEF A
            <3>4. na[id] = id /\ id \in DOMAIN na
                BY <1>6, <1>10, <3>3
            <3>5. QED BY <3>1, <3>2, <3>4
        <2>2. CASE id \notin Loaded
            <3>1. id \in DOMAIN k /\ nk[id] = k[id]
                BY <1>9, <1>11, <2>2
            <3>2. k[id] = id /\ id \in DOMAIN a /\ a[id] = id
                BY <1>11, <3>1 DEF MapsInv
            <3>3. id # NoAddress
                BY <1>11, <3>1, <3>2
            <3>4. id \notin A
                BY <1>6, <2>2, <3>3
            <3>5. na[id] = id /\ id \in DOMAIN na
                BY <1>10, <3>2, <3>4
            <3>6. QED BY <3>1, <3>2, <3>5
        <2>3. QED BY <2>1, <2>2
    <1>12. QED BY <1>7, <1>8, <1>11 DEF MapsInv, nk, na

\* So does an account that goes into memory after Create,
LEMMA StoredMaps ==
    ASSUME NEW D, NEW k, NEW a, MapsInv(k, a, D), NEW id \in D
    PROVE  MapsInv(Put(k, id, id), Put(a, id, id), D)
    <1> DEFINE nk == Put(k, id, id)
               na == Put(a, id, id)
    <1>0. /\ DOMAIN nk = DOMAIN k \cup {id} /\ nk[id] = id
          /\ \A x \in DOMAIN k \ {id} : nk[x] = k[x]
        BY DEF Put, Over
    <1>1. /\ DOMAIN na = DOMAIN a \cup {id} /\ na[id] = id
          /\ \A x \in DOMAIN a \ {id} : na[x] = a[x]
        BY DEF Put, Over
    <1> HIDE DEF nk, na
    <1>2. IsPartialMap(nk, D, D \cup {NoAddress}) /\ IsPartialMap(na, D \cup {NoAddress}, D)
        BY <1>0, <1>1 DEF IsPartialMap, MapsInv
    <1>3. ASSUME NEW x \in DOMAIN nk, nk[x] # NoAddress
          PROVE  nk[x] = x /\ x \in DOMAIN na /\ na[x] = x
        BY <1>0, <1>1, <1>3 DEF MapsInv
    <1>4. QED BY <1>2, <1>3 DEF MapsInv, nk, na

\* and one that Delete takes out of the first map.
LEMMA DeletedMaps ==
    ASSUME NEW D, NEW k, NEW a, MapsInv(k, a, D), NEW id
    PROVE  MapsInv(Restrict(k, DOMAIN k \ {id}), a, D)
    <1> DEFINE nk == Restrict(k, DOMAIN k \ {id})
    <1>1. DOMAIN nk = DOMAIN k \ {id} /\ \A x \in DOMAIN nk : nk[x] = k[x]
        BY DEF Restrict
    <1> HIDE DEF nk
    <1>2. QED BY <1>1 DEF MapsInv, IsPartialMap, nk

LEMMA EmptyMaps == \A D : MapsInv(Empty, Empty, D)
    BY DEF MapsInv, IsPartialMap, Empty

\* More accounts may exist.
LEMMA MapsGrow ==
    ASSUME NEW D, NEW E, D \subseteq E, NEW k, NEW a, MapsInv(k, a, D)
    PROVE  MapsInv(k, a, E)
    BY DEF MapsInv, IsPartialMap

-----------------------------------------------------------------------------
(* Every step preserves the invariant *)

LEMMA AccountsInvInit == Init => AccountsInv
    <1> SUFFICES ASSUME Init PROVE AccountsInv
        OBVIOUS
    <1>1. SharedTypes
        BY DEF Init, SharedTypes, IsPartialMap, Empty
    <1>2. MemoryInv
        BY EmptyMaps DEF Init, MemoryInv
    <1>3. SavingInv /\ FilesInv
        BY DEF Init, SavingInv, FilesInv
    <1>4. QED BY <1>1, <1>2, <1>3 DEF AccountsInv

\* A step of process p that leaves maps k and a in its memory.
LEMMA MemoryStep ==
    ASSUME MemoryInv, NEW p \in Procs, NEW k, NEW a,
           keys' = [keys EXCEPT ![p] = k], addresses' = [addresses EXCEPT ![p] = a],
           DOMAIN name \subseteq DOMAIN name', MapsInv(k, a, DOMAIN name'),
           ~opened'[p] => k = Empty /\ a = Empty /\ saving'[p] = None,
           \A q \in Procs \ {p} : opened'[q] = opened[q] /\ saving'[q] = saving[q]
    PROVE  MemoryInv'
    <1>1. /\ DOMAIN keys' = Procs /\ DOMAIN addresses' = Procs
          /\ keys' = [q \in Procs |-> keys'[q]] /\ addresses' = [q \in Procs |-> addresses'[q]]
        BY DEF MemoryInv
    <1>2. keys'[p] = k /\ addresses'[p] = a
        BY DEF MemoryInv
    <1>3. ASSUME NEW q \in Procs
          PROVE  /\ MapsInv(keys'[q], addresses'[q], DOMAIN name')
                 /\ ~opened'[q] => keys'[q] = Empty /\ addresses'[q] = Empty /\ saving'[q] = None
        <2>1. CASE q = p
            BY <1>2, <2>1
        <2>2. CASE q # p
            <3>1. keys'[q] = keys[q] /\ addresses'[q] = addresses[q]
                BY <2>2 DEF MemoryInv
            <3>2. MapsInv(keys[q], addresses[q], DOMAIN name')
                BY MapsGrow DEF MemoryInv
            <3>3. QED BY <2>2, <3>1, <3>2 DEF MemoryInv
        <2>3. QED BY <2>1, <2>2
    <1>4. \A q \in Procs : MapsInv(keys[q], addresses[q], DOMAIN name)'
        BY <1>3 DEF MapsInv, IsPartialMap
    <1>5. QED BY <1>1, <1>3, <1>4 DEF MemoryInv, Empty, None

\* A step of process p that changes no map.
LEMMA MemoryKept ==
    ASSUME MemoryInv, NEW p \in Procs, UNCHANGED <<keys, addresses, opened>>,
           DOMAIN name \subseteq DOMAIN name', opened[p],
           \A q \in Procs \ {p} : saving'[q] = saving[q]
    PROVE  MemoryInv'
    <1>1. /\ keys' = [keys EXCEPT ![p] = keys[p]]
          /\ addresses' = [addresses EXCEPT ![p] = addresses[p]]
        BY DEF MemoryInv
    <1>2. MapsInv(keys[p], addresses[p], DOMAIN name')
        BY MapsGrow DEF MemoryInv
    <1>3. opened'[p] /\ \A q \in Procs \ {p} : opened'[q] = opened[q] /\ saving'[q] = saving[q]
        OBVIOUS
    <1>4. QED BY <1>1, <1>2, <1>3, MemoryStep

\* What is in Save has an open store.
LEMMA SavingIsOpen ==
    ASSUME MemoryInv, SharedTypes, NEW p \in Procs, saving[p] # None
    PROVE  opened[p] /\ saving[p] \in PeerIDs
    BY DEF MemoryInv, SharedTypes

LEMMA AccountsInvNext == AccountsInv /\ [Next]_vars => AccountsInv'
    <1> SUFFICES ASSUME AccountsInv, [Next]_vars PROVE AccountsInv'
        OBVIOUS
    <1> USE DEF AccountsInv
    <1>1. ASSUME NEW p \in Procs, NewManager(p) PROVE AccountsInv'
        <2>1. MapsInv(Over(LoadedKeys, Empty), Over(LoadedAddresses, Empty), DOMAIN name)
            BY LoadedMaps, EmptyMaps
        <2>2. SharedTypes'
            BY <1>1 DEF NewManager, SharedTypes
        <2>3. opened'[p] /\ \A q \in Procs \ {p} : opened'[q] = opened[q] /\ saving'[q] = saving[q]
            BY <1>1 DEF NewManager, SharedTypes
        <2>4. MemoryInv'
            BY <1>1, <2>1, <2>3, MemoryStep DEF NewManager, StoreLoad
        <2>5. SavingInv' /\ FilesInv'
            BY <1>1 DEF NewManager, SavingInv, FilesInv
        <2>6. QED BY <2>2, <2>4, <2>5
    <1>2. ASSUME NEW p \in Procs, Load(p) PROVE AccountsInv'
        <2>1. MapsInv(Over(LoadedKeys, keys[p]), Over(LoadedAddresses, addresses[p]), DOMAIN name)
            BY LoadedMaps DEF MemoryInv
        <2>2. MemoryInv'
            BY <1>2, <2>1, MemoryStep DEF Load, StoreLoad, Ready
        <2>3. SharedTypes' /\ SavingInv' /\ FilesInv'
            BY <1>2 DEF Load, SharedTypes, SavingInv, FilesInv
        <2>4. QED BY <2>2, <2>3
    <1>3. ASSUME NEW p \in Procs, Exit(p) PROVE AccountsInv'
        <2>1. SharedTypes'
            BY <1>3 DEF Exit, SharedTypes
        <2>2. saving'[p] = None /\ \A q \in Procs \ {p} :
                opened'[q] = opened[q] /\ saving'[q] = saving[q]
            BY <1>3 DEF Exit, SharedTypes
        <2>3. MemoryInv'
            BY <1>3, <2>2, EmptyMaps, MemoryStep DEF Exit
        <2>4. SavingInv' /\ FilesInv'
            BY <1>3, <2>2 DEF Exit, SavingInv, FilesInv
        <2>5. QED BY <2>1, <2>3, <2>4
    <1>4. ASSUME NEW p \in Procs, NEW n \in Names, NEW persist \in BOOLEAN, Create(p, n, persist)
          PROVE  AccountsInv'
        <2>1. PICK id \in PeerIDs \ DOMAIN name :
                /\ name' = Put(name, id, n)
                /\ IF persist
                   THEN /\ saving' = [saving EXCEPT ![p] = id]
                        /\ files' = [files EXCEPT ![id] = "unreadable"]
                        /\ UNCHANGED <<keys, addresses>>
                   ELSE /\ StoreAccount(p, id)
                        /\ UNCHANGED <<saving, files>>
            BY <1>4 DEF Create
        <2>2. /\ DOMAIN name' = DOMAIN name \cup {id}
              /\ IsPartialMap(name', PeerIDs, Names)
            <3>1. name' = Put(name, id, n) /\ IsPartialMap(name, PeerIDs, Names)
                BY <2>1 DEF SharedTypes
            <3>2. QED BY <3>1 DEF Put, Over, IsPartialMap
        <2>3. UNCHANGED <<opened, persisted, deleted>> /\ opened[p]
            BY <1>4 DEF Create, Ready
        <2>4. id # None
            BY DEF PeerIDs, None
        <2>5. CASE persist
            <3>1. /\ saving' = [saving EXCEPT ![p] = id]
                  /\ files' = [files EXCEPT ![id] = "unreadable"]
                  /\ UNCHANGED <<keys, addresses>>
                BY <2>1, <2>5
            <3>2. SharedTypes'
                BY <2>2, <2>3, <3>1 DEF SharedTypes, IsPartialMap
            <3>3. \A q \in Procs : saving'[q] = IF q = p THEN id ELSE saving[q]
                BY <3>1 DEF SharedTypes
            <3>4. \A i \in PeerIDs : files'[i] = IF i = id THEN "unreadable" ELSE files[i]
                BY <3>1 DEF SharedTypes
            <3>5. MemoryInv'
                BY <2>2, <2>3, <3>1, <3>3, MemoryKept
            <3>6. FilesInv'
                BY <2>2, <2>3, <3>4 DEF FilesInv, SharedTypes, IsPartialMap
            <3>7. SavingInv'
                <4>1. \A q \in Procs \ {p} : saving[q] # id
                    BY <2>4 DEF SavingInv
                <4>2. ASSUME NEW q \in Procs, saving'[q] # None
                      PROVE  /\ saving'[q] \in DOMAIN name' \ persisted'
                             /\ files'[saving'[q]] = "none" => saving'[q] \in deleted'
                    <5>1. CASE q = p
                        BY <2>2, <2>3, <3>3, <3>4, <5>1 DEF SharedTypes
                    <5>2. CASE q # p
                        <6>1. saving'[q] = saving[q] /\ saving[q] # None /\ saving[q] \in PeerIDs
                            BY <3>3, <4>2, <5>2 DEF SharedTypes
                        <6>2. files'[saving[q]] = files[saving[q]]
                            BY <3>4, <4>1, <5>2, <6>1
                        <6>3. QED BY <2>2, <2>3, <6>1, <6>2 DEF SavingInv
                    <5>3. QED BY <5>1, <5>2
                <4>3. QED BY <3>3, <4>1, <4>2 DEF SavingInv, None
            <3>8. QED BY <3>2, <3>5, <3>6, <3>7
        <2>6. CASE ~persist
            <3>1. StoreAccount(p, id) /\ UNCHANGED <<saving, files>>
                BY <2>1, <2>6
            <3>2. MapsInv(keys[p], addresses[p], DOMAIN name')
                BY <2>2, MapsGrow DEF MemoryInv
            <3>3. MapsInv(Put(keys[p], id, id), Put(addresses[p], id, id), DOMAIN name')
                BY <2>2, <3>2, StoredMaps
            <3>4. /\ keys' = [keys EXCEPT ![p] = Put(keys[p], id, id)]
                  /\ addresses' = [addresses EXCEPT ![p] = Put(addresses[p], id, id)]
                BY <3>1 DEF StoreAccount, MemoryInv
            <3>5. MemoryInv'
                BY <2>2, <2>3, <3>1, <3>3, <3>4, MemoryStep
            <3>6. SharedTypes' /\ SavingInv' /\ FilesInv'
                BY <2>2, <2>3, <3>1 DEF SharedTypes, SavingInv, FilesInv, IsPartialMap
            <3>7. QED BY <3>5, <3>6
        <2>7. QED BY <2>5, <2>6
    <1>5. ASSUME NEW p \in Procs, Write(p) PROVE AccountsInv'
        <2> DEFINE id == saving[p]
        <2>1. opened[p] /\ id \in PeerIDs
            BY <1>5, SavingIsOpen DEF Write
        <2>2. MemoryInv'
            BY <1>5, <2>1, MemoryKept DEF Write
        <2>3. SharedTypes'
            BY <1>5 DEF Write, SharedTypes
        <2>4. \A i \in PeerIDs : files'[i] = IF i = id THEN "partial" ELSE files[i]
            BY <1>5 DEF Write, SharedTypes
        <2>5. id \notin persisted /\ id \notin deleted /\ id \in DOMAIN name
            BY <1>5 DEF Write, SavingInv, FilesInv
        <2>6. FilesInv'
            BY <1>5, <2>4, <2>5 DEF Write, FilesInv, SharedTypes, IsPartialMap
        <2>7. SavingInv'
            BY <1>5, <2>4 DEF Write, SavingInv, SharedTypes
        <2>8. QED BY <2>2, <2>3, <2>6, <2>7
    <1>6. ASSUME NEW p \in Procs, SaveFails(p) PROVE AccountsInv'
        <2> DEFINE id == saving[p]
        <2>1. opened[p] /\ id \in PeerIDs
            BY <1>6, SavingIsOpen DEF SaveFails
        <2>2. PICK content \in {"none", files[id]} : files' = [files EXCEPT ![id] = content]
            BY <1>6 DEF SaveFails
        <2>3. SharedTypes'
            BY <1>6, <2>1, <2>2 DEF SaveFails, SharedTypes
        <2>4. \A q \in Procs : saving'[q] = IF q = p THEN None ELSE saving[q]
            BY <1>6 DEF SaveFails, SharedTypes
        <2>5. MemoryInv'
            BY <1>6, <2>1, <2>4, MemoryKept DEF SaveFails
        <2>6. \A i \in PeerIDs : files'[i] = IF i = id THEN content ELSE files[i]
            BY <2>2 DEF SharedTypes
        <2>7. FilesInv'
            BY <1>6, <2>1, <2>6 DEF SaveFails, FilesInv, SavingInv, SharedTypes, IsPartialMap
        <2>8. SavingInv'
            <3>1. ASSUME NEW q \in Procs, saving'[q] # None
                  PROVE  q # p /\ saving'[q] = saving[q] /\ files'[saving[q]] = files[saving[q]]
                BY <1>6, <2>4, <2>6, <3>1 DEF SaveFails, SavingInv, SharedTypes
            <3>2. QED BY <1>6, <3>1 DEF SaveFails, SavingInv, None
        <2>9. QED BY <2>3, <2>5, <2>7, <2>8
    <1>7. ASSUME NEW p \in Procs, SaveSucceeds(p) PROVE AccountsInv'
        <2> DEFINE id == saving[p]
        <2>1. opened[p] /\ id \in PeerIDs /\ id \in DOMAIN name
            BY <1>7, SavingIsOpen DEF SaveSucceeds, SavingInv
        <2>2. files' = [files EXCEPT ![id] = IF files[id] = "none" THEN "none" ELSE "whole"]
            BY <1>7 DEF SaveSucceeds, SharedTypes
        <2>3. SharedTypes'
            BY <1>7, <2>1, <2>2 DEF SaveSucceeds, SharedTypes
        <2>4. \A q \in Procs : saving'[q] = IF q = p THEN None ELSE saving[q]
            BY <1>7 DEF SaveSucceeds, SharedTypes
        <2>5. MemoryInv'
            <3>1. MapsInv(Put(keys[p], id, id), Put(addresses[p], id, id), DOMAIN name)
                BY <2>1, StoredMaps DEF MemoryInv
            <3>2. /\ keys' = [keys EXCEPT ![p] = Put(keys[p], id, id)]
                  /\ addresses' = [addresses EXCEPT ![p] = Put(addresses[p], id, id)]
                  /\ UNCHANGED <<name, opened>>
                BY <1>7 DEF SaveSucceeds, StoreAccount, MemoryInv
            <3>3. QED BY <2>1, <2>4, <3>1, <3>2, MemoryStep
        <2>6. \A i \in PeerIDs : files'[i] =
                IF i = id THEN IF files[i] = "none" THEN "none" ELSE "whole" ELSE files[i]
            BY <2>2 DEF SharedTypes
        <2>7. FilesInv'
            BY <1>7, <2>1, <2>6 DEF SaveSucceeds, FilesInv, SavingInv, SharedTypes, IsPartialMap
        <2>8. SavingInv'
            <3>1. ASSUME NEW q \in Procs, saving'[q] # None
                  PROVE  /\ q # p /\ saving'[q] = saving[q] /\ saving[q] # id
                         /\ files'[saving[q]] = files[saving[q]]
                BY <1>7, <2>4, <2>6, <3>1 DEF SaveSucceeds, SavingInv, SharedTypes
            <3>2. QED BY <1>7, <3>1 DEF SaveSucceeds, SavingInv, None
        <2>9. QED BY <2>3, <2>5, <2>7, <2>8
    <1>8. ASSUME NEW p \in Procs, NEW id \in PeerIDs, Delete(p, id) PROVE AccountsInv'
        <2>1. opened[p] /\ id \in DOMAIN name
            BY <1>8 DEF Delete, Ready, MemoryInv, MapsInv, IsPartialMap
        <2>2. SharedTypes'
            BY <1>8, <2>1 DEF Delete, SharedTypes
        <2>3. MemoryInv'
            <3>1. MapsInv(Restrict(keys[p], DOMAIN keys[p] \ {id}), addresses[p], DOMAIN name)
                BY DeletedMaps DEF MemoryInv
            <3>2. /\ keys' = [keys EXCEPT ![p] = Restrict(keys[p], DOMAIN keys[p] \ {id})]
                  /\ addresses' = [addresses EXCEPT ![p] = addresses[p]]
                  /\ UNCHANGED <<name, opened, saving>>
                BY <1>8 DEF Delete, MemoryInv
            <3>3. QED BY <2>1, <3>1, <3>2, MemoryStep
        <2>4. CASE files' = [files EXCEPT ![id] = "none"] /\ deleted' = deleted \cup {id}
            <3>1. \A i \in PeerIDs : files'[i] = IF i = id THEN "none" ELSE files[i]
                BY <2>4 DEF SharedTypes
            <3>2. FilesInv'
                BY <1>8, <2>4, <3>1 DEF Delete, FilesInv, SharedTypes, IsPartialMap
            <3>3. SavingInv'
                BY <1>8, <2>4, <3>1 DEF Delete, SavingInv, SharedTypes
            <3>4. QED BY <2>2, <2>3, <3>2, <3>3
        <2>5. CASE UNCHANGED <<files, deleted>>
            BY <1>8, <2>2, <2>3, <2>5 DEF Delete, FilesInv, SavingInv
        <2>6. QED BY <1>8, <2>4, <2>5 DEF Delete
    <1>9. CASE UNCHANGED vars
        BY <1>9 DEF vars, SharedTypes, MemoryInv, SavingInv, FilesInv, MapsInv, IsPartialMap
    <1>10. QED
        BY <1>1, <1>2, <1>3, <1>4, <1>5, <1>6, <1>7, <1>8, <1>9 DEF Next

\* Every reachable state satisfies the inductive invariant: the maps of every
\* process, the files and the calls of Save that are under way fit together.
THEOREM AccountsInvariant == Spec => []AccountsInv
    <1>1. QED BY AccountsInvInit, AccountsInvNext, PTL DEF Spec

-----------------------------------------------------------------------------
(* The properties *)

\* The state keeps its types, and a process without a store has nothing in
\* memory.
THEOREM TypeCorrect == Spec => []TypeOK
    <1>1. AccountsInv => TypeOK
        BY DEF AccountsInv, SharedTypes, MemoryInv, MapsInv, TypeOK
    <1>2. QED BY <1>1, AccountsInvariant, PTL

\* An account with an address that GetByPeerID finds is found by GetByAddress,
\* after any Load, Create and Delete.
THEOREM AddressFound == Spec => []FoundByAddress
    <1>1. AccountsInv => FoundByAddress
        <2> SUFFICES ASSUME AccountsInv, NEW p \in Procs, NEW id \in DOMAIN keys[p],
                            keys[p][id] # NoAddress
                     PROVE  GetByAddress(p, keys[p][id]) = id
            BY DEF FoundByAddress, List
        <2>1. keys[p][id] = id /\ id \in DOMAIN addresses[p] /\ addresses[p][id] = id
            BY DEF AccountsInv, MemoryInv, MapsInv
        <2>2. QED BY <2>1 DEF GetByAddress
    <1>2. QED BY <1>1, AccountsInvariant, PTL

\* A step that opens a store is NewManager, which has read every file.
LEMMA OpeningStep ==
    ASSUME AccountsInv, [Next]_vars, NEW p \in Procs, ~opened[p], opened'[p]
    PROVE  /\ keys'[p] = Over(LoadedKeys, Empty)
           /\ Loaded = Present
    <1>1. NewManager(p)
        <2>1. opened' # opened
            OBVIOUS
        <2>2. \E q \in Procs : NewManager(q) \/ Exit(q)
            BY <2>1 DEF Next, vars, Load, Create, Write, SaveFails, SaveSucceeds, Delete
        <2>3. PICK q \in Procs : NewManager(q) \/ Exit(q)
            BY <2>2
        <2>4. p = q /\ ~Exit(q)
            BY <2>3 DEF NewManager, Exit, AccountsInv, SharedTypes
        <2>5. QED BY <2>3, <2>4
    <1>2. keys'[p] = Over(LoadedKeys, Empty)
        BY <1>1 DEF NewManager, StoreLoad, AccountsInv, MemoryInv
    <1>3. Loaded = Present
        BY <1>1 DEF NewManager, LoadSucceeds, Loaded
    <1>4. QED BY <1>2, <1>3

\* A process that opens the store finds every persisted account that was not
\* deleted, with its address.
THEOREM OpeningFindsAll == Spec => OpenFindsAll
    <1>1. AccountsInv /\ [Next]_vars =>
            [\A p \in Procs : ~opened[p] /\ opened'[p] =>
                \A id \in persisted \ deleted : id \in DOMAIN keys'[p] /\ keys'[p][id] = id]_vars
        <2> SUFFICES ASSUME AccountsInv, [Next]_vars, NEW p \in Procs, ~opened[p], opened'[p],
                            NEW id \in persisted \ deleted
                     PROVE  id \in DOMAIN keys'[p] /\ keys'[p][id] = id
            OBVIOUS
        <2>1. files[id] = "whole" /\ id \in PeerIDs
            BY DEF AccountsInv, FilesInv, SharedTypes, IsPartialMap
        <2>2. id \in Loaded /\ LoadedAddress(id) = id
            BY <2>1, OpeningStep DEF Present, LoadedAddress
        <2>3. id \in DOMAIN LoadedKeys /\ LoadedKeys[id] = id
            BY <2>2 DEF LoadedKeys
        <2>4. keys'[p] = Over(LoadedKeys, Empty)
            BY OpeningStep
        <2>5. QED BY <2>3, <2>4 DEF Over
    <1>2. QED BY <1>1, AccountsInvariant, PTL DEF Spec, OpenFindsAll

\* An account that was deleted is in no store that is opened later, whichever
\* process was writing its file when Delete unlinked it.
THEOREM DeletionIsFinal == Spec => DeletedStaysDeleted
    <1>1. AccountsInv /\ [Next]_vars =>
            [\A p \in Procs : ~opened[p] /\ opened'[p] => List(p)' \cap deleted = {}]_vars
        <2> SUFFICES ASSUME AccountsInv, [Next]_vars, NEW p \in Procs, ~opened[p], opened'[p],
                            NEW id \in deleted, id \in DOMAIN keys'[p]
                     PROVE  FALSE
            BY DEF List
        <2>1. DOMAIN LoadedKeys = Present
            BY OpeningStep DEF LoadedKeys
        <2>2. keys'[p] = Over(LoadedKeys, Empty)
            BY OpeningStep
        <2>3. DOMAIN keys'[p] = Present
            BY <2>1, <2>2 DEF Over, Empty
        <2>4. files[id] = "none"
            BY DEF AccountsInv, FilesInv
        <2>5. QED BY <2>3, <2>4 DEF Present
    <1>2. QED BY <1>1, AccountsInvariant, PTL DEF Spec, DeletedStaysDeleted
===============================================================================
