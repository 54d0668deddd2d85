------------------------------ MODULE Accounts ------------------------------
(***************************************************************************)
(* The account store (pkg/accounts): accounts in the memory of a process    *)
(* and in YAML files of a directory.  The node and the commands of keygen   *)
(* are processes that open the same directory; the lock of a store orders   *)
(* the calls of one process and says nothing of the other.                  *)
(*                                                                         *)
(* A file is named after its peer ID, a number here: Glob lists the files    *)
(* in that order.  WriteFile truncates and then writes, so a file that is    *)
(* being written, or whose write has failed, is unreadable, or partial: its  *)
(* last signers are missing and it is accepted.  The peer ID also names the  *)
(* address, both are derived from keys the account was created with.        *)
(***************************************************************************)
EXTENDS Naturals, FiniteSets, Functions, FiniteSetsExt

CONSTANTS
    Procs,          \* processes that share the directory
    Names,          \* names of accounts
    MaxAccounts     \* bound on the accounts that are ever generated

ASSUME AccountsAssumption == MaxAccounts \in Nat

PeerIDs == 1 .. MaxAccounts

NoAddress == 0      \* the address of an account without an Ed25519 signer

Empty == [x \in {} |-> x]

\* The entries of a map that is loaded, or of a key that is set, come before
\* those that are there.
Over(new, old) ==
    [x \in DOMAIN new \cup DOMAIN old |-> IF x \in DOMAIN new THEN new[x] ELSE old[x]]

Put(map, key, value) == Over([x \in {key} |-> value], map)

VARIABLES
    name,           \* [generated IDs -> Names]
    files,          \* [PeerIDs -> the content of its file]
    opened,         \* [Procs -> does the process have a store]
    saving,         \* [Procs -> the account in Save, or none]
    keys,           \* [Procs -> [PeerIDs -> address]], a partial map
    addresses,      \* [Procs -> [address -> peer ID]], a partial map
    persisted,      \* accounts for which Create with persist has succeeded
    deleted         \* accounts for which Delete has returned nil

vars == <<name, files, opened, saving, keys, addresses, persisted, deleted>>

None == 0

Init ==
    /\ name = Empty
    /\ files = [id \in PeerIDs |-> "none"]
    /\ opened = [p \in Procs |-> FALSE]
    /\ saving = [p \in Procs |-> None]
    /\ keys = [p \in Procs |-> Empty]
    /\ addresses = [p \in Procs |-> Empty]
    /\ persisted = {} /\ deleted = {}

\* The lock of the store is free.
Ready(p) == opened[p] /\ saving[p] = None

-----------------------------------------------------------------------------
(* Load *)

Present == {id \in PeerIDs : files[id] # "none"}
Unreadable == {id \in PeerIDs : files[id] = "unreadable"}

\* The address computed from the signers in the file.
LoadedAddress(id) == IF files[id] = "whole" THEN id ELSE NoAddress

\* The files before the first one that cannot be read.
Loaded == {id \in Present : \A u \in Unreadable : id < u}

LoadedKeys == [id \in Loaded |-> LoadedAddress(id)]

\* A later file takes an address over from an earlier one.
LoadedAddresses ==
    [a \in {LoadedAddress(id) : id \in Loaded} |-> Max({id \in Loaded : LoadedAddress(id) = a})]

\* Mutant: a file that cannot be read ends the loop without an error.
LoadSucceedsAlways == TRUE

LoadSucceeds == Unreadable = {}

\* Mutant: the second map is not filled.
StoreLoadKeysOnly(p, k, a) ==
    /\ keys' = [keys EXCEPT ![p] = Over(LoadedKeys, k)]
    /\ addresses' = [addresses EXCEPT ![p] = a]

\* What was loaded before an error stays in the maps; nothing is ever removed.
StoreLoad(p, k, a) ==
    /\ keys' = [keys EXCEPT ![p] = Over(LoadedKeys, k)]
    /\ addresses' = [addresses EXCEPT ![p] = Over(LoadedAddresses, a)]

\* Mutant: the maps of a store that is not returned are those of the next.
NewManagerKeepsPart(p) ==
    /\ ~opened[p]
    /\ StoreLoad(p, keys[p], addresses[p])
    /\ opened' = [opened EXCEPT ![p] = LoadSucceeds]
    /\ UNCHANGED <<name, files, saving, persisted, deleted>>

\* NewManager and NewStore: without a store if Load fails.
NewManager(p) ==
    /\ ~opened[p]
    /\ LoadSucceeds
    /\ StoreLoad(p, Empty, Empty)
    /\ opened' = [opened EXCEPT ![p] = TRUE]
    /\ UNCHANGED <<name, files, saving, persisted, deleted>>

\* Load of a store that is open, with or without an error.
Load(p) ==
    /\ Ready(p)
    /\ StoreLoad(p, keys[p], addresses[p])
    /\ UNCHANGED <<name, files, opened, saving, persisted, deleted>>

-----------------------------------------------------------------------------
(* Create and Save *)

\* The account with that name that Create returns instead of a new one.
ExistsByName(p, n) == \E id \in DOMAIN keys[p] : name[id] = n

StoreAccount(p, id) ==
    /\ keys' = [keys EXCEPT ![p] = Put(@, id, id)]
    /\ addresses' = [addresses EXCEPT ![p] = Put(@, id, id)]

\* Create up to the lookup, and to WriteFile if the account is to be stored.
Create(p, n, persist) ==
    /\ Ready(p)
    /\ ~ExistsByName(p, n)
    /\ \E id \in PeerIDs \ DOMAIN name :
        /\ name' = Put(name, id, n)
        /\ IF persist
           THEN /\ saving' = [saving EXCEPT ![p] = id]
                /\ files' = [files EXCEPT ![id] = "unreadable"]
                /\ UNCHANGED <<keys, addresses>>
           ELSE /\ StoreAccount(p, id)
                /\ UNCHANGED <<saving, files>>
    /\ UNCHANGED <<opened, persisted, deleted>>

\* The file grows, unless another process has unlinked it.
Write(p) ==
    /\ saving[p] # None
    /\ files[saving[p]] = "unreadable"
    /\ files' = [files EXCEPT ![saving[p]] = "partial"]
    /\ UNCHANGED <<name, opened, saving, keys, addresses, persisted, deleted>>

\* Save has failed: nothing in memory, and a file only if it could be created.
SaveFails(p) ==
    /\ saving[p] # None
    /\ \E content \in {"none", files[saving[p]]} : files' = [files EXCEPT ![saving[p]] = content]
    /\ saving' = [saving EXCEPT ![p] = None]
    /\ UNCHANGED <<name, opened, keys, addresses, persisted, deleted>>

\* Save has succeeded; the account goes into memory.
SaveSucceeds(p) ==
    /\ saving[p] # None
    /\ files' = [files EXCEPT ![saving[p]] = IF @ = "none" THEN "none" ELSE "whole"]
    /\ StoreAccount(p, saving[p])
    /\ persisted' = persisted \cup {saving[p]}
    /\ saving' = [saving EXCEPT ![p] = None]
    /\ UNCHANGED <<name, opened, deleted>>

-----------------------------------------------------------------------------
(* Delete, the lookups, and the end of a process *)

\* Mutant: the error of Remove is not looked at.
DeleteIgnoringErrors(p, id) ==
    /\ Ready(p) /\ id \in DOMAIN keys[p]
    /\ keys' = [keys EXCEPT ![p] = Restrict(@, DOMAIN @ \ {id})]
    /\ deleted' = deleted \cup {id}
    /\ \E content \in {"none", files[id]} : files' = [files EXCEPT ![id] = content]
    /\ UNCHANGED <<name, opened, saving, addresses, persisted>>

\* The account leaves the first map and then the directory, where Remove may
\* fail; the map of the addresses keeps it.
Delete(p, id) ==
    /\ Ready(p) /\ id \in DOMAIN keys[p]
    /\ keys' = [keys EXCEPT ![p] = Restrict(@, DOMAIN @ \ {id})]
    /\ \/ /\ files' = [files EXCEPT ![id] = "none"]
          /\ deleted' = deleted \cup {id}
       \/ /\ files[id] # "none"
          /\ UNCHANGED <<files, deleted>>
    /\ UNCHANGED <<name, opened, saving, addresses, persisted>>

List(p) == DOMAIN keys[p]
GetByPeerID(p, id) == IF id \in DOMAIN keys[p] THEN id ELSE None

GetByAddress(p, a) == IF a \in DOMAIN addresses[p] THEN addresses[p][a] ELSE None

\* The process ends, or crashes in Save.
Exit(p) ==
    /\ opened[p]
    /\ opened' = [opened EXCEPT ![p] = FALSE]
    /\ saving' = [saving EXCEPT ![p] = None]
    /\ keys' = [keys EXCEPT ![p] = Empty]
    /\ addresses' = [addresses EXCEPT ![p] = Empty]
    /\ UNCHANGED <<name, files, persisted, deleted>>

Next ==
    \E p \in Procs :
        \/ NewManager(p) \/ Load(p) \/ Exit(p)
        \/ \E n \in Names, persist \in BOOLEAN : Create(p, n, persist)
        \/ Write(p) \/ SaveFails(p) \/ SaveSucceeds(p)
        \/ \E id \in PeerIDs : Delete(p, id)

Spec == Init /\ [][Next]_vars

-----------------------------------------------------------------------------
(* Properties *)

IsPartialMap(f, D, R) == DOMAIN f \subseteq D /\ \A x \in DOMAIN f : f[x] \in R

\* The state has its types, and only an open store has something in memory.
TypeOK ==
    /\ IsPartialMap(name, PeerIDs, Names)
    /\ files \in [PeerIDs -> {"none", "unreadable", "partial", "whole"}]
    /\ opened \in [Procs -> BOOLEAN]
    /\ saving \in [Procs -> PeerIDs \cup {None}]
    /\ \A p \in Procs :
        /\ IsPartialMap(keys[p], DOMAIN name, DOMAIN name \cup {NoAddress})
        /\ IsPartialMap(addresses[p], DOMAIN name \cup {NoAddress}, DOMAIN name)
        /\ ~opened[p] => keys[p] = Empty /\ addresses[p] = Empty /\ saving[p] = None
    /\ persisted \subseteq DOMAIN name /\ deleted \subseteq DOMAIN name

\* A process that opens the store successfully finds every account that was
\* created with persist, with its address, unless it was deleted: a file that
\* cannot be read, whoever left it there, makes NewManager fail and does not
\* hide the accounts behind it (Load, Save).
OpenFindsAll ==
    [][\A p \in Procs : ~opened[p] /\ opened'[p] =>
        \A id \in persisted \ deleted : id \in DOMAIN keys'[p] /\ keys'[p][id] = id]_vars

\* An account for which Delete has returned nil is in no store that is opened
\* later, also if it was deleted while another process was writing its file.
DeletedStaysDeleted ==
    [][\A p \in Procs : ~opened[p] /\ opened'[p] => List(p)' \cap deleted = {}]_vars

\* An account that is found by its peer ID and has an address is found by its
\* address (GetByPeerID, GetByAddress), however the two maps were filled.
FoundByAddress ==
    \A p \in Procs : \A id \in List(p) :
        GetByPeerID(p, id) = id /\ keys[p][id] # NoAddress => GetByAddress(p, keys[p][id]) = id

=============================================================================
