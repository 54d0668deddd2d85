----------------------------- MODULE ChainProofs ------------------------------
(***************************************************************************)
(* Proofs about Chain, for any transactions and accounts, any limit of the   *)
(* pool, any size of a block and any (even) word.                            *)
(***************************************************************************)
EXTENDS Chain, SequenceTheorems, FiniteSetTheorems, WellFoundedInduction, TLAPS

-----------------------------------------------------------------------------
(* Least and greatest numbers, and induction for a set of numbers *)

\* A non-empty set of natural numbers has a least element,
LEMMA NatMin ==
    ASSUME NEW S, S \subseteq Nat, S # {}
    PROVE  \E m \in S : \A n \in S : m <= n
    <1> DEFINE R == OpToRel(<, Nat)
    <1>1. \A m, n \in Nat : n < m => <<n, m>> \in R
        BY DEF OpToRel
    <1>2. IsWellFoundedOn(R, Nat)
        BY NatLessThanWellFounded
    <1> HIDE DEF R
    <1>3. PICK m \in S : \A n \in S : <<n, m>> \notin R
        BY <1>2, WFMin
    <1>4. \A n \in S : ~(n < m)
        BY <1>1, <1>3
    <1>5. QED BY <1>3, <1>4

\* so Min is one of its elements,
LEMMA MinIsElement ==
    ASSUME NEW S, S \subseteq Nat, S # {}
    PROVE  Min(S) \in S /\ \A n \in S : Min(S) <= n
    <1>1. PICK m \in S : \A n \in S : m <= n
        BY NatMin
    <1>2. QED BY <1>1 DEF Min

\* and Max one of the elements of a set that is bounded.
LEMMA MaxIsElement ==
    ASSUME NEW N \in Nat, NEW S, S \subseteq 0 .. N, S # {}
    PROVE  Max(S) \in S /\ \A n \in S : n <= Max(S)
    <1> DEFINE T == {N - x : x \in S}
    <1>1. T \subseteq Nat
        OBVIOUS
    <1>2. T # {}
        <2>1. PICK x : x \in S
            OBVIOUS
        <2>2. N - x \in T
            BY <2>1
        <2>3. QED BY <2>2
    <1>3. PICK m \in T : \A n \in T : m <= n
        BY <1>1, <1>2, NatMin
    <1>4. PICK x \in S : m = N - x
        BY <1>3
    <1>5. \A y \in S : x >= y
        BY <1>3, <1>4
    <1>6. Max(S) \in S /\ \A n \in S : Max(S) >= n
        BY <1>4, <1>5 DEF Max
    <1>7. QED BY <1>6

\* Induction for a set: what holds of 0 and of the next number holds of all.
LEMMA SetInduction ==
    ASSUME NEW S, 0 \in S, \A n \in Nat : n \in S => n + 1 \in S
    PROVE  Nat \subseteq S
    <1> SUFFICES ASSUME Nat \ S # {} PROVE FALSE
        OBVIOUS
    <1>1. PICK m \in Nat \ S : \A n \in Nat \ S : m <= n
        BY NatMin
    <1>2. m # 0
        BY <1>1
    <1>3. m - 1 \in Nat /\ m - 1 \in S
        BY <1>1, <1>2
    <1>4. (m - 1) + 1 \in S
        BY <1>3
    <1>5. QED BY <1>1, <1>4

BlockSeq == Seq(Seq(Transactions))

-----------------------------------------------------------------------------
(* The inductive invariant *)

\* The pool holds a transaction once.
PoolInv ==
    /\ pool \in Seq(Transactions) /\ IsInjective(pool)
    /\ maxSize \in Limits

\* ForgeBlock has a batch until it has removed the last of it from the pool.
ProducerInv ==
    /\ sequencer \in {"Uninitialized", "Started", "Stopping", "Stopped"}
    /\ producer \in [at : {"idle", "latest", "add", "remove"}, txs : Seq(Transactions),
                     latest : BlockSeq]
    /\ producer.at = "idle" => producer = Idle
    /\ producer.at # "idle" => producer.txs # <<>> /\ sequencer \in {"Started", "Stopping"}

StoreInv ==
    /\ vertices \subseteq BlockSeq
    /\ linked \subseteq vertices
    /\ head \in vertices
    /\ \A b \in vertices : b # <<>> => Front(b) \in vertices

\* A transaction that was applied has a nonce its sender has passed.
NonceInv ==
    /\ nonces \in [Accounts -> Nat]
    /\ applied \in [Transactions -> Nat]
    /\ appliedIn \in [Transactions -> Nat]
    /\ \A t \in Transactions :
        appliedIn[t] <= 1 /\ (appliedIn[t] > 0 => t.nonce <= nonces[t.sender])

BalanceInv == balances \in [Accounts -> 0 .. Word - 1]

ChainInv == PoolInv /\ ProducerInv /\ StoreInv /\ NonceInv /\ BalanceInv

-----------------------------------------------------------------------------
(* Batches and the pool *)

LEMMA BatchIs ==
    ASSUME NEW ts, ts \subseteq Transactions, ts # {}, NEW txs \in Batches(ts)
    PROVE  txs \in Seq(Transactions) /\ txs # <<>>
    <1> DEFINE n == Cardinality(ts)
               size == IF n < BlockSize THEN n ELSE BlockSize
    <1>1. n \in Nat /\ n # 0
        <2>1. IsFiniteSet(ts)
            BY TransactionsAssumption, FS_Subset
        <2>2. QED BY <2>1, FS_CardinalityType, FS_EmptySet
    <1>2. PICK s \in SetToSeqs(ts) : txs = SubSeq(s, 1, size)
        BY DEF Batches
    <1>3. s \in [1 .. n -> ts] /\ \A i, j \in 1 .. n : i # j => s[i] # s[j]
        BY DEF SetToSeqs
    <1>4. size \in 1 .. n
        BY <1>1, BoundsAssumption
    <1> HIDE DEF n, size
    <1>5. \A i \in 1 .. size : i \in 1 .. n /\ s[i] \in Transactions
        BY <1>1, <1>3, <1>4
    <1>6. /\ txs \in Seq(Transactions)
          /\ Len(txs) = size
          /\ \A i \in 1 .. size : txs[i] = s[i]
        <2>1. /\ SubSeq(s, 1, size) \in Seq(Transactions)
              /\ Len(SubSeq(s, 1, size)) = IF 1 <= size THEN size - 1 + 1 ELSE 0
              /\ \A i \in 1 .. size - 1 + 1 : SubSeq(s, 1, size)[i] = s[1 + i - 1]
            BY <1>1, <1>4, <1>5, SubSeqProperties
        <2>2. QED BY <1>1, <1>2, <1>4, <2>1
    <1>7. txs # <<>>
        BY <1>1, <1>4, <1>6
    <1>8. QED BY <1>6, <1>7

\* A block of another node is any list.
LEMMA AnyBatchIs ==
    ASSUME NEW txs \in AnyBatch
    PROVE  txs \in Seq(Transactions)
    <1>1. PICK n \in 1 .. BlockSize : txs \in [1 .. n -> Transactions]
        BY DEF AnyBatch
    <1>2. n \in Nat
        BY <1>1, BoundsAssumption
    <1>3. QED BY <1>1, <1>2

\* Taking one element out of a sequence without repetition.
LEMMA RemoveAtIs ==
    ASSUME NEW T, NEW s \in Seq(T), IsInjective(s), NEW i \in 1 .. Len(s)
    PROVE  /\ RemoveAt(s, i) \in Seq(T)
           /\ Len(RemoveAt(s, i)) = Len(s) - 1
           /\ IsInjective(RemoveAt(s, i))
    <1> DEFINE a == SubSeq(s, 1, i - 1)
               b == SubSeq(s, i + 1, Len(s))
    <1>1. Len(s) \in Nat /\ DOMAIN s = 1 .. Len(s) /\ \A j \in 1 .. Len(s) : s[j] \in T
        OBVIOUS
    <1>2. a \in Seq(T) /\ Len(a) = i - 1 /\ \A j \in 1 .. i - 1 : a[j] = s[j]
        <2>1. /\ a \in Seq(T)
              /\ Len(a) = IF 1 <= i - 1 THEN i - 1 - 1 + 1 ELSE 0
              /\ \A j \in 1 .. i - 1 - 1 + 1 : a[j] = s[1 + j - 1]
            BY <1>1, SubSeqProperties
        <2> HIDE DEF a
        <2>2. QED BY <1>1, <2>1
    <1>3. b \in Seq(T) /\ Len(b) = Len(s) - i /\ \A j \in 1 .. Len(s) - i : b[j] = s[i + j]
        <2>1. /\ b \in Seq(T)
              /\ Len(b) = IF i + 1 <= Len(s) THEN Len(s) - (i + 1) + 1 ELSE 0
              /\ \A j \in 1 .. Len(s) - (i + 1) + 1 : b[j] = s[i + 1 + j - 1]
            BY <1>1, SubSeqProperties
        <2> HIDE DEF b
        <2>2. Len(b) = Len(s) - i
            <3> DEFINE n == Len(s)
            <3>1. n \in Nat /\ i \in 1 .. n /\ Len(b) = IF i + 1 <= n THEN n - (i + 1) + 1 ELSE 0
                BY <1>1, <2>1
            <3> HIDE DEF n
            <3>2. Len(b) = n - i
                BY <3>1
            <3>3. QED BY <3>2 DEF n
        <2>3. ASSUME NEW j \in 1 .. Len(s) - i PROVE b[j] = s[i + j]
            <3>1. j \in 1 .. Len(s) - (i + 1) + 1 /\ i + 1 + j - 1 = i + j
                BY <1>1
            <3>2. b[j] = s[i + 1 + j - 1]
                BY <2>1, <3>1
            <3>3. QED BY <3>1, <3>2
        <2>4. QED BY <2>1, <2>2, <2>3
    <1> HIDE DEF a, b
    <1>4. /\ a \o b \in Seq(T)
          /\ Len(a \o b) = Len(s) - 1
          /\ \A j \in 1 .. Len(s) - 1 : (a \o b)[j] = IF j < i THEN s[j] ELSE s[j + 1]
        <2>1. /\ a \o b \in Seq(T)
              /\ Len(a \o b) = Len(a) + Len(b)
              /\ \A j \in 1 .. Len(a) + Len(b) :
                    (a \o b)[j] = IF j <= Len(a) THEN a[j] ELSE b[j - Len(a)]
            BY <1>2, <1>3, ConcatProperties
        <2>2. Len(a) + Len(b) = Len(s) - 1
            BY <1>1, <1>2, <1>3
        <2>3. ASSUME NEW j \in 1 .. Len(s) - 1
              PROVE  (a \o b)[j] = IF j < i THEN s[j] ELSE s[j + 1]
            <3>1. (a \o b)[j] = IF j <= i - 1 THEN a[j] ELSE b[j - (i - 1)]
                BY <1>2, <2>1, <2>2
            <3>2. CASE j < i
                BY <1>1, <1>2, <3>1, <3>2
            <3>3. CASE ~(j < i)
                <4>1. j - (i - 1) \in 1 .. Len(s) - i /\ i + (j - (i - 1)) = j + 1
                    BY <1>1, <3>3
                <4>2. b[j - (i - 1)] = s[j + 1]
                    BY <1>3, <4>1
                <4>3. QED BY <1>1, <3>1, <3>3, <4>2
            <3>4. QED BY <3>2, <3>3
        <2>4. QED BY <2>1, <2>2, <2>3
    <1>5. DOMAIN (a \o b) = 1 .. Len(s) - 1
        BY <1>4
    <1>6. IsInjective(a \o b)
        <2> SUFFICES ASSUME NEW j \in 1 .. Len(s) - 1, NEW k \in 1 .. Len(s) - 1,
                            (a \o b)[j] = (a \o b)[k]
                     PROVE  j = k
            BY <1>5 DEF IsInjective
        <2>1. \A x, y \in 1 .. Len(s) : s[x] = s[y] => x = y
            BY <1>1 DEF IsInjective
        <2> DEFINE at(m) == IF m < i THEN m ELSE m + 1
        <2>2. at(j) \in 1 .. Len(s) /\ at(k) \in 1 .. Len(s)
            BY <1>1
        <2>3. \A m \in 1 .. Len(s) - 1 : (a \o b)[m] = s[at(m)]
            BY <1>4
        <2>4. s[at(j)] = s[at(k)]
            BY <2>3
        <2> HIDE DEF at
        <2>5. at(j) = at(k)
            BY <2>1, <2>2, <2>4
        <2>6. QED BY <1>1, <2>5 DEF at
    <1>7. RemoveAt(s, i) = a \o b
        BY DEF RemoveAt, a, b
    <1>8. QED BY <1>4, <1>6, <1>7

LEMMA RemoveFirstIs ==
    ASSUME NEW T, NEW s \in Seq(T), IsInjective(s), NEW e
    PROVE  /\ RemoveFirst(s, e) \in Seq(T)
           /\ Len(RemoveFirst(s, e)) <= Len(s)
           /\ IsInjective(RemoveFirst(s, e))
    <1>1. CASE \E i \in 1 .. Len(s) : s[i] = e
        <2> DEFINE I == {i \in 1 .. Len(s) : s[i] = e}
        <2>1. I # {} /\ I \subseteq Nat
            BY <1>1
        <2>2. Min(I) \in I
            BY <2>1, MinIsElement
        <2>3. RemoveFirst(s, e) = RemoveAt(s, Min(I))
            BY <1>1, <2>1 DEF RemoveFirst, SelectInSeq
        <2> HIDE DEF I
        <2>4. Min(I) \in 1 .. Len(s)
            BY <2>2 DEF I
        <2>5. QED BY <2>3, <2>4, RemoveAtIs
    <1>2. CASE ~\E i \in 1 .. Len(s) : s[i] = e
        BY <1>2 DEF RemoveFirst
    <1>3. QED BY <1>1, <1>2

-----------------------------------------------------------------------------
(* Balances stay in their words *)

Balances == [Accounts -> 0 .. Word - 1]

LEMMA SignedIs ==
    ASSUME NEW n \in Int
    PROVE  Signed(n) \in Int /\ Signed(n) < Word
    <1>1. n % Word \in 0 .. Word - 1
        BY WordAssumption
    <1>2. Word \div 2 \in Int
        BY WordAssumption
    <1>3. QED BY <1>1, <1>2, WordAssumption DEF Signed, Unsigned

LEMMA UpdateBalanceIs ==
    ASSUME NEW bal \in Balances, NEW a \in Accounts, NEW n \in Int
    PROVE  UpdateBalance(bal, a, n) \in Balances
    <1> DEFINE new == Signed(Signed(bal[a]) + Signed(n))
    <1>1. bal[a] \in Int
        BY WordAssumption DEF Balances
    <1>2. Signed(bal[a]) + Signed(n) \in Int
        BY <1>1, SignedIs
    <1>3. new \in Int /\ new < Word
        BY <1>2, SignedIs
    <1> HIDE DEF new
    <1>4. (IF new < 0 THEN 0 ELSE new) \in 0 .. Word - 1
        BY <1>3, WordAssumption
    <1>5. UpdateBalance(bal, a, n) = [bal EXCEPT ![a] = IF new < 0 THEN 0 ELSE new]
        BY DEF UpdateBalance, new
    <1>6. QED BY <1>4, <1>5 DEF Balances

LEMMA ApplyTransactionIs ==
    ASSUME NEW bal \in Balances, NEW t \in Transactions
    PROVE  ApplyTransaction(bal, t) \in Balances
    <1>1. /\ t.sender \in Accounts /\ t.recipient \in Accounts
          /\ t.amount \in Int /\ t.fee \in Int /\ -(t.amount + t.fee) \in Int
        BY TransactionsAssumption, WordAssumption
    <1>2. UpdateBalance(bal, t.sender, -(t.amount + t.fee)) \in Balances
        BY <1>1, UpdateBalanceIs
    <1>3. UpdateBalance(UpdateBalance(bal, t.sender, -(t.amount + t.fee)),
                        t.recipient, t.amount) \in Balances
        BY <1>1, <1>2, UpdateBalanceIs
    <1>4. QED BY <1>1, <1>3, UpdateBalanceIs, ValidatorAssumption DEF ApplyTransaction

\* f is the fold of the transactions at the positions s, for every s within S:
\* the last one is applied to the result of the others.
IsFold(f, bal, txs, S) ==
    f = [s \in SUBSET S |->
            IF s = {} THEN bal ELSE ApplyTransaction(f[s \ {Max(s)}], txs[Max(s)])]

LEMMA FoldLeftIs ==
    ASSUME NEW bal, NEW txs
    PROVE  FoldLeft(ApplyTransaction, bal, txs) =
             (CHOOSE f : IsFold(f, bal, txs, DOMAIN txs))[DOMAIN txs]
    BY DEF FoldLeft, MapThenFoldSet, IsFold

LEMMA LastOf ==
    ASSUME NEW n \in Nat, NEW s, s \subseteq 1 .. n, s # {}
    PROVE  /\ Max(s) \in s
           /\ \A m \in Nat : s \subseteq 1 .. m + 1 => s \ {Max(s)} \subseteq 1 .. m
           /\ s \ {Max(s)} \subseteq 1 .. n
    <1>0. s \subseteq 0 .. n
        OBVIOUS
    <1>1. Max(s) \in s /\ \A x \in s : x <= Max(s)
        BY <1>0, MaxIsElement
    <1>2. ASSUME NEW m \in Nat, s \subseteq 1 .. m + 1, NEW x \in s \ {Max(s)}
          PROVE  x \in 1 .. m
        <2>1. Max(s) \in 1 .. m + 1 /\ x \in 1 .. m + 1 /\ x <= Max(s) /\ x # Max(s)
            BY <1>1, <1>2
        <2>2. QED BY <2>1
    <1>3. QED BY <1>1, <1>2

\* The fold exists,
LEMMA FoldExists ==
    ASSUME NEW bal \in Balances, NEW n \in Nat, NEW txs, \A i \in 1 .. n : txs[i] \in Transactions
    PROVE  \E f : IsFold(f, bal, txs, 1 .. n)
    <1> DEFINE Good(f, m) ==
                 /\ f \in [SUBSET (1 .. m) -> Balances]
                 /\ \A s \in SUBSET (1 .. m) : f[s] =
                      IF s = {} THEN bal ELSE ApplyTransaction(f[s \ {Max(s)}], txs[Max(s)])
               M == {m \in Nat : m <= n => \E f : Good(f, m)}
    <1>1. 0 \in M
        <2> DEFINE f == [s \in SUBSET (1 .. 0) |-> bal]
        <2>1. \A s \in SUBSET (1 .. 0) : s = {}
            OBVIOUS
        <2>2. Good(f, 0)
            BY <2>1
        <2> HIDE DEF f
        <2>3. QED BY <2>2
    <1>2. ASSUME NEW m \in Nat, m \in M PROVE m + 1 \in M
        <2> HIDE DEF Good
        <2> SUFFICES ASSUME m + 1 <= n PROVE \E g : Good(g, m + 1)
            OBVIOUS
        <2>0. m <= n
            OBVIOUS
        <2>1. PICK f : Good(f, m)
            BY <1>2, <2>0
        <2> USE DEF Good
        <2> DEFINE g == [s \in SUBSET (1 .. m + 1) |->
                            IF m + 1 \in s THEN ApplyTransaction(f[s \ {m + 1}], txs[m + 1])
                            ELSE f[s]]
        <2>2. ASSUME NEW s \in SUBSET (1 .. m + 1)
              PROVE  /\ m + 1 \in s => s \ {m + 1} \in SUBSET (1 .. m)
                     /\ m + 1 \notin s => s \in SUBSET (1 .. m)
            OBVIOUS
        <2>3. txs[m + 1] \in Transactions
            OBVIOUS
        <2>4. g \in [SUBSET (1 .. m + 1) -> Balances]
            <3> SUFFICES ASSUME NEW s \in SUBSET (1 .. m + 1) PROVE g[s] \in Balances
                OBVIOUS
            <3>1. CASE m + 1 \in s
                <4>1. f[s \ {m + 1}] \in Balances
                    BY <2>1, <2>2, <3>1
                <4>2. QED BY <2>3, <3>1, <4>1, ApplyTransactionIs
            <3>2. CASE m + 1 \notin s
                BY <2>1, <2>2, <3>2
            <3>3. QED BY <3>1, <3>2
        <2>5. ASSUME NEW s \in SUBSET (1 .. m + 1)
              PROVE  g[s] = IF s = {} THEN bal
                            ELSE ApplyTransaction(g[s \ {Max(s)}], txs[Max(s)])
            <3>1. CASE m + 1 \in s
                <4>1. Max(s) = m + 1
                    <5>1. s \subseteq 0 .. m + 1 /\ s # {} /\ m + 1 \in Nat
                        BY <3>1
                    <5>2. Max(s) \in s /\ m + 1 <= Max(s)
                        BY <3>1, <5>1, MaxIsElement
                    <5>3. Max(s) \in 0 .. m + 1
                        BY <5>1, <5>2
                    <5>4. QED BY <5>2, <5>3
                <4>2. g[s \ {m + 1}] = f[s \ {m + 1}]
                    BY <2>2, <3>1
                <4>3. QED BY <3>1, <4>1, <4>2
            <3>2. CASE m + 1 \notin s
                <4>1. s \in SUBSET (1 .. m)
                    BY <2>2, <3>2
                <4>2. g[s] = f[s]
                    BY <3>2
                <4>3. CASE s = {}
                    BY <2>1, <4>1, <4>2, <4>3
                <4>4. CASE s # {}
                    <5> DEFINE r == s \ {Max(s)}
                    <5>1. r \in SUBSET (1 .. m) /\ r \in SUBSET (1 .. m + 1) /\ m + 1 \notin r
                        BY <3>2, <4>1
                    <5> HIDE DEF r
                    <5>2. g[r] = f[r]
                        BY <5>1
                    <5>3. f[s] = ApplyTransaction(f[r], txs[Max(s)])
                        BY <2>1, <4>1, <4>4 DEF r
                    <5> HIDE DEF g
                    <5>4. g[s] = ApplyTransaction(g[r], txs[Max(s)])
                        BY <4>2, <5>2, <5>3
                    <5>5. QED BY <4>4, <5>4 DEF r
                <4>5. QED BY <4>3, <4>4
            <3>3. QED BY <3>1, <3>2
        <2> HIDE DEF g
        <2>6. Good(g, m + 1)
            BY <2>4, <2>5
        <2>7. QED BY <2>6
    <1> HIDE DEF M
    <1>3. n \in M
        BY <1>1, <1>2, SetInduction
    <1> HIDE DEF Good
    <1>4. PICK f : Good(f, n)
        BY <1>3 DEF M
    <1>5. IsFold(f, bal, txs, 1 .. n)
        BY <1>4 DEF IsFold, Good
    <1>6. QED BY <1>5

\* and every fold stays within the balances.
LEMMA FoldIs ==
    ASSUME NEW bal \in Balances, NEW n \in Nat, NEW txs, \A i \in 1 .. n : txs[i] \in Transactions,
           NEW f, IsFold(f, bal, txs, 1 .. n)
    PROVE  f[1 .. n] \in Balances
    <1>0. ASSUME NEW s \in SUBSET (1 .. n)
          PROVE  f[s] = IF s = {} THEN bal
                        ELSE ApplyTransaction(f[s \ {Max(s)}], txs[Max(s)])
        BY <1>0 DEF IsFold
    <1> DEFINE K == {k \in Nat : \A s \in SUBSET (1 .. n) : s \subseteq 1 .. k => f[s] \in Balances}
    <1>1. 0 \in K
        <2>1. \A s : s \subseteq 1 .. 0 => s = {}
            OBVIOUS
        <2>2. QED BY <1>0, <2>1
    <1>2. ASSUME NEW k \in Nat, k \in K PROVE k + 1 \in K
        <2> SUFFICES ASSUME NEW s \in SUBSET (1 .. n), s \subseteq 1 .. k + 1
                     PROVE  f[s] \in Balances
            OBVIOUS
        <2>1. CASE s = {}
            BY <1>0, <2>1
        <2>2. CASE s # {}
            <3> DEFINE r == s \ {Max(s)}
            <3>1. Max(s) \in s /\ r \subseteq 1 .. k /\ r \in SUBSET (1 .. n)
                BY <2>2, LastOf
            <3> HIDE DEF r
            <3>2. f[r] \in Balances
                BY <1>2, <3>1
            <3>3. txs[Max(s)] \in Transactions
                BY <3>1
            <3>4. f[s] = ApplyTransaction(f[r], txs[Max(s)])
                BY <1>0, <2>2 DEF r
            <3>5. QED BY <3>2, <3>3, <3>4, ApplyTransactionIs
        <2>3. QED BY <2>1, <2>2
    <1> HIDE DEF K
    <1>3. n \in K
        BY <1>1, <1>2, SetInduction
    <1>4. QED BY <1>3 DEF K

\* Applying a block leaves every balance in its word.
LEMMA ApplyAllIs ==
    ASSUME NEW bal \in Balances, NEW n \in Nat, NEW txs \in [1 .. n -> Transactions]
    PROVE  FoldLeft(ApplyTransaction, bal, txs) \in Balances
    <1>1. DOMAIN txs = 1 .. n /\ \A i \in 1 .. n : txs[i] \in Transactions
        OBVIOUS
    <1>2. IsFold(CHOOSE f : IsFold(f, bal, txs, 1 .. n), bal, txs, 1 .. n)
        BY <1>1, FoldExists
    <1>3. (CHOOSE f : IsFold(f, bal, txs, 1 .. n))[1 .. n] \in Balances
        BY <1>1, <1>2, FoldIs
    <1>4. QED BY <1>1, <1>3, FoldLeftIs

-----------------------------------------------------------------------------
(* Applying and storing a block *)

\* Sets of positions have a size; it is not zero if there is one.
LEMMA PositionsAreFinite ==
    ASSUME NEW txs \in Seq(Transactions), NEW S, S \subseteq DOMAIN txs
    PROVE  Cardinality(S) \in Nat /\ (S # {} => Cardinality(S) >= 1)
    <1>1. DOMAIN txs = 1 .. Len(txs) /\ Len(txs) \in Nat
        OBVIOUS
    <1>2. IsFiniteSet(DOMAIN txs)
        BY <1>1, FS_Interval
    <1>3. IsFiniteSet(S)
        BY <1>2, FS_Subset
    <1>4. QED BY <1>3, FS_CardinalityType, FS_EmptySet

\* A transaction of a block whose nonces are due was in no block before, and every
\* nonce it uses is passed, however often the block has it.
LEMMA ApplyNonces ==
    ASSUME NonceInv, NEW txs \in Seq(Transactions), Apply(txs),
           \A i \in DOMAIN txs : ValidTransaction(txs[i])
    PROVE  NonceInv'
    <1> DEFINE From(a) == {i \in DOMAIN txs : txs[i].sender = a}
               At(t) == {i \in DOMAIN txs : txs[i] = t}
    <1>1. /\ nonces' = [a \in Accounts |-> nonces[a] + Cardinality(From(a))]
          /\ applied' = [t \in Transactions |-> applied[t] + Cardinality(At(t))]
          /\ appliedIn' = [t \in Transactions |->
                IF t \in ToSet(txs) THEN appliedIn[t] + 1 ELSE appliedIn[t]]
        BY DEF Apply
    <1>2. \A a \in Accounts : /\ Cardinality(From(a)) \in Nat
                              /\ From(a) # {} => Cardinality(From(a)) >= 1
        BY PositionsAreFinite
    <1>3. \A t \in Transactions : Cardinality(At(t)) \in Nat
        BY PositionsAreFinite
    <1> HIDE DEF From, At
    <1>4. nonces' \in [Accounts -> Nat] /\ \A a \in Accounts : nonces[a] <= nonces'[a]
        BY <1>1, <1>2 DEF NonceInv
    <1>5. applied' \in [Transactions -> Nat]
        BY <1>1, <1>3 DEF NonceInv
    <1>6. appliedIn' \in [Transactions -> Nat]
        BY <1>1 DEF NonceInv
    <1>7. ASSUME NEW t \in Transactions
          PROVE  appliedIn'[t] <= 1 /\ (appliedIn'[t] > 0 => t.nonce <= nonces'[t.sender])
        <2>1. t.sender \in Accounts /\ t.nonce \in Nat
            BY TransactionsAssumption
        <2>2. CASE t \notin ToSet(txs)
            <3>1. appliedIn'[t] = appliedIn[t]
                BY <1>1, <2>2
            <3>2. appliedIn[t] <= 1 /\ (appliedIn[t] > 0 => t.nonce <= nonces[t.sender])
                BY DEF NonceInv
            <3>3. nonces[t.sender] <= nonces'[t.sender]
                  /\ nonces[t.sender] \in Nat /\ nonces'[t.sender] \in Nat
                BY <1>4, <2>1 DEF NonceInv
            <3>4. QED BY <2>1, <3>1, <3>2, <3>3
        <2>3. CASE t \in ToSet(txs)
            <3>1. PICK i \in DOMAIN txs : txs[i] = t
                BY <2>3 DEF ToSet
            <3>2. t.nonce = nonces[t.sender] + 1
                BY <3>1 DEF ValidTransaction, ExpectedNonce
            <3>3. appliedIn[t] = 0
                BY <2>1, <3>2 DEF NonceInv
            <3>4. appliedIn'[t] = 1
                BY <1>1, <2>3, <3>3
            <3>5. From(t.sender) # {}
                BY <3>1 DEF From
            <3>6. nonces'[t.sender] >= nonces[t.sender] + 1
                <4>1. nonces'[t.sender] = nonces[t.sender] + Cardinality(From(t.sender))
                    BY <1>1, <2>1
                <4>2. Cardinality(From(t.sender)) \in Nat /\ Cardinality(From(t.sender)) >= 1
                    BY <1>2, <2>1, <3>5
                <4>3. nonces[t.sender] \in Nat
                    BY <2>1 DEF NonceInv
                <4>4. QED BY <4>1, <4>2, <4>3
            <3>7. nonces'[t.sender] \in Nat
                BY <1>4, <2>1
            <3>8. QED BY <2>1, <3>2, <3>4, <3>6, <3>7
        <2>4. QED BY <2>2, <2>3
    <1>8. QED BY <1>4, <1>5, <1>6, <1>7 DEF NonceInv

\* The head and the predecessors are in the store, whichever write fails.
LEMMA StoreBlock ==
    ASSUME StoreInv, NEW prev \in vertices, NEW txs \in Seq(Transactions), NEW result,
           LedgerAddBlock(prev, txs, result)
    PROVE  StoreInv'
    <1> DEFINE block == Append(prev, txs)
    <1>1. prev \in BlockSeq
        BY DEF StoreInv
    <1>2. block \in BlockSeq /\ Len(block) = Len(prev) + 1
        BY <1>1 DEF BlockSeq
    <1>3. Front(block) = prev
        <2>1. Len(prev) \in Nat /\ DOMAIN prev = 1 .. Len(prev)
            BY <1>1 DEF BlockSeq
        <2>2. \A i \in 1 .. Len(prev) : block[i] = prev[i] /\ prev[i] \in Seq(Transactions)
            BY <1>1 DEF BlockSeq
        <2>3. /\ Front(block) \in BlockSeq
              /\ Len(Front(block)) = Len(prev)
              /\ \A i \in 1 .. Len(prev) : Front(block)[i] = prev[i]
            <3> HIDE DEF block
            <3>1. Front(block) = SubSeq(block, 1, Len(prev))
                BY <1>2, <2>1 DEF Front
            <3>2. /\ SubSeq(block, 1, Len(prev)) \in BlockSeq
                  /\ Len(SubSeq(block, 1, Len(prev))) =
                        IF 1 <= Len(prev) THEN Len(prev) - 1 + 1 ELSE 0
                  /\ \A i \in 1 .. Len(prev) - 1 + 1 :
                        SubSeq(block, 1, Len(prev))[i] = block[1 + i - 1]
                BY <2>1, <2>2, SubSeqProperties DEF BlockSeq
            <3>3. QED BY <2>1, <2>2, <3>1, <3>2
        <2>4. QED BY <1>1, <2>3, SeqEqual DEF BlockSeq
    <1> HIDE DEF block
    <1>4. \/ vertices' = vertices /\ result = "noVertex"
          \/ vertices' = vertices \cup {block} /\ result # "noVertex"
        BY DEF LedgerAddBlock, block
    <1>5. vertices' \subseteq BlockSeq
        BY <1>2, <1>4 DEF StoreInv
    <1>6. linked' \subseteq vertices' /\ head' \in vertices'
        BY <1>4 DEF StoreInv, LedgerAddBlock, block
    <1>7. \A b \in vertices' : b # <<>> => Front(b) \in vertices'
        BY <1>3, <1>4 DEF StoreInv
    <1>8. QED BY <1>5, <1>6, <1>7 DEF StoreInv, BlockSeq

LEMMA AddBlockIs ==
    ASSUME StoreInv, NonceInv, BalanceInv, NEW prev, NEW txs \in Seq(Transactions),
           ValidBlock(prev, txs), NEW result, LedgerAddBlock(prev, txs, result)
    PROVE  StoreInv' /\ NonceInv' /\ BalanceInv'
    <1>1. Apply(txs) /\ prev \in vertices /\ \A i \in DOMAIN txs : ValidTransaction(txs[i])
        BY DEF LedgerAddBlock, ValidBlock
    <1>2. StoreInv'
        BY <1>1, StoreBlock
    <1>3. NonceInv'
        BY <1>1, ApplyNonces
    <1>4. BalanceInv'
        <2>1. txs \in [1 .. Len(txs) -> Transactions] /\ Len(txs) \in Nat
            BY LenProperties
        <2>2. FoldLeft(ApplyTransaction, balances, txs) \in Balances
            BY <2>1, ApplyAllIs DEF BalanceInv, Balances
        <2>3. QED BY <1>1, <2>2 DEF Apply, BalanceInv, Balances
    <1>5. QED BY <1>2, <1>3, <1>4

-----------------------------------------------------------------------------
(* Every step preserves the invariant *)

LEMMA ChainInvInit == Init => ChainInv
    <1> SUFFICES ASSUME Init PROVE ChainInv
        OBVIOUS
    <1>1. PoolInv
        BY DEF Init, PoolInv, IsInjective
    <1>2. ProducerInv
        BY DEF Init, ProducerInv, Idle, BlockSeq
    <1>3. StoreInv
        BY DEF Init, StoreInv, BlockSeq
    <1>4. NonceInv
        BY DEF Init, NonceInv, Zeros
    <1>5. BalanceInv
        <2>1. Zeros \in Balances
            BY WordAssumption DEF Zeros, Balances
        <2>2. ASSUME NEW a \in DOMAIN Alloc
              PROVE  UpdateBalance(Zeros, a, CreateGenesisBlock[a])[a] \in 0 .. Word - 1
            <3>1. a \in Accounts /\ CreateGenesisBlock[a] \in Int
                BY AllocAssumption, WordAssumption DEF CreateGenesisBlock, Unsigned
            <3>2. UpdateBalance(Zeros, a, CreateGenesisBlock[a]) \in Balances
                BY <2>1, <3>1, UpdateBalanceIs
            <3>3. QED BY <3>1, <3>2 DEF Balances
        <2>3. 0 \in 0 .. Word - 1
            BY WordAssumption
        <2>4. QED BY <2>2, <2>3 DEF Init, BalanceInv
    <1>6. QED BY <1>1, <1>2, <1>3, <1>4, <1>5 DEF ChainInv

\* Steps that leave the store and the state of the ledger alone.
LEMMA StoreKept == StoreInv /\ UNCHANGED chainVars => StoreInv'
    BY DEF StoreInv, chainVars, BlockSeq

LEMMA StateKept == NonceInv /\ BalanceInv /\ UNCHANGED stateVars => NonceInv' /\ BalanceInv'
    BY DEF NonceInv, BalanceInv, stateVars

LEMMA ProducerKept == ProducerInv /\ UNCHANGED forgeVars => ProducerInv'
    BY DEF ProducerInv, forgeVars, BlockSeq, Idle

LEMMA PoolKept == PoolInv /\ UNCHANGED poolVars => PoolInv'
    BY DEF PoolInv, poolVars, IsInjective

LEMMA AddTransactionIs ==
    ASSUME PoolInv, NEW t \in Transactions, AddTransaction(t)
    PROVE  PoolInv' /\ (Len(pool') > maxSize => Len(pool') <= Len(pool))
    <1> DEFINE p == IF Full(pool) THEN Tail(pool) ELSE pool
    <1>1. pool' = Append(p, t) /\ maxSize' = maxSize /\ ~Contains(pool, t)
        BY DEF AddTransaction
    <1>2. /\ p \in Seq(Transactions)
          /\ IsInjective(p)
          /\ \A i \in 1 .. Len(p) : p[i] # t
          /\ Len(p) + 1 > maxSize => Len(p) + 1 <= Len(pool)
        <2>0. Len(pool) \in Nat /\ DOMAIN pool = 1 .. Len(pool) /\ maxSize \in Nat
            BY BoundsAssumption DEF PoolInv
        <2>1. CASE Full(pool)
            <3>1. pool # <<>>
                BY <2>1 DEF AddTransaction
            <3>2. /\ Tail(pool) \in Seq(Transactions)
                  /\ Len(Tail(pool)) = Len(pool) - 1
                  /\ \A i \in 1 .. Len(Tail(pool)) : Tail(pool)[i] = pool[i + 1]
                BY <3>1, HeadTailProperties DEF PoolInv
            <3>3. DOMAIN Tail(pool) = 1 .. Len(pool) - 1
                BY <2>0, <3>2
            <3>4. IsInjective(Tail(pool))
                BY <2>0, <3>2, <3>3 DEF PoolInv, IsInjective
            <3>5. \A i \in 1 .. Len(Tail(pool)) : Tail(pool)[i] # t
                BY <1>1, <2>0, <3>2 DEF Contains
            <3>6. QED BY <2>0, <2>1, <3>2, <3>4, <3>5
        <2>2. CASE ~Full(pool)
            BY <1>1, <2>0, <2>2 DEF Full, Contains, PoolInv
        <2>3. QED BY <2>1, <2>2
    <1> HIDE DEF p
    <1>3. /\ Append(p, t) \in Seq(Transactions)
          /\ Len(Append(p, t)) = Len(p) + 1
          /\ \A i \in 1 .. Len(p) : Append(p, t)[i] = p[i]
          /\ Append(p, t)[Len(p) + 1] = t
        BY <1>2, AppendProperties
    <1>4. IsInjective(Append(p, t))
        <2>1. DOMAIN Append(p, t) = 1 .. Len(p) + 1 /\ Len(p) \in Nat /\ DOMAIN p = 1 .. Len(p)
            BY <1>2, <1>3
        <2>2. \A i \in 1 .. Len(p) + 1 : i \in 1 .. Len(p) \/ i = Len(p) + 1
            BY <2>1
        <2>3. QED BY <1>2, <1>3, <2>1, <2>2 DEF IsInjective
    <1>5. QED BY <1>1, <1>2, <1>3, <1>4 DEF PoolInv

LEMMA CleanupIs ==
    ASSUME PoolInv, CleanupExpired
    PROVE  PoolInv' /\ Len(pool') <= Len(pool)
    <1>0. Len(pool) \in Nat /\ DOMAIN pool = 1 .. Len(pool)
        BY DEF PoolInv
    <1>1. PICK n \in 1 .. Len(pool) : pool' = SubSeq(pool, n + 1, Len(pool))
        BY DEF CleanupExpired
    <1> DEFINE l == Len(pool)
    <1>2. /\ pool' \in Seq(Transactions)
          /\ Len(pool') = IF n + 1 <= l THEN l - (n + 1) + 1 ELSE 0
          /\ \A i \in 1 .. l - (n + 1) + 1 : pool'[i] = pool[n + 1 + i - 1]
        <2>1. \A i \in n + 1 .. l : pool[i] \in Transactions
            BY <1>0 DEF PoolInv
        <2>2. n + 1 \in Int /\ l \in Int
            BY <1>0
        <2> HIDE DEF l
        <2>3. QED BY <1>1, <2>1, <2>2, SubSeqProperties DEF l
    <1> HIDE DEF l
    <1>3. l \in Nat /\ n \in 1 .. l
        BY <1>0 DEF l
    <1>4. Len(pool') = l - n
        BY <1>2, <1>3
    <1>5. ASSUME NEW i \in 1 .. l - n
          PROVE  n + i \in 1 .. l /\ pool'[i] = pool[n + i]
        <2>1. i \in 1 .. l - (n + 1) + 1 /\ n + 1 + i - 1 = n + i /\ n + i \in 1 .. l
            BY <1>3
        <2>2. QED BY <1>2, <2>1
    <1>6. DOMAIN pool' = 1 .. l - n
        BY <1>2, <1>4
    <1>7. IsInjective(pool')
        <2> SUFFICES ASSUME NEW i \in 1 .. l - n, NEW j \in 1 .. l - n, pool'[i] = pool'[j]
                     PROVE  i = j
            BY <1>6 DEF IsInjective
        <2>1. pool[n + i] = pool[n + j] /\ n + i \in 1 .. l /\ n + j \in 1 .. l
            BY <1>5
        <2>2. n + i = n + j
            BY <1>0, <2>1 DEF PoolInv, IsInjective, l
        <2>3. QED BY <1>3, <2>2
    <1>8. maxSize' \in Limits
        BY DEF CleanupExpired, PoolInv
    <1>9. Len(pool') <= Len(pool)
        BY <1>3, <1>4 DEF l
    <1>10. PoolInv'
        BY <1>2, <1>7, <1>8 DEF PoolInv
    <1>11. QED BY <1>9, <1>10

LEMMA RemoveTransactionIs ==
    ASSUME PoolInv, ProducerInv, RemoveTransaction
    PROVE  PoolInv' /\ ProducerInv' /\ Len(pool') <= Len(pool)
    <1>1. PoolInv' /\ Len(pool') <= Len(pool)
        BY RemoveFirstIs DEF RemoveTransaction, PoolWithout, PoolInv
    <1> DEFINE txs == producer.txs
    <1>2. txs \in Seq(Transactions) /\ txs # <<>>
        BY DEF RemoveTransaction, ProducerInv
    <1>3. Tail(txs) \in Seq(Transactions) /\ Len(Tail(txs)) = Len(txs) - 1 /\ Len(txs) \in Nat
        BY <1>2, HeadTailProperties
    <1>4. CASE Len(txs) = 1
        <2>1. producer' = Idle /\ sequencer' = sequencer
            BY <1>4 DEF RemoveTransaction
        <2>2. ProducerInv'
            BY <2>1 DEF ProducerInv, Idle, BlockSeq
        <2>3. QED BY <1>1, <2>2
    <1>5. CASE Len(txs) # 1
        <2>1. producer' = [producer EXCEPT !.txs = Tail(txs)] /\ sequencer' = sequencer
            BY <1>5 DEF RemoveTransaction, ProducerInv
        <2>2. Tail(txs) # <<>>
            <3>1. Len(txs) \in Nat \ {0}
                BY <1>2, EmptySeq
            <3>2. Len(Tail(txs)) # 0
                BY <1>3, <1>5, <3>1
            <3>3. QED BY <3>2, EmptySeq
        <2> HIDE DEF txs
        <2>3. /\ producer'.at = "remove" /\ producer'.txs = Tail(txs)
              /\ producer' \in [at : {"idle", "latest", "add", "remove"},
                                txs : Seq(Transactions), latest : BlockSeq]
            BY <1>3, <2>1 DEF RemoveTransaction, ProducerInv
        <2>4. ProducerInv'
            BY <2>1, <2>2, <2>3 DEF RemoveTransaction, ProducerInv, BlockSeq
        <2>5. QED BY <1>1, <2>4
    <1>6. QED BY <1>4, <1>5

LEMMA ChainInvNext == ChainInv /\ [Next]_vars => ChainInv'
    <1> SUFFICES ASSUME ChainInv, [Next]_vars PROVE ChainInv'
        OBVIOUS
    <1> USE DEF ChainInv
    <1>1. ASSUME NEW t \in Transactions, AddTransaction(t) PROVE ChainInv'
        BY <1>1, AddTransactionIs, ProducerKept, StoreKept, StateKept DEF AddTransaction
    <1>2. ASSUME CleanupExpired PROVE ChainInv'
        BY <1>2, CleanupIs, ProducerKept, StoreKept, StateKept DEF CleanupExpired
    <1>3. ASSUME NEW max \in Limits, SetMaxSize(max) PROVE ChainInv'
        <2>1. PoolInv'
            BY <1>3 DEF SetMaxSize, PoolInv, IsInjective
        <2>2. QED BY <1>3, <2>1, ProducerKept, StoreKept, StateKept DEF SetMaxSize
    <1>4. ASSUME SequencerStart \/ SequencerStop \/ ProduceEnds PROVE ChainInv'
        <2>1. ProducerInv'
            BY <1>4 DEF SequencerStart, SequencerStop, ProduceEnds, Produces, ProducerInv,
                        BlockSeq, Idle
        <2>2. UNCHANGED <<poolVars, chainVars, stateVars>>
            BY <1>4 DEF SequencerStart, SequencerStop, ProduceEnds
        <2>3. QED BY <2>1, <2>2, PoolKept, StoreKept, StateKept
    <1>5. ASSUME GetTransactions PROVE ChainInv'
        <2>1. PICK txs \in Batches(ToSet(pool)) :
                producer' = [producer EXCEPT !.at = "latest", !.txs = txs]
            BY <1>5 DEF GetTransactions
        <2>2. ToSet(pool) \subseteq Transactions /\ ToSet(pool) # {}
            <3>1. DOMAIN pool = 1 .. Len(pool) /\ Len(pool) \in Nat \ {0}
                  /\ \A i \in 1 .. Len(pool) : pool[i] \in Transactions
                BY <1>5, EmptySeq DEF GetTransactions, PoolInv
            <3>2. pool[1] \in ToSet(pool)
                BY <3>1 DEF ToSet
            <3>3. QED BY <3>1, <3>2 DEF ToSet
        <2>3. txs \in Seq(Transactions) /\ txs # <<>>
            BY <2>2, BatchIs
        <2>4. /\ producer'.at = "latest" /\ producer'.txs = txs
              /\ producer' \in [at : {"idle", "latest", "add", "remove"},
                                txs : Seq(Transactions), latest : BlockSeq]
            BY <2>1, <2>3 DEF ProducerInv
        <2>5. ProducerInv'
            BY <1>5, <2>3, <2>4
            DEF GetTransactions, Produces, ProducerInv, BlockSeq
        <2>6. QED BY <1>5, <2>5, PoolKept, StoreKept, StateKept DEF GetTransactions
    <1>6. ASSUME GetLatestBlock PROVE ChainInv'
        <2>1. ProducerInv'
            <3>1. CASE producer' = Idle
                BY <1>6, <3>1 DEF GetLatestBlock, ProducerInv, Idle, BlockSeq
            <3>2. CASE \E b \in LatestBlocks : producer' = [producer EXCEPT !.at = "add", !.latest = b]
                <4>1. PICK b \in LatestBlocks :
                        producer' = [producer EXCEPT !.at = "add", !.latest = b]
                    BY <3>2
                <4>2. b \in BlockSeq
                    BY DEF LatestBlocks, StoreInv
                <4>3. /\ producer'.at = "add" /\ producer'.txs = producer.txs
                      /\ producer' \in [at : {"idle", "latest", "add", "remove"},
                                        txs : Seq(Transactions), latest : BlockSeq]
                    BY <4>1, <4>2 DEF ProducerInv
                <4>4. QED
                    BY <1>6, <4>3 DEF GetLatestBlock, ProducerInv, BlockSeq
            <3>3. QED BY <1>6, <3>1, <3>2 DEF GetLatestBlock
        <2>2. QED BY <1>6, <2>1, PoolKept, StoreKept, StateKept DEF GetLatestBlock
    <1>7. ASSUME AddBlock PROVE ChainInv'
        <2>1. CASE producer' = Idle /\ UNCHANGED <<chainVars, stateVars>>
            <3>1. ProducerInv'
                BY <1>7, <2>1 DEF AddBlock, ProducerInv, Idle, BlockSeq
            <3>2. QED BY <1>7, <2>1, <3>1, PoolKept, StoreKept, StateKept DEF AddBlock
        <2>2. CASE /\ ValidBlock(producer.latest, producer.txs)
                   /\ \E result \in Writes :
                        /\ LedgerAddBlock(producer.latest, producer.txs, result)
                        /\ producer' = IF result = "stored"
                                       THEN [producer EXCEPT !.at = "remove"] ELSE Idle
            <3>1. PICK result \in Writes :
                        /\ LedgerAddBlock(producer.latest, producer.txs, result)
                        /\ producer' = IF result = "stored"
                                       THEN [producer EXCEPT !.at = "remove"] ELSE Idle
                BY <2>2
            <3>2. producer.txs \in Seq(Transactions)
                BY <1>7 DEF AddBlock, ProducerInv
            <3>3. StoreInv' /\ NonceInv' /\ BalanceInv'
                BY <2>2, <3>1, <3>2, AddBlockIs
            <3>4. ProducerInv'
                <4>1. CASE producer' = Idle
                    BY <1>7, <4>1 DEF AddBlock, ProducerInv, Idle, BlockSeq
                <4>2. CASE producer' = [producer EXCEPT !.at = "remove"]
                    <5>1. /\ producer'.at = "remove" /\ producer'.txs = producer.txs
                          /\ producer' \in [at : {"idle", "latest", "add", "remove"},
                                            txs : Seq(Transactions), latest : BlockSeq]
                        BY <4>2 DEF ProducerInv
                    <5>2. QED BY <1>7, <5>1 DEF AddBlock, ProducerInv, BlockSeq
                <4>3. QED BY <3>1, <4>1, <4>2
            <3>5. QED BY <1>7, <3>3, <3>4, PoolKept DEF AddBlock
        <2>3. QED BY <1>7, <2>1, <2>2 DEF AddBlock
    <1>8. ASSUME RemoveTransaction PROVE ChainInv'
        BY <1>8, RemoveTransactionIs, StoreKept, StateKept DEF RemoveTransaction
    <1>9. ASSUME NEW prev \in vertices, NEW txs \in AnyBatch, HandleIncomingBlock(prev, txs)
          PROVE  ChainInv'
        <2>1. txs \in Seq(Transactions)
            BY <1>9, AnyBatchIs
        <2>2. PICK result \in Writes : LedgerAddBlock(prev, txs, result)
            BY <1>9 DEF HandleIncomingBlock
        <2>3. StoreInv' /\ NonceInv' /\ BalanceInv'
            BY <1>9, <2>1, <2>2, AddBlockIs DEF HandleIncomingBlock
        <2>4. QED BY <1>9, <2>3, PoolKept, ProducerKept DEF HandleIncomingBlock
    <1>10. ASSUME Restart PROVE ChainInv'
        <2>1. PoolInv'
            BY <1>10 DEF Restart, PoolInv, IsInjective
        <2>2. ProducerInv'
            BY <1>10 DEF Restart, ProducerInv, Idle, BlockSeq
        <2>3. StoreInv'
            BY <1>10 DEF Restart, StoreInv, LatestBlocks, BlockSeq
        <2>4. NonceInv' /\ BalanceInv'
            BY <1>10, WordAssumption DEF Restart, NonceInv, BalanceInv, Zeros
        <2>5. QED BY <2>1, <2>2, <2>3, <2>4
    <1>11. CASE UNCHANGED vars
        BY <1>11, PoolKept, ProducerKept, StoreKept, StateKept DEF vars
    <1>12. QED
        BY <1>1, <1>2, <1>3, <1>4, <1>5, <1>6, <1>7, <1>8, <1>9, <1>10, <1>11 DEF Next

\* Every reachable state satisfies the inductive invariant: pool, producer,
\* store and state of the ledger fit together.
THEOREM ChainInvariant == Spec => []ChainInv
    <1>1. QED BY ChainInvInit, ChainInvNext, PTL DEF Spec

-----------------------------------------------------------------------------
(* The properties *)

\* The state keeps its types, and no arithmetic of ApplyTransaction takes a
\* balance out of its word, for a block of any length.
THEOREM TypeCorrect == Spec => []TypeOK
    <1>1. ChainInv => TypeOK
        <2> SUFFICES ASSUME ChainInv PROVE TypeOK
            OBVIOUS
        <2> USE DEF ChainInv
        <2>1. \A s \in Seq(Transactions) : ToSet(s) \subseteq Transactions
            BY DEF ToSet
        <2>2. QED
            BY <2>1 DEF PoolInv, ProducerInv, StoreInv, NonceInv, BalanceInv, TypeOK
    <1>2. QED BY <1>1, ChainInvariant, PTL

\* A transaction is applied by at most one block in the life of a process, whatever
\* lists of transactions the blocks of this node and of others hold.
THEOREM TransactionsInOneBlock == Spec => []AppliedInOneBlock
    <1>1. ChainInv => AppliedInOneBlock
        BY DEF ChainInv, NonceInv, AppliedInOneBlock
    <1>2. QED BY <1>1, ChainInvariant, PTL

\* The head and the predecessors of every stored block are in the store.
THEOREM HeadIsOnDisk == Spec => []HeadOnDisk
    <1>1. ChainInv => HeadOnDisk
        BY DEF ChainInv, StoreInv, HeadOnDisk
    <1>2. QED BY <1>1, ChainInvariant, PTL

\* A sequencer that is reported as stopped forges no block.
THEOREM StoppedIsIdle == Spec => []StoppedForgesNothing
    <1>1. ChainInv => StoppedForgesNothing
        BY DEF ChainInv, ProducerInv, StoppedForgesNothing
    <1>2. QED BY <1>1, ChainInvariant, PTL

\* No step takes the pool beyond its limit or, above a lowered limit, lets it
\* grow.
THEOREM PoolIsLimited == Spec => PoolWithinLimit
    <1>1. ChainInv /\ [Next]_vars => [Len(pool') > maxSize => Len(pool') <= Len(pool)]_pool
        <2> SUFFICES ASSUME ChainInv, Next, pool' # pool
                     PROVE  Len(pool') > maxSize => Len(pool') <= Len(pool)
            BY DEF vars, poolVars
        <2>1. \/ \E t \in Transactions : AddTransaction(t)
              \/ CleanupExpired \/ RemoveTransaction \/ Restart
            BY DEF Next, SetMaxSize, SequencerStart, SequencerStop, ProduceEnds, GetTransactions,
                   GetLatestBlock, AddBlock, HandleIncomingBlock, poolVars
        <2>2. CASE Restart
            <3>1. Len(pool') = 0 /\ Len(pool) \in Nat
                BY <2>2 DEF Restart, ChainInv, PoolInv
            <3>2. QED BY <3>1
        <2>3. QED
            BY <2>1, <2>2, AddTransactionIs, CleanupIs, RemoveTransactionIs DEF ChainInv
    <1>2. QED BY <1>1, ChainInvariant, PTL DEF Spec, PoolWithinLimit
===============================================================================
