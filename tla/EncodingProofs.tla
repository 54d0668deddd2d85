---------------------------- MODULE EncodingProofs ----------------------------
(***************************************************************************)
(* Proofs about Encoding, for every message of the six kinds, any bytes on   *)
(* the wire and any place to cut them at.                                   *)
(***************************************************************************)
EXTENDS Encoding, SequenceTheorems, WellFoundedInduction, TLAPS

-----------------------------------------------------------------------------
(* Induction and recursion on the first numbers *)

LEMMA NatMin ==
    ASSUME NEW S, S \subseteq Nat, S # {}
    PROVE  \E m \in S : \A n \in S : m <= n
    <1> DEFINE R == OpToRel(<, Nat)
    <1>1. \A m, n \in Nat : n < m => <<n, m>> \in R
        BY DEF OpToRel
    <1>2. IsWellFoundedOn(R, Nat)
        BY NatLessThanWellFounded
    <1> HIDE DEF R
    <1>3. PICK m \in S : \A n \in S : <<n, m>> \notin R
        BY <1>2, WFMin
    <1>4. \A n \in S : ~(n < m)
        BY <1>1, <1>3
    <1>5. QED BY <1>3, <1>4

\* What holds of 0 and of the next number holds of all numbers up to N.
LEMMA Upwards ==
    ASSUME NEW N \in Nat, NEW S, 0 \in S, \A n \in 1 .. N : n - 1 \in S => n \in S
    PROVE  0 .. N \subseteq S
    <1> SUFFICES ASSUME (0 .. N) \ S # {} PROVE FALSE
        OBVIOUS
    <1>1. PICK m \in (0 .. N) \ S : \A n \in (0 .. N) \ S : m <= n
        <2>1. (0 .. N) \ S \subseteq Nat
            OBVIOUS
        <2>2. QED BY <2>1, NatMin
    <1>2. m \in 1 .. N /\ m - 1 \in 0 .. N
        BY <1>1
    <1>3. m - 1 \in S
        BY <1>1, <1>2
    <1>4. QED BY <1>1, <1>2, <1>3

\* f has N values, each computed by g from its number and the value before it.
IsRecursion(f, N, X, x, g) ==
    f \in [0 .. N -> X] /\ f[0] = x /\ \A n \in 1 .. N : f[n] = g[<<n, f[n - 1]>>]

\* There is such a function.
LEMMA Recursion ==
    ASSUME NEW X, NEW N \in Nat, NEW x \in X, NEW g, g \in [(1 .. N) \X X -> X]
    PROVE  \E f : IsRecursion(f, N, X, x, g)
    <1> DEFINE S == {m \in 0 .. N : \E f \in [0 .. m -> X] :
                        f[0] = x /\ \A n \in 1 .. m : f[n] = g[<<n, f[n - 1]>>]}
    <1>1. 0 \in S
        <2> DEFINE h == [n \in 0 .. 0 |-> x]
        <2>1. h \in [0 .. 0 -> X] /\ h[0] = x
            OBVIOUS
        <2> HIDE DEF h
        <2>2. 0 \in 0 .. N /\ \A n \in 1 .. 0 : h[n] = g[<<n, h[n - 1]>>]
            OBVIOUS
        <2>3. QED BY <2>1, <2>2
    <1>2. ASSUME NEW m \in 1 .. N, m - 1 \in S PROVE m \in S
        <2>1. PICK f \in [0 .. m - 1 -> X] :
                f[0] = x /\ \A n \in 1 .. m - 1 : f[n] = g[<<n, f[n - 1]>>]
            BY <1>2
        <2> DEFINE h == [n \in 0 .. m |-> IF n = m THEN g[<<m, f[m - 1]>>] ELSE f[n]]
        <2>2. g[<<m, f[m - 1]>>] \in X
            BY <2>1
        <2>3. h \in [0 .. m -> X] /\ h[0] = x
            BY <2>1, <2>2
        <2>4. ASSUME NEW n \in 1 .. m PROVE h[n] = g[<<n, h[n - 1]>>]
            <3>1. n - 1 \in 0 .. m - 1 /\ h[n - 1] = f[n - 1]
                OBVIOUS
            <3>2. CASE n = m
                <4>1. h[m] = g[<<m, f[m - 1]>>]
                    OBVIOUS
                <4>2. QED BY <3>1, <3>2, <4>1
            <3>3. CASE n # m
                BY <2>1, <3>1, <3>3
            <3>4. QED BY <3>2, <3>3
        <2> HIDE DEF h
        <2>5. QED BY <2>3, <2>4
    <1> HIDE DEF S
    <1>3. 0 .. N \subseteq S
        BY <1>1, <1>2, Upwards
    <1>4. N \in S
        BY <1>3
    <1>5. QED BY <1>4 DEF S, IsRecursion

-----------------------------------------------------------------------------
(* Numbers *)

\* Division by Byte, and back.
LEMMA DivMod ==
    ASSUME NEW v \in Nat
    PROVE  /\ v \div Byte \in Nat
           /\ v % Byte \in Bytes
           /\ v = (v % Byte) + Byte * (v \div Byte)
    BY SizesAssumption DEF Bytes

\* A digit's weight is a number.
LEMMA ByteTimes ==
    ASSUME NEW w \in Nat
    PROVE  Byte * w \in Nat
    <1>1. Byte \in Nat
        BY SizesAssumption
    <1>2. \A x, y \in Nat : x * y \in Nat
        OBVIOUS
    <1>3. QED BY <1>1, <1>2

\* The quotients that Shifted takes.
LEMMA ShiftedIs ==
    ASSUME NEW v \in Nat, NEW n \in Nat
    PROVE  /\ Shifted(v, 0) = v
           /\ Shifted(v, n) \in Nat
           /\ n > 0 => Shifted(v, n) = Shifted(v, n - 1) \div Byte
    <1> DEFINE body(f, N) == [i \in 0 .. N |-> IF i = 0 THEN v ELSE f[i - 1] \div Byte]
               by(N) == CHOOSE f : f = body(f, N)
    <1>1. ASSUME NEW N \in Nat
          PROVE  /\ by(N) = body(by(N), N) /\ by(N)[0] = v
                 /\ \A i \in 1 .. N : by(N)[i] = by(N)[i - 1] \div Byte
                 /\ \A i \in 0 .. N : by(N)[i] \in Nat
        <2> DEFINE g == [p \in (1 .. N) \X Nat |-> p[2] \div Byte]
        <2>1. g \in [(1 .. N) \X Nat -> Nat] /\ \A i \in 1 .. N, w \in Nat : g[<<i, w>>] = w \div Byte
            BY DivMod
        <2> HIDE DEF g
        <2>2. PICK f : IsRecursion(f, N, Nat, v, g)
            BY <2>1, Recursion
        <2>3. f = body(f, N)
            <3>1. ASSUME NEW i \in 1 .. N PROVE f[i] = f[i - 1] \div Byte
                <4>1. i - 1 \in 0 .. N
                    OBVIOUS
                <4>2. QED BY <2>1, <2>2, <4>1 DEF IsRecursion
            <3>2. QED BY <2>2, <3>1 DEF IsRecursion
        <2>4. by(N) = body(by(N), N)
            BY <2>3
        <2> HIDE DEF by
        <2>5. PICK u : u = by(N)
            OBVIOUS
        <2>6. u[0] = v /\ \A i \in 1 .. N : u[i] = u[i - 1] \div Byte
            BY <2>4, <2>5
        <2>7. 0 .. N \subseteq {i \in 0 .. N : u[i] \in Nat}
            <3> DEFINE S == {i \in 0 .. N : u[i] \in Nat}
            <3>1. 0 \in S /\ \A i \in 1 .. N : i - 1 \in S => i \in S
                BY <2>6, DivMod
            <3> HIDE DEF S
            <3>2. 0 .. N \subseteq S
                BY <3>1, Upwards
            <3>3. QED BY <3>2 DEF S
        <2>8. QED BY <2>4, <2>5, <2>6, <2>7
    <1>2. \A N : Shifted(v, N) = by(N)[N]
        BY DEF Shifted
    <1> HIDE DEF by, body
    <1>3. ASSUME NEW N \in Nat, NEW i \in 0 .. N PROVE by(N)[i] = by(i)[i]
        <2> DEFINE S == {j \in 0 .. i : by(N)[j] = by(i)[j]}
        <2>1. 0 \in S /\ \A j \in 1 .. i : j - 1 \in S => j \in S
            BY <1>1
        <2> HIDE DEF S
        <2>2. 0 .. i \subseteq S
            BY <2>1, Upwards
        <2>3. QED BY <2>2 DEF S
    <1>4. n > 0 => n - 1 \in Nat /\ n - 1 \in 0 .. n /\ n \in 1 .. n /\ n \in 0 .. n
        OBVIOUS
    <1>5. n > 0 => by(n)[n - 1] = by(n - 1)[n - 1]
        BY <1>3, <1>4
    <1>6. QED BY <1>1, <1>2, <1>4, <1>5

\* The digits that ValueOf adds up, from the last one on.
LEMMA ValueOfIs ==
    ASSUME NEW s \in Seq(Bytes)
    PROVE  \E last \in [0 .. Len(s) -> Nat] :
            /\ last[0] = 0
            /\ \A i \in 1 .. Len(s) : last[i] = s[Len(s) + 1 - i] + Byte * last[i - 1]
            /\ ValueOf(s) = last[Len(s)]
    <1> DEFINE N == Len(s)
               next(i, w) == s[N + 1 - i] + Byte * w
               body(f) == [i \in 0 .. N |-> IF i = 0 THEN 0 ELSE next(i, f[i - 1])]
               last == CHOOSE f : f = body(f)
               g == [p \in (1 .. N) \X Nat |-> next(p[1], p[2])]
    <1>1. N \in Nat /\ \A i \in 1 .. N, w \in Nat : next(i, w) \in Nat
        <2>1. N \in Nat
            OBVIOUS
        <2>2. ASSUME NEW i \in 1 .. N, NEW w \in Nat PROVE next(i, w) \in Nat
            <3>1. N + 1 - i \in 1 .. N
                BY <2>1
            <3>2. s[N + 1 - i] \in Bytes
                BY <3>1
            <3>3. s[N + 1 - i] \in Nat
                BY <3>2, SizesAssumption DEF Bytes
            <3>4. Byte * w \in Nat
                BY ByteTimes
            <3>5. \A x, y \in Nat : x + y \in Nat
                OBVIOUS
            <3>6. QED BY <3>3, <3>4, <3>5
        <2>3. QED BY <2>1, <2>2
    <1>2. g \in [(1 .. N) \X Nat -> Nat] /\ \A i \in 1 .. N, w \in Nat : g[<<i, w>>] = next(i, w)
        BY <1>1
    <1>3. ValueOf(s) = last[N]
        BY DEF ValueOf
    <1> HIDE DEF g, next, N
    <1>4. PICK f : IsRecursion(f, N, Nat, 0, g)
        BY <1>1, <1>2, Recursion
    <1>5. f = body(f)
        <2>1. ASSUME NEW i \in 1 .. N PROVE f[i] = next(i, f[i - 1])
            <3>1. i - 1 \in 0 .. N
                BY <1>1
            <3>2. QED BY <1>2, <1>4, <3>1 DEF IsRecursion
        <2>2. QED BY <1>1, <1>4, <2>1 DEF IsRecursion
    <1>6. last = body(last)
        BY <1>5
    <1> HIDE DEF last
    <1>7. PICK u : u = last
        OBVIOUS
    <1>8. u[0] = 0 /\ \A i \in 1 .. N : u[i] = next(i, u[i - 1])
        <2>1. \A i \in 0 .. N : u[i] = IF i = 0 THEN 0 ELSE next(i, u[i - 1])
            BY <1>6, <1>7
        <2>2. 0 \in 0 .. N /\ \A i \in 1 .. N : i \in 0 .. N /\ i # 0
            BY <1>1
        <2>3. QED BY <2>1, <2>2
    <1>9. 0 .. N \subseteq {i \in 0 .. N : u[i] \in Nat}
        <2> DEFINE S == {i \in 0 .. N : u[i] \in Nat}
        <2>1. 0 \in S
            BY <1>1, <1>8
        <2>2. ASSUME NEW i \in 1 .. N, i - 1 \in S PROVE i \in S
            <3>1. i \in 0 .. N /\ u[i - 1] \in Nat
                BY <1>1, <2>2
            <3>2. QED BY <1>1, <1>8, <3>1
        <2> HIDE DEF S
        <2>3. 0 .. N \subseteq S
            BY <1>1, <2>1, <2>2, Upwards
        <2>4. QED BY <2>3 DEF S
    <1>10. u \in [0 .. N -> Nat]
        BY <1>6, <1>7, <1>9
    <1>11. QED BY <1>3, <1>7, <1>8, <1>10 DEF N, next

\* The bytes of a number,
LEMMA NumberType ==
    ASSUME NEW v \in Nat, NEW n \in Nat
    PROVE  Number(v, n) \in Seq(Bytes) /\ Len(Number(v, n)) = n
    <1>1. \A i \in 1 .. n : Shifted(v, i - 1) % Byte \in Bytes
        <2> TAKE i \in 1 .. n
        <2>1. i - 1 \in Nat
            OBVIOUS
        <2>2. Shifted(v, i - 1) \in Nat
            BY <2>1, ShiftedIs
        <2>3. QED BY <2>2, DivMod
    <1>2. QED BY <1>1 DEF Number

LEMMA ValueOfType ==
    ASSUME NEW s \in Seq(Bytes)
    PROVE  ValueOf(s) \in Nat
    <1>1. Len(s) \in 0 .. Len(s)
        OBVIOUS
    <1>2. QED BY <1>1, ValueOfIs

\* and the number they are, if they are enough.
LEMMA NumberRoundTrip ==
    ASSUME NEW n \in Nat, NEW v \in Uints(n)
    PROVE  ValueOf(Number(v, n)) = v
    <1> DEFINE s == Number(v, n)
    <1>1. v \in Nat /\ Shifted(v, n) = 0
        BY DEF Uints
    <1>2. s \in Seq(Bytes) /\ Len(s) = n
        BY <1>1, NumberType
    <1>3. PICK last \in [0 .. n -> Nat] :
            /\ last[0] = 0
            /\ \A i \in 1 .. n : last[i] = s[n + 1 - i] + Byte * last[i - 1]
            /\ ValueOf(s) = last[n]
        BY <1>2, ValueOfIs
    <1>4. \A i \in 1 .. n : s[n + 1 - i] = Shifted(v, n - i) % Byte
        BY DEF Number
    <1> HIDE DEF s
    <1> DEFINE S == {i \in 0 .. n : last[i] = Shifted(v, n - i)}
    <1>5. 0 \in S
        BY <1>1, <1>3
    <1>6. ASSUME NEW i \in 1 .. n, i - 1 \in S PROVE i \in S
        <2> DEFINE w == Shifted(v, n - i)
        <2> DEFINE k == n - (i - 1)
        <2>1. n - i \in Nat /\ k \in Nat /\ k > 0 /\ k - 1 = n - i
            OBVIOUS
        <2> HIDE DEF k
        <2>2. w \in Nat /\ Shifted(v, k) = w \div Byte
            <3>1. Shifted(v, n - i) \in Nat
                BY <1>1, <2>1, ShiftedIs
            <3>2. Shifted(v, k) = Shifted(v, k - 1) \div Byte
                BY <1>1, <2>1, ShiftedIs
            <3>3. QED BY <2>1, <3>1, <3>2
        <2>3. last[i - 1] = w \div Byte
            BY <1>6, <2>2 DEF k
        <2>4. last[i] = (w % Byte) + Byte * (w \div Byte)
            BY <1>3, <1>4, <2>3
        <2>5. last[i] = w
            BY <2>2, <2>4, DivMod
        <2>6. QED BY <2>5
    <1> HIDE DEF S
    <1>7. 0 .. n \subseteq S
        BY <1>5, <1>6, Upwards
    <1>8. last[n] = Shifted(v, 0)
        <2>1. n \in 0 .. n /\ n - n = 0
            OBVIOUS
        <2>2. n \in S
            BY <1>7, <2>1
        <2>3. QED BY <2>1, <2>2 DEF S
    <1>9. QED BY <1>1, <1>3, <1>8, ShiftedIs DEF s

\* A number that fits into its bytes is not changed by them.
LEMMA UintIs ==
    ASSUME NEW v \in Nat
    PROVE  Uint(v, 4) \in Nat /\ (v \in Uints(4) => Uint(v, 4) = v)
    <1>1. Number(v, 4) \in Seq(Bytes)
        BY NumberType
    <1>2. QED BY <1>1, ValueOfType, NumberRoundTrip DEF Uint

-----------------------------------------------------------------------------
(* Reading *)

Data == Seq(Bytes)

Ways == {"slice", "full", "short"}

\* What a read with values in V may return.
Results(V) == [status : {"ok"}, value : V, rest : Data] \cup {Error, Panic}

LEMMA OkIs ==
    ASSUME NEW v, NEW r
    PROVE  /\ Ok(v, r).status = "ok" /\ Ok(v, r).value = v /\ Ok(v, r).rest = r
           /\ Error.status = "error" /\ Panic.status = "panic"
    BY DEF Ok, Error, Panic

LEMMA OkType ==
    ASSUME NEW V, NEW v \in V, NEW r \in Data
    PROVE  Ok(v, r) \in Results(V)
    BY DEF Ok, Results

LEMMA ResultIs ==
    ASSUME NEW V, NEW r \in Results(V)
    PROVE  /\ r.status \in {"ok", "error", "panic"}
           /\ r.status = "ok" => r.value \in V /\ r.rest \in Data /\ r = Ok(r.value, r.rest)
    BY DEF Ok, Results, Error, Panic

\* Two parts of some bytes,
LEMMA Parts ==
    ASSUME NEW a \in Data, NEW b \in Data
    PROVE  /\ a \o b \in Data
           /\ Len(a \o b) = Len(a) + Len(b)
           /\ SubSeq(a \o b, 1, Len(a)) = a
           /\ SubSeq(a \o b, Len(a) + 1, Len(a \o b)) = b
    BY DEF Data

LEMMA DataType ==
    ASSUME NEW a \in Data
    PROVE  Len(a) \in Nat /\ a \o <<>> = a /\ <<>> \o a = a /\ <<>> \in Data /\ Len(<<>>) = 0
    BY DEF Data

LEMMA Associative ==
    ASSUME NEW a \in Data, NEW b \in Data, NEW c \in Data
    PROVE  (a \o b) \o c = a \o (b \o c)
    BY DEF Data

\* The same with the equation behind a name, for parts that are terms themselves.
Regroups(a, b, c) == (a \o b) \o c = a \o (b \o c)

LEMMA Regrouped ==
    ASSUME NEW a \in Data, NEW b \in Data, NEW c \in Data
    PROVE  Regroups(a, b, c)
    BY Associative DEF Regroups

\* and the two parts a place divides them into.
LEMMA Split ==
    ASSUME NEW a \in Data, NEW n \in 0 .. Len(a)
    PROVE  /\ SubSeq(a, 1, n) \in Data /\ Len(SubSeq(a, 1, n)) = n
           /\ SubSeq(a, n + 1, Len(a)) \in Data /\ Len(SubSeq(a, n + 1, Len(a))) = Len(a) - n
           /\ SubSeq(a, 1, n) \o SubSeq(a, n + 1, Len(a)) = a
    <1>1. /\ SubSeq(a, 1, n) \in Data /\ Len(SubSeq(a, 1, n)) = n
          /\ SubSeq(a, n + 1, Len(a)) \in Data /\ Len(SubSeq(a, n + 1, Len(a))) = Len(a) - n
        BY DEF Data
    <1>2. SubSeq(a, 1, n) \o SubSeq(a, n + 1, Len(a)) = SubSeq(a, 1, Len(a))
        <2>1. 1 \in 1 .. Len(a) + 1 /\ n \in 1 - 1 .. Len(a) /\ Len(a) \in n .. Len(a)
            BY DEF Data
        <2>2. QED BY <2>1, ConcatAdjacentSubSeq DEF Data
    <1>3. SubSeq(a, 1, Len(a)) = a
        BY SubSeqFull DEF Data
    <1>4. QED BY <1>1, <1>2, <1>3

\* A buffer has the size it was made with, and exactly the bytes if that is theirs.
LEMMA BufferType ==
    ASSUME NEW a \in Data, NEW n \in Nat
    PROVE  Buffer(a, n) \in Data /\ Len(Buffer(a, n)) = n
    <1> DEFINE k == IF n > Len(a) THEN n - Len(a) ELSE 0
    <1>1. k \in Nat /\ Len(a) + k >= n
        BY DEF Data
    <1>2. Zeros(k) \in Data /\ Len(Zeros(k)) = k
        <2> HIDE DEF k
        <2>1. 0 \in Bytes
            BY SizesAssumption DEF Bytes
        <2>2. QED BY <1>1, <2>1 DEF Zeros, Data
    <1>3. a \o Zeros(k) \in Data /\ Len(a \o Zeros(k)) = Len(a) + k
        BY <1>2, Parts
    <1>4. Buffer(a, n) = SubSeq(a \o Zeros(k), 1, n)
        BY DEF Buffer
    <1> HIDE DEF k
    <1>5. n \in 0 .. Len(a \o Zeros(k))
        BY <1>1, <1>3 DEF Data
    <1> DEFINE z == a \o Zeros(k)
    <1>6. z \in Data /\ n \in 0 .. Len(z) /\ Buffer(a, n) = SubSeq(z, 1, n)
        BY <1>3, <1>4, <1>5
    <1> HIDE DEF z
    <1>7. SubSeq(z, 1, n) \in Data /\ Len(SubSeq(z, 1, n)) = n
        BY <1>6, Split
    <1>8. QED BY <1>6, <1>7

LEMMA BufferWhole ==
    ASSUME NEW a \in Data
    PROVE  Buffer(a, Len(a)) = a
    <1>1. Len(a) \in Nat /\ ~(Len(a) > Len(a))
        BY DataType
    <1>2. Zeros(0) = <<>>
        BY DEF Zeros
    <1>3. Buffer(a, Len(a)) = SubSeq(a \o <<>>, 1, Len(a))
        BY <1>1, <1>2 DEF Buffer
    <1>4. QED BY <1>3, DataType, SubSeqFull DEF Data

\* Bytes that are all there are read, whichever way;
LEMMA ReadWhole ==
    ASSUME NEW a \in Data, NEW b \in Data, NEW how, NEW n, n = Len(a)
    PROVE  Read(a \o b, n, how) = Ok(a, b)
    <1>1. Len(a) \in Nat /\ Len(b) \in Nat
        BY DataType
    <1>2. ~(Len(a \o b) < n)
        BY <1>1, Parts
    <1>3. Read(a \o b, n, how) = Ok(Buffer(SubSeq(a \o b, 1, n), n), SubSeq(a \o b, n + 1, Len(a \o b)))
        BY <1>1, <1>2 DEF Read
    <1>4. QED BY <1>3, Parts, BufferWhole

\* if some are missing, "short" takes what there is and the others fail.
LEMMA ReadCut ==
    ASSUME NEW a \in Data, NEW n \in Nat, NEW how \in Ways, Len(a) < n
    PROVE  /\ how = "slice" => Read(a, n, how) = Panic
           /\ how = "full" => Read(a, n, how) = Error
           /\ how = "short" /\ Len(a) = 0 => Read(a, n, how) = Error
           /\ how = "short" /\ Len(a) > 0 => Read(a, n, how) = Ok(Buffer(a, n), <<>>)
    <1>1. Len(a) \in Nat /\ Len(a) # n
        BY DataType
    <1>2. SubSeq(a, 1, Len(a)) = a /\ SubSeq(a, Len(a) + 1, Len(a)) = <<>>
        BY <1>1, SubSeqFull, SubSeqEmpty DEF Data
    <1>3. /\ "slice" # "full" /\ "slice" # "short" /\ "full" # "short"
        OBVIOUS
    <1>4. CASE how = "slice"
        BY <1>1, <1>3, <1>4 DEF Read
    <1>5. CASE how = "full"
        BY <1>1, <1>3, <1>5 DEF Read
    <1>6. CASE how = "short" /\ Len(a) = 0
        BY <1>1, <1>3, <1>6 DEF Read
    <1>7. CASE how = "short" /\ Len(a) > 0
        <2>1. Read(a, n, how) = Ok(Buffer(SubSeq(a, 1, Len(a)), n), SubSeq(a, Len(a) + 1, Len(a)))
            BY <1>1, <1>3, <1>7 DEF Read
        <2>2. Read(a, n, how) = Ok(Buffer(a, n), <<>>)
            BY <1>2, <2>1
        <2>3. QED BY <1>1, <1>3, <1>7, <2>2
    <1>8. QED BY <1>1, <1>4, <1>5, <1>6, <1>7 DEF Ways

LEMMA ReadType ==
    ASSUME NEW a \in Data, NEW n \in Nat, NEW how \in Ways
    PROVE  /\ Read(a, n, how) \in Results(Data)
           /\ Read(a, n, how).status = "panic" => how = "slice" /\ Len(a) < n
           /\ n <= Len(a) => /\ Read(a, n, how).status = "ok"
                             /\ Len(Read(a, n, how).rest) = Len(a) - n
    <1>1. CASE Len(a) < n
        <2>1. Buffer(a, n) \in Data /\ <<>> \in Data
            BY BufferType, DataType
        <2>2. Ok(Buffer(a, n), <<>>) \in Results(Data) /\ Ok(Buffer(a, n), <<>>).status = "ok"
            BY <2>1, OkIs, OkType
        <2>3. Len(a) \in Nat
            BY DataType
        <2>4. Error \in Results(Data) /\ Panic \in Results(Data)
            BY DEF Results
        <2>5. \/ Read(a, n, how) = Error
              \/ Read(a, n, how) = Ok(Buffer(a, n), <<>>)
              \/ how = "slice" /\ Read(a, n, how) = Panic
            <3>1. how \in {"slice", "full", "short"} /\ (Len(a) = 0 \/ Len(a) > 0)
                BY <2>3 DEF Ways
            <3>2. QED BY <1>1, <3>1, ReadCut
        <2>6. QED BY <1>1, <2>2, <2>3, <2>4, <2>5, OkIs
    <1>2. CASE n <= Len(a)
        <2> DEFINE x == SubSeq(a, 1, n)
                   y == SubSeq(a, n + 1, Len(a))
        <2>1. n \in 0 .. Len(a)
            BY <1>2, DataType
        <2>2. x \in Data /\ Len(x) = n /\ y \in Data /\ Len(y) = Len(a) - n /\ x \o y = a
            BY <2>1, Split
        <2> HIDE DEF x, y
        <2>3. Read(a, n, how) = Ok(x, y)
            BY <2>2, ReadWhole
        <2>4. Ok(x, y).status = "ok" /\ Ok(x, y).rest = y /\ Ok(x, y) \in Results(Data)
            BY <2>2, OkIs, OkType
        <2>5. QED BY <2>2, <2>3, <2>4
    <1>3. QED BY <1>1, <1>2, DataType

\* What stands behind the same bytes is the same.
LEMMA Cancel ==
    ASSUME NEW a \in Data, NEW b \in Data, NEW c \in Data, a \o b = a \o c
    PROVE  b = c
    <1>1. b = SubSeq(a \o b, Len(a) + 1, Len(a \o b))
        BY Parts
    <1>2. c = SubSeq(a \o c, Len(a) + 1, Len(a \o c))
        BY Parts
    <1>3. QED BY <1>1, <1>2

\* What is left of p behind as many bytes as a has.
Behind(a, p) == SubSeq(p, Len(a) + 1, Len(p))

Joined(a, b, w) == w = a \o b

\* If bytes are divided in two ways, the longer first part starts with the shorter.
LEMMA Overlap ==
    ASSUME NEW a \in Data, NEW b \in Data, NEW p \in Data, NEW c \in Data, NEW w,
           Joined(a, b, w), Joined(p, c, w), Len(a) <= Len(p)
    PROVE  Behind(a, p) \in Data /\ Joined(a, Behind(a, p), p) /\ Joined(Behind(a, p), c, b)
    <1>0. a \o b = p \o c
        BY DEF Joined
    <1> DEFINE q == SubSeq(p, Len(a) + 1, Len(p))
               x == SubSeq(p, 1, Len(a))
    <1>1. Len(a) \in 0 .. Len(p)
        BY DataType
    <1>2. q \in Data /\ x \in Data /\ Len(x) = Len(a) /\ p = x \o q
        BY <1>1, Split
    <1>3. x = a
        <2>1. \A i \in 1 .. Len(a) : x[i] = (p \o c)[i]
            BY <1>1 DEF Data
        <2>2. \A i \in 1 .. Len(a) : a[i] = (a \o b)[i]
            BY DEF Data
        <2> HIDE DEF x
        <2>3. \A i \in 1 .. Len(a) : x[i] = a[i]
            BY <1>0, <2>1, <2>2
        <2>4. QED BY <1>2, <2>3, SeqEqual DEF Data
    <1> HIDE DEF q, x
    <1>4. a \o b = a \o (q \o c)
        <2>1. q \in Data
            BY <1>2
        <2>2. (a \o q) \o c = a \o (q \o c)
            <3>1. Regroups(a, q, c)
                BY <2>1, Regrouped
            <3>2. QED BY <3>1 DEF Regroups
        <2>3. p = a \o q
            BY <1>2, <1>3
        <2>4. QED BY <1>0, <2>2, <2>3
    <1>5. q \o c \in Data
        BY <1>2, Parts
    <1>6. b = q \o c
        BY <1>4, <1>5, Cancel
    <1>7. QED BY <1>2, <1>3, <1>6 DEF q, Behind, Joined

-----------------------------------------------------------------------------
(* Fields *)

Types == {"number", "signer", "fixed", "bytes", "signature", "optional", "list"}

\* The fields of the formats: data[a:b] is only used for a fixed number of bytes,
\* and Read of a buffer only behind a length or a flag.
IsField(f) ==
    /\ f.type \in Types /\ f.size \in Nat \ {0} /\ f.how \in Ways
    /\ f.type \in {"number", "signer", "fixed"} => f.how # "short"
    /\ f.how = "slice" => f.type \in {"number", "fixed"}
    /\ f.type = "signer" => f.size = 4
    /\ f.type = "list" => f.item \in Nat

SignerTypes == {"bls", "ed25519", "dleq", "unknown"}

Values == Nat \cup SignerTypes \cup Data \cup Seq(Data)

LEMMA TypesDiffer ==
    /\ "number" # "signer" /\ "number" # "fixed" /\ "number" # "bytes" /\ "number" # "signature"
    /\ "number" # "optional" /\ "number" # "list" /\ "signer" # "fixed" /\ "signer" # "bytes"
    /\ "signer" # "signature" /\ "signer" # "optional" /\ "signer" # "list" /\ "fixed" # "bytes"
    /\ "fixed" # "signature" /\ "fixed" # "optional" /\ "fixed" # "list" /\ "bytes" # "signature"
    /\ "bytes" # "optional" /\ "bytes" # "list" /\ "signature" # "optional"
    /\ "signature" # "list" /\ "optional" # "list"
    /\ "slice" # "full" /\ "slice" # "short" /\ "full" # "short"
    /\ "ok" # "error" /\ "ok" # "panic" /\ "error" # "panic"
    OBVIOUS

\* A length and its bytes: what a read returns,
LEMMA ReadBytesType ==
    ASSUME NEW a \in Data, NEW n \in Nat, NEW how \in Ways, how # "slice"
    PROVE  ReadBytes(a, n, how) \in Results(Data) /\ ReadBytes(a, n, how).status # "panic"
    <1> DEFINE r == Read(a, n, "full")
    <1>1. r \in Results(Data) /\ r.status # "panic"
        BY ReadType, TypesDiffer DEF Ways
    <1>2. ReadBytes(a, n, how) = IF r.status = "ok" THEN Read(r.rest, ValueOf(r.value), how) ELSE r
        BY DEF ReadBytes, Then
    <1> HIDE DEF r
    <1>3. CASE r.status = "ok"
        <2>1. r.value \in Data /\ r.rest \in Data
            BY <1>1, <1>3, ResultIs
        <2>2. ValueOf(r.value) \in Nat
            BY <2>1, ValueOfType DEF Data
        <2>3. QED BY <1>2, <1>3, <2>1, <2>2, ReadType
    <1>4. QED BY <1>1, <1>2, <1>3

\* all of them,
LEMMA ReadBytesWhole ==
    ASSUME NEW v \in Data, NEW t \in Data, NEW n \in Nat, NEW how, Len(v) \in Uints(n)
    PROVE  /\ WithLength(v, n) \in Data /\ Len(WithLength(v, n)) = n + Len(v)
           /\ ReadBytes(WithLength(v, n) \o t, n, how) = Ok(v, t)
    <1> DEFINE l == Number(Len(v), n)
    <1>1. l \in Data /\ Len(l) = n /\ ValueOf(l) = Len(v)
        BY NumberType, NumberRoundTrip, DataType DEF Data
    <1>2. WithLength(v, n) = l \o v
        BY DEF WithLength
    <1> HIDE DEF l
    <1>3. l \o v \in Data /\ Len(l \o v) = n + Len(v) /\ v \o t \in Data
        <2>1. l \o v \in Data /\ Len(l \o v) = Len(l) + Len(v)
            BY <1>1, Parts
        <2>2. v \o t \in Data
            BY Parts
        <2>3. QED BY <1>1, <2>1, <2>2
    <1>4. WithLength(v, n) \o t = l \o (v \o t)
        <2>1. Regroups(l, v, t)
            BY <1>1, Regrouped
        <2>2. QED BY <1>2, <2>1 DEF Regroups
    <1>5. Read(l \o (v \o t), n, "full") = Ok(l, v \o t)
        BY <1>1, <1>3, ReadWhole
    <1>6. Read(v \o t, Len(v), how) = Ok(v, t)
        BY ReadWhole
    <1>7. ReadBytes(l \o (v \o t), n, how) = Read(v \o t, ValueOf(l), how)
        BY <1>5, OkIs DEF ReadBytes, Then
    <1>8. QED BY <1>1, <1>2, <1>3, <1>4, <1>6, <1>7

\* or not all of them.
LEMMA ReadBytesCut ==
    ASSUME NEW v \in Data, NEW p \in Data, NEW c \in Data, NEW n \in Nat \ {0}, NEW how \in Ways,
           Len(v) \in Uints(n), Joined(p, c, WithLength(v, n)), Len(c) > 0, how # "slice"
    PROVE  ReadBytes(p, n, how).status = "ok"
           => how = "short" /\ Len(p) > 0 /\ ReadBytes(p, n, how).rest = <<>>
    <1> DEFINE l == Number(Len(v), n)
    <1>1. l \in Data /\ Len(l) = n /\ ValueOf(l) = Len(v)
        BY NumberType, NumberRoundTrip, DataType DEF Data
    <1>2. l \o v = p \o c
        BY DEF WithLength, Joined
    <1> HIDE DEF l
    <1>3. CASE Len(p) < n
        <2>1. Read(p, n, "full") = Error
            BY <1>3, ReadCut DEF Ways
        <2>2. ReadBytes(p, n, how) = Error
            BY <2>1, OkIs, TypesDiffer DEF ReadBytes, Then
        <2>3. QED BY <2>2, OkIs, TypesDiffer
    <1>4. CASE Len(l) <= Len(p)
        <2>1. PICK q \in Data : p = l \o q /\ v = q \o c
            <3>1. Joined(l, v, l \o v) /\ Joined(p, c, l \o v)
                BY <1>2 DEF Joined
            <3>2. Behind(l, p) \in Data /\ Joined(l, Behind(l, p), p) /\ Joined(Behind(l, p), c, v)
                BY <1>1, <1>4, <3>1, Overlap
            <3>3. QED BY <3>2 DEF Joined
        <2>2. Read(p, n, "full") = Ok(l, q)
            BY <1>1, <2>1, ReadWhole
        <2>3. ReadBytes(p, n, how) = Read(q, Len(v), how)
            BY <1>1, <2>2, OkIs DEF ReadBytes, Then
        <2>4. Len(q) \in Nat /\ Len(v) \in Nat /\ Len(q) < Len(v) /\ Len(p) > 0
            <3>1. Len(v) = Len(q) + Len(c) /\ Len(p) = Len(l) + Len(q)
                BY <1>1, <2>1, Parts
            <3>2. Len(q) \in Nat /\ Len(v) \in Nat /\ Len(c) \in Nat
                BY DataType
            <3>3. QED BY <1>1, <3>1, <3>2
        <2>5. \/ Read(q, Len(v), how) = Error
              \/ how = "short" /\ Read(q, Len(v), how) = Ok(Buffer(q, Len(v)), <<>>)
            <3>1. how \in {"full", "short"} /\ (Len(q) = 0 \/ Len(q) > 0)
                BY <2>4 DEF Ways
            <3>2. QED BY <2>4, <3>1, ReadCut
        <2>6. Error.status # "ok" /\ Ok(Buffer(q, Len(v)), <<>>).rest = <<>>
            BY OkIs, TypesDiffer
        <2>7. QED BY <2>3, <2>4, <2>5, <2>6
    <1>5. QED BY <1>1, <1>3, <1>4, DataType

-----------------------------------------------------------------------------
(* Bytes that were put together from pieces *)

\* flat[i] are the first i pieces.
IsFlat(flat, s) ==
    /\ flat \in [0 .. Len(s) -> Data] /\ flat[0] = <<>>
    /\ \A i \in 1 .. Len(s) : flat[i] = flat[i - 1] \o s[i]

LEMMA FlattenIs ==
    ASSUME NEW s \in Seq(Data)
    PROVE  \E flat : IsFlat(flat, s) /\ FlattenSeq(s) = flat[Len(s)]
    <1> DEFINE N == Len(s)
    <1>1. N \in Nat /\ \A i \in 1 .. N : s[i] \in Data
        OBVIOUS
    <1>2. CASE N = 0
        <2> DEFINE e == [i \in 0 .. N |-> <<>>]
        <2>1. FlattenSeq(s) = <<>>
            BY <1>2 DEF FlattenSeq
        <2>2. e \in [0 .. N -> Data] /\ e[0] = <<>> /\ e[N] = <<>> /\ 1 .. N = {}
            BY <1>2 DEF Data
        <2> HIDE DEF e
        <2>3. IsFlat(e, s)
            BY <2>2 DEF IsFlat
        <2>4. QED BY <2>1, <2>2, <2>3
    <1>3. CASE N # 0
        <2> DEFINE g == [p \in (1 .. N) \X Data |-> p[2] \o s[p[1]]]
                   body(f) == [i \in 1 .. N |-> IF i = 1 THEN s[i] ELSE f[i - 1] \o s[i]]
                   flatten == CHOOSE f : f = body(f)
        <2>1. /\ g \in [(1 .. N) \X Data -> Data]
              /\ \A i \in 1 .. N, w \in Data : g[<<i, w>>] = w \o s[i]
            BY <1>1, Parts
        <2>2. FlattenSeq(s) = flatten[N]
            BY <1>3 DEF FlattenSeq
        <2> HIDE DEF g, N
        <2>3. <<>> \in Data
            BY DEF Data
        <2>4. PICK f : IsRecursion(f, N, Data, <<>>, g)
            BY <1>1, <2>1, <2>3, Recursion
        <2>5. \A i \in 1 .. N : i - 1 \in 0 .. N
            BY <1>1
        <2>6. f \in [0 .. N -> Data] /\ f[0] = <<>> /\ \A i \in 1 .. N : f[i] = f[i - 1] \o s[i]
            BY <2>1, <2>4, <2>5 DEF IsRecursion
        <2> DEFINE h == [i \in 1 .. N |-> f[i]]
        <2>7. h = body(h)
            <3>1. ASSUME NEW i \in 1 .. N
                  PROVE  f[i] = IF i = 1 THEN s[i] ELSE h[i - 1] \o s[i]
                <4>1. CASE i = 1
                    <5>1. f[i] = f[i - 1] \o s[i]
                        BY <2>6
                    <5>2. i - 1 = 0
                        BY <4>1
                    <5>3. f[i] = <<>> \o s[i] /\ s[i] \in Data
                        BY <1>1, <2>6, <5>1, <5>2
                    <5>4. QED BY <4>1, <5>3, DataType
                <4>2. CASE i # 1
                    <5>1. i - 1 \in 1 .. N
                        BY <1>1, <4>2
                    <5>2. QED BY <2>6, <4>2, <5>1
                <4>3. QED BY <4>1, <4>2
            <3>2. QED BY <3>1
        <2>8. flatten = body(flatten)
            BY <2>7
        <2> HIDE DEF flatten, h
        <2>9. PICK u : u = flatten
            OBVIOUS
        <2>10. \A i \in 1 .. N : u[i] = IF i = 1 THEN s[i] ELSE u[i - 1] \o s[i]
            BY <2>8, <2>9
        <2> DEFINE S == {i \in 0 .. N : i # 0 => u[i] = f[i]}
        <2>11. 0 \in S
            BY <1>1
        <2>12. ASSUME NEW i \in 1 .. N, i - 1 \in S PROVE i \in S
            <3>1. i \in 0 .. N
                BY <1>1
            <3>2. CASE i = 1
                <4>1. f[i] = f[i - 1] \o s[i]
                    BY <2>6
                <4>2. i - 1 = 0
                    BY <3>2
                <4>3. f[i] = <<>> \o s[i] /\ s[i] \in Data /\ u[i] = s[i]
                    BY <1>1, <2>6, <2>10, <3>2, <4>1, <4>2
                <4>4. QED BY <3>1, <4>3, DataType
            <3>3. CASE i # 1
                <4>1. u[i - 1] = f[i - 1]
                    BY <1>1, <2>12, <3>3
                <4>2. u[i] = u[i - 1] \o s[i]
                    BY <2>10, <3>3
                <4>3. f[i] = f[i - 1] \o s[i]
                    BY <2>6
                <4>4. u[i] = f[i]
                    BY <4>1, <4>2, <4>3
                <4>5. QED BY <3>1, <4>4
            <3>4. QED BY <3>2, <3>3
        <2> HIDE DEF S
        <2>13. 0 .. N \subseteq S
            BY <1>1, <2>11, <2>12, Upwards
        <2>14. N \in 0 .. N
            BY <1>1
        <2>15. u[N] = f[N]
            BY <1>3, <2>13, <2>14 DEF S
        <2>16. IsFlat(f, s)
            BY <2>6 DEF IsFlat, N
        <2>17. QED BY <2>2, <2>9, <2>15, <2>16 DEF N
    <1>4. QED BY <1>2, <1>3

\* left[i] is what is left of the data behind the first i of the pieces; it is what
\* a reader has still before it.
IsLeft(left, s, n, data) ==
    /\ left \in [0 .. n -> Data] /\ left[0] = data
    /\ \A i \in 1 .. n : left[i - 1] = s[i] \o left[i]

\* The same, together with the pieces that were read.
IsDivided(left, flat, s, t, data) ==
    /\ IsLeft(left, s, Len(s), data) /\ left[Len(s)] = t
    /\ \A i \in 0 .. Len(s) : data = flat[i] \o left[i]

\* The pieces of s and then t.
LEMMA Pieces ==
    ASSUME NEW s \in Seq(Data), NEW t \in Data, NEW flat, IsFlat(flat, s),
           NEW data, data = flat[Len(s)] \o t
    PROVE  \E left : IsDivided(left, flat, s, t, data)
    <1> DEFINE N == Len(s)
    <1>1. N \in Nat /\ \A i \in 1 .. N : s[i] \in Data
        OBVIOUS
    <1>2. /\ \A i \in 0 .. N : flat[i] \in Data
          /\ flat[0] = <<>> /\ \A i \in 1 .. N : flat[i] = flat[i - 1] \o s[i]
        BY DEF IsFlat
    <1> HIDE DEF N
    <1> DEFINE S == {k \in 0 .. N : \E r \in Data : data = flat[N - k] \o r}
    <1>3. 0 \in S
        <2>1. N - 0 = N /\ 0 \in 0 .. N
            BY <1>1
        <2>2. QED BY <2>1 DEF N
    <1>4. ASSUME NEW k \in 1 .. N, k - 1 \in S PROVE k \in S
        <2>1. PICK r \in Data : data = flat[N - (k - 1)] \o r
            BY <1>4
        <2> DEFINE i == N - (k - 1)
        <2>2. i \in 1 .. N /\ i - 1 = N - k /\ i - 1 \in 0 .. N /\ k \in 0 .. N
            BY <1>1
        <2> HIDE DEF i
        <2>3. flat[i - 1] \in Data /\ s[i] \in Data /\ data = (flat[i - 1] \o s[i]) \o r
            BY <1>1, <1>2, <2>1, <2>2 DEF i
        <2>4. s[i] \o r \in Data
            BY <2>3, Parts
        <2>5. (flat[i - 1] \o s[i]) \o r = flat[i - 1] \o (s[i] \o r)
            BY <2>3, Associative
        <2>6. QED BY <2>2, <2>3, <2>4, <2>5
    <1> HIDE DEF S
    <1>5. 0 .. N \subseteq S
        BY <1>1, <1>3, <1>4, Upwards
    <1>6. \A i \in 0 .. N : \E r \in Data : data = flat[i] \o r
        <2> TAKE i \in 0 .. N
        <2>1. N - i \in 0 .. N /\ N - (N - i) = i
            BY <1>1
        <2>2. N - i \in S
            BY <1>5, <2>1
        <2>3. QED BY <2>1, <2>2 DEF S
    <1> DEFINE left == [i \in 0 .. N |-> CHOOSE r \in Data : data = flat[i] \o r]
    <1>7. left \in [0 .. N -> Data] /\ \A i \in 0 .. N : data = flat[i] \o left[i]
        BY <1>6
    <1> HIDE DEF left
    <1>8. left[0] = data
        <2>1. 0 \in 0 .. N
            BY <1>1
        <2>2. data = flat[0] \o left[0] /\ left[0] \in Data
            BY <1>7, <2>1
        <2>3. data = <<>> \o left[0]
            BY <1>2, <2>2
        <2>4. QED BY <2>2, <2>3, DataType
    <1>9. left[N] = t
        <2>1. N \in 0 .. N
            BY <1>1
        <2>2. flat[N] \in Data /\ left[N] \in Data /\ flat[N] \o left[N] = flat[N] \o t
            BY <1>2, <1>7, <2>1 DEF N
        <2>3. QED BY <2>2, Cancel
    <1>10. ASSUME NEW i \in 1 .. N PROVE left[i - 1] = s[i] \o left[i]
        <2>1. i \in 0 .. N /\ i - 1 \in 0 .. N
            BY <1>1
        <2>2. /\ flat[i - 1] \in Data /\ left[i - 1] \in Data /\ s[i] \in Data /\ left[i] \in Data
              /\ data = flat[i - 1] \o left[i - 1] /\ data = flat[i] \o left[i]
            BY <1>1, <1>2, <1>7, <2>1
        <2>3. flat[i] = flat[i - 1] \o s[i]
            BY <1>2
        <2>4. s[i] \o left[i] \in Data
            BY <2>2, Parts
        <2>5. (flat[i - 1] \o s[i]) \o left[i] = flat[i - 1] \o (s[i] \o left[i])
            <3>1. flat[i - 1] \in Data /\ s[i] \in Data /\ left[i] \in Data
                BY <2>2
            <3>2. Regroups(flat[i - 1], s[i], left[i])
                BY <3>1, Regrouped
            <3>3. QED BY <3>2 DEF Regroups
        <2>6. flat[i - 1] \o left[i - 1] = flat[i - 1] \o (s[i] \o left[i])
            BY <2>2, <2>3, <2>5
        <2>7. QED BY <2>2, <2>4, <2>6, Cancel
    <1>11. IsLeft(left, s, N, data)
        BY <1>7, <1>8, <1>10 DEF IsLeft
    <1>12. IsDivided(left, flat, s, t, data)
        BY <1>7, <1>9, <1>11 DEF N, IsDivided
    <1>13. QED BY <1>12

\* Where the data ends, if it is not all there: in the middle of piece i, of which
\* only the bytes of left[i - 1] have arrived and the bytes of d have not.
IsCutAt(i, left, d, s, p) ==
    /\ IsLeft(left, s, i - 1, p)
    /\ d \in Data /\ Len(d) > 0 /\ Joined(left[i - 1], d, s[i])

LEMMA CutPieces ==
    ASSUME NEW s \in Seq(Data), NEW p \in Data, NEW c \in Data, Len(c) > 0,
           Joined(p, c, FlattenSeq(s))
    PROVE  \E i \in 1 .. Len(s) : \E left : \E d : IsCutAt(i, left, d, s, p)
    <1> DEFINE N == Len(s)
               data == FlattenSeq(s)
    <1>1. PICK flat : IsFlat(flat, s) /\ data = flat[N]
        BY FlattenIs
    <1>2. N \in Nat /\ \A i \in 1 .. N : s[i] \in Data
        OBVIOUS
    <1>3. /\ \A i \in 0 .. N : flat[i] \in Data
          /\ flat[0] = <<>> /\ \A i \in 1 .. N : flat[i] = flat[i - 1] \o s[i]
        BY <1>1 DEF IsFlat
    <1>4. <<>> \in Data /\ N \in 0 .. N
        BY <1>2, DataType
    <1>5. data = flat[N] \o <<>>
        <2>1. flat[N] \in Data
            BY <1>3, <1>4
        <2>2. QED BY <1>1, <2>1, DataType
    <1>6. PICK all : /\ IsLeft(all, s, N, data)
                     /\ \A i \in 0 .. N : data = flat[i] \o all[i]
        <2>1. \E all : IsDivided(all, flat, s, <<>>, data)
            BY <1>1, <1>4, <1>5, Pieces
        <2>2. QED BY <2>1 DEF IsDivided
    <1>7. \A i \in 0 .. N : all[i] \in Data
        BY <1>6 DEF IsLeft
    <1>8. \A i \in 1 .. N : all[i - 1] = s[i] \o all[i]
        BY <1>6 DEF IsLeft
    <1> HIDE DEF N, data
    <1> DEFINE B == {i \in 0 .. N : Len(p) < Len(flat[i])}
    <1>9. PICK i \in B : \A j \in B : i <= j
        <2>1. Len(flat[N]) = Len(p) + Len(c)
            <3>1. flat[N] = p \o c
                BY <1>1 DEF Joined, data
            <3>2. Len(p \o c) = Len(p) + Len(c)
                BY Parts
            <3>3. QED BY <3>1, <3>2
        <2>2. N \in B
            BY <1>4, <2>1, DataType
        <2>3. B \subseteq Nat /\ B # {}
            BY <1>2, <2>2
        <2> HIDE DEF B
        <2>4. QED BY <2>3, NatMin
    <1>10. i \in 0 .. N /\ Len(p) < Len(flat[i])
        BY <1>9
    <1>11. i \in 1 .. N /\ i - 1 \in 0 .. N
        <2>1. CASE i = 0
            <3>1. Len(flat[i]) = 0 /\ Len(p) \in Nat
                BY <1>3, <2>1, DataType
            <3>2. QED BY <1>10, <3>1
        <2>2. QED BY <1>2, <1>10, <2>1
    <1>12. \A j \in 0 .. i - 1 : j \in 0 .. N /\ Len(flat[j]) <= Len(p)
        <2> TAKE j \in 0 .. i - 1
        <2>1. j \in 0 .. N /\ ~(i <= j)
            BY <1>2, <1>11
        <2>2. ~(Len(p) < Len(flat[j]))
            BY <1>9, <2>1
        <2>3. Len(p) \in Nat /\ Len(flat[j]) \in Nat
            BY <1>3, <2>1, DataType
        <2>4. QED BY <2>1, <2>2, <2>3
    <1> HIDE DEF B
    <1> DEFINE left == [j \in 0 .. i - 1 |-> Behind(flat[j], p)]
    <1>13. ASSUME NEW j \in 0 .. i - 1
           PROVE  left[j] \in Data /\ p = flat[j] \o left[j] /\ Joined(left[j], c, all[j])
        <2>1. j \in 0 .. N /\ flat[j] \in Data /\ all[j] \in Data /\ Len(flat[j]) <= Len(p)
            BY <1>3, <1>7, <1>12
        <2>2. Joined(flat[j], all[j], data) /\ Joined(p, c, data)
            BY <1>6, <2>1 DEF Joined, data
        <2>3. /\ Behind(flat[j], p) \in Data /\ Joined(flat[j], Behind(flat[j], p), p)
              /\ Joined(Behind(flat[j], p), c, all[j])
            BY <2>1, <2>2, Overlap
        <2>4. left[j] = Behind(flat[j], p)
            OBVIOUS
        <2>5. QED BY <2>3, <2>4 DEF Joined
    <1>14. left \in [0 .. i - 1 -> Data]
        <2>1. \A j \in 0 .. i - 1 : left[j] \in Data
            BY <1>13
        <2>2. QED BY <2>1
    <1> HIDE DEF left
    <1>15. left[0] = p
        <2>1. 0 \in 0 .. i - 1
            BY <1>2, <1>11
        <2>2. left[0] \in Data /\ p = flat[0] \o left[0]
            BY <1>13, <2>1
        <2>3. p = <<>> \o left[0]
            BY <1>3, <2>2
        <2>4. QED BY <2>2, <2>3, DataType
    <1>16. ASSUME NEW j \in 1 .. i - 1 PROVE left[j - 1] = s[j] \o left[j]
        <2>1. j \in 0 .. i - 1 /\ j - 1 \in 0 .. i - 1 /\ j - 1 \in 0 .. N /\ j \in 1 .. N
            BY <1>2, <1>11
        <2>2. /\ flat[j - 1] \in Data /\ left[j - 1] \in Data /\ s[j] \in Data /\ left[j] \in Data
              /\ p = flat[j - 1] \o left[j - 1] /\ p = flat[j] \o left[j]
            BY <1>2, <1>3, <1>13, <2>1
        <2>3. flat[j] = flat[j - 1] \o s[j]
            BY <1>3, <2>1
        <2>4. s[j] \o left[j] \in Data
            BY <2>2, Parts
        <2>5. (flat[j - 1] \o s[j]) \o left[j] = flat[j - 1] \o (s[j] \o left[j])
            <3>1. flat[j - 1] \in Data /\ s[j] \in Data /\ left[j] \in Data
                BY <2>2
            <3>2. Regroups(flat[j - 1], s[j], left[j])
                BY <3>1, Regrouped
            <3>3. QED BY <3>2 DEF Regroups
        <2>6. flat[j - 1] \o left[j - 1] = flat[j - 1] \o (s[j] \o left[j])
            BY <2>2, <2>3, <2>5
        <2>7. QED BY <2>2, <2>4, <2>6, Cancel
    <1>17. IsLeft(left, s, i - 1, p)
        BY <1>14, <1>15, <1>16 DEF IsLeft
    <1> DEFINE q == left[i - 1]
               d == Behind(q, s[i])
    <1>18. q \in Data /\ p = flat[i - 1] \o q /\ Joined(q, c, all[i - 1])
        <2>1. i - 1 \in 0 .. i - 1
            BY <1>2, <1>11
        <2>2. QED BY <1>13, <2>1
    <1> HIDE DEF q
    <1>19. s[i] \in Data /\ all[i] \in Data /\ flat[i - 1] \in Data /\ Joined(s[i], all[i], all[i - 1])
        BY <1>2, <1>3, <1>7, <1>8, <1>10, <1>11 DEF Joined
    <1>20. Len(q) < Len(s[i]) /\ Len(q) \in Nat /\ Len(s[i]) \in Nat
        <2>1. Len(p) = Len(flat[i - 1]) + Len(q)
            BY <1>18, <1>19, Parts
        <2>2. Len(flat[i]) = Len(flat[i - 1]) + Len(s[i])
            <3>1. flat[i] = flat[i - 1] \o s[i]
                BY <1>3, <1>11
            <3>2. QED BY <1>19, <3>1, Parts
        <2>3. Len(q) \in Nat /\ Len(s[i]) \in Nat /\ Len(flat[i - 1]) \in Nat
            BY <1>18, <1>19, DataType
        <2>4. Len(flat[i - 1]) + Len(q) < Len(flat[i - 1]) + Len(s[i])
            BY <1>10, <2>1, <2>2
        <2>5. \A x, y, z \in Nat : x + y < x + z => y < z
            OBVIOUS
        <2>6. QED BY <2>3, <2>4, <2>5
    <1>21. d \in Data /\ Joined(q, d, s[i])
        <2>1. Len(q) <= Len(s[i])
            BY <1>20
        <2>2. QED BY <1>18, <1>19, <2>1, Overlap
    <1> HIDE DEF d
    <1>22. Len(d) > 0
        <2>1. Len(s[i]) = Len(q) + Len(d)
            BY <1>18, <1>21, Parts DEF Joined
        <2>2. Len(d) \in Nat
            BY <1>21, DataType
        <2>3. QED BY <1>20, <2>1, <2>2
    <1>23. IsCutAt(i, left, d, s, p)
        BY <1>17, <1>21, <1>22 DEF IsCutAt, q
    <1>24. QED BY <1>11, <1>23 DEF N

-----------------------------------------------------------------------------
(* Lists *)

Safe(V) == Results(V) \ {Panic}

LEMMA SafeIs ==
    ASSUME NEW V, NEW r
    PROVE  /\ r \in Safe(V) <=> r \in Results(V) /\ r.status # "panic"
           /\ r \in Safe(V) => r.status \in {"ok", "error"}
           /\ r \in Safe(V) /\ r.status = "ok" =>
                r.value \in V /\ r.rest \in Data /\ r = Ok(r.value, r.rest)
           /\ Error \in Safe(V)
    <1>1. r \in Results(V) => (r.status = "panic" <=> r = Panic)
        BY OkIs, TypesDiffer DEF Results, Error, Panic
    <1>2. Error # Panic
        BY OkIs, TypesDiffer
    <1>3. QED BY <1>1, <1>2, ResultIs DEF Safe, Results

LEMMA OkSafe ==
    ASSUME NEW V, NEW v \in V, NEW r \in Data
    PROVE  Ok(v, r) \in Safe(V)
    <1>1. Ok(v, r) \in Results(V) /\ Ok(v, r).status = "ok"
        BY OkIs, OkType
    <1>2. QED BY <1>1, SafeIs, TypesDiffer

\* A list, and one of its items.
IsList(f) == f.size \in Nat \ {0} /\ f.item \in Nat /\ f.how \in Ways /\ f.how # "slice"

IsItem(f, v) == v \in Data /\ IF f.item = 0 THEN Len(v) \in Uints(f.size) ELSE Len(v) = f.item

LEMMA ReadItemType ==
    ASSUME NEW f, IsList(f), NEW a \in Data
    PROVE  ReadItem(a, f) \in Safe(Data)
    <1>1. CASE f.item = 0
        BY <1>1, ReadBytesType, SafeIs DEF ReadItem, IsList
    <1>2. CASE f.item # 0
        BY <1>2, ReadType, SafeIs DEF ReadItem, IsList
    <1>3. QED BY <1>1, <1>2

LEMMA ReadItemWhole ==
    ASSUME NEW f, IsList(f), NEW v, IsItem(f, v), NEW t \in Data
    PROVE  EncodeItem(f, v) \in Data /\ ReadItem(EncodeItem(f, v) \o t, f) = Ok(v, t)
    <1>1. CASE f.item = 0
        BY <1>1, ReadBytesWhole DEF EncodeItem, ReadItem, IsList, IsItem
    <1>2. CASE f.item # 0
        BY <1>2, ReadWhole DEF EncodeItem, ReadItem, IsList, IsItem
    <1>3. QED BY <1>1, <1>2

\* What a reader returns that has not all the bytes: an error, or, if the way of
\* reading permits, all that was left.
CutResult(r, p, how) ==
    r.status = "ok" => how = "short" /\ Len(p) > 0 /\ r.rest = <<>>

LEMMA ReadItemCut ==
    ASSUME NEW f, IsList(f), NEW v, IsItem(f, v), NEW p \in Data, NEW c \in Data, Len(c) > 0,
           Joined(p, c, EncodeItem(f, v))
    PROVE  CutResult(ReadItem(p, f), p, f.how)
    <1>1. v \in Data /\ f.size \in Nat \ {0} /\ f.how \in Ways /\ f.how # "slice"
        BY DEF IsItem, IsList
    <1>2. CASE f.item = 0
        <2>1. Len(v) \in Uints(f.size) /\ Joined(p, c, WithLength(v, f.size))
            BY <1>2 DEF IsItem, EncodeItem
        <2>2. ReadItem(p, f) = ReadBytes(p, f.size, f.how)
            BY <1>2 DEF ReadItem
        <2>3. QED BY <1>1, <2>1, <2>2, ReadBytesCut DEF CutResult
    <1>3. CASE f.item # 0
        <2>1. Len(v) = f.item /\ v = p \o c /\ ReadItem(p, f) = Read(p, f.item, f.how)
            BY <1>3 DEF IsItem, EncodeItem, Joined, ReadItem
        <2>2. Len(v) = Len(p) + Len(c) /\ Len(p) \in Nat /\ Len(c) \in Nat
            BY <2>1, Parts, DataType
        <2>3. Len(p) < f.item /\ f.item \in Nat
            BY <2>1, <2>2
        <2>4. f.how \in {"full", "short"} /\ (Len(p) = 0 \/ Len(p) > 0)
            BY <1>1, <2>2 DEF Ways
        <2>5. \/ Read(p, f.item, f.how) = Error
              \/ f.how = "short" /\ Len(p) > 0 /\ Read(p, f.item, f.how) = Ok(Buffer(p, f.item), <<>>)
            BY <1>1, <2>3, <2>4, ReadCut
        <2>6. Error.status # "ok" /\ Ok(Buffer(p, f.item), <<>>).rest = <<>>
            BY OkIs, TypesDiffer
        <2>7. QED BY <2>1, <2>5, <2>6 DEF CutResult
    <1>4. QED BY <1>2, <1>3

LEMMA ReadItemOfNothing ==
    ASSUME NEW f, IsList(f)
    PROVE  ReadItem(<<>>, f).status # "ok"
    <1>1. <<>> \in Data /\ Len(<<>>) = 0
        BY DEF Data
    <1>2. f.size \in Nat \ {0} /\ f.item \in Nat /\ f.how \in {"full", "short"}
        BY DEF IsList, Ways
    <1>3. CASE f.item = 0
        <2>1. Read(<<>>, f.size, "full") = Error
            BY <1>1, <1>2, ReadCut DEF Ways
        <2>2. ReadItem(<<>>, f) = Error
            BY <1>3, <2>1, OkIs, TypesDiffer DEF ReadItem, ReadBytes, Then
        <2>3. QED BY <2>2, OkIs, TypesDiffer
    <1>4. CASE f.item # 0
        <2>1. Len(<<>>) < f.item
            BY <1>1, <1>2, <1>4
        <2>2. Read(<<>>, f.item, f.how) = Error
            BY <1>1, <1>2, <2>1, ReadCut DEF Ways
        <2>3. QED BY <1>4, <2>2, OkIs, TypesDiffer DEF ReadItem
    <1>5. QED BY <1>3, <1>4

\* One step of ReadItems, and all of them.
ItemStep(r, f) == IF r.status = "ok" THEN ReadNext(r, f) ELSE r

IsReading(items, n, a, f) ==
    /\ items \in [0 .. n -> Safe(Seq(Data))] /\ items[0] = Ok(<<>>, a)
    /\ \A i \in 1 .. n : items[i] = ItemStep(items[i - 1], f)

LEMMA ItemStepIs ==
    ASSUME NEW f, NEW r
    PROVE  /\ r.status # "ok" => ItemStep(r, f) = r
           /\ r.status = "ok" /\ ReadItem(r.rest, f).status # "ok" => ItemStep(r, f) = ReadItem(r.rest, f)
           /\ r.status = "ok" /\ ReadItem(r.rest, f).status = "ok" =>
                ItemStep(r, f) = Ok(Append(r.value, ReadItem(r.rest, f).value), ReadItem(r.rest, f).rest)
    BY DEF ItemStep, ReadNext, Then

LEMMA ItemStepType ==
    ASSUME NEW f, IsList(f), NEW r \in Safe(Seq(Data))
    PROVE  ItemStep(r, f) \in Safe(Seq(Data))
    <1>1. CASE r.status # "ok"
        BY <1>1, ItemStepIs
    <1>2. CASE r.status = "ok"
        <2> DEFINE x == ReadItem(r.rest, f)
        <2>1. r.value \in Seq(Data) /\ r.rest \in Data
            BY <1>2, SafeIs
        <2>2. x \in Safe(Data)
            BY <2>1, ReadItemType
        <2>3. CASE x.status # "ok"
            <3>1. x = Error
                BY <2>2, <2>3, OkIs DEF Safe, Results
            <3>2. Error \in Safe(Seq(Data))
                BY SafeIs
            <3>3. QED BY <1>2, <2>3, <3>1, <3>2, ItemStepIs
        <2>4. CASE x.status = "ok"
            <3>1. x.value \in Data /\ x.rest \in Data
                BY <2>2, <2>4, SafeIs
            <3> HIDE DEF x
            <3>2. Append(r.value, x.value) \in Seq(Data)
                BY <2>1, <3>1
            <3>3. Ok(Append(r.value, x.value), x.rest) \in Safe(Seq(Data))
                BY <3>1, <3>2, OkSafe
            <3>4. QED BY <1>2, <2>4, <3>3, ItemStepIs DEF x
        <2>5. QED BY <2>3, <2>4
    <1>3. QED BY <1>1, <1>2

LEMMA ReadItemsIs ==
    ASSUME NEW f, IsList(f), NEW a \in Data, NEW n \in Nat
    PROVE  \E items : IsReading(items, n, a, f) /\ ReadItems(a, n, f) = items[n]
    <1> DEFINE X == Safe(Seq(Data))
               x == Ok(<<>>, a)
               g == [p \in (1 .. n) \X X |-> ItemStep(p[2], f)]
               body(h) == [i \in 0 .. n |-> IF i = 0 THEN x ELSE ItemStep(h[i - 1], f)]
               items == CHOOSE h : h = body(h)
    <1>1. x \in X
        <2>1. <<>> \in Seq(Data)
            OBVIOUS
        <2>2. QED BY <2>1, OkSafe
    <1>2. \A r \in X : ItemStep(r, f) \in X
        BY ItemStepType
    <1>3. ReadItems(a, n, f) = items[n]
        BY DEF ReadItems, ItemStep, Then
    <1> HIDE DEF X, x
    <1>4. g \in [(1 .. n) \X X -> X] /\ \A i \in 1 .. n, r \in X : g[<<i, r>>] = ItemStep(r, f)
        BY <1>2
    <1> HIDE DEF g
    <1>5. PICK h : IsRecursion(h, n, X, x, g)
        BY <1>1, <1>4, Recursion
    <1>6. h = body(h)
        <2>1. ASSUME NEW i \in 1 .. n PROVE h[i] = ItemStep(h[i - 1], f)
            <3>1. i - 1 \in 0 .. n
                OBVIOUS
            <3>2. QED BY <1>4, <1>5, <3>1 DEF IsRecursion
        <2>2. QED BY <1>5, <2>1 DEF IsRecursion
    <1>7. items = body(items)
        BY <1>6
    <1> HIDE DEF items
    <1>8. PICK u : u = items
        OBVIOUS
    <1>9. u[0] = x /\ \A i \in 1 .. n : u[i] = ItemStep(u[i - 1], f)
        <2>1. \A i \in 0 .. n : u[i] = IF i = 0 THEN x ELSE ItemStep(u[i - 1], f)
            BY <1>7, <1>8
        <2>2. 0 \in 0 .. n /\ \A i \in 1 .. n : i \in 0 .. n /\ i # 0
            OBVIOUS
        <2>3. QED BY <2>1, <2>2
    <1>10. \A i \in 0 .. n : u[i] \in X
        <2> DEFINE S == {i \in 0 .. n : u[i] \in X}
        <2>1. 0 \in S
            BY <1>1, <1>9
        <2>2. ASSUME NEW i \in 1 .. n, i - 1 \in S PROVE i \in S
            <3>1. i \in 0 .. n /\ u[i - 1] \in X
                BY <2>2
            <3>2. QED BY <1>2, <1>9, <3>1
        <2> HIDE DEF S
        <2>3. 0 .. n \subseteq S
            BY <2>1, <2>2, Upwards
        <2>4. QED BY <2>3 DEF S
    <1>11. u \in [0 .. n -> X]
        BY <1>7, <1>8, <1>10
    <1>12. IsReading(u, n, a, f)
        BY <1>9, <1>11 DEF IsReading, X, x
    <1>13. QED BY <1>3, <1>8, <1>12

\* A step that comes after the data has ended fails.
LEMMA AfterTheEnd ==
    ASSUME NEW N \in Nat, NEW i \in 1 .. N, NEW st,
           st[i].status = "ok" => st[i].rest = <<>>,
           \A j \in 1 .. N : j > i /\ (st[j - 1].status = "ok" => st[j - 1].rest = <<>>)
                             => st[j].status # "ok"
    PROVE  st[N].status = "ok" => i = N /\ st[N].rest = <<>>
    <1> DEFINE S == {j \in 0 .. N : /\ j >= i /\ st[j].status = "ok" => st[j].rest = <<>>
                                    /\ j > i => st[j].status # "ok"}
    <1>1. 0 \in S
        OBVIOUS
    <1>2. ASSUME NEW j \in 1 .. N, j - 1 \in S PROVE j \in S
        <2>1. CASE j > i
            <3>1. j - 1 >= i
                BY <2>1
            <3>2. st[j].status # "ok"
                BY <1>2, <2>1, <3>1
            <3>3. QED BY <3>2
        <2>2. CASE j = i
            BY <2>2
        <2>3. CASE j < i
            BY <2>3
        <2>4. QED BY <2>1, <2>2, <2>3
    <1> HIDE DEF S
    <1>3. 0 .. N \subseteq S
        BY <1>1, <1>2, Upwards
    <1>4. N \in S
        BY <1>3
    <1>5. QED BY <1>4 DEF S

\* The pieces that a list is written in.
ItemPieces(f, v) == [i \in DOMAIN v |-> EncodeItem(f, v[i])]

LEMMA ItemPiecesIs ==
    ASSUME NEW f, IsList(f), NEW v \in Seq(Data), \A i \in DOMAIN v : IsItem(f, v[i])
    PROVE  /\ ItemPieces(f, v) \in Seq(Data) /\ Len(ItemPieces(f, v)) = Len(v)
           /\ \A i \in 1 .. Len(v) : ItemPieces(f, v)[i] = EncodeItem(f, v[i]) /\ IsItem(f, v[i])
    <1>1. DOMAIN v = 1 .. Len(v) /\ Len(v) \in Nat /\ <<>> \in Data
        BY DEF Data
    <1>2. \A i \in 1 .. Len(v) : EncodeItem(f, v[i]) \in Data
        BY <1>1, ReadItemWhole
    <1>3. ItemPieces(f, v) = [i \in 1 .. Len(v) |-> EncodeItem(f, v[i])]
        BY <1>1 DEF ItemPieces
    <1>4. QED BY <1>1, <1>2, <1>3

\* As long as its items are there, a list is read item by item.
LEMMA ReadsItems ==
    ASSUME NEW f, IsList(f), NEW v \in Seq(Data), \A i \in DOMAIN v : IsItem(f, v[i]),
           NEW n \in 0 .. Len(v), NEW a \in Data, NEW left, IsLeft(left, ItemPieces(f, v), n, a),
           NEW items, IsReading(items, Len(v), a, f)
    PROVE  items[n] = Ok(SubSeq(v, 1, n), left[n])
    <1> DEFINE S == {i \in 0 .. n : items[i] = Ok(SubSeq(v, 1, i), left[i])}
    <1>1. Len(v) \in Nat /\ n \in Nat
        OBVIOUS
    <1>2. 0 \in S
        <2>1. SubSeq(v, 1, 0) = <<>>
            BY SubSeqEmpty
        <2>2. items[0] = Ok(<<>>, a) /\ left[0] = a
            BY DEF IsReading, IsLeft
        <2>3. items[0] = Ok(SubSeq(v, 1, 0), left[0])
            BY <2>1, <2>2
        <2>4. 0 \in 0 .. n
            BY <1>1
        <2>5. QED BY <2>3, <2>4
    <1>3. ASSUME NEW i \in 1 .. n, i - 1 \in S PROVE i \in S
        <2>1. i \in 1 .. Len(v) /\ i \in 0 .. n /\ i - 1 \in 0 .. n
            BY <1>1
        <2>2. items[i - 1] = Ok(SubSeq(v, 1, i - 1), left[i - 1]) /\ items[i] = ItemStep(items[i - 1], f)
            BY <1>3, <2>1 DEF IsReading
        <2>3. left[i - 1] = EncodeItem(f, v[i]) \o left[i] /\ left[i] \in Data /\ IsItem(f, v[i])
            BY <2>1, ItemPiecesIs DEF IsLeft
        <2>4. ReadItem(left[i - 1], f) = Ok(v[i], left[i])
            BY <2>3, ReadItemWhole
        <2>5. items[i] = Ok(Append(SubSeq(v, 1, i - 1), v[i]), left[i])
            BY <2>2, <2>4, OkIs, ItemStepIs
        <2>6. Append(SubSeq(v, 1, i - 1), v[i]) = SubSeq(v, 1, i)
            BY <1>1, <2>1
        <2>7. QED BY <2>1, <2>5, <2>6
    <1> HIDE DEF S
    <1>4. 0 .. n \subseteq S
        BY <1>1, <1>2, <1>3, Upwards
    <1>5. n \in S
        BY <1>1, <1>4
    <1>6. QED BY <1>5 DEF S

LEMMA ReadItemsWhole ==
    ASSUME NEW f, IsList(f), NEW v \in Seq(Data), \A i \in DOMAIN v : IsItem(f, v[i]), NEW t \in Data
    PROVE  /\ FlattenSeq(ItemPieces(f, v)) \in Data
           /\ ReadItems(FlattenSeq(ItemPieces(f, v)) \o t, Len(v), f) = Ok(v, t)
    <1> DEFINE s == ItemPieces(f, v)
               N == Len(v)
    <1>1. s \in Seq(Data) /\ Len(s) = N /\ N \in Nat
        BY ItemPiecesIs
    <1> HIDE DEF s
    <1>2. PICK flat : IsFlat(flat, s) /\ FlattenSeq(s) = flat[N]
        BY <1>1, FlattenIs
    <1>3. flat[N] \in Data
        BY <1>1, <1>2 DEF IsFlat
    <1> DEFINE a == flat[N] \o t
    <1>4. a \in Data
        BY <1>3, Parts
    <1>5. PICK left : IsDivided(left, flat, s, t, a)
        BY <1>1, <1>2, Pieces
    <1>6. IsLeft(left, s, N, a) /\ left[N] = t
        BY <1>1, <1>5 DEF IsDivided
    <1> HIDE DEF a
    <1>7. PICK items : IsReading(items, N, a, f) /\ ReadItems(a, N, f) = items[N]
        BY <1>1, <1>4, ReadItemsIs
    <1>8. N \in 0 .. N
        BY <1>1
    <1>9. items[N] = Ok(SubSeq(v, 1, N), left[N])
        BY <1>4, <1>6, <1>7, <1>8, ReadsItems DEF s
    <1>10. SubSeq(v, 1, N) = v
        BY SubSeqFull
    <1>11. QED BY <1>2, <1>3, <1>6, <1>7, <1>9, <1>10 DEF s, a

LEMMA ReadItemsCut ==
    ASSUME NEW f, IsList(f), NEW v \in Seq(Data), \A i \in DOMAIN v : IsItem(f, v[i]),
           NEW p \in Data, NEW c \in Data, Len(c) > 0, Joined(p, c, FlattenSeq(ItemPieces(f, v)))
    PROVE  ReadItems(p, Len(v), f).status = "ok" => f.how = "short" /\ ReadItems(p, Len(v), f).rest = <<>>
    <1> DEFINE s == ItemPieces(f, v)
               N == Len(v)
    <1>1. s \in Seq(Data) /\ Len(s) = N /\ N \in Nat
        BY ItemPiecesIs
    <1>2. PICK i \in 1 .. N : \E left : \E d : IsCutAt(i, left, d, s, p)
        <2> HIDE DEF s
        <2>1. \E i \in 1 .. Len(s) : \E left : \E d : IsCutAt(i, left, d, s, p)
            BY <1>1, CutPieces DEF s
        <2>2. QED BY <1>1, <2>1
    <1>3. PICK left, d : IsCutAt(i, left, d, s, p)
        BY <1>2
    <1>4. PICK items : IsReading(items, N, p, f) /\ ReadItems(p, N, f) = items[N]
        BY <1>1, ReadItemsIs
    <1>5. IsLeft(left, s, i - 1, p) /\ d \in Data /\ Len(d) > 0 /\ Joined(left[i - 1], d, s[i])
        BY <1>3 DEF IsCutAt
    <1>6. i - 1 \in 0 .. N /\ i - 1 \in 0 .. i - 1
        BY <1>1
    <1>7. items[i - 1] = Ok(SubSeq(v, 1, i - 1), left[i - 1])
        BY <1>4, <1>5, <1>6, ReadsItems
    <1>8. left[i - 1] \in Data /\ s[i] = EncodeItem(f, v[i]) /\ IsItem(f, v[i])
        BY <1>5, <1>6, ItemPiecesIs DEF IsLeft
    <1>9. CutResult(ReadItem(left[i - 1], f), left[i - 1], f.how)
        BY <1>5, <1>8, ReadItemCut
    <1> HIDE DEF s, N
    <1>10. \A j \in 1 .. N : items[j] = ItemStep(items[j - 1], f)
        BY <1>4 DEF IsReading
    <1>11. items[i].status = "ok" => f.how = "short" /\ items[i].rest = <<>>
        <2> DEFINE x == ReadItem(left[i - 1], f)
        <2>1. items[i] = ItemStep(items[i - 1], f)
            BY <1>10
        <2>2. items[i - 1].status = "ok" /\ items[i - 1].rest = left[i - 1]
            BY <1>7, OkIs
        <2>3. CASE x.status # "ok"
            BY <2>1, <2>2, <2>3, ItemStepIs
        <2>4. CASE x.status = "ok"
            <3>1. f.how = "short" /\ x.rest = <<>>
                BY <1>9, <2>4 DEF CutResult
            <3>2. items[i] = Ok(Append(items[i - 1].value, x.value), x.rest)
                BY <2>1, <2>2, <2>4, ItemStepIs
            <3>3. QED BY <3>1, <3>2, OkIs
        <2>5. QED BY <2>3, <2>4
    <1>12. ASSUME NEW j \in 1 .. N, items[j - 1].status = "ok" => items[j - 1].rest = <<>>
           PROVE  items[j].status # "ok"
        <2>1. items[j] = ItemStep(items[j - 1], f)
            BY <1>10
        <2>2. CASE items[j - 1].status = "ok"
            BY <1>12, <2>1, <2>2, ReadItemOfNothing, ItemStepIs
        <2>3. CASE items[j - 1].status # "ok"
            BY <2>1, <2>3, ItemStepIs
        <2>4. QED BY <2>2, <2>3
    <1>13. items[N].status = "ok" => i = N /\ items[N].rest = <<>>
        <2>1. items[i].status = "ok" => items[i].rest = <<>>
            BY <1>11
        <2>2. \A j \in 1 .. N : j > i /\ (items[j - 1].status = "ok" => items[j - 1].rest = <<>>)
                                => items[j].status # "ok"
            BY <1>12
        <2>3. QED BY <1>1, <2>1, <2>2, AfterTheEnd
    <1>14. QED BY <1>4, <1>11, <1>13 DEF N

-----------------------------------------------------------------------------
(* One field *)

\* All the numbers that a type of signature is written as have four bytes.
LEMMA SignerFits ==
    ASSUME NEW t
    PROVE  Uint32(t) \in Uints(4)
    <1>1. Byte \in Nat /\ Byte > 3
        BY SizesAssumption
    <1>2. \A x \in Nat \ {0} : (Byte * x - 1) \div Byte = x - 1 /\ Byte * x - 1 \in Nat
        <2> TAKE x \in Nat \ {0}
        <2>1. Byte * x - 1 = Byte * (x - 1) + (Byte - 1)
            BY <1>1
        <2>2. (Byte * (x - 1) + (Byte - 1)) \div Byte = x - 1
            <3>1. \A y \in Nat, d \in 0 .. Byte - 1 : (Byte * y + d) \div Byte = y
                BY <1>1
            <3>2. x - 1 \in Nat /\ Byte - 1 \in 0 .. Byte - 1
                BY <1>1
            <3>3. QED BY <3>1, <3>2
        <2>3. Byte * (x - 1) \in Nat
            BY <1>1
        <2>4. QED BY <1>1, <2>1, <2>2, <2>3
    <1>3. ASSUME NEW v \in 0 .. 2 PROVE v \in Uints(4)
        <2>1. v \div Byte = 0 /\ 0 \div Byte = 0
            BY <1>1
        <2>2. Shifted(v, 1) = v \div Byte
            <3>1. 1 \in Nat /\ 1 > 0 /\ 1 - 1 = 0 /\ v \in Nat
                OBVIOUS
            <3>2. Shifted(v, 1) = Shifted(v, 1 - 1) \div Byte /\ Shifted(v, 0) = v
                BY <3>1, ShiftedIs
            <3>3. QED BY <3>1, <3>2
        <2>3. /\ Shifted(v, 2) = Shifted(v, 1) \div Byte /\ Shifted(v, 3) = Shifted(v, 2) \div Byte
              /\ Shifted(v, 4) = Shifted(v, 3) \div Byte
            <3>1. v \in Nat
                OBVIOUS
            <3>2. \A n \in Nat : n > 0 => Shifted(v, n) = Shifted(v, n - 1) \div Byte
                BY <3>1, ShiftedIs
            <3>3. QED BY <3>2
        <2>4. QED BY <2>1, <2>2, <2>3 DEF Uints
    <1>4. Byte * Byte * Byte * Byte - 1 \in Uints(4)
        <2> DEFINE v == Byte * Byte * Byte * Byte - 1
        <2>1. /\ Byte * Byte * Byte \in Nat \ {0} /\ Byte * Byte \in Nat \ {0} /\ Byte \in Nat \ {0}
              /\ v = Byte * (Byte * Byte * Byte) - 1
              /\ Byte * Byte * Byte = Byte * (Byte * Byte) /\ Byte = Byte * 1
            BY <1>1
        <2>2. /\ v \in Nat /\ v \div Byte = Byte * Byte * Byte - 1
              /\ (Byte * Byte * Byte - 1) \div Byte = Byte * Byte - 1
              /\ (Byte * Byte - 1) \div Byte = Byte - 1
              /\ (Byte - 1) \div Byte = 0
            <3>1. v \in Nat /\ v \div Byte = Byte * Byte * Byte - 1
                BY <1>2, <2>1
            <3>2. (Byte * (Byte * Byte) - 1) \div Byte = Byte * Byte - 1
                BY <1>2, <2>1
            <3>3. (Byte * Byte - 1) \div Byte = Byte - 1
                BY <1>2, <2>1
            <3>4. (Byte - 1) \div Byte = 0
                BY <1>1
            <3>5. QED BY <2>1, <3>1, <3>2, <3>3, <3>4
        <2> HIDE DEF v
        <2>3. \A n \in Nat : n > 0 => Shifted(v, n) = Shifted(v, n - 1) \div Byte
            BY <2>2, ShiftedIs
        <2>4. Shifted(v, 0) = v
            BY <2>2, ShiftedIs
        <2>5. /\ Shifted(v, 1) = Shifted(v, 0) \div Byte /\ Shifted(v, 2) = Shifted(v, 1) \div Byte
              /\ Shifted(v, 3) = Shifted(v, 2) \div Byte /\ Shifted(v, 4) = Shifted(v, 3) \div Byte
            BY <2>3
        <2>6. Shifted(v, 4) = 0
            BY <2>2, <2>4, <2>5, Zenon
        <2>7. QED BY <2>2, <2>6 DEF Uints, v
    <1>5. Uint32(t) \in 0 .. 2 \/ Uint32(t) = Byte * Byte * Byte * Byte - 1
        BY DEF Uint32
    <1>6. QED BY <1>3, <1>4, <1>5

\* A flag and its byte.
LEMMA FlagIs ==
    <<0>> \in Data /\ <<1>> \in Data /\ Len(<<0>>) = 1 /\ Len(<<1>>) = 1 /\ <<0>> # <<1>>
    BY SizesAssumption DEF Data, Bytes

\* A fixed number of bytes,
LEMMA FixedIs ==
    ASSUME NEW n \in Nat, NEW v \in [1 .. n -> Bytes]
    PROVE  v \in Data /\ Len(v) = n
    BY DEF Data

\* and the items of a list.
LEMMA ListContent ==
    ASSUME NEW f, IsField(f), f.type = "list", NEW v \in Content(f)
    PROVE  /\ v \in Seq(Data) /\ IsList(f)
           /\ ItemPieces(f, v) \in Seq(Data)
           /\ FieldFits(f, v) => \A i \in DOMAIN v : IsItem(f, v[i])
    <1> DEFINE I == IF f.item = 0 THEN Seq(Bytes) ELSE [1 .. f.item -> Bytes]
    <1>1. v \in Seq(I) /\ f.item \in Nat /\ f.size \in Nat
        BY TypesDiffer DEF Content, IsField
    <1>2. \A w \in I : w \in Data /\ (f.item # 0 => Len(w) = f.item)
        BY <1>1, FixedIs DEF Data
    <1> HIDE DEF I
    <1>3. DOMAIN v = 1 .. Len(v) /\ Len(v) \in Nat /\ \A i \in DOMAIN v : v[i] \in I
        BY <1>1
    <1>4. v \in Seq(Data)
        BY <1>1, <1>2
    <1>5. IsList(f)
        BY TypesDiffer DEF IsField, IsList
    <1>6. ASSUME NEW i \in DOMAIN v PROVE EncodeItem(f, v[i]) \in Data
        <2>1. v[i] \in Data /\ Len(v[i]) \in Nat
            BY <1>2, <1>3, DataType
        <2>2. Number(Len(v[i]), f.size) \in Data
            BY <1>1, <2>1, NumberType DEF Data
        <2>3. QED BY <2>1, <2>2, Parts DEF EncodeItem, WithLength
    <1>7. ItemPieces(f, v) = [i \in 1 .. Len(v) |-> EncodeItem(f, v[i])]
        BY <1>3 DEF ItemPieces
    <1>8. ItemPieces(f, v) \in Seq(Data)
        BY <1>3, <1>6, <1>7
    <1>9. FieldFits(f, v) => \A i \in DOMAIN v : IsItem(f, v[i])
        BY <1>2, <1>3, TypesDiffer DEF FieldFits, IsItem
    <1>10. QED BY <1>4, <1>5, <1>8, <1>9

\* The pieces of bytes make bytes.
LEMMA FlattenType ==
    ASSUME NEW s \in Seq(Data)
    PROVE  FlattenSeq(s) \in Data
    <1>1. PICK flat : IsFlat(flat, s) /\ FlattenSeq(s) = flat[Len(s)]
        BY FlattenIs
    <1>2. Len(s) \in 0 .. Len(s)
        OBVIOUS
    <1>3. QED BY <1>1, <1>2 DEF IsFlat

\* The ways a field is written and read, by its type.
LEMMA Numbers ==
    ASSUME NEW f, NEW a, NEW v, f.type = "number"
    PROVE  /\ EncodeField(f, v) = Number(v, f.size) /\ Content(f) = Uints(f.size)
           /\ DecodeField(a, f) =
                Then(Read(a, f.size, f.how), LAMBDA r : Ok(ValueOf(r.value), r.rest))
    BY TypesDiffer DEF EncodeField, DecodeField, Content

LEMMA Signers ==
    ASSUME NEW f, NEW a, NEW v, f.type = "signer"
    PROVE  /\ EncodeField(f, v) = Number(Uint32(v), f.size)
           /\ DecodeField(a, f) = Then(Read(a, f.size, f.how),
                                       LAMBDA r : Ok(SignerTypeFromUint32(ValueOf(r.value)), r.rest))
    BY TypesDiffer DEF EncodeField, DecodeField, Content

LEMMA FixedSizes ==
    ASSUME NEW f, NEW a, NEW v, f.type = "fixed"
    PROVE  /\ EncodeField(f, v) = v /\ Content(f) = [1 .. f.size -> Bytes]
           /\ DecodeField(a, f) = Read(a, f.size, f.how)
    BY TypesDiffer DEF EncodeField, DecodeField, Content

LEMMA ByteStrings ==
    ASSUME NEW f, NEW a, NEW v, f.type = "bytes"
    PROVE  /\ EncodeField(f, v) = WithLength(v, f.size) /\ Content(f) = Data
           /\ DecodeField(a, f) = ReadBytes(a, f.size, f.how)
    BY TypesDiffer DEF EncodeField, DecodeField, Content, Data

Flag(v) == <<IF v = <<>> THEN 0 ELSE 1>>

\* What is read behind the flag and the length of a signature.
Signed(flag, length, how) ==
    Read(length.rest, IF flag.value = <<1>> THEN ValueOf(length.value) ELSE 0, how)

LEMMA Signatures ==
    ASSUME NEW f, NEW a, NEW v, f.type = "signature"
    PROVE  /\ EncodeField(f, v) = Flag(v) \o WithLength(v, f.size) /\ Content(f) = Data
           /\ DecodeField(a, f) =
                Then(Read(a, 1, "full"), LAMBDA flag :
                    Then(Read(flag.rest, f.size, "full"), LAMBDA length : Signed(flag, length, f.how)))
    BY TypesDiffer DEF EncodeField, DecodeField, Content, Data, Flag, Signed

LEMMA Optionals ==
    ASSUME NEW f, NEW a, NEW v, f.type = "optional"
    PROVE  /\ v = <<>> => EncodeField(f, v) = <<0>>
           /\ v # <<>> => EncodeField(f, v) = <<1>> \o v
           /\ Content(f) = {<<>>} \cup [1 .. f.size -> Bytes]
           /\ DecodeField(a, f) =
                Then(Read(a, 1, "full"), LAMBDA flag :
                    Read(flag.rest, IF flag.value = <<1>> THEN f.size ELSE 0, f.how))
    BY TypesDiffer DEF EncodeField, DecodeField, Content

\* The field behind an optional flag that was read.
LEMMA OptionalRead ==
    ASSUME NEW f, NEW a, f.type = "optional", NEW x, NEW r, Read(a, 1, "full") = Ok(x, r)
    PROVE  DecodeField(a, f) = Read(r, IF x = <<1>> THEN f.size ELSE 0, f.how)
    <1> DEFINE flag == Read(a, 1, "full")
    <1>1. flag.status = "ok" /\ flag.value = x /\ flag.rest = r
        BY OkIs
    <1>2. DecodeField(a, f) = IF flag.status = "ok"
                              THEN Read(flag.rest, IF flag.value = <<1>> THEN f.size ELSE 0, f.how)
                              ELSE flag
        BY TypesDiffer DEF DecodeField, Then
    <1> HIDE DEF flag
    <1>3. QED BY <1>1, <1>2

LEMMA Lists ==
    ASSUME NEW f, NEW a, NEW v, f.type = "list"
    PROVE  /\ EncodeField(f, v) = Number(Len(v), f.size) \o FlattenSeq(ItemPieces(f, v))
           /\ DecodeField(a, f) =
                Then(Read(a, f.size, "full"), LAMBDA r : ReadItems(r.rest, ValueOf(r.value), f))
    BY TypesDiffer DEF EncodeField, DecodeField, ItemPieces

\* A field as its reader has it.
DecodedAs(f, v) == IF f.type = "signer" THEN KnownSigner(v) ELSE v

\* A field is written as bytes,
LEMMA EncodeFieldType ==
    ASSUME NEW f, IsField(f), NEW v \in Content(f)
    PROVE  EncodeField(f, v) \in Data
    <1>0. f.type \in Types /\ f.size \in Nat
        BY DEF IsField
    <1>1. CASE f.type = "number"
        <2>1. v \in Nat
            BY <1>1, Numbers DEF Uints
        <2>2. QED BY <1>0, <1>1, <2>1, Numbers, NumberType DEF Data
    <1>2. CASE f.type = "signer"
        <2>1. Uint32(v) \in Nat
            BY SignerFits DEF Uints
        <2>2. QED BY <1>0, <1>2, <2>1, Signers, NumberType DEF Data
    <1>3. CASE f.type = "fixed"
        BY <1>0, <1>3, FixedSizes, FixedIs
    <1>4. ASSUME v \in Data PROVE WithLength(v, f.size) \in Data
        <2>1. Number(Len(v), f.size) \in Data
            BY <1>0, <1>4, DataType, NumberType DEF Data
        <2>2. QED BY <1>4, <2>1, Parts DEF WithLength
    <1>5. Flag(v) \in Data
        BY FlagIs DEF Flag
    <1>6. CASE f.type = "bytes"
        BY <1>4, <1>6, ByteStrings
    <1>7. CASE f.type = "signature"
        <2>1. v \in Data /\ EncodeField(f, v) = Flag(v) \o WithLength(v, f.size)
            BY <1>7, Signatures
        <2>2. QED BY <1>4, <1>5, <2>1, Parts
    <1>8. CASE f.type = "optional"
        <2>1. v = <<>> \/ v \in [1 .. f.size -> Bytes]
            BY <1>8, Optionals
        <2>2. CASE v = <<>>
            BY <1>8, <2>2, Optionals, FlagIs
        <2>3. CASE v # <<>>
            <3>1. v \in Data /\ EncodeField(f, v) = <<1>> \o v
                BY <1>0, <1>8, <2>1, <2>3, Optionals, FixedIs
            <3>2. QED BY <3>1, FlagIs, Parts
        <2>4. QED BY <2>2, <2>3
    <1>9. CASE f.type = "list"
        <2>1. v \in Seq(Data) /\ FlattenSeq(ItemPieces(f, v)) \in Data
            BY <1>9, ListContent, FlattenType
        <2>2. Number(Len(v), f.size) \in Data
            BY <1>0, <2>1, NumberType DEF Data
        <2>3. EncodeField(f, v) = Number(Len(v), f.size) \o FlattenSeq(ItemPieces(f, v))
            BY <1>9, Lists
        <2>4. QED BY <2>1, <2>2, <2>3, Parts
    <1>10. QED BY <1>0, <1>1, <1>2, <1>3, <1>6, <1>7, <1>8, <1>9 DEF Types

\* is read from them whatever follows,
LEMMA FieldWhole ==
    ASSUME NEW f, IsField(f), NEW v \in Content(f), FieldFits(f, v), NEW t \in Data
    PROVE  DecodeField(EncodeField(f, v) \o t, f) = Ok(DecodedAs(f, v), t)
    <1> DEFINE e == EncodeField(f, v)
    <1>0. f.type \in Types /\ f.size \in Nat /\ f.how \in Ways
        BY DEF IsField
    <1>1. CASE f.type = "number"
        <2>1. v \in Uints(f.size) /\ v \in Nat /\ e = Number(v, f.size)
            BY <1>1, Numbers DEF Uints
        <2>2. e \in Data /\ Len(e) = f.size /\ ValueOf(e) = v
            BY <1>0, <2>1, NumberType, NumberRoundTrip DEF Data
        <2> HIDE DEF e
        <2>3. Read(e \o t, f.size, f.how) = Ok(e, t)
            BY <2>2, ReadWhole
        <2>4. DecodeField(e \o t, f) = Ok(ValueOf(e), t)
            BY <1>1, <2>3, Numbers, OkIs DEF Then
        <2>5. DecodedAs(f, v) = v
            BY <1>1, TypesDiffer DEF DecodedAs
        <2>6. QED BY <2>2, <2>4, <2>5 DEF e
    <1>2. CASE f.type = "signer"
        <2>1. Uint32(v) \in Uints(f.size) /\ Uint32(v) \in Nat /\ e = Number(Uint32(v), f.size)
            BY <1>2, Signers, SignerFits DEF Uints, IsField
        <2>2. e \in Data /\ Len(e) = f.size /\ ValueOf(e) = Uint32(v)
            BY <1>0, <2>1, NumberType, NumberRoundTrip DEF Data
        <2> HIDE DEF e
        <2>3. Read(e \o t, f.size, f.how) = Ok(e, t)
            BY <2>2, ReadWhole
        <2>4. DecodeField(e \o t, f) = Ok(SignerTypeFromUint32(ValueOf(e)), t)
            BY <1>2, <2>3, Signers, OkIs DEF Then
        <2>5. DecodedAs(f, v) = SignerTypeFromUint32(Uint32(v))
            BY <1>2 DEF DecodedAs, KnownSigner
        <2>6. QED BY <2>2, <2>4, <2>5 DEF e
    <1>3. DecodedAs(f, v) = v \/ f.type = "signer"
        BY DEF DecodedAs
    <1>4. CASE f.type = "fixed"
        <2>1. e = v /\ v \in Data /\ Len(v) = f.size
            BY <1>0, <1>4, FixedSizes, FixedIs
        <2>2. DecodeField(e \o t, f) = Read(e \o t, f.size, f.how)
            BY <1>4, FixedSizes
        <2>3. QED BY <1>3, <1>4, <2>1, <2>2, ReadWhole, TypesDiffer
    <1>5. CASE f.type = "bytes"
        <2>1. e = WithLength(v, f.size) /\ v \in Data /\ Len(v) \in Uints(f.size)
            BY <1>5, ByteStrings DEF FieldFits
        <2>2. DecodeField(e \o t, f) = ReadBytes(e \o t, f.size, f.how)
            BY <1>5, ByteStrings
        <2>3. QED BY <1>0, <1>3, <1>5, <2>1, <2>2, ReadBytesWhole, TypesDiffer
    <1>6. CASE f.type = "signature"
        <2> DEFINE l == Number(Len(v), f.size)
        <2>1. e = Flag(v) \o WithLength(v, f.size) /\ v \in Data /\ Len(v) \in Uints(f.size)
            BY <1>6, Signatures DEF FieldFits
        <2>2. l \in Data /\ Len(l) = f.size /\ ValueOf(l) = Len(v)
            <3>1. l \in Data /\ Len(l) = f.size
                BY <1>0, <2>1, DataType, NumberType DEF Data
            <3>2. ValueOf(l) = Len(v)
                BY <1>0, <2>1, NumberRoundTrip
            <3>3. QED BY <3>1, <3>2
        <2>3. Flag(v) \in Data /\ Len(Flag(v)) = 1
            BY FlagIs DEF Flag
        <2>4. l \o v \in Data /\ v \o t \in Data /\ (l \o v) \o t \in Data
            BY <2>1, <2>2, Parts
        <2>5. e = Flag(v) \o (l \o v)
            BY <2>1 DEF WithLength
        <2> HIDE DEF e, l
        <2>6. e \o t = Flag(v) \o ((l \o v) \o t)
            BY <2>3, <2>4, <2>5, Associative
        <2>7. (l \o v) \o t = l \o (v \o t)
            BY <2>1, <2>2, Associative
        <2>8. Read(e \o t, 1, "full") = Ok(Flag(v), l \o (v \o t))
            <3>1. Read(Flag(v) \o ((l \o v) \o t), 1, "full") = Ok(Flag(v), (l \o v) \o t)
                BY <2>3, <2>4, ReadWhole
            <3>2. QED BY <2>6, <2>7, <3>1
        <2>9. Read(l \o (v \o t), f.size, "full") = Ok(l, v \o t)
            BY <2>2, <2>4, ReadWhole
        <2>10. DecodeField(e \o t, f) = Signed(Ok(Flag(v), l \o (v \o t)), Ok(l, v \o t), f.how)
            BY <1>6, <2>8, <2>9, Signatures, OkIs DEF Then
        <2>11. (IF Flag(v) = <<1>> THEN Len(v) ELSE 0) = Len(v)
            <3>1. CASE v = <<>>
                BY <3>1, FlagIs DEF Flag
            <3>2. CASE v # <<>>
                BY <3>2 DEF Flag
            <3>3. QED BY <3>1, <3>2
        <2>12. Signed(Ok(Flag(v), l \o (v \o t)), Ok(l, v \o t), f.how) = Read(v \o t, Len(v), f.how)
            BY <2>2, <2>11, OkIs DEF Signed
        <2>13. QED BY <1>3, <1>6, <2>1, <2>10, <2>12, ReadWhole, TypesDiffer DEF e
    <1>7. CASE f.type = "optional"
        <2>1. v = <<>> \/ v \in [1 .. f.size -> Bytes]
            BY <1>7, Optionals
        <2>2. CASE v = <<>>
            <3>1. e = <<0>>
                BY <1>7, <2>2, Optionals
            <3>2. Read(<<0>> \o t, 1, "full") = Ok(<<0>>, t)
                BY FlagIs, ReadWhole
            <3>3. DecodeField(<<0>> \o t, f) = Read(t, 0, f.how)
                BY <1>7, <3>2, OptionalRead, FlagIs
            <3>4. <<>> \o t = t /\ <<>> \in Data /\ Len(<<>>) = 0
                BY DataType
            <3>5. Read(t, 0, f.how) = Ok(<<>>, t)
                BY <3>4, ReadWhole
            <3>6. QED BY <1>3, <1>7, <2>2, <3>1, <3>3, <3>5, TypesDiffer
        <2>3. CASE v # <<>>
            <3>1. v \in Data /\ Len(v) = f.size /\ e = <<1>> \o v
                BY <1>0, <1>7, <2>1, <2>3, Optionals, FixedIs
            <3> HIDE DEF e
            <3>2. e \o t = <<1>> \o (v \o t) /\ v \o t \in Data
                <4>1. (<<1>> \o v) \o t = <<1>> \o (v \o t)
                    BY <3>1, FlagIs, Associative
                <4>2. QED BY <3>1, <4>1, Parts
            <3>3. Read(e \o t, 1, "full") = Ok(<<1>>, v \o t)
                <4> DEFINE one == <<1>>
                           r == v \o t
                <4>1. one \in Data /\ Len(one) = 1 /\ r \in Data /\ e \o t = one \o r
                    BY <3>2, FlagIs
                <4> HIDE DEF one, r
                <4>2. Read(one \o r, 1, "full") = Ok(one, r)
                    BY <4>1, ReadWhole
                <4>3. QED BY <4>1, <4>2 DEF one, r
            <3>4. DecodeField(e \o t, f) = Read(v \o t, f.size, f.how)
                BY <1>7, <3>3, OptionalRead
            <3>5. QED BY <1>3, <1>7, <3>1, <3>4, ReadWhole, TypesDiffer DEF e
        <2>4. QED BY <2>2, <2>3
    <1>8. CASE f.type = "list"
        <2> DEFINE l == Number(Len(v), f.size)
                   F == FlattenSeq(ItemPieces(f, v))
        <2>1. v \in Seq(Data) /\ IsList(f) /\ \A i \in DOMAIN v : IsItem(f, v[i])
            BY <1>8, ListContent
        <2>2. Len(v) \in Uints(f.size) /\ e = l \o F
            BY <1>8, Lists DEF FieldFits
        <2>3. l \in Data /\ Len(l) = f.size /\ ValueOf(l) = Len(v)
            <3>1. Len(v) \in Nat
                BY <2>1
            <3>2. l \in Data /\ Len(l) = f.size
                BY <1>0, <3>1, NumberType DEF Data
            <3>3. ValueOf(l) = Len(v)
                BY <1>0, <2>2, NumberRoundTrip
            <3>4. QED BY <3>2, <3>3
        <2>4. F \in Data /\ ReadItems(F \o t, Len(v), f) = Ok(v, t)
            BY <2>1, ReadItemsWhole
        <2> HIDE DEF e, l, F
        <2>5. e \o t = l \o (F \o t)
            BY <2>2, <2>3, <2>4, Associative
        <2>6. F \o t \in Data
            BY <2>4, Parts
        <2>7. Read(e \o t, f.size, "full") = Ok(l, F \o t)
            BY <2>3, <2>5, <2>6, ReadWhole
        <2>8. DecodeField(e \o t, f) = ReadItems(F \o t, ValueOf(l), f)
            BY <1>8, <2>7, Lists, OkIs DEF Then
        <2>9. QED BY <1>3, <1>8, <2>3, <2>4, <2>8, TypesDiffer DEF e
    <1>9. QED BY <1>0, <1>1, <1>2, <1>4, <1>5, <1>6, <1>7, <1>8 DEF Types

\* and not from a part of them, unless bytes of its content may be missing.
LEMMA ReadPart ==
    ASSUME NEW v \in Data, NEW p \in Data, NEW c \in Data, Len(c) > 0, Joined(p, c, v),
           NEW n, n = Len(v), NEW how \in Ways
    PROVE  CutResult(Read(p, n, how), p, how)
    <1>1. Len(v) = Len(p) + Len(c)
        BY Parts DEF Joined
    <1>2. Len(p) \in Nat /\ Len(c) \in Nat /\ n \in Nat
        BY DataType
    <1>3. Len(p) < n
        BY <1>1, <1>2
    <1>4. how \in {"slice", "full", "short"} /\ (Len(p) = 0 \/ Len(p) > 0)
        BY <1>2 DEF Ways
    <1>5. \/ Read(p, n, how) = Error
          \/ Read(p, n, how) = Panic
          \/ how = "short" /\ Len(p) > 0 /\ Read(p, n, how) = Ok(Buffer(p, n), <<>>)
        BY <1>2, <1>3, <1>4, ReadCut
    <1>6. Error.status # "ok" /\ Panic.status # "ok" /\ Ok(Buffer(p, n), <<>>).rest = <<>>
        BY OkIs, TypesDiffer
    <1>7. QED BY <1>5, <1>6 DEF CutResult

\* Bytes that start with l and have all of it, or not.
LEMMA FirstPart ==
    ASSUME NEW l \in Data, NEW x \in Data, NEW w, Joined(l, x, w),
           NEW p \in Data, NEW c \in Data, Len(c) > 0, Joined(p, c, w)
    PROVE  \/ Len(p) < Len(l) /\ Read(p, Len(l), "full") = Error
           \/ /\ Behind(l, p) \in Data /\ Joined(Behind(l, p), c, x) /\ Len(p) >= Len(l)
              /\ Read(p, Len(l), "full") = Ok(l, Behind(l, p))
    <1>1. Len(p) \in Nat /\ Len(l) \in Nat
        BY DataType
    <1>2. CASE Len(p) < Len(l)
        BY <1>1, <1>2, ReadCut DEF Ways
    <1>3. CASE Len(l) <= Len(p)
        <2> DEFINE q == Behind(l, p)
        <2>1. q \in Data /\ Joined(l, q, p) /\ Joined(q, c, x)
            BY <1>3, Overlap
        <2> HIDE DEF q
        <2>2. Read(l \o q, Len(l), "full") = Ok(l, q)
            BY <2>1, ReadWhole
        <2>3. p = l \o q
            BY <2>1 DEF Joined
        <2>4. Len(p) >= Len(l)
            BY <1>1, <1>3
        <2>5. QED BY <2>1, <2>2, <2>3, <2>4 DEF q
    <1>4. QED BY <1>1, <1>2, <1>3

\* What reading the first part l of a message comes to when c of it is missing.
PartRead(l, x, p, c) ==
    \/ Read(p, Len(l), "full") = Error
    \/ /\ Behind(l, p) \in Data /\ Joined(Behind(l, p), c, x) /\ Len(p) >= Len(l)
       /\ Read(p, Len(l), "full") = Ok(l, Behind(l, p))

LEMMA FirstPartRead ==
    ASSUME NEW l \in Data, NEW x \in Data, NEW w, Joined(l, x, w),
           NEW p \in Data, NEW c \in Data, Len(c) > 0, Joined(p, c, w)
    PROVE  PartRead(l, x, p, c)
    BY FirstPart DEF PartRead

LEMMA FieldCut ==
    ASSUME NEW f, IsField(f), NEW v \in Content(f), FieldFits(f, v),
           NEW p \in Data, NEW c \in Data, Len(c) > 0, Joined(p, c, EncodeField(f, v))
    PROVE  CutResult(DecodeField(p, f), p, f.how)
    <1> DEFINE e == EncodeField(f, v)
    <1>0. f.type \in Types /\ f.size \in Nat \ {0} /\ f.size \in Nat /\ f.how \in Ways
        BY DEF IsField
    <1>1. CASE f.type \in {"number", "signer", "fixed"}
        <2>1. e \in Data /\ Len(e) = f.size
            <3>1. CASE f.type = "number"
                <4>1. v \in Nat /\ e = Number(v, f.size)
                    BY <3>1, Numbers DEF Uints
                <4>2. QED BY <1>0, <4>1, NumberType DEF Data
            <3>2. CASE f.type = "signer"
                <4>1. Uint32(v) \in Nat /\ e = Number(Uint32(v), f.size)
                    BY <3>2, Signers, SignerFits DEF Uints
                <4>2. QED BY <1>0, <4>1, NumberType DEF Data
            <3>3. CASE f.type = "fixed"
                BY <1>0, <3>3, FixedSizes, FixedIs
            <3>4. QED BY <1>1, <3>1, <3>2, <3>3
        <2> HIDE DEF e
        <2> DEFINE r == Read(p, f.size, f.how)
        <2>2. CutResult(r, p, f.how)
            BY <1>0, <2>1, ReadPart DEF e
        <2>3. r.status # "ok"
            BY <1>1, <2>2 DEF CutResult, IsField
        <2> HIDE DEF r
        <2>4. DecodeField(p, f) = r
            <3>1. CASE f.type = "number"
                BY <2>3, <3>1, Numbers DEF Then, r
            <3>2. CASE f.type = "signer"
                BY <2>3, <3>2, Signers DEF Then, r
            <3>3. CASE f.type = "fixed"
                BY <3>3, FixedSizes DEF r
            <3>4. QED BY <1>1, <3>1, <3>2, <3>3
        <2>5. QED BY <2>3, <2>4 DEF CutResult
    <1>2. CASE f.type = "bytes"
        <2>1. e = WithLength(v, f.size) /\ v \in Data /\ Len(v) \in Uints(f.size)
            BY <1>2, ByteStrings DEF FieldFits
        <2>2. DecodeField(p, f) = ReadBytes(p, f.size, f.how) /\ f.how # "slice"
            BY <1>2, ByteStrings, TypesDiffer DEF IsField
        <2>3. QED BY <1>0, <2>1, <2>2, ReadBytesCut DEF CutResult
    <1>3. Error.status # "ok"
        BY OkIs, TypesDiffer
    <1>4. CASE f.type = "signature"
        <2> DEFINE l == Number(Len(v), f.size)
                   W == l \o v
        <2>1. e = Flag(v) \o WithLength(v, f.size) /\ v \in Data /\ Len(v) \in Uints(f.size)
            BY <1>4, Signatures DEF FieldFits
        <2>2. l \in Data /\ Len(l) = f.size /\ ValueOf(l) = Len(v)
            <3>1. l \in Data /\ Len(l) = f.size
                BY <1>0, <2>1, DataType, NumberType DEF Data
            <3>2. ValueOf(l) = Len(v)
                BY <1>0, <2>1, NumberRoundTrip
            <3>3. QED BY <3>1, <3>2
        <2>3. Flag(v) \in Data /\ Len(Flag(v)) = 1
            BY FlagIs DEF Flag
        <2>4. W \in Data /\ Joined(Flag(v), W, e) /\ Joined(l, v, W)
            BY <2>1, <2>2, Parts DEF WithLength, Joined
        <2> HIDE DEF e, l, W
        <2>5. CASE Read(p, 1, "full") = Error
            <3>1. DecodeField(p, f) = Error
                BY <1>3, <1>4, <2>5, Signatures DEF Then
            <3>2. QED BY <1>3, <3>1 DEF CutResult
        <2>6. ASSUME NEW q \in Data, Joined(q, c, W), Len(p) >= 1, Read(p, 1, "full") = Ok(Flag(v), q)
              PROVE  CutResult(DecodeField(p, f), p, f.how)
            <3>1. DecodeField(p, f) = Then(Read(q, f.size, "full"),
                                           LAMBDA length : Signed(Ok(Flag(v), q), length, f.how))
                BY <1>4, <2>6, Signatures, OkIs DEF Then
            <3>2. CASE Read(q, f.size, "full") = Error
                <4>1. DecodeField(p, f) = Error
                    BY <1>3, <3>1, <3>2 DEF Then
                <4>2. QED BY <1>3, <4>1 DEF CutResult
            <3>3. ASSUME NEW z \in Data, Joined(z, c, v), Read(q, f.size, "full") = Ok(l, z)
                  PROVE  CutResult(DecodeField(p, f), p, f.how)
                <4>1. v # <<>>
                    <5>1. Len(v) = Len(z) + Len(c)
                        BY <2>1, <3>3, Parts DEF Joined
                    <5>2. Len(z) \in Nat /\ Len(c) \in Nat /\ Len(<<>>) = 0
                        BY DataType
                    <5>3. QED BY <5>1, <5>2
                <4>2. DecodeField(p, f) = Signed(Ok(Flag(v), q), Ok(l, z), f.how)
                    BY <3>1, <3>3, OkIs DEF Then
                <4>3. DecodeField(p, f) = Read(z, Len(v), f.how)
                    BY <2>2, <4>1, <4>2, OkIs DEF Signed, Flag
                <4>4. CutResult(Read(z, Len(v), f.how), z, f.how)
                    BY <1>0, <2>1, <3>3, ReadPart
                <4>5. Len(p) > 0
                    BY <2>6, DataType
                <4>6. QED BY <4>3, <4>4, <4>5 DEF CutResult
            <3>4. QED BY <2>1, <2>2, <2>4, <2>6, <3>2, <3>3, FirstPart
        <2>7. \/ Read(p, 1, "full") = Error
              \/ /\ Behind(Flag(v), p) \in Data /\ Joined(Behind(Flag(v), p), c, W) /\ Len(p) >= 1
                 /\ Read(p, 1, "full") = Ok(Flag(v), Behind(Flag(v), p))
            <3>1. Joined(p, c, e)
                BY DEF e
            <3>2. \/ Read(p, Len(Flag(v)), "full") = Error
                  \/ /\ Behind(Flag(v), p) \in Data /\ Joined(Behind(Flag(v), p), c, W)
                     /\ Len(p) >= Len(Flag(v))
                     /\ Read(p, Len(Flag(v)), "full") = Ok(Flag(v), Behind(Flag(v), p))
                BY <2>3, <2>4, <3>1, FirstPart
            <3>3. QED BY <2>3, <3>2
        <2>8. QED BY <2>5, <2>6, <2>7
    <1>5. CASE f.type = "optional"
        <2>1. v = <<>> \/ v \in [1 .. f.size -> Bytes]
            BY <1>5, Optionals
        <2>2. CASE Read(p, 1, "full") = Error
            <3>1. DecodeField(p, f) = Error
                BY <1>3, <1>5, <2>2, Optionals DEF Then
            <3>2. QED BY <1>3, <3>1 DEF CutResult
        <2>3. CASE v = <<>>
            <3>1. e = <<0>>
                BY <1>5, <2>3, Optionals
            <3>2. Len(<<0>>) = Len(p) + Len(c)
                <4>1. <<0>> = p \o c
                    BY <3>1 DEF Joined
                <4>2. Len(p \o c) = Len(p) + Len(c)
                    BY Parts
                <4>3. QED BY <4>1, <4>2
            <3>3. Len(p) < 1
                BY <3>2, DataType, FlagIs
            <3>4. Read(p, 1, "full") = Error
                BY <3>3, ReadCut DEF Ways
            <3>5. QED BY <2>2, <3>4
        <2>4. CASE v # <<>>
            <3>1. v \in Data /\ Len(v) = f.size /\ Joined(<<1>>, v, e)
                BY <1>0, <1>5, <2>1, <2>4, Optionals, FixedIs DEF Joined
            <3> HIDE DEF e
            <3>2. ASSUME NEW q \in Data, Joined(q, c, v), Len(p) >= 1, Read(p, 1, "full") = Ok(<< 1 >>, q)
                  PROVE  CutResult(DecodeField(p, f), p, f.how)
                <4>1. DecodeField(p, f) = Read(q, f.size, f.how)
                    BY <1>5, <3>2, OptionalRead
                <4>2. CutResult(Read(q, f.size, f.how), q, f.how)
                    BY <1>0, <3>1, <3>2, ReadPart
                <4>3. Len(p) > 0
                    BY <3>2, DataType
                <4>4. QED BY <4>1, <4>2, <4>3 DEF CutResult
            <3> DEFINE one == << 1 >>
            <3>3. v \in Data /\ one \in Data /\ Len(one) = 1 /\ Joined(one, v, e)
                BY <3>1, FlagIs
            <3>4. Joined(p, c, e)
                BY DEF e
            <3> HIDE DEF one
            <3>5. PartRead(one, v, p, c)
                BY <3>3, <3>4, FirstPartRead
            <3>6. QED BY <2>2, <3>2, <3>3, <3>5 DEF one, PartRead
        <2>5. QED BY <2>3, <2>4
    <1>6. CASE f.type = "list"
        <2> DEFINE l == Number(Len(v), f.size)
                   F == FlattenSeq(ItemPieces(f, v))
        <2>1. v \in Seq(Data) /\ IsList(f) /\ \A i \in DOMAIN v : IsItem(f, v[i])
            BY <1>6, ListContent
        <2>2. Len(v) \in Uints(f.size) /\ e = l \o F
            BY <1>6, Lists DEF FieldFits
        <2>3. l \in Data /\ Len(l) = f.size /\ ValueOf(l) = Len(v)
            <3>1. Len(v) \in Nat
                BY <2>1
            <3>2. QED BY <1>0, <2>2, <3>1, NumberType, NumberRoundTrip DEF Data
        <2>4. F \in Data /\ Joined(l, F, e)
            BY <2>1, <2>2, ReadItemsWhole, DataType DEF Joined
        <2>5. ASSUME NEW q \in Data, Joined(q, c, F), Len(p) >= f.size, Read(p, f.size, "full") = Ok(l, q)
              PROVE  CutResult(DecodeField(p, f), p, f.how)
            <3>1. DecodeField(p, f) = ReadItems(q, Len(v), f)
                BY <1>6, <2>3, <2>5, Lists, OkIs DEF Then
            <3>2. ReadItems(q, Len(v), f).status = "ok" =>
                    f.how = "short" /\ ReadItems(q, Len(v), f).rest = <<>>
                BY <2>1, <2>5, ReadItemsCut
            <3>3. Len(p) > 0
                BY <1>0, <2>5, DataType
            <3>4. QED BY <3>1, <3>2, <3>3 DEF CutResult
        <2> HIDE DEF e, l, F
        <2>6. CASE Read(p, f.size, "full") = Error
            <3>1. DecodeField(p, f) = Error
                BY <1>3, <1>6, <2>6, Lists DEF Then
            <3>2. QED BY <1>3, <3>1 DEF CutResult
        <2>7. QED BY <2>3, <2>4, <2>5, <2>6, FirstPart DEF e
    <1>7. QED BY <1>0, <1>1, <1>2, <1>4, <1>5, <1>6 DEF Types

\* Nothing is read from no bytes.
LEMMA FieldOfNothing ==
    ASSUME NEW f, IsField(f)
    PROVE  DecodeField(<<>>, f).status # "ok"
    <1>0. f.type \in Types /\ f.size \in Nat \ {0} /\ f.how \in Ways /\ <<>> \in Data /\ Len(<<>>) = 0
        BY DEF IsField, Data
    <1>1. ASSUME NEW n \in Nat \ {0} PROVE Read(<<>>, n, "full") = Error
        BY <1>0, ReadCut DEF Ways
    <1>2. Error.status # "ok" /\ Panic.status # "ok"
        BY OkIs, TypesDiffer
    <1>3. CASE f.type \in {"number", "signer", "fixed"}
        <2> DEFINE r == Read(<<>>, f.size, f.how)
        <2>1. f.how \in {"slice", "full"} /\ Len(<<>>) < f.size /\ f.size \in Nat
            BY <1>0, <1>3 DEF IsField, Ways
        <2>2. r \in {Error, Panic}
            BY <1>0, <2>1, ReadCut
        <2> HIDE DEF r
        <2>3. CASE f.type = "number"
            BY <1>2, <2>2, <2>3, Numbers DEF Then, r
        <2>4. CASE f.type = "signer"
            BY <1>2, <2>2, <2>4, Signers DEF Then, r
        <2>5. CASE f.type = "fixed"
            BY <1>2, <2>2, <2>5, FixedSizes DEF r
        <2>6. QED BY <1>3, <2>3, <2>4, <2>5
    <1>4. CASE f.type = "bytes"
        <2>1. DecodeField(<<>>, f) = Error
            BY <1>0, <1>1, <1>2, <1>4, ByteStrings DEF ReadBytes, Then
        <2>2. QED BY <1>2, <2>1
    <1>5. CASE f.type = "signature"
        <2>1. DecodeField(<<>>, f) = Error
            BY <1>1, <1>2, <1>5, Signatures DEF Then
        <2>2. QED BY <1>2, <2>1
    <1>6. CASE f.type = "optional"
        <2>1. DecodeField(<<>>, f) = Error
            BY <1>1, <1>2, <1>6, Optionals DEF Then
        <2>2. QED BY <1>2, <2>1
    <1>7. CASE f.type = "list"
        <2>1. DecodeField(<<>>, f) = Error
            BY <1>0, <1>1, <1>2, <1>7, Lists DEF Then
        <2>2. QED BY <1>2, <2>1
    <1>8. QED BY <1>0, <1>3, <1>4, <1>5, <1>6, <1>7 DEF Types

\* From any bytes at all: only data[a:b] panics, and not if there are enough bytes.
LEMMA FieldType ==
    ASSUME NEW f, IsField(f), NEW a \in Data
    PROVE  /\ DecodeField(a, f) \in Results(Values)
           /\ DecodeField(a, f).status = "panic" => f.how = "slice" /\ Len(a) < f.size
           /\ f.how = "slice" /\ f.size <= Len(a) => Len(DecodeField(a, f).rest) = Len(a) - f.size
    <1> DEFINE r == Read(a, f.size, f.how)
               x == DecodeField(a, f)
    <1>0. f.type \in Types /\ f.size \in Nat /\ f.size \in Nat \ {0} /\ f.how \in Ways
        BY DEF IsField
    <1>1. /\ r \in Results(Data)
          /\ r.status = "panic" => f.how = "slice" /\ Len(a) < f.size
          /\ f.size <= Len(a) => r.status = "ok" /\ Len(r.rest) = Len(a) - f.size
        <2>1. r \in Results(Data) /\ (r.status = "panic" => f.how = "slice" /\ Len(a) < f.size)
            BY <1>0, ReadType
        <2>2. f.size <= Len(a) => r.status = "ok" /\ Len(r.rest) = Len(a) - f.size
            <3>1. PICK n \in Nat, how \in Ways : n = f.size /\ how = f.how
                BY <1>0
            <3>2. n <= Len(a) => /\ Read(a, n, how).status = "ok"
                                 /\ Len(Read(a, n, how).rest) = Len(a) - n
                BY ReadType
            <3>3. QED BY <3>1, <3>2
        <2>3. QED BY <2>1, <2>2
    <1>2. ASSUME NEW V, V \subseteq Values, NEW y \in Results(V) PROVE y \in Results(Values)
        BY <1>2 DEF Results
    <1>3. Data \subseteq Values /\ Nat \subseteq Values /\ SignerTypes \subseteq Values /\ Seq(Data) \subseteq Values
        BY DEF Values
    <1>4. r.status = "ok" => r.value \in Data /\ r.rest \in Data
        BY <1>1, ResultIs
    <1>5. CASE f.type = "number"
        <2>1. x = IF r.status = "ok" THEN Ok(ValueOf(r.value), r.rest) ELSE r
            BY <1>5, Numbers DEF Then
        <2> HIDE DEF r, x
        <2>2. CASE r.status = "ok"
            <3> DEFINE w == ValueOf(r.value)
            <3>1. w \in Values /\ r.rest \in Data
                BY <1>3, <1>4, <2>2, ValueOfType DEF Data
            <3>2. x = Ok(w, r.rest)
                BY <2>1, <2>2
            <3> HIDE DEF w
            <3>3. x \in Results(Values) /\ x.status = "ok" /\ x.rest = r.rest
                BY <3>1, <3>2, OkIs, OkType
            <3>4. QED BY <1>1, <3>3, TypesDiffer DEF x
        <2>3. CASE r.status # "ok"
            BY <1>0, <1>1, <1>2, <1>3, <2>1, <2>3 DEF x
        <2>4. QED BY <2>2, <2>3
    <1>6. CASE f.type = "signer"
        <2>1. x = IF r.status = "ok" THEN Ok(SignerTypeFromUint32(ValueOf(r.value)), r.rest) ELSE r
            BY <1>6, Signers DEF Then
        <2> HIDE DEF r, x
        <2>2. CASE r.status = "ok"
            <3> DEFINE w == SignerTypeFromUint32(ValueOf(r.value))
            <3>1. w \in SignerTypes
                BY DEF SignerTypeFromUint32, SignerTypes
            <3>2. x = Ok(w, r.rest)
                BY <2>1, <2>2
            <3> HIDE DEF w
            <3>3. w \in Values /\ r.rest \in Data
                BY <1>3, <1>4, <2>2, <3>1
            <3>4. x \in Results(Values) /\ x.status = "ok" /\ x.rest = r.rest
                BY <3>2, <3>3, OkIs, OkType
            <3>5. QED BY <1>1, <3>4, TypesDiffer DEF x
        <2>3. CASE r.status # "ok"
            BY <1>0, <1>1, <1>2, <1>3, <2>1, <2>3 DEF x
        <2>4. QED BY <2>2, <2>3
    <1>7. CASE f.type = "fixed"
        <2>1. x = r
            BY <1>7, FixedSizes
        <2> HIDE DEF r, x
        <2>2. QED BY <1>1, <1>2, <1>3, <2>1 DEF x
    <1>8. ASSUME f.how # "slice", NEW V, V \subseteq Values, x \in Safe(V)
          PROVE  /\ x \in Results(Values)
                 /\ x.status = "panic" => f.how = "slice" /\ Len(a) < f.size
                 /\ f.how = "slice" /\ f.size <= Len(a) => Len(x.rest) = Len(a) - f.size
        <2> HIDE DEF x
        <2>1. x \in Results(V) /\ x.status # "panic"
            BY <1>8, SafeIs
        <2>2. QED BY <1>2, <1>8, <2>1
    <1>9. ASSUME NEW y \in Data, NEW n \in Nat
          PROVE  /\ Read(y, n, "full") \in Safe(Data)
                 /\ f.how # "slice" => Read(y, n, f.how) \in Safe(Data)
        BY <1>0, ReadType, SafeIs, TypesDiffer DEF Ways
    <1>10. ASSUME NEW y \in Safe(Data), y.status = "ok" PROVE y.value \in Data /\ y.rest \in Data /\ ValueOf(y.value) \in Nat
        <2>1. y.value \in Data /\ y.rest \in Data
            BY <1>10, SafeIs
        <2>2. QED BY <2>1, ValueOfType DEF Data
    <1>11. f.type \notin {"number", "signer", "fixed"} => f.how # "slice"
        BY DEF IsField
    <1> HIDE DEF r, x
    <1>12. CASE f.type = "bytes"
        <2>1. x \in Safe(Data)
            BY <1>0, <1>11, <1>12, ByteStrings, ReadBytesType, SafeIs, TypesDiffer DEF x
        <2>2. QED BY <1>3, <1>8, <1>11, <1>12, <2>1, TypesDiffer DEF x
    <1>13. CASE f.type = "signature"
        <2> DEFINE y == Read(a, 1, "full")
                   z == Read(y.rest, f.size, "full")
        <2>1. x = IF y.status = "ok" THEN IF z.status = "ok" THEN Signed(y, z, f.how) ELSE z ELSE y
            BY <1>13, Signatures DEF Then, x
        <2>2. y \in Safe(Data)
            BY <1>9
        <2>3. y.status = "ok" => z \in Safe(Data)
            <3> HIDE DEF y
            <3>1. y.status = "ok" => y.rest \in Data
                BY <1>10, <2>2
            <3>2. QED BY <1>0, <1>9, <3>1
        <2> HIDE DEF y, z
        <2>4. y.status = "ok" /\ z.status = "ok" => Signed(y, z, f.how) \in Safe(Data)
            <3> DEFINE n == IF y.value = <<1>> THEN ValueOf(z.value) ELSE 0
            <3>1. y.status = "ok" /\ z.status = "ok" => n \in Nat /\ z.rest \in Data
                BY <1>10, <2>2, <2>3
            <3>2. Signed(y, z, f.how) = Read(z.rest, n, f.how)
                BY DEF Signed
            <3> HIDE DEF n
            <3>3. QED BY <1>9, <1>11, <1>13, <3>1, <3>2, TypesDiffer
        <2>5. x \in Safe(Data)
            BY <2>1, <2>2, <2>3, <2>4
        <2>6. QED BY <1>3, <1>8, <1>11, <1>13, <2>5, TypesDiffer DEF x
    <1>14. CASE f.type = "optional"
        <2> DEFINE y == Read(a, 1, "full")
                   n == IF y.value = <<1>> THEN f.size ELSE 0
        <2>1. x = IF y.status = "ok" THEN Read(y.rest, n, f.how) ELSE y
            BY <1>14, Optionals DEF Then, x
        <2>2. y \in Safe(Data)
            BY <1>9
        <2>3. n \in Nat
            BY <1>0
        <2> HIDE DEF y, n
        <2>4. y.status = "ok" => Read(y.rest, n, f.how) \in Safe(Data)
            BY <1>9, <1>10, <1>11, <1>14, <2>2, <2>3, TypesDiffer
        <2>5. x \in Safe(Data)
            BY <2>1, <2>2, <2>4
        <2>6. QED BY <1>3, <1>8, <1>11, <1>14, <2>5, TypesDiffer DEF x
    <1>15. CASE f.type = "list"
        <2> DEFINE y == Read(a, f.size, "full")
                   n == ValueOf(y.value)
        <2>1. x = IF y.status = "ok" THEN ReadItems(y.rest, n, f) ELSE y
            BY <1>15, Lists DEF Then, x
        <2>2. y \in Safe(Data)
            BY <1>0, <1>9
        <2> HIDE DEF y
        <2>3. IsList(f)
            BY <1>15, TypesDiffer DEF IsField, IsList
        <2>4. y.status = "ok" => n \in Nat /\ y.rest \in Data
            BY <1>10, <2>2
        <2> HIDE DEF n
        <2>5. ASSUME y.status = "ok" PROVE ReadItems(y.rest, n, f) \in Safe(Seq(Data))
            <3>1. PICK items : IsReading(items, n, y.rest, f) /\ ReadItems(y.rest, n, f) = items[n]
                BY <2>3, <2>4, <2>5, ReadItemsIs
            <3>2. n \in 0 .. n
                BY <2>4, <2>5
            <3>3. QED BY <3>1, <3>2 DEF IsReading
        <2>6. CASE y.status = "ok"
            BY <1>3, <1>8, <1>11, <1>15, <2>1, <2>5, <2>6, TypesDiffer DEF x
        <2>7. CASE y.status # "ok"
            BY <1>3, <1>8, <1>11, <1>15, <2>1, <2>2, <2>7, TypesDiffer DEF x
        <2>8. QED BY <2>6, <2>7
    <1>16. QED BY <1>0, <1>5, <1>6, <1>7, <1>12, <1>13, <1>14, <1>15 DEF Types, x

-----------------------------------------------------------------------------
(* All the fields *)

IsFormat(format) ==
    /\ Len(format) \in Nat /\ DOMAIN format = 1 .. Len(format)
    /\ \A i \in 1 .. Len(format) : IsField(format[i])

\* The records with some of the fields.
Records(format) == UNION {[D -> Values] : D \in SUBSET Names(format)}

\* One step of Decode, and all of them.
FieldStep(r, f) == IF r.status = "ok" THEN DecodeNext(r, f) ELSE r

IsDecoding(st, a, format) ==
    /\ st \in [0 .. Len(format) -> Results(Records(format))] /\ st[0] = Ok(<<>>, a)
    /\ \A i \in 1 .. Len(format) : st[i] = FieldStep(st[i - 1], format[i])

LEMMA FieldStepIs ==
    ASSUME NEW f, NEW r
    PROVE  /\ r.status # "ok" => FieldStep(r, f) = r
           /\ r.status = "ok" /\ DecodeField(r.rest, f).status # "ok"
                => FieldStep(r, f) = DecodeField(r.rest, f)
           /\ r.status = "ok" /\ DecodeField(r.rest, f).status = "ok" =>
                FieldStep(r, f) = Ok(With(r.value, f.name, DecodeField(r.rest, f).value),
                                     DecodeField(r.rest, f).rest)
    BY DEF FieldStep, DecodeNext, Then

LEMMA WithIs ==
    ASSUME NEW D, NEW V, NEW m \in [D -> V], NEW n, NEW v \in V
    PROVE  /\ With(m, n, v) \in [D \cup {n} -> V]
           /\ With(m, n, v)[n] = v /\ \A x \in D : x # n => With(m, n, v)[x] = m[x]
    BY DEF With

\* A value that a read does not return with is a failure.
LEMMA FailedIs ==
    ASSUME NEW V, NEW W, NEW r \in Results(V), r.status # "ok"
    PROVE  r \in {Error, Panic} /\ r \in Results(W)
    BY OkIs DEF Results

LEMMA FieldStepType ==
    ASSUME NEW format, IsFormat(format), NEW i \in 1 .. Len(format), NEW r \in Results(Records(format))
    PROVE  FieldStep(r, format[i]) \in Results(Records(format))
    <1> DEFINE f == format[i]
    <1>1. IsField(f) /\ f.name \in Names(format)
        BY DEF IsFormat, Names
    <1> HIDE DEF f
    <1>2. CASE r.status # "ok"
        BY <1>2, FieldStepIs DEF f
    <1>3. CASE r.status = "ok"
        <2> DEFINE x == DecodeField(r.rest, f)
        <2>1. r.value \in Records(format) /\ r.rest \in Data
            BY <1>3, ResultIs
        <2>2. x \in Results(Values)
            BY <1>1, <2>1, FieldType
        <2> HIDE DEF x
        <2>3. CASE x.status # "ok"
            BY <1>3, <2>2, <2>3, FailedIs, FieldStepIs DEF x, f
        <2>4. CASE x.status = "ok"
            <3>1. x.value \in Values /\ x.rest \in Data
                BY <2>2, <2>4, ResultIs
            <3>2. PICK D \in SUBSET Names(format) : r.value \in [D -> Values]
                BY <2>1 DEF Records
            <3> DEFINE w == With(r.value, f.name, x.value)
            <3>3. w \in [D \cup {f.name} -> Values]
                BY <3>1, <3>2, WithIs
            <3>4. FieldStep(r, f) = Ok(w, x.rest)
                BY <1>3, <2>4, FieldStepIs DEF x
            <3> HIDE DEF w
            <3>5. w \in Records(format)
                BY <1>1, <3>3 DEF Records
            <3>6. QED BY <3>1, <3>4, <3>5, OkType DEF f
        <2>5. QED BY <2>3, <2>4
    <1>4. QED BY <1>2, <1>3

LEMMA DecodeIs ==
    ASSUME NEW format, IsFormat(format), NEW a \in Data
    PROVE  \E st : IsDecoding(st, a, format) /\ Decode(format, a) = st[Len(format)]
    <1> DEFINE n == Len(format)
               X == Results(Records(format))
               x == Ok(<<>>, a)
               g == [p \in (1 .. n) \X X |-> FieldStep(p[2], format[p[1]])]
               body(h) == [i \in 0 .. n |-> IF i = 0 THEN x ELSE FieldStep(h[i - 1], format[i])]
               fields == CHOOSE h : h = body(h)
    <1>1. x \in X
        <2>1. <<>> \in [{} -> Values]
            OBVIOUS
        <2>2. <<>> \in Records(format)
            BY <2>1 DEF Records
        <2>3. QED BY <2>2, OkType
    <1>2. \A i \in 1 .. n : \A r \in X : FieldStep(r, format[i]) \in X
        BY FieldStepType
    <1>3. Decode(format, a) = fields[n]
        BY DEF Decode, FieldStep, Then
    <1>0. n \in Nat
        BY DEF IsFormat
    <1> HIDE DEF X, x, n
    <1>4. g \in [(1 .. n) \X X -> X] /\ \A i \in 1 .. n, r \in X : g[<<i, r>>] = FieldStep(r, format[i])
        BY <1>2
    <1> HIDE DEF g
    <1>5. PICK h : IsRecursion(h, n, X, x, g)
        BY <1>0, <1>1, <1>4, Recursion
    <1>6. h = body(h)
        <2>1. ASSUME NEW i \in 1 .. n PROVE h[i] = FieldStep(h[i - 1], format[i])
            <3>1. i - 1 \in 0 .. n
                BY <1>0
            <3>2. QED BY <1>4, <1>5, <3>1 DEF IsRecursion
        <2>2. QED BY <1>0, <1>5, <2>1 DEF IsRecursion
    <1>7. fields = body(fields)
        BY <1>6
    <1> HIDE DEF fields
    <1>8. PICK u : u = fields
        OBVIOUS
    <1>9. u[0] = x /\ \A i \in 1 .. n : u[i] = FieldStep(u[i - 1], format[i])
        <2>1. \A i \in 0 .. n : u[i] = IF i = 0 THEN x ELSE FieldStep(u[i - 1], format[i])
            BY <1>7, <1>8
        <2>2. 0 \in 0 .. n /\ \A i \in 1 .. n : i \in 0 .. n /\ i # 0
            BY <1>0
        <2>3. QED BY <2>1, <2>2
    <1>10. \A i \in 0 .. n : u[i] \in X
        <2> DEFINE S == {i \in 0 .. n : u[i] \in X}
        <2>1. 0 \in S
            BY <1>0, <1>1, <1>9
        <2>2. ASSUME NEW i \in 1 .. n, i - 1 \in S PROVE i \in S
            <3>1. i \in 0 .. n /\ u[i - 1] \in X
                BY <1>0, <2>2
            <3>2. QED BY <1>2, <1>9, <3>1
        <2> HIDE DEF S
        <2>3. 0 .. n \subseteq S
            BY <1>0, <2>1, <2>2, Upwards
        <2>4. QED BY <2>3 DEF S
    <1>11. u \in [0 .. n -> X]
        BY <1>7, <1>8, <1>10
    <1>12. IsDecoding(u, a, format)
        BY <1>9, <1>11 DEF IsDecoding, X, x, n
    <1>13. QED BY <1>3, <1>8, <1>12 DEF n

\* The names of the first n fields.
FirstNames(format, n) == {format[j].name : j \in 1 .. n}

\* Before each field that is read with data[a:b] there are enough bytes for it and
\* for those behind it; no such field comes after one of unknown length.
IsNeed(need, format) ==
    \A i \in 1 .. Len(format) :
        /\ need[i] \in Nat /\ need[i + 1] \in Nat
        /\ IF format[i].how = "slice" THEN need[i] = format[i].size + need[i + 1] ELSE need[i + 1] = 0

\* Data that has the minimal length is read without a panic.
LEMMA DecodeSafe ==
    ASSUME NEW format, IsFormat(format), NEW need, IsNeed(need, format),
           NEW a \in Data, need[1] \in Nat, need[1] <= Len(a)
    PROVE  Decode(format, a) \in Safe(Records(format))
    <1> DEFINE n == Len(format)
    <1>1. PICK st : IsDecoding(st, a, format) /\ Decode(format, a) = st[n]
        BY DecodeIs
    <1>2. n \in Nat /\ \A i \in 1 .. n : IsField(format[i])
        BY DEF IsFormat
    <1> DEFINE S == {i \in 0 .. n : /\ st[i].status # "panic"
                                    /\ st[i].status = "ok" => need[i + 1] <= Len(st[i].rest)}
    <1>3. 0 \in S
        <2>1. st[0] = Ok(<<>>, a)
            BY <1>1 DEF IsDecoding
        <2>2. st[0].status = "ok" /\ st[0].rest = a /\ 0 + 1 = 1 /\ 0 \in 0 .. n
            BY <1>2, <2>1, OkIs
        <2>3. QED BY <2>2, TypesDiffer
    <1>4. ASSUME NEW i \in 1 .. n, i - 1 \in S PROVE i \in S
        <2> DEFINE r == st[i - 1]
                   f == format[i]
                   x == DecodeField(r.rest, f)
        <2>1. i \in 0 .. n /\ i - 1 \in 0 .. n /\ (i - 1) + 1 = i
            BY <1>2
        <2>2. r.status # "panic" /\ (r.status = "ok" => need[i] <= Len(r.rest))
            BY <1>4, <2>1
        <2>3. st[i] = FieldStep(r, f) /\ r \in Results(Records(format)) /\ IsField(f)
            BY <1>1, <1>2, <2>1 DEF IsDecoding
        <2>4. /\ need[i] \in Nat /\ need[i + 1] \in Nat
              /\ f.how = "slice" => need[i] = f.size + need[i + 1]
              /\ f.how # "slice" => need[i + 1] = 0
            BY <2>1 DEF IsNeed
        <2> HIDE DEF r, f, x, S
        <2>5. CASE r.status # "ok"
            <3>1. st[i] = r
                BY <2>3, <2>5, FieldStepIs
            <3>2. QED BY <2>1, <2>2, <2>5, <3>1 DEF S
        <2>6. CASE r.status = "ok"
            <3>1. r.rest \in Data
                BY <2>3, <2>6, ResultIs
            <3>2. /\ x \in Results(Values)
                  /\ x.status = "panic" => f.how = "slice" /\ Len(r.rest) < f.size
                BY <2>3, <3>1, FieldType DEF x
            <3>3. f.how = "slice" /\ f.size <= Len(r.rest) => Len(x.rest) = Len(r.rest) - f.size
                BY <2>3, <3>1, FieldType DEF x
            <3>4. Len(r.rest) \in Nat /\ f.size \in Nat
                BY <2>3, <3>1, DataType DEF IsField
            <3>5. f.how = "slice" => f.size <= Len(r.rest) /\ need[i + 1] <= Len(r.rest) - f.size
                BY <2>2, <2>4, <2>6, <3>4
            <3>6. x.status # "panic"
                BY <3>2, <3>4, <3>5
            <3>7. CASE x.status # "ok"
                <4>1. st[i] = x
                    BY <2>3, <2>6, <3>7, FieldStepIs DEF x
                <4>2. QED BY <2>1, <3>6, <3>7, <4>1 DEF S
            <3>8. CASE x.status = "ok"
                <4>1. st[i] = Ok(With(r.value, f.name, x.value), x.rest)
                    BY <2>3, <2>6, <3>8, FieldStepIs DEF x
                <4>2. st[i].status = "ok" /\ st[i].rest = x.rest
                    BY <4>1, OkIs
                <4>3. need[i + 1] <= Len(x.rest)
                    <5>1. CASE f.how = "slice"
                        BY <3>3, <3>5, <5>1
                    <5>2. CASE f.how # "slice"
                        <6>1. x.rest \in Data
                            BY <3>2, <3>8, ResultIs
                        <6>2. Len(x.rest) \in Nat
                            BY <6>1, DataType
                        <6>3. QED BY <2>4, <5>2, <6>2
                    <5>3. QED BY <5>1, <5>2
                <4>4. QED BY <2>1, <4>2, <4>3, TypesDiffer DEF S
            <3>9. QED BY <3>7, <3>8
        <2>7. QED BY <2>5, <2>6
    <1> HIDE DEF S
    <1>5. 0 .. n \subseteq S
        BY <1>2, <1>3, <1>4, Upwards
    <1>6. n \in S /\ n \in 0 .. n
        BY <1>2, <1>5
    <1>7. st[n] \in Results(Records(format)) /\ st[n].status # "panic"
        BY <1>1, <1>6 DEF IsDecoding, S
    <1>8. QED BY <1>1, <1>7, SafeIs

\* The record has the fields that were read, and a field keeps what was read.
LEMMA DecodedNames ==
    ASSUME NEW format, IsFormat(format), NEW a \in Data, NEW st, IsDecoding(st, a, format),
           NEW n \in 0 .. Len(format), st[n].status = "ok"
    PROVE  /\ \A i \in 0 .. n : st[i].status = "ok" /\ st[i].value \in [FirstNames(format, i) -> Values]
           /\ st[n].rest \in Data
    <1>1. Len(format) \in Nat /\ n \in Nat
        BY DEF IsFormat
    <1>2. ASSUME NEW i \in 0 .. n PROVE st[i].status = "ok"
        <2> DEFINE S == {k \in 0 .. n : st[n - k].status = "ok"}
        <2>1. 0 \in S
            BY <1>1
        <2>2. ASSUME NEW k \in 1 .. n, k - 1 \in S PROVE k \in S
            <3>1. k \in 0 .. n /\ n - k \in 0 .. n /\ n - (k - 1) \in 1 .. Len(format)
                  /\ n - (k - 1) - 1 = n - k
                BY <1>1
            <3>2. st[n - (k - 1)].status = "ok" /\ st[n - (k - 1)] = FieldStep(st[n - k], format[n - (k - 1)])
                BY <2>2, <3>1 DEF IsDecoding
            <3>3. st[n - k].status = "ok"
                BY <3>2, FieldStepIs
            <3>4. QED BY <3>1, <3>3
        <2> HIDE DEF S
        <2>3. 0 .. n \subseteq S
            BY <1>1, <2>1, <2>2, Upwards
        <2>4. n - i \in 0 .. n /\ n - (n - i) = i
            BY <1>1
        <2>5. QED BY <2>3, <2>4 DEF S
    <1> DEFINE T == {i \in 0 .. n : st[i].value \in [FirstNames(format, i) -> Values]}
    <1>3. 0 \in T
        <2>1. FirstNames(format, 0) = {} /\ st[0].value = <<>> /\ 0 \in 0 .. n
            BY <1>1, OkIs DEF FirstNames, IsDecoding
        <2>2. <<>> \in [{} -> Values]
            OBVIOUS
        <2>3. QED BY <2>1, <2>2
    <1>4. ASSUME NEW i \in 1 .. n, i - 1 \in T PROVE i \in T
        <2> DEFINE r == st[i - 1]
                   f == format[i]
                   x == DecodeField(r.rest, f)
        <2>1. i \in 0 .. n /\ i - 1 \in 0 .. n /\ i \in 1 .. Len(format) /\ i - 1 \in 0 .. Len(format)
            BY <1>1
        <2>2. r.status = "ok" /\ st[i].status = "ok" /\ st[i] = FieldStep(r, f) /\ IsField(f)
            BY <1>2, <2>1 DEF IsDecoding, IsFormat
        <2>3. r.value \in [FirstNames(format, i - 1) -> Values]
            BY <1>4
        <2>4. r \in Results(Records(format))
            BY <2>1 DEF IsDecoding
        <2>5. FirstNames(format, i) = FirstNames(format, i - 1) \cup {f.name}
            BY <1>1 DEF FirstNames
        <2> HIDE DEF r, f, x, T
        <2>6. r.rest \in Data
            BY <2>2, <2>4, ResultIs
        <2>7. x \in Results(Values)
            BY <2>2, <2>6, FieldType DEF x
        <2>8. x.status = "ok"
            BY <2>2, FieldStepIs DEF x
        <2>9. st[i] = Ok(With(r.value, f.name, x.value), x.rest) /\ x.value \in Values
            BY <2>2, <2>7, <2>8, FieldStepIs, ResultIs DEF x
        <2>10. With(r.value, f.name, x.value) \in [FirstNames(format, i) -> Values]
            <3>1. With(r.value, f.name, x.value) \in [FirstNames(format, i - 1) \cup {f.name} -> Values]
                <4> DEFINE D == FirstNames(format, i - 1)
                           m == r.value
                           v == x.value
                <4>1. m \in [D -> Values] /\ v \in Values
                    BY <2>3, <2>9
                <4> HIDE DEF D, m, v
                <4>2. With(m, f.name, v) \in [D \cup {f.name} -> Values]
                    BY <4>1, WithIs
                <4>3. QED BY <4>2 DEF D, m, v
            <3>2. QED BY <2>5, <3>1
        <2>11. st[i].value \in [FirstNames(format, i) -> Values]
            BY <2>9, <2>10, OkIs
        <2>12. QED BY <2>1, <2>11 DEF T
    <1> HIDE DEF T
    <1>5. 0 .. n \subseteq T
        BY <1>1, <1>3, <1>4, Upwards
    <1>6. st[n] \in Results(Records(format))
        BY DEF IsDecoding
    <1>7. st[n].rest \in Data
        BY <1>6, ResultIs
    <1>8. QED BY <1>2, <1>5, <1>7 DEF T

\* The pieces that a message is written in,
FieldPieces(format, m) == [i \in DOMAIN format |-> EncodeField(format[i], m[format[i].name])]

LEMMA EncodeIs ==
    ASSUME NEW format, IsFormat(format), NEW m, HasFormat(m, format)
    PROVE  /\ FieldPieces(format, m) \in Seq(Data) /\ Len(FieldPieces(format, m)) = Len(format)
           /\ \A i \in 1 .. Len(format) :
                /\ FieldPieces(format, m)[i] = EncodeField(format[i], m[format[i].name])
                /\ m[format[i].name] \in Content(format[i])
           /\ Encode(format, m) = FlattenSeq(FieldPieces(format, m))
           /\ Encode(format, m) \in Data
    <1> DEFINE n == Len(format)
               s == FieldPieces(format, m)
    <1>1. n \in Nat /\ DOMAIN format = 1 .. n /\ \A i \in 1 .. n : IsField(format[i])
        BY DEF IsFormat
    <1>2. \A i \in 1 .. n : m[format[i].name] \in Content(format[i])
        BY <1>1 DEF HasFormat
    <1>3. \A i \in 1 .. n : EncodeField(format[i], m[format[i].name]) \in Data
        BY <1>1, <1>2, EncodeFieldType
    <1>4. s = [i \in 1 .. n |-> EncodeField(format[i], m[format[i].name])]
        BY <1>1 DEF FieldPieces
    <1>5. s \in Seq(Data) /\ Len(s) = n /\ \A i \in 1 .. n : s[i] = EncodeField(format[i], m[format[i].name])
        BY <1>1, <1>3, <1>4
    <1>6. Encode(format, m) = FlattenSeq(s)
        BY DEF Encode, FieldPieces
    <1> HIDE DEF s
    <1>7. FlattenSeq(s) \in Data
        BY <1>5, FlattenType
    <1>8. QED BY <1>2, <1>5, <1>6, <1>7 DEF s

\* and the record e that is read from it.
IsRead(e, m, format) ==
    \A i \in 1 .. Len(format) : e[format[i].name] = DecodedAs(format[i], m[format[i].name])

\* As long as its fields are there, a message is read field by field.
LEMMA Decodes ==
    ASSUME NEW format, IsFormat(format), NEW m, HasFormat(m, format), FormatFits(m, format),
           NEW e, IsRead(e, m, format),
           NEW n \in 0 .. Len(format), NEW a \in Data, NEW left, IsLeft(left, FieldPieces(format, m), n, a),
           NEW st, IsDecoding(st, a, format)
    PROVE  /\ st[n].status = "ok" /\ st[n].rest = left[n]
           /\ \A j \in 1 .. n : st[n].value[format[j].name] = e[format[j].name]
    <1> DEFINE S == {i \in 0 .. n : /\ st[i].status = "ok" /\ st[i].rest = left[i]
                                    /\ \A j \in 1 .. i : st[i].value[format[j].name] = e[format[j].name]}
    <1>1. Len(format) \in Nat /\ n \in Nat /\ DOMAIN format = 1 .. Len(format)
        BY DEF IsFormat
    <1>2. 0 \in S
        <2>1. st[0] = Ok(<<>>, a) /\ left[0] = a /\ 0 \in 0 .. n
            BY <1>1 DEF IsDecoding, IsLeft
        <2>2. st[0].status = "ok" /\ st[0].rest = left[0]
            BY <2>1, OkIs
        <2>3. \A j \in 1 .. 0 : st[0].value[format[j].name] = e[format[j].name]
            OBVIOUS
        <2>4. QED BY <2>1, <2>2, <2>3
    <1>3. ASSUME NEW i \in 1 .. n, i - 1 \in S PROVE i \in S
        <2> DEFINE r == st[i - 1]
                   f == format[i]
                   v == m[f.name]
                   w == DecodedAs(f, v)
        <2>1. i \in 0 .. n /\ i - 1 \in 0 .. n /\ i \in 1 .. Len(format) /\ i - 1 \in 0 .. Len(format)
            BY <1>1
        <2>2. /\ r.status = "ok" /\ r.rest = left[i - 1]
              /\ \A j \in 1 .. i - 1 : r.value[format[j].name] = e[format[j].name]
            BY <1>3
        <2>3. st[i] = FieldStep(r, f) /\ IsField(f) /\ FieldFits(f, v) /\ e[f.name] = w
            BY <1>1, <2>1 DEF IsDecoding, IsFormat, FormatFits, IsRead
        <2>4. left[i - 1] = EncodeField(f, v) \o left[i] /\ left[i] \in Data /\ v \in Content(f)
            BY <2>1, EncodeIs DEF IsLeft
        <2>5. DecodeField(left[i - 1], f) = Ok(w, left[i])
            BY <2>3, <2>4, FieldWhole
        <2>6. st[i] = Ok(With(r.value, f.name, w), left[i])
            BY <2>2, <2>3, <2>5, OkIs, FieldStepIs
        <2>7. st[i].status = "ok" /\ st[i].rest = left[i] /\ st[i].value = With(r.value, f.name, w)
            BY <2>6, OkIs
        <2>8. r.value \in [FirstNames(format, i - 1) -> Values]
            <3>1. i - 1 \in 0 .. i - 1
                BY <1>1
            <3>2. QED BY <2>1, <2>2, <3>1, DecodedNames
        <2>9. ASSUME NEW j \in 1 .. i PROVE st[i].value[format[j].name] = e[format[j].name]
            <3> DEFINE k == format[j].name
            <3>1. CASE k = f.name
                BY <2>3, <2>7, <3>1 DEF With
            <3>2. CASE k # f.name
                <4>1. j \in 1 .. i - 1
                    BY <1>1, <3>2
                <4>2. k \in FirstNames(format, i - 1)
                    BY <4>1 DEF FirstNames
                <4>3. With(r.value, f.name, w)[k] = r.value[k]
                    BY <2>8, <3>2, <4>2 DEF With
                <4>4. QED BY <2>2, <2>7, <4>1, <4>3
            <3>3. QED BY <3>1, <3>2
        <2>10. QED BY <2>1, <2>7, <2>9
    <1> HIDE DEF S
    <1>4. 0 .. n \subseteq S
        BY <1>1, <1>2, <1>3, Upwards
    <1>5. n \in S
        BY <1>1, <1>4
    <1>6. QED BY <1>5 DEF S

\* A whole message, whatever follows it.
LEMMA DecodeWhole ==
    ASSUME NEW format, IsFormat(format), NEW m, HasFormat(m, format), FormatFits(m, format),
           NEW e, IsRead(e, m, format), e = [x \in Names(format) |-> e[x]], NEW t \in Data
    PROVE  Decode(format, Encode(format, m) \o t) = Ok(e, t)
    <1> DEFINE n == Len(format)
               s == FieldPieces(format, m)
    <1>1. s \in Seq(Data) /\ Len(s) = n /\ n \in Nat /\ Encode(format, m) = FlattenSeq(s)
        BY EncodeIs DEF IsFormat
    <1> HIDE DEF s
    <1>2. PICK flat : IsFlat(flat, s) /\ FlattenSeq(s) = flat[n]
        BY <1>1, FlattenIs
    <1>3. flat[n] \in Data
        BY <1>1, <1>2 DEF IsFlat
    <1> DEFINE a == flat[n] \o t
    <1>4. a \in Data
        BY <1>3, Parts
    <1>5. PICK left : IsDivided(left, flat, s, t, a)
        BY <1>1, <1>2, Pieces
    <1>6. IsLeft(left, s, n, a) /\ left[n] = t
        BY <1>1, <1>5 DEF IsDivided
    <1>7. a = Encode(format, m) \o t
        BY <1>1, <1>2
    <1> HIDE DEF a
    <1>8. PICK st : IsDecoding(st, a, format) /\ Decode(format, a) = st[n]
        BY <1>4, DecodeIs
    <1>9. n \in 0 .. n
        BY <1>1
    <1>10. /\ st[n].status = "ok" /\ st[n].rest = left[n]
           /\ \A j \in 1 .. n : st[n].value[format[j].name] = e[format[j].name]
        BY <1>4, <1>6, <1>8, <1>9, Decodes DEF s
    <1>11. Names(format) = FirstNames(format, n) /\ DOMAIN format = 1 .. n
        BY DEF Names, FirstNames, IsFormat
    <1>12. st[n].value \in [Names(format) -> Values]
        BY <1>4, <1>8, <1>9, <1>10, <1>11, DecodedNames
    <1>13. \A x \in Names(format) : st[n].value[x] = e[x]
        BY <1>10, <1>11 DEF Names
    <1>14. st[n].value = e
        BY <1>12, <1>13
    <1>15. st[n] \in Results(Records(format))
        BY <1>8, <1>9 DEF IsDecoding
    <1>16. st[n] = Ok(e, t)
        BY <1>6, <1>10, <1>14, <1>15, ResultIs
    <1>17. QED BY <1>7, <1>8, <1>16

\* The last field has a name of its own.
LastDiffers(format) ==
    Len(format) > 0 /\ \A j \in 1 .. Len(format) - 1 : format[j].name # format[Len(format)].name

\* A part of a message is read at most if what is missing belongs to the last field.
LEMMA DecodeCut ==
    ASSUME NEW format, IsFormat(format), LastDiffers(format),
           NEW m, HasFormat(m, format), FormatFits(m, format),
           NEW e, IsRead(e, m, format), NEW p \in Data, NEW c \in Data, Len(c) > 0,
           Joined(p, c, Encode(format, m)), NEW d, d = Decode(format, p), d.status = "ok"
    PROVE  /\ format[Len(format)].how = "short"
           /\ d.rest = <<>> /\ d.value \in [Names(format) -> Values]
           /\ \A j \in 1 .. Len(format) - 1 : d.value[format[j].name] = e[format[j].name]
    <1> DEFINE n == Len(format)
               s == FieldPieces(format, m)
    <1>1. s \in Seq(Data) /\ Len(s) = n /\ n \in Nat /\ Encode(format, m) = FlattenSeq(s)
        BY EncodeIs DEF IsFormat
    <1>2. PICK i \in 1 .. n : \E left : \E x : IsCutAt(i, left, x, s, p)
        <2>1. Joined(p, c, FlattenSeq(s))
            BY <1>1
        <2> HIDE DEF s
        <2>2. \E i \in 1 .. Len(s) : \E left : \E x : IsCutAt(i, left, x, s, p)
            BY <1>1, <2>1, CutPieces
        <2>3. QED BY <1>1, <2>2
    <1>3. PICK left, x : IsCutAt(i, left, x, s, p)
        BY <1>2
    <1>4. PICK st : IsDecoding(st, p, format) /\ Decode(format, p) = st[n]
        BY DecodeIs
    <1>5. IsLeft(left, s, i - 1, p) /\ x \in Data /\ Len(x) > 0 /\ Joined(left[i - 1], x, s[i])
        BY <1>3 DEF IsCutAt
    <1>6. i - 1 \in 0 .. n /\ i - 1 \in 0 .. i - 1
        BY <1>1
    <1>7. /\ st[i - 1].status = "ok" /\ st[i - 1].rest = left[i - 1]
          /\ \A j \in 1 .. i - 1 : st[i - 1].value[format[j].name] = e[format[j].name]
        BY <1>4, <1>5, <1>6, Decodes
    <1> DEFINE f == format[i]
               v == m[f.name]
               y == DecodeField(left[i - 1], f)
    <1>8. left[i - 1] \in Data /\ s[i] = EncodeField(f, v) /\ v \in Content(f) /\ IsField(f) /\ FieldFits(f, v)
        <2>1. i \in DOMAIN format
            BY DEF IsFormat
        <2>2. left[i - 1] \in Data
            BY <1>5, <1>6 DEF IsLeft
        <2>3. s[i] = EncodeField(f, v) /\ v \in Content(f)
            BY EncodeIs
        <2>4. IsField(f) /\ FieldFits(f, v)
            BY <2>1 DEF IsFormat, FormatFits
        <2>5. QED BY <2>2, <2>3, <2>4
    <1>9. CutResult(y, left[i - 1], f.how)
        BY <1>5, <1>8, FieldCut
    <1> HIDE DEF s, n, v
    <1>10. \A j \in 1 .. n : st[j] = FieldStep(st[j - 1], format[j]) /\ IsField(format[j])
        BY <1>4 DEF IsDecoding, IsFormat, n
    <1>11. st[i].status = "ok" =>
             /\ f.how = "short" /\ st[i].rest = <<>> /\ y.status = "ok"
             /\ st[i] = Ok(With(st[i - 1].value, f.name, y.value), y.rest)
        <2>1. st[i] = FieldStep(st[i - 1], f) /\ st[i - 1].status = "ok" /\ st[i - 1].rest = left[i - 1]
            BY <1>7, <1>10
        <2> HIDE DEF f
        <2>2. CASE y.status # "ok"
            BY <2>1, <2>2, FieldStepIs
        <2>3. CASE y.status = "ok"
            <3>1. f.how = "short" /\ y.rest = <<>>
                BY <1>9, <2>3 DEF CutResult
            <3>2. st[i] = Ok(With(st[i - 1].value, f.name, y.value), y.rest)
                BY <2>1, <2>3, FieldStepIs
            <3>3. QED BY <2>3, <3>1, <3>2, OkIs
        <2>4. QED BY <2>2, <2>3
    <1>12. ASSUME NEW j \in 1 .. n, st[j - 1].status = "ok" => st[j - 1].rest = <<>>
           PROVE  st[j].status # "ok"
        <2>1. st[j] = FieldStep(st[j - 1], format[j]) /\ IsField(format[j])
            BY <1>10
        <2>2. CASE st[j - 1].status = "ok"
            <3>1. DecodeField(st[j - 1].rest, format[j]).status # "ok"
                BY <1>12, <2>1, <2>2, FieldOfNothing
            <3>2. QED BY <2>1, <2>2, <3>1, FieldStepIs
        <2>3. CASE st[j - 1].status # "ok"
            BY <2>1, <2>3, FieldStepIs
        <2>4. QED BY <2>2, <2>3
    <1>13. i = n /\ st[n].rest = <<>>
        <2>1. st[i].status = "ok" => st[i].rest = <<>>
            BY <1>11
        <2>2. \A j \in 1 .. n : j > i /\ (st[j - 1].status = "ok" => st[j - 1].rest = <<>>)
                                => st[j].status # "ok"
            BY <1>12
        <2>3. st[n].status = "ok" => i = n /\ st[n].rest = <<>>
            BY <1>1, <2>1, <2>2, AfterTheEnd
        <2>4. st[n].status = "ok"
            BY <1>4 DEF n
        <2>5. QED BY <2>3, <2>4
    <1>14. d = st[n] /\ st[n].status = "ok"
        BY <1>4 DEF n
    <1>15. f.how = "short" /\ d.value = With(st[n - 1].value, f.name, y.value)
        BY <1>11, <1>13, <1>14, OkIs
    <1>16. /\ \A k \in 0 .. n : st[k].status = "ok" /\ st[k].value \in [FirstNames(format, k) -> Values]
        <2>1. n \in 0 .. Len(format)
            BY <1>1 DEF n
        <2>2. QED BY <1>4, <1>14, <2>1, DecodedNames
    <1>17. d.value \in [Names(format) -> Values]
        <2>1. n \in 0 .. n
            BY <1>1
        <2>2. Names(format) = FirstNames(format, n)
            BY DEF Names, FirstNames, IsFormat, n
        <2>3. QED BY <1>14, <1>16, <2>1, <2>2
    <1>18. ASSUME NEW j \in 1 .. n - 1 PROVE d.value[format[j].name] = e[format[j].name]
        <2>1. n - 1 \in 0 .. n /\ j \in 1 .. i - 1
            BY <1>1, <1>13
        <2>2. st[n - 1].value[format[j].name] = e[format[j].name]
            BY <1>7, <1>13, <2>1
        <2>3. format[j].name # f.name
            BY <1>13 DEF LastDiffers, n
        <2>4. format[j].name \in FirstNames(format, n - 1) /\ st[n - 1].value \in [FirstNames(format, n - 1) -> Values]
            BY <1>16, <2>1 DEF FirstNames
        <2>5. With(st[n - 1].value, f.name, y.value)[format[j].name] = st[n - 1].value[format[j].name]
            <3> HIDE DEF f, y
            <3>1. QED BY <2>3, <2>4 DEF With
        <2>6. QED BY <1>15, <2>2, <2>5
    <1>19. QED BY <1>13, <1>14, <1>15, <1>17, <1>18 DEF n

-----------------------------------------------------------------------------
(* The formats of the six kinds *)

LEMMA TransactionFormatIs ==
    IsFormat(TransactionFormat) /\ Len(TransactionFormat) = 10 /\ LastDiffers(TransactionFormat)
    <1>1. Len(TransactionFormat) = 10 /\ DOMAIN TransactionFormat = 1 .. 10
        BY DEF TransactionFormat
    <1>2. \A i \in 1 .. 10 : IsField(TransactionFormat[i])
        BY SizesAssumption, TypesDiffer DEF TransactionFormat, Field, IsField, Types, Ways
    <1>3. \A j \in 1 .. 9 : TransactionFormat[j].name # TransactionFormat[10].name
        BY DEF TransactionFormat, Field
    <1>4. QED BY <1>1, <1>2, <1>3 DEF IsFormat, LastDiffers

LEMMA BlockFormatIs ==
    IsFormat(BlockFormat) /\ Len(BlockFormat) = 12 /\ LastDiffers(BlockFormat)
    <1>1. Len(BlockFormat) = 12 /\ DOMAIN BlockFormat = 1 .. 12
        BY DEF BlockFormat
    <1>2. \A i \in 1 .. 12 : IsField(BlockFormat[i])
        BY SizesAssumption, TypesDiffer DEF BlockFormat, Field, List, IsField, Types, Ways
    <1>3. \A j \in 1 .. 11 : BlockFormat[j].name # BlockFormat[12].name
        BY DEF BlockFormat, Field, List
    <1>4. QED BY <1>1, <1>2, <1>3 DEF IsFormat, LastDiffers

LEMMA ConsensusFormatIs ==
    IsFormat(ConsensusFormat) /\ Len(ConsensusFormat) = 7 /\ LastDiffers(ConsensusFormat)
    <1>1. Len(ConsensusFormat) = 7 /\ DOMAIN ConsensusFormat = 1 .. 7
        BY DEF ConsensusFormat
    <1>2. \A i \in 1 .. 7 : IsField(ConsensusFormat[i])
        BY TypesDiffer DEF ConsensusFormat, PeerID, Field, IsField, Types, Ways
    <1>3. \A j \in 1 .. 6 : ConsensusFormat[j].name # ConsensusFormat[7].name
        BY DEF ConsensusFormat, PeerID, Field
    <1>4. QED BY <1>1, <1>2, <1>3 DEF IsFormat, LastDiffers

LEMMA NetworkFormatIs ==
    IsFormat(NetworkFormat) /\ Len(NetworkFormat) = 5 /\ LastDiffers(NetworkFormat)
    <1>1. Len(NetworkFormat) = 5 /\ DOMAIN NetworkFormat = 1 .. 5
        BY DEF NetworkFormat
    <1>2. \A i \in 1 .. 5 : IsField(NetworkFormat[i])
        BY TypesDiffer DEF NetworkFormat, PeerID, Field, IsField, Types, Ways
    <1>3. \A j \in 1 .. 4 : NetworkFormat[j].name # NetworkFormat[5].name
        BY DEF NetworkFormat, PeerID, Field
    <1>4. QED BY <1>1, <1>2, <1>3 DEF IsFormat, LastDiffers

LEMMA RouteFormatIs ==
    IsFormat(RouteFormat) /\ Len(RouteFormat) = 3 /\ LastDiffers(RouteFormat)
    <1>1. Len(RouteFormat) = 3 /\ DOMAIN RouteFormat = 1 .. 3
        BY DEF RouteFormat
    <1>2. \A i \in 1 .. 3 : IsField(RouteFormat[i])
        BY SizesAssumption, TypesDiffer DEF RouteFormat, Field, IsField, Types, Ways
    <1>3. \A j \in 1 .. 2 : RouteFormat[j].name # RouteFormat[3].name
        BY DEF RouteFormat, Field
    <1>4. QED BY <1>1, <1>2, <1>3 DEF IsFormat, LastDiffers

LEMMA TopologyFormatIs ==
    IsFormat(TopologyFormat) /\ Len(TopologyFormat) = 4 /\ LastDiffers(TopologyFormat)
    <1>1. Len(TopologyFormat) = 4 /\ DOMAIN TopologyFormat = 1 .. 4
        BY DEF TopologyFormat
    <1>2. \A i \in 1 .. 4 : IsField(TopologyFormat[i])
        BY TypesDiffer DEF TopologyFormat, Field, List, IsField, Types, Ways
    <1>3. \A j \in 1 .. 3 : TopologyFormat[j].name # TopologyFormat[4].name
        BY DEF TopologyFormat, Field, List
    <1>4. QED BY <1>1, <1>2, <1>3 DEF IsFormat, LastDiffers

-----------------------------------------------------------------------------
(* No decoder panics, whatever the bytes *)

\* What DeserializeTransaction and DeserializeBlock need before each of their fields.
TransactionNeed == <<
    HashSize + AddressSize + AddressSize + 32, AddressSize + AddressSize + 32, AddressSize + 32,
    32, 24, 16, 8, 0, 0, 0, 0 >>

BlockNeed == <<
    16 + HashSize + HashSize + HashSize, 8 + HashSize + HashSize + HashSize,
    HashSize + HashSize + HashSize, HashSize + HashSize, HashSize, 0, 0, 0, 0, 0, 0, 0, 0 >>

\* Formats without data[a:b] need nothing.
LEMMA FullSafe ==
    ASSUME NEW format, IsFormat(format), \A i \in 1 .. Len(format) : format[i].how # "slice", NEW a \in Data
    PROVE  Decode(format, a) \in Safe(Records(format))
    <1> DEFINE n == Len(format)
               need == [i \in 1 .. n + 1 |-> 0]
    <1>1. n \in Nat
        BY DEF IsFormat
    <1>2. need[1] = 0 /\ \A i \in 1 .. n : need[i] = 0 /\ need[i + 1] = 0
        BY <1>1
    <1> HIDE DEF need
    <1>3. IsNeed(need, format)
        BY <1>2 DEF IsNeed
    <1>4. need[1] \in Nat /\ need[1] <= Len(a)
        BY <1>2, DataType
    <1>5. QED BY <1>3, <1>4, DecodeSafe

LEMMA TransactionSafe ==
    ASSUME NEW a \in Data
    PROVE  DeserializeTransaction(a) \in Safe(Records(TransactionFormat))
    <1>1. CASE Len(a) < TransactionMinSize
        BY <1>1, SafeIs DEF DeserializeTransaction
    <1>2. CASE ~(Len(a) < TransactionMinSize)
        <2>1. HashSize \in Nat /\ AddressSize \in Nat /\ Len(a) \in Nat
            BY SizesAssumption, DataType
        <2>2. IsNeed(TransactionNeed, TransactionFormat)
            <3>1. \A i \in 1 .. 10 :
                /\ TransactionNeed[i] \in Nat /\ TransactionNeed[i + 1] \in Nat
                /\ IF TransactionFormat[i].how = "slice"
                   THEN TransactionNeed[i] = TransactionFormat[i].size + TransactionNeed[i + 1]
                   ELSE TransactionNeed[i + 1] = 0
                <4> DEFINE need == TransactionNeed
                           f == TransactionFormat
                <4>1. /\ need[1] = f[1].size + need[2] /\ need[2] = f[2].size + need[3]
                      /\ need[3] = f[3].size + need[4] /\ need[4] = f[4].size + need[5]
                      /\ need[5] = f[5].size + need[6] /\ need[6] = f[6].size + need[7]
                      /\ need[7] = f[7].size + need[8]
                      /\ need[8] = 0 /\ need[9] = 0 /\ need[10] = 0 /\ need[11] = 0
                    <5>1. /\ f[1].size = HashSize /\ f[2].size = AddressSize
                          /\ f[3].size = AddressSize /\ f[4].size = 8 /\ f[5].size = 8
                          /\ f[6].size = 8 /\ f[7].size = 8
                        BY DEF TransactionFormat, Field
                    <5>2. /\ need[1] = HashSize + AddressSize + AddressSize + 32
                          /\ need[2] = AddressSize + AddressSize + 32
                          /\ need[3] = AddressSize + 32 /\ need[4] = 32 /\ need[5] = 24
                          /\ need[6] = 16 /\ need[7] = 8
                          /\ need[8] = 0 /\ need[9] = 0 /\ need[10] = 0 /\ need[11] = 0
                        BY DEF TransactionNeed
                    <5> HIDE DEF need, f
                    <5>3. QED BY <2>1, <5>1, <5>2
                <4>2. \A i \in 1 .. 11 : need[i] \in Nat
                    <5>1. /\ need[1] \in Nat /\ need[2] \in Nat /\ need[3] \in Nat
                          /\ need[4] \in Nat /\ need[5] \in Nat /\ need[6] \in Nat
                          /\ need[7] \in Nat
                        BY <2>1 DEF TransactionNeed
                    <5>2. need[8] \in Nat /\ need[9] \in Nat /\ need[10] \in Nat /\ need[11] \in Nat
                        BY <4>1
                    <5> HIDE DEF need
                    <5>3. QED BY <5>1, <5>2
                <4>3. \A i \in 8 .. 10 : f[i].how # "slice"
                    BY TypesDiffer DEF TransactionFormat, Field
                <4>4. \A i \in 1 .. 7 : f[i].how = "slice"
                    BY DEF TransactionFormat, Field
                <4> HIDE DEF need, f
                <4>5. \A i \in 1 .. 7 : need[i] = f[i].size + need[i + 1]
                    BY <4>1
                <4>6. \A i \in 8 .. 10 : need[i + 1] = 0
                    BY <4>1
                <4>7. QED BY <4>2, <4>3, <4>4, <4>5, <4>6 DEF need, f
            <3>2. QED BY <3>1, TransactionFormatIs DEF IsNeed
        <2>3. TransactionNeed[1] \in Nat /\ TransactionNeed[1] <= Len(a)
            BY <1>2, <2>1 DEF TransactionNeed, TransactionMinSize
        <2>4. QED BY <1>2, <2>2, <2>3, TransactionFormatIs, DecodeSafe DEF DeserializeTransaction
    <1>3. QED BY <1>1, <1>2

LEMMA BlockDecodeSafe ==
    ASSUME NEW a \in Data, ~(Len(a) < BlockMinSize)
    PROVE  Decode(BlockFormat, a) \in Safe(Records(BlockFormat))
    <1>1. HashSize \in Nat /\ AddressSize \in Nat /\ Len(a) \in Nat
        BY SizesAssumption, DataType
    <1>2. IsNeed(BlockNeed, BlockFormat)
        <2>1. \A i \in 1 .. 12 :
            /\ BlockNeed[i] \in Nat /\ BlockNeed[i + 1] \in Nat
            /\ IF BlockFormat[i].how = "slice"
               THEN BlockNeed[i] = BlockFormat[i].size + BlockNeed[i + 1]
               ELSE BlockNeed[i + 1] = 0
            <3> DEFINE need == BlockNeed
                       f == BlockFormat
            <3>1. /\ need[1] = f[1].size + need[2] /\ need[2] = f[2].size + need[3]
                  /\ need[3] = f[3].size + need[4] /\ need[4] = f[4].size + need[5]
                  /\ need[5] = f[5].size + need[6]
                  /\ need[6] = 0 /\ need[7] = 0 /\ need[8] = 0 /\ need[9] = 0
                  /\ need[10] = 0 /\ need[11] = 0 /\ need[12] = 0 /\ need[13] = 0
                BY <1>1 DEF BlockNeed, BlockFormat, Field
            <3>2. \A i \in 1 .. 13 : need[i] \in Nat
                <4>1. /\ need[1] \in Nat /\ need[2] \in Nat /\ need[3] \in Nat
                      /\ need[4] \in Nat /\ need[5] \in Nat
                    BY <1>1 DEF BlockNeed
                <4>2. \A i \in 6 .. 13 : need[i] \in Nat
                    BY DEF BlockNeed
                <4> HIDE DEF need
                <4>3. \A i \in 1 .. 5 : need[i] \in Nat
                    <5>1. \A i \in 1 .. 5 : i = 1 \/ i = 2 \/ i = 3 \/ i = 4 \/ i = 5
                        OBVIOUS
                    <5>2. QED BY <4>1, <5>1, Zenon
                <4>4. \A i \in 1 .. 13 : i \in 1 .. 5 \/ i \in 6 .. 13
                    OBVIOUS
                <4>5. QED BY <4>2, <4>3, <4>4, Zenon
            <3>3. \A i \in 6 .. 12 : f[i].how # "slice"
                BY TypesDiffer DEF BlockFormat, Field, List
            <3>4. \A i \in 1 .. 5 : f[i].how = "slice"
                BY DEF BlockFormat, Field
            <3> HIDE DEF need, f
            <3>5. \A i \in 1 .. 5 : need[i] = f[i].size + need[i + 1]
                BY <3>1
            <3>6. \A i \in 6 .. 12 : need[i + 1] = 0
                BY <3>1
            <3>7. ASSUME NEW i \in 1 .. 12
                  PROVE  /\ need[i] \in Nat /\ need[i + 1] \in Nat
                         /\ IF f[i].how = "slice" THEN need[i] = f[i].size + need[i + 1]
                            ELSE need[i + 1] = 0
                <4>1. need[i] \in Nat /\ need[i + 1] \in Nat
                    <5>1. i \in 1 .. 13 /\ i + 1 \in 1 .. 13
                        OBVIOUS
                    <5>2. QED BY <3>2, <5>1
                <4>2. CASE i \in 1 .. 5
                    BY <3>4, <3>5, <4>1, <4>2
                <4>3. CASE i \in 6 .. 12
                    BY <3>3, <3>6, <4>1, <4>3
                <4>4. i \in 1 .. 5 \/ i \in 6 .. 12
                    OBVIOUS
                <4>5. QED BY <4>2, <4>3, <4>4
            <3>8. QED BY <3>7 DEF need, f
        <2>2. QED BY <2>1, BlockFormatIs DEF IsNeed
    <1>3. BlockNeed[1] \in Nat /\ BlockNeed[1] <= Len(a)
        BY <1>1 DEF BlockNeed, BlockMinSize
    <1>4. QED BY <1>2, <1>3, BlockFormatIs, DecodeSafe

\* A list is read as a sequence of bytes,
LEMMA ListType ==
    ASSUME NEW f, IsField(f), f.type = "list", NEW a \in Data, DecodeField(a, f).status = "ok"
    PROVE  DecodeField(a, f).value \in Seq(Data)
    <1> DEFINE y == Read(a, f.size, "full")
               n == ValueOf(y.value)
    <1>1. DecodeField(a, f) = IF y.status = "ok" THEN ReadItems(y.rest, n, f) ELSE y
        BY Lists DEF Then
    <1>2. y \in Results(Data)
        BY ReadType DEF IsField, Ways
    <1>3. y.status = "ok"
        BY <1>1
    <1>4. y.value \in Data /\ y.rest \in Data /\ IsList(f)
        BY <1>2, <1>3, ResultIs, TypesDiffer DEF IsField, IsList
    <1> HIDE DEF y
    <1>5. n \in Nat
        BY <1>4, ValueOfType DEF Data
    <1> HIDE DEF n
    <1>6. PICK items : IsReading(items, n, y.rest, f) /\ ReadItems(y.rest, n, f) = items[n]
        BY <1>4, <1>5, ReadItemsIs
    <1>7. n \in 0 .. n
        BY <1>5
    <1>8. items[n] \in Safe(Seq(Data)) /\ items[n].status = "ok"
        BY <1>1, <1>3, <1>6, <1>7 DEF IsReading
    <1>9. QED BY <1>1, <1>3, <1>6, <1>8, SafeIs

\* which is what the transactions of a block are decoded from.
LEMMA TransactionsType ==
    ASSUME NEW a \in Data, NEW d, d = Decode(BlockFormat, a), d.status = "ok"
    PROVE  d.value \in [Names(BlockFormat) -> Values] /\ d.value.Transactions \in Seq(Data)
    <1>1. PICK st : IsDecoding(st, a, BlockFormat) /\ d = st[12]
        BY BlockFormatIs, DecodeIs
    <1>2. 12 \in 0 .. Len(BlockFormat) /\ Len(BlockFormat) = 12
        BY BlockFormatIs
    <1>3. \A i \in 0 .. 12 : st[i].status = "ok" /\ st[i].value \in [FirstNames(BlockFormat, i) -> Values]
        BY <1>1, <1>2, BlockFormatIs, DecodedNames
    <1>4. st[11] = FieldStep(st[10], BlockFormat[11]) /\ st[12] = FieldStep(st[11], BlockFormat[12])
        <2>1. \A i \in 1 .. 12 : st[i] = FieldStep(st[i - 1], BlockFormat[i])
            BY <1>1, <1>2 DEF IsDecoding
        <2>2. 11 \in 1 .. 12 /\ 12 \in 1 .. 12 /\ 11 - 1 = 10 /\ 12 - 1 = 11
            OBVIOUS
        <2>3. QED BY <2>1, <2>2
    <1>5. st[10] \in Results(Records(BlockFormat)) /\ st[11] \in Results(Records(BlockFormat))
        BY <1>1, <1>2 DEF IsDecoding
    <1>6. /\ BlockFormat[11].name = "Transactions" /\ BlockFormat[11].type = "list"
          /\ BlockFormat[12].name = "FinalizedBy"
        BY DEF BlockFormat, List
    <1>7. IsField(BlockFormat[11]) /\ st[10].rest \in Data /\ st[10].status = "ok" /\ st[11].status = "ok" /\ st[12].status = "ok"
        BY <1>2, <1>3, <1>5, BlockFormatIs, ResultIs DEF IsFormat
    <1> DEFINE x == DecodeField(st[10].rest, BlockFormat[11])
               y == DecodeField(st[11].rest, BlockFormat[12])
    <1>8. x.status = "ok" /\ st[11] = Ok(With(st[10].value, "Transactions", x.value), x.rest)
        BY <1>4, <1>6, <1>7, FieldStepIs
    <1>9. x.value \in Seq(Data)
        BY <1>6, <1>7, <1>8, ListType
    <1>10. st[12] = Ok(With(st[11].value, "FinalizedBy", y.value), y.rest)
        BY <1>4, <1>6, <1>7, FieldStepIs
    <1> HIDE DEF x, y
    <1>11. st[11].value = With(st[10].value, "Transactions", x.value) /\ st[12].value = With(st[11].value, "FinalizedBy", y.value)
        BY <1>8, <1>10, OkIs
    <1>12. "Transactions" \in DOMAIN st[11].value /\ st[11].value["Transactions"] = x.value
        BY <1>11 DEF With
    <1>13. st[12].value["Transactions"] = x.value
        BY <1>11, <1>12 DEF With
    <1>14. Names(BlockFormat) = FirstNames(BlockFormat, 12)
        BY BlockFormatIs DEF Names, FirstNames, IsFormat
    <1>15. st[12].value \in [FirstNames(BlockFormat, 12) -> Values]
        <2>1. 12 \in 0 .. 12
            OBVIOUS
        <2>2. QED BY <1>3, <2>1
    <1>16. QED BY <1>1, <1>9, <1>13, <1>14, <1>15

LEMMA BlockSafe ==
    ASSUME NEW a \in Data
    PROVE  DeserializeBlock(a).status # "panic"
    <1>1. CASE Len(a) < BlockMinSize
        BY <1>1, OkIs, TypesDiffer DEF DeserializeBlock
    <1>2. CASE ~(Len(a) < BlockMinSize)
        <2> DEFINE d == Decode(BlockFormat, a)
        <2>1. d \in Safe(Records(BlockFormat))
            BY <1>2, BlockDecodeSafe
        <2>2. DeserializeBlock(a) = IF d.status = "ok" THEN DeserializeTransactions(d) ELSE d
            BY <1>2 DEF DeserializeBlock, Then
        <2>3. CASE d.status # "ok"
            BY <2>1, <2>2, <2>3, SafeIs
        <2>4. CASE d.status = "ok"
            <3>1. d.value.Transactions \in Seq(Data)
                BY <2>4, TransactionsType
            <3> HIDE DEF d
            <3> DEFINE n == d.value.Transactions
                       txs == [i \in DOMAIN n |-> DeserializeTransaction(n[i])]
                       bad == {i \in DOMAIN txs : txs[i].status # "ok"}
                       c == CHOOSE i \in bad : TRUE
                       v == [d.value EXCEPT !.Transactions = [i \in DOMAIN txs |-> txs[i].value]]
            <3>2. \A i \in DOMAIN n : n[i] \in Data
                BY <3>1
            <3>3. \A i \in DOMAIN txs : txs[i].status # "panic"
                BY <3>2, TransactionSafe, SafeIs
            <3>4. DeserializeTransactions(d) = IF bad # {} THEN [status |-> txs[c].status] ELSE Ok(v, d.rest)
                BY DEF DeserializeTransactions
            <3> HIDE DEF n, txs, v
            <3>5. CASE bad # {}
                <4>1. c \in bad
                    BY <3>5
                <4>2. txs[c].status # "panic"
                    BY <3>3, <4>1
                <4> HIDE DEF c, bad
                <4>3. QED BY <2>2, <2>4, <3>4, <3>5, <4>2
            <3>6. CASE bad = {}
                <4> HIDE DEF bad
                <4>1. DeserializeBlock(a) = Ok(v, d.rest)
                    BY <2>2, <2>4, <3>4, <3>6
                <4>2. QED BY <4>1, OkIs, TypesDiffer
            <3>7. QED BY <3>5, <3>6
        <2>5. QED BY <2>3, <2>4
    <1>3. QED BY <1>1, <1>2

LEMMA KindsDiffer ==
    /\ "transaction" # "block" /\ "transaction" # "consensus" /\ "transaction" # "network"
    /\ "transaction" # "route" /\ "transaction" # "topology" /\ "block" # "consensus"
    /\ "block" # "network" /\ "block" # "route" /\ "block" # "topology" /\ "consensus" # "network"
    /\ "consensus" # "route" /\ "consensus" # "topology" /\ "network" # "route"
    /\ "network" # "topology" /\ "route" # "topology"
    OBVIOUS

\* Whatever the bytes, also those that no sender has written, none of the six
\* decoders reads behind their end.
THEOREM DecodersNeverPanic ==
    \A k \in Kinds : \A a \in Data : Deserialize(k, a).status # "panic"
    <1> SUFFICES ASSUME NEW k \in Kinds, NEW a \in Data PROVE Deserialize(k, a).status # "panic"
        OBVIOUS
    <1>1. CASE k = "transaction"
        BY <1>1, KindsDiffer, TransactionSafe, SafeIs DEF Deserialize
    <1>2. CASE k = "block"
        BY <1>2, KindsDiffer, BlockSafe DEF Deserialize
    <1>3. CASE k = "consensus"
        <2> DEFINE d == Decode(ConsensusFormat, a)
        <2>1. \A i \in 1 .. 7 : ConsensusFormat[i].how # "slice"
            BY TypesDiffer DEF ConsensusFormat, PeerID, Field
        <2>2. d \in Safe(Records(ConsensusFormat))
            BY <2>1, ConsensusFormatIs, FullSafe
        <2>3. Deserialize(k, a) = IF d.status = "ok" THEN Ok(Carried(d.value), d.rest) ELSE d
            BY <1>3, KindsDiffer DEF Deserialize, DeserializeConsensusPacket, Then
        <2> HIDE DEF d
        <2>4. Ok(Carried(d.value), d.rest).status # "panic" /\ d.status # "panic"
            BY <2>2, SafeIs, OkIs, TypesDiffer
        <2>5. QED BY <2>3, <2>4
    <1>4. CASE k = "network"
        <2>1. \A i \in 1 .. 5 : NetworkFormat[i].how # "slice"
            BY TypesDiffer DEF NetworkFormat, PeerID, Field
        <2>2. Decode(NetworkFormat, a) \in Safe(Records(NetworkFormat))
            BY <2>1, NetworkFormatIs, FullSafe
        <2>3. QED BY <1>4, <2>2, KindsDiffer, SafeIs DEF Deserialize, DeserializeNetworkPacket
    <1>5. CASE k = "route"
        <2> DEFINE d == Decode(RouteFormat, a)
        <2>1. \A i \in 1 .. 3 : RouteFormat[i].how # "slice"
            BY TypesDiffer DEF RouteFormat, Field
        <2>2. d \in Safe(Records(RouteFormat))
            BY <2>1, RouteFormatIs, FullSafe
        <2>3. \/ Deserialize(k, a) = Error
              \/ Deserialize(k, a) = d
            BY <1>5, KindsDiffer DEF Deserialize, DeserializeRoutePacket, Then
        <2> HIDE DEF d
        <2>4. QED BY <2>2, <2>3, SafeIs, OkIs, TypesDiffer
    <1>6. CASE k = "topology"
        <2>1. \A i \in 1 .. 4 : TopologyFormat[i].how # "slice"
            BY TypesDiffer DEF TopologyFormat, List, Field
        <2>2. Decode(TopologyFormat, a) \in Safe(Records(TopologyFormat))
            BY <2>1, TopologyFormatIs, FullSafe
        <2>3. QED BY <1>6, <2>2, KindsDiffer, SafeIs DEF Deserialize, DeserializeTopologyMessage
    <1>7. QED BY <1>1, <1>2, <1>3, <1>4, <1>5, <1>6 DEF Kinds

-----------------------------------------------------------------------------
(* The sizes computed before a transaction or a block is written *)

\* How long the first pieces are.
LEMMA FlatLength ==
    ASSUME NEW s \in Seq(Data), NEW flat, IsFlat(flat, s)
    PROVE  /\ Len(flat[0]) = 0 /\ \A i \in 0 .. Len(s) : Len(flat[i]) \in Nat
           /\ \A i \in 1 .. Len(s) : Len(flat[i]) = Len(flat[i - 1]) + Len(s[i]) /\ Len(s[i]) \in Nat
    <1>1. \A i \in 0 .. Len(s) : flat[i] \in Data
        BY DEF IsFlat
    <1>2. ASSUME NEW i \in 1 .. Len(s) PROVE Len(flat[i]) = Len(flat[i - 1]) + Len(s[i]) /\ Len(s[i]) \in Nat
        <2>1. i - 1 \in 0 .. Len(s) /\ s[i] \in Data
            OBVIOUS
        <2>2. flat[i] = flat[i - 1] \o s[i]
            BY DEF IsFlat
        <2>3. flat[i - 1] \in Data
            BY <1>1, <2>1
        <2>4. Len(flat[i - 1] \o s[i]) = Len(flat[i - 1]) + Len(s[i])
            BY <2>1, <2>3, Parts
        <2>5. QED BY <2>1, <2>2, <2>4, DataType
    <1>3. flat[0] = <<>>
        BY DEF IsFlat
    <1>4. QED BY <1>1, <1>2, <1>3, DataType

\* How long a field is.
LEMMA FieldLength ==
    ASSUME NEW f, IsField(f), NEW v \in Content(f)
    PROVE  /\ f.type \in {"number", "signer", "fixed"} => Len(EncodeField(f, v)) = f.size
           /\ f.type = "bytes" => Len(EncodeField(f, v)) = f.size + Len(v) /\ Len(v) \in Nat
           /\ f.type = "list" => /\ Len(EncodeField(f, v)) = f.size + Len(FlattenSeq(ItemPieces(f, v)))
                                 /\ v \in Seq(Data) /\ ItemPieces(f, v) \in Seq(Data)
    <1>0. f.size \in Nat
        BY DEF IsField
    <1>1. CASE f.type = "number"
        <2>1. v \in Nat
            BY <1>1, Numbers DEF Uints
        <2>2. Len(EncodeField(f, v)) = f.size
            <3>1. EncodeField(f, v) = Number(v, f.size)
                BY <1>1, Numbers
            <3>2. Len(Number(v, f.size)) = f.size
                BY <1>0, <2>1, NumberType
            <3>3. QED BY <3>1, <3>2
        <2>3. QED BY <1>1, <2>2, TypesDiffer
    <1>2. CASE f.type = "signer"
        <2>1. Uint32(v) \in Nat
            BY SignerFits DEF Uints
        <2>2. Len(EncodeField(f, v)) = f.size
            BY <1>0, <1>2, <2>1, Signers, NumberType
        <2>3. QED BY <1>2, <2>2, TypesDiffer
    <1>3. CASE f.type = "fixed"
        <2>1. Len(EncodeField(f, v)) = f.size
            BY <1>0, <1>3, FixedSizes, FixedIs
        <2>2. QED BY <1>3, <2>1, TypesDiffer
    <1>4. CASE f.type = "bytes"
        <2>1. v \in Data /\ EncodeField(f, v) = WithLength(v, f.size)
            BY <1>4, ByteStrings
        <2>2. Len(v) \in Nat
            BY <2>1, DataType
        <2>3. Number(Len(v), f.size) \in Data /\ Len(Number(Len(v), f.size)) = f.size
            BY <1>0, <2>2, NumberType DEF Data
        <2>4. Len(EncodeField(f, v)) = f.size + Len(v)
            BY <2>1, <2>3, Parts DEF WithLength
        <2>5. QED BY <1>4, <2>2, <2>4, TypesDiffer
    <1>5. CASE f.type = "list"
        <2>1. v \in Seq(Data) /\ ItemPieces(f, v) \in Seq(Data)
            BY <1>5, ListContent
        <2>2. Len(v) \in Nat
            BY <2>1
        <2>3. Number(Len(v), f.size) \in Data /\ Len(Number(Len(v), f.size)) = f.size
            BY <1>0, <2>2, NumberType DEF Data
        <2>4. FlattenSeq(ItemPieces(f, v)) \in Data
            BY <2>1, FlattenType
        <2>5. EncodeField(f, v) = Number(Len(v), f.size) \o FlattenSeq(ItemPieces(f, v))
            BY <1>5, Lists
        <2>6. Len(EncodeField(f, v)) = f.size + Len(FlattenSeq(ItemPieces(f, v)))
            BY <2>3, <2>4, <2>5, Parts
        <2>7. QED BY <1>5, <2>1, <2>6, TypesDiffer
    <1>6. QED BY <1>1, <1>2, <1>3, <1>4, <1>5

LEMMA TransactionWritten ==
    ASSUME NEW t, HasFormat(t, TransactionFormat)
    PROVE  /\ Encode(TransactionFormat, t) \in Data
           /\ Len(Encode(TransactionFormat, t)) >= TransactionMinSize
           /\ SerializeTransaction(t) \in Data
           /\ Len(Encode(TransactionFormat, t)) \in Uints(4) =>
                SerializeTransaction(t) = Encode(TransactionFormat, t)
    <1> DEFINE F == TransactionFormat
               s == FieldPieces(F, t)
               E == Encode(F, t)
    <1>1. s \in Seq(Data) /\ Len(s) = 10 /\ E = FlattenSeq(s) /\ E \in Data
        BY TransactionFormatIs, EncodeIs
    <1>2. \A i \in 1 .. 10 : s[i] = EncodeField(F[i], t[F[i].name]) /\ t[F[i].name] \in Content(F[i]) /\ IsField(F[i])
        <2>1. \A i \in 1 .. 10 : IsField(F[i])
            BY TransactionFormatIs DEF IsFormat
        <2>2. \A i \in 1 .. 10 : s[i] = EncodeField(F[i], t[F[i].name]) /\ t[F[i].name] \in Content(F[i])
            BY TransactionFormatIs, EncodeIs
        <2>3. QED BY <2>1, <2>2
    <1>3. PICK flat : IsFlat(flat, s) /\ E = flat[10]
        BY <1>1, FlattenIs
    <1>4. HashSize \in Nat /\ AddressSize \in Nat
        BY SizesAssumption
    <1>5. ASSUME NEW i \in 1 .. 8 PROVE Len(s[i]) = F[i].size
        <2>1. F[i].type \in {"number", "signer", "fixed"}
            BY DEF TransactionFormat, Field
        <2>2. i \in 1 .. 10
            OBVIOUS
        <2> HIDE DEF F, s
        <2>3. s[i] = EncodeField(F[i], t[F[i].name]) /\ t[F[i].name] \in Content(F[i]) /\ IsField(F[i])
            BY <1>2, <2>2
        <2>4. QED BY <2>1, <2>3, FieldLength
    <1>6. ASSUME NEW i \in 9 .. 10 PROVE Len(s[i]) = F[i].size + Len(t[F[i].name]) /\ Len(t[F[i].name]) \in Nat
        <2>1. F[i].type = "bytes"
            BY DEF TransactionFormat, Field
        <2>2. i \in 1 .. 10
            OBVIOUS
        <2> HIDE DEF F, s
        <2>3. s[i] = EncodeField(F[i], t[F[i].name]) /\ t[F[i].name] \in Content(F[i]) /\ IsField(F[i])
            BY <1>2, <2>2
        <2>4. QED BY <2>1, <2>3, FieldLength
    <1>7. /\ F[1].size = HashSize /\ F[2].size = AddressSize /\ F[3].size = AddressSize
          /\ F[4].size = 8 /\ F[5].size = 8 /\ F[6].size = 8 /\ F[7].size = 8
          /\ F[8].size = 4 /\ F[9].size = 4 /\ F[10].size = 4
          /\ F[9].name = "Signature" /\ F[10].name = "Payload"
        BY DEF TransactionFormat, Field
    <1> HIDE DEF F, s, E
    <1>8. Len(flat[0]) = 0 /\ \A i \in 1 .. 10 : Len(flat[i]) = Len(flat[i - 1]) + Len(s[i])
        <2>1. s \in Seq(Data) /\ IsFlat(flat, s)
            BY <1>1, <1>3
        <2>2. /\ Len(flat[0]) = 0
              /\ \A i \in 1 .. Len(s) : Len(flat[i]) = Len(flat[i - 1]) + Len(s[i])
            BY <2>1, FlatLength
        <2>3. QED BY <1>1, <2>2
    <1> DEFINE len == [i \in 0 .. 10 |-> Len(flat[i])]
    <1>9. /\ len[0] = 0 /\ len[1] = len[0] + HashSize /\ len[2] = len[1] + AddressSize
          /\ len[3] = len[2] + AddressSize /\ len[4] = len[3] + 8 /\ len[5] = len[4] + 8
          /\ len[6] = len[5] + 8 /\ len[7] = len[6] + 8 /\ len[8] = len[7] + 4
        <2>1. ASSUME NEW i \in 1 .. 8 PROVE len[i] = len[i - 1] + F[i].size
            <3>1. i \in 0 .. 10 /\ i - 1 \in 0 .. 10 /\ i \in 1 .. 10
                OBVIOUS
            <3>2. QED BY <1>5, <1>8, <3>1
        <2>2. len[0] = 0
            BY <1>8
        <2> HIDE DEF len
        <2>3. QED BY <1>7, <2>1, <2>2
    <1>10. /\ len[9] = len[8] + (4 + Len(t.Signature)) /\ len[10] = len[9] + (4 + Len(t.Payload))
           /\ Len(t.Signature) \in Nat /\ Len(t.Payload) \in Nat
        <2>1. \A i \in 9 .. 10 : len[i] = len[i - 1] + (F[i].size + Len(t[F[i].name])) /\ Len(t[F[i].name]) \in Nat
            <3>1. ASSUME NEW i \in 9 .. 10 PROVE len[i] = len[i - 1] + Len(s[i])
                <4>1. i \in 0 .. 10 /\ i - 1 \in 0 .. 10 /\ i \in 1 .. 10
                    OBVIOUS
                <4>2. QED BY <1>8, <4>1
            <3>2. QED BY <1>6, <3>1
        <2> HIDE DEF len
        <2>2. 9 \in 9 .. 10 /\ 10 \in 9 .. 10 /\ 9 - 1 = 8 /\ 10 - 1 = 9
            OBVIOUS
        <2>3. len[9] = len[8] + (4 + Len(t.Signature)) /\ Len(t.Signature) \in Nat
            BY <1>7, <2>1, <2>2
        <2>4. len[10] = len[9] + (4 + Len(t.Payload)) /\ Len(t.Payload) \in Nat
            BY <1>7, <2>1, <2>2
        <2>5. QED BY <2>3, <2>4
    <1>11. Uint(Len(E), 4) = TransactionSize(t) /\ Len(E) >= TransactionMinSize
        <2>1. Len(E) = len[10]
            BY <1>3
        <2> HIDE DEF len
        <2>2. len[8] = HashSize + 2 * AddressSize + 4 * 8 + 4
            BY <1>4, <1>9
        <2>3. \A h, x, y, p, q \in Nat :
                p = h + 2 * x + 4 * 8 + 4 =>
                    /\ (p + (4 + y)) + (4 + q) = h + 2 * x + 4 * 8 + 4 + 4 + y + 4 + q
                    /\ (p + (4 + y)) + (4 + q) >= h + 2 * x + 4 * 8 + 4 + 4 + 4
            OBVIOUS
        <2>4. len[8] \in Nat
            BY <1>4, <2>2
        <2>5. len[10] = (len[8] + (4 + Len(t.Signature))) + (4 + Len(t.Payload))
            BY <1>10
        <2> DEFINE y == Len(t.Signature)
                   q == Len(t.Payload)
                   p == len[8]
        <2>6. /\ TransactionSize(t) = Uint(HashSize + 2 * AddressSize + 4 * 8 + 4 + 4 + y + 4 + q, 4)
              /\ TransactionMinSize = HashSize + 2 * AddressSize + 4 * 8 + 4 + 4 + 4
            BY DEF TransactionSize, TransactionMinSize
        <2>7. y \in Nat /\ q \in Nat /\ p \in Nat /\ p = HashSize + 2 * AddressSize + 4 * 8 + 4 /\ Len(E) = (p + (4 + y)) + (4 + q)
            BY <1>10, <2>1, <2>2, <2>4, <2>5
        <2> HIDE DEF y, q, p
        <2>8. /\ (p + (4 + y)) + (4 + q) = HashSize + 2 * AddressSize + 4 * 8 + 4 + 4 + y + 4 + q
              /\ (p + (4 + y)) + (4 + q) >= HashSize + 2 * AddressSize + 4 * 8 + 4 + 4 + 4
            BY <1>4, <2>7, <2>3
        <2>9. QED BY <2>6, <2>7, <2>8
    <1>12. SerializeTransaction(t) = Buffer(E, Uint(Len(E), 4))
        BY <1>11 DEF SerializeTransaction, E, F
    <1>13. Len(E) \in Nat
        BY <1>1, DataType
    <1> HIDE DEF E
    <1>14. Uint(Len(E), 4) \in Nat /\ (Len(E) \in Uints(4) => Uint(Len(E), 4) = Len(E))
        BY <1>13, UintIs
    <1>15. SerializeTransaction(t) \in Data
        BY <1>1, <1>12, <1>14, BufferType
    <1>16. Len(E) \in Uints(4) => SerializeTransaction(t) = E
        BY <1>1, <1>12, <1>14, BufferWhole
    <1>17. QED BY <1>1, <1>11, <1>15, <1>16 DEF E, F

\* The bytes of the first transactions of a block.
IsSize(up, txs) ==
    /\ up \in [0 .. Len(txs) -> Nat] /\ up[0] = 0
    /\ \A i \in 1 .. Len(txs) : up[i] = up[i - 1] + 4 + Len(txs[i])

LEMMA TransactionsSizeIs ==
    ASSUME NEW txs \in Seq(Data)
    PROVE  \E up : IsSize(up, txs) /\ TransactionsSize(txs) = up[Len(txs)]
    <1> DEFINE n == Len(txs)
               g == [p \in (1 .. n) \X Nat |-> p[2] + 4 + Len(txs[p[1]])]
               body(h) == [i \in 0 .. n |-> IF i = 0 THEN 0 ELSE h[i - 1] + 4 + Len(txs[i])]
               upTo == CHOOSE h : h = body(h)
    <1>0. n \in Nat /\ \A i \in 1 .. n : txs[i] \in Data
        OBVIOUS
    <1>1. \A i \in 1 .. n : Len(txs[i]) \in Nat
        BY <1>0, DataType
    <1>2. ASSUME NEW i \in 1 .. n, NEW r \in Nat PROVE r + 4 + Len(txs[i]) \in Nat
        <2>1. Len(txs[i]) \in Nat
            BY <1>1
        <2>2. \A x, y \in Nat : x + 4 + y \in Nat
            OBVIOUS
        <2>3. QED BY <2>1, <2>2
    <1>3. TransactionsSize(txs) = upTo[n]
        BY DEF TransactionsSize
    <1> HIDE DEF n
    <1>4. g \in [(1 .. n) \X Nat -> Nat] /\ \A i \in 1 .. n, r \in Nat : g[<<i, r>>] = r + 4 + Len(txs[i])
        BY <1>2
    <1> HIDE DEF g
    <1>5. PICK h : IsRecursion(h, n, Nat, 0, g)
        BY <1>0, <1>4, Recursion
    <1>6. h = body(h)
        <2>1. ASSUME NEW i \in 1 .. n PROVE h[i] = h[i - 1] + 4 + Len(txs[i])
            <3>1. i - 1 \in 0 .. n
                BY <1>0
            <3>2. QED BY <1>4, <1>5, <3>1 DEF IsRecursion
        <2>2. QED BY <1>0, <1>5, <2>1 DEF IsRecursion
    <1>7. upTo = body(upTo)
        BY <1>6
    <1> HIDE DEF upTo
    <1>8. PICK u : u = upTo
        OBVIOUS
    <1>9. u[0] = 0 /\ \A i \in 1 .. n : u[i] = u[i - 1] + 4 + Len(txs[i])
        <2>1. \A i \in 0 .. n : u[i] = IF i = 0 THEN 0 ELSE u[i - 1] + 4 + Len(txs[i])
            BY <1>7, <1>8
        <2>2. 0 \in 0 .. n /\ \A i \in 1 .. n : i \in 0 .. n /\ i # 0
            BY <1>0
        <2>3. QED BY <2>1, <2>2
    <1>10. \A i \in 0 .. n : u[i] \in Nat
        <2> DEFINE S == {i \in 0 .. n : u[i] \in Nat}
        <2>1. 0 \in S
            BY <1>0, <1>9
        <2>2. ASSUME NEW i \in 1 .. n, i - 1 \in S PROVE i \in S
            <3>1. i \in 0 .. n /\ u[i - 1] \in Nat
                BY <1>0, <2>2
            <3>2. QED BY <1>2, <1>9, <3>1
        <2> HIDE DEF S
        <2>3. 0 .. n \subseteq S
            BY <1>0, <2>1, <2>2, Upwards
        <2>4. QED BY <2>3 DEF S
    <1>11. u \in [0 .. n -> Nat]
        BY <1>7, <1>8, <1>10
    <1>12. IsSize(u, txs)
        BY <1>9, <1>11 DEF IsSize, n
    <1>13. QED BY <1>3, <1>8, <1>12 DEF n

\* Pieces that are a length of four bytes and a transaction,
LEMMA TransactionsLength ==
    ASSUME NEW txs \in Seq(Data), NEW s \in Seq(Data), Len(s) = Len(txs),
           \A i \in 1 .. Len(txs) : Len(s[i]) = 4 + Len(txs[i])
    PROVE  Len(FlattenSeq(s)) = TransactionsSize(txs)
    <1> DEFINE n == Len(txs)
    <1>1. n \in Nat /\ n \in 0 .. n /\ Len(s) = n
        OBVIOUS
    <1>2. PICK flat : IsFlat(flat, s) /\ FlattenSeq(s) = flat[n]
        BY <1>1, FlattenIs
    <1>3. PICK up : IsSize(up, txs) /\ TransactionsSize(txs) = up[n]
        BY TransactionsSizeIs
    <1>4. Len(flat[0]) = 0 /\ \A i \in 1 .. n : Len(flat[i]) = Len(flat[i - 1]) + Len(s[i])
        <2>1. /\ Len(flat[0]) = 0
              /\ \A i \in 1 .. Len(s) : Len(flat[i]) = Len(flat[i - 1]) + Len(s[i]) /\ Len(s[i]) \in Nat
            BY <1>2, FlatLength
        <2>2. QED BY <1>1, <2>1
    <1>5. /\ up[0] = 0 /\ \A i \in 0 .. n : up[i] \in Nat
          /\ \A i \in 1 .. n : up[i] = up[i - 1] + 4 + Len(txs[i])
        BY <1>3 DEF IsSize
    <1>6. \A i \in 1 .. n : Len(txs[i]) \in Nat
        BY DataType
    <1>7. \A i \in 1 .. n : Len(s[i]) = 4 + Len(txs[i])
        OBVIOUS
    <1> HIDE DEF n
    <1> DEFINE S == {i \in 0 .. n : Len(flat[i]) = up[i]}
    <1>8. 0 \in S
        BY <1>1, <1>4, <1>5
    <1>9. ASSUME NEW i \in 1 .. n, i - 1 \in S PROVE i \in S
        <2>1. i \in 0 .. n /\ i - 1 \in 0 .. n
            BY <1>1
        <2>2. Len(flat[i]) = up[i - 1] + (4 + Len(txs[i]))
            BY <1>4, <1>7, <1>9
        <2>3. up[i] = up[i - 1] + 4 + Len(txs[i]) /\ up[i - 1] \in Nat /\ Len(txs[i]) \in Nat
            BY <1>5, <1>6, <2>1
        <2>4. \A x, y \in Nat : x + (4 + y) = x + 4 + y
            OBVIOUS
        <2>5. Len(flat[i]) = up[i]
            BY <2>2, <2>3, <2>4
        <2>6. QED BY <2>1, <2>5
    <1> HIDE DEF S
    <1>10. 0 .. n \subseteq S
        BY <1>1, <1>8, <1>9, Upwards
    <1>11. QED BY <1>1, <1>2, <1>3, <1>10 DEF S

\* and pieces that all have the same length.
LEMMA EqualLengths ==
    ASSUME NEW s \in Seq(Data), NEW k \in Nat, \A i \in 1 .. Len(s) : Len(s[i]) = k
    PROVE  Len(FlattenSeq(s)) = Len(s) * k
    <1> DEFINE n == Len(s)
    <1>1. n \in Nat /\ n \in 0 .. n
        OBVIOUS
    <1>2. PICK flat : IsFlat(flat, s) /\ FlattenSeq(s) = flat[n]
        BY <1>1, FlattenIs
    <1>3. Len(flat[0]) = 0 /\ \A i \in 1 .. n : Len(flat[i]) = Len(flat[i - 1]) + k
        <2>1. /\ Len(flat[0]) = 0
              /\ \A i \in 1 .. Len(s) : Len(flat[i]) = Len(flat[i - 1]) + Len(s[i]) /\ Len(s[i]) \in Nat
            BY <1>2, FlatLength
        <2>2. QED BY <2>1
    <1> HIDE DEF n
    <1> DEFINE S == {i \in 0 .. n : Len(flat[i]) = i * k}
    <1>4. 0 \in S
        BY <1>1, <1>3
    <1>5. ASSUME NEW i \in 1 .. n, i - 1 \in S PROVE i \in S
        <2>1. Len(flat[i]) = (i - 1) * k + k
            BY <1>3, <1>5
        <2>2. \A x, y \in Nat : x > 0 => (x - 1) * y + y = x * y
            OBVIOUS
        <2>3. i \in Nat /\ i > 0 /\ i \in 0 .. n
            BY <1>1
        <2>4. QED BY <2>1, <2>2, <2>3
    <1> HIDE DEF S
    <1>6. 0 .. n \subseteq S
        BY <1>1, <1>4, <1>5, Upwards
    <1>7. QED BY <1>1, <1>2, <1>6 DEF S, n

\* A block with its transactions serialized.
LEMMA BlockWritten ==
    ASSUME NEW b, HasFormat(b, BlockFormat)
    PROVE  /\ Encode(BlockFormat, b) \in Data
           /\ Len(Encode(BlockFormat, b)) >= BlockMinSize
           /\ Buffer(Encode(BlockFormat, b), BlockSize(b)) \in Data
           /\ FormatFits(b, BlockFormat) =>
                Buffer(Encode(BlockFormat, b), BlockSize(b)) = Encode(BlockFormat, b)
    <1> DEFINE F == BlockFormat
               s == FieldPieces(F, b)
               E == Encode(F, b)
    <1>1. s \in Seq(Data) /\ Len(s) = 12 /\ E = FlattenSeq(s) /\ E \in Data
        BY BlockFormatIs, EncodeIs
    <1>2. \A i \in 1 .. 12 : s[i] = EncodeField(F[i], b[F[i].name]) /\ b[F[i].name] \in Content(F[i]) /\ IsField(F[i])
        <2>1. \A i \in 1 .. 12 : IsField(F[i])
            BY BlockFormatIs DEF IsFormat
        <2>2. \A i \in 1 .. 12 : s[i] = EncodeField(F[i], b[F[i].name]) /\ b[F[i].name] \in Content(F[i])
            BY BlockFormatIs, EncodeIs
        <2>3. QED BY <2>1, <2>2
    <1>3. PICK flat : IsFlat(flat, s) /\ E = flat[12]
        BY <1>1, FlattenIs
    <1>4. HashSize \in Nat /\ AddressSize \in Nat /\ AddressSize # 0
        BY SizesAssumption
    <1>5. ASSUME NEW i \in {1, 2, 3, 4, 5, 6, 8, 9, 10} PROVE Len(s[i]) = F[i].size
        <2>1. F[i].type \in {"number", "signer", "fixed"}
            BY DEF BlockFormat, Field
        <2>2. i \in 1 .. 12
            OBVIOUS
        <2> HIDE DEF F, s
        <2>3. s[i] = EncodeField(F[i], b[F[i].name]) /\ b[F[i].name] \in Content(F[i]) /\ IsField(F[i])
            BY <1>2, <2>2
        <2>4. QED BY <2>1, <2>3, FieldLength
    <1>6. /\ F[1].size = 8 /\ F[2].size = 8 /\ F[3].size = HashSize /\ F[4].size = HashSize
          /\ F[5].size = HashSize /\ F[6].size = 4 /\ F[8].size = AddressSize /\ F[9].size = 8
          /\ F[10].size = 4
        BY DEF BlockFormat, Field
    <1>7. /\ F[7].size = 4 /\ F[7].name = "Signature" /\ F[7].type = "bytes"
          /\ F[11].size = 4 /\ F[11].name = "Transactions" /\ F[11].type = "list" /\ F[11].item = 0
          /\ F[12].size = 4 /\ F[12].name = "FinalizedBy" /\ F[12].type = "list" /\ F[12].item = AddressSize
        BY DEF BlockFormat, Field, List
    <1>8. 7 \in 1 .. 12 /\ 11 \in 1 .. 12 /\ 12 \in 1 .. 12
        OBVIOUS
    <1> HIDE DEF F, s, E
    <1>9. Len(s[7]) = 4 + Len(b.Signature) /\ Len(b.Signature) \in Nat
        <2>1. s[7] = EncodeField(F[7], b.Signature) /\ b.Signature \in Content(F[7]) /\ IsField(F[7])
            BY <1>2, <1>7, <1>8
        <2>2. QED BY <1>7, <2>1, FieldLength
    <1>10. Len(s[11]) = 4 + TransactionsSize(b.Transactions) /\ TransactionsSize(b.Transactions) \in Nat
        <2> DEFINE v == b.Transactions
                   P == ItemPieces(F[11], v)
        <2>1. s[11] = EncodeField(F[11], v) /\ v \in Content(F[11]) /\ IsField(F[11])
            BY <1>2, <1>7, <1>8
        <2> HIDE DEF v
        <2>2. Len(s[11]) = 4 + Len(FlattenSeq(P)) /\ v \in Seq(Data) /\ P \in Seq(Data)
            BY <1>7, <2>1, FieldLength
        <2>3. Len(P) = Len(v)
            BY <2>2 DEF ItemPieces
        <2>4. ASSUME NEW i \in 1 .. Len(v) PROVE Len(P[i]) = 4 + Len(v[i])
            <3>1. P[i] = Number(Len(v[i]), 4) \o v[i] /\ v[i] \in Data
                <4>1. i \in DOMAIN v /\ v[i] \in Data
                    BY <2>2
                <4>2. P[i] = EncodeItem(F[11], v[i])
                    BY <4>1 DEF ItemPieces
                <4>3. QED BY <1>7, <4>1, <4>2 DEF EncodeItem, WithLength
            <3>2. Len(v[i]) \in Nat
                BY <3>1, DataType
            <3>3. Number(Len(v[i]), 4) \in Data /\ Len(Number(Len(v[i]), 4)) = 4
                BY <3>2, NumberType DEF Data
            <3>4. QED BY <3>1, <3>3, Parts
        <2> HIDE DEF P
        <2>5. Len(FlattenSeq(P)) = TransactionsSize(v)
            BY <2>2, <2>3, <2>4, TransactionsLength
        <2>6. Len(FlattenSeq(P)) \in Nat
            BY <2>2, FlattenType, DataType
        <2>7. QED BY <2>2, <2>5, <2>6 DEF v
    <1>11. Len(s[12]) = 4 + Len(b.FinalizedBy) * AddressSize /\ Len(b.FinalizedBy) \in Nat
        <2> DEFINE v == b.FinalizedBy
                   P == ItemPieces(F[12], v)
        <2>1. s[12] = EncodeField(F[12], v) /\ v \in Content(F[12]) /\ IsField(F[12])
            BY <1>2, <1>7, <1>8
        <2> HIDE DEF v
        <2>2. Len(s[12]) = 4 + Len(FlattenSeq(P)) /\ v \in Seq(Data) /\ P \in Seq(Data)
            BY <1>7, <2>1, FieldLength
        <2>3. v \in Seq([1 .. AddressSize -> Bytes])
            BY <1>4, <1>7, <2>1, TypesDiffer DEF Content
        <2>4. Len(P) = Len(v) /\ Len(v) \in Nat
            BY <2>2 DEF ItemPieces
        <2>5. ASSUME NEW i \in 1 .. Len(v) PROVE Len(P[i]) = AddressSize
            <3>1. P[i] = v[i] /\ v[i] \in [1 .. AddressSize -> Bytes]
                BY <1>4, <1>7, <2>3 DEF ItemPieces, EncodeItem
            <3>2. QED BY <1>4, <3>1, FixedIs
        <2> HIDE DEF P
        <2>6. \A i \in 1 .. Len(P) : Len(P[i]) = AddressSize
            BY <2>4, <2>5
        <2>7. Len(FlattenSeq(P)) = Len(P) * AddressSize
            BY <1>4, <2>2, <2>6, EqualLengths
        <2>8. QED BY <2>2, <2>4, <2>7 DEF v
    <1> DEFINE len == [i \in 0 .. 12 |-> Len(flat[i])]
    <1>12. len[0] = 0 /\ \A i \in 1 .. 12 : len[i] = len[i - 1] + Len(s[i])
        <2>1. Len(flat[0]) = 0 /\ \A i \in 1 .. 12 : Len(flat[i]) = Len(flat[i - 1]) + Len(s[i])
            <3>1. s \in Seq(Data) /\ IsFlat(flat, s)
                BY <1>1, <1>3
            <3>2. /\ Len(flat[0]) = 0
                  /\ \A i \in 1 .. Len(s) : Len(flat[i]) = Len(flat[i - 1]) + Len(s[i])
                BY <3>1, FlatLength
            <3>3. QED BY <1>1, <3>2
        <2>2. ASSUME NEW i \in 1 .. 12 PROVE len[i] = len[i - 1] + Len(s[i])
            <3>1. i \in 0 .. 12 /\ i - 1 \in 0 .. 12
                OBVIOUS
            <3>2. QED BY <2>1, <3>1
        <2>3. len[0] = 0
            BY <2>1
        <2>4. QED BY <2>2, <2>3
    <1>13. Len(E) = len[12]
        BY <1>3
    <1> HIDE DEF len
    <1> DEFINE sig == Len(b.Signature)
               txs == TransactionsSize(b.Transactions)
               fin == Len(b.FinalizedBy) * AddressSize
    <1>14. /\ len[1] = len[0] + 8 /\ len[2] = len[1] + 8 /\ len[3] = len[2] + HashSize
           /\ len[4] = len[3] + HashSize /\ len[5] = len[4] + HashSize /\ len[6] = len[5] + 4
        <2>1. /\ Len(s[1]) = 8 /\ Len(s[2]) = 8 /\ Len(s[3]) = HashSize /\ Len(s[4]) = HashSize
              /\ Len(s[5]) = HashSize /\ Len(s[6]) = 4
            BY <1>5, <1>6
        <2>2. 1 \in 1 .. 12 /\ 2 \in 1 .. 12 /\ 3 \in 1 .. 12 /\ 4 \in 1 .. 12 /\ 5 \in 1 .. 12 /\ 6 \in 1 .. 12
            OBVIOUS
        <2>3. 1 - 1 = 0 /\ 2 - 1 = 1 /\ 3 - 1 = 2 /\ 4 - 1 = 3 /\ 5 - 1 = 4 /\ 6 - 1 = 5
            OBVIOUS
        <2>4. len[1] = len[0] + 8 /\ len[2] = len[1] + 8
            BY <1>12, <2>1, <2>2, <2>3, Zenon
        <2>5. len[3] = len[2] + HashSize /\ len[4] = len[3] + HashSize
            BY <1>12, <2>1, <2>2, <2>3, Zenon
        <2>6. len[5] = len[4] + HashSize /\ len[6] = len[5] + 4
            BY <1>12, <2>1, <2>2, <2>3, Zenon
        <2>7. QED BY <2>4, <2>5, <2>6
    <1>15. /\ len[8] = len[7] + AddressSize /\ len[9] = len[8] + 8 /\ len[10] = len[9] + 4
        <2>1. Len(s[8]) = AddressSize /\ Len(s[9]) = 8 /\ Len(s[10]) = 4
            BY <1>5, <1>6
        <2>2. 8 \in 1 .. 12 /\ 9 \in 1 .. 12 /\ 10 \in 1 .. 12 /\ 8 - 1 = 7 /\ 9 - 1 = 8 /\ 10 - 1 = 9
            OBVIOUS
        <2>3. QED BY <1>12, <2>1, <2>2, Zenon
    <1>16. /\ len[7] = len[6] + (4 + sig) /\ len[11] = len[10] + (4 + txs) /\ len[12] = len[11] + (4 + fin)
        BY <1>9, <1>10, <1>11, <1>12
    <1>17. sig \in Nat /\ txs \in Nat /\ fin \in Nat
        BY <1>4, <1>9, <1>10, <1>11
    <1> DEFINE usig == Uint(sig, 4)
               count == Uint(Len(b.FinalizedBy), 4)
    <1>18. /\ BlockSize(b) = 8 + 8 + 3 * HashSize + 4 + 4 + usig + AddressSize + 8 + 4 + 4 + txs + 4 + count * AddressSize
           /\ BlockMinSize = 8 + 8 + 3 * HashSize + 4 + 4 + AddressSize + 8 + 4 + 4
        BY DEF BlockSize, BlockMinSize
    <1>19. ASSUME FormatFits(b, BlockFormat)
            PROVE  usig = sig /\ count * AddressSize = fin
        <2>1. 7 \in DOMAIN F /\ 12 \in DOMAIN F
            BY BlockFormatIs DEF F
        <2>2. FieldFits(F[7], b.Signature) /\ FieldFits(F[12], b.FinalizedBy)
            BY <1>7, <1>19, <2>1 DEF FormatFits, F
        <2>3. Len(b.Signature) \in Uints(4) /\ Len(b.FinalizedBy) \in Uints(4)
            BY <1>7, <2>2 DEF FieldFits
        <2>4. QED BY <1>9, <1>11, <2>3, UintIs
    <1>20. usig \in Nat /\ count * AddressSize \in Nat
        <2>1. usig \in Nat /\ count \in Nat
            BY <1>9, <1>11, UintIs
        <2> HIDE DEF usig, count
        <2>2. QED BY <1>4, <2>1
    <1> DEFINE ufin == count * AddressSize
    <1>21. BlockSize(b) \in Nat
        <2> HIDE DEF usig, ufin, txs
        <2>1. ufin = count * AddressSize
            BY DEF ufin
        <2>2. usig \in Nat /\ ufin \in Nat /\ BlockSize(b) = 8 + 8 + 3 * HashSize + 4 + 4 + usig + AddressSize + 8 + 4 + 4 + txs + 4 + ufin
            BY <1>18, <1>20, <2>1
        <2>3. QED BY <1>4, <1>17, <2>2
    <1> HIDE DEF sig, txs, fin, usig, count, ufin
    <1>22. len[6] = 8 + 8 + 3 * HashSize + 4
        BY <1>4, <1>12, <1>14
    <1>23. len[10] = 8 + 8 + 3 * HashSize + 4 + 4 + sig + AddressSize + 8 + 4
        BY <1>4, <1>15, <1>16, <1>17, <1>22
    <1>24. /\ len[12] = 8 + 8 + 3 * HashSize + 4 + 4 + sig + AddressSize + 8 + 4 + 4 + txs + 4 + fin
           /\ len[12] >= 8 + 8 + 3 * HashSize + 4 + 4 + AddressSize + 8 + 4 + 4
        BY <1>4, <1>16, <1>17, <1>23
    <1>25. Len(E) >= BlockMinSize
        BY <1>13, <1>18, <1>24
    <1>26. ASSUME FormatFits(b, BlockFormat) PROVE BlockSize(b) = Len(E)
        <2>1. usig = sig /\ count * AddressSize = fin
            BY <1>19, <1>26
        <2>2. QED BY <1>13, <1>18, <1>24, <2>1
    <1>27. Buffer(E, BlockSize(b)) \in Data
        BY <1>1, <1>21, BufferType
    <1>28. ASSUME FormatFits(b, BlockFormat) PROVE Buffer(E, BlockSize(b)) = E
        BY <1>1, <1>26, <1>28, BufferWhole
    <1>29. QED BY <1>1, <1>25, <1>27, <1>28 DEF E, F

-----------------------------------------------------------------------------
(* The messages of each kind *)

\* A message whose type of signature, in the field `signer', its receiver has to know.
IsKnown(e, m, signer) == e = [m EXCEPT ![signer] = KnownSigner(@)]

IsSigner(signer, format) ==
    /\ signer \in Names(format)
    /\ \A i \in 1 .. Len(format) : format[i].type = "signer" <=> format[i].name = signer

LEMMA KnownIs ==
    ASSUME NEW format, IsFormat(format), NEW m, HasFormat(m, format), NEW signer, IsSigner(signer, format),
           NEW e, IsKnown(e, m, signer)
    PROVE  IsRead(e, m, format) /\ e = [x \in Names(format) |-> e[x]]
    <1>1. m = [x \in Names(format) |-> m[x]]
        BY DEF HasFormat
    <1>2. e = [x \in Names(format) |-> e[x]] /\ e = [m EXCEPT ![signer] = KnownSigner(@)]
        BY <1>1 DEF IsKnown
    <1>3. ASSUME NEW i \in 1 .. Len(format)
          PROVE  e[format[i].name] = DecodedAs(format[i], m[format[i].name])
        <2>1. format[i].name \in Names(format)
            BY DEF Names, IsFormat
        <2>2. CASE format[i].name = signer
            BY <1>1, <1>2, <2>1, <2>2 DEF DecodedAs, IsSigner
        <2>3. CASE format[i].name # signer
            BY <1>1, <1>2, <2>1, <2>3 DEF DecodedAs, IsSigner
        <2>4. QED BY <2>2, <2>3
    <1>4. QED BY <1>2, <1>3 DEF IsRead

\* A message without such a field.
LEMMA SameIs ==
    ASSUME NEW format, IsFormat(format), NEW m, HasFormat(m, format),
           \A i \in 1 .. Len(format) : format[i].type # "signer"
    PROVE  IsRead(m, m, format) /\ m = [x \in Names(format) |-> m[x]]
    BY DEF IsRead, DecodedAs, HasFormat

\* A message is read from exactly its bytes.
LEMMA DecodeExact ==
    ASSUME NEW format, IsFormat(format), NEW m, HasFormat(m, format), FormatFits(m, format),
           NEW e, IsRead(e, m, format), e = [x \in Names(format) |-> e[x]]
    PROVE  Decode(format, Encode(format, m)) = Ok(e, <<>>)
    <1>1. Encode(format, m) \in Data
        BY EncodeIs
    <1>2. <<>> \in Data /\ Encode(format, m) \o <<>> = Encode(format, m)
        BY <1>1, DataType
    <1>3. Decode(format, Encode(format, m) \o <<>>) = Ok(e, <<>>)
        BY <1>2, DecodeWhole
    <1>4. QED BY <1>2, <1>3

\* If a part is read, all but the last field are the message's.
AllButLast(v, e, format) ==
    /\ DOMAIN v = Names(format)
    /\ \A x \in Names(format) \ {format[Len(format)].name} : v[x] = e[x]

LEMMA CutDecode ==
    ASSUME NEW format, IsFormat(format), LastDiffers(format),
           NEW m, HasFormat(m, format), FormatFits(m, format),
           NEW e, IsRead(e, m, format), NEW p \in Data, NEW c \in Data, Len(c) > 0,
           Joined(p, c, Encode(format, m)), NEW d, d = Decode(format, p), d.status = "ok"
    PROVE  format[Len(format)].how = "short" /\ AllButLast(d.value, e, format)
    <1>1. /\ format[Len(format)].how = "short" /\ d.value \in [Names(format) -> Values]
          /\ \A j \in 1 .. Len(format) - 1 : d.value[format[j].name] = e[format[j].name]
        BY DecodeCut
    <1>2. ASSUME NEW x \in Names(format) \ {format[Len(format)].name} PROVE d.value[x] = e[x]
        <2>1. PICK j \in 1 .. Len(format) : x = format[j].name
            BY DEF Names, IsFormat
        <2>2. j # Len(format) /\ Len(format) \in Nat
            BY <2>1 DEF IsFormat
        <2>3. j \in 1 .. Len(format) - 1
            BY <2>2
        <2>4. QED BY <1>1, <2>1, <2>3
    <1>3. QED BY <1>1, <1>2 DEF AllButLast

LEMMA KnownTransaction ==
    ASSUME NEW t, HasFormat(t, TransactionFormat)
    PROVE  IsRead(Known(t), t, TransactionFormat) /\ Known(t) = [x \in Names(TransactionFormat) |-> Known(t)[x]]
    <1>1. \A i \in 1 .. 10 : TransactionFormat[i].type = "signer" <=> TransactionFormat[i].name = "SignatureType"
        BY TypesDiffer DEF TransactionFormat, Field
    <1>2. "SignatureType" \in Names(TransactionFormat)
        <2>1. TransactionFormat[8].name = "SignatureType" /\ 8 \in DOMAIN TransactionFormat
            BY DEF TransactionFormat, Field
        <2>2. QED BY <2>1 DEF Names
    <1>3. IsKnown(Known(t), t, "SignatureType")
        BY DEF Known, IsKnown
    <1>4. IsSigner("SignatureType", TransactionFormat)
        BY <1>1, <1>2, TransactionFormatIs DEF IsSigner
    <1>5. QED BY <1>3, <1>4, TransactionFormatIs, KnownIs

LEMMA KnownBlock ==
    ASSUME NEW b, HasFormat(b, BlockFormat)
    PROVE  IsRead(Known(b), b, BlockFormat) /\ Known(b) = [x \in Names(BlockFormat) |-> Known(b)[x]]
    <1>1. \A i \in 1 .. 12 : BlockFormat[i].type = "signer" <=> BlockFormat[i].name = "SignatureType"
        BY TypesDiffer DEF BlockFormat, Field, List
    <1>2. "SignatureType" \in Names(BlockFormat)
        <2>1. BlockFormat[6].name = "SignatureType" /\ 6 \in DOMAIN BlockFormat
            BY DEF BlockFormat, Field
        <2>2. QED BY <2>1 DEF Names
    <1>3. IsKnown(Known(b), b, "SignatureType")
        BY DEF Known, IsKnown
    <1>4. IsSigner("SignatureType", BlockFormat)
        BY <1>1, <1>2, BlockFormatIs DEF IsSigner
    <1>5. QED BY <1>3, <1>4, BlockFormatIs, KnownIs

\* What is in the transaction is not changed on its way,
LEMMA TransactionWhole ==
    ASSUME NEW t, HasFormat(t, TransactionFormat), TransactionFits(t)
    PROVE  DeserializeTransaction(SerializeTransaction(t)) = Ok(Known(t), <<>>)
    <1> DEFINE E == Encode(TransactionFormat, t)
    <1>1. SerializeTransaction(t) = E /\ E \in Data /\ Len(E) >= TransactionMinSize
        BY TransactionWritten DEF TransactionFits
    <1>2. Decode(TransactionFormat, E) = Ok(Known(t), <<>>)
        BY TransactionFormatIs, KnownTransaction, DecodeExact DEF TransactionFits
    <1> HIDE DEF E
    <1>3. TransactionMinSize \in Nat /\ Len(E) \in Nat
        BY <1>1, SizesAssumption, DataType DEF TransactionMinSize
    <1>4. ~(Len(E) < TransactionMinSize)
        BY <1>1, <1>3
    <1>5. QED BY <1>1, <1>2, <1>4 DEF DeserializeTransaction

\* and a part of it is refused.
LEMMA TransactionCut ==
    ASSUME NEW t, HasFormat(t, TransactionFormat), TransactionFits(t),
           NEW p \in Data, NEW c \in Data, Len(c) > 0, Joined(p, c, SerializeTransaction(t))
    PROVE  DeserializeTransaction(p).status # "ok"
    <1>1. Joined(p, c, Encode(TransactionFormat, t)) /\ FormatFits(t, TransactionFormat)
        BY TransactionWritten DEF TransactionFits
    <1>2. TransactionFormat[10].how # "short"
        BY TypesDiffer DEF TransactionFormat, Field
    <1>3. Decode(TransactionFormat, p).status # "ok"
        <2> DEFINE F == TransactionFormat
        <2>1. IsFormat(F) /\ LastDiffers(F) /\ F[Len(F)].how # "short"
            BY <1>2, TransactionFormatIs
        <2>2. IsRead(Known(t), t, F)
            BY KnownTransaction
        <2> HIDE DEF F
        <2>3. HasFormat(t, F) /\ FormatFits(t, F) /\ Joined(p, c, Encode(F, t))
            BY <1>1 DEF F
        <2>4. Decode(F, p).status # "ok"
            BY <2>1, <2>2, <2>3, CutDecode
        <2>5. QED BY <2>4 DEF F
    <1>4. QED BY <1>3, OkIs, TypesDiffer DEF DeserializeTransaction

\* The same of blocks.
IsBlock(b) ==
    /\ b.Transactions \in Seq(Range(b.Transactions))
    /\ \A t \in Range(b.Transactions) : HasFormat(t, TransactionFormat)
    /\ HasFormat(Written(b), BlockFormat)

BlockFits(b) ==
    /\ \A i \in DOMAIN b.Transactions : TransactionFits(b.Transactions[i])
    /\ FormatFits(Written(b), BlockFormat)

ExpectedBlock(b) ==
    [Known(b) EXCEPT !.Transactions = [i \in DOMAIN b.Transactions |-> Known(b.Transactions[i])]]

LEMMA BlockSerialized ==
    ASSUME NEW b, IsBlock(b)
    PROVE  /\ SerializeBlock(b) \in Data
           /\ FormatFits(Written(b), BlockFormat) =>
                SerializeBlock(b) = Encode(BlockFormat, Written(b)) /\ Len(SerializeBlock(b)) >= BlockMinSize
    <1>1. HasFormat(Written(b), BlockFormat)
        BY DEF IsBlock
    <1>2. QED BY <1>1, BlockWritten DEF SerializeBlock

LEMMA BlockWhole ==
    ASSUME NEW b, IsBlock(b), BlockFits(b)
    PROVE  DeserializeBlock(SerializeBlock(b)) = Ok(ExpectedBlock(b), <<>>)
    <1> DEFINE w == Written(b)
               E == Encode(BlockFormat, w)
               T == b.Transactions
    <1>1. HasFormat(w, BlockFormat) /\ FormatFits(w, BlockFormat)
        BY DEF IsBlock, BlockFits
    <1>2. SerializeBlock(b) = E /\ E \in Data /\ Len(E) >= BlockMinSize
        BY <1>1, BlockSerialized
    <1>3. Decode(BlockFormat, E) = Ok(Known(w), <<>>)
        BY <1>1, BlockFormatIs, KnownBlock, DecodeExact
    <1>4. BlockMinSize \in Nat /\ Len(E) \in Nat
        <2> HIDE DEF E
        <2>1. BlockMinSize \in Nat
            BY SizesAssumption DEF BlockMinSize
        <2>2. Len(E) \in Nat
            BY <1>2, DataType
        <2>3. QED BY <2>1, <2>2
    <1>5. ~(Len(E) < BlockMinSize)
        <2> HIDE DEF E
        <2>1. QED BY <1>2, <1>4
    <1>6. DeserializeBlock(E) = DeserializeTransactions(Ok(Known(w), <<>>))
        BY <1>3, <1>5, OkIs DEF DeserializeBlock, Then
    <1>7. DOMAIN w = DOMAIN b /\ DOMAIN w = Names(BlockFormat)
        BY <1>1 DEF Written, HasFormat
    <1>8. "Transactions" \in DOMAIN b /\ "SignatureType" # "Transactions"
        <2>1. BlockFormat[11].name = "Transactions" /\ 11 \in DOMAIN BlockFormat
            BY DEF BlockFormat, List
        <2>2. QED BY <1>7, <2>1 DEF Names
    <1> DEFINE W == [i \in DOMAIN T |-> SerializeTransaction(T[i])]
    <1>9. w = [b EXCEPT !.Transactions = W]
        BY DEF Written
    <1>10. Known(w).Transactions = W
        BY <1>8, <1>9 DEF Known
    <1> DEFINE txs == [i \in DOMAIN W |-> DeserializeTransaction(W[i])]
               bad == {i \in DOMAIN txs : txs[i].status # "ok"}
    <1>11. \A i \in DOMAIN T : DeserializeTransaction(SerializeTransaction(T[i])) = Ok(Known(T[i]), <<>>)
        <2>1. \A i \in DOMAIN T : T[i] \in Range(T)
            BY DEF Range
        <2>2. \A i \in DOMAIN T : HasFormat(T[i], TransactionFormat) /\ TransactionFits(T[i])
            BY <2>1 DEF IsBlock, BlockFits
        <2>3. QED BY <2>2, TransactionWhole
    <1>12. txs = [i \in DOMAIN T |-> Ok(Known(T[i]), <<>>)]
        BY <1>11
    <1>13. DeserializeTransactions(Ok(Known(w), <<>>)) =
             IF bad # {} THEN [status |-> txs[CHOOSE i \in bad : TRUE].status]
             ELSE Ok([Known(w) EXCEPT !.Transactions = [i \in DOMAIN txs |-> txs[i].value]], <<>>)
        <2> DEFINE r == Ok(Known(w), <<>>)
        <2>1. r.value = Known(w) /\ r.rest = <<>>
            BY OkIs
        <2> HIDE DEF r
        <2>2. r.value.Transactions = W
            BY <1>10, <2>1
        <2> HIDE DEF W, w
        <2>3. DeserializeTransactions(r) =
                IF bad # {} THEN [status |-> txs[CHOOSE i \in bad : TRUE].status]
                ELSE Ok([r.value EXCEPT !.Transactions = [i \in DOMAIN txs |-> txs[i].value]], r.rest)
            BY <2>2 DEF DeserializeTransactions
        <2>4. QED BY <2>1, <2>3 DEF r
    <1>14. bad = {} /\ [i \in DOMAIN txs |-> txs[i].value] = [i \in DOMAIN T |-> Known(T[i])]
        <2> HIDE DEF txs, T
        <2>1. \A i \in DOMAIN T : Ok(Known(T[i]), <<>>).status = "ok" /\ Ok(Known(T[i]), <<>>).value = Known(T[i])
            BY OkIs
        <2>2. \A i \in DOMAIN T : txs[i].status = "ok" /\ txs[i].value = Known(T[i])
            BY <1>12, <2>1
        <2>3. DOMAIN txs = DOMAIN T
            BY <1>12
        <2>4. QED BY <2>2, <2>3
    <1>15. [Known(w) EXCEPT !.Transactions = [i \in DOMAIN T |-> Known(T[i])]] = ExpectedBlock(b)
        BY <1>8, <1>9 DEF Known, ExpectedBlock
    <1>16. DeserializeBlock(E) = Ok(ExpectedBlock(b), <<>>)
        <2> HIDE DEF txs, bad, T, w, E
        <2>1. QED BY <1>6, <1>13, <1>14, <1>15
    <1>17. QED BY <1>2, <1>16

LEMMA BlockCut ==
    ASSUME NEW b, IsBlock(b), BlockFits(b),
           NEW p \in Data, NEW c \in Data, Len(c) > 0, Joined(p, c, SerializeBlock(b))
    PROVE  DeserializeBlock(p).status # "ok"
    <1>1. Joined(p, c, Encode(BlockFormat, Written(b)))
        BY BlockSerialized DEF BlockFits
    <1>2. BlockFormat[12].how # "short"
        BY TypesDiffer DEF BlockFormat, List
    <1>3. HasFormat(Written(b), BlockFormat) /\ FormatFits(Written(b), BlockFormat)
        BY DEF IsBlock, BlockFits
    <1>4. Decode(BlockFormat, p).status # "ok"
        <2> DEFINE F == BlockFormat
                   w == Written(b)
        <2>1. IsFormat(F) /\ LastDiffers(F) /\ F[Len(F)].how # "short"
            BY <1>2, BlockFormatIs
        <2>2. IsRead(Known(w), w, F)
            BY <1>3, KnownBlock
        <2>3. HasFormat(w, F) /\ FormatFits(w, F) /\ Joined(p, c, Encode(F, w))
            BY <1>1, <1>3
        <2> HIDE DEF F, w
        <2>4. Decode(F, p).status # "ok"
            BY <2>1, <2>2, <2>3, CutDecode
        <2>5. QED BY <2>4 DEF F
    <1>5. QED BY <1>4, OkIs, TypesDiffer DEF DeserializeBlock, Then

\* Consensus packets: the block data that is sent,
LEMMA CarriedIs ==
    ASSUME NEW m, HasFormat(m, ConsensusFormat)
    PROVE  /\ HasFormat(Carried(m), ConsensusFormat) /\ Carried(m).Type = m.Type
           /\ m.Type = Proposal => Carried(m) = m
           /\ \A x \in Names(ConsensusFormat) : x # "BlockData" => Carried(m)[x] = m[x]
    <1> DEFINE N == Names(ConsensusFormat)
               F == ConsensusFormat
    <1>1. m = [x \in N |-> m[x]] /\ \A i \in DOMAIN F : m[F[i].name] \in Content(F[i])
        BY DEF HasFormat
    <1>2. DOMAIN F = 1 .. 7 /\ \A i \in 1 .. 7 : F[i].name = "BlockData" => i = 6 /\ F[i].type = "bytes"
        <2>1. DOMAIN F = 1 .. 7
            BY DEF ConsensusFormat
        <2>2. \A i \in 1 .. 7 : F[i].name = "BlockData" => i = 6 /\ F[i].type = "bytes"
            BY DEF ConsensusFormat, PeerID, Field
        <2>3. QED BY <2>1, <2>2
    <1>3. F[1].name = "Type" /\ F[6].name = "BlockData"
        BY DEF ConsensusFormat, PeerID, Field
    <1>4. "Type" \in N /\ "BlockData" \in N
        BY <1>2, <1>3 DEF Names
    <1>5. \A i \in DOMAIN F : F[i].name \in N
        BY DEF Names
    <1> HIDE DEF F, N
    <1>6. CASE m.Type = Proposal
        BY <1>6 DEF Carried
    <1>7. CASE m.Type # Proposal
        <2> DEFINE p == [m EXCEPT !.BlockData = <<>>]
        <2>1. Carried(m) = p
            BY <1>7 DEF Carried
        <2>2. p = [x \in N |-> IF x = "BlockData" THEN <<>> ELSE m[x]]
            BY <1>1
        <2> HIDE DEF p
        <2>3. p = [x \in N |-> p[x]]
            BY <2>2
        <2>4. ASSUME NEW i \in DOMAIN F PROVE p[F[i].name] \in Content(F[i])
            <3>1. CASE F[i].name = "BlockData"
                <4>1. Content(F[i]) = Data /\ p[F[i].name] = <<>>
                    BY <1>2, <1>5, <2>2, <3>1, ByteStrings
                <4>2. QED BY <4>1 DEF Data
            <3>2. CASE F[i].name # "BlockData"
                BY <1>1, <1>5, <2>2, <3>2
            <3>3. QED BY <3>1, <3>2
        <2>5. HasFormat(p, ConsensusFormat)
            BY <2>3, <2>4 DEF HasFormat, F, N
        <2>6. p.Type = m.Type /\ \A x \in N : x # "BlockData" => p[x] = m[x]
            BY <1>4, <2>2
        <2>7. QED BY <1>7, <2>1, <2>5, <2>6 DEF N
    <1>8. QED BY <1>6, <1>7

ExpectedPacket(m) == [Carried(m) EXCEPT !.Signer = KnownSigner(@)]

LEMMA ConsensusNames ==
    /\ {"Type", "Signer", "ProposerID", "ValidatorID", "BlockHash", "BlockData"}
          \subseteq Names(ConsensusFormat) \ {"Signature"}
    /\ ConsensusFormat[7].name = "Signature"
    /\ IsSigner("Signer", ConsensusFormat)
    <1> DEFINE F == ConsensusFormat
    <1>1. DOMAIN F = 1 .. 7
        BY DEF ConsensusFormat
    <1>2. /\ F[1].name = "Type" /\ F[2].name = "Signer" /\ F[3].name = "ProposerID"
          /\ F[4].name = "ValidatorID" /\ F[5].name = "BlockHash" /\ F[6].name = "BlockData"
          /\ F[7].name = "Signature"
        BY DEF ConsensusFormat, PeerID, Field
    <1>3. \A i \in 1 .. 7 : F[i].type = "signer" <=> F[i].name = "Signer"
        BY TypesDiffer DEF ConsensusFormat, PeerID, Field
    <1> HIDE DEF F
    <1>4. {"Type", "Signer", "ProposerID", "ValidatorID", "BlockHash", "BlockData"} \subseteq Names(ConsensusFormat)
        BY <1>1, <1>2 DEF Names, F
    <1>5. IsSigner("Signer", ConsensusFormat)
        BY <1>3, <1>4, ConsensusFormatIs DEF IsSigner, F
    <1>6. QED BY <1>2, <1>4, <1>5 DEF F

LEMMA KnownPacket ==
    ASSUME NEW m, HasFormat(m, ConsensusFormat)
    PROVE  /\ IsRead(ExpectedPacket(m), Carried(m), ConsensusFormat)
           /\ ExpectedPacket(m) = [x \in Names(ConsensusFormat) |-> ExpectedPacket(m)[x]]
           /\ \A x \in Names(ConsensusFormat) : x # "Signer" => ExpectedPacket(m)[x] = Carried(m)[x]
           /\ Carried(ExpectedPacket(m)) = ExpectedPacket(m)
    <1> DEFINE N == Names(ConsensusFormat)
               e == ExpectedPacket(m)
               p == Carried(m)
    <1>1. HasFormat(p, ConsensusFormat) /\ p.Type = m.Type
        BY CarriedIs
    <1>2. IsKnown(e, p, "Signer")
        BY DEF IsKnown, ExpectedPacket
    <1>3. IsRead(e, p, ConsensusFormat) /\ e = [x \in N |-> e[x]]
        <2> HIDE DEF e, p
        <2>1. QED BY <1>1, <1>2, ConsensusFormatIs, ConsensusNames, KnownIs
    <1>4. p = [x \in N |-> p[x]]
        BY <1>1 DEF HasFormat
    <1>5. \A x \in N : x # "Signer" => e[x] = p[x]
        <2> HIDE DEF e, p
        <2>1. QED BY <1>2, <1>4 DEF IsKnown
    <1>6. "Type" \in N /\ "BlockData" \in N /\ "Signer" \in N
        BY ConsensusNames
    <1>7. e.Type = m.Type /\ e.BlockData = p.BlockData
        BY <1>1, <1>5, <1>6
    <1>8. Carried(e) = e
        <2>1. CASE m.Type = Proposal
            BY <1>7, <2>1 DEF Carried
        <2>2. CASE m.Type # Proposal
            <3>1. p = [m EXCEPT !.BlockData = <<>>]
                BY <2>2 DEF Carried
            <3>2. m = [x \in N |-> m[x]]
                BY DEF HasFormat
            <3> HIDE DEF p, e, N
            <3>3. p.BlockData = <<>>
                BY <1>6, <3>1, <3>2
            <3>4. Carried(e) = [e EXCEPT !.BlockData = <<>>]
                BY <1>7, <2>2 DEF Carried
            <3>5. QED BY <1>3, <1>7, <3>3, <3>4
        <2>3. QED BY <2>1, <2>2
    <1>9. QED BY <1>3, <1>5, <1>8

\* the packet as it arrives,
LEMMA ConsensusWhole ==
    ASSUME NEW m, HasFormat(m, ConsensusFormat), FormatFits(Carried(m), ConsensusFormat)
    PROVE  DeserializeConsensusPacket(SerializeConsensusPacket(m)) = Ok(ExpectedPacket(m), <<>>)
    <1> DEFINE d == Decode(ConsensusFormat, SerializeConsensusPacket(m))
    <1>1. d = Ok(ExpectedPacket(m), <<>>)
        BY ConsensusFormatIs, CarriedIs, KnownPacket, DecodeExact DEF SerializeConsensusPacket
    <1>2. d.status = "ok" /\ d.value = ExpectedPacket(m) /\ d.rest = <<>>
        BY <1>1, OkIs
    <1>3. DeserializeConsensusPacket(SerializeConsensusPacket(m)) = Ok(Carried(d.value), d.rest)
        BY <1>2 DEF DeserializeConsensusPacket, Then
    <1>4. QED BY <1>2, <1>3, KnownPacket

\* and as it arrives cut.
LEMMA ConsensusCut ==
    ASSUME NEW m, HasFormat(m, ConsensusFormat), FormatFits(Carried(m), ConsensusFormat),
           NEW p \in Data, NEW c \in Data, Len(c) > 0, Joined(p, c, SerializeConsensusPacket(m)),
           NEW r, r = DeserializeConsensusPacket(p), r.status = "ok"
    PROVE  AllButLast(r.value, ExpectedPacket(m), ConsensusFormat)
    <1> DEFINE d == Decode(ConsensusFormat, p)
               e == ExpectedPacket(m)
               N == Names(ConsensusFormat)
    <1>1. d.status = "ok" /\ r = Ok(Carried(d.value), d.rest)
        <2>1. r = IF d.status = "ok" THEN Ok(Carried(d.value), d.rest) ELSE d
            BY DEF DeserializeConsensusPacket, Then
        <2>2. QED BY <2>1
    <1>2. r.value = Carried(d.value)
        BY <1>1, OkIs
    <1>3. AllButLast(d.value, e, ConsensusFormat)
        BY <1>1, ConsensusFormatIs, CarriedIs, KnownPacket, CutDecode DEF SerializeConsensusPacket
    <1>4. DOMAIN d.value = N /\ \A x \in N \ {"Signature"} : d.value[x] = e[x]
        BY <1>3, ConsensusFormatIs, ConsensusNames DEF AllButLast
    <1>5. "Type" \in N \ {"Signature"} /\ "BlockData" \in N \ {"Signature"}
        BY ConsensusNames
    <1>6. d.value.Type = e.Type
        BY <1>4, <1>5
    <1>7. Carried(e) = e /\ e = [x \in N |-> e[x]]
        BY KnownPacket
    <1> HIDE DEF e, d, N
    <1>8. CASE e.Type = Proposal
        <2>1. Carried(d.value) = d.value
            BY <1>6, <1>8 DEF Carried
        <2>2. QED BY <1>2, <1>3, <2>1 DEF e
    <1>9. CASE e.Type # Proposal
        <2>1. e = [e EXCEPT !.BlockData = <<>>] /\ Carried(d.value) = [d.value EXCEPT !.BlockData = <<>>]
            BY <1>6, <1>7, <1>9 DEF Carried
        <2>2. e.BlockData = <<>>
            BY <1>5, <1>7, <2>1
        <2>3. r.value = [x \in N |-> IF x = "BlockData" THEN <<>> ELSE d.value[x]]
            BY <1>2, <1>4, <2>1
        <2>4. DOMAIN r.value = N /\ \A x \in N \ {"Signature"} : r.value[x] = e[x]
            BY <1>4, <2>2, <2>3
        <2>5. ConsensusFormat[Len(ConsensusFormat)].name = "Signature"
            BY ConsensusFormatIs, ConsensusNames
        <2>6. QED BY <2>4, <2>5 DEF AllButLast, N, e
    <1>10. QED BY <1>8, <1>9

-----------------------------------------------------------------------------
(* All kinds *)

LEMMA MessageIs ==
    ASSUME NEW m
    PROVE  /\ IsMessage("transaction", m) <=> HasFormat(m, TransactionFormat)
           /\ IsMessage("block", m) <=> IsBlock(m)
           /\ IsMessage("consensus", m) <=> HasFormat(m, ConsensusFormat)
           /\ IsMessage("network", m) <=> HasFormat(m, NetworkFormat)
           /\ IsMessage("route", m) <=> HasFormat(m, RouteFormat)
           /\ IsMessage("topology", m) <=> HasFormat(m, TopologyFormat)
    BY KindsDiffer DEF IsMessage, IsBlock

LEMMA FitsIs ==
    ASSUME NEW m
    PROVE  /\ Fits("transaction", m) <=> TransactionFits(m)
           /\ Fits("block", m) <=> BlockFits(m)
           /\ Fits("consensus", m) <=> FormatFits(Carried(m), ConsensusFormat)
           /\ Fits("network", m) <=> FormatFits(m, NetworkFormat)
           /\ Fits("route", m) <=> FormatFits(m, RouteFormat)
           /\ Fits("topology", m) <=> FormatFits(m, TopologyFormat)
    BY KindsDiffer DEF Fits, BlockFits

LEMMA ExpectedIs ==
    ASSUME NEW m
    PROVE  /\ Expected("transaction", m) = Known(m)
           /\ Expected("block", m) = ExpectedBlock(m)
           /\ Expected("consensus", m) = ExpectedPacket(m)
           /\ Expected("network", m) = m /\ Expected("route", m) = m /\ Expected("topology", m) = m
    BY KindsDiffer DEF Expected, ExpectedBlock, ExpectedPacket

LEMMA SerializeIs ==
    ASSUME NEW m
    PROVE  /\ Serialize("transaction", m) = SerializeTransaction(m)
           /\ Serialize("block", m) = SerializeBlock(m)
           /\ Serialize("consensus", m) = SerializeConsensusPacket(m)
           /\ Serialize("network", m) = Encode(NetworkFormat, m)
           /\ Serialize("route", m) = Encode(RouteFormat, m)
           /\ Serialize("topology", m) = Encode(TopologyFormat, m)
    BY KindsDiffer DEF Serialize, SerializeNetworkPacket, SerializeRoutePacket, SerializeTopologyMessage

LEMMA DeserializeIs ==
    ASSUME NEW a
    PROVE  /\ Deserialize("transaction", a) = DeserializeTransaction(a)
           /\ Deserialize("block", a) = DeserializeBlock(a)
           /\ Deserialize("consensus", a) = DeserializeConsensusPacket(a)
           /\ Deserialize("network", a) = Decode(NetworkFormat, a)
           /\ Deserialize("route", a) =
                Then(Decode(RouteFormat, a), LAMBDA r : IF r.rest # <<>> THEN Error ELSE r)
           /\ Deserialize("topology", a) = Decode(TopologyFormat, a)
    BY KindsDiffer DEF Deserialize, DeserializeNetworkPacket, DeserializeRoutePacket, DeserializeTopologyMessage

\* Messages are written as bytes.
LEMMA SerializeType ==
    ASSUME NEW k \in Kinds, NEW m, IsMessage(k, m)
    PROVE  Serialize(k, m) \in Data
    <1>1. CASE k = "transaction"
        BY <1>1, MessageIs, SerializeIs, TransactionWritten
    <1>2. CASE k = "block"
        BY <1>2, MessageIs, SerializeIs, BlockSerialized
    <1>3. CASE k = "consensus"
        <2>1. HasFormat(Carried(m), ConsensusFormat)
            BY <1>3, MessageIs, CarriedIs
        <2>2. QED BY <1>3, <2>1, SerializeIs, ConsensusFormatIs, EncodeIs DEF SerializeConsensusPacket
    <1>4. CASE k = "network"
        BY <1>4, MessageIs, SerializeIs, NetworkFormatIs, EncodeIs
    <1>5. CASE k = "route"
        BY <1>5, MessageIs, SerializeIs, RouteFormatIs, EncodeIs
    <1>6. CASE k = "topology"
        BY <1>6, MessageIs, SerializeIs, TopologyFormatIs, EncodeIs
    <1>7. QED BY <1>1, <1>2, <1>3, <1>4, <1>5, <1>6 DEF Kinds

\* Whatever message is written, all of it is read back.
THEOREM MessageRoundTrip ==
    \A k \in Kinds : \A m : IsMessage(k, m) /\ Fits(k, m)
        => Deserialize(k, Serialize(k, m)) = Ok(Expected(k, m), <<>>)
    <1> SUFFICES ASSUME NEW k \in Kinds, NEW m, IsMessage(k, m), Fits(k, m)
                 PROVE  Deserialize(k, Serialize(k, m)) = Ok(Expected(k, m), <<>>)
        OBVIOUS
    <1>1. CASE k = "transaction"
        <2>1. HasFormat(m, TransactionFormat) /\ TransactionFits(m)
            BY <1>1, MessageIs, FitsIs
        <2>2. DeserializeTransaction(SerializeTransaction(m)) = Ok(Known(m), <<>>)
            BY <2>1, TransactionWhole
        <2>3. QED BY <1>1, <2>2, SerializeIs, DeserializeIs, ExpectedIs
    <1>2. CASE k = "block"
        <2>1. IsBlock(m) /\ BlockFits(m)
            BY <1>2, MessageIs, FitsIs
        <2>2. DeserializeBlock(SerializeBlock(m)) = Ok(ExpectedBlock(m), <<>>)
            BY <2>1, BlockWhole
        <2>3. QED BY <1>2, <2>2, SerializeIs, DeserializeIs, ExpectedIs
    <1>3. CASE k = "consensus"
        <2>1. HasFormat(m, ConsensusFormat) /\ FormatFits(Carried(m), ConsensusFormat)
            BY <1>3, MessageIs, FitsIs
        <2>2. DeserializeConsensusPacket(SerializeConsensusPacket(m)) = Ok(ExpectedPacket(m), <<>>)
            BY <2>1, ConsensusWhole
        <2>3. QED BY <1>3, <2>2, SerializeIs, DeserializeIs, ExpectedIs
    <1>4. CASE k = "network"
        <2>1. \A i \in 1 .. 5 : NetworkFormat[i].type # "signer"
            BY TypesDiffer DEF NetworkFormat, PeerID, Field
        <2>2. HasFormat(m, NetworkFormat) /\ FormatFits(m, NetworkFormat)
            BY <1>4, MessageIs, FitsIs
        <2>3. IsRead(m, m, NetworkFormat) /\ m = [x \in Names(NetworkFormat) |-> m[x]]
            BY <2>1, <2>2, NetworkFormatIs, SameIs
        <2>4. Decode(NetworkFormat, Encode(NetworkFormat, m)) = Ok(m, <<>>)
            BY <2>2, <2>3, NetworkFormatIs, DecodeExact
        <2>5. QED BY <1>4, <2>4, SerializeIs, DeserializeIs, ExpectedIs
    <1>5. CASE k = "route"
        <2>1. \A i \in 1 .. 3 : RouteFormat[i].type # "signer"
            BY TypesDiffer DEF RouteFormat, Field
        <2>2. HasFormat(m, RouteFormat) /\ FormatFits(m, RouteFormat)
            BY <1>5, MessageIs, FitsIs
        <2>3. IsRead(m, m, RouteFormat) /\ m = [x \in Names(RouteFormat) |-> m[x]]
            BY <2>1, <2>2, RouteFormatIs, SameIs
        <2>4. Decode(RouteFormat, Encode(RouteFormat, m)) = Ok(m, <<>>)
            BY <2>2, <2>3, RouteFormatIs, DecodeExact
        <2>5. Deserialize("route", Encode(RouteFormat, m)) = Ok(m, <<>>)
            BY <2>4, DeserializeIs, OkIs DEF Then
        <2>6. QED BY <1>5, <2>5, SerializeIs, ExpectedIs
    <1>6. CASE k = "topology"
        <2>1. \A i \in 1 .. 4 : TopologyFormat[i].type # "signer"
            BY TypesDiffer DEF TopologyFormat, List, Field
        <2>2. HasFormat(m, TopologyFormat) /\ FormatFits(m, TopologyFormat)
            BY <1>6, MessageIs, FitsIs
        <2>3. IsRead(m, m, TopologyFormat) /\ m = [x \in Names(TopologyFormat) |-> m[x]]
            BY <2>1, <2>2, TopologyFormatIs, SameIs
        <2>4. Decode(TopologyFormat, Encode(TopologyFormat, m)) = Ok(m, <<>>)
            BY <2>2, <2>3, TopologyFormatIs, DecodeExact
        <2>5. QED BY <1>6, <2>4, SerializeIs, DeserializeIs, ExpectedIs
    <1>7. QED BY <1>1, <1>2, <1>3, <1>4, <1>5, <1>6 DEF Kinds

\* What the receiver of a part of a message may have been told.
Noticed(k, m, r) ==
    r.status = "ok" =>
        /\ MayBeShort(k) # {}
        /\ \A name \in DOMAIN r.value \ MayBeShort(k) : r.value[name] = Expected(k, m)[name]

LEMMA NoticedIs ==
    ASSUME NEW k, NEW m, NEW r, NEW format, NEW last, MayBeShort(k) = {last},
           format[Len(format)].name = last,
           r.status = "ok" => AllButLast(r.value, Expected(k, m), format)
    PROVE  Noticed(k, m, r)
    BY DEF Noticed, AllButLast

LEMMA MayBeShortIs ==
    /\ MayBeShort("consensus") = {"Signature"} /\ MayBeShort("network") = {"Signature"}
    /\ MayBeShort("topology") = {"Addresses"}
    BY KindsDiffer DEF MayBeShort

\* Wherever a message is cut, the part is refused, or what is missing belongs to
\* its last field.
THEOREM CutMessageNoticed ==
    \A k \in Kinds : \A m : IsMessage(k, m) /\ Fits(k, m) =>
        \A p, c \in Data : Joined(p, c, Serialize(k, m)) /\ Len(c) > 0 => Noticed(k, m, Deserialize(k, p))
    <1> SUFFICES ASSUME NEW k \in Kinds, NEW m, IsMessage(k, m), Fits(k, m),
                        NEW p \in Data, NEW c \in Data, Joined(p, c, Serialize(k, m)), Len(c) > 0
                 PROVE  Noticed(k, m, Deserialize(k, p))
        OBVIOUS
    <1>1. CASE k = "transaction"
        <2>1. HasFormat(m, TransactionFormat) /\ TransactionFits(m) /\ Joined(p, c, SerializeTransaction(m))
            BY <1>1, MessageIs, FitsIs, SerializeIs
        <2>2. DeserializeTransaction(p).status # "ok"
            BY <2>1, TransactionCut
        <2>3. QED BY <1>1, <2>2, DeserializeIs DEF Noticed
    <1>2. CASE k = "block"
        <2>1. IsBlock(m) /\ BlockFits(m) /\ Joined(p, c, SerializeBlock(m))
            BY <1>2, MessageIs, FitsIs, SerializeIs
        <2>2. DeserializeBlock(p).status # "ok"
            BY <2>1, BlockCut
        <2>3. QED BY <1>2, <2>2, DeserializeIs DEF Noticed
    <1>3. CASE k = "consensus"
        <2> DEFINE r == DeserializeConsensusPacket(p)
        <2>1. /\ HasFormat(m, ConsensusFormat) /\ FormatFits(Carried(m), ConsensusFormat)
              /\ Joined(p, c, SerializeConsensusPacket(m))
            BY <1>3, MessageIs, FitsIs, SerializeIs
        <2>2. r.status = "ok" => AllButLast(r.value, ExpectedPacket(m), ConsensusFormat)
            BY <2>1, ConsensusCut
        <2>3. ConsensusFormat[Len(ConsensusFormat)].name = "Signature" /\ MayBeShort("consensus") = {"Signature"}
            BY ConsensusFormatIs, ConsensusNames, MayBeShortIs
        <2>4. r.status = "ok" => AllButLast(r.value, Expected("consensus", m), ConsensusFormat)
            BY <2>2, ExpectedIs
        <2> HIDE DEF r
        <2>5. Noticed("consensus", m, r)
            BY <2>3, <2>4, NoticedIs
        <2>6. QED BY <1>3, <2>5, DeserializeIs DEF r
    <1>4. CASE k = "network"
        <2> DEFINE r == Decode(NetworkFormat, p)
        <2>1. HasFormat(m, NetworkFormat) /\ FormatFits(m, NetworkFormat) /\ Joined(p, c, Encode(NetworkFormat, m))
            BY <1>4, MessageIs, FitsIs, SerializeIs
        <2>2. \A i \in 1 .. 5 : NetworkFormat[i].type # "signer"
            BY TypesDiffer DEF NetworkFormat, PeerID, Field
        <2>3. IsRead(m, m, NetworkFormat)
            BY <2>1, <2>2, NetworkFormatIs, SameIs
        <2>4. r.status = "ok" => AllButLast(r.value, m, NetworkFormat)
            BY <2>1, <2>3, NetworkFormatIs, CutDecode
        <2>5. NetworkFormat[5].name = "Signature"
            BY DEF NetworkFormat, Field
        <2>6. NetworkFormat[Len(NetworkFormat)].name = "Signature" /\ MayBeShort("network") = {"Signature"}
            BY <2>5, NetworkFormatIs, MayBeShortIs
        <2>7. r.status = "ok" => AllButLast(r.value, Expected("network", m), NetworkFormat)
            BY <2>4, ExpectedIs
        <2> HIDE DEF r
        <2>8. Noticed("network", m, r)
            BY <2>6, <2>7, NoticedIs
        <2>9. QED BY <1>4, <2>8, DeserializeIs DEF r
    <1>5. CASE k = "route"
        <2>1. HasFormat(m, RouteFormat) /\ FormatFits(m, RouteFormat) /\ Joined(p, c, Encode(RouteFormat, m))
            BY <1>5, MessageIs, FitsIs, SerializeIs
        <2>2. \A i \in 1 .. 3 : RouteFormat[i].type # "signer"
            BY TypesDiffer DEF RouteFormat, Field
        <2>3. IsRead(m, m, RouteFormat)
            BY <2>1, <2>2, RouteFormatIs, SameIs
        <2>4. RouteFormat[3].how # "short"
            BY TypesDiffer DEF RouteFormat, Field
        <2>5. Decode(RouteFormat, p).status # "ok"
            BY <2>1, <2>3, <2>4, RouteFormatIs, CutDecode
        <2>6. Deserialize("route", p) = Decode(RouteFormat, p)
            BY <2>5, DeserializeIs DEF Then
        <2>7. QED BY <1>5, <2>5, <2>6 DEF Noticed
    <1>6. CASE k = "topology"
        <2> DEFINE r == Decode(TopologyFormat, p)
        <2>1. HasFormat(m, TopologyFormat) /\ FormatFits(m, TopologyFormat) /\ Joined(p, c, Encode(TopologyFormat, m))
            BY <1>6, MessageIs, FitsIs, SerializeIs
        <2>2. \A i \in 1 .. 4 : TopologyFormat[i].type # "signer"
            BY TypesDiffer DEF TopologyFormat, List, Field
        <2>3. IsRead(m, m, TopologyFormat)
            BY <2>1, <2>2, TopologyFormatIs, SameIs
        <2>4. r.status = "ok" => AllButLast(r.value, m, TopologyFormat)
            BY <2>1, <2>3, TopologyFormatIs, CutDecode
        <2>5. TopologyFormat[4].name = "Addresses"
            BY DEF TopologyFormat, List
        <2>6. TopologyFormat[Len(TopologyFormat)].name = "Addresses" /\ MayBeShort("topology") = {"Addresses"}
            BY <2>5, TopologyFormatIs, MayBeShortIs
        <2>7. r.status = "ok" => AllButLast(r.value, Expected("topology", m), TopologyFormat)
            BY <2>4, ExpectedIs
        <2> HIDE DEF r
        <2>8. Noticed("topology", m, r)
            BY <2>6, <2>7, NoticedIs
        <2>9. QED BY <1>6, <2>8, DeserializeIs DEF r
    <1>7. QED BY <1>1, <1>2, <1>3, <1>4, <1>5, <1>6 DEF Kinds

\* A packet that is accepted has the bytes and the name that were signed.
LEMMA SignedIs ==
    ASSUME NEW m, HasFormat(m, ConsensusFormat), NEW v,
           \A x \in {"Type", "ProposerID", "ValidatorID", "BlockHash", "BlockData"} : v[x] = ExpectedPacket(m)[x]
    PROVE  DataToVerify(v) = DataToVerify(m) /\ SignerOf(v) = SignerOf(m)
    <1> DEFINE N == Names(ConsensusFormat)
    <1>1. {"Type", "Signer", "ProposerID", "ValidatorID", "BlockHash", "BlockData"} \subseteq N
        BY ConsensusNames
    <1>2. \A x \in N : x # "Signer" => ExpectedPacket(m)[x] = Carried(m)[x]
        BY KnownPacket
    <1>3. /\ m.Type = Proposal => Carried(m) = m
          /\ \A x \in N : x # "BlockData" => Carried(m)[x] = m[x]
        BY CarriedIs
    <1> HIDE DEF N
    <1>4. v.Type = m.Type /\ v.ProposerID = m.ProposerID /\ v.ValidatorID = m.ValidatorID /\ v.BlockHash = m.BlockHash
        BY <1>1, <1>2, <1>3
    <1>5. m.Type = Proposal => v.BlockData = m.BlockData
        BY <1>1, <1>2, <1>3
    <1>6. QED BY <1>4, <1>5 DEF DataToVerify, SignerOf

-----------------------------------------------------------------------------
(* The machine *)

\* The bytes that are under way are those of the message, or the first of them, and
\* the result is what the decoder of that kind makes of them.
OnTheWay ==
    /\ kind \in Kinds /\ IsMessage(kind, message)
    /\ phase \in {"new", "sent", "received", "decoded"} /\ cut \in BOOLEAN
    /\ phase \in {"new", "sent"} => ~cut
    /\ phase # "new" /\ ~cut => wire = Serialize(kind, message)
    /\ cut => \E n \in 1 .. Len(Serialize(kind, message)) - 1 : wire = SubSeq(Serialize(kind, message), 1, n)
    /\ phase # "decoded" => result = NoResult
    /\ phase = "decoded" => result = Deserialize(kind, wire)

LEMMA InitOnTheWay ==
    ASSUME Init
    PROVE  OnTheWay
    <1>1. kind \in Kinds /\ IsMessage(kind, message)
        BY SamplesAssumption DEF Init
    <1>2. QED BY <1>1 DEF Init, OnTheWay

LEMMA NextOnTheWay ==
    ASSUME OnTheWay, [Next]_vars
    PROVE  OnTheWay'
    <1>1. CASE Send
        BY <1>1 DEF OnTheWay, Send
    <1>2. CASE Deliver
        BY <1>2 DEF OnTheWay, Deliver
    <1>3. CASE HandleStream
        BY <1>3 DEF OnTheWay, HandleStream
    <1>4. CASE Receive
        BY <1>4 DEF OnTheWay, Receive
    <1>5. CASE UNCHANGED vars
        BY <1>5 DEF OnTheWay, vars
    <1>6. QED BY <1>1, <1>2, <1>3, <1>4, <1>5 DEF Next

LEMMA AlwaysOnTheWay == Spec => []OnTheWay
    <1>1. Init => OnTheWay
        BY InitOnTheWay
    <1>2. OnTheWay /\ [Next]_vars => OnTheWay'
        BY NextOnTheWay
    <1>3. QED BY <1>1, <1>2, PTL DEF Spec

\* The bytes that have not arrived.
LEMMA WireIs ==
    ASSUME OnTheWay, phase # "new"
    PROVE  /\ wire \in Data
           /\ cut => \E c \in Data : Joined(wire, c, Serialize(kind, message)) /\ Len(c) > 0
    <1> DEFINE E == Serialize(kind, message)
    <1>1. E \in Data
        BY SerializeType DEF OnTheWay
    <1>2. Len(E) \in Nat
        BY <1>1, DataType
    <1>3. CASE ~cut
        BY <1>1, <1>3 DEF OnTheWay
    <1>4. CASE cut
        <2>1. PICK n \in 1 .. Len(E) - 1 : wire = SubSeq(E, 1, n)
            BY <1>4 DEF OnTheWay
        <2> HIDE DEF E
        <2> DEFINE c == SubSeq(E, n + 1, Len(E))
        <2>2. n \in 0 .. Len(E) /\ Len(E) - n > 0
            BY <1>2
        <2>3. wire \in Data /\ c \in Data /\ Len(c) = Len(E) - n /\ wire \o c = E
            BY <1>1, <2>1, <2>2, Split
        <2> HIDE DEF c
        <2>4. Joined(wire, c, E) /\ Len(c) > 0
            BY <2>2, <2>3 DEF Joined
        <2>5. QED BY <2>3, <2>4 DEF E
    <1>5. QED BY <1>3, <1>4 DEF OnTheWay

\* Every decoder returns, whatever the message and wherever it is cut
\* (DeserializeBlock, DeserializeTransaction and their minimum sizes).
THEOREM NeverPanics == Spec => []NoPanic
    <1>1. OnTheWay => NoPanic
        <2> SUFFICES ASSUME OnTheWay PROVE NoPanic
            OBVIOUS
        <2>1. CASE phase = "decoded"
            <3>1. kind \in Kinds /\ wire \in Data /\ result = Deserialize(kind, wire)
                BY <2>1, WireIs DEF OnTheWay
            <3>2. QED BY <3>1, DecodersNeverPanic DEF NoPanic
        <2>2. CASE phase # "decoded"
            BY <2>2 DEF OnTheWay, NoPanic, NoResult
        <2>3. QED BY <2>1, <2>2
    <1>2. QED BY <1>1, AlwaysOnTheWay, PTL

\* A message that arrives whole is accepted and is the one that was sent, for all
\* messages whose lengths fit into their fields (the Serialize and Deserialize
\* functions of all six kinds).
THEOREM RoundTrips == Spec => []RoundTrip
    <1>1. OnTheWay => RoundTrip
        <2> SUFFICES ASSUME OnTheWay, Decoded, ~cut, Fits(kind, message)
                     PROVE  Accepted /\ result.value = Expected(kind, message)
            BY DEF RoundTrip
        <2>1. /\ kind \in Kinds /\ IsMessage(kind, message)
              /\ result = Deserialize(kind, Serialize(kind, message))
            BY DEF OnTheWay, Decoded
        <2>2. result = Ok(Expected(kind, message), <<>>)
            BY <2>1, MessageRoundTrip
        <2>3. QED BY <2>2, OkIs DEF Accepted
    <1>2. QED BY <1>1, AlwaysOnTheWay, PTL

\* A message that arrives cut is refused, or what is missing are bytes of its last
\* field, wherever it is cut.
THEOREM CutsAreNoticed == Spec => []CutIsNoticed
    <1>1. OnTheWay => CutIsNoticed
        <2> SUFFICES ASSUME OnTheWay, Accepted, cut, Fits(kind, message)
                     PROVE  /\ MayBeShort(kind) # {}
                            /\ \A name \in DOMAIN result.value \ MayBeShort(kind) :
                                 result.value[name] = Expected(kind, message)[name]
            BY DEF CutIsNoticed
        <2>1. /\ kind \in Kinds /\ IsMessage(kind, message) /\ phase # "new"
              /\ result = Deserialize(kind, wire) /\ result.status = "ok"
            BY DEF OnTheWay, Accepted, Decoded
        <2>2. PICK c \in Data : Joined(wire, c, Serialize(kind, message)) /\ Len(c) > 0
            BY <2>1, WireIs
        <2>3. Noticed(kind, message, result)
            BY <2>1, <2>2, WireIs, CutMessageNoticed
        <2>4. QED BY <2>1, <2>3 DEF Noticed
    <1>2. QED BY <1>1, AlwaysOnTheWay, PTL

\* The receiver of a consensus packet checks the signature against the bytes its
\* sender has signed and in its sender's name, cut or not (verifySignature).
THEOREM SignedBytesAlwaysSurvive == Spec => []SignedBytesSurvive
    <1>1. OnTheWay => SignedBytesSurvive
        <2> SUFFICES ASSUME OnTheWay, Accepted, kind = "consensus", Fits(kind, message)
                     PROVE  /\ DataToVerify(result.value) = DataToVerify(message)
                            /\ SignerOf(result.value) = SignerOf(message)
            BY DEF SignedBytesSurvive
        <2>1. /\ IsMessage("consensus", message) /\ Fits("consensus", message) /\ "consensus" \in Kinds
              /\ phase # "new" /\ result = Deserialize("consensus", wire) /\ result.status = "ok"
            BY DEF OnTheWay, Accepted, Decoded
        <2>2. HasFormat(message, ConsensusFormat) /\ Expected("consensus", message) = ExpectedPacket(message)
            BY <2>1, MessageIs, ExpectedIs
        <2>3. {"Type", "ProposerID", "ValidatorID", "BlockHash", "BlockData"} \subseteq Names(ConsensusFormat) \ {"Signature"}
            BY ConsensusNames
        <2>4. CASE ~cut
            <3>1. result = Deserialize("consensus", Serialize("consensus", message))
                BY <2>1, <2>4 DEF OnTheWay
            <3>2. result = Ok(ExpectedPacket(message), <<>>)
                BY <2>1, <2>2, <3>1, MessageRoundTrip
            <3>3. result.value = ExpectedPacket(message)
                BY <3>2, OkIs
            <3>4. QED BY <2>2, <3>3, SignedIs
        <2>5. CASE cut
            <3>1. PICK c \in Data : Joined(wire, c, Serialize("consensus", message)) /\ Len(c) > 0
                BY <2>1, <2>5, WireIs
            <3>2. /\ HasFormat(message, ConsensusFormat) /\ FormatFits(Carried(message), ConsensusFormat)
                  /\ Joined(wire, c, SerializeConsensusPacket(message))
                  /\ result = DeserializeConsensusPacket(wire) /\ wire \in Data
                BY <2>1, <2>2, <3>1, FitsIs, SerializeIs, DeserializeIs, WireIs
            <3>3. AllButLast(result.value, ExpectedPacket(message), ConsensusFormat)
                BY <2>1, <3>1, <3>2, ConsensusCut
            <3>4. ConsensusFormat[Len(ConsensusFormat)].name = "Signature"
                BY ConsensusFormatIs, ConsensusNames
            <3>5. \A x \in {"Type", "ProposerID", "ValidatorID", "BlockHash", "BlockData"} :
                    result.value[x] = ExpectedPacket(message)[x]
                BY <2>3, <3>3, <3>4 DEF AllButLast
            <3>6. QED BY <2>2, <3>5, SignedIs
        <2>6. QED BY <2>4, <2>5
    <1>2. QED BY <1>1, AlwaysOnTheWay, PTL

-----------------------------------------------------------------------------
(* The Merkle root *)

HasHashes(h, n) == n \in Nat /\ Len(h) = n /\ h = [i \in 1 .. n |-> h[i]]

LevelAbove(h) == IF Len(h) > 1 THEN NextLevel(h) ELSE h

\* u are the levels of the tree over h, the last one repeated at the end.
AreLevels(u, h, n) ==
    /\ DOMAIN u = 0 .. n /\ u[0] = h
    /\ \A i \in 1 .. n : u[i] = LevelAbove(u[i - 1])

LEMMA FunctionHasHashes ==
    ASSUME NEW n \in Nat, NEW h, h = [i \in 1 .. n |-> h[i]]
    PROVE  HasHashes(h, n)
    <1>1. h \in Seq({h[i] : i \in 1 .. n})
        OBVIOUS
    <1>2. DOMAIN h = 1 .. n
        OBVIOUS
    <1>3. Len(h) = n
        BY <1>1, <1>2
    <1>4. QED BY <1>3 DEF HasHashes

LEMMA Halves ==
    /\ \A n \in Nat : (n + 1) \div 2 \in Nat
    /\ \A n \in Nat : n > 1 => (n + 1) \div 2 < n /\ (n + 1) \div 2 > 0
    OBVIOUS

\* The place of a hash in the level above.
LEMMA Parents ==
    ASSUME NEW n \in Nat, NEW j \in 1 .. n
    PROVE  LET i == (j + 1) \div 2
           IN /\ i \in 1 .. (n + 1) \div 2
              /\ j = 2 * i \/ j = 2 * i - 1
              /\ ~(2 * i <= n) => j = 2 * i - 1
    OBVIOUS

LEMMA LevelAboveIs ==
    ASSUME NEW n \in Nat, NEW h, HasHashes(h, n), n > 0
    PROVE  HasHashes(LevelAbove(h), IF n > 1 THEN (n + 1) \div 2 ELSE n)
    <1>1. CASE n > 1
        <2> DEFINE k == (n + 1) \div 2
        <2>1. k \in Nat /\ Len(h) = n
            BY Halves DEF HasHashes
        <2>2. LevelAbove(h) = NextLevel(h)
            BY <1>1, <2>1 DEF LevelAbove
        <2>3. NextLevel(h) = [i \in 1 .. k |-> NextLevel(h)[i]]
            BY <2>1 DEF NextLevel
        <2> HIDE DEF k
        <2>4. HasHashes(NextLevel(h), k)
            BY <2>1, <2>3, FunctionHasHashes
        <2>5. QED BY <1>1, <2>2, <2>4 DEF k
    <1>2. CASE ~(n > 1)
        <2>1. LevelAbove(h) = h
            BY <1>2 DEF LevelAbove, HasHashes
        <2>2. QED BY <1>2, <2>1
    <1>3. QED BY <1>1, <1>2

\* A level of known length is told apart by the level above.
LEMMA LevelBelow ==
    ASSUME NEW n \in Nat, NEW x, NEW y, HasHashes(x, n), HasHashes(y, n), LevelAbove(x) = LevelAbove(y)
    PROVE  x = y
    <1>1. CASE n > 1
        <2>1. Len(x) = n /\ Len(y) = n /\ x = [j \in 1 .. n |-> x[j]] /\ y = [j \in 1 .. n |-> y[j]]
            BY DEF HasHashes
        <2>2. NextLevel(x) = NextLevel(y)
            BY <1>1, <2>1 DEF LevelAbove
        <2>3. ASSUME NEW j \in 1 .. n PROVE x[j] = y[j]
            <3> DEFINE i == (j + 1) \div 2
                       k == (n + 1) \div 2
            <3>1. i \in 1 .. k /\ (j = 2 * i \/ j = 2 * i - 1) /\ (~(2 * i <= n) => j = 2 * i - 1)
                BY Parents
            <3>2. NextLevel(x)[i] = IF 2 * i <= n THEN HashPair(x[2 * i - 1], x[2 * i]) ELSE x[2 * i - 1]
                BY <2>1, <3>1 DEF NextLevel
            <3>3. NextLevel(y)[i] = IF 2 * i <= n THEN HashPair(y[2 * i - 1], y[2 * i]) ELSE y[2 * i - 1]
                BY <2>1, <3>1 DEF NextLevel
            <3> HIDE DEF i, k
            <3>4. CASE 2 * i <= n
                <4>1. HashPair(x[2 * i - 1], x[2 * i]) = HashPair(y[2 * i - 1], y[2 * i])
                    BY <2>2, <3>2, <3>3, <3>4
                <4>2. x[2 * i - 1] = y[2 * i - 1] /\ x[2 * i] = y[2 * i]
                    BY <4>1 DEF HashPair
                <4>3. QED BY <3>1, <4>2
            <3>5. CASE ~(2 * i <= n)
                BY <2>2, <3>1, <3>2, <3>3, <3>5
            <3>6. QED BY <3>4, <3>5
        <2>4. [j \in 1 .. n |-> x[j]] = [j \in 1 .. n |-> y[j]]
            BY <2>3
        <2>5. QED BY <2>1, <2>4
    <1>2. CASE ~(n > 1)
        BY <1>2 DEF LevelAbove, HasHashes
    <1>3. QED BY <1>1, <1>2

\* The levels exist, and the root is the last one's only hash.
LEMMA RootIs ==
    ASSUME NEW n \in Nat, NEW hashes, Len(hashes) = n
    PROVE  \E u : AreLevels(u, hashes, n) /\ ComputeMerkleRoot(hashes) = u[n][1]
    <1> DEFINE x == hashes
               S == {i \in 0 .. n : \E u : AreLevels(u, x, i)}
               body(h) == [i \in 0 .. n |-> IF i = 0 THEN x ELSE LevelAbove(h[i - 1])]
               level == CHOOSE h : h = body(h)
    <1>1. ComputeMerkleRoot(hashes) = level[n][1]
        BY DEF ComputeMerkleRoot, LevelAbove
    <1> HIDE DEF x
    <1>2. 0 \in S
        <2>1. AreLevels([i \in 0 .. 0 |-> x], x, 0)
            BY DEF AreLevels
        <2>2. QED BY <2>1
    <1>3. ASSUME NEW i \in 1 .. n, i - 1 \in S PROVE i \in S
        <2>1. PICK u : AreLevels(u, x, i - 1)
            BY <1>3
        <2> DEFINE w == [j \in 0 .. i |-> IF j < i THEN u[j] ELSE LevelAbove(u[i - 1])]
        <2>2. DOMAIN w = 0 .. i /\ \A j \in 0 .. i : w[j] = IF j < i THEN u[j] ELSE LevelAbove(u[i - 1])
            OBVIOUS
        <2> HIDE DEF w, S
        <2>3. w[0] = x
            <3>1. w[0] = u[0]
                BY <2>2
            <3>2. QED BY <2>1, <3>1 DEF AreLevels
        <2>4. ASSUME NEW j \in 1 .. i PROVE w[j] = LevelAbove(w[j - 1])
            <3>1. w[j - 1] = u[j - 1]
                BY <2>2
            <3>2. CASE j < i
                <4>1. j \in 1 .. i - 1
                    BY <3>2
                <4>2. u[j] = LevelAbove(u[j - 1])
                    BY <2>1, <4>1 DEF AreLevels
                <4>3. w[j] = u[j]
                    BY <2>2, <3>2
                <4>4. QED BY <3>1, <4>2, <4>3
            <3>3. CASE j = i
                BY <2>2, <3>1, <3>3
            <3>4. QED BY <3>2, <3>3
        <2>5. AreLevels(w, x, i)
            BY <2>2, <2>3, <2>4 DEF AreLevels
        <2>6. QED BY <2>5 DEF S
    <1>4. PICK u : AreLevels(u, x, n)
        <2> HIDE DEF S
        <2>1. n \in 0 .. n
            OBVIOUS
        <2>2. 0 .. n \subseteq S
            BY <1>2, <1>3, Upwards
        <2>3. n \in S
            BY <2>1, <2>2
        <2>4. QED BY <2>3 DEF S
    <1>5. \E h : h = body(h)
        <2> DEFINE h == [i \in 0 .. n |-> u[i]]
        <2>1. \A i \in 0 .. n : h[i] = IF i = 0 THEN x ELSE LevelAbove(h[i - 1])
            <3>1. ASSUME NEW i \in 0 .. n, i # 0 PROVE h[i] = LevelAbove(h[i - 1])
                <4>1. i \in 1 .. n /\ i - 1 \in 0 .. n
                    BY <3>1
                <4>2. QED BY <1>4, <4>1 DEF AreLevels
            <3>2. h[0] = x
                BY <1>4 DEF AreLevels
            <3>3. QED BY <3>1, <3>2
        <2>2. h = [i \in 0 .. n |-> h[i]]
            OBVIOUS
        <2> HIDE DEF h
        <2>3. h = body(h)
            BY <2>1, <2>2
        <2>4. QED BY <2>3
    <1>6. level = body(level)
        BY <1>5
    <1> HIDE DEF level, S
    <1>7. AreLevels(level, x, n)
        <2>1. DOMAIN level = 0 .. n
            BY <1>6
        <2>2. \A i \in 0 .. n : level[i] = IF i = 0 THEN x ELSE LevelAbove(level[i - 1])
            BY <1>6
        <2>3. 0 \in 0 .. n /\ \A i \in 1 .. n : i \in 0 .. n /\ i # 0
            OBVIOUS
        <2>4. QED BY <2>1, <2>2, <2>3 DEF AreLevels
    <1>8. QED BY <1>1, <1>7 DEF x

\* Lists of one length have levels of the same lengths, and come down to one
\* hash.
LEMMA SameShape ==
    ASSUME NEW n \in Nat, n > 0, NEW a, NEW b, HasHashes(a, n), HasHashes(b, n),
           NEW u, NEW v, AreLevels(u, a, n), AreLevels(v, b, n)
    PROVE  /\ \A i \in 0 .. n : \E k \in Nat : HasHashes(u[i], k) /\ HasHashes(v[i], k)
           /\ HasHashes(u[n], 1) /\ HasHashes(v[n], 1)
    <1> DEFINE Shape(i, k) == HasHashes(u[i], k) /\ HasHashes(v[i], k) /\ (k = 1 \/ k <= n - i)
               S == {i \in 0 .. n : \E k \in Nat \ {0} : Shape(i, k)}
    <1>1. 0 \in S
        <2>1. u[0] = a /\ v[0] = b
            BY DEF AreLevels
        <2>2. Shape(0, n) /\ n \in Nat \ {0} /\ 0 \in 0 .. n
            BY <2>1
        <2>3. QED BY <2>2
    <1>2. ASSUME NEW i \in 1 .. n, i - 1 \in S PROVE i \in S
        <2>1. PICK k \in Nat \ {0} : Shape(i - 1, k)
            BY <1>2
        <2> DEFINE l == IF k > 1 THEN (k + 1) \div 2 ELSE k
        <2>2. u[i] = LevelAbove(u[i - 1]) /\ v[i] = LevelAbove(v[i - 1])
            BY DEF AreLevels
        <2>3. k \in Nat /\ k > 0
            OBVIOUS
        <2>4. HasHashes(LevelAbove(u[i - 1]), l) /\ HasHashes(LevelAbove(v[i - 1]), l)
            BY <2>1, <2>3, LevelAboveIs
        <2>5. l \in Nat \ {0} /\ (k > 1 => l < k) /\ (~(k > 1) => l = 1)
            BY <2>3, Halves
        <2>6. l = 1 \/ l <= n - i
            <3>1. k = 1 \/ k <= n - (i - 1)
                BY <2>1
            <3> HIDE DEF l
            <3>2. QED BY <2>3, <2>5, <3>1
        <2> HIDE DEF l
        <2>7. Shape(i, l)
            BY <2>2, <2>4, <2>6
        <2>8. QED BY <2>5, <2>7
    <1> HIDE DEF S
    <1>3. 0 .. n \subseteq S
        BY <1>1, <1>2, Upwards
    <1>4. \A i \in 0 .. n : \E k \in Nat \ {0} : Shape(i, k)
        BY <1>3 DEF S
    <1>5. PICK k \in Nat \ {0} : Shape(n, k)
        BY <1>4
    <1>6. k = 1
        BY <1>5
    <1>7. QED BY <1>4, <1>5, <1>6

\* Two lists of as many hashes with the same root are the same.
THEOREM RootTellsListsApart ==
    ASSUME NEW n \in Nat, n > 0, NEW a, NEW b, HasHashes(a, n), HasHashes(b, n),
           ComputeMerkleRoot(a) = ComputeMerkleRoot(b)
    PROVE  a = b
    <1>1. PICK u : AreLevels(u, a, n) /\ ComputeMerkleRoot(a) = u[n][1]
        BY RootIs DEF HasHashes
    <1>2. PICK v : AreLevels(v, b, n) /\ ComputeMerkleRoot(b) = v[n][1]
        BY RootIs DEF HasHashes
    <1>3. /\ \A i \in 0 .. n : \E k \in Nat : HasHashes(u[i], k) /\ HasHashes(v[i], k)
          /\ HasHashes(u[n], 1) /\ HasHashes(v[n], 1)
        BY <1>1, <1>2, SameShape
    <1> DEFINE S == {i \in 0 .. n : u[n - i] = v[n - i]}
    <1>4. 0 \in S
        <2>1. u[n][1] = v[n][1]
            BY <1>1, <1>2
        <2>2. u[n] = v[n]
            BY <1>3, <2>1 DEF HasHashes
        <2>3. QED BY <2>2
    <1>5. ASSUME NEW i \in 1 .. n, i - 1 \in S PROVE i \in S
        <2> DEFINE m == n - i
        <2>1. m \in 0 .. n /\ m + 1 \in 1 .. n /\ n - (i - 1) = m + 1 /\ (m + 1) - 1 = m /\ i \in 0 .. n
            OBVIOUS
        <2>2. u[m + 1] = v[m + 1]
            BY <1>5, <2>1
        <2> HIDE DEF m
        <2>3. u[m + 1] = LevelAbove(u[m]) /\ v[m + 1] = LevelAbove(v[m])
            BY <1>1, <1>2, <2>1 DEF AreLevels
        <2>4. PICK k \in Nat : HasHashes(u[m], k) /\ HasHashes(v[m], k)
            BY <1>3, <2>1
        <2>5. u[m] = v[m]
            BY <2>2, <2>3, <2>4, LevelBelow
        <2>6. QED BY <2>1, <2>5 DEF m
    <1> HIDE DEF S
    <1>6. n \in 0 .. n /\ n - n = 0
        OBVIOUS
    <1>7. 0 .. n \subseteq S
        BY <1>4, <1>5, Upwards
    <1>8. u[0] = v[0]
        BY <1>6, <1>7 DEF S
    <1>9. QED BY <1>1, <1>2, <1>8 DEF AreLevels

\* No other list of as many IDs has the root of a block's list
\* (ComputeMerkleRoot, ValidateBlock).
THEOREM MerkleAlwaysCommits == Spec => []MerkleCommits
    <1>1. OnTheWay => MerkleCommits
        <2> DEFINE T == message.Transactions
                   mine == [i \in DOMAIN T |-> T[i].ID]
                   ids == Range(mine) \cup Range(NextLevel(mine))
        <2> SUFFICES ASSUME OnTheWay, kind = "block", NEW other \in [DOMAIN mine -> ids],
                            ComputeMerkleRoot(other) = ComputeMerkleRoot(mine)
                     PROVE  other = mine
            BY DEF MerkleCommits
        <2>1. IsBlock(message)
            BY MessageIs DEF OnTheWay
        <2>2. Len(T) \in Nat /\ DOMAIN T = 1 .. Len(T)
            BY <2>1 DEF IsBlock
        <2> DEFINE n == Len(T)
        <2>3. mine = [i \in 1 .. n |-> mine[i]] /\ other = [i \in 1 .. n |-> other[i]]
            BY <2>2
        <2> HIDE DEF T, ids, mine, n
        <2>4. n \in Nat
            BY <2>2 DEF n
        <2>5. HasHashes(mine, n) /\ HasHashes(other, n)
            BY <2>3, <2>4, FunctionHasHashes
        <2>6. CASE n > 0
            BY <2>4, <2>5, <2>6, RootTellsListsApart
        <2>7. CASE n = 0
            BY <2>3, <2>7
        <2>8. QED BY <2>4, <2>6, <2>7
    <1>2. QED BY <1>1, AlwaysOnTheWay, PTL
===============================================================================
