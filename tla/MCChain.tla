------------------------------ MODULE MCChain -------------------------------
(* Instances of Chain for TLC. *)
EXTENDS Chain

Tx(id, from, to, amount, fee, nonce) ==
    [id |-> id, sender |-> from, recipient |-> to, amount |-> amount, fee |-> fee,
     nonce |-> nonce]

\* Two with the same nonce.  The amount of the second is negative as a signed
\* word of 16 and its sum with the fee is zero, so it is valid even after a
\* restart.  The third is the next of the same sender.
SomeTransactions ==
    {Tx(1, "a", "b", 2, 1, 1), Tx(2, "a", "b", 15, 1, 1), Tx(3, "a", "b", 1, 0, 2)}

\* Each takes more than half of what the sender has.
TwoPayments == {Tx(1, "a", "b", 3, 0, 1), Tx(2, "a", "v", 3, 0, 1)}

Allocation == [x \in {"a"} |-> 4]
=============================================================================
