------------------------------ MODULE MCLedger ------------------------------
(* A chain of two blocks and a fork at the first.                           *)
EXTENDS Ledger, TLC

MCParent == "b1" :> Genesis @@ "b2" :> "b1" @@ "c2" :> "b1"
MCIndex == Genesis :> 0 @@ "b1" :> 1 @@ "b2" :> 2 @@ "c2" :> 2
MCTransactions == Genesis :> {0} @@ "b1" :> {1} @@ "b2" :> {2, 3} @@ "c2" :> {2}
=============================================================================
