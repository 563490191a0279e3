---- MODULE MCPurchaseReceipts ----
(* An instance of PurchaseReceipts for TLC: two receipts and a return. *)
EXTENDS PurchaseReceipts, TLC

CONSTANTS r1, r2, p1, p2, b1

Times == (p1 :> 100) @@ (p2 :> 200) @@ (b1 :> 300)
Quantity == (p1 :> 2) @@ (p2 :> 1) @@ (b1 :> 1)
RequestSymmetry == Permutations(Requests)
====
