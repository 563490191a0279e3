-------------------------- MODULE MCSalesInvoices --------------------------
(* Instances of SalesInvoices for TLC. *)
EXTENDS SalesInvoices, TLC

CONSTANTS s1, t1, t2

(* A sale and two returns of it.                                           *)
SaleAndReturns == {s1, t1, t2}
OfSale == [d \in SaleAndReturns |-> IF d = s1 THEN Null ELSE s1]
RequestSymmetry == Permutations(Requests)
=============================================================================
