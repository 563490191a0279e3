----------------------------- MODULE MCPayments -----------------------------
(* Instances of Payments for TLC. *)
EXTENDS Payments, TLC

(* A return of one customer, between two of his invoices in due date.      *)
InvoicesAndReturn ==
    <<[party |-> "c1", total |-> 2], [party |-> "c1", total |-> -1], [party |-> "c1", total |-> 1]>>

OneInvoice == <<[party |-> "c1", total |-> 2]>>

RequestSymmetry == Permutations(Requests) \cup Permutations(Payments)
=============================================================================
