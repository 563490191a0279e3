-------------------------- MODULE MCGeneralLedger --------------------------
(* Instances of GeneralLedger for TLC. *)
EXTENDS GeneralLedger

CONSTANTS j, e, c, cash, pnl, summary, equity

(* A journal and an expense, which meet on two accounts, and a closing     *)
(* voucher, which moves what they leave on the profit accounts.            *)
Books == {j, e, c}
KindOf == [d \in Books |-> CASE d = j -> "journal" [] d = e -> "expense" [] d = c -> "closing"]
Chart == {cash, pnl, summary, equity}
Debit(a, b) == [x \in Chart |-> IF x = a THEN 1 ELSE IF x = b THEN -1 ELSE 0]
Template == [d \in Books |->
    CASE d = j -> Debit(cash, pnl) [] d = e -> Debit(pnl, cash) [] d = c -> Debit(summary, equity)]
Amounts == [d \in Books |-> IF d = e THEN 2 ELSE 1]
=============================================================================
