---- MODULE MCStockLedger ----
(* Instances of StockLedger for TLC. *)
EXTENDS StockLedger, TLC

CONSTANTS r1, r2, w1, w2

Line(q, r, s, t) == [qty |-> q, rate |-> r, source |-> s, target |-> t]
Receipt(t, w, q, r) == [time |-> t, type |-> "receipt", lines |-> <<Line(q, r, Null, w)>>]
Transfer(t, v, w, q) == [time |-> t, type |-> "transfer", lines |-> <<Line(q, 0, v, w)>>]
Count(t, w, q, r) == [time |-> t, type |-> "reconciliation", lines |-> <<Line(q, r, Null, w)>>]

(* Documents on one pair, the last of two lines.                           *)
PairEntries == <<Receipt(100, w1, 2, 2), Receipt(200, w1, 2, 4), Count(250, w1, 1, Null),
                  [time |-> 300, type |-> "issue",
                   lines |-> <<Line(1, 0, w1, Null), Line(1, 0, w1, Null)>>]>>

TwoReceipts == <<Receipt(100, w1, 1, 2), Receipt(200, w1, 1, 2)>>

(* Two counts around a receipt, and a transfer.                            *)
(* The rates divide by every quantity that comes about.                    *)
CountedEntries == <<Receipt(100, w1, 1, 3600), Count(200, w1, 2, 7200), Receipt(250, w1, 2, 7200),
                    Count(300, w1, 3, Null), Transfer(400, w1, w2, 1)>>

RequestSymmetry == Permutations(Requests)
====
