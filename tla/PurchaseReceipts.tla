--------------------------- MODULE PurchaseReceipts ---------------------------
(***************************************************************************)
(* Purchase receipts and their returns (PurchaseReceiptService), of one    *)
(* item in one warehouse at price 1.  A submit writes the ledger and the   *)
(* journal in one transaction and derives the bin in another, without the  *)
(* locks of the first; a cancel has a third one for the journal.  The      *)
(* process may end, or the next transaction fail, between them.            *)
(*                                                                         *)
(* Where a replay is called for, its call fails: the arguments are         *)
(* positional and repost_from takes none.                                  *)
(***************************************************************************)
EXTENDS Integers, Sequences, FiniteSets

CONSTANTS
    Requests,  \* concurrent requests
    Receipts,
    Returns,   \* those that send goods back: their quantity is negative
    Time,      \* posting time of each, in microseconds and far apart
    MaxQty,    \* bound: the quantity of each
    MaxRows,   \* bound: rows ever written to the ledger
    Null

Statuses == {"NONE", "DRAFT", "SUBMITTED", "RETURNED", "CANCELLED"}
Sle == [doc : Receipts, time : Nat, qty : Int, after : Int, live : BOOLEAN, reversal : BOOLEAN]
Request == [pc : {"submit"}, doc : Receipts, qty : Int, backdated : BOOLEAN] \cup
           [pc : {"repost", "derive", "cancel", "reverse"}, doc : Receipts] \cup
           [pc : {"bin"}, doc : Receipts, last : Int] \cup
           [pc : {"cancelling"}, doc : Receipts, rows : SUBSET Nat]

ASSUME ReceiptsAssumption ==
    /\ Returns \subseteq Receipts
    /\ Time \in [Receipts -> Nat]
    /\ MaxQty \in [Receipts -> Nat \ {0}] /\ MaxRows \in Nat
    /\ Null \notin Request

VARIABLES
    status,   \* doc_status of the receipts, NONE before they are saved
    qty,      \* their quantity
    rows,     \* stock_ledger_entries in primary-key order
    journal,  \* per receipt: amounts of its AUTO journals, reversals negative
    bin,      \* actual_qty of the bin
    reg,      \* per request: how far it is and what it has read
    behind,   \* history: the bin is to be derived, or that was lost
    overtaken,   \* history: requests whose reading of the ledger is out of date
    redrawn,     \* history: receipts edited between a submit's read and its write
    recancelled  \* history: receipts of which two cancels read the live rows

vars == <<status, qty, rows, journal, bin, reg, behind, overtaken, redrawn, recancelled>>

Init ==
    /\ status = [d \in Receipts |-> "NONE"]
    /\ qty = [d \in Receipts |-> 0]
    /\ rows = <<>>
    /\ journal = [d \in Receipts |-> <<>>]
    /\ bin = 0
    /\ reg = [r \in Requests |-> Null]
    /\ behind = FALSE /\ overtaken = {} /\ redrawn = {} /\ recancelled = {}

-----------------------------------------------------------------------------
(* The ledger.                                                             *)

Live == {i \in DOMAIN rows : rows[i].live}
Later(i, j) == rows[i].time > rows[j].time \/ (rows[i].time = rows[j].time /\ i >= j)
Latest(S) == {i \in S : \A j \in S : Later(i, j)}
Balance(S) == IF Latest(S) = {} THEN 0 ELSE rows[CHOOSE i \in Latest(S) : TRUE].after

(* get_last_sle_before_dt and append_sle.                                  *)
NewRow(d, x) ==
    [doc |-> d, time |-> Time[d], qty |-> x, live |-> TRUE, reversal |-> FALSE,
     after |-> Balance({i \in Live : rows[i].time <= Time[d]}) + x]

(* cancel_sle: what follows the row that it flags.                         *)
Reversal(i) ==
    [rows[i] EXCEPT !.time = @ + 1, !.qty = -@, !.after = rows[i].after - rows[i].qty,
                    !.live = TRUE, !.reversal = TRUE]

RowsOf(d) == {i \in DOMAIN rows : rows[i].doc = d}
Backdated(d) == \E i \in Live : rows[i].time > Time[d]

At(r, pc) == reg[r] # Null /\ reg[r].pc = pc
Go(r, x) == reg' = [reg EXCEPT ![r] = x]
To(r, pc) == Go(r, [pc |-> pc, doc |-> reg[r].doc])
Quantities(d) == {IF d \in Returns THEN -x ELSE x : x \in 1..MaxQty[d]}

(* The histories.  A write of the ledger makes the bin late, and what      *)
(* others have read for it out of date.                                    *)
Overtaking == behind' = TRUE /\ overtaken' = overtaken \cup {q \in Requests : At(q, "bin")}
Undisturbed == UNCHANGED <<behind, overtaken>>

-----------------------------------------------------------------------------
(* Mutant: a return is saved with the sign of a receipt.                   *)
CreatePlain(d, x) ==
    /\ status[d] = "NONE" /\ x \in Quantities(d)
    /\ status' = [status EXCEPT ![d] = "DRAFT"]
    /\ qty' = [qty EXCEPT ![d] = IF x < 0 THEN -x ELSE x]
    /\ UNCHANGED <<rows, journal, bin, reg, behind, overtaken, redrawn, recancelled>>

(* create_purchase_receipt.                                                *)
Create(d, x) ==
    /\ status[d] = "NONE" /\ x \in Quantities(d)
    /\ status' = [status EXCEPT ![d] = "DRAFT"]
    /\ qty' = [qty EXCEPT ![d] = x]
    /\ UNCHANGED <<rows, journal, bin, reg, behind, overtaken, redrawn, recancelled>>

(* Mutant: a submitted receipt may still be edited.                        *)
UpdateAny(d, x) ==
    /\ status[d] # "NONE" /\ x \in Quantities(d) \ {qty[d]}
    /\ qty' = [qty EXCEPT ![d] = x]
    /\ redrawn' = redrawn \cup {e \in {d} : \E r \in Requests : At(r, "submit") /\ reg[r].doc = d}
    /\ UNCHANGED <<status, rows, journal, bin, reg, behind, overtaken, recancelled>>

(* update_purchase_receipt: locks the row before it reads it.              *)
Update(d, x) ==
    /\ status[d] = "DRAFT" /\ x \in Quantities(d) \ {qty[d]}
    /\ qty' = [qty EXCEPT ![d] = x]
    /\ redrawn' = redrawn \cup {e \in {d} : \E r \in Requests : At(r, "submit") /\ reg[r].doc = d}
    /\ UNCHANGED <<status, rows, journal, bin, reg, behind, overtaken, recancelled>>

(* submit_purchase_receipt before its lock.                                *)
ReadForSubmit(r, d) ==
    /\ reg[r] = Null /\ status[d] = "DRAFT"
    /\ Go(r, [pc |-> "submit", doc |-> d, qty |-> qty[d], backdated |-> Backdated(d)])
    /\ UNCHANGED <<status, qty, rows, journal, bin, behind, overtaken, redrawn, recancelled>>

(* ensure_idempotent_absent.                                               *)
MayPost(d) == journal[d] = <<>>

(* Its first transaction.  The second guard tests the object loaded before *)
(* the lock; a second submit fails at its journal and rolls back.          *)
WriteSubmit(r) ==
    /\ At(r, "submit") /\ MayPost(reg[r].doc) /\ Len(rows) < MaxRows
    /\ LET d == reg[r].doc IN
       /\ rows' = Append(rows, NewRow(d, reg[r].qty))
       /\ journal' = [journal EXCEPT ![d] = Append(@, reg[r].qty)]
       /\ status' = [status EXCEPT ![d] = IF d \in Returns THEN "RETURNED" ELSE "SUBMITTED"]
    /\ To(r, IF reg[r].backdated THEN "repost" ELSE "derive")
    /\ Overtaking
    /\ UNCHANGED <<qty, bin, redrawn, recancelled>>

(* derive_bin in the second transaction: first the ledger,                 *)
DeriveRead(r) ==
    /\ At(r, "derive")
    /\ Go(r, [pc |-> "bin", doc |-> reg[r].doc, last |-> Balance(Live)])
    /\ overtaken' = overtaken \ {r}
    /\ UNCHANGED <<status, qty, rows, journal, bin, behind, redrawn, recancelled>>

(* Mutant: the bin is moved by the document's own quantity.                *)
DeriveAdd(r) ==
    /\ At(r, "bin")
    /\ bin' = bin + qty[reg[r].doc]
    /\ behind' = (r \in overtaken)
    /\ Go(r, Null)
    /\ UNCHANGED <<status, qty, rows, journal, overtaken, redrawn, recancelled>>

(* then the bin, whose row it locks.                                       *)
DeriveWrite(r) ==
    /\ At(r, "bin")
    /\ bin' = reg[r].last
    /\ behind' = (r \in overtaken)
    /\ Go(r, Null)
    /\ UNCHANGED <<status, qty, rows, journal, overtaken, redrawn, recancelled>>

(* cancel_purchase_receipt before its lock: the receipt,                   *)
ReadForCancel(r, d) ==
    /\ reg[r] = Null /\ status[d] = "SUBMITTED"
    /\ Go(r, [pc |-> "cancel", doc |-> d])
    /\ UNCHANGED <<status, qty, rows, journal, bin, behind, overtaken, redrawn, recancelled>>

Cancelling(d) == \E q \in Requests : At(q, "cancelling") /\ reg[q].doc = d /\ reg[q].rows # {}

(* then its live rows.                                                     *)
ReadRows(r) ==
    /\ At(r, "cancel")
    /\ LET d == reg[r].doc IN
       /\ Go(r, [pc |-> "cancelling", doc |-> d,
                 rows |-> {i \in RowsOf(d) \cap Live : ~rows[i].reversal}])
       /\ recancelled' = recancelled \cup {e \in {d} : Cancelling(d)}
    /\ UNCHANGED <<status, qty, rows, journal, bin, behind, overtaken, redrawn>>

(* Mutant: the row is flagged and not reversed.                            *)
WriteCancelFlag(r) ==
    /\ At(r, "cancelling")
    /\ rows' = [i \in DOMAIN rows |->
                   IF i \in reg[r].rows THEN [rows[i] EXCEPT !.live = FALSE] ELSE rows[i]]
    /\ status' = [status EXCEPT ![reg[r].doc] = "CANCELLED"]
    /\ IF reg[r].rows = {} THEN To(r, "reverse") /\ Undisturbed ELSE To(r, "repost") /\ Overtaking
    /\ UNCHANGED <<qty, journal, bin, redrawn, recancelled>>

(* Its first transaction; the second guard passes again.  Without rows     *)
(* there is nothing to replay, and it goes on to the journal.              *)
WriteCancel(r) ==
    /\ At(r, "cancelling") /\ Len(rows) < MaxRows
    /\ LET own == reg[r].rows
           flagged == [i \in DOMAIN rows |->
                          IF i \in own THEN [rows[i] EXCEPT !.live = FALSE] ELSE rows[i]]
       IN rows' = IF own = {} THEN rows ELSE Append(flagged, Reversal(CHOOSE i \in own : TRUE))
    /\ status' = [status EXCEPT ![reg[r].doc] = "CANCELLED"]
    /\ IF reg[r].rows = {} THEN To(r, "reverse") /\ Undisturbed ELSE To(r, "repost") /\ Overtaking
    /\ UNCHANGED <<qty, journal, bin, redrawn, recancelled>>

(* PostingService.cancel in a transaction of its own.                      *)
ReverseJournal(r) ==
    /\ At(r, "reverse")
    /\ LET d == reg[r].doc
           last == journal[d][Len(journal[d])]
       IN journal' = [journal EXCEPT ![d] = Append(@, -last)]
    /\ Go(r, Null)
    /\ UNCHANGED <<status, qty, rows, bin, behind, overtaken, redrawn, recancelled>>

(* An error, the end of the process, or the call of repost_from.           *)
Abort(r) ==
    /\ reg[r] # Null
    /\ Go(r, Null)
    /\ UNCHANGED <<status, qty, rows, journal, bin, behind, overtaken, redrawn, recancelled>>

Next ==
    \/ \E d \in Receipts : \E x \in Quantities(d) : Create(d, x) \/ Update(d, x)
    \/ \E r \in Requests :
         \/ \E d \in Receipts : ReadForSubmit(r, d) \/ ReadForCancel(r, d)
         \/ WriteSubmit(r) \/ DeriveRead(r) \/ DeriveWrite(r)
         \/ ReadRows(r) \/ WriteCancel(r) \/ ReverseJournal(r) \/ Abort(r)

Spec == Init /\ [][Next]_vars

-----------------------------------------------------------------------------
(* Type invariant of the receipts, the ledger, the bin and the requests.   *)
TypeOK ==
    /\ status \in [Receipts -> Statuses]
    /\ qty \in [Receipts -> Int]
    /\ \A d \in Receipts : status[d] # "NONE" => qty[d] \in Quantities(d)
    /\ rows \in Seq(Sle)
    /\ journal \in [Receipts -> Seq(Int \ {0})]
    /\ bin \in Int
    /\ reg \in [Requests -> {Null} \cup Request]
    /\ \A r \in Requests : At(r, "cancelling") => reg[r].rows \subseteq RowsOf(reg[r].doc)
    /\ behind \in BOOLEAN /\ overtaken \subseteq Requests
    /\ redrawn \subseteq Receipts /\ recancelled \subseteq Receipts

(* The rows and the journal of a receipt follow its status, wherever its   *)
(* operations end: both come with the submit, once although two submits    *)
(* may pass the guard, and a cancel leaves the row flagged and one         *)
(* reversal, unless two cancels read the row at once.                      *)
LedgerFollowsStatus ==
    \A d \in Receipts :
        /\ status[d] \in {"NONE", "DRAFT"} => RowsOf(d) = {} /\ journal[d] = <<>>
        /\ status[d] \in {"SUBMITTED", "RETURNED"} =>
              /\ Len(journal[d]) = 1
              /\ \E i \in RowsOf(d) : RowsOf(d) = {i} /\ rows[i].live /\ rows[i].qty = journal[d][1]
        /\ status[d] = "CANCELLED" /\ d \notin recancelled =>
              /\ journal[d] # <<>>
              /\ \E i, j \in RowsOf(d) :
                    /\ RowsOf(d) = {i, j} /\ rows[i].qty = journal[d][1] /\ rows[j].qty = -rows[i].qty
                    /\ ~rows[i].live /\ rows[j].live

(* The bin is what the ledger's latest row says, although it is derived    *)
(* without the locks of the ledger, unless its derivation is due, was lost *)
(* with its request or was overtaken; the next one makes good for those.   *)
BinCurrent == ~behind => bin = Balance(Live)

(* The ledger and the books say what the receipt says, unless it was       *)
(* edited between a submit's read and its write.                           *)
PostedAsWritten ==
    \A d \in Receipts \ redrawn : journal[d] # <<>> => journal[d][1] = qty[d]
=============================================================================
