---------------------------- MODULE SalesInvoices ----------------------------
(***************************************************************************)
(* Sales invoices and their returns (SalesService): draft, edit and submit *)
(* by concurrent requests.  One line of price 1 stands for the lines of an *)
(* invoice; a return's quantity and refund are negative in the tables and  *)
(* magnitudes here.                                                        *)
(*                                                                         *)
(* An edit locks its invoice from its first read to its commit, a submit   *)
(* only once it writes, and then it works from the object it read before:  *)
(* the query that takes the lock does not refresh it.  What other returns  *)
(* hold is always read without a lock.                                     *)
(***************************************************************************)
EXTENDS Naturals, Sequences, FiniteSets

CONSTANTS
    Requests,  \* concurrent requests
    Invoices,
    Against,   \* return_against_id: the original of a return, Null otherwise
    Stocked,   \* invoices with update_stock: they move stock themselves
    MaxQty,    \* bound: quantities
    MaxMoves,  \* bound: submits of one invoice that write
    Null

Returns == {d \in Invoices : Against[d] # Null}
Content == [qty : 1..MaxQty, paid : 0..MaxQty]
Open == {"UNPAID", "PARTIALLY_PAID", "PAID"}
Statuses == {"NONE", "DRAFT", "RETURNED"} \cup Open
Request == [op : {"create", "update"}, inv : Invoices, new : Content] \cup
           [op : {"submit"}, inv : Invoices, seen : Content]

ASSUME SalesAssumption ==
    /\ MaxQty \in Nat \ {0} /\ MaxMoves \in Nat
    /\ Against \in [Invoices -> Invoices \cup {Null}] /\ Null \notin Invoices \cup Content \cup Request
    /\ \A d \in Returns : Against[d] \notin Returns
    /\ Stocked \subseteq Invoices

VARIABLES
    status,   \* doc_status of the invoices, NONE before they are saved
    content,  \* their lines and payment
    moved,    \* quantities each has moved in the stock ledger
    journal,  \* amounts of its AUTO journals
    reg,      \* per request: what it is doing and what it has read
    crowded,  \* history: originals of which two drafts of returns were there at once
    blurred,  \* history: originals whose refunds were summed while one was edited
    overtaken \* history: invoices written between a submit's read and its write

vars == <<status, content, moved, journal, reg, crowded, blurred, overtaken>>
tables == <<status, content, moved, journal>>
history == <<crowded, blurred, overtaken>>

Init ==
    /\ status = [d \in Invoices |-> "NONE"]
    /\ content = [d \in Invoices |-> Null]
    /\ moved = [d \in Invoices |-> <<>>]
    /\ journal = [d \in Invoices |-> <<>>]
    /\ reg = [r \in Requests |-> Null]
    /\ crowded = {} /\ blurred = {} /\ overtaken = {}

-----------------------------------------------------------------------------
(* What the checks read.                                                   *)

ReturnsOf(o) == {e \in Returns : Against[e] = o}
With(s) == {d \in Invoices : status[d] = s}

(* The sum of the values of f, counted unit by unit.                       *)
Total(f) == Cardinality({u \in (DOMAIN f) \X (1..MaxQty) : u[2] <= f[u[1]]})
QtyOf(S) == Total([e \in S |-> content[e].qty])
PaidOf(S) == Total([e \in S |-> content[e].paid])

Returned(o) == QtyOf(ReturnsOf(o) \cap With("RETURNED"))

(* Mutant: no line is compared with what is left to return.                *)
MayReturnAny(d, qty) == Against[d] # Null => status[Against[d]] # "NONE"

(* Over-return protection: finalized returns only.                         *)
MayReturn(d, qty) ==
    Against[d] # Null => qty + Returned(Against[d]) <= content[Against[d]].qty

(* Mutant: only what other returns have paid out is counted, not drafts.   *)
MayRefundDrafts(d, paid) ==
    Against[d] # Null /\ paid > 0 =>
        paid + PaidOf((ReturnsOf(Against[d]) \ {d}) \cap With("RETURNED"))
            <= content[Against[d]].paid

(* _validate_return_refund_against_original: the other returns, drafts too. *)
MayRefund(d, paid) ==
    Against[d] # Null /\ paid > 0 =>
        paid + PaidOf((ReturnsOf(Against[d]) \ {d}) \ With("NONE"))
            <= content[Against[d]].paid

Doing(op, d) == \E r \in Requests : reg[r] # Null /\ reg[r].op = op /\ reg[r].inv = d
Unlocked(d) == ~Doing("update", d)
Is(r, op) == reg[r] # Null /\ reg[r].op = op
Done(r) == reg' = [reg EXCEPT ![r] = Null]
Others(d) == IF Against[d] = Null THEN {} ELSE ReturnsOf(Against[d]) \ {d}

(* The histories: whom a check of quantities or of refunds did not see.    *)
Crowding(d) ==
    crowded' = crowded \cup {o \in {Against[d]} :
                   \E e \in Others(d) : status[e] = "DRAFT" \/ Doing("create", e)}
Blurring(d) ==
    blurred' = blurred \cup {o \in {Against[d]} : \E e \in Others(d) : Doing("update", e)}
Overtaking(r, d) ==
    overtaken' = overtaken \cup {e \in {d} : \E q \in Requests \ {r} : Is(q, "submit") /\ reg[q].inv = e}

-----------------------------------------------------------------------------
(* create_sales_invoice: its checks, then the row.  The refund of a return *)
(* is not compared with what was paid.                                     *)
ReadForCreate(r, d) ==
    /\ reg[r] = Null /\ status[d] = "NONE" /\ ~Doing("create", d)
    /\ Against[d] # Null => status[Against[d]] \in Open
    /\ \E c \in Content :
          /\ c.paid <= c.qty /\ MayReturn(d, c.qty)
          /\ reg' = [reg EXCEPT ![r] = [op |-> "create", inv |-> d, new |-> c]]
    /\ Crowding(d)
    /\ UNCHANGED <<tables, blurred, overtaken>>

(* Mutant: the invoice is committed before its lines.                      *)
SaveHeader(r) ==
    /\ Is(r, "create")
    /\ status' = [status EXCEPT ![reg[r].inv] = "DRAFT"]
    /\ Done(r)
    /\ UNCHANGED <<content, moved, journal, history>>

Save(r) ==
    /\ Is(r, "create")
    /\ status' = [status EXCEPT ![reg[r].inv] = "DRAFT"]
    /\ content' = [content EXCEPT ![reg[r].inv] = reg[r].new]
    /\ Done(r)
    /\ UNCHANGED <<moved, journal, history>>

(* update_sales_invoice: the row is locked, then guarded.  Only lines that *)
(* are sent are checked, and only a payment that is sent.                  *)
ReadForUpdate(r, d) ==
    /\ reg[r] = Null /\ Unlocked(d) /\ status[d] = "DRAFT"
    /\ \E c \in Content :
          /\ c.qty # content[d].qty => MayReturn(d, c.qty)
          /\ c.paid # content[d].paid => c.paid <= c.qty /\ MayRefund(d, c.paid)
          /\ reg' = [reg EXCEPT ![r] = [op |-> "update", inv |-> d, new |-> c]]
    /\ Crowding(d) /\ Blurring(d)
    /\ UNCHANGED <<tables, overtaken>>

Change(r) ==
    /\ Is(r, "update")
    /\ content' = [content EXCEPT ![reg[r].inv] = reg[r].new]
    /\ Done(r)
    /\ Overtaking(r, reg[r].inv)
    /\ UNCHANGED <<status, moved, journal, crowded, blurred>>

(* submit_sales_invoice before its lock.                                   *)
ReadForSubmit(r, d) ==
    /\ reg[r] = Null /\ status[d] = "DRAFT"
    /\ content[d].paid <= content[d].qty /\ MayRefund(d, content[d].paid)
    /\ reg' = [reg EXCEPT ![r] = [op |-> "submit", inv |-> d, seen |-> content[d]]]
    /\ Blurring(d)
    /\ UNCHANGED <<tables, crowded, overtaken>>

(* _derive_status_after_submit.                                            *)
StatusAfter(d, c) ==
    IF Against[d] # Null THEN "RETURNED"
    ELSE IF c.paid = 0 THEN "UNPAID"
    ELSE IF c.paid >= c.qty THEN "PAID" ELSE "PARTIALLY_PAID"

(* Mutant: the journal is written without a look at those there are.       *)
PostAlways(d, amount) == journal' = [journal EXCEPT ![d] = Append(@, amount)]

(* _auto_je_exists: one AUTO journal, or it is skipped.                    *)
PostOnce(d, amount) ==
    journal' = [journal EXCEPT ![d] = IF @ = <<>> THEN <<amount>> ELSE @]

(* Mutant: what moves in stock is left to the delivery.                    *)
WriteNoStock(r) ==
    /\ Is(r, "submit") /\ Unlocked(reg[r].inv) /\ Len(moved[reg[r].inv]) < MaxMoves
    /\ LET d == reg[r].inv
           c == reg[r].seen
       IN /\ PostOnce(d, c.qty)
          /\ status' = [status EXCEPT ![d] = StatusAfter(d, c)]
          /\ Overtaking(r, d)
    /\ Done(r)
    /\ UNCHANGED <<content, moved, crowded, blurred>>

(* Its write phase, from the lock to the commit.  The second guard tests   *)
(* the object loaded before, so it passes whenever the first one did.      *)
Write(r) ==
    /\ Is(r, "submit") /\ Unlocked(reg[r].inv) /\ Len(moved[reg[r].inv]) < MaxMoves
    /\ LET d == reg[r].inv
           c == reg[r].seen
       IN /\ moved' = [moved EXCEPT ![d] = IF d \in Stocked THEN Append(@, c.qty) ELSE @]
          /\ PostOnce(d, c.qty)
          /\ status' = [status EXCEPT ![d] = StatusAfter(d, c)]
          /\ Overtaking(r, d)
    /\ Done(r)
    /\ UNCHANGED <<content, crowded, blurred>>

Abort(r) ==
    /\ reg[r] # Null /\ Done(r)
    /\ UNCHANGED <<tables, history>>

Next == \E r \in Requests :
    \/ \E d \in Invoices : ReadForCreate(r, d) \/ ReadForUpdate(r, d) \/ ReadForSubmit(r, d)
    \/ Save(r) \/ Change(r) \/ Write(r) \/ Abort(r)

Spec == Init /\ [][Next]_vars

-----------------------------------------------------------------------------
(* Type invariant of the invoices, their postings and the requests.        *)
TypeOK ==
    /\ status \in [Invoices -> Statuses]
    /\ content \in [Invoices -> Content \cup {Null}]
    /\ \A d \in Invoices : content[d] = Null <=> status[d] = "NONE"
    /\ moved \in [Invoices -> Seq(1..MaxQty)]
    /\ journal \in [Invoices -> Seq(1..MaxQty)]
    /\ reg \in [Requests -> {Null} \cup Request]
    /\ crowded \subseteq Invoices \cup {Null} /\ blurred \subseteq Invoices \cup {Null}
    /\ overtaken \subseteq Invoices

Sold(o) == status[o] \in Open

(* No more is returned of an invoice than it sold, whatever is edited or   *)
(* submitted at once, as long as no two drafts of returns exist together.  *)
ReturnedWithinSold ==
    \A o \in Invoices \ crowded : Sold(o) => Returned(o) <= content[o].qty

Refunded(o) == PaidOf(ReturnsOf(o) \cap With("RETURNED"))

(* No more is paid back than was received, although a submit may write a   *)
(* refund it has not checked and drafts are made without a check: it takes *)
(* a sum read while another return of the invoice was being edited.        *)
RefundsWithinPaid ==
    \A o \in Invoices \ blurred : Sold(o) => Refunded(o) <= content[o].paid

(* However many submits pass the guard, an invoice has one AUTO journal    *)
(* once it is posted and none before.                                      *)
JournalOnce == \A d \in Invoices : Len(journal[d]) = IF status[d] \in {"NONE", "DRAFT"} THEN 0 ELSE 1

(* The books and the stock ledger say what the posted invoice says, unless *)
(* it was edited or submitted between a submit's read and its write.       *)
PostedAsWritten ==
    \A d \in Invoices \ overtaken : status[d] \notin {"NONE", "DRAFT"} =>
        /\ journal[d] = <<content[d].qty>>
        /\ moved[d] = IF d \in Stocked THEN <<content[d].qty>> ELSE <<>>
=============================================================================
