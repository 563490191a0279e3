------------------------------ MODULE Payments ------------------------------
(***************************************************************************)
(* Payment entries and the invoices they are allocated to, of one company  *)
(* and one kind of party: PaymentService with PaymentRepo, PartyLedgerRepo *)
(* and the journals of PostingService.                                     *)
(*                                                                         *)
(* A submit or a cancel holds the payment from its second guard on, and    *)
(* from its journal on the company's row of the JE counter, to the commit. *)
(* Nothing else keeps two requests from reading and writing one invoice.   *)
(***************************************************************************)
EXTENDS Integers, Sequences, FiniteSets, SequencesExt

CONSTANTS
    Requests,   \* concurrent requests that submit or cancel
    Payments,   \* payment entries
    Parties,
    Invoices,   \* in due-date order: [party, total], a return's total is negative
    MaxPaid,    \* bound: amounts paid
    MaxLines,   \* bound: allocation lines typed by a user
    Null

ASSUME PaymentsAssumption ==
    /\ MaxPaid \in Nat \ {0} /\ MaxLines \in Nat
    /\ Invoices \in Seq([party : Parties, total : Int \ {0}])

Docs == DOMAIN Invoices
Types == {"RECEIVE", "PAY"}
Line == [inv : Docs, amount : 1..MaxPaid]
TypedLines == UNION {[1..n -> Line] : n \in 0..MaxLines}

VARIABLES
    outstanding,  \* outstanding_amount of the invoices
    status,       \* doc_status of the payments, "none" before create
    header,       \* [type, party, paid] of each payment
    items,        \* payment_items of each payment
    journal,      \* submitted automatic journals of each payment, oldest first
    reg           \* per request: where it is and what it holds

vars == <<outstanding, status, header, items, journal, reg>>

Magnitude(x) == IF x < 0 THEN -x ELSE x
Total(lines) == FoldLeft(LAMBDA sum, l : sum + l.amount, 0, lines)

-----------------------------------------------------------------------------
(* PartyLedgerRepo.  The status of a submitted document follows from what  *)
(* is outstanding, and the two are written together; but a return is       *)
(* RETURNED whatever is left of it.                                        *)

DocStatus(i, out) ==
    IF Invoices[i].total < 0 THEN "RETURNED"
    ELSE IF out = 0 THEN "PAID"
    ELSE IF out = Invoices[i].total THEN "UNPAID" ELSE "PARTIALLY_PAID"

PaymentEligible == {"UNPAID", "PARTIALLY_PAID"}

(* Mutant: the lists are filtered by the amount only.                      *)
EligibleAnyStatus(out, party) == {i \in Docs : Invoices[i].party = party /\ out[i] # 0}

Eligible(out, party) ==
    {i \in Docs : /\ Invoices[i].party = party
                  /\ DocStatus(i, out[i]) \in PaymentEligible /\ out[i] # 0}

(* apply_allocation: toward zero, whatever the sign of the amount, and     *)
(* nothing at all on a document that is not eligible.                      *)
Apply(out, i, amount) ==
    LET consume == IF Magnitude(amount) < Magnitude(out[i]) THEN Magnitude(amount)
                   ELSE Magnitude(out[i])
    IN IF DocStatus(i, out[i]) \notin PaymentEligible THEN out
       ELSE [out EXCEPT ![i] = IF @ > 0 THEN @ - consume ELSE @ + consume]

Allocate(out, lines, sign) == FoldLeft(LAMBDA o, l : Apply(o, l.inv, sign * l.amount), out, lines)

(* _validate_allocation_rows.                                              *)
Valid(lines, h) ==
    /\ Total(lines) <= h.paid
    /\ \A k \in DOMAIN lines :
          /\ lines[k].inv \in Eligible(outstanding, h.party)
          /\ lines[k].amount <= Magnitude(outstanding[lines[k].inv])

(* _auto_allocate: the open invoices in due-date order; a customer is paid *)
(* only when one of them is negative, which no eligible document is.       *)
MayAutoAllocate(h) ==
    h.type = "PAY" => \E i \in Eligible(outstanding, h.party) : outstanding[i] < 0

AutoLines(h) ==
    LET left(lines) == h.paid - Total(lines)
        least(x, y) == IF x < y THEN x ELSE y
        add(lines, i) ==
            IF i \notin Eligible(outstanding, h.party) \/ left(lines) <= 0 THEN lines
            ELSE Append(lines, [inv |-> i,
                                amount |-> least(left(lines), Magnitude(outstanding[i]))])
    IN FoldLeftDomain(add, <<>>, Invoices)

-----------------------------------------------------------------------------
Init ==
    /\ outstanding = [i \in Docs |-> Invoices[i].total]
    /\ status = [p \in Payments |-> "none"]
    /\ header = [p \in Payments |-> Null]
    /\ items = [p \in Payments |-> <<>>]
    /\ journal = [p \in Payments |-> <<>>]
    /\ reg = [r \in Requests |-> Null]

(* The row lock of a payment and the JE counter of the company.            *)
Unlocked(p) == \A r \in Requests : reg[r] # Null => reg[r].pay # p \/ reg[r].pc = "read"
CounterFree == \A r \in Requests : reg[r] # Null => reg[r].pc # "posted"

Headers == [type : Types, party : Parties, paid : 1..MaxPaid]

(* create: one transaction on a row nobody else sees.                      *)
Create(p) ==
    /\ status[p] = "none"
    /\ \E h \in Headers, lines \in TypedLines, auto \in BOOLEAN :
          /\ Valid(lines, h)
          /\ auto => MayAutoAllocate(h)
          /\ header' = [header EXCEPT ![p] = h]
          /\ items' = [items EXCEPT ![p] = IF auto THEN AutoLines(h) ELSE lines]
    /\ status' = [status EXCEPT ![p] = "draft"]
    /\ UNCHANGED <<outstanding, journal, reg>>

(* What update and submit leave in the table: kept, typed or automatic.    *)
(* The check constraint of the table binds whatever was chosen.            *)
Edited(p, h, lines) ==
    /\ Total(lines) <= h.paid
    /\ header' = [header EXCEPT ![p] = h]
    /\ items' = [items EXCEPT ![p] = lines]

(* Mutant: the guard reads the payment before the lock is there.           *)
UpdateUnlocked(p) ==
    /\ status[p] = "draft"
    /\ \E h \in Headers :
          \/ Edited(p, h, items[p])
          \/ \E lines \in TypedLines : Valid(lines, h) /\ Edited(p, h, lines)
          \/ MayAutoAllocate(h) /\ Edited(p, h, AutoLines(h))
    /\ UNCHANGED <<outstanding, status, journal, reg>>

(* update: waits for the row, then guards; lines that are not sent stay.   *)
Update(p) ==
    /\ Unlocked(p) /\ status[p] = "draft"
    /\ \E h \in Headers :
          \/ Edited(p, h, items[p])
          \/ \E lines \in TypedLines : Valid(lines, h) /\ Edited(p, h, lines)
          \/ MayAutoAllocate(h) /\ Edited(p, h, AutoLines(h))
    /\ UNCHANGED <<outstanding, status, journal, reg>>

Before == [submit |-> "draft", cancel |-> "submitted"]
After == [submit |-> "submitted", cancel |-> "cancelled"]

(* submit and cancel, to their first guard.                                *)
Read(r, p) ==
    /\ reg[r] = Null
    /\ \E op \in DOMAIN Before :
          /\ status[p] = Before[op]
          /\ reg' = [reg EXCEPT ![r] = [op |-> op, pay |-> p, pc |-> "read"]]
    /\ UNCHANGED <<outstanding, status, header, items, journal>>

Holds(r, p, pc) == reg[r] # Null /\ reg[r].pay = p /\ reg[r].pc = pc

(* Mutant: the guard is not repeated under the lock.                       *)
LockNoGuard(r, p) ==
    /\ Holds(r, p, "read") /\ Unlocked(p)
    /\ reg' = [reg EXCEPT ![r] = [op |-> reg[r].op, pay |-> p, pc |-> "locked", lines |-> items[p]]]
    /\ UNCHANGED <<outstanding, status, header, items, journal>>

(* The refreshed row, the second guard and, on submit, the lines: those of *)
(* the draft, or automatic ones when asked for or when there are none.     *)
Lock(r, p) ==
    /\ Holds(r, p, "read") /\ Unlocked(p) /\ status[p] = Before[reg[r].op]
    /\ \E auto \in BOOLEAN :
          /\ auto => reg[r].op = "submit" /\ MayAutoAllocate(header[p])
          /\ reg[r].op = "submit" /\ items[p] = <<>> => auto
          /\ reg' = [reg EXCEPT ![r] = [op |-> reg[r].op, pay |-> p, pc |-> "locked",
                                        lines |-> IF auto THEN AutoLines(header[p]) ELSE items[p]]]
    /\ UNCHANGED <<outstanding, status, header, items, journal>>

(* PostingService.post is refused while there is an AUTO journal; cancel   *)
(* reverses the newest submitted one.                                      *)
Postable(op, p) ==
    IF op = "submit" THEN \A k \in DOMAIN journal[p] : journal[p][k].type # "AUTO"
    ELSE journal[p] # <<>>

Journal(op, p) ==
    IF op = "submit" THEN [type |-> "AUTO", amount |-> header[p].paid]
    ELSE [type |-> "REVERSAL", amount |-> -Last(journal[p]).amount]

Sign(op) == IF op = "submit" THEN 1 ELSE -1

Written(r, p) ==
    [op |-> reg[r].op, pay |-> p, pc |-> "posted", lines |-> reg[r].lines,
     entry |-> Journal(reg[r].op, p),
     out |-> Allocate(outstanding, reg[r].lines, Sign(reg[r].op))]

(* Mutant: the journal does not take a number from the company's counter.  *)
PostNoCounter(r, p) ==
    /\ Holds(r, p, "locked") /\ Postable(reg[r].op, p)
    /\ reg' = [reg EXCEPT ![r] = Written(r, p)]
    /\ UNCHANGED <<outstanding, status, header, items, journal>>

(* The journal is posted, which waits for the counter, and the invoices    *)
(* are read and written: absolute values, seen by others at the commit.    *)
Post(r, p) ==
    /\ Holds(r, p, "locked") /\ Postable(reg[r].op, p) /\ CounterFree
    /\ reg' = [reg EXCEPT ![r] = Written(r, p)]
    /\ UNCHANGED <<outstanding, status, header, items, journal>>

Commit(r, p) ==
    /\ Holds(r, p, "posted")
    /\ outstanding' = [i \in Docs |-> IF \E k \in DOMAIN reg[r].lines : reg[r].lines[k].inv = i
                                      THEN reg[r].out[i] ELSE outstanding[i]]
    /\ items' = [items EXCEPT ![p] = reg[r].lines]
    /\ journal' = [journal EXCEPT ![p] = Append(@, reg[r].entry)]
    /\ status' = [status EXCEPT ![p] = After[reg[r].op]]
    /\ reg' = [reg EXCEPT ![r] = Null]
    /\ UNCHANGED header

(* A failed guard, a closed fiscal year, any other error: all of it undone. *)
Abort(r) ==
    /\ reg[r] # Null
    /\ reg' = [reg EXCEPT ![r] = Null]
    /\ UNCHANGED <<outstanding, status, header, items, journal>>

Next ==
    \/ \E p \in Payments : Create(p) \/ Update(p)
    \/ \E r \in Requests, p \in Payments : Read(r, p) \/ Lock(r, p) \/ Post(r, p) \/ Commit(r, p)
    \/ \E r \in Requests : Abort(r)

Spec == Init /\ [][Next]_vars

-----------------------------------------------------------------------------
(* Type invariant of the invoices, the payments, their journals and the    *)
(* requests.                                                               *)
TypeOK ==
    /\ outstanding \in [Docs -> Int]
    /\ \A i \in Docs : Magnitude(outstanding[i]) <= Magnitude(Invoices[i].total)
    /\ status \in [Payments -> {"none", "draft", "submitted", "cancelled"}]
    /\ header \in [Payments -> Headers \cup {Null}]
    /\ items \in [Payments -> Seq(Line)]
    /\ \A p \in Payments : status[p] # "none" => Total(items[p]) <= header[p].paid
    /\ DOMAIN reg = Requests
    /\ \A r \in Requests : reg[r] # Null =>
          /\ reg[r].op \in DOMAIN Before /\ reg[r].pay \in Payments
          /\ reg[r].pc \in {"read", "locked", "posted"}

(* However many requests submit, cancel and edit a payment at once, its    *)
(* journals say what its status says: none for a draft, one for a          *)
(* submitted payment, that one and its reversal for a cancelled one.       *)
JournalFollowsStatus ==
    \A p \in Payments :
        /\ status[p] \in {"none", "draft"} => journal[p] = <<>>
        /\ status[p] = "submitted" =>
              /\ Len(journal[p]) = 1
              /\ journal[p][1] = [type |-> "AUTO", amount |-> header[p].paid]
        /\ status[p] = "cancelled" =>
              /\ Len(journal[p]) = 2 /\ journal[p][1].type = "AUTO"
              /\ journal[p][2] = [type |-> "REVERSAL", amount |-> -journal[p][1].amount]

(* Invoices are loaded without a lock and written back as absolute values: *)
(* what a request is about to commit must still be computed from what the  *)
(* invoices are, which only the company's JE counter sees to.              *)
WritesAreCurrent ==
    \A r \in Requests : reg[r] # Null /\ reg[r].pc = "posted" =>
        reg[r].out = Allocate(outstanding, reg[r].lines, Sign(reg[r].op))

Share(lines, i) ==
    FoldLeft(LAMBDA sum, l : IF l.inv = i THEN sum + l.amount ELSE sum, 0, lines)

Allocated(p, i) == Share(items[p], i)
With(s) == {p \in Payments : status[p] = s}

(* What is outstanding is what the submitted payments leave of the total,  *)
(* and nothing below zero, in whatever order they came: no payment's share *)
(* is lost to a concurrent one, and none is allocated to a return, of      *)
(* which nothing is ever settled.  (What a cancelled payment had allocated *)
(* to an invoice is another matter.)                                       *)
OutstandingExact ==
    \A i \in Docs : (\A p \in With("cancelled") : Allocated(p, i) = 0) =>
        LET rest == Magnitude(Invoices[i].total)
                    - SumFunction([p \in With("submitted") |-> Allocated(p, i)])
        IN /\ Magnitude(outstanding[i]) = IF rest < 0 THEN 0 ELSE rest
           /\ Invoices[i].total > 0 => outstanding[i] >= 0
           /\ Invoices[i].total < 0 => outstanding[i] <= 0

(* payment_service.py:476, "Revert allocations (Sales Invoices / Purchase  *)
(* Invoices)": a cancelled payment leaves nothing on its invoices.         *)
CancelRestores ==
    \A i \in Docs : With("submitted") = {} => outstanding[i] = Invoices[i].total
=============================================================================
