---------------------------- MODULE GeneralLedger ----------------------------
(***************************************************************************)
(* The general ledger of one company and fiscal year: manual journals      *)
(* (JournalEntryService), expenses and the other documents that post an    *)
(* automatic journal (PostingService), and period closing vouchers.        *)
(*                                                                         *)
(* A document's lines come in any order, one per account.  Their effect on *)
(* the balance of an account is read without a lock and written back as an *)
(* absolute value; the UPDATE of one line is sent when the next line reads *)
(* or at the end, and then locks its row until the commit.                 *)
(***************************************************************************)
EXTENDS Integers, Sequences, FiniteSets

CONSTANTS
    Requests,   \* concurrent requests
    Documents,
    Kind,       \* "journal", "expense" or "closing"
    Accounts,
    PnL,        \* stands for the income and expense accounts
    Side,       \* per document and account: 1 debits it, -1 credits it, 0 no line
    MaxAmount,  \* bound: the amount of each journal and expense
    Null

Ops == {"submit", "cancel"}
Statuses == {"DRAFT", "SUBMITTED", "CANCELLED"}
LinesOf(d) == {a \in Accounts : Side[d][a] # 0}

Request == [pc : {"read", "locked", "writing"}, op : Ops, doc : Documents, amount : Int,
            loaded : SUBSET Accounts, flushed : SUBSET Accounts, mine : [Accounts -> Int]]

ASSUME LedgerAssumption ==
    /\ Kind \in [Documents -> {"journal", "expense", "closing"}]
    /\ PnL \in Accounts
    /\ Side \in [Documents -> [Accounts -> {-1, 0, 1}]]
    /\ MaxAmount \in [Documents -> Nat \ {0}]
    /\ Null \notin Request

VARIABLES
    status,   \* doc_status of the documents
    amount,   \* amount of a journal or an expense as it is now
    posts,    \* per document: the amounts of its journals, reversals negative
    ledger,   \* committed debits less credits of each account's GL entries
    balance,  \* current_balance of account_balances
    reg,      \* per request: what it is doing and what it has read
    blurred,  \* history: accounts that a manual submit and another request wrote at once
    recancelled \* history: closing vouchers that two cancels found submitted

vars == <<status, amount, posts, ledger, balance, reg, blurred, recancelled>>
tables == <<status, amount, posts, ledger, balance>>
history == <<blurred, recancelled>>

Init ==
    /\ status = [d \in Documents |-> "DRAFT"]
    /\ amount = [d \in Documents |-> 1]
    /\ posts = [d \in Documents |-> <<>>]
    /\ ledger = [a \in Accounts |-> 0]
    /\ balance = [a \in Accounts |-> 0]
    /\ reg = [r \in Requests |-> Null]
    /\ blurred = {} /\ recancelled = {}

-----------------------------------------------------------------------------
At(r, pc) == reg[r] # Null /\ reg[r].pc = pc
Manual(r) == reg[r] # Null /\ Kind[reg[r].doc] = "journal" /\ reg[r].op = "submit"
Idle(r) == reg[r] = Null
Done(r) == reg' = [reg EXCEPT ![r] = Null]
Begin(r, pc, op, d, x) ==
    reg' = [reg EXCEPT ![r] = [pc |-> pc, op |-> op, doc |-> d, amount |-> x, loaded |-> {},
                               flushed |-> {}, mine |-> [a \in Accounts |-> 0]]]

(* Mutant: lock_doc locks for the session, and nobody unlocks.             *)
LockedForGood(d) == posts[d] # <<>> \/ \E r \in Requests : At(r, "writing") /\ reg[r].doc = d

(* lock_doc, and for journals the row itself, both until the commit.       *)
Locked(d) == \E r \in Requests : (At(r, "locked") \/ At(r, "writing")) /\ reg[r].doc = d
Counting == {r \in Requests : At(r, "writing") /\ ~Manual(r)}
FlushedByOther(r, a) == \E q \in Requests \ {r} : reg[q] # Null /\ a \in reg[q].flushed

Needs == [submit |-> "DRAFT", cancel |-> "SUBMITTED"]
After == [submit |-> "SUBMITTED", cancel |-> "CANCELLED"]
Last(s) == s[Len(s)]

(* compute_net_pl_for_fy: credits less debits of income and expense.       *)
NetProfit == -ledger[PnL]

(* Mutant: the row of the document is not locked.                          *)
EditUnlocked(d, x) ==
    /\ Kind[d] # "closing" /\ status[d] = "DRAFT" /\ x # amount[d]
    /\ amount' = [amount EXCEPT ![d] = x]
    /\ UNCHANGED <<status, posts, ledger, balance, reg, history>>

(* Creating or updating a draft: a short transaction that locks the row.   *)
Edit(d, x) ==
    /\ Kind[d] # "closing" /\ status[d] = "DRAFT" /\ x # amount[d] /\ ~Locked(d)
    /\ amount' = [amount EXCEPT ![d] = x]
    /\ UNCHANGED <<status, posts, ledger, balance, reg, history>>

(* A manual journal locks its row before it is read, and guards what it    *)
(* has read then.  Its submit draws no code.                               *)
BeginJournal(r, d, op) ==
    /\ Idle(r) /\ Kind[d] = "journal" /\ ~Locked(d) /\ status[d] = Needs[op]
    /\ IF op = "submit" THEN Begin(r, "writing", op, d, amount[d])
                        ELSE Begin(r, "locked", op, d, -amount[d])
    /\ UNCHANGED <<tables, history>>

(* Every other document is first read and guarded without a lock; a        *)
(* closing voucher takes its amount from the ledger then.                  *)
Read(r, d, op) ==
    /\ Idle(r) /\ Kind[d] # "journal" /\ status[d] = Needs[op]
    /\ Kind[d] = "closing" /\ op = "submit" => NetProfit # 0
    /\ Begin(r, "read", op, d, IF Kind[d] = "closing" THEN NetProfit ELSE 0)
    /\ recancelled' = recancelled \cup {e \in {d} : Kind[d] = "closing" /\ op = "cancel" /\
                          \E q \in Requests \ {r} : reg[q] # Null /\ reg[q].doc = d /\ reg[q].op = "cancel"}
    /\ UNCHANGED <<tables, blurred>>

(* Mutant: the expense is guarded with the object it read before.          *)
MayProceedStale(d, op) == (op = "submit") <=> (posts[d] = <<>>)

(* An expense is refreshed and guarded again, a closing voucher is not.    *)
(* Then ensure_idempotent_absent, or there is a journal to reverse.        *)
MayProceed(d, op) ==
    /\ Kind[d] = "expense" => status[d] = Needs[op]
    /\ (op = "submit") <=> (posts[d] = <<>>)

(* lock_doc, and what is posted from here on: a cancel reverses the last   *)
(* journal of the document.                                                *)
Lock(r) ==
    /\ At(r, "read") /\ ~Locked(reg[r].doc) /\ MayProceed(reg[r].doc, reg[r].op)
    /\ LET d == reg[r].doc IN
       reg' = [reg EXCEPT
           ![r].pc = "locked",
           ![r].amount = IF reg[r].op = "cancel" THEN -Last(posts[d])
                         ELSE IF Kind[d] = "closing" THEN @ ELSE amount[d]]
    /\ UNCHANGED <<tables, history>>

(* Mutant: the code is drawn in a transaction of its own.                  *)
NumberAlone(r) ==
    /\ At(r, "locked")
    /\ reg' = [reg EXCEPT ![r].pc = "writing"]
    /\ UNCHANGED <<tables, history>>

(* generate_next_code: the JE counter of the company, locked till commit.  *)
Number(r) ==
    /\ At(r, "locked") /\ Counting = {}
    /\ reg' = [reg EXCEPT ![r].pc = "writing"]
    /\ UNCHANGED <<tables, history>>

CanFlush(r) == \A a \in reg[r].loaded : ~FlushedByOther(r, a)

(* Mutant: the balance of an account without a line is written, too.       *)
LoadAny(r, a) ==
    /\ At(r, "writing") /\ a \notin reg[r].loaded /\ CanFlush(r)
    /\ reg' = [reg EXCEPT
           ![r].loaded = @ \cup {a},
           ![r].flushed = reg[r].loaded,
           ![r].mine[a] = balance[a] + Side[reg[r].doc][a] * reg[r].amount]
    /\ UNCHANGED <<tables, history>>

(* _bump_account_balance of the next line; the query flushes the one       *)
(* before it, which waits for whoever has updated that account.            *)
Load(r, a) ==
    /\ At(r, "writing") /\ a \in LinesOf(reg[r].doc) \ reg[r].loaded /\ CanFlush(r)
    /\ reg' = [reg EXCEPT
           ![r].loaded = @ \cup {a},
           ![r].flushed = reg[r].loaded,
           ![r].mine[a] = balance[a] + Side[reg[r].doc][a] * reg[r].amount]
    /\ blurred' = blurred \cup {b \in {a} : \E q \in Requests \ {r} :
                      reg[q] # Null /\ a \in reg[q].loaded /\ (Manual(r) \/ Manual(q))}
    /\ UNCHANGED <<tables, recancelled>>

(* The last flush, the status of the document and the commit.              *)
Commit(r) ==
    /\ At(r, "writing") /\ reg[r].loaded = LinesOf(reg[r].doc) /\ CanFlush(r)
    /\ LET d == reg[r].doc IN
       /\ balance' = [a \in Accounts |-> IF a \in reg[r].loaded THEN reg[r].mine[a] ELSE balance[a]]
       /\ ledger' = [a \in Accounts |-> ledger[a] + Side[d][a] * reg[r].amount]
       /\ posts' = [posts EXCEPT ![d] = Append(@, reg[r].amount)]
       /\ status' = [status EXCEPT ![d] = After[reg[r].op]]
    /\ Done(r)
    /\ UNCHANGED <<amount, history>>

(* A refused guard, any other error, or the victim of a deadlock.          *)
Abort(r) ==
    /\ reg[r] # Null /\ Done(r)
    /\ UNCHANGED <<tables, history>>

(* Who waits for an account that another has updated and not committed.    *)
WaitsFor(r, q) ==
    /\ r # q /\ At(r, "writing") /\ reg[q] # Null
    /\ \E a \in reg[r].loaded : a \in reg[q].flushed /\ a \notin reg[r].flushed
Deadlocked(r, q) == WaitsFor(r, q) /\ WaitsFor(q, r)
Refused(r) == At(r, "read") /\ ~Locked(reg[r].doc) /\ ~MayProceed(reg[r].doc, reg[r].op)

Next ==
    \/ \E d \in Documents : \E x \in 1..MaxAmount[d] : Edit(d, x)
    \/ \E r \in Requests, d \in Documents, op \in Ops : BeginJournal(r, d, op) \/ Read(r, d, op)
    \/ \E r \in Requests : Lock(r) \/ Number(r) \/ Commit(r) \/ Abort(r)
    \/ \E r \in Requests, a \in Accounts : Load(r, a)

(* A request runs on; who waits for a lock gets it in its turn, since the  *)
(* database queues them (strong fairness: it is not free all the time);    *)
(* and of two requests that wait for each other the database ends one.     *)
Progress(r) ==
    \/ Lock(r) \/ Number(r) \/ Commit(r)
    \/ \E a \in Accounts : Load(r, a)
    \/ (Refused(r) \/ \E q \in Requests : Deadlocked(r, q)) /\ Abort(r)

Spec == Init /\ [][Next]_vars /\ \A r \in Requests : SF_vars(Progress(r))

-----------------------------------------------------------------------------
(* Type invariant of the documents, their journals and the requests.       *)
TypeOK ==
    /\ status \in [Documents -> Statuses]
    /\ amount \in [Documents -> Nat] /\ \A d \in Documents : amount[d] <= MaxAmount[d]
    /\ posts \in [Documents -> Seq(Int)]
    /\ ledger \in [Accounts -> Int] /\ balance \in [Accounts -> Int]
    /\ reg \in [Requests -> {Null} \cup Request]
    /\ \A r \in Requests : reg[r] # Null =>
           reg[r].flushed \subseteq reg[r].loaded /\ reg[r].loaded \subseteq LinesOf(reg[r].doc)
    /\ blurred \subseteq Accounts /\ recancelled \subseteq Documents

(* The cached balance of an account is the sum of its ledger entries,      *)
(* although it is read and written without a lock of its own: the counter  *)
(* of journal codes keeps automatic journals apart.  A manual submit,      *)
(* which draws no code, breaks it for the accounts it shares.              *)
BalancesExact == \A a \in Accounts \ blurred : balance[a] = ledger[a]

FollowsStatus(d) ==
    /\ status[d] = "DRAFT" => posts[d] = <<>>
    /\ status[d] = "SUBMITTED" => Len(posts[d]) = 1
    /\ status[d] = "CANCELLED" => Len(posts[d]) = 2 /\ posts[d][2] = -posts[d][1]

(* A document's journals follow its status: none, one, one and its         *)
(* reversal; unless a closing voucher was cancelled twice at once.         *)
JournalsFollowStatus == \A d \in Documents \ recancelled : FollowsStatus(d)

(* A journal or an expense is posted with the amount it has, although it   *)
(* may be edited up to the moment a submit has locked it.                  *)
PostedAsWritten ==
    \A d \in Documents : Kind[d] # "closing" /\ status[d] # "DRAFT" => posts[d][1] = amount[d]

(* Two requests that wait for each other's accounts: never two automatic   *)
(* ones, whatever the order of their lines.                                *)
OnlyManualsDeadlock ==
    \A r, q \in Requests : Deadlocked(r, q) => Manual(r) \/ Manual(q)

(* Every request ends: nobody waits for ever for a document, the counter   *)
(* or an account.                                                          *)
RequestsEnd == \A r \in Requests : reg[r] # Null ~> reg[r] = Null
=============================================================================
