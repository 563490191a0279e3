------------------------ MODULE GeneralLedgerProofs ------------------------
(***************************************************************************)
(* Proofs about the general ledger, for any documents, accounts, amounts   *)
(* and number of requests.                                                 *)
(*                                                                         *)
(* Whoever has read the balance of an account that is not blurred is alone *)
(* with it, so what it will write is the ledger's sum and its own effect   *)
(* (Sums).  Whoever has locked a document finds it as the guard left it    *)
(* (Holds); a closing voucher, which is not guarded again, only while it   *)
(* was not cancelled twice at once (Cancels).                              *)
(***************************************************************************)
EXTENDS GeneralLedger, TLAPS

Effect(d, a, x) == Side[d][a] * x
Busy(r) == At(r, "locked") \/ At(r, "writing")
Unattended(r) == At(r, "writing") /\ ~Manual(r)

(* Automatic journals are written one at a time, and so is a document.     *)
Alone ==
    /\ \A r, q \in Requests : Unattended(r) /\ Unattended(q) => r = q
    /\ \A r, q \in Requests : Busy(r) /\ Busy(q) /\ reg[r].doc = reg[q].doc => r = q
    /\ \A r \in Requests : reg[r] # Null /\ ~At(r, "writing") => reg[r].loaded = {}
    /\ \A r \in Requests : At(r, "read") => Kind[reg[r].doc] # "journal"

(* What a request will write to an account, and that nobody else will.     *)
Sums ==
    /\ \A r \in Requests, a \in Accounts : reg[r] # Null /\ a \in reg[r].loaded /\ a \notin blurred =>
           reg[r].mine[a] = ledger[a] + Effect(reg[r].doc, a, reg[r].amount)
    /\ \A r, q \in Requests, a \in Accounts :
           reg[r] # Null /\ reg[q] # Null /\ a \in reg[r].loaded /\ a \in reg[q].loaded /\ a \notin blurred
               => r = q

DraftEmpty == \A d \in Documents : status[d] = "DRAFT" <=> posts[d] = <<>>

(* What holds of a document while a request has it locked.                 *)
HoldsFor(d, op, x) ==
    /\ Kind[d] # "closing" => status[d] = Needs[op]
    /\ (op = "submit") <=> (posts[d] = <<>>)
    /\ Kind[d] # "closing" /\ op = "submit" => x = amount[d]
    /\ op = "cancel" => posts[d] # <<>> /\ (Len(posts[d]) = 1 => x = -posts[d][1])
Holds == \A r \in Requests : Busy(r) => HoldsFor(reg[r].doc, reg[r].op, reg[r].amount)

(* The cancels of a closing voucher, from their first read on.             *)
Cancels ==
    /\ \A r \in Requests : reg[r] # Null /\ reg[r].op = "cancel" /\ Kind[reg[r].doc] = "closing" =>
           posts[reg[r].doc] # <<>> /\ (reg[r].doc \notin recancelled => status[reg[r].doc] = "SUBMITTED")
    /\ \A r, q \in Requests :
           reg[r] # Null /\ reg[q] # Null /\ reg[r].op = "cancel" /\ reg[q].op = "cancel"
               /\ Kind[reg[r].doc] = "closing" /\ reg[r].doc = reg[q].doc
               /\ reg[r].doc \notin recancelled => r = q
    /\ \A d \in recancelled : Kind[d] = "closing"

Inductive ==
    /\ TypeOK /\ Alone /\ Sums /\ DraftEmpty /\ Holds /\ Cancels
    /\ BalancesExact /\ JournalsFollowStatus /\ PostedAsWritten

-----------------------------------------------------------------------------
(* The effect of a document on an account is a number, none without a line. *)
LEMMA EffectIsInt ==
    ASSUME NEW d \in Documents, NEW a \in Accounts, NEW x \in Int
    PROVE  Effect(d, a, x) \in Int /\ (a \notin LinesOf(d) => Effect(d, a, x) = 0)
<1>1. Side[d][a] \in {-1, 0, 1}
  BY LedgerAssumption
<1>2. CASE Side[d][a] = -1
  BY <1>2 DEF Effect, LinesOf
<1>3. CASE Side[d][a] = 0
  BY <1>3 DEF Effect, LinesOf
<1>4. CASE Side[d][a] = 1
  BY <1>4 DEF Effect, LinesOf
<1> QED
  BY <1>1, <1>2, <1>3, <1>4

(* One more journal of a document.                                         *)
LEMMA OneMore ==
    ASSUME NEW s \in Seq(Int), NEW x \in Int
    PROVE  /\ Append(s, x) \in Seq(Int) /\ Append(s, x) # <<>>
           /\ Len(Append(s, x)) = Len(s) + 1
           /\ s = <<>> => Len(Append(s, x)) = 1 /\ Append(s, x)[1] = x
           /\ s # <<>> => Append(s, x)[1] = s[1]
           /\ Len(s) = 1 => Append(s, x)[2] = x
<1>1. /\ Append(s, x) \in Seq(Int) /\ Len(Append(s, x)) = Len(s) + 1
      /\ Append(s, x)[Len(s) + 1] = x
      /\ \A i \in 1..Len(s) : Append(s, x)[i] = s[i]
  OBVIOUS
<1>2. Len(s) \in Nat /\ (s = <<>> <=> Len(s) = 0)
  OBVIOUS
<1>3. Append(s, x) # <<>>
  BY <1>1, <1>2
<1>4. s # <<>> => 1 \in 1..Len(s)
  BY <1>2
<1>5. s # <<>> => Append(s, x)[1] = s[1]
  BY <1>1, <1>4
<1> QED
  BY <1>1, <1>2, <1>3, <1>5

(* The last journal of a document that has one.                            *)
LEMMA LastType ==
    ASSUME NEW s \in Seq(Int), s # <<>>
    PROVE  Last(s) \in Int /\ (Len(s) = 1 => Last(s) = s[1])
BY DEF Last

(* A request that is under way is a record of its kind.                    *)
LEMMA RequestForm ==
    ASSUME TypeOK, NEW r \in Requests, reg[r] # Null
    PROVE  /\ reg[r] \in Request
           /\ reg[r].doc \in Documents /\ reg[r].op \in Ops /\ reg[r].amount \in Int
           /\ reg[r].loaded \subseteq Accounts /\ reg[r].mine \in [Accounts -> Int]
<1>1. reg[r] \in Request
  BY DEF TypeOK
<1> QED
  BY <1>1 DEF Request

LEMMA InitInductive == Init => Inductive
<1> SUFFICES ASSUME Init PROVE Inductive
  OBVIOUS
<1>1. TypeOK
  BY LedgerAssumption DEF Init, TypeOK, Statuses
<1>2. \A r \in Requests : reg[r] = Null
  BY DEF Init
<1>4. Alone /\ Holds
  BY <1>2 DEF Alone, Unattended, Busy, At, Holds
<1>5. Sums /\ Cancels
  BY <1>2 DEF Init, Sums, Cancels
<1>6. DraftEmpty
  BY DEF Init, DraftEmpty
<1>3. BalancesExact /\ JournalsFollowStatus /\ PostedAsWritten
  BY DEF Init, BalancesExact, JournalsFollowStatus, FollowsStatus, PostedAsWritten
<1> QED
  BY <1>1, <1>3, <1>4, <1>5, <1>6 DEF Inductive

(* A draft is edited: nobody has it locked.                                *)
LEMMA EditStep ==
    ASSUME Inductive, NEW d \in Documents, NEW x \in 1..MaxAmount[d], Edit(d, x)
    PROVE  Inductive'
<1>1. /\ amount'[d] = x /\ \A e \in Documents \ {d} : amount'[e] = amount[e]
      /\ status[d] = "DRAFT"
      /\ \A r \in Requests : Busy(r) => reg[r].doc # d
      /\ UNCHANGED <<status, posts, ledger, balance, reg, blurred, recancelled>>
  BY DEF Edit, Inductive, TypeOK, Locked, Busy, history
<1>2. TypeOK'
  BY <1>1, LedgerAssumption DEF Edit, Inductive, TypeOK
<1>3. Alone' /\ Sums' /\ DraftEmpty' /\ Cancels'
  BY <1>1 DEF Inductive, Alone, Unattended, Manual, Busy, At, Sums, DraftEmpty, Cancels
<1>4. Holds'
  BY <1>1, RequestForm DEF Inductive, Holds, HoldsFor, Busy, At
<1>5. BalancesExact' /\ JournalsFollowStatus' /\ PostedAsWritten'
  BY <1>1 DEF Inductive, BalancesExact, JournalsFollowStatus, FollowsStatus, PostedAsWritten
<1> QED
  BY <1>2, <1>3, <1>4, <1>5 DEF Inductive

(* A request whose own record changes, with no account loaded yet.         *)
LEMMA PhaseStep ==
    ASSUME Inductive, NEW r \in Requests, NEW rec \in Request,
           reg' = [reg EXCEPT ![r] = rec], rec.loaded = {}, rec.flushed = {},
           reg[r] # Null => reg[r].loaded = {},
           UNCHANGED <<tables, blurred>>
    PROVE  /\ reg'[r] = rec /\ rec # Null
           /\ \A q \in Requests \ {r} : reg'[q] = reg[q]
           /\ UNCHANGED <<status, amount, posts, ledger, balance, blurred>>
           /\ recancelled' \subseteq Documents => TypeOK'
           /\ Sums' /\ DraftEmpty' /\ BalancesExact' /\ PostedAsWritten'
<1>1. /\ reg'[r] = rec /\ rec # Null
      /\ \A q \in Requests \ {r} : reg'[q] = reg[q]
      /\ UNCHANGED <<status, amount, posts, ledger, balance, blurred>>
  BY LedgerAssumption DEF Inductive, TypeOK, tables
<1>2. recancelled' \subseteq Documents => TypeOK'
  BY <1>1 DEF Inductive, TypeOK
<1>3. Sums' /\ DraftEmpty' /\ BalancesExact' /\ PostedAsWritten'
  BY <1>1 DEF Inductive, Sums, DraftEmpty, BalancesExact, PostedAsWritten
<1> QED
  BY <1>1, <1>2, <1>3

(* A manual journal is locked, guarded and, to submit it, written at once. *)
LEMMA BeginJournalStep ==
    ASSUME Inductive, NEW r \in Requests, NEW d \in Documents, NEW op \in Ops, BeginJournal(r, d, op)
    PROVE  Inductive'
<1> DEFINE rec == [pc |-> IF op = "submit" THEN "writing" ELSE "locked", op |-> op, doc |-> d,
                   amount |-> IF op = "submit" THEN amount[d] ELSE -amount[d],
                   loaded |-> {}, flushed |-> {}, mine |-> [a \in Accounts |-> 0]]
<1>1. /\ reg' = [reg EXCEPT ![r] = rec] /\ rec \in Request
      /\ rec.loaded = {} /\ rec.flushed = {} /\ rec.op = op /\ rec.doc = d
      /\ rec.pc \in {"locked", "writing"} /\ (rec.pc = "writing" <=> op = "submit")
      /\ rec.amount = IF op = "submit" THEN amount[d] ELSE -amount[d]
  BY DEF BeginJournal, Begin, Request, Ops, Inductive, TypeOK
<1> HIDE DEF rec
<1>2. /\ Kind[d] = "journal" /\ status[d] = Needs[op] /\ reg[r] = Null
      /\ \A q \in Requests : Busy(q) => reg[q].doc # d
      /\ UNCHANGED <<tables, history>>
  BY DEF BeginJournal, Locked, Busy, Idle
<1>3. /\ reg'[r] = rec /\ rec # Null
      /\ \A q \in Requests \ {r} : reg'[q] = reg[q]
      /\ UNCHANGED <<status, amount, posts, ledger, balance, blurred, recancelled>>
      /\ TypeOK' /\ Sums' /\ DraftEmpty' /\ BalancesExact' /\ PostedAsWritten'
  BY <1>1, <1>2, PhaseStep, ZenonT(60) DEF history, Inductive, TypeOK
<1>4. Alone'
  <2>1. \A q \in Requests : Unattended(q)' => q # r /\ Unattended(q)
    BY <1>1, <1>2, <1>3 DEF Unattended, Manual, At
  <2>2. \A q \in Requests \ {r} : (Busy(q)' <=> Busy(q)) /\ (Busy(q) => reg'[q].doc # d)
    BY <1>2, <1>3 DEF Busy, At
  <2>3. \A q \in Requests : reg'[q] # Null /\ ~At(q, "writing")' => reg'[q].loaded = {}
    BY <1>1, <1>3 DEF Inductive, Alone, At
  <2>4. \A q \in Requests : At(q, "read")' => Kind[reg'[q].doc] # "journal"
    BY <1>1, <1>3 DEF Inductive, Alone, At
  <2> QED
    BY <1>1, <1>3, <2>1, <2>2, <2>3, <2>4 DEF Inductive, Alone
<1>5. Holds'
  <2>1. op = "submit" => posts[d] = <<>>
    BY <1>2 DEF Needs, Inductive, DraftEmpty
  <2>2. op = "cancel" => posts[d] # <<>> /\ Len(posts[d]) = 1 /\ posts[d][1] = amount[d]
    BY <1>2 DEF Needs, Inductive, DraftEmpty, JournalsFollowStatus, FollowsStatus, PostedAsWritten, Cancels
  <2> QED
    <3>1. HoldsFor(reg[r].doc, reg[r].op, reg[r].amount)'
      BY <1>1, <1>2, <1>3, <2>1, <2>2 DEF HoldsFor, Ops
    <3>2. \A q \in Requests \ {r} : Busy(q)' => HoldsFor(reg[q].doc, reg[q].op, reg[q].amount)'
      BY <1>3 DEF Inductive, Holds, HoldsFor, Busy, At
    <3> QED
      BY <1>3, <3>1, <3>2 DEF Holds, HoldsFor
<1>6. Cancels' /\ JournalsFollowStatus'
  BY <1>1, <1>2, <1>3 DEF Inductive, Cancels, JournalsFollowStatus, FollowsStatus
<1> QED
  BY <1>3, <1>4, <1>5, <1>6 DEF Inductive

(* A document is read without a lock.                                      *)
LEMMA ReadStep ==
    ASSUME Inductive, NEW r \in Requests, NEW d \in Documents, NEW op \in Ops, Read(r, d, op)
    PROVE  Inductive'
<1> DEFINE x == IF Kind[d] = "closing" THEN NetProfit ELSE 0
           rec == [pc |-> "read", op |-> op, doc |-> d, amount |-> x,
                   loaded |-> {}, flushed |-> {}, mine |-> [a \in Accounts |-> 0]]
<1>1. /\ reg' = [reg EXCEPT ![r] = rec] /\ rec \in Request
      /\ rec.loaded = {} /\ rec.flushed = {} /\ rec.op = op /\ rec.doc = d /\ rec.pc = "read"
  <2>1. x \in Int
    BY LedgerAssumption DEF NetProfit, Inductive, TypeOK
  <2> QED
    BY <2>1 DEF Read, Begin, Request
<1> HIDE DEF rec
<1>2. /\ Kind[d] # "journal" /\ status[d] = Needs[op] /\ reg[r] = Null
      /\ UNCHANGED <<tables, blurred>>
      /\ recancelled' \subseteq Documents /\ recancelled \subseteq recancelled'
      /\ recancelled' \subseteq recancelled \cup {d}
      /\ d \in recancelled' \ recancelled => Kind[d] = "closing" /\ op = "cancel"
      /\ Kind[d] = "closing" /\ op = "cancel" => \A q \in Requests \ {r} :
             reg[q] # Null /\ reg[q].doc = d /\ reg[q].op = "cancel" => d \in recancelled'
  BY DEF Read, Idle, Inductive, TypeOK
<1>3. /\ reg'[r] = rec /\ rec # Null
      /\ \A q \in Requests \ {r} : reg'[q] = reg[q]
      /\ UNCHANGED <<status, amount, posts, ledger, balance, blurred>>
      /\ TypeOK' /\ Sums' /\ DraftEmpty' /\ BalancesExact' /\ PostedAsWritten'
  BY <1>1, <1>2, PhaseStep
<1>4. Alone'
  BY <1>1, <1>2, <1>3 DEF Inductive, Alone, Unattended, Manual, Busy, At
<1>7. Holds'
  BY <1>1, <1>3 DEF Inductive, Holds, HoldsFor, Busy, At
<1>5. Cancels'
  <2>1. op = "cancel" => posts[d] # <<>> /\ status[d] = "SUBMITTED"
    BY <1>2 DEF Needs, Inductive, DraftEmpty
  <2> QED
    BY <1>1, <1>2, <1>3, <2>1 DEF Inductive, Cancels
<1>6. JournalsFollowStatus'
  BY <1>2, <1>3 DEF Inductive, JournalsFollowStatus, FollowsStatus
<1> QED
  BY <1>3, <1>4, <1>5, <1>6, <1>7 DEF Inductive

(* A document is locked, and an expense guarded again.                     *)
LEMMA LockStep ==
    ASSUME Inductive, NEW r \in Requests, Lock(r)
    PROVE  Inductive'
<1> DEFINE d == reg[r].doc
           op == reg[r].op
           x == IF op = "cancel" THEN -Last(posts[d])
                ELSE IF Kind[d] = "closing" THEN reg[r].amount ELSE amount[d]
           rec == [reg[r] EXCEPT !.pc = "locked", !.amount = x]
<1>1. /\ reg[r] \in Request /\ d \in Documents /\ op \in Ops /\ reg[r].amount \in Int
      /\ reg[r] # Null /\ reg[r].pc = "read" /\ reg[r].loaded = {} /\ reg[r].flushed = {}
      /\ MayProceed(d, op)
      /\ \A q \in Requests : Busy(q) => reg[q].doc # d
      /\ UNCHANGED <<tables, history>>
  BY RequestForm DEF Lock, At, Locked, Busy, Inductive, Alone, TypeOK
<1>2. /\ posts[d] \in Seq(Int) /\ (op = "submit" <=> posts[d] = <<>>)
      /\ Kind[d] = "expense" => status[d] = Needs[op]
  BY <1>1 DEF MayProceed, Inductive, TypeOK
<1>3. /\ x \in Int
      /\ op = "cancel" => posts[d] # <<>> /\ (Len(posts[d]) = 1 => x = -posts[d][1])
  BY <1>1, <1>2, LastType DEF Inductive, TypeOK, Ops
<1> HIDE DEF x
<1>4. /\ reg' = [reg EXCEPT ![r] = rec] /\ rec \in Request
      /\ rec.loaded = {} /\ rec.flushed = {} /\ rec.op = op /\ rec.doc = d /\ rec.pc = "locked"
      /\ rec.amount = x
  BY <1>1, <1>3 DEF Lock, Request, x, Inductive, TypeOK
<1>5. /\ reg'[r] = rec /\ rec # Null
      /\ \A q \in Requests \ {r} : reg'[q] = reg[q]
      /\ UNCHANGED <<status, amount, posts, ledger, balance, blurred, recancelled>>
      /\ TypeOK' /\ Sums' /\ DraftEmpty' /\ BalancesExact' /\ PostedAsWritten'
  BY <1>1, <1>4, PhaseStep, ZenonT(60) DEF history, Inductive, TypeOK
<1> HIDE DEF rec
<1>6. Kind[d] # "journal"
  BY <1>1 DEF Inductive, Alone, At
<1>7. Alone'
  BY <1>1, <1>4, <1>5 DEF Inductive, Alone, Unattended, Manual, Busy, At
<1>8. Holds'
  <2>1. Kind[d] \in {"expense", "closing"}
    BY <1>1, <1>6, LedgerAssumption
  <2>2. Kind[d] # "closing" /\ op = "submit" => x = amount[d]
    BY DEF x
  <2> QED
    <3>1. HoldsFor(reg[r].doc, reg[r].op, reg[r].amount)'
      BY <1>2, <1>3, <1>4, <1>5, <2>1, <2>2 DEF HoldsFor
    <3>2. \A q \in Requests \ {r} : Busy(q)' => HoldsFor(reg[q].doc, reg[q].op, reg[q].amount)'
      BY <1>5 DEF Inductive, Holds, HoldsFor, Busy, At
    <3> QED
      BY <1>5, <3>1, <3>2 DEF Holds, HoldsFor
<1>9. Cancels'
  BY <1>1, <1>4, <1>5 DEF Inductive, Cancels
<1>10. JournalsFollowStatus'
  BY <1>5 DEF Inductive, JournalsFollowStatus, FollowsStatus
<1> QED
  BY <1>5, <1>7, <1>8, <1>9, <1>10 DEF Inductive

(* The counter is taken: no other automatic journal is being written.      *)
LEMMA NumberStep ==
    ASSUME Inductive, NEW r \in Requests, Number(r)
    PROVE  Inductive'
<1> DEFINE rec == [reg[r] EXCEPT !.pc = "writing"]
<1>1. /\ reg[r] \in Request /\ reg[r] # Null
      /\ reg[r].pc = "locked" /\ reg[r].loaded = {} /\ reg[r].flushed = {}
      /\ \A q \in Requests : ~Unattended(q)
      /\ UNCHANGED <<tables, history>>
  BY RequestForm DEF Number, At, Counting, Unattended, Inductive, Alone, TypeOK
<1>2. /\ reg' = [reg EXCEPT ![r] = rec] /\ rec \in Request
      /\ rec.loaded = {} /\ rec.flushed = {} /\ rec.pc = "writing"
      /\ rec.op = reg[r].op /\ rec.doc = reg[r].doc /\ rec.amount = reg[r].amount
  BY <1>1 DEF Number, Request, Inductive, TypeOK
<1>3. /\ reg'[r] = rec /\ rec # Null
      /\ \A q \in Requests \ {r} : reg'[q] = reg[q]
      /\ UNCHANGED <<status, amount, posts, ledger, balance, blurred, recancelled>>
      /\ TypeOK' /\ Sums' /\ DraftEmpty' /\ BalancesExact' /\ PostedAsWritten'
  BY <1>1, <1>2, PhaseStep DEF history, Inductive, TypeOK
<1> HIDE DEF rec
<1>4. Alone'
  BY <1>1, <1>2, <1>3 DEF Inductive, Alone, Unattended, Manual, Busy, At
<1>5. Holds'
  BY <1>1, <1>2, <1>3 DEF Inductive, Holds, HoldsFor, Busy, At
<1>6. Cancels'
  BY <1>1, <1>2, <1>3 DEF Inductive, Cancels
<1>7. JournalsFollowStatus'
  BY <1>3 DEF Inductive, JournalsFollowStatus, FollowsStatus
<1> QED
  BY <1>3, <1>4, <1>5, <1>6, <1>7 DEF Inductive

(* A balance is read: alone, or by a manual submit that blurs it.          *)
LEMMA LoadStep ==
    ASSUME Inductive, NEW r \in Requests, NEW a \in Accounts, Load(r, a)
    PROVE  Inductive'
<1> DEFINE d == reg[r].doc
           new == balance[a] + Effect(d, a, reg[r].amount)
           rec == [reg[r] EXCEPT !.loaded = @ \cup {a}, !.flushed = reg[r].loaded, !.mine[a] = new]
<1>1. /\ reg[r] \in Request /\ reg[r] # Null /\ reg[r].pc = "writing"
      /\ d \in Documents /\ reg[r].amount \in Int /\ reg[r].loaded \subseteq Accounts
      /\ reg[r].mine \in [Accounts -> Int]
      /\ a \in LinesOf(d) \ reg[r].loaded
      /\ UNCHANGED <<tables, recancelled>>
  BY RequestForm DEF Load, At, Inductive
<1>2. new \in Int
  <2>1. Effect(d, a, reg[r].amount) \in Int
    BY <1>1, EffectIsInt
  <2>2. balance[a] \in Int
    BY DEF Inductive, TypeOK
  <2> QED
    BY <2>1, <2>2
<1>3. reg' = [reg EXCEPT ![r] = rec]
  BY <1>1 DEF Load, Effect, Inductive, TypeOK, Request
<1> HIDE DEF new
<1>4. /\ rec \in Request /\ rec.pc = "writing"
      /\ rec.op = reg[r].op /\ rec.doc = d /\ rec.amount = reg[r].amount
      /\ rec.loaded = reg[r].loaded \cup {a} /\ rec.flushed = reg[r].loaded
      /\ rec.mine[a] = new
      /\ \A b \in Accounts \ {a} : rec.mine[b] = reg[r].mine[b]
  BY <1>1, <1>2 DEF Request
<1>5. /\ reg'[r] = rec /\ rec # Null
      /\ \A q \in Requests \ {r} : reg'[q] = reg[q]
      /\ UNCHANGED <<status, amount, posts, ledger, balance, recancelled>>
  BY <1>1, <1>3, <1>4, LedgerAssumption DEF Inductive, TypeOK, tables
<1> HIDE DEF rec
<1>6. /\ blurred \subseteq blurred' /\ blurred' \subseteq Accounts
      /\ \A q \in Requests \ {r} : reg[q] # Null /\ a \in reg[q].loaded /\ (Manual(r) \/ Manual(q))
             => a \in blurred'
  BY DEF Load, Inductive, TypeOK
<1>7. TypeOK'
  <2>1. reg' \in [Requests -> {Null} \cup Request]
    BY <1>3, <1>4 DEF Inductive, TypeOK
  <2>2. \A q \in Requests : reg'[q] # Null =>
            reg'[q].flushed \subseteq reg'[q].loaded /\ reg'[q].loaded \subseteq LinesOf(reg'[q].doc)
    BY <1>1, <1>4, <1>5, ZenonT(60) DEF Inductive, TypeOK
  <2> QED
    BY <1>5, <1>6, <2>1, <2>2 DEF Inductive, TypeOK
<1>8. Alone'
  BY <1>1, <1>4, <1>5 DEF Inductive, Alone, Unattended, Manual, Busy, At
<1>9. Sums'
  <2>1. \A q \in Requests \ {r} : reg[q] # Null /\ a \in reg[q].loaded => a \in blurred'
    <3> SUFFICES ASSUME NEW q \in Requests \ {r}, reg[q] # Null, a \in reg[q].loaded
                 PROVE  a \in blurred'
      OBVIOUS
    <3>1. At(q, "writing") /\ At(r, "writing")
      BY <1>1 DEF Inductive, Alone, At
    <3>2. Manual(r) \/ Manual(q)
      BY <3>1 DEF Inductive, Alone, Unattended
    <3> QED
      BY <1>6, <3>2
  <2>2. a \notin blurred' => new = ledger[a] + Effect(d, a, reg[r].amount)
    BY <1>6 DEF new, Inductive, BalancesExact
  <2>3. \A q \in Requests, b \in Accounts : reg'[q] # Null /\ b \in reg'[q].loaded /\ b \notin blurred' =>
            reg'[q].mine[b] = ledger'[b] + Effect(reg'[q].doc, b, reg'[q].amount)
    BY <1>1, <1>4, <1>5, <1>6, <2>2 DEF Inductive, Sums
  <2>4. \A p, q \in Requests, b \in Accounts :
            reg'[p] # Null /\ reg'[q] # Null /\ b \in reg'[p].loaded /\ b \in reg'[q].loaded
                /\ b \notin blurred' => p = q
    BY <1>1, <1>4, <1>5, <1>6, <2>1 DEF Inductive, Sums
  <2> QED
    BY <2>3, <2>4 DEF Sums
<1>10. Holds'
  BY <1>1, <1>4, <1>5 DEF Inductive, Holds, HoldsFor, Busy, At
<1>12. Cancels'
  BY <1>1, <1>4, <1>5 DEF Inductive, Cancels
<1>11. DraftEmpty' /\ BalancesExact' /\ JournalsFollowStatus' /\ PostedAsWritten'
  BY <1>5, <1>6 DEF Inductive, DraftEmpty, BalancesExact, JournalsFollowStatus, FollowsStatus, PostedAsWritten
<1> QED
  BY <1>7, <1>8, <1>9, <1>10, <1>11, <1>12 DEF Inductive

(* A journal is committed with the balances and the document's status.     *)
LEMMA CommitStep ==
    ASSUME Inductive, NEW r \in Requests, Commit(r)
    PROVE  Inductive'
<1> DEFINE d == reg[r].doc
           op == reg[r].op
           x == reg[r].amount
<1>1. /\ reg[r] # Null /\ d \in Documents /\ op \in Ops /\ x \in Int /\ At(r, "writing")
      /\ reg[r].loaded = LinesOf(d) /\ reg[r].mine \in [Accounts -> Int]
      /\ posts[d] \in Seq(Int) /\ status[d] \in Statuses
  BY RequestForm DEF Commit, At, Inductive, TypeOK
<1>2. /\ \A a \in Accounts : ledger'[a] = ledger[a] + Effect(d, a, x)
      /\ \A a \in Accounts : balance'[a] = IF a \in reg[r].loaded THEN reg[r].mine[a] ELSE balance[a]
      /\ posts'[d] = Append(posts[d], x) /\ status'[d] = After[op]
      /\ \A e \in Documents \ {d} : posts'[e] = posts[e] /\ status'[e] = status[e]
      /\ reg'[r] = Null
      /\ \A q \in Requests \ {r} : reg'[q] = reg[q]
      /\ UNCHANGED <<amount, blurred, recancelled>>
  BY <1>1 DEF Commit, Done, Effect, history, Inductive, TypeOK
<1>3. /\ posts'[d] \in Seq(Int) /\ posts'[d] # <<>> /\ Len(posts'[d]) = Len(posts[d]) + 1
      /\ posts[d] = <<>> => Len(posts'[d]) = 1 /\ posts'[d][1] = x
      /\ posts[d] # <<>> => posts'[d][1] = posts[d][1]
      /\ Len(posts[d]) = 1 => posts'[d][2] = x
  BY <1>1, <1>2, OneMore
<1>4. /\ Kind[d] # "closing" => status[d] = Needs[op]
      /\ (op = "submit") <=> (posts[d] = <<>>)
      /\ Kind[d] # "closing" /\ op = "submit" => x = amount[d]
      /\ op = "cancel" => posts[d] # <<>> /\ (Len(posts[d]) = 1 => x = -posts[d][1])
  BY <1>1 DEF Inductive, Holds, HoldsFor, Busy
<1>5. status'[d] # "DRAFT" /\ status'[d] \in Statuses
  BY <1>1, <1>2 DEF After, Statuses, Ops
<1>6. \A q \in Requests \ {r} : Busy(q) => reg[q].doc # d
  BY <1>1 DEF Inductive, Alone, Busy
<1>7. TypeOK'
  <2>1. /\ status' \in [Documents -> Statuses] /\ reg' \in [Requests -> {Null} \cup Request]
        /\ posts' \in [Documents -> Seq(Int)]
    BY <1>1, <1>2, <1>3, <1>5 DEF Commit, Done, Inductive, TypeOK
  <2>4. \A a \in Accounts : Effect(d, a, x) \in Int
    BY <1>1, EffectIsInt
  <2>2. \A a \in Accounts : ledger'[a] \in Int /\ balance'[a] \in Int
    BY <1>1, <1>2, <2>4 DEF Inductive, TypeOK
  <2>3. ledger' \in [Accounts -> Int] /\ balance' \in [Accounts -> Int]
    BY <2>2 DEF Commit
  <2> QED
    BY <1>2, <2>1, <2>3 DEF Inductive, TypeOK
<1>8. Alone'
  BY <1>2 DEF Inductive, Alone, Unattended, Manual, Busy, At
<1>9. BalancesExact'
  <2> SUFFICES ASSUME NEW a \in Accounts, a \notin blurred
               PROVE  balance'[a] = ledger'[a]
    BY <1>2 DEF BalancesExact
  <2>1. CASE a \in reg[r].loaded
    BY <1>1, <1>2, <2>1 DEF Inductive, Sums
  <2>2. CASE a \notin reg[r].loaded
    <3>1. Effect(d, a, x) = 0 /\ ledger[a] \in Int
      BY <1>1, <2>2, EffectIsInt DEF Inductive, TypeOK
    <3> QED
      BY <1>2, <2>2, <3>1 DEF Inductive, BalancesExact
  <2> QED
    BY <2>1, <2>2
<1>10. Sums'
  <2>1. \A q \in Requests, a \in Accounts : reg'[q] # Null /\ a \in reg'[q].loaded /\ a \notin blurred' =>
            reg'[q].mine[a] = ledger'[a] + Effect(reg'[q].doc, a, reg'[q].amount)
    <3> SUFFICES ASSUME NEW q \in Requests \ {r}, NEW a \in Accounts, reg[q] # Null,
                        a \in reg[q].loaded, a \notin blurred
                 PROVE  reg[q].mine[a] = ledger'[a] + Effect(reg[q].doc, a, reg[q].amount)
      BY <1>2
    <3>1. a \notin LinesOf(d)
      BY <1>1 DEF Inductive, Sums
    <3>2. ledger'[a] = ledger[a]
      BY <1>1, <1>2, <3>1, EffectIsInt DEF Inductive, TypeOK
    <3> QED
      BY <3>2 DEF Inductive, Sums
  <2> QED
    BY <1>2, <2>1 DEF Inductive, Sums
<1>11. DraftEmpty'
  BY <1>2, <1>3, <1>5 DEF Inductive, DraftEmpty
<1>12. Holds'
  <2> SUFFICES ASSUME NEW q \in Requests, Busy(q)'
               PROVE  HoldsFor(reg[q].doc, reg[q].op, reg[q].amount)'
    BY <1>2 DEF Holds
  <2>1. q # r /\ reg'[q] = reg[q] /\ Busy(q)
    BY <1>2 DEF Busy, At
  <2>2. reg[q].doc # d /\ reg[q].doc \in Documents
    BY <1>6, <2>1, RequestForm DEF Inductive, Busy, At
  <2> QED
    BY <1>2, <2>1, <2>2 DEF Inductive, Holds, HoldsFor
<1>13. Cancels'
  <2>1. \A q \in Requests \ {r} : reg[q] # Null /\ reg[q].op = "cancel" /\ Kind[reg[q].doc] = "closing"
            /\ reg[q].doc = d => d \in recancelled
    <3> SUFFICES ASSUME NEW q \in Requests \ {r}, reg[q] # Null, reg[q].op = "cancel",
                        Kind[d] = "closing", reg[q].doc = d, d \notin recancelled
                 PROVE  FALSE
      OBVIOUS
    <3>1. posts[d] # <<>>
      BY DEF Inductive, Cancels
    <3>2. op = "cancel"
      BY <1>1, <1>4, <3>1 DEF Ops
    <3> QED
      BY <1>1, <3>2 DEF Inductive, Cancels
  <2>2. \A q \in Requests \ {r} : reg[q] # Null => reg[q].doc \in Documents
    BY RequestForm DEF Inductive
  <2>3. \A q \in Requests : reg'[q] # Null /\ reg'[q].op = "cancel" /\ Kind[reg'[q].doc] = "closing" =>
            posts'[reg'[q].doc] # <<>> /\ (reg'[q].doc \notin recancelled' => status'[reg'[q].doc] = "SUBMITTED")
    BY <1>2, <1>3, <2>1, <2>2 DEF Inductive, Cancels
  <2> QED
    BY <1>2, <2>3 DEF Inductive, Cancels
<1>14. JournalsFollowStatus'
  <2>1. d \notin recancelled => status[d] = Needs[op]
    <3>1. CASE Kind[d] # "closing"
      BY <1>4, <3>1
    <3>2. CASE Kind[d] = "closing" /\ op = "cancel"
      BY <1>1, <3>2 DEF Inductive, Cancels, Needs
    <3>3. CASE Kind[d] = "closing" /\ op = "submit"
      BY <1>1, <1>4, <3>3 DEF Inductive, DraftEmpty, Needs
    <3> QED
      BY <1>1, <3>1, <3>2, <3>3 DEF Ops
  <2>5. \A e \in Documents \ {d} : FollowsStatus(e) => FollowsStatus(e)'
    BY <1>2 DEF FollowsStatus
  <2>2. CASE op = "submit"
    <3>1. status'[d] = "SUBMITTED" /\ Len(posts'[d]) = 1
      BY <1>2, <1>3, <1>4, <2>2 DEF After
    <3>2. \A e \in Documents : e = d => FollowsStatus(e)'
      BY <3>1 DEF FollowsStatus
    <3> QED
      BY <1>2, <2>5, <3>2 DEF Inductive, JournalsFollowStatus
  <2>3. CASE op = "cancel" /\ d \notin recancelled
    <3>1. Len(posts[d]) = 1
      BY <1>1, <2>1, <2>3 DEF Needs, Inductive, JournalsFollowStatus, FollowsStatus
    <3>2. Len(posts'[d]) = 2 /\ posts'[d][2] = -posts'[d][1]
      BY <1>3, <1>4, <2>3, <3>1
    <3>3. status'[d] = "CANCELLED"
      BY <1>2, <2>3 DEF After
    <3>4. \A e \in Documents : e = d => FollowsStatus(e)'
      BY <3>2, <3>3 DEF FollowsStatus
    <3> QED
      BY <1>2, <2>5, <3>4 DEF Inductive, JournalsFollowStatus
  <2>4. CASE d \in recancelled
    BY <1>2, <2>4, <2>5 DEF Inductive, JournalsFollowStatus
  <2> QED
    BY <1>1, <2>2, <2>3, <2>4 DEF Ops
<1>15. PostedAsWritten'
  <2>1. Kind[d] # "closing" => posts'[d][1] = amount[d]
    <3>1. CASE op = "submit"
      BY <1>3, <1>4, <3>1
    <3>2. CASE op = "cancel" /\ Kind[d] # "closing"
      BY <1>1, <1>3, <1>4, <3>2 DEF Needs, Inductive, PostedAsWritten
    <3> QED
      BY <1>1, <3>1, <3>2 DEF Ops
  <2> QED
    BY <1>2, <2>1 DEF Inductive, PostedAsWritten
<1> QED
  BY <1>7, <1>8, <1>9, <1>10, <1>11, <1>12, <1>13, <1>14, <1>15 DEF Inductive

(* A request that fails leaves nothing.                                    *)
LEMMA AbortStep ==
    ASSUME Inductive, NEW r \in Requests, Abort(r)
    PROVE  Inductive'
<1>1. /\ reg'[r] = Null
      /\ \A q \in Requests \ {r} : reg'[q] = reg[q]
      /\ UNCHANGED <<status, amount, posts, ledger, balance, blurred, recancelled>>
  BY DEF Abort, Done, tables, history, Inductive, TypeOK
<1>2. TypeOK'
  BY <1>1 DEF Abort, Done, Inductive, TypeOK
<1>3. Alone' /\ Sums' /\ DraftEmpty'
  BY <1>1 DEF Inductive, Alone, Unattended, Manual, Busy, At, Sums, DraftEmpty
<1>6. Holds'
  BY <1>1 DEF Inductive, Holds, HoldsFor, Busy, At
<1>4. Cancels'
  BY <1>1 DEF Inductive, Cancels
<1>5. BalancesExact' /\ JournalsFollowStatus' /\ PostedAsWritten'
  BY <1>1 DEF Inductive, BalancesExact, JournalsFollowStatus, FollowsStatus, PostedAsWritten
<1> QED
  BY <1>2, <1>3, <1>4, <1>5, <1>6 DEF Inductive

LEMMA StepInductive == Inductive /\ [Next]_vars => Inductive'
<1> SUFFICES ASSUME Inductive, [Next]_vars PROVE Inductive'
  OBVIOUS
<1>1. CASE Next
  BY <1>1, EditStep, BeginJournalStep, ReadStep, LockStep, NumberStep, CommitStep, AbortStep, LoadStep
     DEF Next
<1>2. CASE UNCHANGED vars
  <2>1. TypeOK' /\ Alone' /\ Sums' /\ DraftEmpty'
    BY <1>2 DEF vars, Inductive, TypeOK, Alone, Unattended, Manual, Busy, At, Sums, DraftEmpty
  <2>2. Holds'
    BY <1>2 DEF vars, Inductive, Holds, HoldsFor, Busy, At
  <2>3. Cancels' /\ BalancesExact' /\ JournalsFollowStatus' /\ PostedAsWritten'
    BY <1>2 DEF vars, Inductive, Cancels, BalancesExact, JournalsFollowStatus, FollowsStatus, PostedAsWritten
  <2> QED
    BY <2>1, <2>2, <2>3 DEF Inductive
<1> QED
  BY <1>1, <1>2

LEMMA SpecInductive == Spec => []Inductive
BY InitInductive, StepInductive, PTL DEF Spec

(* Documents, journals, sums and requests keep their types.                *)
THEOREM TypeCorrect == Spec => []TypeOK
BY SpecInductive, PTL DEF Inductive

(* A cached balance is the sum of its ledger entries, unless a manual      *)
(* submit wrote the account at once with another request.                  *)
THEOREM CachedIsLedger == Spec => []BalancesExact
BY SpecInductive, PTL DEF Inductive

(* None, one, or one journal and its reversal, as the document's status    *)
(* says; unless a closing voucher was cancelled twice at once.             *)
THEOREM JournalsCorrect == Spec => []JournalsFollowStatus
BY SpecInductive, PTL DEF Inductive

(* A journal or an expense is posted with the amount it has.               *)
THEOREM AmountsCorrect == Spec => []PostedAsWritten
BY SpecInductive, PTL DEF Inductive

(* Two automatic journals never wait for each other's accounts.            *)
THEOREM NoAutomaticDeadlock == Spec => []OnlyManualsDeadlock
<1>1. Inductive => OnlyManualsDeadlock
  BY DEF Inductive, Alone, Unattended, OnlyManualsDeadlock, Deadlocked, WaitsFor
<1> QED
  BY <1>1, SpecInductive, PTL
=============================================================================
