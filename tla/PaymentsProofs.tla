--------------------------- MODULE PaymentsProofs ---------------------------
(***************************************************************************)
(* Proofs about payment entries, for any number of requests, payments and  *)
(* invoices and any bound.  Inductive carries the locks: one request at    *)
(* most is past the lock of a payment, and one at most past the JE         *)
(* counter.  Full adds the amounts: the lines of a payment are worth what  *)
(* was paid at most, none of them is of a return, and the invoices are     *)
(* what is left of them.  In between are the folds over lists of lines:    *)
(* one exists, it is unique, and it stays where each of its steps stays.   *)
(***************************************************************************)
EXTENDS Payments, FiniteSetTheorems, WellFoundedInduction, TLAPS

Past(r) == reg[r] # Null /\ reg[r].pc # "read"
Posted(r) == reg[r] # Null /\ reg[r].pc = "posted"

TablesOK ==
    /\ status \in [Payments -> {"none", "draft", "submitted", "cancelled"}]
    /\ header \in [Payments -> Headers \cup {Null}]
    /\ journal \in [Payments -> Seq([type : {"AUTO", "REVERSAL"}, amount : Int])]
    /\ DOMAIN reg = Requests
    /\ \A r \in Requests : reg[r] # Null =>
          /\ reg[r].op \in {"submit", "cancel"} /\ reg[r].pay \in Payments
          /\ reg[r].pc \in {"read", "locked", "posted"}

(* The row lock and the guard repeated under it.                           *)
LocksOK ==
    /\ \A r, s \in Requests : Past(r) /\ Past(s) /\ reg[r].pay = reg[s].pay => r = s
    /\ \A r, s \in Requests : Posted(r) /\ Posted(s) => r = s
    /\ \A r \in Requests : Past(r) => status[reg[r].pay] = Before[reg[r].op]

(* A payment past creation has a header, and the journal a request is      *)
(* about to commit is the one its payment calls for.                       *)
HeadersOK == \A p \in Payments : status[p] # "none" => header[p] \in Headers
EntriesOK == \A r \in Requests : Posted(r) => reg[r].entry = Journal(reg[r].op, reg[r].pay)

Inductive ==
    /\ TablesOK /\ LocksOK /\ HeadersOK /\ EntriesOK
    /\ WritesAreCurrent /\ JournalFollowsStatus

(* The empty tables satisfy the invariant.                                 *)
LEMMA InitInductive == Init => Inductive
BY DEF Init, Inductive, TablesOK, LocksOK, HeadersOK, EntriesOK, WritesAreCurrent,
       JournalFollowsStatus, Past, Posted, Docs

-----------------------------------------------------------------------------
(* The journal a request computes has the right type and, for a cancel,    *)
(* takes back what the submit posted.                                      *)
LEMMA EntryOfSubmit ==
    ASSUME Inductive, NEW p \in Payments, status[p] = "draft"
    PROVE  /\ Journal("submit", p) = [type |-> "AUTO", amount |-> header[p].paid]
           /\ Journal("submit", p) \in [type : {"AUTO", "REVERSAL"}, amount : Int]
           /\ journal[p] = <<>>
<1>1. header[p].paid \in Int
  BY PaymentsAssumption DEF Inductive, HeadersOK, Headers
<1>2. journal[p] = <<>>
  BY DEF Inductive, JournalFollowsStatus
<1> QED BY <1>1, <1>2 DEF Journal

LEMMA EntryOfCancel ==
    ASSUME Inductive, NEW p \in Payments, status[p] = "submitted"
    PROVE  /\ Len(journal[p]) = 1
           /\ journal[p][1].type = "AUTO"
           /\ Journal("cancel", p) = [type |-> "REVERSAL", amount |-> -journal[p][1].amount]
           /\ Journal("cancel", p) \in [type : {"AUTO", "REVERSAL"}, amount : Int]
<1>1. header[p].paid \in Int
  BY PaymentsAssumption DEF Inductive, HeadersOK, Headers
<1>2. Len(journal[p]) = 1 /\ journal[p][1] = [type |-> "AUTO", amount |-> header[p].paid]
  BY DEF Inductive, JournalFollowsStatus
<1>3. Last(journal[p]) = journal[p][1]
  BY <1>2 DEF Last
<1> QED BY <1>1, <1>2, <1>3 DEF Journal

(* A step that moves one request and leaves the tables alone.              *)
LEMMA MoveStep ==
    ASSUME Inductive, NEW r \in Requests, NEW p \in Payments, NEW x,
           reg' = [reg EXCEPT ![r] = x],
           UNCHANGED <<outstanding, status, header, items, journal>>,
           x # Null => /\ x.op \in {"submit", "cancel"} /\ x.pay = p
                       /\ x.pc \in {"read", "locked", "posted"},
           x # Null /\ x.pc # "read" => /\ \A s \in Requests \ {r} : Past(s) => reg[s].pay # p
                                        /\ status[p] = Before[x.op],
           x # Null /\ x.pc = "posted" => /\ \A s \in Requests \ {r} : ~Posted(s)
                                          /\ x.entry = Journal(x.op, p)
                                          /\ x.out = Allocate(outstanding, x.lines, Sign(x.op))
    PROVE  Inductive'
<1>1. reg'[r] = x /\ \A s \in Requests \ {r} : reg'[s] = reg[s]
  BY DEF Inductive, TablesOK
<1>2. TablesOK'
  BY <1>1 DEF Inductive, TablesOK
<1>3. \A s \in Requests \ {r} : /\ Past(s)' <=> Past(s)
                                /\ Posted(s)' <=> Posted(s)
  BY <1>1 DEF Past, Posted
<1>4. LocksOK'
  BY <1>1, <1>3 DEF Inductive, LocksOK, Past, Posted
<1>5. HeadersOK' /\ JournalFollowsStatus'
  BY DEF Inductive, HeadersOK, JournalFollowsStatus
<1>6. EntriesOK'
  <2> SUFFICES ASSUME NEW s \in Requests, Posted(s)'
               PROVE  (reg[s].entry = Journal(reg[s].op, reg[s].pay))'
    BY DEF EntriesOK
  <2>1. header' = header /\ journal' = journal
    OBVIOUS
  <2>2. CASE s = r
    BY <1>1, <2>1, <2>2 DEF Posted, Journal
  <2>3. CASE s # r
    BY <1>1, <1>3, <2>1, <2>3 DEF Inductive, EntriesOK, Posted, Journal
  <2> QED
    BY <2>2, <2>3
<1>7. WritesAreCurrent'
  BY <1>1, <1>3 DEF Inductive, WritesAreCurrent, Posted
<1> QED
  BY <1>2, <1>4, <1>5, <1>6, <1>7 DEF Inductive

-----------------------------------------------------------------------------
(* A new or edited payment: a draft that no request holds.                 *)
LEMMA EditStep ==
    ASSUME Inductive, NEW p \in Payments, NEW h \in Headers,
           status[p] \in {"none", "draft"},
           \A r \in Requests : reg[r] # Null /\ reg[r].pay = p => reg[r].pc = "read",
           header' = [header EXCEPT ![p] = h],
           status' = [status EXCEPT ![p] = "draft"],
           UNCHANGED <<outstanding, journal, reg>>
    PROVE  Inductive'
<1>1. /\ header'[p] = h /\ status'[p] = "draft"
      /\ \A q \in Payments \ {p} : header'[q] = header[q] /\ status'[q] = status[q]
  BY DEF Inductive, TablesOK
<1>2. TablesOK'
  BY DEF Inductive, TablesOK
<1>3. \A r \in Requests : Past(r)' = Past(r) /\ Posted(r)' = Posted(r)
  BY DEF Past, Posted
<1>4. \A r \in Requests : Past(r) => reg[r].pay \in Payments \ {p}
  BY DEF Inductive, TablesOK, Past
<1>5. LocksOK'
  BY <1>1, <1>3, <1>4 DEF Inductive, LocksOK
<1>6. HeadersOK'
  BY <1>1 DEF Inductive, HeadersOK
<1>7. EntriesOK'
  <2> SUFFICES ASSUME NEW r \in Requests, Posted(r)
               PROVE  (reg[r].entry = Journal(reg[r].op, reg[r].pay))'
    BY <1>3 DEF EntriesOK
  <2>1. header'[reg[r].pay] = header[reg[r].pay]
    BY <1>1, <1>4 DEF Past, Posted
  <2> QED
    BY <2>1 DEF Inductive, EntriesOK, Journal
<1>8. WritesAreCurrent'
  BY DEF Inductive, WritesAreCurrent
<1>9. JournalFollowsStatus'
  BY <1>1, ZenonT(60) DEF Inductive, JournalFollowsStatus
<1> QED
  BY <1>2, <1>5, <1>6, <1>7, <1>8, <1>9 DEF Inductive

(* The commit of a submit or a cancel: its request held the payment and    *)
(* the counter, so no other one is past either lock of this payment.       *)
LEMMA CommitStep ==
    ASSUME Inductive, NEW r \in Requests, NEW p \in Payments, Commit(r, p)
    PROVE  Inductive'
<1> DEFINE op == reg[r].op
<1>1. /\ Posted(r) /\ Past(r) /\ reg[r].pay = p /\ op \in {"submit", "cancel"}
      /\ status[p] = Before[op] /\ reg[r].entry = Journal(op, p)
  BY DEF Commit, Holds, Inductive, TablesOK, LocksOK, EntriesOK, Posted, Past
<1>2. \A s \in Requests \ {r} : ~Posted(s) /\ (Past(s) => reg[s].pay # p)
  BY <1>1 DEF Inductive, LocksOK
<1>3. reg'[r] = Null /\ \A s \in Requests \ {r} : reg'[s] = reg[s]
  BY DEF Commit, Inductive, TablesOK
<1>4. \A s \in Requests : /\ ~Posted(s)'
                          /\ Past(s)' => s # r /\ Past(s)
  BY <1>2, <1>3 DEF Posted, Past
<1>5. /\ status'[p] = After[op] /\ journal'[p] = Append(journal[p], Journal(op, p))
      /\ \A q \in Payments \ {p} : status'[q] = status[q] /\ journal'[q] = journal[q]
      /\ header' = header
  BY <1>1 DEF Commit, Inductive, TablesOK
<1>6. Journal(op, p) \in [type : {"AUTO", "REVERSAL"}, amount : Int]
  <2>1. CASE op = "submit"
    BY <1>1, <2>1, EntryOfSubmit DEF Before
  <2>2. CASE op = "cancel"
    <3>1. status[p] = "submitted"
      BY <1>1, <2>2 DEF Before
    <3> QED
      BY <2>2, <3>1, EntryOfCancel, Zenon
  <2> QED
    BY <1>1, <2>1, <2>2
<1>7. TablesOK'
  <2>1. journal' \in [Payments -> Seq([type : {"AUTO", "REVERSAL"}, amount : Int])]
    BY <1>1, <1>6 DEF Commit, Inductive, TablesOK
  <2>2. status' \in [Payments -> {"none", "draft", "submitted", "cancelled"}]
    BY <1>1 DEF Commit, Inductive, TablesOK, After
  <2> QED
    BY <1>3, <1>5, <2>1, <2>2 DEF Commit, Inductive, TablesOK
<1>8. LocksOK'
  BY <1>2, <1>3, <1>4, <1>5 DEF Inductive, LocksOK, TablesOK, Past
<1>9. HeadersOK'
  BY <1>1, <1>5 DEF Inductive, HeadersOK, Before
<1>10. EntriesOK' /\ WritesAreCurrent'
  BY <1>4 DEF EntriesOK, WritesAreCurrent, Posted
<1>11. JournalFollowsStatus'
  <2>1. CASE op = "submit"
    <3>1. status[p] = "draft" /\ status'[p] = "submitted"
      BY <1>1, <1>5, <2>1 DEF Before, After
    <3>2. journal'[p] = <<[type |-> "AUTO", amount |-> header[p].paid]>>
      <4>1. Journal("submit", p) = [type |-> "AUTO", amount |-> header[p].paid] /\ journal[p] = <<>>
        BY <3>1, EntryOfSubmit
      <4> QED
        BY <1>5, <2>1, <4>1
    <3>3. Len(journal'[p]) = 1 /\ journal'[p][1] = [type |-> "AUTO", amount |-> header[p].paid]
      BY <3>2
    <3> QED
      BY <1>5, <3>1, <3>3, ZenonT(60) DEF Inductive, JournalFollowsStatus
  <2>2. CASE op = "cancel"
    <3>1. status[p] = "submitted" /\ status'[p] = "cancelled"
      BY <1>1, <1>5, <2>2 DEF Before, After
    <3>2. journal[p] \in Seq([type : {"AUTO", "REVERSAL"}, amount : Int])
      BY DEF Inductive, TablesOK
    <3>3. /\ Len(journal'[p]) = 2 /\ journal'[p][1] = journal[p][1]
          /\ journal'[p][2] = [type |-> "REVERSAL", amount |-> -journal[p][1].amount]
          /\ journal[p][1].type = "AUTO"
      <4>1. /\ Len(journal[p]) = 1 /\ journal[p][1].type = "AUTO"
            /\ Journal("cancel", p) = [type |-> "REVERSAL", amount |-> -journal[p][1].amount]
        BY <3>1, EntryOfCancel, Zenon
      <4> QED
        BY <1>5, <1>6, <2>2, <3>2, <4>1, SMTT(30)
    <3> QED
      BY <1>5, <3>1, <3>3, ZenonT(60) DEF Inductive, JournalFollowsStatus
  <2> QED
    BY <1>1, <2>1, <2>2
<1> QED
  BY <1>7, <1>8, <1>9, <1>10, <1>11 DEF Inductive

(* Every step preserves the invariant.                                     *)
LEMMA NextInductive == Inductive /\ [Next]_vars => Inductive'
<1> SUFFICES ASSUME Inductive, [Next]_vars PROVE Inductive'
  OBVIOUS
<1>1. CASE UNCHANGED vars
  BY <1>1 DEF vars, Inductive, TablesOK, LocksOK, HeadersOK, EntriesOK, WritesAreCurrent,
              JournalFollowsStatus, Past, Posted, Journal
<1>2. ASSUME NEW p \in Payments, Create(p) PROVE Inductive'
  <2>1. PICK h \in Headers : header' = [header EXCEPT ![p] = h]
    BY <1>2 DEF Create
  <2>2. \A r \in Requests : reg[r] # Null /\ reg[r].pay = p => reg[r].pc = "read"
    <3> SUFFICES ASSUME NEW r \in Requests, Past(r), reg[r].pay = p PROVE FALSE
      BY DEF Past
    <3>1. reg[r].op \in {"submit", "cancel"} /\ status[p] = Before[reg[r].op]
      BY DEF Inductive, TablesOK, LocksOK, Past
    <3> QED
      BY <1>2, <3>1 DEF Create, Before
  <2> QED
    BY <1>2, <2>1, <2>2, EditStep DEF Create
<1>3. ASSUME NEW p \in Payments, Update(p) PROVE Inductive'
  <2>1. PICK h \in Headers : header' = [header EXCEPT ![p] = h]
    BY <1>3 DEF Update, Edited
  <2>2. \A r \in Requests : reg[r] # Null /\ reg[r].pay = p => reg[r].pc = "read"
    BY <1>3 DEF Update, Unlocked
  <2>3. status' = [status EXCEPT ![p] = "draft"]
    BY <1>3 DEF Update, Inductive, TablesOK
  <2> QED
    BY <1>3, <2>1, <2>2, <2>3, EditStep DEF Update
<1>4. ASSUME NEW r \in Requests, NEW p \in Payments, Read(r, p) PROVE Inductive'
  <2>1. PICK op \in {"submit", "cancel"} :
          reg' = [reg EXCEPT ![r] = [op |-> op, pay |-> p, pc |-> "read"]]
    BY <1>4 DEF Read, Before
  <2> QED
    BY <1>4, <2>1, MoveStep DEF Read
<1>5. ASSUME NEW r \in Requests, NEW p \in Payments, Lock(r, p) PROVE Inductive'
  <2>1. PICK lines :
          reg' = [reg EXCEPT ![r] = [op |-> reg[r].op, pay |-> p, pc |-> "locked",
                                     lines |-> lines]]
    BY <1>5 DEF Lock
  <2>2. reg[r].op \in {"submit", "cancel"} /\ status[p] = Before[reg[r].op]
    BY <1>5 DEF Lock, Holds, Inductive, TablesOK
  <2>3. \A s \in Requests \ {r} : Past(s) => reg[s].pay # p
    BY <1>5 DEF Lock, Unlocked, Past
  <2> QED
    BY <1>5, <2>1, <2>2, <2>3, MoveStep, ZenonT(60) DEF Lock
<1>6. ASSUME NEW r \in Requests, NEW p \in Payments, Post(r, p) PROVE Inductive'
  <2>1. /\ reg' = [reg EXCEPT ![r] = Written(r, p)]
        /\ Past(r) /\ reg[r].pay = p /\ reg[r].op \in {"submit", "cancel"}
    BY <1>6 DEF Post, Holds, Past, Inductive, TablesOK
  <2>2. /\ \A s \in Requests \ {r} : Past(s) => reg[s].pay # p
        /\ status[p] = Before[reg[r].op]
    BY <2>1 DEF Inductive, LocksOK
  <2>3. \A s \in Requests \ {r} : ~Posted(s)
    BY <1>6 DEF Post, CounterFree, Posted
  <2>4. PICK x : x = Written(r, p)
    OBVIOUS
  <2>5. /\ x.op = reg[r].op /\ x.pay = p /\ x.pc = "posted"
        /\ x.entry = Journal(x.op, p)
        /\ x.out = Allocate(outstanding, x.lines, Sign(x.op))
    BY <2>4 DEF Written
  <2>6. reg' = [reg EXCEPT ![r] = x]
    BY <2>1, <2>4
  <2>7. UNCHANGED <<outstanding, status, header, items, journal>>
    BY <1>6 DEF Post
  <2> QED
    <3>1. /\ x.op \in {"submit", "cancel"} /\ x.pc \in {"read", "locked", "posted"}
          /\ status[p] = Before[x.op]
      BY <2>1, <2>2, <2>5
    <3> QED
      BY <2>2, <2>3, <2>5, <2>6, <2>7, <3>1, MoveStep, Zenon
<1>7. ASSUME NEW r \in Requests, NEW p \in Payments, Commit(r, p) PROVE Inductive'
  BY <1>7, CommitStep
<1>8. ASSUME NEW r \in Requests, Abort(r) PROVE Inductive'
  <2>1. reg[r].pay \in Payments
    BY <1>8 DEF Abort, Inductive, TablesOK
  <2> QED
    BY <1>8, <2>1, MoveStep DEF Abort
<1> QED
  BY <1>1, <1>2, <1>3, <1>4, <1>5, <1>6, <1>7, <1>8 DEF Next

(* The invariant holds throughout.                                         *)
LEMMA AlwaysInductive == Spec => []Inductive
BY InitInductive, NextInductive, PTL DEF Spec

(* However many requests submit, cancel and edit payments at once, the     *)
(* journals of a payment say what its status says.                         *)
THEOREM JournalsFollowStatus == Spec => []JournalFollowsStatus
<1>1. Inductive => JournalFollowsStatus
  BY DEF Inductive
<1> QED
  BY <1>1, AlwaysInductive, PTL

(* What a request is about to commit is computed from the invoices as they *)
(* are: the JE counter serialises every read-modify-write of an invoice.   *)
THEOREM NoUpdateIsLost == Spec => []WritesAreCurrent
<1>1. Inductive => WritesAreCurrent
  BY DEF Inductive
<1> QED
  BY <1>1, AlwaysInductive, PTL
-----------------------------------------------------------------------------
(* A fold over the subsets of S that takes their elements as pick says.    *)
Step(F, pick, step, e0, T) == IF T = {} THEN e0 ELSE step[<<F[T \ {pick[T]}], pick[T]>>]
Folds(F, pick, step, e0, S) == F = [T \in SUBSET S |-> Step(F, pick, step, e0, T)]
Picks(pick, S) == \A T \in SUBSET S : T # {} => pick[T] \in T

(* A set of subsets of a finite set has a member with no smaller one in it. *)
LEMMA SmallestSubset ==
    ASSUME NEW S, IsFiniteSet(S), NEW D, D \subseteq SUBSET S, D # {}
    PROVE  \E T \in D : \A U \in D : U \subseteq T => U = T
<1>1. D \subseteq FiniteSubsetsOf(S)
  BY FS_Subset DEF FiniteSubsetsOf
<1>2. PICK T \in D : \A U \in D : ~(<<U, T>> \in StrictSubsetOrdering(S))
  BY <1>1, FS_StrictSubsetOrderingWellFounded, WFMin
<1> QED
  BY <1>2 DEF StrictSubsetOrdering

(* There is one such fold ...                                              *)
LEMMA FoldUnique ==
    ASSUME NEW S, IsFiniteSet(S), NEW pick, Picks(pick, S), NEW step, NEW e0,
           NEW F, NEW G, Folds(F, pick, step, e0, S), Folds(G, pick, step, e0, S)
    PROVE  F = G
<1> DEFINE D == {T \in SUBSET S : F[T] # G[T]}
<1>1. SUFFICES ASSUME D # {} PROVE FALSE
  BY DEF Folds
<1>2. PICK T \in D : \A U \in D : U \subseteq T => U = T
  <2> HIDE DEF D
  <2>1. D \subseteq SUBSET S
    BY DEF D
  <2> QED
    BY <1>1, <2>1, SmallestSubset
<1>3. T # {} /\ pick[T] \in T
  BY DEF Folds, Step, Picks
<1>4. F[T \ {pick[T]}] = G[T \ {pick[T]}]
  BY <1>2, <1>3
<1> QED
  BY <1>3, <1>4, ZenonT(60) DEF Folds, Step

(* ... and it stays where its steps stay.                                  *)
LEMMA FoldExists ==
    ASSUME NEW S, IsFiniteSet(S), NEW pick, Picks(pick, S),
           NEW V, NEW e0 \in V, NEW step \in [V \X S -> V]
    PROVE  \E F \in [SUBSET S -> V] : Folds(F, pick, step, e0, S)
<1> DEFINE Good(F, T) == F \in [SUBSET T -> V] /\ Folds(F, pick, step, e0, T)
           fold(T) == CHOOSE F : Good(F, T)
           val == [T \in SUBSET S |-> fold(T)[T]]
           D == {T \in SUBSET S : ~ \E F : Good(F, T)}
<1>1. SUFFICES ASSUME D # {} PROVE FALSE
  OBVIOUS
<1>2. PICK T \in D : \A U \in D : U \subseteq T => U = T
  <2> HIDE DEF D
  <2>1. D \subseteq SUBSET S
    BY DEF D
  <2> QED
    BY <1>1, <2>1, SmallestSubset
<1> HIDE DEF Good
<1>3. ASSUME NEW U \in SUBSET T, U # T PROVE Good(fold(U), U)
  BY <1>2, <1>3
<1>4. ASSUME NEW U \in SUBSET T, U # T PROVE val[U] \in V /\ val[U] = Step(val, pick, step, e0, U)
  <2> DEFINE rest == U \ {pick[U]}
             G == [W \in SUBSET rest |-> fold(U)[W]]
  <2>1. val[U] = fold(U)[U] /\ fold(U) \in [SUBSET U -> V] /\ Folds(fold(U), pick, step, e0, U)
    BY <1>3, <1>4 DEF Good
  <2>2. CASE U = {}
    BY <2>1, <2>2 DEF Folds, Step
  <2>3. CASE U # {}
    <3>1. pick[U] \in U /\ rest # T /\ rest \in SUBSET T /\ IsFiniteSet(rest) /\ Picks(pick, rest)
      BY <2>3, FS_Subset DEF Picks
    <3>2. Folds(fold(rest), pick, step, e0, rest) /\ val[rest] = fold(rest)[rest]
      BY <1>3, <3>1 DEF Good
    <3>3. Folds(G, pick, step, e0, rest)
      <4>1. ASSUME NEW W \in SUBSET rest PROVE G[W] = Step(G, pick, step, e0, W)
        <5>1. G[W] = fold(U)[W] /\ G[W \ {pick[W]}] = fold(U)[W \ {pick[W]}]
          OBVIOUS
        <5>2. fold(U)[W] = Step(fold(U), pick, step, e0, W)
          BY <2>1 DEF Folds
        <5> HIDE DEF G
        <5> QED BY <5>1, <5>2 DEF Step
      <4> QED BY <4>1 DEF Folds
    <3>4. G = fold(rest)
      BY <3>1, <3>2, <3>3, FoldUnique
    <3>5. fold(U)[rest] = val[rest]
      BY <3>2, <3>4
    <3> QED
      BY <2>1, <2>3, <3>5, SMTT(30) DEF Folds, Step
  <2> QED BY <2>2, <2>3
<1>5. T = {} \/ (pick[T] \in S /\ T \ {pick[T]} \in SUBSET T /\ T \ {pick[T]} # T)
  BY DEF Picks
<1> DEFINE G == [U \in SUBSET T |-> IF U = T THEN Step(val, pick, step, e0, T) ELSE val[U]]
<1>6. Step(val, pick, step, e0, T) \in V
  BY <1>4, <1>5 DEF Step
<1>7. G \in [SUBSET T -> V]
  BY <1>4, <1>6
<1>8. ASSUME NEW U \in SUBSET T PROVE G[U] = Step(G, pick, step, e0, U)
  <2>1. U # {} => G[U \ {pick[U]}] = val[U \ {pick[U]}]
    BY DEF Picks
  <2>2. Step(G, pick, step, e0, U) = Step(val, pick, step, e0, U)
    <3> HIDE DEF G
    <3> QED BY <2>1 DEF Step
  <2> QED BY <1>4, <2>2
<1>9. Good(G, T)
  <2> HIDE DEF G
  <2> QED BY <1>7, <1>8 DEF Good, Folds
<1> QED BY <1>9

-----------------------------------------------------------------------------
(* A sum is such a fold.                                                   *)
Pick(S) == [T \in SUBSET S |-> CHOOSE x \in T : TRUE]
Add(f) == [p \in Int \X DOMAIN f |-> f[p[2]] + p[1]]

LEMMA SumFolds ==
    ASSUME NEW S, IsFiniteSet(S), NEW f \in [S -> Int]
    PROVE  \E F \in [SUBSET S -> Int] :
               Folds(F, Pick(S), Add(f), 0, S) /\ SumFunction(f) = F[S]
<1> DEFINE Sums(F) == F = [T \in SUBSET S |-> IF T = {} THEN 0
                                              ELSE f[CHOOSE x \in T : TRUE] + F[T \ {CHOOSE x \in T : TRUE}]]
<1>1. Picks(Pick(S), S) /\ Add(f) \in [Int \X S -> Int]
  BY DEF Picks, Pick, Add
<1>2. PICK F \in [SUBSET S -> Int] : Folds(F, Pick(S), Add(f), 0, S)
  <2>1. 0 \in Int
    OBVIOUS
  <2> QED BY <1>1, <2>1, FoldExists, Zenon
<1>3. Sums(F)
  <2> SUFFICES ASSUME NEW T \in SUBSET S, T # {}
               PROVE  Step(F, Pick(S), Add(f), 0, T)
                        = f[CHOOSE x \in T : TRUE] + F[T \ {CHOOSE x \in T : TRUE}]
    BY <1>2 DEF Folds, Step
  <2>1. Pick(S)[T] = (CHOOSE x \in T : TRUE) /\ Pick(S)[T] \in S /\ F[T \ {Pick(S)[T]}] \in Int
    BY DEF Pick
  <2> QED BY <2>1 DEF Step, Add
<1>4. SumFunction(f) = (CHOOSE G : Sums(G))[S]
  BY DEF SumFunction, SumFunctionOnSet, FoldFunctionOnSet, MapThenFoldSet
<1>5. Sums(CHOOSE G : Sums(G))
  <2> HIDE DEF Sums
  <2> QED BY <1>3
<1>6. ASSUME NEW G, Sums(G) PROVE G = F
  <2> DEFINE D == {T \in SUBSET S : F[T] # G[T]}
  <2>1. SUFFICES ASSUME D # {} PROVE FALSE
    BY <1>3, <1>6
  <2>2. PICK T \in D : \A U \in D : U \subseteq T => U = T
    <3>1. D \subseteq SUBSET S
      OBVIOUS
    <3> HIDE DEF D
    <3> QED BY <2>1, <3>1, SmallestSubset
  <2>3. T # {}
    BY <1>3, <1>6
  <2> DEFINE x == CHOOSE x \in T : TRUE
  <2>4. x \in T
    BY <2>3
  <2>5. F[T \ {x}] = G[T \ {x}]
    <3> HIDE DEF x
    <3> QED BY <2>2, <2>4
  <2> QED BY <1>3, <1>6, <2>3, <2>5
<1> QED
  <2> HIDE DEF Sums
  <2> QED BY <1>2, <1>4, <1>5, <1>6

(* What a sum over a part of S is: nothing over nothing, and an element    *)
(* more adds what it counts for.                                           *)
PartSums(F, f, S) ==
    /\ F[{}] = 0
    /\ \A T \in SUBSET S : \A x \in T : F[T] = f[x] + F[T \ {x}]
    /\ \A T \in SUBSET S : SumFunction([e \in T |-> f[e]]) = F[T]

LEMMA SumIs ==
    ASSUME NEW S, IsFiniteSet(S), NEW f \in [S -> Int]
    PROVE  \E F \in [SUBSET S -> Int] : PartSums(F, f, S)
<1>1. PICK F \in [SUBSET S -> Int] : Folds(F, Pick(S), Add(f), 0, S) /\ SumFunction(f) = F[S]
  BY SumFolds
<1>2. F[{}] = 0
  BY <1>1 DEF Folds, Step
<1>3. ASSUME NEW T \in SUBSET S, T # {}
      PROVE  \E y \in T : F[T] = f[y] + F[T \ {y}]
  <2>1. Pick(S)[T] \in T
    BY <1>3 DEF Pick
  <2>2. F[T] = Add(f)[<<F[T \ {Pick(S)[T]}], Pick(S)[T]>>]
    BY <1>1, <1>3 DEF Folds, Step
  <2> QED BY <2>1, <2>2 DEF Add
<1>4. ASSUME NEW T \in SUBSET S, NEW x \in T
      PROVE  F[T] = f[x] + F[T \ {x}]
  <2> DEFINE D == {U \in SUBSET S : \E z \in U : F[U] # f[z] + F[U \ {z}]}
  <2>1. SUFFICES ASSUME D # {} PROVE FALSE
    OBVIOUS
  <2>2. PICK U \in D : \A W \in D : W \subseteq U => W = U
    <3>1. D \subseteq SUBSET S
      OBVIOUS
    <3> HIDE DEF D
    <3> QED BY <2>1, <3>1, SmallestSubset
  <2>3. PICK z \in U : F[U] # f[z] + F[U \ {z}]
    OBVIOUS
  <2>4. PICK y \in U : F[U] = f[y] + F[U \ {y}]
    BY <1>3
  <2>5. y # z
    BY <2>3, <2>4
  <2>6. F[U \ {y}] = f[z] + F[(U \ {y}) \ {z}] /\ F[U \ {z}] = f[y] + F[(U \ {z}) \ {y}]
    <3>1. U \in SUBSET S /\ U \ {y} \in SUBSET S /\ U \ {z} \in SUBSET S
      OBVIOUS
    <3>2. U \ {y} \notin D /\ U \ {z} \notin D
      <4> HIDE DEF D
      <4> QED BY <2>2
    <3> QED BY <2>5, <3>1, <3>2
  <2>7. (U \ {y}) \ {z} = (U \ {z}) \ {y} /\ F[(U \ {z}) \ {y}] \in Int /\ f[y] \in Int /\ f[z] \in Int
    OBVIOUS
  <2> DEFINE rest == F[(U \ {z}) \ {y}]
  <2>8. rest \in Int /\ F[U] = f[y] + (f[z] + rest) /\ F[U] # f[z] + (f[y] + rest)
    BY <2>3, <2>4, <2>6, <2>7
  <2> HIDE DEF rest, D
  <2> QED BY <2>7, <2>8
<1>5. ASSUME NEW T \in SUBSET S
      PROVE  SumFunction([e \in T |-> f[e]]) = F[T]
  <2> DEFINE g == [e \in T |-> f[e]]
             H == [U \in SUBSET T |-> F[U]]
  <2>1. IsFiniteSet(T) /\ g \in [T -> Int] /\ Picks(Pick(T), T)
    BY FS_Subset DEF Picks, Pick
  <2>2. PICK G \in [SUBSET T -> Int] : Folds(G, Pick(T), Add(g), 0, T) /\ SumFunction(g) = G[T]
    BY <2>1, SumFolds
  <2>3. ASSUME NEW U \in SUBSET T PROVE H[U] = Step(H, Pick(T), Add(g), 0, U)
    <3>1. CASE U = {}
      BY <1>2, <3>1 DEF Step
    <3>2. CASE U # {}
      <4>1. Pick(T)[U] \in U
        BY <3>2 DEF Pick
      <4>2. F[U] = f[Pick(T)[U]] + F[U \ {Pick(T)[U]}] /\ F[U \ {Pick(T)[U]}] \in Int
        BY <1>4, <4>1
      <4> QED BY <3>2, <4>1, <4>2 DEF Step, Add
    <3> QED BY <3>1, <3>2
  <2>4. Folds(H, Pick(T), Add(g), 0, T)
    <3> HIDE DEF H
    <3> QED BY <2>3 DEF Folds, H
  <2>5. H = G
    <3> HIDE DEF H, g
    <3> QED BY <2>1, <2>2, <2>4, FoldUnique
  <2> QED BY <2>2, <2>5
<1> QED BY <1>2, <1>4, <1>5 DEF PartSums

-----------------------------------------------------------------------------
(* The folds of the module.  Each is one over the positions of a list, the *)
(* largest position last.                                                  *)
Top(S) == [T \in SUBSET S |-> Max(T)]

(* A set of positions has a largest one.                                   *)
LEMMA Largest ==
    ASSUME NEW S, \A x \in S : x \in Int, IsFiniteSet(S), S # {}
    PROVE  Max(S) \in S
<1> DEFINE Topped(U) == \E x \in U : \A y \in U : x >= y
           D == {U \in SUBSET S : U # {} /\ ~Topped(U)}
<1>1. D = {}
  <2>1. SUFFICES ASSUME D # {} PROVE FALSE
    OBVIOUS
  <2>2. PICK U \in D : \A W \in D : W \subseteq U => W = U
    <3>1. D \subseteq SUBSET S
      OBVIOUS
    <3> HIDE DEF D, Topped
    <3> QED
      BY <2>1, <3>1, SmallestSubset
  <2>3. U \in SUBSET S /\ U # {} /\ ~Topped(U)
    OBVIOUS
  <2>4. PICK x \in U : x \in Int
    BY <2>3
  <2>5. U \ {x} # {}
    BY <2>3, <2>4
  <2>6. U \ {x} \notin D
    <3> HIDE DEF D, Topped
    <3> QED
      BY <2>2, <2>4
  <2>7. PICK z \in U \ {x} : \A y \in U \ {x} : z >= y
    BY <2>3, <2>5, <2>6
  <2>8. z \in Int /\ \A y \in U : y \in Int
    BY <2>3
  <2>9. IF z >= x THEN \A y \in U : z >= y ELSE \A y \in U : x >= y
    BY <2>4, <2>7, <2>8
  <2> QED
    BY <2>3, <2>4, <2>9
<1>2. \E x \in S : \A y \in S : x >= y
  BY <1>1
<1> QED
  BY <1>2 DEF Max

LEMMA Positions ==
    ASSUME NEW X, NEW xs \in Seq(X)
    PROVE  /\ IsFiniteSet(DOMAIN xs) /\ DOMAIN xs \subseteq Int
           /\ Picks(Top(DOMAIN xs), DOMAIN xs)
<1>1. DOMAIN xs = 1..Len(xs) /\ IsFiniteSet(DOMAIN xs)
  BY FS_Interval
<1>2. ASSUME NEW T \in SUBSET DOMAIN xs, T # {} PROVE Max(T) \in T
  BY <1>1, <1>2, Largest, FS_Subset
<1> QED
  BY <1>1, <1>2 DEF Picks, Top

(* Whatever satisfies the equation of a fold is the fold.                  *)
Runs(G, pick, step, e0, S, V) ==
    /\ DOMAIN G = SUBSET S /\ G[{}] = e0
    /\ \A T \in SUBSET S : T # {} /\ G[T \ {pick[T]}] \in V =>
           G[T] = step[<<G[T \ {pick[T]}], pick[T]>>]

LEMMA FoldStays ==
    ASSUME NEW S, IsFiniteSet(S), NEW pick, Picks(pick, S), NEW V, NEW e0 \in V,
           NEW step \in [V \X S -> V], NEW G, Runs(G, pick, step, e0, S, V)
    PROVE  \A T \in SUBSET S : G[T] \in V
<1> DEFINE D == {T \in SUBSET S : G[T] \notin V}
<1>1. SUFFICES ASSUME D # {} PROVE FALSE
  OBVIOUS
<1>2. PICK T \in D : \A U \in D : U \subseteq T => U = T
  <2>1. D \subseteq SUBSET S
    OBVIOUS
  <2> HIDE DEF D
  <2> QED
    BY <1>1, <2>1, SmallestSubset
<1>3. T # {}
  BY DEF Runs
<1>4. pick[T] \in T /\ G[T \ {pick[T]}] \in V
  BY <1>2, <1>3 DEF Picks
<1> QED
  BY <1>3, <1>4 DEF Runs

(* Through a sequence: the value after each prefix.                        *)
Prefix(P, e0, step, xs) ==
    P[0] = e0 /\ \A k \in DOMAIN xs : P[k] = step[<<P[k - 1], k>>]

HasPrefixes(xs, e0, step, G, V) ==
    \E P \in [0..Len(xs) -> V] : Prefix(P, e0, step, xs) /\ P[Len(xs)] = G[DOMAIN xs]

LEMMA PrefixValues ==
    ASSUME NEW X, NEW xs \in Seq(X), NEW V, NEW e0 \in V, NEW step \in [V \X DOMAIN xs -> V],
           NEW G, Runs(G, Top(DOMAIN xs), step, e0, DOMAIN xs, V)
    PROVE  HasPrefixes(xs, e0, step, G, V)
<1> DEFINE S == DOMAIN xs
           at == [k \in 0..Len(xs) |-> G[1..k]]
<1>1. IsFiniteSet(S) /\ Picks(Top(S), S) /\ S = 1..Len(xs) /\ Len(xs) \in Nat
  BY Positions
<1>2. \A T \in SUBSET S : G[T] \in V
  <2>1. step \in [V \X S -> V] /\ Runs(G, Top(S), step, e0, S, V)
    OBVIOUS
  <2> HIDE DEF S
  <2> QED
    BY <1>1, <2>1, FoldStays, ZenonT(60)
<1>3. \A k \in 0..Len(xs) : 1..k \in SUBSET S
  BY <1>1
<1>4. at \in [0..Len(xs) -> V]
  BY <1>2, <1>3
<1>5. at[0] = e0
  <2>1. 1..0 = {}
    OBVIOUS
  <2> QED
    BY <1>1, <2>1 DEF Runs
<1>6. ASSUME NEW k \in S PROVE at[k] = step[<<at[k - 1], k>>]
  <2>1. k \in 1..Len(xs) /\ k - 1 \in 0..Len(xs)
    BY <1>1
  <2>2. Max(1..k) = k
    <3>1. \E x \in 1..k : \A y \in 1..k : x >= y
      BY <2>1
    <3> QED
      BY <2>1, <3>1 DEF Max
  <2>3. (1..k) \ {k} = 1..(k - 1) /\ 1..k # {} /\ 1..k \in SUBSET S
    BY <1>3, <2>1
  <2>4. Top(S)[1..k] = k
    BY <2>2, <2>3 DEF Top
  <2>5. G[1..k] = step[<<G[1..(k - 1)], k>>]
    BY <1>2, <1>3, <2>1, <2>3, <2>4 DEF Runs
  <2> QED
    BY <2>1, <2>5
<1>7. at[Len(xs)] = G[DOMAIN xs]
  BY <1>1
<1>8. Prefix(at, e0, step, xs)
  <2> HIDE DEF at
  <2> QED
    BY <1>5, <1>6 DEF Prefix
<1>9. \E P : P \in [0..Len(xs) -> V] /\ Prefix(P, e0, step, xs) /\ P[Len(xs)] = G[DOMAIN xs]
  <2> HIDE DEF at, S
  <2> QED
    BY <1>4, <1>7, <1>8
<1> QED
  BY <1>9 DEF HasPrefixes

(* A fold over a sequence exists.                                          *)
Iterates(F, e0, step, S) ==
    F = [T \in SUBSET S |-> IF T = {} THEN e0 ELSE step[<<F[T \ {Max(T)}], Max(T)>>]]

LEMMA IterExists ==
    ASSUME NEW X, NEW xs \in Seq(X), NEW V, NEW e0 \in V, NEW step \in [V \X DOMAIN xs -> V]
    PROVE  \E F \in [SUBSET DOMAIN xs -> V] : Iterates(F, e0, step, DOMAIN xs)
<1> DEFINE S == DOMAIN xs
<1>1. IsFiniteSet(S) /\ Picks(Top(S), S) /\ step \in [V \X S -> V]
  BY Positions
<1>2. PICK F \in [SUBSET S -> V] : Folds(F, Top(S), step, e0, S)
  <2> HIDE DEF S
  <2> QED
    BY <1>1, FoldExists
<1>3. \A T \in SUBSET S : Top(S)[T] = Max(T)
  BY DEF Top
<1>4. Iterates(F, e0, step, S)
  BY <1>2, <1>3 DEF Folds, Step, Iterates
<1> QED
  BY <1>2, <1>4

(* From the empty prefix to the whole.                                     *)
LEMMA UpTo ==
    ASSUME NEW n \in Nat, NEW D, 0 \in D, \A k \in 1..n : k - 1 \in D => k \in D
    PROVE  n \in D
<1> DEFINE All == 1..n
           Bad == {1..k : k \in {j \in 0..n : j \notin D}}
<1>1. SUFFICES ASSUME n \notin D PROVE FALSE
  OBVIOUS
<1>2. PICK T \in Bad : \A U \in Bad : U \subseteq T => U = T
  <2>1. IsFiniteSet(All)
    BY FS_Interval
  <2>2. Bad \subseteq SUBSET All
    OBVIOUS
  <2>3. Bad # {}
    <3>1. 1..n \in Bad
      BY <1>1
    <3> QED
      BY <3>1
  <2> HIDE DEF All, Bad
  <2> QED
    BY <2>1, <2>2, <2>3, SmallestSubset
<1>3. PICK k \in 0..n : k \notin D /\ T = 1..k
  OBVIOUS
<1>4. k \in 1..n /\ k - 1 \in 0..n /\ k - 1 \notin D
  BY <1>3
<1>5. 1..(k - 1) \in Bad /\ 1..(k - 1) \subseteq 1..k
  BY <1>4
<1>6. 1..(k - 1) = 1..k
  <2> HIDE DEF Bad
  <2> QED
    BY <1>2, <1>3, <1>5
<1> QED
  BY <1>4, <1>6

-----------------------------------------------------------------------------
(* What an invoice and a line are.                                         *)
LEMMA InvoiceTypes == \A i \in Docs : Invoices[i].total \in Int \ {0}
<1> SUFFICES ASSUME NEW i \in Docs PROVE Invoices[i].total \in Int \ {0}
  OBVIOUS
<1> DEFINE Doc == [party : Parties, total : Int \ {0}]
<1>1. Invoices \in Seq(Doc)
  BY PaymentsAssumption
<1>2. Invoices[i] \in Doc
  <2> HIDE DEF Doc
  <2> QED
    BY <1>1 DEF Docs
<1> QED
  BY <1>2

LEMMA LineTypes ==
    ASSUME NEW lines \in Seq(Line)
    PROVE  \A k \in DOMAIN lines : /\ lines[k] \in Line /\ lines[k].inv \in Docs
                                  /\ lines[k].amount \in Nat \ {0}
<1> SUFFICES ASSUME NEW k \in DOMAIN lines
             PROVE  lines[k] \in Line /\ lines[k].inv \in Docs /\ lines[k].amount \in Nat \ {0}
  OBVIOUS
<1>1. lines[k] \in Line
  OBVIOUS
<1> QED
  BY <1>1, PaymentsAssumption DEF Line

-----------------------------------------------------------------------------
(* The worth of a list of lines, line by line.                             *)
LEMMA TotalRuns ==
    ASSUME NEW lines \in Seq(Line)
    PROVE  \E P \in [0..Len(lines) -> Int] :
               /\ P[0] = 0 /\ P[Len(lines)] = Total(lines)
               /\ \A k \in 1..Len(lines) : P[k] = P[k - 1] + lines[k].amount
<1> DEFINE S == DOMAIN lines
           V == Int
           step == [u \in V \X S |-> u[1] + lines[u[2]].amount]
           Iter(F) == F = [T \in SUBSET S |-> IF T = {} THEN 0 ELSE F[T \ {Max(T)}] + lines[Max(T)].amount]
<1>1. /\ IsFiniteSet(S) /\ Picks(Top(S), S) /\ 0 \in V
      /\ S = 1..Len(lines) /\ Len(lines) \in Nat
  BY Positions
<1>2. \A k \in S : lines[k].inv \in Docs /\ lines[k].amount \in Int
  BY LineTypes
<1>3. step \in [V \X S -> V]
  <2>1. ASSUME NEW v \in V, NEW k \in S PROVE (v + lines[k].amount) \in V
    BY <1>2
  <2> HIDE DEF V, S
  <2> QED
    BY <2>1
<1>4. PICK F \in [SUBSET S -> V] : Iterates(F, 0, step, S)
  <2> HIDE DEF step, V
  <2> QED
    BY <1>1, <1>3, IterExists
<1>5. ASSUME NEW T \in SUBSET S, T # {} PROVE Max(T) \in T /\ Top(S)[T] = Max(T)
  BY <1>1, <1>5 DEF Picks, Top
<1>6. ASSUME NEW v \in V, NEW k \in S PROVE step[<<v, k>>] = (v + lines[k].amount)
  OBVIOUS
<1>7. Iter(F)
  <2>1. \A T \in SUBSET S : T # {} => F[T \ {Max(T)}] \in V /\ Max(T) \in S
    BY <1>4, <1>5
  <2>2. ASSUME NEW T \in SUBSET S, T # {}
        PROVE  step[<<F[T \ {Max(T)}], Max(T)>>] = (F[T \ {Max(T)}] + lines[Max(T)].amount)
    <3> HIDE DEF S, V, step
    <3> QED
      BY <1>6, <2>1, <2>2
  <2>3. F = [T \in SUBSET S |-> IF T = {} THEN 0 ELSE step[<<F[T \ {Max(T)}], Max(T)>>]]
    <3> HIDE DEF S, V, step
    <3> QED
      BY <1>4 DEF Iterates
  <2>4. ASSUME NEW T \in SUBSET S
        PROVE  F[T] = (IF T = {} THEN 0 ELSE F[T \ {Max(T)}] + lines[Max(T)].amount)
    <3> HIDE DEF S, V, step
    <3> QED
      BY <2>2, <2>3
  <2> HIDE DEF S, V, step
  <2> QED
    BY <1>4, <2>4
<1>8. Total(lines) = (CHOOSE G : Iter(G))[S]
  BY DEF Total, FoldLeft, MapThenFoldSet
<1> DEFINE G == CHOOSE H : Iter(H)
<1>9. Iter(G)
  <2> HIDE DEF Iter
  <2> QED
    BY <1>7
<1> HIDE DEF G
<1>10. Runs(G, Top(S), step, 0, S, V)
  <2>1. DOMAIN G = SUBSET S /\ G[{}] = 0
    BY <1>9
  <2>2. ASSUME NEW T \in SUBSET S, T # {}, G[T \ {Top(S)[T]}] \in V
        PROVE  G[T] = step[<<G[T \ {Top(S)[T]}], Top(S)[T]>>]
    <3>1. Top(S)[T] \in S /\ Top(S)[T] = Max(T)
      BY <1>5, <2>2
    <3>2. step[<<G[T \ {Max(T)}], Max(T)>>] = LET k == Max(T) v == G[T \ {Max(T)}] IN v + lines[k].amount
      <4> HIDE DEF step, V, S
      <4> QED
        BY <1>6, <2>2, <3>1
    <3>3. G[T] = LET k == Max(T) v == G[T \ {Max(T)}] IN v + lines[k].amount
      <4> HIDE DEF V, S, step
      <4> QED
        BY <1>9, <2>2
    <3> QED
      <4> HIDE DEF V, S, step
      <4> QED
        BY <3>1, <3>2, <3>3
  <2> HIDE DEF S, V, step
  <2> QED
    BY <2>1, <2>2 DEF Runs
<1>11. PICK P \in [0..Len(lines) -> V] : Prefix(P, 0, step, lines) /\ P[Len(lines)] = G[S]
  <2>1. HasPrefixes(lines, 0, step, G, V)
    <3> HIDE DEF step, V
    <3> QED
      BY <1>1, <1>3, <1>10, PrefixValues, Zenon
  <2> HIDE DEF step, V
  <2> QED
    BY <2>1 DEF HasPrefixes
<1>12. ASSUME NEW k \in 1..Len(lines) PROVE P[k] = P[k - 1] + lines[k].amount
  <2>1. k - 1 \in 0..Len(lines) /\ k \in S
    BY <1>1
  <2>2. P[k - 1] \in V
    <3> HIDE DEF V
    <3> QED
      BY <2>1
  <2>3. P[k] = step[<<P[k - 1], k>>]
    <3> HIDE DEF step, V
    <3> QED
      BY <1>1, <1>11, <2>1 DEF Prefix
  <2> QED
    <3> HIDE DEF step, V, S
    <3> QED
      BY <1>6, <2>1, <2>2, <2>3
<1> QED
  BY <1>8, <1>11, <1>12 DEF Prefix, G

(* What a list of lines allocates to one invoice.                          *)
LEMMA ShareRuns ==
    ASSUME NEW lines \in Seq(Line), NEW i \in Docs
    PROVE  \E P \in [0..Len(lines) -> Int] :
               /\ P[0] = 0 /\ P[Len(lines)] = Share(lines, i)
               /\ \A k \in 1..Len(lines) : P[k] = IF lines[k].inv = i THEN P[k - 1] + lines[k].amount ELSE P[k - 1]
<1> DEFINE S == DOMAIN lines
           V == Int
           step == [u \in V \X S |-> IF lines[u[2]].inv = i THEN u[1] + lines[u[2]].amount ELSE u[1]]
           Iter(F) == F = [T \in SUBSET S |-> IF T = {} THEN 0 ELSE IF lines[Max(T)].inv = i THEN F[T \ {Max(T)}] + lines[Max(T)].amount ELSE F[T \ {Max(T)}]]
<1>1. /\ IsFiniteSet(S) /\ Picks(Top(S), S) /\ 0 \in V
      /\ S = 1..Len(lines) /\ Len(lines) \in Nat
  BY Positions
<1>2. \A k \in S : lines[k].inv \in Docs /\ lines[k].amount \in Int
  BY LineTypes
<1>3. step \in [V \X S -> V]
  <2>1. ASSUME NEW v \in V, NEW k \in S PROVE (IF lines[k].inv = i THEN v + lines[k].amount ELSE v) \in V
    BY <1>2
  <2> HIDE DEF V, S
  <2> QED
    BY <2>1
<1>4. PICK F \in [SUBSET S -> V] : Iterates(F, 0, step, S)
  <2> HIDE DEF step, V
  <2> QED
    BY <1>1, <1>3, IterExists
<1>5. ASSUME NEW T \in SUBSET S, T # {} PROVE Max(T) \in T /\ Top(S)[T] = Max(T)
  BY <1>1, <1>5 DEF Picks, Top
<1>6. ASSUME NEW v \in V, NEW k \in S PROVE step[<<v, k>>] = (IF lines[k].inv = i THEN v + lines[k].amount ELSE v)
  OBVIOUS
<1>7. Iter(F)
  <2>1. \A T \in SUBSET S : T # {} => F[T \ {Max(T)}] \in V /\ Max(T) \in S
    BY <1>4, <1>5
  <2>2. ASSUME NEW T \in SUBSET S, T # {}
        PROVE  step[<<F[T \ {Max(T)}], Max(T)>>] = (IF lines[Max(T)].inv = i THEN F[T \ {Max(T)}] + lines[Max(T)].amount ELSE F[T \ {Max(T)}])
    <3> HIDE DEF S, V, step
    <3> QED
      BY <1>6, <2>1, <2>2
  <2>3. F = [T \in SUBSET S |-> IF T = {} THEN 0 ELSE step[<<F[T \ {Max(T)}], Max(T)>>]]
    <3> HIDE DEF S, V, step
    <3> QED
      BY <1>4 DEF Iterates
  <2>4. ASSUME NEW T \in SUBSET S
        PROVE  F[T] = (IF T = {} THEN 0 ELSE IF lines[Max(T)].inv = i THEN F[T \ {Max(T)}] + lines[Max(T)].amount ELSE F[T \ {Max(T)}])
    <3> HIDE DEF S, V, step
    <3> QED
      BY <2>2, <2>3
  <2> HIDE DEF S, V, step
  <2> QED
    BY <1>4, <2>4
<1>8. Share(lines, i) = (CHOOSE G : Iter(G))[S]
  BY DEF Share, FoldLeft, MapThenFoldSet
<1> DEFINE G == CHOOSE H : Iter(H)
<1>9. Iter(G)
  <2> HIDE DEF Iter
  <2> QED
    BY <1>7
<1> HIDE DEF G
<1>10. Runs(G, Top(S), step, 0, S, V)
  <2>1. DOMAIN G = SUBSET S /\ G[{}] = 0
    BY <1>9
  <2>2. ASSUME NEW T \in SUBSET S, T # {}, G[T \ {Top(S)[T]}] \in V
        PROVE  G[T] = step[<<G[T \ {Top(S)[T]}], Top(S)[T]>>]
    <3>1. Top(S)[T] \in S /\ Top(S)[T] = Max(T)
      BY <1>5, <2>2
    <3>2. step[<<G[T \ {Max(T)}], Max(T)>>] = LET k == Max(T) v == G[T \ {Max(T)}] IN IF lines[k].inv = i THEN v + lines[k].amount ELSE v
      <4> HIDE DEF step, V, S
      <4> QED
        BY <1>6, <2>2, <3>1
    <3>3. G[T] = LET k == Max(T) v == G[T \ {Max(T)}] IN IF lines[k].inv = i THEN v + lines[k].amount ELSE v
      <4> HIDE DEF V, S, step
      <4> QED
        BY <1>9, <2>2
    <3> QED
      <4> HIDE DEF V, S, step
      <4> QED
        BY <3>1, <3>2, <3>3
  <2> HIDE DEF S, V, step
  <2> QED
    BY <2>1, <2>2 DEF Runs
<1>11. PICK P \in [0..Len(lines) -> V] : Prefix(P, 0, step, lines) /\ P[Len(lines)] = G[S]
  <2>1. HasPrefixes(lines, 0, step, G, V)
    <3> HIDE DEF step, V
    <3> QED
      BY <1>1, <1>3, <1>10, PrefixValues, Zenon
  <2> HIDE DEF step, V
  <2> QED
    BY <2>1 DEF HasPrefixes
<1>12. ASSUME NEW k \in 1..Len(lines) PROVE P[k] = IF lines[k].inv = i THEN P[k - 1] + lines[k].amount ELSE P[k - 1]
  <2>1. k - 1 \in 0..Len(lines) /\ k \in S
    BY <1>1
  <2>2. P[k - 1] \in V
    <3> HIDE DEF V
    <3> QED
      BY <2>1
  <2>3. P[k] = step[<<P[k - 1], k>>]
    <3> HIDE DEF step, V
    <3> QED
      BY <1>1, <1>11, <2>1 DEF Prefix
  <2> QED
    <3> HIDE DEF step, V, S
    <3> QED
      BY <1>6, <2>1, <2>2, <2>3
<1> QED
  BY <1>8, <1>11, <1>12 DEF Prefix, G

LEMMA ApplyType ==
    ASSUME NEW out \in [Docs -> Int], NEW i \in Docs, NEW amount \in Int
    PROVE  Apply(out, i, amount) \in [Docs -> Int]
BY DEF Apply, Magnitude

(* What it makes of the invoices.                                          *)
LEMMA AllocateRuns ==
    ASSUME NEW lines \in Seq(Line), NEW out \in [Docs -> Int], NEW sign \in Int
    PROVE  \E P \in [0..Len(lines) -> [Docs -> Int]] :
               /\ P[0] = out /\ P[Len(lines)] = Allocate(out, lines, sign)
               /\ \A k \in 1..Len(lines) : P[k] = Apply(P[k - 1], lines[k].inv, sign * lines[k].amount)
<1> DEFINE S == DOMAIN lines
           V == [Docs -> Int]
           step == [u \in V \X S |-> Apply(u[1], lines[u[2]].inv, sign * lines[u[2]].amount)]
           Iter(F) == F = [T \in SUBSET S |-> IF T = {} THEN out ELSE Apply(F[T \ {Max(T)}], lines[Max(T)].inv, sign * lines[Max(T)].amount)]
<1>1. /\ IsFiniteSet(S) /\ Picks(Top(S), S) /\ out \in V
      /\ S = 1..Len(lines) /\ Len(lines) \in Nat
  BY Positions
<1>2. \A k \in S : lines[k].inv \in Docs /\ lines[k].amount \in Int
  BY LineTypes
<1>3. step \in [V \X S -> V]
  <2>1. ASSUME NEW v \in V, NEW k \in S PROVE (Apply(v, lines[k].inv, sign * lines[k].amount)) \in V
    <3>1. sign * lines[k].amount \in Int
      BY <1>2
    <3> QED
      BY <1>2, <3>1, ApplyType
  <2> HIDE DEF V, S
  <2> QED
    BY <2>1
<1>4. PICK F \in [SUBSET S -> V] : Iterates(F, out, step, S)
  <2> HIDE DEF step, V
  <2> QED
    BY <1>1, <1>3, IterExists
<1>5. ASSUME NEW T \in SUBSET S, T # {} PROVE Max(T) \in T /\ Top(S)[T] = Max(T)
  BY <1>1, <1>5 DEF Picks, Top
<1>6. ASSUME NEW v \in V, NEW k \in S PROVE step[<<v, k>>] = (Apply(v, lines[k].inv, sign * lines[k].amount))
  OBVIOUS
<1>7. Iter(F)
  <2>1. \A T \in SUBSET S : T # {} => F[T \ {Max(T)}] \in V /\ Max(T) \in S
    BY <1>4, <1>5
  <2>2. ASSUME NEW T \in SUBSET S, T # {}
        PROVE  step[<<F[T \ {Max(T)}], Max(T)>>] = (Apply(F[T \ {Max(T)}], lines[Max(T)].inv, sign * lines[Max(T)].amount))
    <3> HIDE DEF S, V, step
    <3> QED
      BY <1>6, <2>1, <2>2
  <2>3. F = [T \in SUBSET S |-> IF T = {} THEN out ELSE step[<<F[T \ {Max(T)}], Max(T)>>]]
    <3> HIDE DEF S, V, step
    <3> QED
      BY <1>4 DEF Iterates
  <2>4. ASSUME NEW T \in SUBSET S
        PROVE  F[T] = (IF T = {} THEN out ELSE Apply(F[T \ {Max(T)}], lines[Max(T)].inv, sign * lines[Max(T)].amount))
    <3> HIDE DEF S, V, step
    <3> QED
      BY <2>2, <2>3
  <2> HIDE DEF S, V, step
  <2> QED
    BY <1>4, <2>4
<1>8. Allocate(out, lines, sign) = (CHOOSE G : Iter(G))[S]
  BY DEF Allocate, FoldLeft, MapThenFoldSet
<1> DEFINE G == CHOOSE H : Iter(H)
<1>9. Iter(G)
  <2> HIDE DEF Iter
  <2> QED
    BY <1>7
<1> HIDE DEF G
<1>10. Runs(G, Top(S), step, out, S, V)
  <2>1. DOMAIN G = SUBSET S /\ G[{}] = out
    BY <1>9
  <2>2. ASSUME NEW T \in SUBSET S, T # {}, G[T \ {Top(S)[T]}] \in V
        PROVE  G[T] = step[<<G[T \ {Top(S)[T]}], Top(S)[T]>>]
    <3>1. Top(S)[T] \in S /\ Top(S)[T] = Max(T)
      BY <1>5, <2>2
    <3>2. step[<<G[T \ {Max(T)}], Max(T)>>] = LET k == Max(T) v == G[T \ {Max(T)}] IN Apply(v, lines[k].inv, sign * lines[k].amount)
      <4> HIDE DEF step, V, S
      <4> QED
        BY <1>6, <2>2, <3>1
    <3>3. G[T] = LET k == Max(T) v == G[T \ {Max(T)}] IN Apply(v, lines[k].inv, sign * lines[k].amount)
      <4> HIDE DEF V, S, step
      <4> QED
        BY <1>9, <2>2
    <3> QED
      <4> HIDE DEF V, S, step
      <4> QED
        BY <3>1, <3>2, <3>3
  <2> HIDE DEF S, V, step
  <2> QED
    BY <2>1, <2>2 DEF Runs
<1>11. PICK P \in [0..Len(lines) -> V] : Prefix(P, out, step, lines) /\ P[Len(lines)] = G[S]
  <2>1. HasPrefixes(lines, out, step, G, V)
    <3> HIDE DEF step, V
    <3> QED
      BY <1>1, <1>3, <1>10, PrefixValues, Zenon
  <2> HIDE DEF step, V
  <2> QED
    BY <2>1 DEF HasPrefixes
<1>12. ASSUME NEW k \in 1..Len(lines) PROVE P[k] = Apply(P[k - 1], lines[k].inv, sign * lines[k].amount)
  <2>1. k - 1 \in 0..Len(lines) /\ k \in S
    BY <1>1
  <2>2. P[k - 1] \in V
    <3> HIDE DEF V
    <3> QED
      BY <2>1
  <2>3. P[k] = step[<<P[k - 1], k>>]
    <3> HIDE DEF step, V
    <3> QED
      BY <1>1, <1>11, <2>1 DEF Prefix
  <2> QED
    <3> HIDE DEF step, V, S
    <3> QED
      BY <1>6, <2>1, <2>2, <2>3
<1> QED
  BY <1>8, <1>11, <1>12 DEF Prefix, G

-----------------------------------------------------------------------------
(* What the lines of a list come to is a natural number, and a line more   *)
(* adds its amount.                                                        *)
LEMMA TotalNat ==
    ASSUME NEW lines \in Seq(Line)
    PROVE  Total(lines) \in Nat
<1>1. PICK P \in [0..Len(lines) -> Int] :
          /\ P[0] = 0 /\ P[Len(lines)] = Total(lines)
          /\ \A k \in 1..Len(lines) : P[k] = P[k - 1] + lines[k].amount
  BY TotalRuns, Zenon
<1> DEFINE D == {k \in 0..Len(lines) : P[k] \in Nat}
<1>2. 0 \in D /\ Len(lines) \in Nat
  BY <1>1
<1>3. ASSUME NEW k \in 1..Len(lines), k - 1 \in D PROVE k \in D
  <2>1. lines[k].amount \in Nat
    BY LineTypes
  <2> QED
    BY <1>1, <1>3, <2>1
<1>4. Len(lines) \in D
  <2> HIDE DEF D
  <2> QED
    BY <1>2, <1>3, UpTo
<1> QED
  BY <1>1, <1>4

LEMMA TotalAppend ==
    ASSUME NEW lines \in Seq(Line), NEW l \in Line
    PROVE  Total(Append(lines, l)) = Total(lines) + l.amount
<1> DEFINE more == Append(lines, l)
           n == Len(lines)
<1>1. /\ more \in Seq(Line) /\ Len(more) = n + 1 /\ n \in Nat /\ more[n + 1] = l
      /\ \A k \in 1..n : more[k] = lines[k]
  OBVIOUS
<1>2. PICK P \in [0..Len(lines) -> Int] :
          /\ P[0] = 0 /\ P[Len(lines)] = Total(lines)
          /\ \A k \in 1..Len(lines) : P[k] = P[k - 1] + lines[k].amount
  BY TotalRuns, Zenon
<1>3. PICK Q \in [0..Len(more) -> Int] :
          /\ Q[0] = 0 /\ Q[Len(more)] = Total(more)
          /\ \A k \in 1..Len(more) : Q[k] = Q[k - 1] + more[k].amount
  <2> HIDE DEF more
  <2> QED
    BY <1>1, TotalRuns, Zenon
<1> DEFINE D == {k \in 0..n : P[k] = Q[k]}
<1> HIDE DEF more
<1>4. 0 \in D
  BY <1>1, <1>2, <1>3
<1>5. ASSUME NEW k \in 1..n, k - 1 \in D PROVE k \in D
  <2>1. k \in 0..n /\ k \in 1..Len(more) /\ P[k - 1] = Q[k - 1] /\ more[k] = lines[k]
    BY <1>1, <1>5
  <2> QED
    BY <1>2, <1>3, <2>1
<1>6. n \in D
  <2> HIDE DEF D, n
  <2> QED
    BY <1>1, <1>4, <1>5, UpTo
<1>7. Q[n + 1] = Q[n] + l.amount /\ Q[n] = P[n]
  <2>1. n + 1 \in 1..Len(more) /\ (n + 1) - 1 = n
    BY <1>1
  <2> QED
    BY <1>1, <1>3, <1>6, <2>1
<1> QED
  BY <1>1, <1>2, <1>3, <1>7 DEF more

LEMMA TotalOfNone == Total(<<>>) = 0
<1>1. <<>> \in Seq(Line) /\ Len(<<>>) = 0
  OBVIOUS
<1>2. PICK P \in [0..Len(<<>>) -> Int] : P[0] = 0 /\ P[Len(<<>>)] = Total(<<>>)
  BY <1>1, TotalRuns, Zenon
<1> QED
  BY <1>1, <1>2

(* The share of an invoice, too, and none of the lines means nothing.      *)
LEMMA ShareNat ==
    ASSUME NEW lines \in Seq(Line), NEW i \in Docs
    PROVE  /\ Share(lines, i) \in Nat
           /\ (\A k \in DOMAIN lines : lines[k].inv # i) => Share(lines, i) = 0
<1>1. PICK P \in [0..Len(lines) -> Int] :
          /\ P[0] = 0 /\ P[Len(lines)] = Share(lines, i)
          /\ \A k \in 1..Len(lines) :
                 P[k] = IF lines[k].inv = i THEN P[k - 1] + lines[k].amount ELSE P[k - 1]
  BY ShareRuns, Zenon
<1> DEFINE D == {k \in 0..Len(lines) : P[k] \in Nat /\ ((\A j \in DOMAIN lines : lines[j].inv # i) => P[k] = 0)}
<1>2. 0 \in D /\ Len(lines) \in Nat
  BY <1>1
<1>3. ASSUME NEW k \in 1..Len(lines), k - 1 \in D PROVE k \in D
  <2>1. lines[k].amount \in Nat /\ k \in DOMAIN lines
    BY LineTypes
  <2> QED
    BY <1>1, <1>3, <2>1, SMTT(30)
<1>4. Len(lines) \in D
  <2> HIDE DEF D
  <2> QED
    BY <1>2, <1>3, UpTo
<1> QED
  BY <1>1, <1>4

(* What lines worth a on an invoice leave of it: they stop at zero.        *)
Settled(x, y, a) ==
    /\ x >= 0 => y = IF x < a THEN 0 ELSE x - a
    /\ x <= 0 => y = IF -x < a THEN 0 ELSE x + a

(* Lines of invoices only: a return is never eligible.                     *)
Due(lines) == \A k \in DOMAIN lines : Invoices[lines[k].inv].total > 0

LEMMA EligibleIsDue ==
    ASSUME NEW out, NEW party, NEW i \in Eligible(out, party)
    PROVE  Invoices[i].total > 0
<1>1. i \in Docs /\ DocStatus(i, out[i]) # "RETURNED"
  BY DEF Eligible, PaymentEligible
<1>2. Invoices[i].total \in Int \ {0}
  BY <1>1, InvoiceTypes
<1> QED
  BY <1>1, <1>2 DEF DocStatus

LEMMA ValidIsDue ==
    ASSUME NEW lines, NEW h, Valid(lines, h)
    PROVE  Due(lines)
BY EligibleIsDue DEF Valid, Due

LEMMA AllocateSettles ==
    ASSUME NEW lines \in Seq(Line), NEW out \in [Docs -> Int], NEW sign \in {1, -1}, Due(lines)
    PROVE  /\ Allocate(out, lines, sign) \in [Docs -> Int]
           /\ \A i \in Docs : Settled(out[i], Allocate(out, lines, sign)[i], Share(lines, i))
<1>1. PICK P \in [0..Len(lines) -> [Docs -> Int]] :
          /\ P[0] = out /\ P[Len(lines)] = Allocate(out, lines, sign)
          /\ \A k \in 1..Len(lines) : P[k] = Apply(P[k - 1], lines[k].inv, sign * lines[k].amount)
  <2>1. sign \in Int
    OBVIOUS
  <2> QED
    BY <2>1, AllocateRuns, Zenon
<1>2. ASSUME NEW i \in Docs
      PROVE  Settled(out[i], P[Len(lines)][i], Share(lines, i))
  <2>1. PICK A \in [0..Len(lines) -> Int] :
            /\ A[0] = 0 /\ A[Len(lines)] = Share(lines, i)
            /\ \A k \in 1..Len(lines) :
                   A[k] = IF lines[k].inv = i THEN A[k - 1] + lines[k].amount ELSE A[k - 1]
    BY ShareRuns, Zenon
  <2> DEFINE D == {k \in 0..Len(lines) : A[k] \in Nat /\ Settled(out[i], P[k][i], A[k])}
  <2>2. 0 \in D /\ Len(lines) \in Nat
    <3>1. Settled(out[i], out[i], 0)
      BY DEF Settled
    <3> QED
      BY <1>1, <2>1, <3>1
  <2>3. ASSUME NEW k \in 1..Len(lines), k - 1 \in D PROVE k \in D
    <3> DEFINE x == out[i]
               y == P[k - 1][i]
               a == lines[k].amount
               b == A[k - 1]
    <3>1. /\ x \in Int /\ y \in Int /\ a \in Nat /\ a > 0 /\ b \in Nat /\ Settled(x, y, b)
          /\ k \in DOMAIN lines /\ k - 1 \in 0..Len(lines) /\ P[k - 1] \in [Docs -> Int]
          /\ lines[k].inv \in Docs
      BY <2>3, LineTypes
    <3>6. Invoices[lines[k].inv].total > 0 /\ Invoices[lines[k].inv].total \in Int
      BY <3>1, InvoiceTypes DEF Due
    <3>2. Magnitude(sign * a) = a /\ sign * a \in Int
      <4>1. CASE sign = 1
        BY <3>1, <4>1 DEF Magnitude
      <4>2. CASE sign = -1
        <5>1. -1 * a = -a
          BY <3>1
        <5> HIDE DEF a
        <5> QED
          BY <3>1, <4>2, <5>1 DEF Magnitude
      <4> QED
        BY <4>1, <4>2
    <3>3. P[k] = Apply(P[k - 1], lines[k].inv, sign * a)
      BY <1>1
    <3>4. CASE lines[k].inv # i
      <4>1. P[k][i] = y /\ A[k] = b
        BY <2>1, <3>1, <3>3, <3>4 DEF Apply
      <4> QED
        BY <3>1, <4>1
    <3>5. CASE lines[k].inv = i
      <4>1. A[k] = b + a
        BY <2>1, <3>5
      <4>2. P[k][i] = LET consume == IF a < Magnitude(y) THEN a ELSE Magnitude(y)
                      IN IF y > 0 THEN y - consume ELSE y + consume
        <5> DEFINE c == Magnitude(sign * a)
                   consume == IF c < Magnitude(y) THEN c ELSE Magnitude(y)
        <5>1. P[k] = IF DocStatus(i, y) \notin PaymentEligible THEN P[k - 1]
                     ELSE [P[k - 1] EXCEPT ![i] = IF y > 0 THEN y - consume ELSE y + consume]
          BY <3>3, <3>5 DEF Apply
        <5>2. DocStatus(i, y) \notin PaymentEligible <=> y = 0
          BY <3>1, <3>5, <3>6 DEF DocStatus, PaymentEligible
        <5>3. y # 0 => P[k][i] = IF y > 0 THEN y - consume ELSE y + consume
          BY <3>1, <3>5, <5>1, <5>2
        <5>4. y = 0 => P[k][i] = y
          BY <5>1, <5>2
        <5>5. c = a /\ y \in Int /\ a \in Nat /\ a > 0
          BY <3>1, <3>2
        <5> HIDE DEF a, y, c
        <5>6. CASE y # 0
          BY <5>3, <5>5, <5>6
        <5>7. CASE y = 0
          <6>1. Magnitude(y) = 0
            BY <5>7 DEF Magnitude
          <6> QED
            BY <5>4, <5>5, <5>7, <6>1
        <5> QED
          BY <5>6, <5>7
      <4>3. PICK z : z = P[k][i]
        OBVIOUS
      <4>4. Settled(x, z, b + a)
        <5> HIDE DEF x, y, a, b
        <5> QED
          BY <3>1, <4>2, <4>3 DEF Settled, Magnitude
      <4> QED
        BY <3>1, <4>1, <4>3, <4>4
    <3> QED
      BY <3>4, <3>5
  <2>4. Len(lines) \in D
    <3> HIDE DEF D
    <3> QED
      BY <2>2, <2>3, UpTo
  <2> QED
    BY <2>1, <2>4
<1>3. P[Len(lines)] \in [Docs -> Int]
  OBVIOUS
<1> QED
  BY <1>1, <1>2, <1>3

(* The automatic lines are lines, and share out what was paid at most.     *)
LEMMA AutoFits ==
    ASSUME NEW h \in Headers, outstanding \in [Docs -> Int]
    PROVE  AutoLines(h) \in Seq(Line) /\ Total(AutoLines(h)) <= h.paid /\ Due(AutoLines(h))
<1> DEFINE S == DOMAIN Invoices
           V == {lines \in Seq(Line) : Total(lines) <= h.paid /\ Due(lines)}
           Left(lines) == h.paid - Total(lines)
           Least(x, y) == IF x < y THEN x ELSE y
           Adds(lines, i) ==
               IF i \notin Eligible(outstanding, h.party) \/ Left(lines) <= 0 THEN lines
               ELSE Append(lines, [inv |-> i, amount |-> Least(Left(lines), Magnitude(outstanding[i]))])
           step == [u \in V \X S |-> Adds(u[1], u[2])]
           places == [i \in DOMAIN Invoices |-> i]
           Iter(F) == F = [T \in SUBSET DOMAIN places |->
                               IF T = {} THEN <<>> ELSE Adds(F[T \ {Max(T)}], places[Max(T)])]
<1>1. Invoices \in Seq([party : Parties, total : Int \ {0}]) /\ h.paid \in 1..MaxPaid /\ MaxPaid \in Nat
  BY PaymentsAssumption DEF Headers
<1>2. /\ IsFiniteSet(S) /\ Picks(Top(S), S) /\ S = Docs
  BY <1>1, Positions DEF Docs
<1>3. <<>> \in V
  BY <1>1, TotalOfNone DEF Due
<1>4. ASSUME NEW lines \in V, NEW i \in S
      PROVE  Adds(lines, i) \in V
  <2>1. lines \in Seq(Line) /\ Total(lines) <= h.paid /\ Due(lines) /\ Total(lines) \in Nat
    BY TotalNat
  <2>2. CASE i \in Eligible(outstanding, h.party) /\ Left(lines) > 0
    <3> DEFINE a == Least(Left(lines), Magnitude(outstanding[i]))
               l == [inv |-> i, amount |-> a]
    <3>1. outstanding[i] \in Int \ {0} /\ Left(lines) \in 1..MaxPaid
      BY <1>1, <1>2, <2>1, <2>2 DEF Eligible
    <3>2. a \in 1..MaxPaid /\ a <= Left(lines)
      <4>1. PICK m \in Int : m = Magnitude(outstanding[i]) /\ m >= 1
        BY <3>1 DEF Magnitude
      <4>2. a = IF Left(lines) < m THEN Left(lines) ELSE m
        BY <4>1
      <4> HIDE DEF Left, a
      <4> QED
        BY <1>1, <3>1, <4>1, <4>2
    <3>3. l \in Line /\ l.amount = a
      <4> HIDE DEF a
      <4> QED
        BY <1>2, <3>2 DEF Line
    <3>4. Append(lines, l) \in Seq(Line) /\ Total(Append(lines, l)) = Total(lines) + l.amount
      <4> HIDE DEF l
      <4> QED
        BY <2>1, <3>3, TotalAppend
    <3>5. Total(Append(lines, l)) <= h.paid
      <4> HIDE DEF l, a
      <4> QED
        BY <1>1, <2>1, <3>2, <3>3, <3>4
    <3>7. Due(Append(lines, l))
      <4>1. l.inv = i
        OBVIOUS
      <4>2. Invoices[i].total > 0
        BY <2>2, EligibleIsDue
      <4> DEFINE more == Append(lines, l)
      <4>3. \A k \in DOMAIN more : more[k] = l \/ (k \in DOMAIN lines /\ more[k] = lines[k])
        <5> HIDE DEF l
        <5> QED
          BY <2>1, <3>3
      <4> HIDE DEF l, more
      <4>4. \A k \in DOMAIN more : Invoices[more[k].inv].total > 0
        BY <2>1, <4>1, <4>2, <4>3 DEF Due
      <4> QED
        BY <4>4 DEF Due, more
    <3>6. Adds(lines, i) = Append(lines, l)
      <4>1. ~(Left(lines) <= 0)
        <5> HIDE DEF Left
        <5> QED
          BY <1>1, <3>1
      <4> QED
        BY <2>2, <4>1
    <3> QED
      <4> HIDE DEF Adds, l
      <4> QED
        BY <3>4, <3>5, <3>6, <3>7
  <2>3. CASE i \notin Eligible(outstanding, h.party) \/ ~(Left(lines) > 0)
    <3>1. Left(lines) \in Int
      BY <1>1, <2>1
    <3>2. i \notin Eligible(outstanding, h.party) \/ Left(lines) <= 0
      <4> HIDE DEF Left
      <4> QED
        BY <2>3, <3>1
    <3> QED
      BY <3>2
  <2> QED
    BY <2>2, <2>3
<1>5. step \in [V \X S -> V]
  <2> HIDE DEF V, S, Adds
  <2> QED
    BY <1>4
<1>6. ASSUME NEW v \in V, NEW k \in S PROVE step[<<v, k>>] = Adds(v, k)
  <2> HIDE DEF V, S, Adds
  <2> QED
    OBVIOUS
<1>7. ASSUME NEW T \in SUBSET S, T # {} PROVE Max(T) \in T /\ Top(S)[T] = Max(T)
  BY <1>2, <1>7 DEF Picks, Top
<1>8. DOMAIN places = S /\ \A T \in SUBSET S : T # {} => places[Max(T)] = Max(T)
  BY <1>7
<1>9. \E F : Iter(F)
  <2>1. PICK F \in [SUBSET S -> V] : Iterates(F, <<>>, step, S)
    <3> HIDE DEF step, V
    <3> QED
      BY <1>1, <1>3, <1>5, IterExists
  <2>2. ASSUME NEW T \in SUBSET S, T # {}
        PROVE  F[T] = Adds(F[T \ {Max(T)}], Max(T))
    <3>1. F[T \ {Max(T)}] \in V /\ Max(T) \in S
      BY <1>7, <2>1, <2>2
    <3> HIDE DEF step, V, S, Adds
    <3> QED
      BY <1>6, <2>1, <2>2, <3>1 DEF Iterates
  <2>3. F[{}] = <<>> /\ DOMAIN F = SUBSET S /\ F = [T \in SUBSET S |-> F[T]]
    <3> HIDE DEF step, V, S
    <3> QED
      BY <2>1 DEF Iterates
  <2>4. Iter(F)
    <3> HIDE DEF step, V, S, Adds, places
    <3> QED
      BY <1>8, <2>2, <2>3
  <2> HIDE DEF Iter
  <2> QED
    BY <2>4
<1>10. AutoLines(h) = (CHOOSE G : Iter(G))[DOMAIN places]
  BY DEF AutoLines, FoldLeftDomain, FoldLeft, MapThenFoldSet
<1> DEFINE G == CHOOSE H : Iter(H)
<1>11. Iter(G)
  <2> HIDE DEF Iter
  <2> QED
    BY <1>9
<1> HIDE DEF G
<1>12. Runs(G, Top(S), step, <<>>, S, V)
  <2>1. DOMAIN G = SUBSET S /\ G[{}] = <<>>
    <3> HIDE DEF places, Adds
    <3> QED
      BY <1>11, <1>8
  <2>2. ASSUME NEW T \in SUBSET S, T # {}, G[T \ {Top(S)[T]}] \in V
        PROVE  G[T] = step[<<G[T \ {Top(S)[T]}], Top(S)[T]>>]
    <3>1. Top(S)[T] \in S /\ Top(S)[T] = Max(T)
      BY <1>7, <2>2
    <3>2. G[T] = Adds(G[T \ {Max(T)}], Max(T))
      <4> HIDE DEF Adds, places
      <4> QED
        BY <1>11, <1>8, <2>2
    <3> HIDE DEF step, V, S, Adds
    <3> QED
      BY <1>6, <2>2, <3>1, <3>2
  <2> HIDE DEF S, V, step
  <2> QED
    BY <2>1, <2>2 DEF Runs
<1>13. G[S] \in V
  <2>1. S \in SUBSET S
    OBVIOUS
  <2> HIDE DEF S, V, step
  <2> QED
    BY <1>2, <1>3, <1>5, <1>12, <2>1, FoldStays
<1> QED
  <2> HIDE DEF places
  <2> QED
    BY <1>10, <1>13, <1>8 DEF G

-----------------------------------------------------------------------------
(* The lines a request holds are worth what its payment paid at most, of   *)
(* no return, and a cancel holds those of the payment.                     *)
LinesOK ==
    \A r \in Requests : Past(r) =>
        /\ reg[r].lines \in Seq(Line) /\ Due(reg[r].lines)
        /\ Total(reg[r].lines) <= header[reg[r].pay].paid
        /\ reg[r].op = "cancel" => reg[r].lines = items[reg[r].pay]

ItemsDue == \A p \in Payments : Due(items[p])

Full ==
    /\ Inductive /\ TypeOK /\ LinesOK /\ ItemsDue
    /\ IsFiniteSet(With("submitted")) /\ OutstandingExact

(* No submitted payment takes nothing.                                     *)
LEMMA InitFull == Init => Full
<1> SUFFICES ASSUME Init PROVE Full
  OBVIOUS
<1>1. Inductive
  BY InitInductive
<1>2. \A i \in Docs : Invoices[i].total \in Int
  BY InvoiceTypes
<1>3. TypeOK
  <2>1. outstanding \in [Docs -> Int] /\ \A i \in Docs : Magnitude(outstanding[i]) <= Magnitude(Invoices[i].total)
    BY <1>2 DEF Init, Magnitude
  <2> QED
    BY <2>1 DEF Init, TypeOK
<1>4. LinesOK
  BY DEF Init, LinesOK, Past
<1>9. ItemsDue
  BY DEF Init, ItemsDue, Due
<1>5. With("submitted") = {}
  BY DEF Init, With
<1>6. IsFiniteSet(With("submitted"))
  BY <1>5, FS_EmptySet
<1>7. SumFunction([p \in {} |-> 0]) = 0
  <2> DEFINE f == [p \in {} |-> 0]
  <2>1. f \in [{} -> Int] /\ IsFiniteSet({})
    BY FS_EmptySet
  <2>2. PICK F \in [SUBSET {} -> Int] : PartSums(F, f, {})
    <3> HIDE DEF f
    <3> QED
      BY <2>1, SumIs, Zenon
  <2>3. [e \in {} |-> f[e]] = f /\ {} \in SUBSET {}
    OBVIOUS
  <2> QED
    BY <2>2, <2>3 DEF PartSums
<1>8. OutstandingExact
  <2> SUFFICES ASSUME NEW i \in Docs
               PROVE  LET rest == Magnitude(Invoices[i].total)
                                  - SumFunction([p \in With("submitted") |-> Allocated(p, i)])
                      IN /\ Magnitude(outstanding[i]) = IF rest < 0 THEN 0 ELSE rest
                         /\ Invoices[i].total > 0 => outstanding[i] >= 0
                         /\ Invoices[i].total < 0 => outstanding[i] <= 0
    BY DEF OutstandingExact
  <2>1. [p \in With("submitted") |-> Allocated(p, i)] = [p \in {} |-> 0]
    BY <1>5
  <2>2. outstanding[i] = Invoices[i].total
    BY DEF Init
  <2>3. SumFunction([p \in With("submitted") |-> Allocated(p, i)]) = 0
    BY <1>7, <2>1
  <2> QED
    BY <1>2, <2>2, <2>3 DEF Magnitude
<1> QED
  BY <1>1, <1>3, <1>4, <1>6, <1>8, <1>9 DEF Full

(* A step that leaves the invoices and the lines of every payment past its *)
(* draft alone.                                                            *)
LEMMA SameBooks ==
    ASSUME Full, outstanding' = outstanding,
           With("submitted")' = With("submitted"), With("cancelled")' = With("cancelled"),
           \A p \in With("submitted") \cup With("cancelled") : items'[p] = items[p]
    PROVE  IsFiniteSet(With("submitted"))' /\ OutstandingExact'
<1>1. IsFiniteSet(With("submitted")')
  BY DEF Full
<1>2. ASSUME NEW i \in Docs, \A p \in With("cancelled")' : Share(items'[p], i) = 0
      PROVE  LET rest == Magnitude(Invoices[i].total)
                         - SumFunction([p \in With("submitted")' |-> Share(items'[p], i)])
             IN /\ Magnitude(outstanding'[i]) = IF rest < 0 THEN 0 ELSE rest
                /\ Invoices[i].total > 0 => outstanding'[i] >= 0
                /\ Invoices[i].total < 0 => outstanding'[i] <= 0
  <2>1. \A p \in With("cancelled") : Allocated(p, i) = 0
    BY <1>2 DEF Allocated
  <2>2. [p \in With("submitted")' |-> Share(items'[p], i)] = [p \in With("submitted") |-> Allocated(p, i)]
    BY DEF Allocated
  <2> QED
    BY <2>1, <2>2 DEF Full, OutstandingExact
<1> QED
  BY <1>1, <1>2 DEF OutstandingExact, Allocated

(* A request that moves.                                                   *)
LEMMA MoveFull ==
    ASSUME Full, Inductive', NEW r \in Requests, NEW p \in Payments, NEW x,
           reg' = [reg EXCEPT ![r] = x],
           UNCHANGED <<outstanding, status, header, items, journal>>,
           x # Null => /\ x.op \in {"submit", "cancel"} /\ x.pay = p
                       /\ x.pc \in {"read", "locked", "posted"},
           x # Null /\ x.pc # "read" => /\ x.lines \in Seq(Line) /\ Total(x.lines) <= header[p].paid
                                        /\ Due(x.lines)
                                        /\ x.op = "cancel" => x.lines = items[p]
    PROVE  Full'
<1>1. reg'[r] = x /\ \A s \in Requests \ {r} : reg'[s] = reg[s]
  BY DEF Full, TypeOK
<1>2. TypeOK'
  BY <1>1 DEF Full, TypeOK, Before
<1>3. LinesOK'
  <2> SUFFICES ASSUME NEW s \in Requests, Past(s)'
               PROVE  /\ reg'[s].lines \in Seq(Line) /\ Due(reg'[s].lines)
                      /\ Total(reg'[s].lines) <= header[reg'[s].pay].paid
                      /\ reg'[s].op = "cancel" => reg'[s].lines = items[reg'[s].pay]
    BY DEF LinesOK
  <2>1. CASE s = r
    BY <1>1, <2>1 DEF Past
  <2>2. CASE s # r
    <3>1. reg'[s] = reg[s] /\ Past(s)
      BY <1>1, <2>2 DEF Past
    <3> QED
      BY <3>1 DEF Full, LinesOK
  <2> QED
    BY <2>1, <2>2
<1>4. IsFiniteSet(With("submitted"))' /\ OutstandingExact'
  <2>1. With("submitted")' = With("submitted") /\ With("cancelled")' = With("cancelled")
    BY DEF With
  <2> QED
    BY <2>1, SameBooks
<1>5. ItemsDue'
  BY DEF Full, ItemsDue
<1> QED
  BY <1>2, <1>3, <1>4, <1>5 DEF Full

(* A new or edited payment.                                                *)
LEMMA EditFull ==
    ASSUME Full, Inductive', NEW p \in Payments, NEW h \in Headers, NEW lines \in Seq(Line),
           Total(lines) <= h.paid, Due(lines), status[p] \in {"none", "draft"},
           \A r \in Requests : Past(r) => reg[r].pay # p,
           header' = [header EXCEPT ![p] = h], items' = [items EXCEPT ![p] = lines],
           status' = [status EXCEPT ![p] = "draft"], UNCHANGED <<outstanding, journal, reg>>
    PROVE  Full'
<1>1. /\ header'[p] = h /\ items'[p] = lines /\ status'[p] = "draft"
      /\ \A q \in Payments \ {p} : header'[q] = header[q] /\ items'[q] = items[q] /\ status'[q] = status[q]
  BY DEF Full, TypeOK
<1>2. TypeOK'
  <2>1. /\ status' \in [Payments -> {"none", "draft", "submitted", "cancelled"}]
        /\ header' \in [Payments -> Headers \cup {Null}] /\ items' \in [Payments -> Seq(Line)]
    BY DEF Full, TypeOK
  <2>2. \A q \in Payments : status'[q] # "none" => Total(items'[q]) <= header'[q].paid
    BY <1>1 DEF Full, TypeOK
  <2> QED
    BY <2>1, <2>2 DEF Full, TypeOK
<1>3. LinesOK'
  <2> SUFFICES ASSUME NEW s \in Requests, Past(s)
               PROVE  /\ reg[s].lines \in Seq(Line) /\ Due(reg[s].lines)
                      /\ Total(reg[s].lines) <= header'[reg[s].pay].paid
                      /\ reg[s].op = "cancel" => reg[s].lines = items'[reg[s].pay]
    BY DEF LinesOK, Past
  <2>1. reg[s].pay \in Payments \ {p}
    BY DEF Full, TypeOK, Past
  <2> QED
    BY <1>1, <2>1 DEF Full, LinesOK
<1>4. IsFiniteSet(With("submitted"))' /\ OutstandingExact'
  <2>1. With("submitted")' = With("submitted") /\ With("cancelled")' = With("cancelled")
    BY <1>1 DEF With
  <2>2. \A q \in With("submitted") \cup With("cancelled") : items'[q] = items[q]
    BY <1>1 DEF With
  <2> QED
    BY <2>1, <2>2, SameBooks
<1>5. ItemsDue'
  BY <1>1 DEF Full, ItemsDue
<1> QED
  BY <1>2, <1>3, <1>4, <1>5 DEF Full

(* What a commit writes: each invoice is settled by the lines, which are   *)
(* the payment's from then on.                                             *)
LEMMA CommitWrites ==
    ASSUME Full, NEW r \in Requests, NEW p \in Payments, Commit(r, p)
    PROVE  /\ reg[r].lines \in Seq(Line) /\ Total(reg[r].lines) <= header[p].paid /\ Due(reg[r].lines)
           /\ outstanding' \in [Docs -> Int]
           /\ \A i \in Docs : Settled(outstanding[i], outstanding'[i], Share(reg[r].lines, i))
           /\ \/ status[p] = "draft" /\ status'[p] = "submitted"
              \/ status[p] = "submitted" /\ status'[p] = "cancelled" /\ reg[r].lines = items[p]
<1>1. /\ Posted(r) /\ Past(r) /\ reg[r].pay = p /\ reg[r].op \in {"submit", "cancel"}
      /\ status[p] = Before[reg[r].op]
  BY DEF Commit, Holds, Full, Inductive, TablesOK, LocksOK, Posted, Past
<1>2. /\ reg[r].lines \in Seq(Line) /\ Total(reg[r].lines) <= header[p].paid /\ Due(reg[r].lines)
      /\ reg[r].op = "cancel" => reg[r].lines = items[p]
  BY <1>1 DEF Full, LinesOK
<1>3. reg[r].out = Allocate(outstanding, reg[r].lines, Sign(reg[r].op))
  BY <1>1 DEF Full, Inductive, WritesAreCurrent, Posted
<1>4. Sign(reg[r].op) \in {1, -1} /\ outstanding \in [Docs -> Int]
  BY DEF Sign, Full, TypeOK
<1>5. /\ reg[r].out \in [Docs -> Int]
      /\ \A i \in Docs : Settled(outstanding[i], reg[r].out[i], Share(reg[r].lines, i))
  BY <1>2, <1>3, <1>4, AllocateSettles
<1>6. ASSUME NEW i \in Docs
      PROVE  outstanding'[i] \in Int /\ Settled(outstanding[i], outstanding'[i], Share(reg[r].lines, i))
  <2>1. CASE \E k \in DOMAIN reg[r].lines : reg[r].lines[k].inv = i
    BY <1>5, <2>1 DEF Commit
  <2>2. CASE \A k \in DOMAIN reg[r].lines : reg[r].lines[k].inv # i
    <3>1. Share(reg[r].lines, i) = 0
      BY <1>2, <2>2, ShareNat
    <3>2. outstanding'[i] = outstanding[i] /\ outstanding[i] \in Int
      BY <1>4, <2>2 DEF Commit
    <3> QED
      BY <3>1, <3>2 DEF Settled
  <2> QED
    BY <2>1, <2>2
<1>7. outstanding' \in [Docs -> Int]
  <2>1. outstanding' = [i \in Docs |-> outstanding'[i]]
    BY DEF Commit
  <2> QED
    BY <1>6, <2>1
<1>8. status'[p] = After[reg[r].op]
  BY DEF Commit, Full, TypeOK
<1> QED
  BY <1>1, <1>2, <1>6, <1>7, <1>8 DEF Before, After

(* A submit adds the share of its payment to what its invoice is short of. *)
LEMMA OneMore ==
    ASSUME NEW S, IsFiniteSet(S), NEW p, p \notin S, NEW f \in [S \cup {p} -> Int]
    PROVE  SumFunction(f) = f[p] + SumFunction([q \in S |-> f[q]])
<1> DEFINE U == S \cup {p}
<1>1. IsFiniteSet(U)
  BY FS_AddElement
<1>2. PICK F \in [SUBSET U -> Int] : PartSums(F, f, U)
  <2>1. f \in [U -> Int]
    OBVIOUS
  <2> HIDE DEF U
  <2> QED
    BY <1>1, <2>1, SumIs, Zenon
<1>3. U \in SUBSET U /\ S \in SUBSET U /\ p \in U /\ U \ {p} = S
  OBVIOUS
<1>4. F[U] = f[p] + F[S]
  <2> HIDE DEF U
  <2> QED
    BY <1>2, <1>3 DEF PartSums
<1>5. [q \in U |-> f[q]] = f
  OBVIOUS
<1>6. SumFunction(f) = F[U] /\ SumFunction([q \in S |-> f[q]]) = F[S]
  <2>1. SumFunction([q \in U |-> f[q]]) = F[U] /\ SumFunction([q \in S |-> f[q]]) = F[S]
    <3> HIDE DEF U
    <3> QED
      BY <1>2, <1>3 DEF PartSums
  <2> QED
    BY <1>5, <2>1
<1> QED
  BY <1>4, <1>6

(* A sum of integers is an integer.                                        *)
LEMMA SumInt ==
    ASSUME NEW S, IsFiniteSet(S), NEW f \in [S -> Int]
    PROVE  SumFunction(f) \in Int
<1>1. PICK F \in [SUBSET S -> Int] : PartSums(F, f, S)
  BY SumIs, Zenon
<1>2. [q \in S |-> f[q]] = f /\ S \in SUBSET S
  OBVIOUS
<1> QED
  BY <1>1, <1>2 DEF PartSums

LEMMA CommitExact ==
    ASSUME Full, NEW r \in Requests, NEW p \in Payments, Commit(r, p)
    PROVE  IsFiniteSet(With("submitted"))' /\ OutstandingExact'
<1> DEFINE S == With("submitted")
           lines == reg[r].lines
<1>1. /\ IsFiniteSet(S) /\ lines \in Seq(Line)
      /\ outstanding \in [Docs -> Int] /\ outstanding' \in [Docs -> Int]
      /\ \A i \in Docs : Settled(outstanding[i], outstanding'[i], Share(lines, i))
  BY CommitWrites DEF Full, TypeOK
<1>2. /\ items'[p] = lines /\ items \in [Payments -> Seq(Line)]
      /\ \A q \in Payments \ {p} : items'[q] = items[q] /\ status'[q] = status[q]
  BY DEF Commit, Full, TypeOK
<1>3. \A q \in Payments, i \in Docs : Share(items'[q], i) \in Nat /\ Share(items[q], i) \in Nat
  BY <1>1, <1>2, ShareNat
<1>4. ASSUME NEW i \in Docs, \A q \in With("cancelled")' : Share(items'[q], i) = 0,
             \A q \in With("cancelled") : q # p, NEW s \in Int, NEW t \in Int, NEW a \in Nat,
             s = SumFunction([q \in S |-> Share(items[q], i)]), t = s + a,
             Settled(outstanding[i], outstanding'[i], a),
             With("cancelled") \subseteq With("cancelled")'
      PROVE  LET rest == Magnitude(Invoices[i].total) - t
             IN /\ Magnitude(outstanding'[i]) = IF rest < 0 THEN 0 ELSE rest
                /\ Invoices[i].total > 0 => outstanding'[i] >= 0
                /\ Invoices[i].total < 0 => outstanding'[i] <= 0
  <2>1. \A q \in With("cancelled") : Allocated(q, i) = 0
    BY <1>2, <1>4 DEF Allocated, With
  <2>2. [q \in S |-> Share(items[q], i)] = [q \in S |-> Allocated(q, i)]
    BY DEF Allocated
  <2>3. LET rest == Magnitude(Invoices[i].total) - s
        IN /\ Magnitude(outstanding[i]) = IF rest < 0 THEN 0 ELSE rest
           /\ Invoices[i].total > 0 => outstanding[i] >= 0
           /\ Invoices[i].total < 0 => outstanding[i] <= 0
    BY <1>4, <2>1, <2>2 DEF Full, OutstandingExact
  <2>4. PICK x \in Int : x = outstanding[i]
    BY <1>1
  <2>5. PICK y \in Int : y = outstanding'[i]
    BY <1>1
  <2>6. PICK z \in Int : z = Invoices[i].total /\ z # 0
    BY InvoiceTypes
  <2>7. Settled(x, y, a)
    BY <1>4, <2>4, <2>5
  <2>8. LET rest == Magnitude(z) - s
        IN /\ Magnitude(x) = IF rest < 0 THEN 0 ELSE rest
           /\ z > 0 => x >= 0
           /\ z < 0 => x <= 0
    BY <2>3, <2>4, <2>6
  <2>9. LET rest == Magnitude(z) - (s + a)
        IN /\ Magnitude(y) = IF rest < 0 THEN 0 ELSE rest
           /\ z > 0 => y >= 0
           /\ z < 0 => y <= 0
    BY <2>6, <2>7, <2>8 DEF Settled, Magnitude
  <2> QED
    BY <1>4, <2>5, <2>6, <2>9
<1>5. CASE status[p] = "draft" /\ status'[p] = "submitted"
  <2>1. With("submitted")' = S \cup {p} /\ p \notin S /\ With("cancelled")' = With("cancelled")
    BY <1>2, <1>5 DEF With
  <2>2. IsFiniteSet(With("submitted")')
    BY <1>1, <2>1, FS_AddElement
  <2>3. ASSUME NEW i \in Docs, \A q \in With("cancelled")' : Share(items'[q], i) = 0
        PROVE  LET rest == Magnitude(Invoices[i].total)
                           - SumFunction([q \in With("submitted")' |-> Share(items'[q], i)])
               IN /\ Magnitude(outstanding'[i]) = IF rest < 0 THEN 0 ELSE rest
                  /\ Invoices[i].total > 0 => outstanding'[i] >= 0
                  /\ Invoices[i].total < 0 => outstanding'[i] <= 0
    <3> DEFINE f == [q \in S \cup {p} |-> Share(items'[q], i)]
               g == [q \in S |-> Share(items[q], i)]
               a == Share(lines, i)
    <3>1. S \cup {p} \subseteq Payments
      BY DEF With
    <3>2. f \in [S \cup {p} -> Int] /\ g \in [S -> Int]
      BY <1>3, <3>1
    <3>3. [q \in S |-> f[q]] = g /\ f[p] = a
      BY <1>2, <2>1, <3>1
    <3>4. SumFunction(f) = a + SumFunction(g)
      <4>1. SumFunction(f) = f[p] + SumFunction([q \in S |-> f[q]])
        <5>1. f \in [S \cup {p} -> Int] /\ p \notin S /\ IsFiniteSet(S)
          BY <1>1, <2>1, <3>2
        <5> HIDE DEF f, S
        <5> QED
          BY <5>1, OneMore
      <4> QED
        BY <3>3, <4>1
    <3>5. a \in Nat /\ SumFunction(g) \in Int /\ SumFunction(f) = SumFunction(g) + a
      <4>1. a \in Nat
        BY <1>1, ShareNat
      <4>2. SumFunction(g) \in Int
        <5> HIDE DEF g, S
        <5> QED
          BY <1>1, <3>2, SumInt
      <4> HIDE DEF a, f, g
      <4> QED
        BY <3>4, <4>1, <4>2
    <3>6. /\ Settled(outstanding[i], outstanding'[i], a) /\ \A q \in With("cancelled") : q # p
          /\ With("cancelled") \subseteq With("cancelled")'
      BY <1>1, <1>5, <2>1 DEF With
    <3>7. PICK t \in Int : t = SumFunction(f)
      <4> HIDE DEF a, f, g
      <4> QED
        BY <3>5
    <3>8. LET rest == Magnitude(Invoices[i].total) - t
          IN /\ Magnitude(outstanding'[i]) = IF rest < 0 THEN 0 ELSE rest
             /\ Invoices[i].total > 0 => outstanding'[i] >= 0
             /\ Invoices[i].total < 0 => outstanding'[i] <= 0
      <4> HIDE DEF a, f, S
      <4> QED
        BY <1>4, <2>3, <3>5, <3>6, <3>7
    <3> QED
      BY <2>1, <3>7, <3>8
  <2> QED
    BY <2>2, <2>3 DEF OutstandingExact, Allocated
<1>6. CASE status[p] = "submitted" /\ status'[p] = "cancelled" /\ lines = items[p]
  <2>1. /\ With("submitted")' = S \ {p} /\ p \in S /\ With("cancelled")' = With("cancelled") \cup {p}
        /\ p \notin With("cancelled")
    BY <1>2, <1>6 DEF With
  <2>2. IsFiniteSet(With("submitted")') /\ IsFiniteSet(S \ {p})
    BY <1>1, <2>1, FS_RemoveElement
  <2>3. ASSUME NEW i \in Docs, \A q \in With("cancelled")' : Share(items'[q], i) = 0
        PROVE  LET rest == Magnitude(Invoices[i].total)
                           - SumFunction([q \in With("submitted")' |-> Share(items'[q], i)])
               IN /\ Magnitude(outstanding'[i]) = IF rest < 0 THEN 0 ELSE rest
                  /\ Invoices[i].total > 0 => outstanding'[i] >= 0
                  /\ Invoices[i].total < 0 => outstanding'[i] <= 0
    <3> DEFINE S2 == S \ {p}
               f == [q \in S |-> Share(items[q], i)]
               g == [q \in S2 |-> Share(items'[q], i)]
    <3>1. S \subseteq Payments /\ Share(lines, i) = 0
      BY <1>2, <2>1, <2>3 DEF With
    <3>2. f \in [S -> Int] /\ S = S2 \cup {p} /\ p \notin S2
      BY <1>3, <2>1, <3>1
    <3>3. [q \in S2 |-> f[q]] = g /\ f[p] = 0
      BY <1>2, <1>6, <2>1, <3>1
    <3>4. SumFunction(f) = 0 + SumFunction(g)
      <4>1. SumFunction(f) = f[p] + SumFunction([q \in S2 |-> f[q]])
        <5>1. f \in [S2 \cup {p} -> Int]
          BY <3>2
        <5> HIDE DEF f, S2, S
        <5> QED
          BY <2>2, <3>2, <5>1, OneMore DEF S2
      <4> QED
        BY <3>3, <4>1
    <3>5. SumFunction(f) \in Int /\ SumFunction(g) \in Int
      <4>1. g \in [S2 -> Int]
        BY <1>3, <3>1
      <4> HIDE DEF f, g, S
      <4> QED
        BY <1>1, <2>2, <3>2, <4>1, SumInt
    <3>6. /\ Settled(outstanding[i], outstanding'[i], 0) /\ \A q \in With("cancelled") : q # p
          /\ With("cancelled") \subseteq With("cancelled")'
      BY <1>1, <2>1, <3>1
    <3>7. PICK t \in Int : t = SumFunction(g) /\ t = SumFunction(f) + 0
      <4> HIDE DEF f, g
      <4> QED
        BY <3>4, <3>5
    <3>8. LET rest == Magnitude(Invoices[i].total) - t
          IN /\ Magnitude(outstanding'[i]) = IF rest < 0 THEN 0 ELSE rest
             /\ Invoices[i].total > 0 => outstanding'[i] >= 0
             /\ Invoices[i].total < 0 => outstanding'[i] <= 0
      <4> HIDE DEF g, S
      <4> QED
        BY <1>4, <2>3, <3>5, <3>6, <3>7
    <3> QED
      BY <2>1, <3>7, <3>8
  <2> QED
    BY <2>2, <2>3 DEF OutstandingExact, Allocated
<1> QED
  BY <1>5, <1>6, CommitWrites

LEMMA CommitFull ==
    ASSUME Full, Inductive', NEW r \in Requests, NEW p \in Payments, Commit(r, p)
    PROVE  Full'
<1> DEFINE lines == reg[r].lines
<1>1. /\ lines \in Seq(Line) /\ Total(lines) <= header[p].paid /\ Due(lines)
      /\ outstanding' \in [Docs -> Int]
      /\ \A i \in Docs : Settled(outstanding[i], outstanding'[i], Share(lines, i))
  BY CommitWrites
<1>2. /\ items'[p] = lines /\ header' = header
      /\ reg'[r] = Null /\ \A s \in Requests \ {r} : reg'[s] = reg[s]
      /\ \A q \in Payments \ {p} : items'[q] = items[q] /\ status'[q] = status[q]
  BY DEF Commit, Full, TypeOK
<1>3. TypeOK'
  <2>1. ASSUME NEW i \in Docs PROVE Magnitude(outstanding'[i]) <= Magnitude(Invoices[i].total)
    <3>1. PICK x \in Int : x = outstanding[i]
      BY DEF Full, TypeOK
    <3>2. PICK y \in Int : y = outstanding'[i]
      BY <1>1
    <3>3. PICK a \in Nat : a = Share(lines, i)
      BY <1>1, ShareNat
    <3>4. Settled(x, y, a) /\ Magnitude(x) <= Magnitude(Invoices[i].total)
      BY <1>1, <3>1, <3>2, <3>3 DEF Full, TypeOK
    <3>5. Magnitude(y) <= Magnitude(x) /\ Magnitude(x) \in Int /\ Magnitude(y) \in Int
      BY <3>4 DEF Settled, Magnitude
    <3>6. Magnitude(Invoices[i].total) \in Int
      BY InvoiceTypes DEF Magnitude
    <3> QED
      BY <3>2, <3>4, <3>5, <3>6
  <2>2. /\ header' \in [Payments -> Headers \cup {Null}] /\ DOMAIN reg' = Requests
        /\ items' \in [Payments -> Seq(Line)]
    BY <1>1 DEF Commit, Full, TypeOK
  <2>3. status' \in [Payments -> {"none", "draft", "submitted", "cancelled"}]
    BY DEF Full, Inductive, TablesOK
  <2>4. \A q \in Payments : status'[q] # "none" => Total(items'[q]) <= header'[q].paid
    BY <1>1, <1>2 DEF Full, TypeOK
  <2>5. \A s \in Requests : reg'[s] # Null =>
            /\ reg'[s].op \in DOMAIN Before /\ reg'[s].pay \in Payments
            /\ reg'[s].pc \in {"read", "locked", "posted"}
    BY <1>2 DEF Full, TypeOK
  <2> QED
    BY <1>1, <2>1, <2>2, <2>3, <2>4, <2>5 DEF TypeOK
<1>4. LinesOK'
  <2> SUFFICES ASSUME NEW s \in Requests, Past(s)'
               PROVE  /\ reg'[s].lines \in Seq(Line) /\ Due(reg'[s].lines)
                      /\ Total(reg'[s].lines) <= header'[reg'[s].pay].paid
                      /\ reg'[s].op = "cancel" => reg'[s].lines = items'[reg'[s].pay]
    BY DEF LinesOK
  <2>1. s # r /\ reg'[s] = reg[s] /\ Past(s) /\ reg[s].pay \in Payments
    BY <1>2 DEF Past, Full, TypeOK
  <2>2. Past(r) /\ reg[r].pay = p
    BY DEF Commit, Holds, Past
  <2>3. reg[s].pay # p
    BY <2>1, <2>2 DEF Full, Inductive, LocksOK
  <2> QED
    BY <1>2, <2>1, <2>3 DEF Full, LinesOK
<1>5. IsFiniteSet(With("submitted"))' /\ OutstandingExact'
  BY CommitExact
<1>6. ItemsDue'
  BY <1>1, <1>2 DEF Full, ItemsDue
<1> QED
  BY <1>3, <1>4, <1>5, <1>6 DEF Full

(* Every step preserves the invariant.                                     *)
LEMMA TypedAreLines == TypedLines \subseteq Seq(Line)
BY PaymentsAssumption DEF TypedLines

LEMMA NextFull == Full /\ [Next]_vars => Full'
<1> SUFFICES ASSUME Full, [Next]_vars PROVE Full'
  OBVIOUS
<1>1. Inductive'
  BY NextInductive DEF Full
<1>2. outstanding \in [Docs -> Int]
  BY DEF Full, TypeOK
<1>3. CASE UNCHANGED vars
  <2>1. TypeOK'
    BY <1>3 DEF vars, Full, TypeOK
  <2>2. LinesOK'
    BY <1>3 DEF vars, Full, LinesOK, Past
  <2>3. IsFiniteSet(With("submitted"))' /\ OutstandingExact'
    <3>1. With("submitted")' = With("submitted") /\ With("cancelled")' = With("cancelled")
      BY <1>3 DEF vars, With
    <3> QED
      BY <1>3, <3>1, SameBooks DEF vars
  <2>4. ItemsDue'
    BY <1>3 DEF vars, Full, ItemsDue
  <2> QED
    BY <1>1, <2>1, <2>2, <2>3, <2>4 DEF Full
<1>4. ASSUME NEW p \in Payments, Create(p) PROVE Full'
  <2>1. PICK h \in Headers, typed \in TypedLines, auto \in BOOLEAN :
            /\ Valid(typed, h)
            /\ header' = [header EXCEPT ![p] = h]
            /\ items' = [items EXCEPT ![p] = IF auto THEN AutoLines(h) ELSE typed]
    BY <1>4 DEF Create
  <2>5. Total(typed) <= h.paid /\ Due(typed) /\ typed \in Seq(Line)
    BY <2>1, ValidIsDue, TypedAreLines DEF Valid
  <2>2. PICK lines \in Seq(Line) : /\ lines = (IF auto THEN AutoLines(h) ELSE typed)
                                   /\ Total(lines) <= h.paid /\ Due(lines)
    BY <1>2, <2>5, AutoFits
  <2>3. \A r \in Requests : Past(r) => reg[r].pay # p
    <3> SUFFICES ASSUME NEW r \in Requests, Past(r), reg[r].pay = p PROVE FALSE
      OBVIOUS
    <3>1. reg[r].op \in {"submit", "cancel"} /\ status[p] = Before[reg[r].op]
      BY DEF Full, Inductive, TablesOK, LocksOK, Past
    <3> QED
      BY <1>4, <3>1 DEF Create, Before
  <2>4. /\ items' = [items EXCEPT ![p] = lines] /\ status[p] \in {"none", "draft"}
        /\ status' = [status EXCEPT ![p] = "draft"] /\ UNCHANGED <<outstanding, journal, reg>>
    BY <1>4, <2>1, <2>2 DEF Create
  <2> QED
    BY <1>1, <2>1, <2>2, <2>3, <2>4, EditFull
<1>5. ASSUME NEW p \in Payments, Update(p) PROVE Full'
  <2>1. PICK h \in Headers, lines \in Seq(Line) : Edited(p, h, lines) /\ Due(lines)
    <3>1. items[p] \in Seq(Line) /\ Due(items[p])
      BY DEF Full, TypeOK, ItemsDue
    <3>2. \A h \in Headers : AutoLines(h) \in Seq(Line) /\ Due(AutoLines(h))
      BY <1>2, AutoFits
    <3>3. \A h \in Headers, lines \in TypedLines : Valid(lines, h) => Due(lines)
      BY ValidIsDue
    <3> QED
      BY <1>5, <3>1, <3>2, <3>3, TypedAreLines DEF Update
  <2>2. \A r \in Requests : Past(r) => reg[r].pay # p
    BY <1>5 DEF Update, Unlocked, Past
  <2>3. /\ status[p] \in {"none", "draft"} /\ status' = [status EXCEPT ![p] = "draft"]
        /\ UNCHANGED <<outstanding, journal, reg>>
    BY <1>5 DEF Update, Full, TypeOK
  <2> QED
    BY <1>1, <2>1, <2>2, <2>3, EditFull DEF Edited
<1>6. ASSUME NEW r \in Requests, NEW p \in Payments, Read(r, p) PROVE Full'
  <2>1. PICK op \in {"submit", "cancel"} :
          reg' = [reg EXCEPT ![r] = [op |-> op, pay |-> p, pc |-> "read"]]
    BY <1>6 DEF Read, Before
  <2> QED
    BY <1>1, <1>6, <2>1, MoveFull DEF Read
<1>7. ASSUME NEW r \in Requests, NEW p \in Payments, Lock(r, p) PROVE Full'
  <2>1. PICK auto \in BOOLEAN :
            /\ auto => reg[r].op = "submit"
            /\ reg' = [reg EXCEPT ![r] = [op |-> reg[r].op, pay |-> p, pc |-> "locked",
                                          lines |-> IF auto THEN AutoLines(header[p]) ELSE items[p]]]
    BY <1>7 DEF Lock
  <2>2. reg[r].op \in {"submit", "cancel"} /\ status[p] # "none"
    BY <1>7 DEF Lock, Holds, Full, TypeOK, Before
  <2>3. /\ header[p] \in Headers /\ items[p] \in Seq(Line) /\ Total(items[p]) <= header[p].paid
        /\ Due(items[p])
    BY <2>2 DEF Full, Inductive, HeadersOK, TypeOK, ItemsDue
  <2>4. PICK lines : lines = IF auto THEN AutoLines(header[p]) ELSE items[p]
    OBVIOUS
  <2>5. /\ lines \in Seq(Line) /\ Total(lines) <= header[p].paid /\ Due(lines)
        /\ reg[r].op = "cancel" => lines = items[p]
    BY <1>2, <2>1, <2>3, <2>4, AutoFits
  <2>6. PICK x : x = [op |-> reg[r].op, pay |-> p, pc |-> "locked", lines |-> lines]
    OBVIOUS
  <2>7. reg' = [reg EXCEPT ![r] = x] /\ UNCHANGED <<outstanding, status, header, items, journal>>
    BY <1>7, <2>1, <2>4, <2>6 DEF Lock
  <2>8. x.op = reg[r].op /\ x.pay = p /\ x.pc = "locked" /\ x.lines = lines
    BY <2>6
  <2>9. x.op \in {"submit", "cancel"} /\ x.pc \in {"read", "locked", "posted"}
    BY <2>2, <2>8
  <2> QED
    BY <1>1, <2>5, <2>7, <2>8, <2>9, MoveFull
<1>8. ASSUME NEW r \in Requests, NEW p \in Payments, Post(r, p) PROVE Full'
  <2>1. Past(r) /\ reg[r].pay = p /\ reg[r].op \in {"submit", "cancel"}
    BY <1>8 DEF Post, Holds, Past, Full, Inductive, TablesOK
  <2>2. PICK x : x = Written(r, p)
    OBVIOUS
  <2>3. /\ reg' = [reg EXCEPT ![r] = x] /\ UNCHANGED <<outstanding, status, header, items, journal>>
        /\ x.op = reg[r].op /\ x.pay = p /\ x.pc = "posted" /\ x.lines = reg[r].lines
    BY <1>8, <2>2 DEF Post, Written
  <2>4. /\ x.op \in {"submit", "cancel"} /\ x.pc \in {"read", "locked", "posted"}
        /\ x.lines \in Seq(Line) /\ Total(x.lines) <= header[p].paid /\ Due(x.lines)
        /\ x.op = "cancel" => x.lines = items[p]
    BY <2>1, <2>3 DEF Full, LinesOK
  <2> QED
    BY <1>1, <2>3, <2>4, MoveFull
<1>9. ASSUME NEW r \in Requests, NEW p \in Payments, Commit(r, p) PROVE Full'
  BY <1>1, <1>9, CommitFull
<1>10. ASSUME NEW r \in Requests, Abort(r) PROVE Full'
  <2>1. reg[r].pay \in Payments
    BY <1>10 DEF Abort, Full, TypeOK
  <2> QED
    BY <1>1, <1>10, <2>1, MoveFull DEF Abort
<1> QED
  BY <1>3, <1>4, <1>5, <1>6, <1>7, <1>8, <1>9, <1>10 DEF Next

LEMMA AlwaysFull == Spec => []Full
BY InitFull, NextFull, PTL DEF Spec

(* The tables, the requests and the amounts keep their types, however many *)
(* lines are typed or allocated by the service.                            *)
THEOREM TypeCorrect == Spec => []TypeOK
<1>1. Full => TypeOK
  BY DEF Full
<1> QED
  BY <1>1, AlwaysFull, PTL

(* What is outstanding on an invoice is what the submitted payments leave  *)
(* of it, in whatever order requests submit, cancel and edit payments; and *)
(* a return, which the lists of eligible documents never offer, is owed in *)
(* full for ever.                                                          *)
THEOREM OutstandingIsExact == Spec => []OutstandingExact
<1>1. Full => OutstandingExact
  BY DEF Full
<1> QED
  BY <1>1, AlwaysFull, PTL
=============================================================================
