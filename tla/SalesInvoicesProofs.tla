------------------------ MODULE SalesInvoicesProofs ------------------------
(***************************************************************************)
(* Proofs about sales invoices, for any invoices, returns and requests.    *)
(*                                                                         *)
(* A submit works from what it read; that is still the invoice unless the  *)
(* invoice was written in between (Reads).  What the returns of an invoice *)
(* hold is a sum over a set, counted unit by unit: its laws (TotalFacts)   *)
(* follow from those of cardinality.                                       *)
(***************************************************************************)
EXTENDS SalesInvoices, FiniteSetTheorems, TLAPS

Early(d) == status[d] \in {"NONE", "DRAFT"}

(* What a request that is under way knows of its invoice.                  *)
Reads ==
    /\ \A r \in Requests : Is(r, "create") => status[reg[r].inv] = "NONE"
    /\ \A r \in Requests : Is(r, "update") => status[reg[r].inv] = "DRAFT"
    /\ \A r \in Requests : Is(r, "submit") => status[reg[r].inv] # "NONE"
    /\ \A r \in Requests : Is(r, "submit") /\ reg[r].inv \notin overtaken =>
           status[reg[r].inv] = "DRAFT" /\ reg[r].seen = content[reg[r].inv]

(* Two requests never save one invoice.                                    *)
OneCreator ==
    \A r, q \in Requests : Is(r, "create") /\ Is(q, "create") /\ reg[r].inv = reg[q].inv => r = q

NothingMovedEarly == \A d \in Invoices : Early(d) => moved[d] = <<>>

Inductive == TypeOK /\ Reads /\ OneCreator /\ NothingMovedEarly /\ JournalOnce /\ PostedAsWritten

(* Before the first request nothing is saved or posted.                    *)
LEMMA InitInductive == Init => Inductive
<1> SUFFICES ASSUME Init PROVE Inductive
  OBVIOUS
<1>1. TypeOK
  BY DEF Init, TypeOK, Statuses
<1>2. Reads /\ OneCreator /\ NothingMovedEarly
  BY DEF Init, Reads, OneCreator, NothingMovedEarly, Is
<1>3. JournalOnce /\ PostedAsWritten
  BY DEF Init, JournalOnce, PostedAsWritten
<1> QED
  BY <1>1, <1>2, <1>3 DEF Inductive

-----------------------------------------------------------------------------
(* A request that is under way is of one of the three operations.          *)
LEMMA RequestForms ==
    ASSUME TypeOK, NEW r \in Requests, reg[r] # Null
    PROVE  /\ reg[r] \in Request /\ reg[r].inv \in Invoices
           /\ Is(r, "create") \/ Is(r, "update") => reg[r].new \in Content
           /\ Is(r, "submit") => reg[r].seen \in Content
<1>1. reg[r] \in Request
  BY DEF TypeOK
<1> QED
  BY <1>1 DEF Request, Is

(* The histories only ever name invoices.                                  *)
LEMMA AgainstType ==
    ASSUME NEW d \in Invoices
    PROVE  {Against[d]} \subseteq Invoices \cup {Null}
BY SalesAssumption

(* A request that only reads and then holds a new record.                  *)
LEMMA ReadStep ==
    ASSUME Inductive, NEW r \in Requests, NEW d \in Invoices, NEW rec \in Request,
           reg[r] = Null, reg' = [reg EXCEPT ![r] = rec], rec.inv = d,
           UNCHANGED <<tables, overtaken>>,
           crowded' \subseteq Invoices \cup {Null}, blurred' \subseteq Invoices \cup {Null},
           rec.op = "create" => status[d] = "NONE" /\ ~Doing("create", d),
           rec.op \in {"update", "submit"} => status[d] = "DRAFT",
           rec.op = "submit" => rec.seen = content[d]
    PROVE  Inductive'
<1>1. /\ reg'[r] = rec /\ rec # Null
      /\ \A q \in Requests \ {r} : reg'[q] = reg[q]
      /\ UNCHANGED <<status, content, moved, journal>>
  BY SalesAssumption DEF Inductive, TypeOK, tables
<1>2. TypeOK'
  BY <1>1 DEF Inductive, TypeOK
<1>3. Reads'
  BY <1>1 DEF Inductive, Reads, Is
<1>4. OneCreator'
  BY <1>1 DEF Inductive, OneCreator, Is, Doing
<1>5. NothingMovedEarly' /\ JournalOnce' /\ PostedAsWritten'
  BY <1>1 DEF Inductive, NothingMovedEarly, JournalOnce, PostedAsWritten, Early
<1> QED
  BY <1>2, <1>3, <1>4, <1>5 DEF Inductive

(* The read phases of the three operations are such steps.                 *)
LEMMA ReadsInductive ==
    ASSUME Inductive, NEW r \in Requests, NEW d \in Invoices,
           ReadForCreate(r, d) \/ ReadForUpdate(r, d) \/ ReadForSubmit(r, d)
    PROVE  Inductive'
<1>1. CASE ReadForCreate(r, d)
  <2>1. PICK c \in Content : reg' = [reg EXCEPT ![r] = [op |-> "create", inv |-> d, new |-> c]]
    BY <1>1 DEF ReadForCreate
  <2>2. [op |-> "create", inv |-> d, new |-> c] \in Request
    BY DEF Request
  <2>3. crowded' \subseteq Invoices \cup {Null}
    BY <1>1, AgainstType DEF ReadForCreate, Crowding, Inductive, TypeOK
  <2> QED
    BY <1>1, <2>1, <2>2, <2>3, ReadStep, ZenonT(60) DEF ReadForCreate, Inductive, TypeOK
<1>2. CASE ReadForUpdate(r, d)
  <2>1. PICK c \in Content : reg' = [reg EXCEPT ![r] = [op |-> "update", inv |-> d, new |-> c]]
    BY <1>2 DEF ReadForUpdate
  <2>2. [op |-> "update", inv |-> d, new |-> c] \in Request
    BY DEF Request
  <2>3. crowded' \subseteq Invoices \cup {Null} /\ blurred' \subseteq Invoices \cup {Null}
    BY <1>2, AgainstType DEF ReadForUpdate, Crowding, Blurring, Inductive, TypeOK
  <2> QED
    BY <1>2, <2>1, <2>2, <2>3, ReadStep DEF ReadForUpdate
<1>3. CASE ReadForSubmit(r, d)
  <2>1. content[d] \in Content /\ reg' = [reg EXCEPT ![r] = [op |-> "submit", inv |-> d, seen |-> content[d]]]
    BY <1>3, SalesAssumption DEF ReadForSubmit, Inductive, TypeOK
  <2>2. [op |-> "submit", inv |-> d, seen |-> content[d]] \in Request
    BY <2>1 DEF Request
  <2>3. blurred' \subseteq Invoices \cup {Null}
    BY <1>3, AgainstType DEF ReadForSubmit, Blurring, Inductive, TypeOK
  <2> QED
    BY <1>3, <2>1, <2>2, <2>3, ReadStep, ZenonT(60) DEF ReadForSubmit, Inductive, TypeOK
<1> QED
  BY <1>1, <1>2, <1>3

(* A draft is saved: nothing was known of the invoice before.              *)
LEMMA SaveStep ==
    ASSUME Inductive, NEW r \in Requests, Save(r)
    PROVE  Inductive'
<1> DEFINE d == reg[r].inv
<1>1. /\ d \in Invoices /\ reg[r].new \in Content /\ status[d] = "NONE" /\ Is(r, "create")
  BY RequestForms DEF Save, Is, Inductive, Reads
<1>2. /\ status'[d] = "DRAFT" /\ content'[d] = reg[r].new
      /\ \A e \in Invoices \ {d} : status'[e] = status[e] /\ content'[e] = content[e]
      /\ reg'[r] = Null
      /\ \A q \in Requests \ {r} : reg'[q] = reg[q]
      /\ UNCHANGED <<moved, journal, crowded, blurred, overtaken>>
  BY <1>1 DEF Save, Done, history, Inductive, TypeOK
<1>3. TypeOK'
  <2>1. /\ status' \in [Invoices -> Statuses] /\ content' \in [Invoices -> Content \cup {Null}]
        /\ reg' \in [Requests -> {Null} \cup Request]
    BY <1>1 DEF Save, Done, Inductive, TypeOK, Statuses
  <2>2. \A e \in Invoices : content'[e] = Null <=> status'[e] = "NONE"
    BY <1>1, <1>2, SalesAssumption, ZenonT(60) DEF Inductive, TypeOK
  <2> QED
    BY <1>2, <2>1, <2>2 DEF Inductive, TypeOK
<1>4. \A q \in Requests \ {r} : reg[q] # Null => reg[q].inv # d
  BY <1>1 DEF Inductive, TypeOK, Reads, OneCreator, Is, Request
<1>5. Reads' /\ OneCreator'
  BY <1>1, <1>2, <1>4, RequestForms DEF Inductive, Reads, OneCreator, Is
<1>6. NothingMovedEarly' /\ JournalOnce' /\ PostedAsWritten'
  BY <1>1, <1>2 DEF Inductive, NothingMovedEarly, JournalOnce, PostedAsWritten, Early
<1> QED
  BY <1>3, <1>5, <1>6 DEF Inductive

(* A draft is changed: whoever was about to submit it is overtaken.        *)
LEMMA ChangeStep ==
    ASSUME Inductive, NEW r \in Requests, Change(r)
    PROVE  Inductive'
<1> DEFINE d == reg[r].inv
<1>1. /\ d \in Invoices /\ reg[r].new \in Content /\ status[d] = "DRAFT"
  BY RequestForms DEF Change, Is, Inductive, Reads
<1>2. /\ content'[d] = reg[r].new
      /\ \A e \in Invoices \ {d} : content'[e] = content[e]
      /\ reg'[r] = Null
      /\ \A q \in Requests \ {r} : reg'[q] = reg[q]
      /\ overtaken \subseteq overtaken' /\ overtaken' \subseteq Invoices
      /\ \A q \in Requests \ {r} : Is(q, "submit") /\ reg[q].inv = d => d \in overtaken'
      /\ UNCHANGED <<status, moved, journal, crowded, blurred>>
  BY <1>1 DEF Change, Done, Overtaking, Inductive, TypeOK
<1>3. TypeOK'
  <2>1. /\ content' \in [Invoices -> Content \cup {Null}]
        /\ reg' \in [Requests -> {Null} \cup Request]
    BY <1>1 DEF Change, Done, Inductive, TypeOK
  <2>2. \A e \in Invoices : content'[e] = Null <=> status'[e] = "NONE"
    BY <1>1, <1>2, SalesAssumption DEF Inductive, TypeOK
  <2> QED
    BY <1>2, <2>1, <2>2 DEF Inductive, TypeOK
<1>4. Reads' /\ OneCreator'
  BY <1>1, <1>2, RequestForms DEF Inductive, Reads, OneCreator, Is
<1>5. NothingMovedEarly' /\ JournalOnce' /\ PostedAsWritten'
  BY <1>1, <1>2 DEF Inductive, NothingMovedEarly, JournalOnce, PostedAsWritten, Early
<1> QED
  BY <1>3, <1>4, <1>5 DEF Inductive

(* An invoice is posted: as it is, unless this submit was overtaken.       *)
LEMMA WriteStep ==
    ASSUME Inductive, NEW r \in Requests, Write(r)
    PROVE  Inductive'
<1> DEFINE d == reg[r].inv
           c == reg[r].seen
<1>1. /\ d \in Invoices /\ c \in Content /\ status[d] # "NONE"
      /\ Is(r, "submit") /\ ~Doing("update", d)
      /\ d \notin overtaken => status[d] = "DRAFT" /\ c = content[d]
  BY RequestForms DEF Write, Unlocked, Is, Inductive, Reads
<1>2. StatusAfter(d, c) \in Statuses \ {"NONE", "DRAFT"}
  BY DEF StatusAfter, Statuses, Open
<1>3. /\ status'[d] = StatusAfter(d, c)
      /\ moved'[d] = IF d \in Stocked THEN Append(moved[d], c.qty) ELSE moved[d]
      /\ journal'[d] = IF journal[d] = <<>> THEN <<c.qty>> ELSE journal[d]
      /\ \A e \in Invoices \ {d} :
             status'[e] = status[e] /\ moved'[e] = moved[e] /\ journal'[e] = journal[e]
      /\ reg'[r] = Null
      /\ \A q \in Requests \ {r} : reg'[q] = reg[q]
      /\ overtaken \subseteq overtaken' /\ overtaken' \subseteq Invoices
      /\ \A q \in Requests \ {r} : Is(q, "submit") /\ reg[q].inv = d => d \in overtaken'
      /\ UNCHANGED <<content, crowded, blurred>>
  BY <1>1 DEF Write, PostOnce, Done, Overtaking, Inductive, TypeOK
<1>4. TypeOK'
  <2>1. c.qty \in 1..MaxQty /\ moved[d] \in Seq(1..MaxQty) /\ journal[d] \in Seq(1..MaxQty)
    BY <1>1 DEF Content, Inductive, TypeOK
  <2>2. Append(moved[d], c.qty) \in Seq(1..MaxQty) /\ <<c.qty>> \in Seq(1..MaxQty)
    BY <2>1
  <2>3. moved' \in [Invoices -> Seq(1..MaxQty)] /\ journal' \in [Invoices -> Seq(1..MaxQty)]
    BY <1>1, <2>1, <2>2 DEF Write, PostOnce, Inductive, TypeOK
  <2>4. status' \in [Invoices -> Statuses] /\ reg' \in [Requests -> {Null} \cup Request]
    BY <1>2 DEF Write, Done, Inductive, TypeOK
  <2>5. \A e \in Invoices : content'[e] = Null <=> status'[e] = "NONE"
    BY <1>1, <1>2, <1>3 DEF Inductive, TypeOK
  <2> QED
    BY <1>3, <2>3, <2>4, <2>5 DEF Inductive, TypeOK
<1>5. Reads' /\ OneCreator'
  <2>1. \A q \in Requests \ {r} : reg[q] # Null /\ reg[q].inv = d => Is(q, "submit")
    BY <1>1 DEF Inductive, TypeOK, Reads, Is, Doing, Request
  <2> QED
    BY <1>1, <1>2, <1>3, <2>1, RequestForms DEF Inductive, Reads, OneCreator, Is
<1>6. JournalOnce'
  <2>1. Len(journal'[d]) = 1
    BY <1>1, <1>3 DEF Inductive, JournalOnce, Content, TypeOK
  <2> QED
    BY <1>2, <1>3, <2>1 DEF Inductive, JournalOnce
<1>7. NothingMovedEarly'
  BY <1>2, <1>3 DEF Inductive, NothingMovedEarly, Early
<1>8. PostedAsWritten'
  <2>1. CASE d \in overtaken
    BY <1>3, <2>1 DEF Inductive, PostedAsWritten
  <2>2. CASE d \notin overtaken
    <3>1. journal[d] = <<>> /\ moved[d] = <<>> /\ c = content[d]
      BY <1>1, <2>2 DEF Inductive, JournalOnce, NothingMovedEarly, Early, TypeOK
    <3>2. journal'[d] = <<content'[d].qty>>
      BY <1>3, <3>1
    <3>3. moved'[d] = IF d \in Stocked THEN <<content'[d].qty>> ELSE <<>>
      BY <1>1, <1>3, <3>1
    <3> QED
      BY <1>3, <3>2, <3>3 DEF Inductive, PostedAsWritten
  <2> QED
    BY <2>1, <2>2
<1> QED
  BY <1>4, <1>5, <1>6, <1>7, <1>8 DEF Inductive

(* A request that fails leaves nothing.                                    *)
LEMMA AbortStep ==
    ASSUME Inductive, NEW r \in Requests, Abort(r)
    PROVE  Inductive'
<1>1. /\ reg'[r] = Null
      /\ \A q \in Requests \ {r} : reg'[q] = reg[q]
      /\ UNCHANGED <<status, content, moved, journal, crowded, blurred, overtaken>>
  BY DEF Abort, Done, tables, history, Inductive, TypeOK
<1>2. TypeOK'
  BY <1>1 DEF Abort, Done, Inductive, TypeOK
<1> QED
  BY <1>1, <1>2 DEF Inductive, Reads, OneCreator, Is, NothingMovedEarly, Early, JournalOnce, PostedAsWritten

LEMMA StepInductive == Inductive /\ [Next]_vars => Inductive'
<1> SUFFICES ASSUME Inductive, [Next]_vars PROVE Inductive'
  OBVIOUS
<1>1. CASE Next
  <2> PICK r \in Requests :
        \/ \E d \in Invoices : ReadForCreate(r, d) \/ ReadForUpdate(r, d) \/ ReadForSubmit(r, d)
        \/ Save(r) \/ Change(r) \/ Write(r) \/ Abort(r)
    BY <1>1 DEF Next
  <2> QED
    BY ReadsInductive, SaveStep, ChangeStep, WriteStep, AbortStep
<1>2. CASE UNCHANGED vars
  BY <1>2 DEF vars, Inductive, TypeOK, Reads, OneCreator, Is, NothingMovedEarly, Early,
     JournalOnce, PostedAsWritten
<1> QED
  BY <1>1, <1>2

LEMMA SpecInductive == Spec => []Inductive
BY InitInductive, StepInductive, PTL DEF Spec

-----------------------------------------------------------------------------
(* Sums.  A sum is a number of units; an invoice more adds its own units,  *)
(* and a part of the invoices holds no more than all of them.              *)
LEMMA TotalFacts ==
    ASSUME NEW S, IsFiniteSet(S), NEW f \in [S -> 0..MaxQty]
    PROVE  /\ Total(f) \in Nat
           /\ S = {} => Total(f) = 0
           /\ \A T \in SUBSET S : Total([e \in T |-> f[e]]) <= Total(f)
           /\ \A x \in S : Total(f) = f[x] + Total([e \in S \ {x} |-> f[e]])
<1> DEFINE Units(T) == {u \in T \X (1..MaxQty) : u[2] <= f[u[1]]}
<1>1. Total(f) = Cardinality(Units(S))
  BY DEF Total
<1>2. \A T \in SUBSET S : Total([e \in T |-> f[e]]) = Cardinality(Units(T))
  <2> TAKE T \in SUBSET S
  <2>1. {u \in T \X (1..MaxQty) : u[2] <= [e \in T |-> f[e]][u[1]]} = Units(T)
    OBVIOUS
  <2> QED
    BY <2>1 DEF Total
<1>3. \A T \in SUBSET S : IsFiniteSet(Units(T))
  <2> TAKE T \in SUBSET S
  <2>1. IsFiniteSet(T) /\ IsFiniteSet(1..MaxQty)
    BY SalesAssumption, FS_Subset, FS_Interval
  <2>2. IsFiniteSet(T \X (1..MaxQty))
    BY <2>1, FS_Product
  <2> QED
    BY <2>2, FS_Subset
<1>4. S = {} => Total(f) = 0
  <2>1. S = {} => Units(S) = {}
    OBVIOUS
  <2> HIDE DEF Units
  <2> QED BY <1>1, <2>1, FS_EmptySet
<1>5. ASSUME NEW T \in SUBSET S PROVE Cardinality(Units(T)) <= Cardinality(Units(S))
  <2>1. Units(T) \in SUBSET Units(S)
    OBVIOUS
  <2> HIDE DEF Units
  <2> QED BY <1>3, <2>1, FS_Subset
<1>6. ASSUME NEW x \in S
      PROVE  Cardinality(Units(S)) = f[x] + Cardinality(Units(S \ {x}))
  <2>1. Units(S) = Units({x}) \cup Units(S \ {x}) /\ Units({x}) \cap Units(S \ {x}) = {}
    OBVIOUS
  <2>2. Units({x}) = {x} \X (1..f[x])
    <3>1. f[x] \in 0..MaxQty
      OBVIOUS
    <3> QED BY <3>1, SalesAssumption
  <2>3. Cardinality(Units({x})) = f[x]
    <3>1. f[x] \in Nat /\ Cardinality(1..f[x]) = f[x] /\ IsFiniteSet(1..f[x])
      BY SalesAssumption, FS_Interval
    <3>2. Cardinality({x}) = 1 /\ IsFiniteSet({x})
      BY FS_Singleton
    <3>3. Cardinality({x} \X (1..f[x])) = Cardinality({x}) * Cardinality(1..f[x])
      BY <3>1, <3>2, FS_Product
    <3>4. Cardinality({x}) * Cardinality(1..f[x]) = f[x]
      BY <3>1, <3>2
    <3> HIDE DEF Units
    <3> QED BY <2>2, <3>3, <3>4
  <2>4. IsFiniteSet(Units({x})) /\ IsFiniteSet(Units(S \ {x}))
    BY <1>3
  <2> HIDE DEF Units
  <2>5. Cardinality(Units({x}) \cup Units(S \ {x}))
          = Cardinality(Units({x})) + Cardinality(Units(S \ {x})) - Cardinality(Units({x}) \cap Units(S \ {x}))
    BY <2>4, FS_Union
  <2>6. f[x] \in Nat /\ Cardinality(Units(S \ {x})) \in Nat /\ Cardinality({}) = 0
    BY <2>4, FS_CardinalityType, FS_EmptySet, SalesAssumption
  <2>7. Cardinality(Units({x}) \cap Units(S \ {x})) = 0
    BY <2>1, <2>6
  <2>8. f[x] + Cardinality(Units(S \ {x})) - 0 = f[x] + Cardinality(Units(S \ {x}))
    BY <2>6
  <2> QED BY <2>1, <2>3, <2>5, <2>7, <2>8
<1>7. Total(f) \in Nat
  BY <1>1, <1>3, FS_CardinalityType
<1> HIDE DEF Units
<1> QED
  BY <1>1, <1>2, <1>4, <1>5, <1>6, <1>7

-----------------------------------------------------------------------------
(* What is sold, returned and paid back.                                   *)
Saved == {d \in Invoices : status[d] # "NONE"}

(* A return is drafted for an invoice that is sold, and that stays so.     *)
Originals ==
    /\ IsFiniteSet(Saved)
    /\ \A d \in Returns : status[d] # "NONE" \/ Doing("create", d) => Sold(Against[d])
    /\ \A d \in Returns : status[d] \in {"NONE", "DRAFT", "RETURNED"}

Active(d) == status[d] = "DRAFT" \/ Doing("create", d)

(* Where no drafts were made side by side, an invoice has one at most, and *)
(* room for what that one is, and for what it may become.                  *)
OneReturnAtATime ==
    \A o \in Invoices \ crowded : \A d, e \in ReturnsOf(o) : Active(d) /\ Active(e) => d = e

RoomForReturns ==
    \A o \in Invoices \ crowded : Sold(o) =>
        /\ Returned(o) <= content[o].qty
        /\ \A d \in ReturnsOf(o) : status[d] = "DRAFT" => content[d].qty + Returned(o) <= content[o].qty
        /\ \A r \in Requests : (Is(r, "create") \/ Is(r, "update")) /\ reg[r].inv \in ReturnsOf(o) =>
               reg[r].new.qty + Returned(o) <= content[o].qty

(* An invoice has one editor at most, and so have the returns of one whose *)
(* refunds were never summed during an edit.                               *)
OneEditor ==
    \A r, q \in Requests : Is(r, "update") /\ Is(q, "update") =>
        \/ r = q
        \/ /\ reg[r].inv # reg[q].inv
           /\ \A o \in Invoices \ blurred : ~(reg[r].inv \in ReturnsOf(o) /\ reg[q].inv \in ReturnsOf(o))

(* A return that a submit has checked counts from then on, whether or not  *)
(* that submit goes through: nobody checks it again.                       *)
Cleared(o) == {d \in ReturnsOf(o) : status[d] = "RETURNED" \/ Doing("submit", d)}

ClearedSum(o) == PaidOf(Cleared(o)) <= content[o].paid
EditsFit(o) ==
    \A q \in Requests : Is(q, "update") /\ reg[q].inv \in ReturnsOf(o) =>
        \/ reg[q].new.paid \in {0, content[reg[q].inv].paid}
        \/ reg[q].new.paid + PaidOf(Cleared(o) \ {reg[q].inv}) <= content[o].paid

RoomForRefunds == \A o \in Invoices \ blurred : Sold(o) => ClearedSum(o) /\ EditsFit(o)

(* What is known of the content of a saved invoice.                        *)
LEMMA SavedContent ==
    ASSUME TypeOK, NEW d \in Invoices, status[d] # "NONE"
    PROVE  /\ content[d] \in Content
           /\ content[d].qty \in 1..MaxQty /\ content[d].qty \in 0..MaxQty
           /\ content[d].paid \in 0..MaxQty
<1>1. content[d] \in Content
  BY DEF TypeOK
<1> QED
  BY <1>1, SalesAssumption DEF Content

(* The sums over saved invoices.                                           *)
LEMMA QtyFacts ==
    ASSUME TypeOK, IsFiniteSet(Saved), NEW S \in SUBSET Saved
    PROVE  /\ QtyOf(S) \in Nat
           /\ S = {} => QtyOf(S) = 0
           /\ \A x \in S : QtyOf(S) = content[x].qty + QtyOf(S \ {x})
<1> DEFINE f == [e \in S |-> content[e].qty]
<1>1. f \in [S -> 0..MaxQty] /\ IsFiniteSet(S)
  BY SavedContent, FS_Subset DEF Saved
<1>2. QtyOf(S) = Total(f) /\ \A x \in S : QtyOf(S \ {x}) = Total([e \in S \ {x} |-> f[e]])
  <2>1. \A x \in S : [e \in S \ {x} |-> f[e]] = [e \in S \ {x} |-> content[e].qty]
    OBVIOUS
  <2> QED
    BY <2>1 DEF QtyOf
<1>3. \A x \in S : f[x] = content[x].qty
  OBVIOUS
<1> HIDE DEF f
<1>4. /\ Total(f) \in Nat
      /\ S = {} => Total(f) = 0
      /\ \A x \in S : Total(f) = f[x] + Total([e \in S \ {x} |-> f[e]])
  BY <1>1, TotalFacts
<1> QED
  BY <1>2, <1>3, <1>4

LEMMA PaidFacts ==
    ASSUME TypeOK, IsFiniteSet(Saved), NEW S \in SUBSET Saved
    PROVE  /\ PaidOf(S) \in Nat
           /\ S = {} => PaidOf(S) = 0
           /\ \A T \in SUBSET S : PaidOf(T) <= PaidOf(S)
           /\ \A x \in S : PaidOf(S) = content[x].paid + PaidOf(S \ {x})
<1> DEFINE f == [e \in S |-> content[e].paid]
<1>1. f \in [S -> 0..MaxQty] /\ IsFiniteSet(S)
  BY SavedContent, FS_Subset DEF Saved
<1>2. PaidOf(S) = Total(f) /\ \A T \in SUBSET S : PaidOf(T) = Total([e \in T |-> f[e]])
  <2>1. \A T \in SUBSET S : [e \in T |-> f[e]] = [e \in T |-> content[e].paid]
    OBVIOUS
  <2> QED
    BY <2>1 DEF PaidOf
<1>3. \A x \in S : f[x] = content[x].paid
  OBVIOUS
<1> HIDE DEF f
<1>4. /\ Total(f) \in Nat
      /\ S = {} => Total(f) = 0
      /\ \A T \in SUBSET S : Total([e \in T |-> f[e]]) <= Total(f)
      /\ \A x \in S : Total(f) = f[x] + Total([e \in S \ {x} |-> f[e]])
  BY <1>1, TotalFacts
<1>5. \A x \in S : S \ {x} \in SUBSET S
  OBVIOUS
<1> QED
  BY <1>2, <1>3, <1>4, <1>5

(* What the steps of a request do to the invoices.                         *)
Acts(r) ==
    \/ \E d \in Invoices : ReadForCreate(r, d) \/ ReadForUpdate(r, d) \/ ReadForSubmit(r, d)
    \/ Save(r) \/ Change(r) \/ Write(r) \/ Abort(r)

LEMMA Effects ==
    ASSUME Inductive, NEW r \in Requests, Acts(r)
    PROVE  /\ \A q \in Requests \ {r} : reg'[q] = reg[q]
           /\ crowded \subseteq crowded' /\ blurred \subseteq blurred'
           /\ Save(r) \/ Change(r) \/ Write(r) => reg[r] # Null /\ reg[r].inv \in Invoices /\ reg'[r] = Null
           /\ Abort(r) => reg'[r] = Null
           /\ ~Save(r) /\ ~Write(r) => status' = status
           /\ ~Save(r) /\ ~Change(r) => content' = content
<1>1. reg[r] # Null => reg[r].inv \in Invoices
  BY RequestForms DEF Inductive
<1> QED
  BY <1>1 DEF Acts, Inductive, TypeOK, ReadForCreate, ReadForUpdate, ReadForSubmit, Save, Change, Write,
     Abort, Done, Is, Crowding, Blurring, tables, history

(* A request that has read holds the record its operation makes.           *)
LEMMA ReadEffects ==
    ASSUME Inductive, NEW r \in Requests, NEW d \in Invoices
    PROVE  /\ ReadForCreate(r, d) => reg[r] = Null /\ Is(r, "create")' /\ reg'[r].inv = d
           /\ ReadForUpdate(r, d) => reg[r] = Null /\ Is(r, "update")' /\ reg'[r].inv = d
           /\ ReadForSubmit(r, d) => reg[r] = Null /\ Is(r, "submit")' /\ reg'[r].inv = d
<1>1. ASSUME NEW c \in Content
      PROVE  /\ [op |-> "create", inv |-> d, new |-> c] # Null
             /\ [op |-> "update", inv |-> d, new |-> c] # Null
             /\ [op |-> "submit", inv |-> d, seen |-> c] # Null
  BY SalesAssumption DEF Request
<1>2. ReadForSubmit(r, d) => content[d] \in Content
  BY SavedContent DEF ReadForSubmit, Inductive
<1> QED
  BY <1>1, <1>2 DEF ReadForCreate, ReadForUpdate, ReadForSubmit, Is, Inductive, TypeOK

(* A request that ends starts nothing.                                     *)
LEMMA DoingEnds ==
    ASSUME Inductive, NEW r \in Requests, Save(r) \/ Change(r) \/ Write(r) \/ Abort(r),
           NEW op, NEW d, Doing(op, d)'
    PROVE  Doing(op, d)
<1>1. Acts(r) /\ reg'[r] = Null /\ \A q \in Requests \ {r} : reg'[q] = reg[q]
  BY Effects DEF Acts
<1> QED
  BY <1>1 DEF Doing

LEMMA OriginalsStep ==
    ASSUME Inductive, Originals, NEW r \in Requests, Acts(r)
    PROVE  Originals'
<1>1. IsFiniteSet(Saved')
  <2>1. CASE Save(r)
    <3>1. Saved' = Saved \cup {reg[r].inv}
      <4>1. \A d \in Invoices : status'[d] = IF d = reg[r].inv THEN "DRAFT" ELSE status[d]
        BY <2>1, Effects DEF Save, Inductive, TypeOK
      <4> QED
        BY <2>1, <4>1, Effects DEF Saved
    <3> QED
      BY <3>1, FS_AddElement DEF Originals
  <2>2. CASE Write(r)
    <3>1. StatusAfter(reg[r].inv, reg[r].seen) # "NONE" /\ status[reg[r].inv] # "NONE"
      BY <2>2 DEF StatusAfter, Inductive, Reads, Write
    <3>2. Saved' = Saved
      BY <2>2, <3>1, Effects DEF Write, Saved, Inductive, TypeOK
    <3> QED
      BY <3>2 DEF Originals
  <2>3. CASE ~Save(r) /\ ~Write(r)
    BY <2>3, Effects DEF Saved, Originals
  <2> QED BY <2>1, <2>2, <2>3
<1>2. ASSUME NEW d \in Returns, status'[d] # "NONE" \/ Doing("create", d)'
      PROVE  Sold(Against[d])'
  <2>1. d \in Invoices /\ Against[d] \in Invoices /\ Against[d] \notin Returns
    BY SalesAssumption DEF Returns
  <2>2. Sold(Against[d])
    <3>1. CASE status[d] # "NONE" \/ Doing("create", d)
      BY <3>1 DEF Originals
    <3>2. CASE status[d] = "NONE" /\ ~Doing("create", d)
      <4>1. ~Save(r) /\ ~Write(r) /\ ~Change(r) /\ ~Abort(r)
        <5>1. Save(r) => reg[r].inv # d
          BY <3>2 DEF Save, Doing, Is
        <5>2. Write(r) => reg[r].inv # d
          BY <3>2 DEF Write, Inductive, Reads
        <5>3. Save(r) \/ Write(r) => status'[d] = status[d]
          BY <2>1, <5>1, <5>2 DEF Save, Write, Inductive, TypeOK
        <5> QED
          BY <1>2, <3>2, <5>3, Effects DEF Doing
      <4>2. PICK e \in Invoices : ReadForCreate(r, e) \/ ReadForUpdate(r, e) \/ ReadForSubmit(r, e)
        BY <4>1 DEF Acts
      <4>3. ReadForCreate(r, d)
        BY <1>2, <3>2, <4>1, <4>2, Effects, ReadEffects DEF Doing, Is
      <4> QED
        BY <4>3 DEF ReadForCreate, Sold, Returns
    <3> QED BY <3>1, <3>2
  <2>3. CASE Save(r)
    <3>1. reg[r].inv # Against[d]
      BY <2>2, <2>3 DEF Save, Inductive, Reads, Sold, Open
    <3> QED
      BY <2>1, <2>2, <2>3, <3>1, Effects DEF Save, Sold, Inductive, TypeOK
  <2>4. CASE Write(r)
    <3>1. reg[r].inv = Against[d] => StatusAfter(reg[r].inv, reg[r].seen) \in Open
      BY <2>1 DEF StatusAfter, Returns, Open
    <3> QED
      BY <2>1, <2>2, <2>4, <3>1, Effects DEF Write, Sold, Inductive, TypeOK
  <2> QED
    BY <2>2, <2>3, <2>4, Effects DEF Sold
<1>3. ASSUME NEW d \in Returns PROVE status'[d] \in {"NONE", "DRAFT", "RETURNED"}
  <2>1. d \in Invoices /\ StatusAfter(d, reg[r].seen) = "RETURNED"
    BY DEF Returns, StatusAfter
  <2>2. \/ status'[d] = status[d]
        \/ status'[d] = "DRAFT"
        \/ status'[d] = "RETURNED"
    <3>1. Save(r) => status' = [status EXCEPT ![reg[r].inv] = "DRAFT"]
      BY DEF Save
    <3>2. Write(r) => status' = [status EXCEPT ![reg[r].inv] = StatusAfter(reg[r].inv, reg[r].seen)]
      BY DEF Write
    <3>3. status \in [Invoices -> Statuses] /\ (~Save(r) /\ ~Write(r) => status' = status)
      BY Effects DEF Inductive, TypeOK
    <3> HIDE DEF Inductive
    <3> QED
      BY <2>1, <3>1, <3>2, <3>3
  <2> QED
    BY <2>2 DEF Originals
<1> QED
  BY <1>1, <1>2, <1>3 DEF Originals

(* An invoice that is no original yet has no returns, and what counts as   *)
(* returned changes with the returns' own submits only.                    *)
LEMMA SameReturned ==
    ASSUME NEW o \in Invoices,
           \A d \in ReturnsOf(o) : /\ status'[d] = "RETURNED" <=> status[d] = "RETURNED"
                                   /\ status[d] = "RETURNED" => content'[d] = content[d]
    PROVE  Returned(o)' = Returned(o)
<1>1. ReturnsOf(o) \cap With("RETURNED")' = ReturnsOf(o) \cap With("RETURNED")
  BY DEF With, ReturnsOf, Returns
<1>2. [e \in ReturnsOf(o) \cap With("RETURNED") |-> content'[e].qty]
        = [e \in ReturnsOf(o) \cap With("RETURNED") |-> content[e].qty]
  BY DEF With
<1> QED
  BY <1>1, <1>2 DEF Returned, QtyOf

LEMMA OneReturnStep ==
    ASSUME Inductive, OneReturnAtATime, NEW r \in Requests, Acts(r)
    PROVE  OneReturnAtATime'
<1> SUFFICES ASSUME NEW o \in Invoices \ crowded', NEW d \in ReturnsOf(o), NEW e \in ReturnsOf(o),
                    Active(d)', Active(e)', d # e
             PROVE  FALSE
  BY DEF OneReturnAtATime, ReturnsOf
<1>1. d \in Invoices /\ e \in Invoices /\ o \notin crowded
  BY Effects DEF ReturnsOf, Returns
<1>2. ASSUME NEW x \in ReturnsOf(o), Active(x)', ~Active(x)
      PROVE  ReadForCreate(r, x)
  <2>1. x \in Invoices
    BY DEF ReturnsOf, Returns
  <2>2. CASE Save(r)
    <3>1. reg[r].inv # x
      BY <1>2, <2>2 DEF Save, Active, Doing, Is
    <3> QED
      BY <1>2, <2>1, <2>2, <3>1, DoingEnds DEF Save, Active, Inductive, TypeOK
  <2>3. CASE Write(r)
    <3>1. StatusAfter(reg[r].inv, reg[r].seen) # "DRAFT"
      BY DEF StatusAfter
    <3> QED
      BY <1>2, <2>1, <2>3, <3>1, DoingEnds DEF Write, Active, Inductive, TypeOK
  <2>4. CASE Change(r) \/ Abort(r)
    BY <1>2, <2>4, DoingEnds DEF Active, Change, Abort, tables
  <2>5. ASSUME NEW y \in Invoices, ReadForCreate(r, y) \/ ReadForUpdate(r, y) \/ ReadForSubmit(r, y)
        PROVE  ReadForCreate(r, x)
    <3>1. status' = status
      BY <2>5 DEF ReadForCreate, ReadForUpdate, ReadForSubmit, tables
    <3> QED
      BY <1>2, <2>5, <3>1, Effects, ReadEffects DEF Active, Doing, Is
  <2> QED
    BY <2>2, <2>3, <2>4, <2>5 DEF Acts
<1>3. ASSUME NEW x \in ReturnsOf(o), NEW y \in ReturnsOf(o), x # y, ReadForCreate(r, x), Active(y)
      PROVE  FALSE
  <2>1. y \in Others(x) /\ Against[x] = o /\ o # Null
    BY <1>3, SalesAssumption DEF Others, ReturnsOf, Returns
  <2>2. Against[x] \in crowded'
    BY <1>3, <2>1 DEF ReadForCreate, Crowding, Active
  <2> QED
    BY <2>1, <2>2
<1>4. CASE Active(d) /\ Active(e)
  BY <1>1, <1>4 DEF OneReturnAtATime
<1>5. CASE ~Active(d)
  <2>1. ReadForCreate(r, d)
    BY <1>2, <1>5
  <2>2. ~Active(e)
    BY <1>3, <2>1
  <2>3. ReadForCreate(r, e)
    BY <1>2, <2>2
  <2> QED
    BY <2>1, <2>3, ReadEffects, <1>1
<1>6. CASE ~Active(e)
  <2>1. ReadForCreate(r, e)
    BY <1>2, <1>6
  <2>2. ~Active(d)
    BY <1>3, <2>1
  <2>3. ReadForCreate(r, d)
    BY <1>2, <2>2
  <2> QED
    BY <2>1, <2>3, ReadEffects, <1>1
<1> QED
  BY <1>4, <1>5, <1>6

(* The original of a return is no return itself.                           *)
LEMMA NotItsOwnReturn ==
    ASSUME NEW o \in Invoices
    PROVE  o \notin ReturnsOf(o) /\ ReturnsOf(o) \subseteq Invoices /\ \A d \in ReturnsOf(o) : d \in Returns /\ Against[d] = o
BY SalesAssumption DEF ReturnsOf, Returns

(* What an invoice that is not sold yet becomes when it is.                *)
LEMMA NoReturnsYet ==
    ASSUME Inductive, Originals, NEW r \in Requests, Acts(r),
           NEW o \in Invoices, Sold(o)', ~Sold(o)
    PROVE  /\ Write(r) /\ reg[r].inv = o /\ content' = content /\ content[o] \in Content
           /\ \A d \in ReturnsOf(o) : /\ status[d] = "NONE" /\ status'[d] = "NONE"
                                      /\ ~Doing("create", d)
<1>1. ~Save(r)
  BY Effects DEF Save, Sold, Open, Inductive, TypeOK
<1>2. Write(r) /\ reg[r].inv = o
  BY <1>1, Effects DEF Write, Sold, Inductive, TypeOK
<1>3. content' = content /\ content[o] \in Content
  BY <1>2, Effects, SavedContent DEF Write, Inductive, Reads, Save, Change, Is
<1>4. \A d \in ReturnsOf(o) : status[d] = "NONE" /\ ~Doing("create", d)
  BY NotItsOwnReturn DEF Originals
<1>5. \A d \in ReturnsOf(o) : status'[d] = status[d]
  BY <1>2, NotItsOwnReturn DEF Write, Inductive, TypeOK
<1> QED
  BY <1>2, <1>3, <1>4, <1>5

(* A sold invoice is not touched.                                          *)
LEMMA SoldStays ==
    ASSUME Inductive, NEW r \in Requests, Acts(r), NEW o \in Invoices, Sold(o)
    PROVE  content'[o] = content[o] /\ content[o] \in Content
<1>1. Save(r) \/ Change(r) => reg[r].inv # o
  BY DEF Save, Change, Inductive, Reads, Sold, Open
<1> QED
  BY <1>1, Effects, SavedContent DEF Save, Change, Sold, Open, Inductive, TypeOK

LEMMA RoomForReturnsStep ==
    ASSUME Inductive, Originals, OneReturnAtATime, RoomForReturns, NEW r \in Requests, Acts(r)
    PROVE  RoomForReturns'
<1> SUFFICES ASSUME NEW o \in Invoices, o \notin crowded', Sold(o)'
             PROVE  /\ Returned(o)' <= content'[o].qty
                    /\ \A d \in ReturnsOf(o) : status'[d] = "DRAFT" => content'[d].qty + Returned(o)' <= content'[o].qty
                    /\ \A q \in Requests : (Is(q, "create") \/ Is(q, "update"))' /\ reg'[q].inv \in ReturnsOf(o) =>
                           reg'[q].new.qty + Returned(o)' <= content'[o].qty
  BY DEF RoomForReturns, ReturnsOf, Returns
<1>1. o \notin crowded /\ ReturnsOf(o) \subseteq Invoices
  BY Effects, NotItsOwnReturn
<1>2. /\ ReturnsOf(o) \cap With("RETURNED") \in SUBSET Saved
      /\ TypeOK /\ IsFiniteSet(Saved)
  BY DEF ReturnsOf, Returns, With, Saved, Originals, Inductive
<1>3. CASE ~Sold(o)
  <2>1. /\ Write(r) /\ content' = content /\ content[o] \in Content
        /\ \A d \in ReturnsOf(o) : status[d] = "NONE" /\ status'[d] = "NONE" /\ ~Doing("create", d)
    BY <1>3, NoReturnsYet
  <2>2. Returned(o)' = Returned(o)
    BY <2>1, SameReturned
  <2>3. ReturnsOf(o) \cap With("RETURNED") = {}
    BY <2>1 DEF With
  <2>4. Returned(o) = 0
    BY <1>2, <2>3, QtyFacts DEF Returned
  <2>5. \A q \in Requests : reg'[q].inv \in ReturnsOf(o) => ~Is(q, "create")' /\ ~Is(q, "update")'
    BY <2>1, Effects DEF Inductive, Reads, Is, Doing
  <2>6. content[o].qty \in Nat
    BY <2>1, SalesAssumption DEF Content
  <2> QED
    BY <2>1, <2>2, <2>4, <2>5, <2>6
<1>4. CASE Sold(o)
  <2>1. /\ Returned(o) <= content[o].qty
        /\ \A d \in ReturnsOf(o) : status[d] = "DRAFT" => content[d].qty + Returned(o) <= content[o].qty
        /\ \A q \in Requests : (Is(q, "create") \/ Is(q, "update")) /\ reg[q].inv \in ReturnsOf(o) =>
               reg[q].new.qty + Returned(o) <= content[o].qty
    BY <1>1, <1>4 DEF RoomForReturns
  <2>2. content'[o] = content[o]
    BY <1>4, SoldStays
  <2>3. CASE Save(r) \/ Change(r)
    <3> DEFINE d == reg[r].inv
    <3>1. d \in Invoices /\ reg'[r] = Null /\ (\A q \in Requests \ {r} : reg'[q] = reg[q])
      BY <2>3, Effects
    <3>2. /\ status[d] # "RETURNED" /\ status'[d] # "RETURNED" /\ content'[d] = reg[r].new
          /\ \A e \in Invoices \ {d} : status'[e] = status[e] /\ content'[e] = content[e]
      BY <2>3, <3>1 DEF Save, Change, Inductive, Reads, TypeOK
    <3>3. Returned(o)' = Returned(o)
      BY <1>1, <3>2, SameReturned
    <3>4. d \in ReturnsOf(o) => content'[d].qty + Returned(o) <= content[o].qty
      BY <2>1, <2>3, <3>2 DEF Save, Change
    <3>5. \A e \in ReturnsOf(o) : status'[e] = "DRAFT" => content'[e].qty + Returned(o) <= content[o].qty
      BY <1>1, <2>1, <3>2, <3>4
    <3> QED
      BY <2>1, <2>2, <3>1, <3>3, <3>5 DEF Is
  <2>4. CASE Abort(r)
    <3>1. status' = status /\ content' = content /\ Returned(o)' = Returned(o)
      BY <2>4, SameReturned DEF Abort, tables
    <3> QED
      BY <2>1, <2>4, <3>1, Effects DEF Is
  <2>5. ASSUME NEW d \in Invoices, ReadForCreate(r, d) \/ ReadForUpdate(r, d) \/ ReadForSubmit(r, d)
        PROVE  /\ status' = status /\ content' = content
               /\ Is(r, "create")' \/ Is(r, "update")' =>
                    (reg'[r].inv \in ReturnsOf(o) => reg'[r].new.qty + Returned(o) <= content[o].qty)
    <3>1. status' = status /\ content' = content /\ reg'[r].inv = d
      BY <2>5, ReadEffects DEF ReadForCreate, ReadForUpdate, ReadForSubmit, tables
    <3>2. CASE ReadForCreate(r, d)
      <4>1. d \in ReturnsOf(o) => Against[d] = o /\ o # Null
        BY SalesAssumption DEF ReturnsOf
      <4>2. PICK c \in Content : MayReturn(d, c.qty) /\ reg'[r] = [op |-> "create", inv |-> d, new |-> c]
        BY <3>2 DEF ReadForCreate, Inductive, TypeOK
      <4> QED
        BY <3>1, <4>1, <4>2 DEF MayReturn
    <3>3. CASE ReadForUpdate(r, d)
      <4>1. d \in ReturnsOf(o) => Against[d] = o /\ o # Null
        BY SalesAssumption DEF ReturnsOf
      <4>2. PICK c \in Content : /\ c.qty # content[d].qty => MayReturn(d, c.qty)
                                 /\ reg'[r] = [op |-> "update", inv |-> d, new |-> c]
        BY <3>3 DEF ReadForUpdate, Inductive, TypeOK
      <4>3. status[d] = "DRAFT"
        BY <3>3 DEF ReadForUpdate
      <4> QED
        BY <2>1, <3>1, <4>1, <4>2, <4>3 DEF MayReturn
    <3>4. CASE ReadForSubmit(r, d)
      BY <3>1, <3>4, ReadEffects DEF Is
    <3> QED
      BY <2>5, <3>2, <3>3, <3>4
  <2>6. ASSUME NEW d \in Invoices, ReadForCreate(r, d) \/ ReadForUpdate(r, d) \/ ReadForSubmit(r, d)
        PROVE  /\ Returned(o)' <= content'[o].qty
               /\ \A e \in ReturnsOf(o) : status'[e] = "DRAFT" => content'[e].qty + Returned(o)' <= content'[o].qty
               /\ \A q \in Requests : (Is(q, "create") \/ Is(q, "update"))' /\ reg'[q].inv \in ReturnsOf(o) =>
                      reg'[q].new.qty + Returned(o)' <= content'[o].qty
    <3>1. Returned(o)' = Returned(o)
      BY <2>5, <2>6, SameReturned
    <3>2. \A q \in Requests \ {r} : reg'[q] = reg[q]
      BY Effects
    <3> QED
      BY <2>1, <2>5, <2>6, <3>1, <3>2 DEF Is
  <2>7. CASE Write(r)
    <3> DEFINE d == reg[r].inv
    <3>1. /\ d \in Invoices /\ reg'[r] = Null /\ (\A q \in Requests \ {r} : reg'[q] = reg[q])
          /\ content' = content
      BY <2>7, Effects DEF Write, Save, Change, Is
    <3>2. status'[d] = StatusAfter(d, reg[r].seen) /\ (\A e \in Invoices \ {d} : status'[e] = status[e])
      BY <2>7, <3>1 DEF Write, Inductive, TypeOK
    <3>3. CASE d \notin ReturnsOf(o) \/ status[d] = "RETURNED"
      <4>1. d \in ReturnsOf(o) => status'[d] = "RETURNED"
        BY <3>2, NotItsOwnReturn DEF StatusAfter, Returns
      <4>2. Returned(o)' = Returned(o)
        BY <1>1, <3>1, <3>2, <3>3, <4>1, SameReturned
      <4> QED
        BY <1>1, <2>1, <3>1, <3>2, <3>3, <4>1, <4>2 DEF Is
    <3>4. CASE d \in ReturnsOf(o) /\ status[d] # "RETURNED"
      <4>1. status[d] = "DRAFT" /\ status'[d] = "RETURNED"
        BY <2>7, <3>2, <3>4, NotItsOwnReturn DEF Write, StatusAfter, Returns, Originals, Inductive, Reads
      <4>2. ASSUME NEW e \in ReturnsOf(o), Active(e) PROVE e = d
        BY <1>1, <3>4, <4>1, <4>2 DEF OneReturnAtATime, Active
      <4>3. Returned(o)' = content[d].qty + Returned(o)
        <5> DEFINE R == ReturnsOf(o) \cap With("RETURNED")
        <5>1. ReturnsOf(o) \cap With("RETURNED")' = R \cup {d}
          BY <1>1, <3>2, <3>4, <4>1 DEF With
        <5>2. R \cup {d} \in SUBSET Saved /\ (R \cup {d}) \ {d} = R
          BY <1>2, <3>1, <4>1 DEF Saved, With
        <5>3. Returned(o)' = QtyOf(R \cup {d})
          BY <3>1, <5>1 DEF Returned, QtyOf
        <5>4. d \in R \cup {d}
          OBVIOUS
        <5> HIDE DEF R
        <5>5. QtyOf(R \cup {d}) = content[d].qty + QtyOf((R \cup {d}) \ {d})
          BY <1>2, <5>2, <5>4, QtyFacts
        <5> QED
          BY <5>2, <5>3, <5>5 DEF Returned, R
      <4>4. \A e \in ReturnsOf(o) : status'[e] # "DRAFT"
        BY <1>1, <3>2, <4>1, <4>2 DEF Active
      <4>5. ASSUME NEW q \in Requests, (Is(q, "create") \/ Is(q, "update"))', reg'[q].inv \in ReturnsOf(o)
            PROVE  FALSE
        <5>1. reg'[q] = reg[q] /\ Active(reg[q].inv)
          BY <3>1, <4>5 DEF Is, Active, Doing, Inductive, Reads
        <5>2. reg[q].inv = d
          BY <4>2, <4>5, <5>1
        <5> QED
          BY <2>7, <4>1, <4>5, <5>1, <5>2 DEF Write, Unlocked, Doing, Is, Inductive, Reads
      <4> QED
        BY <2>1, <2>2, <3>4, <4>1, <4>3, <4>4, <4>5
    <3> QED
      BY <3>3, <3>4
  <2> QED
    BY <2>3, <2>4, <2>6, <2>7 DEF Acts
<1> QED
  BY <1>3, <1>4

LEMMA OneEditorStep ==
    ASSUME Inductive, OneEditor, NEW r \in Requests, Acts(r)
    PROVE  OneEditor'
<1>1. /\ \A q \in Requests \ {r} : reg'[q] = reg[q]
      /\ blurred \subseteq blurred'
  BY Effects
<1>2. ASSUME NEW q \in Requests, NEW p \in Requests, Is(q, "update")', Is(p, "update")', q # p,
             p = r => ~Is(r, "update")', q = r => ~Is(r, "update")'
      PROVE  /\ reg'[q].inv # reg'[p].inv
             /\ \A o \in Invoices \ blurred' : ~(reg'[q].inv \in ReturnsOf(o) /\ reg'[p].inv \in ReturnsOf(o))
  BY <1>1, <1>2 DEF OneEditor, Is
<1>3. ASSUME NEW d \in Invoices, ReadForUpdate(r, d), NEW q \in Requests \ {r}, Is(q, "update")'
      PROVE  /\ reg'[r].inv # reg'[q].inv
             /\ \A o \in Invoices \ blurred' : ~(reg'[r].inv \in ReturnsOf(o) /\ reg'[q].inv \in ReturnsOf(o))
  <2>1. Is(q, "update") /\ reg'[q] = reg[q] /\ reg'[r].inv = d /\ reg[q].inv # d
    BY <1>1, <1>3, ReadEffects DEF Is, ReadForUpdate, Unlocked, Doing
  <2>2. ASSUME NEW o \in Invoices \ blurred', d \in ReturnsOf(o), reg[q].inv \in ReturnsOf(o)
        PROVE  FALSE
    <3>1. Against[d] = o /\ o # Null /\ reg[q].inv \in Others(d)
      BY <2>1, <2>2, SalesAssumption DEF ReturnsOf, Others
    <3>2. Doing("update", reg[q].inv)
      BY <2>1 DEF Doing, Is
    <3>3. Against[d] \in blurred'
      BY <1>3, <3>1, <3>2 DEF ReadForUpdate, Blurring
    <3> QED
      BY <2>2, <3>1, <3>3
  <2> QED
    BY <2>1, <2>2
<1>4. Is(r, "update")' => reg'[r] = reg[r] \/ \E d \in Invoices : ReadForUpdate(r, d)
  BY Effects, ReadEffects DEF Acts, Is
<1>5. CASE \E d \in Invoices : ReadForUpdate(r, d)
  BY <1>2, <1>3, <1>5 DEF OneEditor
<1>6. CASE Is(r, "update")' /\ reg'[r] = reg[r]
  BY <1>1, <1>6 DEF OneEditor, Is
<1>7. CASE ~Is(r, "update")'
  BY <1>2, <1>7 DEF OneEditor
<1> QED
  BY <1>4, <1>5, <1>6, <1>7

(* The cleared returns of an invoice are saved, and their sum is a number. *)
LEMMA ClearedFacts ==
    ASSUME Inductive, Originals, NEW o \in Invoices
    PROVE  /\ TypeOK /\ IsFiniteSet(Saved) /\ Cleared(o) \in SUBSET Saved
           /\ \A T \in SUBSET Saved : PaidOf(T) \in Nat
           /\ \A T \in SUBSET Saved : \A U \in SUBSET T : PaidOf(U) <= PaidOf(T)
<1>1. TypeOK /\ IsFiniteSet(Saved) /\ Cleared(o) \in SUBSET Saved
  BY NotItsOwnReturn DEF Inductive, Originals, Saved, Cleared, Reads, Doing, Is
<1> QED
  BY <1>1, PaidFacts

(* A step after which no more is cleared, and no edit is new.              *)
LEMMA ClearedShrinks ==
    ASSUME Inductive, Originals, NEW o \in Invoices, ClearedSum(o), EditsFit(o),
           content'[o] = content[o], content[o] \in Content,
           Cleared(o)' \subseteq Cleared(o),
           \A e \in Cleared(o) : content'[e] = content[e],
           \A q \in Requests : Is(q, "update")' /\ reg'[q].inv \in ReturnsOf(o) =>
               reg'[q] = reg[q] /\ content'[reg[q].inv] = content[reg[q].inv]
    PROVE  ClearedSum(o)' /\ EditsFit(o)'
<1>1. ASSUME NEW x
      PROVE  /\ PaidOf(Cleared(o) \ {x})' \in Nat /\ PaidOf(Cleared(o) \ {x}) \in Nat
             /\ PaidOf(Cleared(o) \ {x})' <= PaidOf(Cleared(o) \ {x})
  <2> DEFINE T == Cleared(o)' \ {x}
             U == Cleared(o) \ {x}
  <2>1. T \in SUBSET U /\ U \in SUBSET Saved /\ T \in SUBSET Saved
    BY ClearedFacts
  <2>2. (PaidOf(Cleared(o) \ {x}))' = PaidOf(T)
    <3>1. [e \in T |-> content'[e].paid] = [e \in T |-> content[e].paid]
      OBVIOUS
    <3> QED
      BY <3>1 DEF PaidOf
  <2> HIDE DEF T, U
  <2>3. PaidOf(T) \in Nat /\ PaidOf(U) \in Nat /\ PaidOf(T) <= PaidOf(U)
    BY <2>1, ClearedFacts
  <2> QED
    BY <2>2, <2>3 DEF U
<1>2. /\ PaidOf(Cleared(o))' \in Nat /\ PaidOf(Cleared(o)) \in Nat
      /\ PaidOf(Cleared(o))' <= PaidOf(Cleared(o))
  <2>1. o \notin Cleared(o) /\ Cleared(o) \ {o} = Cleared(o) /\ Cleared(o)' \ {o} = Cleared(o)'
    BY NotItsOwnReturn DEF Cleared
  <2> QED
    BY <1>1, <2>1
<1>3. content[o].paid \in Nat
  BY SalesAssumption DEF Content
<1>4. ClearedSum(o)'
  BY <1>2, <1>3 DEF ClearedSum
<1>5. EditsFit(o)'
  <2> SUFFICES ASSUME NEW q \in Requests, Is(q, "update")', reg'[q].inv \in ReturnsOf(o)
               PROVE  \/ reg'[q].new.paid \in {0, content'[reg'[q].inv].paid}
                      \/ reg'[q].new.paid + PaidOf(Cleared(o) \ {reg[q].inv})' <= content'[o].paid
    BY DEF EditsFit, ReturnsOf, Returns
  <2>0. PICK x : x = reg[q].inv
    OBVIOUS
  <2>1. /\ reg'[q] = reg[q] /\ Is(q, "update") /\ content'[reg[q].inv] = content[reg[q].inv]
        /\ reg[q].inv \in ReturnsOf(o)
    BY DEF Is
  <2>2. reg[q].new.paid \in Nat
    BY <2>1, RequestForms, SalesAssumption DEF Inductive, Is, Content
  <2>3. \/ reg[q].new.paid \in {0, content[reg[q].inv].paid}
        \/ reg[q].new.paid + PaidOf(Cleared(o) \ {reg[q].inv}) <= content[o].paid
    BY <2>1 DEF EditsFit
  <2>4. /\ PaidOf(Cleared(o) \ {x})' \in Nat /\ PaidOf(Cleared(o) \ {x}) \in Nat
        /\ PaidOf(Cleared(o) \ {x})' <= PaidOf(Cleared(o) \ {x})
    BY <1>1
  <2>5. PaidOf(Cleared(o) \ {x}) = PaidOf(Cleared(o) \ {reg[q].inv})
    BY <2>0
  <2>6. PaidOf(Cleared(o) \ {x})' = PaidOf(Cleared(o) \ {reg[q].inv})'
    BY <2>0, <2>1
  <2> QED
    BY <1>3, <2>1, <2>2, <2>3, <2>4, <2>5, <2>6
<1> QED
  BY <1>4, <1>5

(* The editor of a return writes what was checked, or what was there.      *)
LEMMA ChangeFits ==
    ASSUME Inductive, Originals, OneEditor, NEW r \in Requests, Change(r),
           NEW o \in Invoices \ blurred, Sold(o), reg[r].inv \in ReturnsOf(o),
           ClearedSum(o), EditsFit(o)
    PROVE  ClearedSum(o)' /\ EditsFit(o)'
<1> DEFINE d == reg[r].inv
           n == reg[r].new.paid
           C == Cleared(o)
<1>1. /\ d \in Invoices /\ reg'[r] = Null /\ (\A q \in Requests \ {r} : reg'[q] = reg[q])
      /\ status' = status /\ Is(r, "update") /\ reg[r].new \in Content /\ d # o
  BY Effects, RequestForms, NotItsOwnReturn DEF Acts, Change, Inductive, Is
<1>2. /\ content'[d] = reg[r].new
      /\ \A e \in Invoices \ {d} : content'[e] = content[e]
  BY <1>1 DEF Change, Inductive, TypeOK
<1>3. C' = C
  BY <1>1 DEF Cleared, Doing, Is, ReturnsOf, Returns
<1>4. C \in SUBSET Saved /\ IsFiniteSet(C) /\ C \subseteq Invoices
  BY ClearedFacts, FS_Subset DEF Saved
<1>5. n \in 0..MaxQty /\ content[o].paid \in Nat
  BY <1>1, SoldStays, SalesAssumption DEF Content, Acts
<1>6. n \in {0, content[d].paid} \/ n + PaidOf(C \ {d}) <= content[o].paid
  BY <1>1 DEF EditsFit
<1>7. ASSUME d \notin C PROVE ClearedSum(o)'
  <2>1. PaidOf(C)' = PaidOf(C)
    <3>1. [e \in C' |-> content'[e].paid] = [e \in C |-> content[e].paid]
      BY <1>2, <1>3, <1>4, <1>7
    <3> HIDE DEF C
    <3> QED
      BY <3>1 DEF PaidOf
  <2> QED
    BY <1>1, <1>2, <2>1 DEF ClearedSum
<1>8. ASSUME d \in C PROVE ClearedSum(o)'
  <2> DEFINE f == [e \in C |-> content'[e].paid]
  <2>1. f \in [C -> 0..MaxQty]
    <3>1. \A e \in C \ {d} : content[e].paid \in 0..MaxQty
      BY <1>4, SavedContent DEF Saved, Inductive
    <3> HIDE DEF C
    <3> QED
      BY <1>2, <1>4, <1>5, <3>1
  <2>2. Total(f) = f[d] + Total([e \in C \ {d} |-> f[e]])
    <3> HIDE DEF f, C
    <3> QED
      BY <1>4, <1>8, <2>1, TotalFacts
  <2>3. PaidOf(C)' = Total(f)
    BY <1>3 DEF PaidOf
  <2>4. Total([e \in C \ {d} |-> f[e]]) = PaidOf(C \ {d})
    <3>1. [e \in C \ {d} |-> f[e]] = [e \in C \ {d} |-> content[e].paid]
      BY <1>2, <1>4
    <3> QED
      BY <3>1 DEF PaidOf
  <2>5. f[d] = n
    BY <1>2, <1>8
  <2>6. PaidOf(C)' = n + PaidOf(C \ {d})
    BY <2>2, <2>3, <2>4, <2>5
  <2>7. /\ PaidOf(C) = content[d].paid + PaidOf(C \ {d}) /\ PaidOf(C \ {d}) <= PaidOf(C)
        /\ PaidOf(C) \in Nat /\ PaidOf(C \ {d}) \in Nat
    <3>1. C \ {d} \in SUBSET C /\ C \ {d} \in SUBSET Saved
      BY <1>4
    <3> HIDE DEF C
    <3> QED
      BY <1>4, <1>8, <3>1, ClearedFacts, PaidFacts
  <2>8. PaidOf(C) <= content[o].paid
    BY DEF ClearedSum
  <2>9. n + PaidOf(C \ {d}) <= content[o].paid
    <3> HIDE DEF C, n, d
    <3> QED
      BY <1>5, <1>6, <2>7, <2>8
  <2>10. PaidOf(C)' <= content'[o].paid
    BY <1>1, <1>2, <2>6, <2>9
  <2> QED
    BY <2>10 DEF ClearedSum
<1>9. EditsFit(o)'
  BY <1>1 DEF EditsFit, OneEditor, Is, ReturnsOf, Returns
<1> QED
  BY <1>7, <1>8, <1>9

(* A submit clears its return: it has added up all that are saved.         *)
LEMMA SubmitFits ==
    ASSUME Inductive, Originals, NEW r \in Requests, NEW d \in Invoices, ReadForSubmit(r, d),
           NEW o \in Invoices \ blurred', Sold(o), ClearedSum(o), EditsFit(o)
    PROVE  ClearedSum(o)' /\ EditsFit(o)'
<1> DEFINE C == Cleared(o)
<1>1. /\ content' = content /\ status' = status /\ status[d] = "DRAFT"
      /\ reg[r] = Null /\ Is(r, "submit")' /\ reg'[r].inv = d
      /\ \A q \in Requests \ {r} : reg'[q] = reg[q]
  BY ReadEffects, Effects DEF ReadForSubmit, Acts, tables
<1>2. Cleared(o)' = IF d \in ReturnsOf(o) THEN C \cup {d} ELSE C
  BY <1>1 DEF Cleared, Doing, Is, ReturnsOf, Returns
<1>3. content[o] \in Content /\ content[o].paid \in Nat
  BY SavedContent, SalesAssumption DEF Sold, Open, Inductive, Content
<1>4. CASE d \notin ReturnsOf(o) \/ d \in C
  <2>1. Cleared(o)' \subseteq Cleared(o)
    BY <1>2, <1>4
  <2>2. \A q \in Requests : Is(q, "update")' => reg'[q] = reg[q]
    BY <1>1 DEF Is
  <2> QED
    BY <1>1, <1>3, <2>1, <2>2, ClearedShrinks
<1>5. CASE d \in ReturnsOf(o) /\ d \notin C
  <2> DEFINE rest == (ReturnsOf(o) \ {d}) \ With("NONE")
             p == content[d].paid
  <2>1. Against[d] = o /\ o # Null
    BY <1>5, SalesAssumption DEF ReturnsOf
  <2>2. p > 0 => p + PaidOf(rest) <= content[o].paid
    BY <2>1 DEF ReadForSubmit, MayRefund
  <2>3. C \cup {d} \in SUBSET Saved /\ C \subseteq rest /\ rest \in SUBSET Saved
    BY <1>1, <1>5, ClearedFacts, NotItsOwnReturn DEF Cleared, Saved, With
  <2>4. p \in Nat
    BY <1>1, SavedContent, SalesAssumption DEF Inductive
  <2>5. PaidOf(C \cup {d}) = p + PaidOf(C)
    <3>1. (C \cup {d}) \ {d} = C /\ d \in C \cup {d}
      BY <1>5
    <3>2. PaidOf(C \cup {d}) = content[d].paid + PaidOf((C \cup {d}) \ {d})
      <4> HIDE DEF C
      <4> QED
        BY <2>3, <3>1, ClearedFacts, PaidFacts
    <3> QED
      BY <3>1, <3>2
  <2>6. PaidOf(C) \in Nat /\ PaidOf(rest) \in Nat /\ PaidOf(C) <= PaidOf(rest)
    <3>1. C \in SUBSET Saved /\ C \in SUBSET rest
      BY <2>3
    <3> HIDE DEF C, rest
    <3> QED
      BY <2>3, <3>1, ClearedFacts
  <2>7. PaidOf(C) <= content[o].paid
    BY DEF ClearedSum
  <2>8. p + PaidOf(C) <= content[o].paid
    <3> HIDE DEF C, rest, p
    <3> QED
      BY <1>3, <2>2, <2>4, <2>6, <2>7
  <2>9. PaidOf(Cleared(o))' = PaidOf(C \cup {d})
    BY <1>1, <1>2, <1>5 DEF PaidOf
  <2>10. ClearedSum(o)'
    BY <1>1, <2>5, <2>8, <2>9 DEF ClearedSum
  <2>11. ASSUME NEW q \in Requests, Is(q, "update")', reg'[q].inv \in ReturnsOf(o)
         PROVE  /\ reg'[q] = reg[q] /\ Is(q, "update") /\ reg[q].inv = d
    <3>1. reg'[q] = reg[q] /\ Is(q, "update")
      BY <1>1, <2>11 DEF Is
    <3>2. reg[q].inv # d => reg[q].inv \in Others(d) /\ Doing("update", reg[q].inv)
      BY <2>1, <2>11, <3>1 DEF Others, Doing, Is
    <3>3. reg[q].inv # d => Against[d] \in blurred'
      BY <2>1, <3>2 DEF ReadForSubmit, Blurring
    <3> QED
      BY <2>1, <3>1, <3>3
  <2>12. PaidOf(Cleared(o) \ {d})' = PaidOf(C \ {d})
    <3>1. Cleared(o)' \ {d} = C \ {d}
      BY <1>2, <1>5
    <3> HIDE DEF C
    <3> QED
      BY <1>1, <3>1 DEF PaidOf
  <2>13. EditsFit(o)'
    <3> SUFFICES ASSUME NEW q \in Requests, Is(q, "update")', reg'[q].inv \in ReturnsOf(o)
                 PROVE  \/ reg'[q].new.paid \in {0, content'[reg'[q].inv].paid}
                        \/ reg'[q].new.paid + PaidOf(Cleared(o) \ {reg[q].inv})' <= content'[o].paid
      BY DEF EditsFit, ReturnsOf, Returns
    <3>1. reg'[q] = reg[q] /\ Is(q, "update") /\ reg[q].inv = d
      BY <2>11
    <3>2. PaidOf(Cleared(o) \ {reg[q].inv})' = PaidOf(Cleared(o) \ {d})'
      BY <3>1
    <3> HIDE DEF C
    <3> QED
      BY <1>1, <1>5, <2>12, <3>1, <3>2 DEF EditsFit, C
  <2> QED
    BY <2>10, <2>13
<1> QED
  BY <1>4, <1>5

(* An edit that is about to change a refund has added up all the others.   *)
LEMMA UpdateFits ==
    ASSUME Inductive, Originals, NEW r \in Requests, NEW d \in Invoices, ReadForUpdate(r, d),
           NEW o \in Invoices, Sold(o), ClearedSum(o), EditsFit(o)
    PROVE  ClearedSum(o)' /\ EditsFit(o)'
<1> DEFINE C == Cleared(o)
<1>1. /\ content' = content /\ status' = status /\ status[d] = "DRAFT"
      /\ reg[r] = Null /\ Is(r, "update")' /\ reg'[r].inv = d
      /\ \A q \in Requests \ {r} : reg'[q] = reg[q]
  BY ReadEffects, Effects, ZenonT(60) DEF ReadForUpdate, Acts, tables
<1>2. Cleared(o)' = C
  BY <1>1 DEF Cleared, Doing, Is, ReturnsOf, Returns
<1>3. \A x : PaidOf(Cleared(o) \ {x})' = PaidOf(C \ {x})
  <2> HIDE DEF C
  <2> QED
    BY <1>1, <1>2 DEF PaidOf
<1>4. ClearedSum(o)'
  BY <1>1, <1>2 DEF ClearedSum, PaidOf
<1>5. ASSUME NEW q \in Requests, Is(q, "update")', reg'[q].inv \in ReturnsOf(o), q # r
      PROVE  \/ reg'[q].new.paid \in {0, content'[reg'[q].inv].paid}
             \/ reg'[q].new.paid + PaidOf(C \ {reg'[q].inv}) <= content'[o].paid
  BY <1>1, <1>5 DEF EditsFit, Is
<1>6. ASSUME d \in ReturnsOf(o)
      PROVE  \/ reg'[r].new.paid \in {0, content[d].paid}
             \/ reg'[r].new.paid + PaidOf(C \ {d}) <= content[o].paid
  <2> DEFINE rest == (ReturnsOf(o) \ {d}) \ With("NONE")
  <2>1. Against[d] = o /\ o # Null
    BY <1>6, SalesAssumption DEF ReturnsOf
  <2>2. PICK c \in Content : /\ c.paid # content[d].paid => MayRefund(d, c.paid)
                             /\ reg'[r] = [op |-> "update", inv |-> d, new |-> c]
    BY DEF ReadForUpdate, Inductive, TypeOK
  <2>3. c.paid \in Nat /\ content[o].paid \in Nat
    BY SavedContent, SalesAssumption DEF Content, Sold, Open, Inductive
  <2>4. c.paid \notin {0, content[d].paid} => c.paid + PaidOf(rest) <= content[o].paid
    BY <2>1, <2>2, <2>3 DEF MayRefund
  <2>5. C \ {d} \in SUBSET rest /\ rest \in SUBSET Saved /\ C \ {d} \in SUBSET Saved
    BY ClearedFacts, NotItsOwnReturn DEF Cleared, Saved, With
  <2>6. PaidOf(C \ {d}) \in Nat /\ PaidOf(rest) \in Nat /\ PaidOf(C \ {d}) <= PaidOf(rest)
    <3> HIDE DEF C, rest
    <3> QED
      BY <2>5, ClearedFacts
  <2> HIDE DEF rest, C
  <2> QED
    BY <2>2, <2>3, <2>4, <2>6
<1>7. EditsFit(o)'
  <2> SUFFICES ASSUME NEW q \in Requests, Is(q, "update")', reg'[q].inv \in ReturnsOf(o)
               PROVE  \/ reg'[q].new.paid \in {0, content'[reg'[q].inv].paid}
                      \/ reg'[q].new.paid + PaidOf(Cleared(o) \ {reg[q].inv})' <= content'[o].paid
    BY DEF EditsFit, ReturnsOf, Returns
  <2>1. PICK x : x = reg'[q].inv
    OBVIOUS
  <2>2. PaidOf(Cleared(o) \ {reg[q].inv})' = PaidOf(Cleared(o) \ {x})'
    BY <2>1
  <2>3. PaidOf(Cleared(o) \ {x})' = PaidOf(C \ {x})
    BY <1>3
  <2> HIDE DEF C
  <2> QED
    BY <1>1, <1>5, <1>6, <2>1, <2>2, <2>3
<1> QED
  BY <1>4, <1>7

LEMMA RoomForRefundsStep ==
    ASSUME Inductive, Originals, OneEditor, RoomForRefunds, NEW r \in Requests, Acts(r)
    PROVE  RoomForRefunds'
<1> SUFFICES ASSUME NEW o \in Invoices, o \notin blurred', Sold(o)'
             PROVE  ClearedSum(o)' /\ EditsFit(o)'
  BY DEF RoomForRefunds
<1>1. o \notin blurred /\ ReturnsOf(o) \subseteq Invoices
  BY Effects, NotItsOwnReturn
<1>2. CASE ~Sold(o)
  <2>1. /\ Write(r) /\ content' = content /\ content[o] \in Content
        /\ \A d \in ReturnsOf(o) : status[d] = "NONE" /\ status'[d] = "NONE"
    BY <1>2, NoReturnsYet
  <2>2. \A q \in Requests : (reg'[q] = reg[q] \/ reg'[q] = Null)
    BY <2>1, Effects
  <2>3. \A q \in Requests : Is(q, "update")' \/ Is(q, "submit")' => reg'[q].inv \notin ReturnsOf(o)
    BY <2>1, <2>2 DEF Is, Inductive, Reads
  <2>4. Cleared(o)' = {}
    BY <2>1, <2>3 DEF Cleared, Doing, Is, ReturnsOf, Returns
  <2>5. PaidOf(Cleared(o))' = PaidOf({})
    BY <2>1, <2>4 DEF PaidOf
  <2>6. PaidOf({}) = 0
    BY ClearedFacts, PaidFacts
  <2>7. content[o].paid \in Nat
    BY <2>1, SalesAssumption DEF Content
  <2> QED
    BY <2>1, <2>3, <2>5, <2>6, <2>7 DEF ClearedSum, EditsFit, ReturnsOf, Returns
<1>3. CASE Sold(o)
  <2>1. /\ ClearedSum(o) /\ EditsFit(o)
        /\ content'[o] = content[o] /\ content[o] \in Content
    BY <1>1, <1>3, SoldStays DEF RoomForRefunds
  <2>2. CASE \E d \in Invoices : ReadForSubmit(r, d)
    BY <1>3, <2>1, <2>2, SubmitFits
  <2>3. CASE Change(r) /\ reg[r].inv \in ReturnsOf(o)
    BY <1>1, <1>3, <2>1, <2>3, ChangeFits
  <2>4. ASSUME ~Change(r) \/ reg[r].inv \notin ReturnsOf(o), ~\E d \in Invoices : ReadForSubmit(r, d)
        PROVE  ClearedSum(o)' /\ EditsFit(o)'
    <3>0. /\ Save(r) \/ Change(r) => content' = [content EXCEPT ![reg[r].inv] = reg[r].new]
          /\ ~Save(r) /\ ~Change(r) => content' = content
          /\ content \in [Invoices -> Content \cup {Null}]
      BY Effects DEF Save, Change, Inductive, TypeOK
    <3>1. ASSUME NEW e \in Cleared(o) PROVE content'[e] = content[e]
      <4>1. e \in Invoices /\ e \in ReturnsOf(o) /\ status[e] # "NONE"
        BY <1>1, ClearedFacts DEF Cleared, Saved
      <4>2. Save(r) \/ Change(r) => e # reg[r].inv
        BY <2>4, <4>1 DEF Save, Inductive, Reads
      <4> HIDE DEF Inductive
      <4> QED
        BY <3>0, <4>1, <4>2
    <3>2. \A q \in Requests : Is(q, "submit")' => reg'[q] = reg[q]
      BY <2>4, Effects, ReadEffects DEF Acts, Is
    <3>3. ASSUME NEW e \in ReturnsOf(o), status'[e] = "RETURNED" PROVE e \in Cleared(o)
      <4>1. Save(r) => status' = [status EXCEPT ![reg[r].inv] = "DRAFT"]
        BY DEF Save
      <4>2. Write(r) => /\ status' = [status EXCEPT ![reg[r].inv] = StatusAfter(reg[r].inv, reg[r].seen)]
                        /\ Doing("submit", reg[r].inv)
        BY DEF Write, Doing, Is
      <4>3. status \in [Invoices -> Statuses] /\ e \in Invoices /\ (~Save(r) /\ ~Write(r) => status' = status)
        BY <1>1, Effects DEF Inductive, TypeOK
      <4>4. status[e] = "RETURNED" \/ Doing("submit", e)
        BY <3>3, <4>1, <4>2, <4>3
      <4> QED
        BY <4>4 DEF Cleared
    <3>4. Cleared(o)' \subseteq Cleared(o)
      BY <3>2, <3>3 DEF Cleared, Doing, Is, ReturnsOf, Returns
    <3>5. ASSUME NEW q \in Requests, Is(q, "update")', reg'[q].inv \in ReturnsOf(o),
                 ~ \E d \in Invoices : ReadForUpdate(r, d)
          PROVE  reg'[q] = reg[q] /\ content'[reg[q].inv] = content[reg[q].inv]
      <4>1. reg'[q] = reg[q] /\ Is(q, "update") /\ reg[q].inv \in Invoices /\ status[reg[q].inv] = "DRAFT"
        <5>1. reg'[q] = reg[q]
          BY <3>5, Effects, ReadEffects DEF Acts, Is
        <5> QED
          BY <1>1, <3>5, <5>1 DEF Is, Inductive, Reads
      <4>2. Save(r) \/ Change(r) => reg[q].inv # reg[r].inv
        BY <2>4, <3>5, <4>1 DEF Save, Inductive, Reads
      <4> HIDE DEF Inductive
      <4> QED
        BY <3>0, <4>1, <4>2
    <3>6. CASE ~ \E d \in Invoices : ReadForUpdate(r, d)
      <4>1. \A q \in Requests : Is(q, "update")' /\ reg'[q].inv \in ReturnsOf(o) =>
               reg'[q] = reg[q] /\ content'[reg[q].inv] = content[reg[q].inv]
        BY <3>5, <3>6
      <4> QED
        BY <2>1, <3>1, <3>4, <4>1, ClearedShrinks
    <3>7. CASE \E d \in Invoices : ReadForUpdate(r, d)
      BY <1>3, <2>1, <3>7, UpdateFits
    <3> QED
      BY <3>6, <3>7
  <2> QED
    BY <2>2, <2>3, <2>4
<1> QED
  BY <1>2, <1>3

-----------------------------------------------------------------------------
(* Everything that the steps preserve together.                            *)
Full ==
    /\ Inductive /\ Originals /\ OneReturnAtATime
    /\ RoomForReturns /\ OneEditor /\ RoomForRefunds

LEMMA InitFull == Init => Full
<1> SUFFICES ASSUME Init PROVE Full
  OBVIOUS
<1>1. Inductive
  BY InitInductive
<1>2. \A d \in Invoices : status[d] = "NONE" /\ ~Sold(d) /\ ~Doing("create", d)
  BY DEF Init, Sold, Open, Doing
<1>3. \A r \in Requests : ~Is(r, "update") /\ ~Is(r, "create")
  BY DEF Init, Is
<1>4. Originals
  <2>1. Saved = {}
    BY <1>2 DEF Saved
  <2>2. IsFiniteSet(Saved)
    BY <2>1, FS_EmptySet
  <2> QED
    BY <1>2, <2>2 DEF Originals, Returns
<1>5. OneReturnAtATime
  BY <1>2 DEF OneReturnAtATime, ReturnsOf, Returns, Active
<1>6. RoomForReturns /\ OneEditor /\ RoomForRefunds
  BY <1>2, <1>3 DEF RoomForReturns, OneEditor, RoomForRefunds
<1> QED
  BY <1>1, <1>4, <1>5, <1>6 DEF Full

LEMMA StutterFull == Full /\ UNCHANGED vars => Full'
<1> SUFFICES ASSUME Full, UNCHANGED vars PROVE Full'
  OBVIOUS
<1>1. Inductive'
  BY StepInductive DEF Full
<1>2. Originals'
  BY DEF Full, vars, Originals, Saved, Doing, Sold
<1>3. OneReturnAtATime'
  BY DEF Full, vars, OneReturnAtATime, Active, Doing, ReturnsOf, Returns
<1>4. RoomForReturns'
  BY DEF Full, vars, RoomForReturns, Sold, Returned, QtyOf, With, Is, ReturnsOf, Returns
<1>5. OneEditor'
  BY DEF Full, vars, OneEditor, Is, ReturnsOf, Returns
<1>6. RoomForRefunds'
  BY DEF Full, vars, RoomForRefunds, Sold, ClearedSum, EditsFit, Cleared, Doing, PaidOf, Is, ReturnsOf, Returns
<1> QED
  BY <1>1, <1>2, <1>3, <1>4, <1>5, <1>6 DEF Full

LEMMA StepFull == Full /\ [Next]_vars => Full'
<1> SUFFICES ASSUME Full, [Next]_vars PROVE Full'
  OBVIOUS
<1>1. CASE Next
  <2>1. PICK r \in Requests : Acts(r)
    BY <1>1 DEF Next, Acts
  <2>2. Inductive'
    BY StepInductive DEF Full
  <2> HIDE DEF Inductive
  <2> QED
    BY <2>1, <2>2, OriginalsStep, OneReturnStep, RoomForReturnsStep, OneEditorStep, RoomForRefundsStep DEF Full
<1> QED
  BY <1>1, StutterFull

LEMMA SpecFull == Spec => []Full
BY InitFull, StepFull, PTL DEF Spec

(* Invoices, postings and requests keep their types.                       *)
THEOREM TypeCorrect == Spec => []TypeOK
BY SpecInductive, PTL DEF Inductive

(* However many submits pass the guard, an invoice has one AUTO journal    *)
(* once it is posted and none before.                                      *)
THEOREM OneJournal == Spec => []JournalOnce
BY SpecInductive, PTL DEF Inductive

(* Books and stock say what the posted invoice says, unless it was written *)
(* between a submit's read and its write.                                  *)
THEOREM BooksAsWritten == Spec => []PostedAsWritten
BY SpecInductive, PTL DEF Inductive

(* No more is returned of an invoice than it sold, as long as no two drafts *)
(* of returns exist together: a submit writes what an edit checked, and no *)
(* other return was finalized since.                                       *)
THEOREM NoOverReturn == Spec => []ReturnedWithinSold
<1>1. Full => ReturnedWithinSold
  BY DEF Full, RoomForReturns, ReturnedWithinSold
<1> QED
  BY <1>1, SpecFull, PTL

(* No more is paid back than was received, unless refunds were summed      *)
(* while another return was edited: a return counts for the others from    *)
(* the moment a submit has checked it.                                     *)
THEOREM NoOverRefund == Spec => []RefundsWithinPaid
<1>1. ASSUME Full PROVE RefundsWithinPaid
  <2> SUFFICES ASSUME NEW o \in Invoices \ blurred, Sold(o)
               PROVE  Refunded(o) <= content[o].paid
    BY DEF RefundsWithinPaid
  <2> DEFINE back == ReturnsOf(o) \cap With("RETURNED")
  <2>1. PaidOf(Cleared(o)) <= content[o].paid /\ content[o].paid \in Nat
    <3>1. content[o].paid \in 0..MaxQty
      BY <1>1, SavedContent DEF Full, Inductive, Sold, Open
    <3> QED
      BY <1>1, <3>1, SalesAssumption DEF Full, RoomForRefunds, ClearedSum
  <2>2. back \in SUBSET Cleared(o) /\ Cleared(o) \in SUBSET Saved /\ back \in SUBSET Saved
    BY <1>1, ClearedFacts DEF Full, Cleared, With
  <2>3. /\ PaidOf(back) \in Nat /\ PaidOf(Cleared(o)) \in Nat
        /\ PaidOf(back) <= PaidOf(Cleared(o))
    <3> HIDE DEF back
    <3> QED
      BY <1>1, <2>2, ClearedFacts DEF Full
  <2>4. Refunded(o) = PaidOf(back)
    BY DEF Refunded
  <2> HIDE DEF back
  <2> QED
    BY <2>1, <2>3, <2>4
<1> QED
  BY <1>1, SpecFull, PTL
=============================================================================
