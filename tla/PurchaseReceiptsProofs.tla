----------------------- MODULE PurchaseReceiptsProofs -----------------------
(***************************************************************************)
(* Proofs about purchase receipts, for any receipts, returns, quantities,  *)
(* posting times and number of requests.                                   *)
(*                                                                         *)
(* A request knows something of its receipt from what it has read (Knows). *)
(* A cancel whose rows nobody else has read finds them as they were        *)
(* (Lonely), and so its one row and its reversal are all there is.         *)
(***************************************************************************)
EXTENDS PurchaseReceipts, TLAPS

Early(d) == status[d] \in {"NONE", "DRAFT"}

(* The one row of a submitted receipt; that row and its reversal.          *)
Single(d) ==
    \E i \in RowsOf(d) :
        /\ RowsOf(d) = {i} /\ rows[i].qty = journal[d][1]
        /\ rows[i].live /\ ~rows[i].reversal
Reversed(d) ==
    \E i, j \in RowsOf(d) :
        /\ RowsOf(d) = {i, j} /\ rows[i].qty = journal[d][1] /\ rows[j].qty = -rows[i].qty
        /\ ~rows[i].live /\ rows[j].live /\ rows[j].reversal

Posted(d) ==
    /\ Early(d) => RowsOf(d) = {} /\ journal[d] = <<>>
    /\ status[d] \in {"SUBMITTED", "RETURNED"} => Len(journal[d]) = 1 /\ Single(d)
    /\ status[d] = "CANCELLED" => journal[d] # <<>> /\ (d \notin recancelled => Reversed(d))
Postings == \A d \in Receipts : Posted(d)

(* What the record x of a request knows.                                   *)
Knows(x) ==
    /\ x.pc = "submit" => /\ status[x.doc] # "NONE" /\ x.qty # 0
                          /\ x.doc \notin redrawn => x.qty = qty[x.doc]
    /\ x.pc \in {"cancel", "cancelling"} => status[x.doc] \in {"SUBMITTED", "CANCELLED"}
    /\ x.pc = "cancelling" /\ x.rows = {} => status[x.doc] = "CANCELLED"
    /\ x.pc = "cancelling" /\ x.rows # {} /\ x.doc \notin recancelled =>
           status[x.doc] = "SUBMITTED" /\ x.rows = RowsOf(x.doc)
    /\ x.pc = "cancelling" => x.rows \subseteq RowsOf(x.doc)
    /\ x.pc = "reverse" => status[x.doc] = "CANCELLED"
Knowledge == \A r \in Requests : reg[r] # Null => Knows(reg[r])

HasRows(r, d) == At(r, "cancelling") /\ reg[r].doc = d /\ reg[r].rows # {}
Lonely ==
    \A r, q \in Requests, d \in Receipts \ recancelled : HasRows(r, d) /\ HasRows(q, d) => r = q

(* A bin about to be written takes what the ledger says.                   *)
Readings ==
    \A r \in Requests : At(r, "bin") /\ r \notin overtaken => reg[r].last = Balance(Live)

Inductive ==
    TypeOK /\ Postings /\ Knowledge /\ Lonely /\ Readings /\ BinCurrent /\ PostedAsWritten

(* The first state.                                                        *)
LEMMA InitInductive == Init => Inductive
<1> SUFFICES ASSUME Init PROVE Inductive
  OBVIOUS
<1>1. TypeOK
  <2>1. rows \in Seq(Sle) /\ journal \in [Receipts -> Seq(Int \ {0})]
    <3>1. <<>> \in Seq(Sle) /\ <<>> \in Seq(Int \ {0})
      OBVIOUS
    <3> QED
      BY <3>1 DEF Init
  <2>2. \A d \in Receipts : status[d] = "NONE"
    BY DEF Init
  <2>3. status \in [Receipts -> Statuses] /\ qty \in [Receipts -> Int]
    BY DEF Init, Statuses
  <2>4. \A r \in Requests : reg[r] = Null
    BY DEF Init
  <2>5. reg \in [Requests -> {Null} \cup Request]
    BY DEF Init
  <2>6. bin \in Int
    BY DEF Init
  <2>7. behind \in BOOLEAN
    BY Zenon DEF Init
  <2>8. /\ overtaken \subseteq Requests /\ redrawn \subseteq Receipts /\ recancelled \subseteq Receipts
    BY DEF Init
  <2>9. \A r \in Requests : ~At(r, "cancelling")
    BY <2>4 DEF At
  <2> QED
    BY <2>1, <2>2, <2>3, <2>5, <2>6, <2>7, <2>8, <2>9 DEF TypeOK
<1>2. \A d \in Receipts : RowsOf(d) = {}
  BY DEF Init, RowsOf
<1>3. Postings /\ PostedAsWritten
  BY <1>2 DEF Init, Postings, Posted, Early, PostedAsWritten
<1>4. Knowledge /\ Lonely /\ Readings
  BY DEF Init, Knowledge, Lonely, Readings, HasRows, At
<1>5. Balance(Live) = 0
  BY DEF Init, Balance, Latest, Live
<1> QED
  BY <1>1, <1>3, <1>4, <1>5 DEF Inductive, BinCurrent, Init

-----------------------------------------------------------------------------
(* The quantity of a receipt or a return is a number other than zero.      *)
LEMMA QuantityType ==
    ASSUME NEW d \in Receipts, NEW x \in Quantities(d)
    PROVE  x \in Int /\ x # 0
<1>1. MaxQty[d] \in Nat
  BY ReceiptsAssumption
<1>2. PICK y \in 1..MaxQty[d] : x = IF d \in Returns THEN -y ELSE y
  BY DEF Quantities
<1> QED
  BY <1>1, <1>2

(* The fields of a request at each of its points.                          *)
LEMMA RequestForm ==
    ASSUME TypeOK, NEW r \in Requests, reg[r] # Null
    PROVE  /\ reg[r] \in Request /\ reg[r].doc \in Receipts
           /\ At(r, "submit") => reg[r].qty \in Int
           /\ At(r, "bin") => reg[r].last \in Int
           /\ At(r, "cancelling") => reg[r].rows \in SUBSET Nat
<1>1. reg[r] \in Request
  BY DEF TypeOK
<1> QED
  BY <1>1 DEF Request, At

(* The quantity after any set of rows is a number.                         *)
LEMMA BalanceType ==
    ASSUME TypeOK, NEW S \in SUBSET DOMAIN rows
    PROVE  Balance(S) \in Int
<1>1. ASSUME Latest(S) # {} PROVE (CHOOSE i \in Latest(S) : TRUE) \in S
  BY <1>1 DEF Latest
<1>2. \A i \in S : rows[i] \in Sle
  BY DEF TypeOK
<1> QED
  BY <1>1, <1>2 DEF Balance, Sle

(* What is read of an unchanged ledger is unchanged.                       *)
LEMMA SameLedger ==
    ASSUME rows' = rows
    PROVE  Balance(Live)' = Balance(Live) /\ \A d : RowsOf(d)' = RowsOf(d)
BY DEF Balance, Latest, Live, Later, RowsOf

(* A step of one request that changes nothing of the receipts, the ledger, *)
(* the books and the bin: only what the request itself has read counts.    *)
LEMMA ReadStep ==
    ASSUME Inductive, NEW r \in Requests, NEW rec \in Request \cup {Null},
           reg' = [reg EXCEPT ![r] = rec],
           UNCHANGED <<status, qty, rows, journal, bin, behind, redrawn>>,
           recancelled \subseteq recancelled', recancelled' \subseteq Receipts,
           overtaken' \subseteq Requests,
           \A q \in Requests \ {r} : q \in overtaken => q \in overtaken',
           rec # Null => Knows(rec),
           rec # Null /\ rec.pc = "bin" => rec.last = Balance(Live),
           rec # Null /\ rec.pc = "cancelling" /\ rec.rows # {} =>
               rec.doc \in recancelled' \/ \A q \in Requests \ {r} : ~HasRows(q, rec.doc)
    PROVE  Inductive'
<1>1. /\ reg'[r] = rec
      /\ \A q \in Requests \ {r} : reg'[q] = reg[q]
      /\ reg' \in [Requests -> {Null} \cup Request]
  BY DEF Inductive, TypeOK
<1>2. Balance(Live)' = Balance(Live) /\ \A d : RowsOf(d)' = RowsOf(d)
  BY SameLedger
<1>3. \A x : Knows(x) => Knows(x)'
  BY <1>2 DEF Knows
<1>4. Knowledge'
  BY <1>1, <1>3 DEF Knowledge, Inductive
<1>5. TypeOK'
  <2>1. \A q \in Requests : (At(q, "cancelling") => reg[q].rows \subseteq RowsOf(reg[q].doc))'
    BY <1>4 DEF Knowledge, Knows, At
  <2>2. \A d \in Receipts : (status[d] # "NONE" => qty[d] \in Quantities(d))'
    BY DEF Inductive, TypeOK, Quantities
  <2> QED
    BY <1>1, <2>1, <2>2 DEF Inductive, TypeOK
<1>6. Postings'
  BY <1>2 DEF Inductive, Postings, Posted, Early, Single, Reversed
<1>7. Lonely'
  BY <1>1 DEF Inductive, Lonely, HasRows, At
<1>8. Readings' /\ BinCurrent'
  BY <1>1, <1>2 DEF Inductive, Readings, BinCurrent, At
<1>9. PostedAsWritten'
  BY DEF Inductive, PostedAsWritten
<1> QED
  BY <1>4, <1>5, <1>6, <1>7, <1>8, <1>9 DEF Inductive

(* What a request reads before its locks, and where it ends.               *)
LEMMA ReadsInductive ==
    ASSUME Inductive, NEW r \in Requests, NEW d \in Receipts,
           ReadForSubmit(r, d) \/ ReadForCancel(r, d)
    PROVE  Inductive'
<1> DEFINE sub == [pc |-> "submit", doc |-> d, qty |-> qty[d], backdated |-> Backdated(d)]
           can == [pc |-> "cancel", doc |-> d]
<1>1. CASE ReadForSubmit(r, d)
  <2>1. qty[d] \in Int /\ qty[d] # 0 /\ Backdated(d) \in BOOLEAN
    <3>1. qty[d] \in Quantities(d)
      BY <1>1 DEF ReadForSubmit, Inductive, TypeOK
    <3> QED
      BY <3>1, QuantityType DEF Backdated
  <2>2. sub \in Request
    BY <2>1 DEF Request
  <2>3. Knows(sub)
    BY <1>1, <2>1 DEF Knows, ReadForSubmit
  <2>4. reg' = [reg EXCEPT ![r] = sub]
    BY <1>1 DEF ReadForSubmit, Go
  <2> HIDE DEF sub
  <2>5. sub.pc = "submit"
    BY DEF sub
  <2> QED
    BY <1>1, <2>2, <2>3, <2>4, <2>5, ReadStep DEF ReadForSubmit, Inductive, TypeOK
<1>2. CASE ReadForCancel(r, d)
  <2>1. can \in Request /\ can.pc = "cancel"
    BY DEF Request
  <2>2. Knows(can)
    BY <1>2 DEF Knows, ReadForCancel
  <2>3. reg' = [reg EXCEPT ![r] = can]
    BY <1>2 DEF ReadForCancel, Go
  <2> HIDE DEF can
  <2> QED
    BY <1>2, <2>1, <2>2, <2>3, ReadStep DEF ReadForCancel, Inductive, TypeOK
<1> QED
  BY <1>1, <1>2

(* A submitted receipt has a live row that is no reversal; a cancelled one *)
(* has none, unless its rows were read by two.                             *)
LEMMA ReadRowsInductive ==
    ASSUME Inductive, NEW r \in Requests, ReadRows(r)
    PROVE  Inductive'
<1> DEFINE d == reg[r].doc
           own == {i \in RowsOf(d) \cap Live : ~rows[i].reversal}
           rec == [pc |-> "cancelling", doc |-> d, rows |-> own]
<1>1. reg[r] # Null /\ reg[r].pc = "cancel" /\ d \in Receipts
  BY RequestForm DEF ReadRows, At, Inductive
<1>2. status[d] \in {"SUBMITTED", "CANCELLED"} /\ Posted(d)
  BY <1>1 DEF Inductive, Knowledge, Knows, Postings
<1>3. own \subseteq RowsOf(d) /\ own \in SUBSET Nat
  BY DEF RowsOf, Inductive, TypeOK
<1>4. rec \in Request
  BY <1>1, <1>3 DEF Request
<1>5. status[d] = "SUBMITTED" => own = RowsOf(d) /\ own # {}
  BY <1>2 DEF Posted, Single, Live, RowsOf
<1>6. d \notin recancelled /\ status[d] = "CANCELLED" => own = {}
  BY <1>2 DEF Posted, Reversed, Live
<1>7. /\ reg' = [reg EXCEPT ![r] = rec]
      /\ recancelled' = recancelled \cup {e \in {d} : Cancelling(d)}
  BY DEF ReadRows, Go
<1>8. CASE own = {} /\ status[d] = "SUBMITTED"
  BY <1>5, <1>8
<1>9. CASE own # {} \/ status[d] = "CANCELLED"
  <2> DEFINE kept == rec
  <2>1. Knows(rec)
    BY <1>2, <1>3, <1>5, <1>6, <1>9 DEF Knows
  <2>2. rec.rows # {} => d \in recancelled' \/ \A q \in Requests \ {r} : ~HasRows(q, d)
    BY <1>7 DEF Cancelling, HasRows
  <2>3. rec.pc = "cancelling" /\ rec.doc = d
    OBVIOUS
  <2>4. recancelled \subseteq recancelled' /\ recancelled' \subseteq Receipts
    BY <1>1, <1>7 DEF Inductive, TypeOK
  <2>5. UNCHANGED <<status, qty, rows, journal, bin, behind, overtaken, redrawn>>
    BY DEF ReadRows
  <2>6. overtaken' \subseteq Requests
    BY <2>5 DEF Inductive, TypeOK
  <2> HIDE DEF rec
  <2> QED
    BY <1>4, <1>7, <2>1, <2>2, <2>3, <2>4, <2>5, <2>6, ReadStep
<1> QED
  BY <1>2, <1>8, <1>9

(* The first half of the derivation reads what the second half writes.     *)
LEMMA DeriveReadInductive ==
    ASSUME Inductive, NEW r \in Requests, DeriveRead(r)
    PROVE  Inductive'
<1> DEFINE rec == [pc |-> "bin", doc |-> reg[r].doc, last |-> Balance(Live)]
<1>1. reg[r].doc \in Receipts
  BY RequestForm DEF DeriveRead, At, Inductive
<1>2. Balance(Live) \in Int
  BY BalanceType DEF Live, Inductive
<1>3. rec \in Request
  BY <1>1, <1>2 DEF Request
<1>4. Knows(rec)
  BY DEF Knows
<1>5. rec.pc = "bin" /\ rec.last = Balance(Live)
  OBVIOUS
<1>6. reg' = [reg EXCEPT ![r] = rec]
  BY DEF DeriveRead, Go
<1> HIDE DEF rec
<1> QED
  BY <1>3, <1>4, <1>5, <1>6, ReadStep DEF DeriveRead, Inductive, TypeOK

(* A request that ends without a further write.                            *)
LEMMA AbortInductive ==
    ASSUME Inductive, NEW r \in Requests, Abort(r)
    PROVE  Inductive'
<1>1. reg' = [reg EXCEPT ![r] = Null]
  BY DEF Abort, Go
<1> QED
  BY <1>1, ReadStep DEF Abort, Inductive, TypeOK

-----------------------------------------------------------------------------
(* A draft is made: nobody knows of it yet.                                *)
LEMMA CreateInductive ==
    ASSUME Inductive, NEW d \in Receipts, NEW x \in Quantities(d), Create(d, x)
    PROVE  Inductive'
<1>1. x \in Int /\ x # 0
  BY QuantityType
<1>2. /\ status[d] = "NONE" /\ status' = [status EXCEPT ![d] = "DRAFT"]
      /\ qty' = [qty EXCEPT ![d] = x]
      /\ UNCHANGED <<rows, journal, bin, reg, behind, overtaken, redrawn, recancelled>>
  BY DEF Create
<1>3. /\ status'[d] = "DRAFT" /\ \A e \in Receipts \ {d} : status'[e] = status[e] /\ qty'[e] = qty[e]
      /\ qty'[d] = x /\ status' \in [Receipts -> Statuses] /\ qty' \in [Receipts -> Int]
  BY <1>1, <1>2 DEF Inductive, TypeOK, Statuses
<1>4. Balance(Live)' = Balance(Live) /\ \A e : RowsOf(e)' = RowsOf(e)
  BY <1>2, SameLedger
<1>5. Knowledge'
  <2> SUFFICES ASSUME NEW r \in Requests, reg[r] # Null PROVE Knows(reg[r])'
    BY <1>2 DEF Knowledge
  <2>1. Knows(reg[r]) /\ reg[r].doc \in Receipts
    BY RequestForm DEF Inductive, Knowledge
  <2> QED
    BY <1>2, <1>3, <1>4, <2>1 DEF Knows
<1>6. TypeOK'
  <2>1. \A e \in Receipts : (status[e] # "NONE" => qty[e] \in Quantities(e))'
    BY <1>3 DEF Inductive, TypeOK, Quantities
  <2>2. \A r \in Requests : (At(r, "cancelling") => reg[r].rows \subseteq RowsOf(reg[r].doc))'
    BY <1>5 DEF Knowledge, Knows, At
  <2> QED
    BY <1>2, <1>3, <2>1, <2>2 DEF Inductive, TypeOK
<1>7. Postings'
  BY <1>2, <1>3, <1>4 DEF Inductive, Postings, Posted, Early, Single, Reversed
<1>8. Lonely' /\ Readings' /\ BinCurrent'
  BY <1>2, <1>4 DEF Inductive, Lonely, Readings, BinCurrent, HasRows, At
<1>9. PostedAsWritten'
  <2>1. journal[d] = <<>>
    BY <1>2 DEF Inductive, Postings, Posted, Early
  <2> QED
    BY <1>2, <1>3, <2>1 DEF Inductive, PostedAsWritten
<1> QED
  BY <1>5, <1>6, <1>7, <1>8, <1>9 DEF Inductive

(* A draft is edited: a submit that has read it is told so in redrawn.     *)
LEMMA UpdateInductive ==
    ASSUME Inductive, NEW d \in Receipts, NEW x \in Quantities(d), Update(d, x)
    PROVE  Inductive'
<1>1. x \in Int /\ x # 0
  BY QuantityType
<1>2. /\ status[d] = "DRAFT" /\ qty' = [qty EXCEPT ![d] = x]
      /\ redrawn' = redrawn \cup {e \in {d} : \E r \in Requests : At(r, "submit") /\ reg[r].doc = d}
      /\ UNCHANGED <<status, rows, journal, bin, reg, behind, overtaken, recancelled>>
  BY DEF Update
<1>3. /\ qty'[d] = x /\ qty' \in [Receipts -> Int]
      /\ \A e \in Receipts \ {d} : qty'[e] = qty[e]
  BY <1>1, <1>2 DEF Inductive, TypeOK
<1>4. Balance(Live)' = Balance(Live) /\ \A e : RowsOf(e)' = RowsOf(e)
  BY <1>2, SameLedger
<1>5. Knowledge'
  <2> SUFFICES ASSUME NEW r \in Requests, reg[r] # Null PROVE Knows(reg[r])'
    BY <1>2 DEF Knowledge
  <2>1. Knows(reg[r]) /\ reg[r].doc \in Receipts
    BY RequestForm DEF Inductive, Knowledge
  <2>2. reg[r].pc = "submit" /\ reg[r].doc = d => d \in redrawn'
    BY <1>2 DEF At
  <2> QED
    BY <1>2, <1>3, <1>4, <2>1, <2>2 DEF Knows
<1>6. TypeOK'
  <2>1. \A e \in Receipts : (status[e] # "NONE" => qty[e] \in Quantities(e))'
    BY <1>2, <1>3 DEF Inductive, TypeOK, Quantities
  <2>2. \A r \in Requests : (At(r, "cancelling") => reg[r].rows \subseteq RowsOf(reg[r].doc))'
    BY <1>5 DEF Knowledge, Knows, At
  <2> QED
    BY <1>2, <1>3, <2>1, <2>2 DEF Inductive, TypeOK
<1>7. Postings'
  BY <1>2, <1>4 DEF Inductive, Postings, Posted, Early, Single, Reversed
<1>8. Lonely' /\ Readings' /\ BinCurrent'
  BY <1>2, <1>4 DEF Inductive, Lonely, Readings, BinCurrent, HasRows, At
<1>9. PostedAsWritten'
  <2>1. journal[d] = <<>>
    BY <1>2 DEF Inductive, Postings, Posted, Early
  <2> QED
    BY <1>2, <1>3, <2>1 DEF Inductive, PostedAsWritten
<1> QED
  BY <1>5, <1>6, <1>7, <1>8, <1>9 DEF Inductive

(* The bin is written: it is current unless the reading was overtaken.     *)
LEMMA DeriveWriteInductive ==
    ASSUME Inductive, NEW r \in Requests, DeriveWrite(r)
    PROVE  Inductive'
<1>1. /\ At(r, "bin") /\ bin' = reg[r].last /\ behind' = (r \in overtaken)
      /\ reg' = [reg EXCEPT ![r] = Null]
      /\ UNCHANGED <<status, qty, rows, journal, overtaken, redrawn, recancelled>>
  BY DEF DeriveWrite, Go
<1>2. /\ reg'[r] = Null /\ \A q \in Requests \ {r} : reg'[q] = reg[q]
      /\ reg' \in [Requests -> {Null} \cup Request]
  BY <1>1 DEF Inductive, TypeOK
<1>3. Balance(Live)' = Balance(Live) /\ \A d : RowsOf(d)' = RowsOf(d)
  BY <1>1, SameLedger
<1>4. Knowledge'
  BY <1>1, <1>2, <1>3 DEF Inductive, Knowledge, Knows
<1>5. TypeOK'
  <2>1. bin' \in Int
    BY <1>1, RequestForm DEF Inductive, At
  <2>2. behind' \in BOOLEAN
    <3>1. behind' = (r \in overtaken)
      BY <1>1
    <3>2. (r \in overtaken) \in BOOLEAN
      OBVIOUS
    <3> QED
      BY <3>1, <3>2, Zenon
  <2>3. \A d \in Receipts : (status[d] # "NONE" => qty[d] \in Quantities(d))'
    BY <1>1 DEF Inductive, TypeOK, Quantities
  <2>4. \A q \in Requests : (At(q, "cancelling") => reg[q].rows \subseteq RowsOf(reg[q].doc))'
    BY <1>4 DEF Knowledge, Knows, At
  <2> QED
    BY <1>1, <1>2, <2>1, <2>2, <2>3, <2>4 DEF Inductive, TypeOK
<1>6. Postings'
  BY <1>1, <1>3 DEF Inductive, Postings, Posted, Early, Single, Reversed
<1>7. Lonely' /\ Readings'
  BY <1>1, <1>2, <1>3 DEF Inductive, Lonely, Readings, HasRows, At
<1>8. BinCurrent'
  BY <1>1, <1>3 DEF Inductive, Readings, BinCurrent
<1>9. PostedAsWritten'
  BY <1>1 DEF Inductive, PostedAsWritten
<1> QED
  BY <1>4, <1>5, <1>6, <1>7, <1>8, <1>9 DEF Inductive

-----------------------------------------------------------------------------
(* Rows of one receipt are changed and one is added: those of the others   *)
(* are as they were.                                                       *)
LEMMA Elsewhere ==
    ASSUME TypeOK, NEW d \in Receipts, NEW base \in Seq(Sle), NEW y \in Sle, y.doc = d,
           DOMAIN base = DOMAIN rows,
           \A i \in DOMAIN rows : base[i].doc = rows[i].doc /\ (rows[i].doc # d => base[i] = rows[i]),
           rows' = Append(base, y)
    PROVE  /\ rows' \in Seq(Sle) /\ Len(rows) \in Nat
           /\ RowsOf(d)' = RowsOf(d) \cup {Len(rows) + 1} /\ rows'[Len(rows) + 1] = y
           /\ \A i \in DOMAIN rows : rows'[i] = base[i]
           /\ \A e \in Receipts \ {d} : RowsOf(e)' = RowsOf(e) /\ \A i \in RowsOf(e) : rows'[i] = rows[i]
<1>1. Len(rows) \in Nat /\ DOMAIN rows = 1..Len(rows) /\ Len(base) = Len(rows)
  BY DEF TypeOK
<1>2. /\ rows' \in Seq(Sle) /\ DOMAIN rows' = 1..(Len(rows) + 1)
      /\ rows'[Len(rows) + 1] = y
      /\ \A i \in DOMAIN rows : rows'[i] = base[i]
  BY <1>1
<1>3. DOMAIN rows' = DOMAIN rows \cup {Len(rows) + 1}
  BY <1>1, <1>2
<1>4. RowsOf(d)' = RowsOf(d) \cup {Len(rows) + 1}
  BY <1>2, <1>3 DEF RowsOf
<1>5. \A e \in Receipts \ {d} : RowsOf(e)' = RowsOf(e) /\ \A i \in RowsOf(e) : rows'[i] = rows[i]
  BY <1>2, <1>3 DEF RowsOf
<1> QED
  BY <1>1, <1>2, <1>4, <1>5

(* ... and so is what is posted of the others, and what is known of them.  *)
LEMMA Others ==
    ASSUME Inductive, NEW d \in Receipts, qty' = qty, redrawn' = redrawn, recancelled' = recancelled,
           \A e \in Receipts \ {d} :
               /\ status'[e] = status[e] /\ journal'[e] = journal[e]
               /\ RowsOf(e)' = RowsOf(e) /\ \A i \in RowsOf(e) : rows'[i] = rows[i]
    PROVE  /\ \A e \in Receipts \ {d} : Posted(e)'
           /\ \A r \in Requests : reg[r] # Null /\ reg[r].doc # d /\ reg'[r] = reg[r] => Knows(reg[r])'
<1>1. ASSUME NEW e \in Receipts \ {d} PROVE Posted(e)'
  <2>1. Posted(e)
    BY DEF Inductive, Postings
  <2>2. Single(e) => Single(e)'
    BY DEF Single
  <2>3. Reversed(e) => Reversed(e)'
    BY DEF Reversed
  <2> QED
    BY <2>1, <2>2, <2>3 DEF Posted, Early
<1>2. ASSUME NEW r \in Requests, reg[r] # Null, reg[r].doc # d, reg'[r] = reg[r] PROVE Knows(reg[r])'
  <2>1. Knows(reg[r]) /\ reg[r].doc \in Receipts \ {d}
    BY <1>2, RequestForm DEF Inductive, Knowledge
  <2> QED
    BY <1>2, <2>1 DEF Knows
<1> QED
  BY <1>1, <1>2

(* A write of the ledger makes the bin late and what is read of it old.    *)
LEMMA Overtakes ==
    ASSUME Inductive, NEW r \in Requests, NEW rec \in Request, Overtaking, rec.pc # "bin",
           reg' = [reg EXCEPT ![r] = rec]
    PROVE  Readings' /\ BinCurrent' /\ behind' \in BOOLEAN /\ overtaken' \subseteq Requests
<1>1. reg'[r] = rec /\ \A q \in Requests \ {r} : reg'[q] = reg[q]
  BY DEF Inductive, TypeOK
<1>2. behind' = TRUE /\ overtaken' = overtaken \cup {q \in Requests : At(q, "bin")}
  BY DEF Overtaking
<1>3. Readings'
  BY <1>1, <1>2 DEF Readings, At
<1>4. behind' \in BOOLEAN
  BY <1>2
<1> QED
  BY <1>2, <1>3, <1>4 DEF BinCurrent, Inductive, TypeOK

(* The submit: a draft has neither rows nor journal, and gets one of each. *)
LEMMA WriteSubmitInductive ==
    ASSUME Inductive, NEW r \in Requests, WriteSubmit(r)
    PROVE  Inductive'
<1>0. PICK d \in Receipts, x \in Int : d = reg[r].doc /\ x = reg[r].qty
  BY RequestForm DEF WriteSubmit, At, Inductive
<1>y. PICK y : y = NewRow(d, x)
  OBVIOUS
<1> DEFINE pc == IF reg[r].backdated THEN "repost" ELSE "derive"
           rec == [pc |-> pc, doc |-> d]
<1>1. /\ At(r, "submit") /\ reg[r] # Null
      /\ x # 0 /\ (d \notin redrawn => x = qty[d]) /\ status[d] # "NONE"
  BY <1>0 DEF WriteSubmit, At, Inductive, Knowledge, Knows
<1>2. journal[d] = <<>> /\ RowsOf(d) = {} /\ status[d] = "DRAFT"
  <2>1. journal[d] = <<>>
    BY <1>0 DEF WriteSubmit, MayPost
  <2>2. status[d] \in Statuses /\ Posted(d)
    BY <1>1 DEF Inductive, TypeOK, Postings
  <2> QED
    BY <1>1, <2>1, <2>2 DEF Posted, Early, Statuses
<1>3. /\ rows' = Append(rows, y)
      /\ journal' = [journal EXCEPT ![d] = Append(@, x)]
      /\ status' = [status EXCEPT ![d] = IF d \in Returns THEN "RETURNED" ELSE "SUBMITTED"]
      /\ reg' = [reg EXCEPT ![r] = rec] /\ Overtaking
      /\ UNCHANGED <<qty, bin, redrawn, recancelled>>
  BY <1>0, <1>y DEF WriteSubmit, To, Go
<1>4. y \in Sle /\ y.doc = d /\ y.qty = x /\ y.live = TRUE /\ y.reversal = FALSE
  <2>1. Balance({i \in Live : rows[i].time <= Time[d]}) \in Int
    BY BalanceType DEF Live, Inductive
  <2>2. Time[d] \in Nat
    BY ReceiptsAssumption
  <2> QED
    BY <1>y, <2>1, <2>2 DEF NewRow, Sle
<1>5. /\ rows' \in Seq(Sle) /\ Len(rows) \in Nat
      /\ RowsOf(d)' = {Len(rows) + 1} /\ rows'[Len(rows) + 1] = y
      /\ \A e \in Receipts \ {d} : RowsOf(e)' = RowsOf(e) /\ \A i \in RowsOf(e) : rows'[i] = rows[i]
  <2>1. TypeOK /\ rows \in Seq(Sle)
    BY DEF Inductive, TypeOK
  <2>2. /\ rows' \in Seq(Sle) /\ Len(rows) \in Nat
        /\ RowsOf(d)' = RowsOf(d) \cup {Len(rows) + 1} /\ rows'[Len(rows) + 1] = y
        /\ \A e \in Receipts \ {d} : RowsOf(e)' = RowsOf(e) /\ \A i \in RowsOf(e) : rows'[i] = rows[i]
    BY <1>3, <1>4, <2>1, Elsewhere
  <2> QED
    BY <1>2, <2>2
<1>6. /\ journal'[d] = <<x>> /\ journal' \in [Receipts -> Seq(Int \ {0})]
      /\ status'[d] \in {"SUBMITTED", "RETURNED"} /\ status' \in [Receipts -> Statuses]
      /\ \A e \in Receipts \ {d} : status'[e] = status[e] /\ journal'[e] = journal[e]
  <2>1. Append(journal[d], x) = <<x>> /\ <<x>> \in Seq(Int \ {0})
    BY <1>1, <1>2
  <2> QED
    BY <1>1, <1>3, <2>1 DEF Inductive, TypeOK, Statuses
<1>7. rec \in Request /\ rec.pc \in {"repost", "derive"} /\ rec.doc = d
  BY <1>1 DEF Request
<1>8. /\ reg'[r] = rec /\ reg' \in [Requests -> {Null} \cup Request]
      /\ \A q \in Requests \ {r} : reg'[q] = reg[q]
  BY <1>3, <1>7 DEF Inductive, TypeOK
<1> HIDE DEF rec, pc
<1>9. Postings'
  <2>1. Single(d)'
    BY <1>4, <1>5, <1>6 DEF Single
  <2>2. Posted(d)'
    BY <1>6, <2>1 DEF Posted, Early
  <2> QED
    BY <1>1, <1>3, <1>5, <1>6, <2>2, Others DEF Postings
<1>10. Knowledge'
  <2> SUFFICES ASSUME NEW q \in Requests, reg'[q] # Null PROVE Knows(reg[q])'
    BY DEF Knowledge
  <2>1. CASE q = r
    BY <1>7, <1>8, <2>1 DEF Knows
  <2>2. CASE q # r /\ reg[q].doc # d
    <3>1. reg'[q] = reg[q] /\ reg[q] # Null
      BY <1>8, <2>2
    <3> QED
      BY <1>3, <1>5, <1>6, <2>2, <3>1, Others
  <2>3. CASE q # r /\ reg[q].doc = d
    <3>1. Knows(reg[q]) /\ reg'[q] = reg[q]
      BY <1>8, <2>3 DEF Inductive, Knowledge
    <3>2. reg[q].pc \notin {"cancel", "cancelling", "reverse"}
      BY <1>2, <2>3, <3>1 DEF Knows
    <3> QED
      BY <1>3, <1>6, <2>3, <3>1, <3>2 DEF Knows
  <2> QED
    BY <2>1, <2>2, <2>3
<1>11. TypeOK'
  <2>1. \A e \in Receipts : (status[e] # "NONE" => qty[e] \in Quantities(e))'
    BY <1>1, <1>3, <1>6 DEF Inductive, TypeOK, Quantities
  <2>2. \A q \in Requests : (At(q, "cancelling") => reg[q].rows \subseteq RowsOf(reg[q].doc))'
    BY <1>10 DEF Knowledge, Knows, At
  <2>3. behind' \in BOOLEAN /\ overtaken' \subseteq Requests
    BY <1>3, <1>7, Overtakes
  <2> QED
    BY <1>3, <1>5, <1>6, <1>8, <2>1, <2>2, <2>3 DEF Inductive, TypeOK
<1>12. Lonely'
  BY <1>3, <1>7, <1>8 DEF Inductive, Lonely, HasRows, At
<1>13. Readings' /\ BinCurrent'
  BY <1>3, <1>7, Overtakes
<1>14. PostedAsWritten'
  BY <1>1, <1>3, <1>6 DEF Inductive, PostedAsWritten
<1> QED
  BY <1>9, <1>10, <1>11, <1>12, <1>13, <1>14 DEF Inductive

(* A cancel that has found rows: they are the receipt's one row, unless    *)
(* another cancel has read them, too.                                      *)
LEMMA WriteCancelInductive ==
    ASSUME Inductive, NEW r \in Requests, WriteCancel(r), reg[r].rows # {}
    PROVE  Inductive'
<1>1. PICK d \in Receipts, own \in SUBSET Nat : d = reg[r].doc /\ own = reg[r].rows
  BY RequestForm DEF WriteCancel, At, Inductive
<1>2. PICK rec : rec = [pc |-> "repost", doc |-> d]
  OBVIOUS
<1>3. PICK k \in own : k = CHOOSE i \in own : TRUE
  BY <1>1
<1>4. PICK y : y = Reversal(k)
  OBVIOUS
<1>5. PICK base : base = [i \in DOMAIN rows |-> IF i \in own THEN [rows[i] EXCEPT !.live = FALSE] ELSE rows[i]]
  OBVIOUS
<1>6. /\ At(r, "cancelling") /\ reg[r] # Null
      /\ rows' = Append(base, y)
      /\ status' = [status EXCEPT ![d] = "CANCELLED"]
      /\ reg' = [reg EXCEPT ![r] = rec] /\ Overtaking
      /\ UNCHANGED <<qty, journal, bin, redrawn, recancelled>>
  BY <1>1, <1>2, <1>3, <1>4, <1>5 DEF WriteCancel, To, Go, At
<1>7. /\ Knows(reg[r]) /\ own \subseteq RowsOf(d) /\ own # {}
      /\ status[d] \in {"SUBMITTED", "CANCELLED"}
      /\ d \notin recancelled => status[d] = "SUBMITTED" /\ own = RowsOf(d)
  BY <1>1, <1>6 DEF Inductive, Knowledge, Knows, At
<1>8. Posted(d) /\ journal[d] # <<>>
  <2>1. Posted(d)
    BY DEF Inductive, Postings
  <2>2. Len(<<>>) = 0
    OBVIOUS
  <2> QED
    BY <1>7, <2>1, <2>2 DEF Posted
<1>9. \A i \in DOMAIN rows : rows[i] \in Sle
  BY DEF Inductive, TypeOK
<1>10. /\ y \in Sle /\ y.doc = d /\ y.qty = -rows[k].qty /\ y.live = TRUE /\ y.reversal = TRUE
  <2>1. PICK x \in Sle : x = rows[k] /\ x.doc = d
    BY <1>7, <1>9 DEF RowsOf
  <2>2. y = [x EXCEPT !.time = x.time + 1, !.qty = -x.qty, !.after = x.after - x.qty,
                      !.live = TRUE, !.reversal = TRUE]
    BY <1>4, <2>1 DEF Reversal
  <2>3. x.time + 1 \in Nat /\ -x.qty \in Int /\ x.after - x.qty \in Int
    BY DEF Sle
  <2> QED
    BY <2>1, <2>2, <2>3 DEF Sle
<1>11. /\ base \in Seq(Sle) /\ DOMAIN base = DOMAIN rows
       /\ \A i \in DOMAIN rows : base[i].doc = rows[i].doc /\ (rows[i].doc # d => base[i] = rows[i])
  <2>1. \A i \in DOMAIN rows : base[i] \in Sle /\ base[i].doc = rows[i].doc
    BY <1>5, <1>9 DEF Sle
  <2>2. Len(rows) \in Nat /\ DOMAIN rows = 1..Len(rows) /\ DOMAIN base = DOMAIN rows
    BY <1>5 DEF Inductive, TypeOK
  <2>3. base \in Seq(Sle)
    BY <1>5, <2>1, <2>2
  <2>4. \A i \in DOMAIN rows : rows[i].doc # d => base[i] = rows[i]
    BY <1>5, <1>7 DEF RowsOf
  <2> QED
    BY <2>1, <2>2, <2>3, <2>4
<1>12. /\ rows' \in Seq(Sle) /\ Len(rows) \in Nat
       /\ RowsOf(d)' = RowsOf(d) \cup {Len(rows) + 1} /\ rows'[Len(rows) + 1] = y
       /\ \A i \in DOMAIN rows : rows'[i] = base[i]
       /\ \A e \in Receipts \ {d} : RowsOf(e)' = RowsOf(e) /\ \A i \in RowsOf(e) : rows'[i] = rows[i]
  <2>1. TypeOK
    BY DEF Inductive
  <2> QED
    BY <1>6, <1>10, <1>11, <2>1, Elsewhere
<1>13. /\ status'[d] = "CANCELLED" /\ status' \in [Receipts -> Statuses]
       /\ \A e \in Receipts \ {d} : status'[e] = status[e] /\ journal'[e] = journal[e]
  BY <1>6 DEF Inductive, TypeOK, Statuses
<1>14. rec \in Request /\ rec.pc = "repost" /\ rec.doc = d
  BY <1>2 DEF Request
<1>15. /\ reg'[r] = rec /\ reg' \in [Requests -> {Null} \cup Request]
       /\ \A q \in Requests \ {r} : reg'[q] = reg[q]
  BY <1>6, <1>14 DEF Inductive, TypeOK
<1>16. Postings'
  <2>1. ASSUME d \notin recancelled PROVE Reversed(d)'
    <3>1. PICK i \in RowsOf(d) : RowsOf(d) = {i} /\ rows[i].qty = journal[d][1]
      BY <1>7, <1>8, <2>1 DEF Posted, Single
    <3>2. k = i /\ own = {i} /\ i \in DOMAIN rows
      BY <1>7, <2>1, <3>1 DEF RowsOf
    <3>3. rows'[i].qty = rows[i].qty /\ rows'[i].live = FALSE
      BY <1>5, <1>9, <1>12, <3>2 DEF Sle
    <3>4. RowsOf(d)' = {i, Len(rows) + 1} /\ journal'[d][1] = journal[d][1]
      BY <1>6, <1>12, <3>1
    <3> QED
      BY <1>10, <1>12, <3>1, <3>2, <3>3, <3>4 DEF Reversed
  <2>2. Posted(d)'
    BY <1>6, <1>8, <1>13, <2>1 DEF Posted, Early
  <2> QED
    BY <1>6, <1>12, <1>13, <2>2, Others DEF Postings
<1>17. Knowledge'
  <2> SUFFICES ASSUME NEW q \in Requests, reg'[q] # Null PROVE Knows(reg[q])'
    BY DEF Knowledge
  <2>1. CASE q = r
    BY <1>14, <1>15, <2>1 DEF Knows
  <2>2. CASE q # r /\ reg[q].doc # d
    <3>1. reg'[q] = reg[q] /\ reg[q] # Null
      BY <1>15, <2>2
    <3> QED
      BY <1>6, <1>12, <1>13, <2>2, <3>1, Others
  <2>3. CASE q # r /\ reg[q].doc = d
    <3>1. Knows(reg[q]) /\ reg'[q] = reg[q] /\ reg[q] # Null
      BY <1>15, <2>3 DEF Inductive, Knowledge
    <3>2. reg[q].pc = "cancelling" /\ reg[q].rows # {} => d \in recancelled
      BY <1>1, <1>6, <1>7, <2>3, <3>1 DEF Inductive, Lonely, HasRows, At
    <3> QED
      BY <1>6, <1>12, <1>13, <2>3, <3>1, <3>2 DEF Knows
  <2> QED
    BY <2>1, <2>2, <2>3
<1>18. TypeOK'
  <2>1. \A e \in Receipts : (status[e] # "NONE" => qty[e] \in Quantities(e))'
    BY <1>6, <1>7, <1>13 DEF Inductive, TypeOK, Quantities
  <2>2. \A q \in Requests : (At(q, "cancelling") => reg[q].rows \subseteq RowsOf(reg[q].doc))'
    BY <1>17 DEF Knowledge, Knows, At
  <2>3. behind' \in BOOLEAN /\ overtaken' \subseteq Requests
    BY <1>6, <1>14, Overtakes
  <2> QED
    BY <1>6, <1>12, <1>13, <1>15, <2>1, <2>2, <2>3 DEF Inductive, TypeOK
<1>19. Lonely'
  BY <1>6, <1>14, <1>15 DEF Inductive, Lonely, HasRows, At
<1>20. Readings' /\ BinCurrent'
  BY <1>6, <1>14, Overtakes
<1>21. PostedAsWritten'
  BY <1>6 DEF Inductive, PostedAsWritten
<1> QED
  BY <1>16, <1>17, <1>18, <1>19, <1>20, <1>21 DEF Inductive

(* A cancel that has found none comes after another and changes nothing.   *)
LEMMA IdleCancelInductive ==
    ASSUME Inductive, NEW r \in Requests, WriteCancel(r), reg[r].rows = {}
    PROVE  Inductive'
<1>1. PICK d \in Receipts : d = reg[r].doc
  BY RequestForm DEF WriteCancel, At, Inductive
<1>2. PICK rec : rec = [pc |-> "reverse", doc |-> d]
  OBVIOUS
<1>3. status[d] = "CANCELLED"
  BY <1>1 DEF WriteCancel, At, Inductive, Knowledge, Knows
<1>4. /\ status' = [status EXCEPT ![d] = "CANCELLED"] /\ rows' = rows
      /\ reg' = [reg EXCEPT ![r] = rec]
      /\ UNCHANGED <<qty, journal, bin, behind, overtaken, redrawn, recancelled>>
  BY <1>1, <1>2 DEF WriteCancel, To, Go, Undisturbed
<1>5. status' = status
  BY <1>3, <1>4 DEF Inductive, TypeOK
<1>6. rec \in Request /\ rec.pc = "reverse" /\ Knows(rec)
  BY <1>2, <1>3 DEF Request, Knows
<1> QED
  BY <1>4, <1>5, <1>6, ReadStep DEF Inductive, TypeOK

(* A journal is reversed only of a cancelled receipt.                      *)
LEMMA ReverseJournalInductive ==
    ASSUME Inductive, NEW r \in Requests, ReverseJournal(r)
    PROVE  Inductive'
<1>1. PICK d \in Receipts : d = reg[r].doc
  BY RequestForm DEF ReverseJournal, At, Inductive
<1>2. PICK s : s = journal[d]
  OBVIOUS
<1>3. /\ reg[r] # Null /\ journal' = [journal EXCEPT ![d] = Append(s, -s[Len(s)])]
      /\ reg' = [reg EXCEPT ![r] = Null]
      /\ UNCHANGED <<status, qty, rows, bin, behind, overtaken, redrawn, recancelled>>
  BY <1>1, <1>2 DEF ReverseJournal, Go, At
<1>4. status[d] = "CANCELLED"
  BY <1>1 DEF ReverseJournal, At, Inductive, Knowledge, Knows
<1>5. s \in Seq(Int \ {0}) /\ s # <<>> /\ Posted(d)
  BY <1>2, <1>4 DEF Inductive, TypeOK, Postings, Posted
<1>6. /\ Append(s, -s[Len(s)]) \in Seq(Int \ {0}) /\ Append(s, -s[Len(s)]) # <<>>
      /\ Append(s, -s[Len(s)])[1] = s[1]
  <2>1. Len(s) \in Nat \ {0} /\ s[Len(s)] \in Int \ {0}
    BY <1>5
  <2>2. Append(s, -s[Len(s)]) \in Seq(Int \ {0}) /\ Len(Append(s, -s[Len(s)])) = Len(s) + 1
    BY <1>5, <2>1
  <2> QED
    BY <1>5, <2>1, <2>2
<1>7. /\ journal' \in [Receipts -> Seq(Int \ {0})]
      /\ journal'[d] # <<>> /\ journal'[d][1] = journal[d][1]
      /\ \A e \in Receipts \ {d} : journal'[e] = journal[e]
  BY <1>2, <1>3, <1>6 DEF Inductive, TypeOK
<1>8. /\ reg'[r] = Null /\ \A q \in Requests \ {r} : reg'[q] = reg[q]
      /\ reg' \in [Requests -> {Null} \cup Request]
  BY <1>3 DEF Inductive, TypeOK
<1>9. Balance(Live)' = Balance(Live) /\ \A e : RowsOf(e)' = RowsOf(e)
  BY <1>3, SameLedger
<1>10. Knowledge'
  BY <1>3, <1>8, <1>9 DEF Inductive, Knowledge, Knows
<1>11. TypeOK'
  <2>1. \A e \in Receipts : (status[e] # "NONE" => qty[e] \in Quantities(e))'
    BY <1>3 DEF Inductive, TypeOK, Quantities
  <2>2. \A q \in Requests : (At(q, "cancelling") => reg[q].rows \subseteq RowsOf(reg[q].doc))'
    BY <1>10 DEF Knowledge, Knows, At
  <2> QED
    BY <1>3, <1>7, <1>8, <2>1, <2>2 DEF Inductive, TypeOK
<1>12. Postings'
  BY <1>3, <1>4, <1>7, <1>9, ZenonT(60) DEF Inductive, Postings, Posted, Early, Single, Reversed
<1>13. Lonely' /\ Readings' /\ BinCurrent'
  BY <1>3, <1>8, <1>9 DEF Inductive, Lonely, Readings, BinCurrent, HasRows, At
<1>14. PostedAsWritten'
  BY <1>3, <1>5, <1>2, <1>7 DEF Inductive, PostedAsWritten
<1> QED
  BY <1>10, <1>11, <1>12, <1>13, <1>14 DEF Inductive

-----------------------------------------------------------------------------
(* Every step preserves the invariant, and so does a stuttering one.       *)
LEMMA NextInductive == Inductive /\ [Next]_vars => Inductive'
<1> SUFFICES ASSUME Inductive, [Next]_vars PROVE Inductive'
  OBVIOUS
<1>1. CASE UNCHANGED vars
  <2>1. /\ UNCHANGED <<status, qty, rows, journal, bin>>
        /\ UNCHANGED <<reg, behind, overtaken, redrawn, recancelled>>
    BY <1>1 DEF vars
  <2>2. Balance(Live)' = Balance(Live) /\ \A d : RowsOf(d)' = RowsOf(d)
    BY <2>1, SameLedger
  <2>3. TypeOK'
    BY <2>1, <2>2 DEF Inductive, TypeOK, Quantities, At
  <2>4. Postings'
    BY <2>1, <2>2 DEF Inductive, Postings, Posted, Early, Single, Reversed
  <2>5. Knowledge'
    BY <2>1, <2>2 DEF Inductive, Knowledge, Knows
  <2>6. Lonely' /\ Readings' /\ BinCurrent' /\ PostedAsWritten'
    BY <2>1, <2>2 DEF Inductive, Lonely, Readings, BinCurrent, PostedAsWritten, HasRows, At
  <2> QED
    BY <2>3, <2>4, <2>5, <2>6 DEF Inductive
<1>2. CASE \E d \in Receipts : \E x \in Quantities(d) : Create(d, x) \/ Update(d, x)
  BY <1>2, CreateInductive, UpdateInductive
<1>3. ASSUME NEW r \in Requests, \E d \in Receipts : ReadForSubmit(r, d) \/ ReadForCancel(r, d)
      PROVE  Inductive'
  BY <1>3, ReadsInductive
<1>4. ASSUME NEW r \in Requests, WriteSubmit(r) \/ DeriveRead(r) \/ DeriveWrite(r)
      PROVE  Inductive'
  BY <1>4, WriteSubmitInductive, DeriveReadInductive, DeriveWriteInductive
<1>5. ASSUME NEW r \in Requests, ReadRows(r) \/ WriteCancel(r) \/ ReverseJournal(r) \/ Abort(r)
      PROVE  Inductive'
  BY <1>5, ReadRowsInductive, WriteCancelInductive, IdleCancelInductive, ReverseJournalInductive,
     AbortInductive
<1> QED
  BY <1>1, <1>2, <1>3, <1>4, <1>5 DEF Next

LEMMA AlwaysInductive == Spec => []Inductive
BY InitInductive, NextInductive, PTL DEF Spec

(* The receipts, the ledger, the bin and the requests keep their types     *)
(* (PurchaseReceiptService).                                               *)
THEOREM TypeCorrect == Spec => []TypeOK
<1>1. Inductive => TypeOK
  BY DEF Inductive
<1> QED
  BY <1>1, AlwaysInductive, PTL

(* Rows and journals of a receipt come with its status (submit 350-398,    *)
(* cancel 443-454), however many requests race.                            *)
THEOREM LedgerCorrect == Spec => []LedgerFollowsStatus
<1>1. Inductive => LedgerFollowsStatus
  <2> SUFFICES ASSUME Inductive, NEW d \in Receipts
               PROVE  /\ status[d] \in {"NONE", "DRAFT"} => RowsOf(d) = {} /\ journal[d] = <<>>
                      /\ status[d] \in {"SUBMITTED", "RETURNED"} =>
                            /\ Len(journal[d]) = 1
                            /\ \E i \in RowsOf(d) : RowsOf(d) = {i} /\ rows[i].live /\ rows[i].qty = journal[d][1]
                      /\ status[d] = "CANCELLED" /\ d \notin recancelled =>
                            /\ journal[d] # <<>>
                            /\ \E i, j \in RowsOf(d) :
                                  /\ RowsOf(d) = {i, j} /\ rows[i].qty = journal[d][1]
                                  /\ rows[j].qty = -rows[i].qty
                                  /\ ~rows[i].live /\ rows[j].live
    BY DEF LedgerFollowsStatus
  <2>1. Posted(d)
    BY DEF Inductive, Postings
  <2> QED
    BY <2>1 DEF Posted, Early, Single, Reversed
<1> QED
  BY <1>1, AlwaysInductive, PTL

(* A bin that is neither due nor lost nor overtaken is the ledger's        *)
(* (receipt_service.py:406), although it is derived without its locks.     *)
THEOREM BinsCorrect == Spec => []BinCurrent
<1>1. Inductive => BinCurrent
  BY DEF Inductive
<1> QED
  BY <1>1, AlwaysInductive, PTL

(* What is posted of a receipt is what it says.                            *)
THEOREM AmountsCorrect == Spec => []PostedAsWritten
<1>1. Inductive => PostedAsWritten
  BY DEF Inductive
<1> QED
  BY <1>1, AlwaysInductive, PTL
=============================================================================
