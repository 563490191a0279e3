-------------------------- MODULE CodeCounterProofs --------------------------
(***************************************************************************)
(* Proofs about document numbering, for every number of transactions,      *)
(* sites, rows and documents.  Inductive is the invariant that carries     *)
(* them: who holds a counter row, what its holder wrote to it, and where   *)
(* the numbers of committed and of uncommitted documents lie.              *)
(***************************************************************************)
EXTENDS CodeCounter, TLAPS

(* A free slot is blank; an uncommitted row belongs to its inserter; only  *)
(* the holder of the lock has a value that is not committed.               *)
RowsOK ==
    \A r \in RowIds :
        /\ rows[r].state = "free" => rows[r] = NoRow
        /\ rows[r].state = "pending" => rows[r].lock \in Txns /\ rows[r].seq = 0
        /\ rows[r].seq <= rows[r].new
        /\ rows[r].lock = NoTxn => rows[r].new = rows[r].seq

SeededOK ==
    \A r \in DOMAIN Seeded : rows[r].state = "live" /\ rows[r].part = Seeded[r]

(* What a transaction's registers say of the rows.                         *)
LockOK(t) ==
    pc[t] = "lock" =>
        /\ \A a \in todo[t] : a.id \in Visible(t, req[t].part)
        /\ chosen[t] \in Visible(t, req[t].part)
        /\ rows[chosen[t]].lock = t \/ \E a \in todo[t] : a.id = chosen[t]

HoldsOK(t) ==
    pc[t] \in {"use", "save"} =>
        chosen[t] \in Visible(t, req[t].part) /\ rows[chosen[t]].lock = t

InsertOK(t) ==
    /\ pc[t] = "insert" => \A r \in DOMAIN Seeded : Seeded[r] # req[t].part
    /\ pc[t] = "reselect" => \E r \in RowIds : rows[r].state = "live" /\ rows[r].part = req[t].part

RegistersOK == \A t \in Txns : LockOK(t) /\ HoldsOK(t) /\ InsertOK(t)

OneRow == \A r, q \in RowIds : SameCounter(r, q) /\ Guarded(rows[r].part) => r = q

(* Committed numbers are at most the committed value of their counter, the *)
(* uncommitted ones at most what the holder of the lock wrote; those that  *)
(* were generated lie above the committed value until then.                *)
Drawn(d) == d.kind = "generate" /\ Guarded(d.part)

CommittedOK ==
    \A d \in docs : Guarded(d.part) =>
        \E r \in RowIds : /\ rows[r].state = "live" /\ rows[r].part = d.part
                          /\ d.code.seq <= rows[r].seq

UncommittedOK ==
    \A t \in Txns : \A d \in mine[t] : Guarded(d.part) =>
        \E r \in RowIds : /\ rows[r].state # "free" /\ rows[r].part = d.part
                          /\ rows[r].lock = t
                          /\ d.kind = "generate" => rows[r].seq < d.code.seq
                          /\ d.code.seq <= rows[r].new

SavingOK ==
    \A t \in Txns : pc[t] = "save" =>
        /\ CodeOf(t).seq <= rows[chosen[t]].new
        /\ req[t].kind = "generate" /\ Guarded(req[t].part) =>
             /\ rows[chosen[t]].seq < rows[chosen[t]].new
             /\ \A d \in mine[t] : Drawn(d) /\ d.part = req[t].part =>
                   d.code.seq < rows[chosen[t]].new

MineUnique ==
    \A t \in Txns : \A d, e \in mine[t] :
        Drawn(d) /\ Drawn(e) /\ d.part = e.part /\ d.code.seq = e.code.seq => d = e

Structure == TypeOK /\ RowsOK /\ SeededOK /\ RegistersOK /\ OneRow
Numbers == CommittedOK /\ UncommittedOK /\ SavingOK /\ MineUnique /\ GeneratedCodesUnique
Inductive == Structure /\ Numbers

-----------------------------------------------------------------------------
LEMMA PartitionType ==
    ASSUME NEW s \in Sites, NEW y \in Years PROVE Partition(s, y) \in Partitions
  BY DEF Partition, PeriodKey, Partitions

LEMMA FormatType ==
    ASSUME NEW y \in Years, NEW n \in Nat PROVE Format(y, n) \in Codes
  BY DEF Format, PeriodKey, Codes

(* A request is recorded whole. *)
LEMMA RequestType ==
    ASSUME TypeOK, NEW t \in Txns, NEW s \in Sites, NEW k \in Kinds, NEW c \in Codes,
           Request(t, s, k, c)
    PROVE  /\ req' \in [Txns -> Requests \cup {Null}]
           /\ req'[t] \in Requests
           /\ req'[t].part = Partition(s, year)
           /\ \A u \in Txns \ {t} : req'[u] = req[u]
  BY PartitionType DEF Request, TypeOK, Requests

LEMMA ReadType ==
    ASSUME TypeOK, NEW t \in Txns, NEW r \in RowIds PROVE Read(t, r) \in Nat
  BY DEF TypeOK, Read, Rows

LEMMA CodeOfType ==
    ASSUME TypeOK, NEW t \in Txns, pc[t] = "save" PROVE CodeOf(t) \in Codes
  <1>1. req[t] \in Requests /\ chosen[t] \in RowIds
    BY DEF TypeOK
  <1>2. rows[chosen[t]].new \in Nat /\ req[t].year \in Years /\ req[t].asked \in Codes
    BY <1>1 DEF TypeOK, Rows, Requests
  <1> QED
    BY <1>2, FormatType DEF CodeOf

LEMMA NoRowType == NoRow \in Rows
  BY DEF NoRow, Row, Rows

LEMMA InitType == Init => TypeOK
  <1> SUFFICES ASSUME Init PROVE TypeOK
    OBVIOUS
  <1>1. rows \in [RowIds -> Rows]
    <2>1. ASSUME NEW r \in RowIds, r \in DOMAIN Seeded PROVE rows[r] \in Rows
      <3>1. rows[r] = [state |-> "live", part |-> Seeded[r], seq |-> 0, new |-> 0, lock |-> NoTxn]
        BY <2>1 DEF Init, Row
      <3> QED
        BY <2>1, <3>1, CounterAssumption DEF Rows
    <2>2. ASSUME NEW r \in RowIds, r \notin DOMAIN Seeded PROVE rows[r] \in Rows
      BY <2>2, NoRowType DEF Init
    <2> QED
      BY <2>1, <2>2 DEF Init
  <1>2. mine \in [Txns -> SUBSET Docs] /\ todo \in [Txns -> SUBSET [id : RowIds, val : Nat]]
    BY DEF Init
  <1>3. req \in [Txns -> Requests \cup {Null}] /\ chosen \in [Txns -> RowIds \cup {Null}]
    BY DEF Init
  <1>4. pc \in [Txns -> Locations]
    BY DEF Init, Locations
  <1>5. year \in Years
    BY CounterAssumption DEF Init, Years
  <1> QED
    BY <1>1, <1>2, <1>3, <1>4, <1>5 DEF Init, TypeOK

(* Every step preserves the type invariant. *)
LEMMA TypeStep == TypeOK /\ [Next]_vars => TypeOK'
  <1> SUFFICES ASSUME TypeOK, [Next]_vars PROVE TypeOK'
    OBVIOUS
  <1> USE CounterAssumption
  <1>1. CASE UNCHANGED vars
    BY <1>1 DEF vars, TypeOK
  <1>2. CASE NextYear
    BY <1>2 DEF NextYear, TypeOK, Years
  <1>3. ASSUME NEW t \in Txns, Step(t) PROVE TypeOK'
    <2>1. CASE BeginGenerate(t)
      <3>1. PICK s \in Sites : Request(t, s, "generate", Format(year, 0))
        BY <2>1 DEF BeginGenerate
      <3>2. "generate" \in Kinds /\ Format(year, 0) \in Codes
        BY <2>1, FormatType DEF BeginGenerate, TypeOK
      <3> QED
        BY <2>1, <3>1, <3>2, RequestType DEF BeginGenerate, TypeOK, Goto, Locations
    <2>2. CASE BeginManual(t)
      <3>1. PICK s \in Sites, n \in Nat, y \in Years : Request(t, s, "manual", Format(y, n + 1))
        <4>1. PICK s \in Sites, y \in Years :
                LET seen == Visible(t, Partition(s, year))
                    cur == IF seen = {} THEN 0 ELSE Read(t, CHOOSE r \in seen : TRUE)
                IN Request(t, s, "manual", Format(y, cur + 1))
          BY <2>2 DEF BeginManual
        <4> DEFINE seen == Visible(t, Partition(s, year))
        <4>2. seen # {} => Read(t, CHOOSE r \in seen : TRUE) \in Nat
          BY ReadType DEF Visible
        <4> QED
          BY <4>1, <4>2
      <3>2. "manual" \in Kinds /\ Format(y, n + 1) \in Codes
        BY <2>2, FormatType DEF BeginManual
      <3> QED
        BY <2>2, <3>1, <3>2, RequestType DEF BeginManual, TypeOK, Goto, Locations
    <2>3. CASE BeginBump(t)
      <3>1. PICK s \in Sites, n \in 1..MaxDocs : Request(t, s, "bump", Format(year, n))
        BY <2>3 DEF BeginBump
      <3>2. "bump" \in Kinds /\ Format(year, n) \in Codes
        BY <2>3, FormatType DEF BeginBump, TypeOK
      <3> QED
        BY <2>3, <3>1, <3>2, RequestType DEF BeginBump, TypeOK, Goto, Locations
    <2>4. CASE SelectRows(t)
      <3> DEFINE seen == {[id |-> r, val |-> Read(t, r)] : r \in Visible(t, req[t].part)}
      <3>1. seen \subseteq [id : RowIds, val : Nat]
        BY ReadType DEF Visible
      <3>2. CASE pc'[t] = "lock"
        BY <2>4, <3>1, <3>2 DEF SelectRows, TypeOK, Goto, Locations
      <3>3. CASE pc'[t] = "insert"
        BY <2>4, <3>3 DEF SelectRows, TypeOK, Goto, Locations
      <3> QED
        BY <2>4, <3>2, <3>3 DEF SelectRows, Goto, TypeOK
    <2>5. CASE LockRow(t)
      <3>1. PICK a \in todo[t] :
              /\ rows' = [rows EXCEPT ![a.id].lock = t, ![a.id].new = Read(t, a.id)]
              /\ todo' = [todo EXCEPT ![t] = @ \ {a}]
              /\ Goto(t, IF todo[t] = {a} THEN "use" ELSE "lock")
        BY <2>5 DEF LockRow
      <3>2. a.id \in RowIds /\ Read(t, a.id) \in Nat
        BY ReadType DEF TypeOK
      <3>3. rows' \in [RowIds -> Rows]
        BY <3>1, <3>2 DEF TypeOK, Rows
      <3> QED
        BY <2>5, <3>1, <3>3 DEF LockRow, TypeOK, Goto, Locations
    <2>6. CASE InsertRow(t)
      <3>1. req[t].part \in Partitions
        BY <2>6 DEF InsertRow, TypeOK, Requests
      <3>2. rows' \in [RowIds -> Rows]
        <4>1. Row("pending", req[t].part, t) \in Rows
          BY <3>1 DEF Row, Rows
        <4> QED
          BY <2>6, <4>1 DEF InsertRow, TypeOK
      <3> QED
        BY <2>6, <3>2 DEF InsertRow, TypeOK, Goto, Locations
    <2>7. CASE UseRow(t)
      <3>1. req[t] \in Requests /\ chosen[t] \in RowIds
        BY <2>7 DEF UseRow, TypeOK
      <3>2. req[t].asked.seq \in Nat /\ rows[chosen[t]].new \in Nat
        BY <3>1 DEF TypeOK, Requests, Codes, Rows
      <3>3. rows' \in [RowIds -> Rows]
        BY <2>7, <3>1, <3>2 DEF UseRow, TypeOK, Rows
      <3> QED
        BY <2>7, <3>3 DEF UseRow, Return, TypeOK, Goto, Locations
    <2>8. CASE SaveDoc(t)
      <3>1. req[t] \in Requests
        BY <2>8 DEF SaveDoc, TypeOK
      <3>2. CodeOf(t) \in Codes
        BY <2>8, CodeOfType DEF SaveDoc
      <3>3. mine' \in [Txns -> SUBSET Docs]
        BY <2>8, <3>1, <3>2 DEF SaveDoc, TypeOK, Docs, Requests
      <3> QED
        BY <2>8, <3>3 DEF SaveDoc, Return, TypeOK, Goto, Locations
    <2>9. CASE Commit(t)
      <3>1. rows' \in [RowIds -> Rows]
        <4>1. ASSUME NEW r \in RowIds PROVE rows'[r] \in Rows
          <5>1. rows[r] \in Rows
            BY DEF TypeOK
          <5>2. [rows[r] EXCEPT !.state = "live", !.seq = rows[r].new, !.lock = NoTxn] \in Rows
            BY <5>1 DEF Rows
          <5> QED
            BY <2>9, <5>1, <5>2 DEF Commit
        <4> QED
          BY <2>9, <4>1 DEF Commit
      <3> QED
        BY <2>9, <3>1 DEF Commit, End, TypeOK, Goto, Locations
    <2>10. CASE Rollback(t)
      <3>1. rows' \in [RowIds -> Rows]
        <4>1. ASSUME NEW r \in RowIds PROVE rows'[r] \in Rows
          <5>1. rows[r] \in Rows
            BY DEF TypeOK
          <5>2. [rows[r] EXCEPT !.new = rows[r].seq, !.lock = NoTxn] \in Rows
            BY <5>1 DEF Rows
          <5> QED
            BY <2>10, <5>1, <5>2, NoRowType DEF Rollback
        <4> QED
          BY <2>10, <4>1 DEF Rollback
      <3> QED
        BY <2>10, <3>1 DEF Rollback, End, TypeOK, Goto, Locations
    <2> QED
      BY <1>3, <2>1, <2>2, <2>3, <2>4, <2>5, <2>6, <2>7, <2>8, <2>9, <2>10 DEF Step
  <1> QED
    BY <1>1, <1>2, <1>3 DEF Next

(* The tables and the registers hold what their columns admit, in every    *)
(* reachable state.                                                        *)
THEOREM TypeCorrect == Spec => []TypeOK
  BY InitType, TypeStep, PTL DEF Spec

-----------------------------------------------------------------------------
(* What becomes of a row that is written.                                  *)
AsLocked(t, r) == [rows[r] EXCEPT !.lock = t, !.new = Read(t, r)]
AsUsed(r, n) == [rows[r] EXCEPT !.new = n]
AsCommitted(r) == [rows[r] EXCEPT !.state = "live", !.seq = rows[r].new, !.lock = NoTxn]
AsRestored(r) == [rows[r] EXCEPT !.new = rows[r].seq, !.lock = NoTxn]

(* The row slots a step of t may write: those nobody holds and its own.    *)
LEMMA WrittenRow ==
    ASSUME Structure, NEW t \in Txns, Step(t), NEW r \in RowIds
    PROVE  \/ rows'[r] = rows[r]
           \/ /\ LockRow(t) /\ rows[r].lock \in {NoTxn, t} /\ r \in Visible(t, req[t].part)
              /\ rows'[r] = AsLocked(t, r)
           \/ /\ InsertRow(t) /\ rows[r] = NoRow /\ rows'[r] = Row("pending", req[t].part, t)
              /\ chosen'[t] = r /\ pc'[t] = "use"
           \/ /\ UseRow(t) /\ rows[r].lock = t /\ r = chosen[t]
              /\ \E n \in Nat : n >= rows[r].new /\ rows'[r] = AsUsed(r, n)
           \/ /\ Commit(t) /\ rows[r].lock = t
              /\ rows'[r] = AsCommitted(r)
           \/ /\ Rollback(t) /\ rows[r].lock = t /\ rows[r].state = "pending"
              /\ rows'[r] = NoRow
           \/ /\ Rollback(t) /\ rows[r].lock = t /\ rows[r].state # "pending"
              /\ rows'[r] = AsRestored(r)
  <1> USE DEF Structure
  <1>1. CASE BeginGenerate(t) \/ BeginManual(t) \/ BeginBump(t) \/ SelectRows(t) \/ SaveDoc(t)
    BY <1>1 DEF BeginGenerate, BeginManual, BeginBump, SelectRows, SaveDoc
  <1>2. CASE LockRow(t)
    <2>1. PICK a \in todo[t] :
            /\ rows[a.id].lock \in {NoTxn, t}
            /\ rows' = [rows EXCEPT ![a.id].lock = t, ![a.id].new = Read(t, a.id)]
      BY <1>2 DEF LockRow
    <2>2. a.id \in Visible(t, req[t].part)
      BY <1>2 DEF LockRow, RegistersOK, LockOK
    <2> QED
      BY <1>2, <2>1, <2>2 DEF AsLocked, TypeOK, Rows
  <1>3. CASE InsertRow(t)
    <2>1. CASE rows' = rows
      BY <2>1
    <2>2. CASE rows' # rows
      <3>1. PICK q \in RowIds : /\ \A k \in RowIds : k >= q => rows[k].state = "free"
                                /\ rows' = [rows EXCEPT ![q] = Row("pending", req[t].part, t)]
                                /\ chosen' = [chosen EXCEPT ![t] = q]
                                /\ Goto(t, "use")
        BY <1>3, <2>2 DEF InsertRow
      <3>2. rows[q] = NoRow
        BY <3>1 DEF RowsOK, RowIds
      <3> QED
        BY <1>3, <3>1, <3>2 DEF TypeOK, Goto
    <2> QED
      BY <2>1, <2>2
  <1>4. CASE UseRow(t)
    <2>1. chosen[t] \in RowIds /\ rows[chosen[t]].lock = t /\ req[t] \in Requests
      BY <1>4 DEF UseRow, RegistersOK, HoldsOK, TypeOK
    <2>2. rows[chosen[t]].new \in Nat /\ req[t].asked.seq \in Nat
      BY <2>1 DEF TypeOK, Rows, Requests, Codes
    <2> DEFINE last == rows[chosen[t]].new
               n == IF req[t].kind = "generate" THEN last + 1 ELSE req[t].asked.seq
               m == IF last < n THEN n ELSE last
    <2>3. m \in Nat /\ m >= last
      BY <2>2
    <2>4. rows' = [rows EXCEPT ![chosen[t]].new = m]
      BY <1>4 DEF UseRow
    <2> HIDE DEF m
    <2>5. rows'[r] = IF r = chosen[t] THEN AsUsed(r, m) ELSE rows[r]
      BY <2>1, <2>4 DEF AsUsed, TypeOK
    <2> QED
      BY <1>4, <2>1, <2>3, <2>5
  <1>5. CASE Commit(t)
    BY <1>5 DEF Commit, AsCommitted
  <1>6. CASE Rollback(t)
    BY <1>6 DEF Rollback, AsRestored
  <1> QED
    BY <1>1, <1>2, <1>3, <1>4, <1>5, <1>6 DEF Step

(* What holds of a row after any step: committed rows stay, other holders' *)
(* rows are untouched, committed values only grow.                         *)
LEMMA RowChange ==
    ASSUME Structure, NEW t \in Txns, Step(t), NEW r \in RowIds
    PROVE  /\ rows[r].state = "live" =>
                  rows'[r].state = "live" /\ rows'[r].part = rows[r].part
           /\ rows[r].lock \in Txns \ {t} => rows'[r] = rows[r]
           /\ rows'[r].lock \in Txns \ {t} => rows'[r] = rows[r]
           /\ rows'[r].seq >= rows[r].seq
           /\ rows'[r].state # "free" /\ ~InsertRow(t) =>
                  rows[r].state # "free" /\ rows'[r].part = rows[r].part
  <1>1. rows[r] \in Rows /\ NoTxn \notin Txns
    BY CounterAssumption DEF Structure, TypeOK
  <1>2. /\ rows[r].state = "pending" => rows[r].seq = 0
        /\ rows[r].state = "free" => rows[r] = NoRow
        /\ rows[r].seq <= rows[r].new
    BY DEF Structure, RowsOK
  <1>3. CASE rows'[r] = rows[r]
    BY <1>1, <1>3 DEF Rows
  <1>4. CASE /\ rows[r].lock \in {NoTxn, t} /\ r \in Visible(t, req[t].part)
             /\ rows'[r] = AsLocked(t, r)
    BY <1>1, <1>4 DEF AsLocked, Rows, Visible, Sees
  <1>5. CASE /\ InsertRow(t) /\ rows[r] = NoRow /\ rows'[r] = Row("pending", req[t].part, t)
    BY <1>1, <1>5 DEF NoRow, Row
  <1>6. CASE /\ rows[r].lock = t
             /\ \E n \in Nat : n >= rows[r].new /\ rows'[r] = AsUsed(r, n)
    BY <1>1, <1>2, <1>6 DEF AsUsed, Rows, NoRow, Row
  <1>7. CASE /\ rows[r].lock = t
             /\ rows'[r] = AsCommitted(r)
    BY <1>1, <1>2, <1>7 DEF AsCommitted, Rows, NoRow, Row
  <1>8. CASE rows[r].lock = t /\ rows[r].state = "pending" /\ rows'[r] = NoRow
    BY <1>1, <1>2, <1>8 DEF Rows, NoRow, Row
  <1>9. CASE /\ rows[r].lock = t /\ rows[r].state # "pending"
             /\ rows'[r] = AsRestored(r)
    BY <1>1, <1>2, <1>9 DEF AsRestored, Rows, NoRow, Row
  <1> QED
    BY <1>3, <1>4, <1>5, <1>6, <1>7, <1>8, <1>9, WrittenRow

(* The rows a transaction can see stay visible to it until it ends.        *)
LEMMA VisibleStays ==
    ASSUME Structure, NEW t \in Txns, Step(t), NEW u \in Txns, NEW r \in RowIds, Sees(u, r),
           u # t \/ ~(Commit(t) \/ Rollback(t))
    PROVE  /\ Sees(u, r)' /\ rows'[r].part = rows[r].part
           /\ rows[r].lock = u => rows'[r].lock = u
  <1>1. rows[r] \in Rows
    BY DEF Structure, TypeOK
  <1>2. CASE u # t
    BY <1>2, RowChange DEF Sees
  <1>3. CASE u = t /\ ~(Commit(t) \/ Rollback(t))
    <2>1. ~(rows[r] = NoRow)
      BY DEF Sees, NoRow, Row
    <2>2. \/ rows'[r] = rows[r]
          \/ rows'[r] = AsLocked(t, r)
          \/ \E n \in Nat : rows'[r] = AsUsed(r, n)
      BY <1>3, <2>1, WrittenRow
    <2>3. rows'[r].state = rows[r].state /\ rows'[r].part = rows[r].part
          /\ (rows[r].lock = t => rows'[r].lock = t)
      BY <1>1, <2>2 DEF AsLocked, AsUsed, Rows
    <2> QED
      BY <1>3, <2>3 DEF Sees
  <1> QED
    BY <1>2, <1>3

(* No step lowers a committed counter. *)
LEMMA NeverRewinds == Structure /\ [Next]_vars => \A r \in RowIds : rows'[r].seq >= rows[r].seq
  <1> SUFFICES ASSUME Structure, [Next]_vars, NEW r \in RowIds PROVE rows'[r].seq >= rows[r].seq
    OBVIOUS
  <1>1. rows[r].seq \in Nat
    BY DEF Structure, TypeOK, Rows
  <1>2. CASE UNCHANGED vars \/ NextYear
    BY <1>1, <1>2 DEF vars, NextYear
  <1> QED
    BY <1>2, RowChange DEF Next

-----------------------------------------------------------------------------
LEMMA RowsOKStep ==
    ASSUME Structure, NEW t \in Txns, Step(t) PROVE RowsOK'
  <1> SUFFICES ASSUME NEW r \in RowIds
               PROVE  /\ rows'[r].state = "free" => rows'[r] = NoRow
                      /\ rows'[r].state = "pending" => rows'[r].lock \in Txns /\ rows'[r].seq = 0
                      /\ rows'[r].seq <= rows'[r].new
                      /\ rows'[r].lock = NoTxn => rows'[r].new = rows'[r].seq
    BY DEF RowsOK
  <1>1. rows[r] \in Rows /\ NoTxn \notin Txns
    BY CounterAssumption DEF Structure, TypeOK
  <1>2. /\ rows[r].state = "free" => rows[r] = NoRow
        /\ rows[r].state = "pending" => rows[r].lock \in Txns /\ rows[r].seq = 0
        /\ rows[r].seq <= rows[r].new
        /\ rows[r].lock = NoTxn => rows[r].new = rows[r].seq
    BY DEF Structure, RowsOK
  <1>3. CASE rows'[r] = rows[r]
    BY <1>1, <1>2, <1>3
  <1>4. CASE r \in Visible(t, req[t].part) /\ rows'[r] = AsLocked(t, r) /\ rows[r].lock \in {NoTxn, t}
    <2>1. rows[r].state # "free" /\ Read(t, r) \in Nat /\ Read(t, r) >= rows[r].seq
      BY <1>1, <1>2, <1>4 DEF Visible, Sees, Read, Rows
    <2> QED
      BY <1>1, <1>2, <1>4, <2>1 DEF AsLocked, Rows
  <1>5. CASE rows'[r] = Row("pending", req[t].part, t)
    BY <1>1, <1>5 DEF Row
  <1>6. CASE rows[r].lock = t /\ \E n \in Nat : n >= rows[r].new /\ rows'[r] = AsUsed(r, n)
    BY <1>1, <1>2, <1>6 DEF AsUsed, Rows, NoRow, Row
  <1>7. CASE rows[r].lock = t /\ rows'[r] = AsCommitted(r)
    BY <1>1, <1>2, <1>7 DEF AsCommitted, Rows
  <1>8. CASE rows'[r] = NoRow
    BY <1>1, <1>8 DEF NoRow, Row
  <1>9. CASE rows[r].lock = t /\ rows[r].state # "pending" /\ rows'[r] = AsRestored(r)
    BY <1>1, <1>2, <1>9 DEF AsRestored, Rows, NoRow, Row
  <1> QED
    BY <1>3, <1>4, <1>5, <1>6, <1>7, <1>8, <1>9, WrittenRow

LEMMA SeededOKStep ==
    ASSUME Structure, NEW t \in Txns, Step(t) PROVE SeededOK'
  BY RowChange, CounterAssumption DEF SeededOK, Structure

(* The other transactions' registers keep their meaning.                   *)
LEMMA OthersKeep ==
    ASSUME Structure, NEW t \in Txns, Step(t), NEW u \in Txns \ {t}
    PROVE  /\ pc'[u] = pc[u] /\ req'[u] = req[u] /\ todo'[u] = todo[u]
           /\ chosen'[u] = chosen[u] /\ mine'[u] = mine[u]
  <1> USE DEF Structure, TypeOK, Goto
  <1>1. CASE BeginGenerate(t) \/ BeginManual(t) \/ BeginBump(t)
    BY <1>1 DEF BeginGenerate, BeginManual, BeginBump, Request
  <1>2. CASE SelectRows(t) \/ LockRow(t) \/ InsertRow(t)
    BY <1>2 DEF SelectRows, LockRow, InsertRow
  <1>3. CASE UseRow(t) \/ SaveDoc(t)
    BY <1>3 DEF UseRow, SaveDoc, Return
  <1>4. CASE Commit(t) \/ Rollback(t)
    BY <1>4 DEF Commit, Rollback, End
  <1> QED
    BY <1>1, <1>2, <1>3, <1>4 DEF Step

LEMMA OtherRegisters ==
    ASSUME Structure, NEW t \in Txns, Step(t), NEW u \in Txns \ {t}
    PROVE  LockOK(u)' /\ HoldsOK(u)' /\ InsertOK(u)'
  <1>1. LockOK(u) /\ HoldsOK(u) /\ InsertOK(u)
    BY DEF Structure, RegistersOK
  <1>2. /\ pc'[u] = pc[u] /\ req'[u] = req[u] /\ todo'[u] = todo[u] /\ chosen'[u] = chosen[u]
    BY OthersKeep
  <1>3. \A r \in RowIds : Sees(u, r) =>
          /\ Sees(u, r)' /\ rows'[r].part = rows[r].part
          /\ rows[r].lock = u => rows'[r].lock = u
    BY VisibleStays
  <1>4. \A r \in Visible(u, req[u].part) :
          /\ r \in {q \in RowIds : rows'[q].part = req'[u].part /\ Sees(u, q)'}
          /\ rows[r].lock = u => rows'[r].lock = u
    BY <1>2, <1>3 DEF Visible
  <1>5. LockOK(u)'
    BY <1>1, <1>2, <1>4 DEF LockOK, Visible
  <1>6. HoldsOK(u)'
    BY <1>1, <1>2, <1>4 DEF HoldsOK, Visible
  <1>7. InsertOK(u)'
    BY <1>1, <1>2, RowChange DEF InsertOK
  <1> QED
    BY <1>5, <1>6, <1>7

(* The registers of the transaction that moved. *)
LEMMA OwnRegisters ==
    ASSUME Structure, TypeOK', NEW t \in Txns, Step(t)
    PROVE  LockOK(t)' /\ HoldsOK(t)' /\ InsertOK(t)'
  <1> USE DEF LockOK, HoldsOK, InsertOK
  <1>1. pc \in [Txns -> Locations] /\ LockOK(t) /\ HoldsOK(t) /\ InsertOK(t) /\ TypeOK
    BY DEF Structure, RegistersOK, TypeOK
  <1>2. CASE pc'[t] \in {"idle", "open", "select"}
    BY <1>2
  <1>3. CASE SelectRows(t)
    <2>1. rows' = rows /\ req' = req
      BY <1>3 DEF SelectRows
    <2>2. CASE pc'[t] = "lock"
      <3> DEFINE seen == {[id |-> r, val |-> Read(t, r)] : r \in Visible(t, req[t].part)}
      <3>1. PICK a \in seen : /\ chosen' = [chosen EXCEPT ![t] = a.id]
                              /\ todo' = [todo EXCEPT ![t] = seen]
        BY <1>1, <1>3, <2>2 DEF SelectRows, Goto
      <3>2. \A b \in seen : b.id \in Visible(t, req[t].part)
        OBVIOUS
      <3>3. todo'[t] = seen /\ chosen'[t] = a.id
        BY <1>1, <3>1 DEF TypeOK
      <3> QED
        BY <2>1, <2>2, <3>2, <3>3 DEF Visible, Sees
    <2>3. CASE pc'[t] = "insert"
      <3>1. Visible(t, req[t].part) = {}
        <4>1. {[id |-> r, val |-> Read(t, r)] : r \in Visible(t, req[t].part)} = {}
          BY <1>1, <1>3, <2>3 DEF SelectRows, Goto
        <4> QED
          BY <4>1
      <3>2. \A r \in DOMAIN Seeded : Seeded[r] # req[t].part
        BY <3>1, CounterAssumption DEF Structure, SeededOK, Visible, Sees
      <3> QED
        BY <2>1, <2>3, <3>2
    <2> QED
      BY <1>1, <1>3, <2>2, <2>3 DEF SelectRows, Goto
  <1>4. CASE LockRow(t)
    <2>1. PICK a \in todo[t] :
            /\ rows[a.id].lock \in {NoTxn, t}
            /\ rows' = [rows EXCEPT ![a.id].lock = t, ![a.id].new = Read(t, a.id)]
            /\ todo' = [todo EXCEPT ![t] = @ \ {a}]
            /\ Goto(t, IF todo[t] = {a} THEN "use" ELSE "lock")
            /\ pc[t] = "lock" /\ UNCHANGED <<req, chosen>>
      BY <1>4 DEF LockRow
    <2>2. todo'[t] = todo[t] \ {a} /\ pc'[t] = IF todo[t] = {a} THEN "use" ELSE "lock"
      BY <1>1, <2>1 DEF TypeOK, Goto
    <2>3. a.id \in RowIds /\ rows'[a.id].lock = t
      BY <1>1, <2>1 DEF TypeOK, Rows
    <2>4. \A r \in Visible(t, req[t].part) :
            /\ r \in {q \in RowIds : rows'[q].part = req'[t].part /\ Sees(t, q)'}
            /\ rows[r].lock = t => rows'[r].lock = t
      <3>1. ~(Commit(t) \/ Rollback(t))
        BY <2>1, <2>2, <1>1 DEF Commit, Rollback, End, Goto, TypeOK
      <3>2. \A r \in RowIds : Sees(t, r) =>
              /\ Sees(t, r)' /\ rows'[r].part = rows[r].part
              /\ rows[r].lock = t => rows'[r].lock = t
        BY <3>1, VisibleStays
      <3>3. req' = req
        BY <2>1
      <3> QED
        BY <3>2, <3>3 DEF Visible
    <2>5. \/ rows'[chosen[t]].lock = t
          \/ \E b \in todo[t] \ {a} : b.id = chosen[t]
      BY <1>1, <2>1, <2>3, <2>4
    <2> QED
      BY <1>1, <2>1, <2>2, <2>4, <2>5 DEF Visible
  <1>5. CASE InsertRow(t)
    <2>1. CASE pc'[t] = "use"
      <3>1. PICK q \in RowIds : /\ rows' = [rows EXCEPT ![q] = Row("pending", req[t].part, t)]
                                /\ chosen' = [chosen EXCEPT ![t] = q]
                                /\ req' = req
        BY <1>1, <1>5, <2>1 DEF InsertRow, Goto
      <3>2. rows'[q] = Row("pending", req[t].part, t) /\ chosen'[t] = q
        BY <1>1, <3>1 DEF TypeOK
      <3> QED
        BY <2>1, <3>1, <3>2 DEF Visible, Sees, Row
    <2>2. CASE pc'[t] = "reselect"
      BY <1>1, <1>5, <2>2 DEF InsertRow, Goto
    <2> QED
      BY <1>1, <1>5, <2>1, <2>2 DEF InsertRow, Goto
  <1>6. CASE UseRow(t) /\ pc'[t] = "save"
    <2>1. pc[t] = "use" /\ req' = req /\ chosen' = chosen
      BY <1>1, <1>6 DEF UseRow, Return, Goto
    <2>2. ~(Commit(t) \/ Rollback(t))
      BY <1>1, <1>6 DEF Commit, Rollback, End, Goto
    <2> QED
      BY <1>1, <1>6, <2>1, <2>2, VisibleStays DEF Visible
  <1> QED
    <2>1. CASE BeginGenerate(t) \/ BeginManual(t) \/ BeginBump(t)
      BY <1>1, <1>2, <2>1 DEF BeginGenerate, BeginManual, BeginBump, Goto
    <2>2. CASE UseRow(t)
      BY <1>1, <1>2, <1>6, <2>2 DEF UseRow, Return, Goto
    <2>3. CASE SaveDoc(t) \/ Commit(t) \/ Rollback(t)
      BY <1>1, <1>2, <2>3 DEF SaveDoc, Commit, Rollback, Return, End, Goto
    <2> QED
      BY <1>3, <1>4, <1>5, <2>1, <2>2, <2>3 DEF Step

(* A guarded partition gets a row only when it has none.                   *)
LEMMA OneRowStep ==
    ASSUME Structure, NEW t \in Txns, Step(t) PROVE OneRow'
  <1> SUFFICES ASSUME NEW r \in RowIds, NEW q \in RowIds,
                      SameCounter(r, q)', Guarded(rows'[r].part)
               PROVE  r = q
    BY DEF OneRow, Guarded, Enforced
  <1>1. OneRow
    BY DEF Structure
  <1>2. CASE ~InsertRow(t)
    BY <1>1, <1>2, RowChange DEF OneRow, SameCounter
  <1>3. CASE InsertRow(t)
    <2>1. CASE rows' = rows
      BY <1>1, <2>1 DEF OneRow, SameCounter
    <2>2. CASE rows' # rows
      <3>1. PICK k \in RowIds : /\ rows' = [rows EXCEPT ![k] = Row("pending", req[t].part, t)]
                                /\ Enforced(req[t].part) =>
                                     \A j \in RowIds : rows[j].state # "free" =>
                                                         rows[j].part # req[t].part
        BY <1>3, <2>2 DEF InsertRow
      <3>2. \A j \in DOMAIN Seeded : Seeded[j] # req[t].part
        BY <1>3 DEF Structure, RegistersOK, InsertOK, InsertRow
      <3>3. /\ rows'[k] = Row("pending", req[t].part, t)
            /\ \A j \in RowIds \ {k} : rows'[j] = rows[j]
        BY <3>1 DEF Structure, TypeOK
      <3>4. CASE r # k /\ q # k
        BY <1>1, <3>3, <3>4 DEF OneRow, SameCounter
      <3>5. CASE r = k \/ q = k
        <4>1. rows'[r].part = req[t].part /\ rows'[q].part = req[t].part
          BY <3>3, <3>5 DEF SameCounter, Row
        <4>2. Enforced(req[t].part)
          BY <3>2, <4>1 DEF Guarded
        <4> QED
          BY <3>1, <3>3, <4>1, <4>2 DEF SameCounter
      <3> QED
        BY <3>4, <3>5
    <2> QED
      BY <2>1, <2>2
  <1> QED
    BY <1>2, <1>3

LEMMA StructureInit == Init => Structure
  <1> SUFFICES ASSUME Init PROVE Structure
    OBVIOUS
  <1>1. \A r \in RowIds : rows[r] = IF r \in DOMAIN Seeded THEN Row("live", Seeded[r], NoTxn)
                                    ELSE NoRow
    BY DEF Init
  <1>2. ASSUME NEW r \in RowIds
        PROVE  /\ r \in DOMAIN Seeded => rows[r].state = "live" /\ rows[r].part = Seeded[r]
               /\ r \notin DOMAIN Seeded => rows[r] = NoRow /\ rows[r].state = "free"
               /\ rows[r].lock = NoTxn /\ rows[r].seq = 0 /\ rows[r].new = 0
    <2>1. CASE r \in DOMAIN Seeded
      <3>1. rows[r] = Row("live", Seeded[r], NoTxn)
        BY <1>1, <2>1
      <3> QED
        BY <2>1, <3>1 DEF Row
    <2>2. CASE r \notin DOMAIN Seeded
      <3>1. rows[r] = NoRow
        BY <1>1, <2>2
      <3> QED
        BY <2>2, <3>1 DEF NoRow, Row
    <2> QED
      BY <2>1, <2>2
  <1>5. RowsOK
    BY <1>2 DEF RowsOK
  <1>6. SeededOK
    BY <1>2, CounterAssumption DEF SeededOK
  <1>3. RegistersOK
    BY DEF Init, RegistersOK, LockOK, HoldsOK, InsertOK
  <1>4. OneRow
    BY <1>2, CounterAssumption DEF OneRow, SameCounter
  <1> QED
    BY <1>3, <1>4, <1>5, <1>6, InitType DEF Structure

LEMMA StructureStep == Structure /\ [Next]_vars => Structure'
  <1> SUFFICES ASSUME Structure, [Next]_vars PROVE Structure'
    OBVIOUS
  <1>1. TypeOK'
    BY TypeStep DEF Structure
  <1>2. CASE UNCHANGED vars \/ NextYear
    <2>1. UNCHANGED <<rows, pc, req, todo, chosen>>
      BY <1>2 DEF vars, NextYear
    <2> QED
      BY <1>1, <2>1 DEF Structure, RowsOK, SeededOK, RegistersOK, LockOK, HoldsOK, InsertOK,
                        Visible, Sees, OneRow, SameCounter, Guarded, Enforced
  <1>3. ASSUME NEW t \in Txns, Step(t) PROVE Structure'
    <2>1. RowsOK' /\ SeededOK' /\ OneRow'
      BY <1>3, RowsOKStep, SeededOKStep, OneRowStep
    <2>2. RegistersOK'
      BY <1>1, <1>3, OwnRegisters, OtherRegisters DEF RegistersOK
    <2> QED
      BY <1>1, <2>1, <2>2 DEF Structure
  <1> QED
    BY <1>2, <1>3 DEF Next

(* One counter row per guarded partition, whoever creates it and however   *)
(* many race to; and a creator that lost finds the winner's row.           *)
THEOREM GuardedPartitionsHaveOneRow == Spec => []OneRowPerPartition
  <1>1. Structure => OneRowPerPartition
    BY DEF Structure, OneRow, OneRowPerPartition, RegistersOK, InsertOK, Visible, Sees
  <1> QED
    BY <1>1, StructureInit, StructureStep, PTL DEF Spec

(* Committed counters only grow, whatever mixture of generated, typed and  *)
(* bumped codes runs concurrently.                                         *)
THEOREM CountersNeverRewind == Spec => CounterNeverRewinds
  <1>1. Structure /\ [Next]_vars => [\A r \in RowIds : rows'[r].seq >= rows[r].seq]_vars
    BY NeverRewinds
  <1> QED
    BY <1>1, StructureInit, StructureStep, PTL DEF Spec, CounterNeverRewinds

-----------------------------------------------------------------------------
(* A step that does not end the transaction leaves its locked rows locked, *)
(* their committed value alone and their own value no smaller.             *)
LEMMA LockedRowGrows ==
    ASSUME Structure, NEW t \in Txns, Step(t), ~(Commit(t) \/ Rollback(t)),
           NEW r \in RowIds, rows[r].lock = t, rows[r].state # "free"
    PROVE  /\ rows'[r].lock = t /\ rows'[r].state # "free" /\ rows'[r].part = rows[r].part
           /\ rows'[r].seq = rows[r].seq /\ rows'[r].new >= rows[r].new
  <1>1. rows[r] \in Rows /\ rows[r] # NoRow
    BY DEF Structure, TypeOK, NoRow, Row
  <1>2. \/ rows'[r] = rows[r]
        \/ rows'[r] = AsLocked(t, r)
        \/ \E n \in Nat : n >= rows[r].new /\ rows'[r] = AsUsed(r, n)
    BY <1>1, WrittenRow
  <1>3. rows[r].new \in Nat /\ rows[r].seq \in Nat
    BY <1>1 DEF Rows
  <1>4. CASE rows'[r] = rows[r]
    BY <1>3, <1>4
  <1>5. CASE rows'[r] = AsLocked(t, r)
    <2>1. rows'[r] = [rows[r] EXCEPT !.lock = t, !.new = rows[r].new]
      BY <1>5 DEF AsLocked, Read
    <2> QED
      BY <1>1, <1>3, <2>1 DEF Rows
  <1>6. CASE \E n \in Nat : n >= rows[r].new /\ rows'[r] = AsUsed(r, n)
    <2>1. PICK n \in Nat : n >= rows[r].new /\ rows'[r] = [rows[r] EXCEPT !.new = n]
      BY <1>6 DEF AsUsed
    <2> QED
      BY <1>1, <1>3, <2>1 DEF Rows
  <1> QED
    BY <1>2, <1>4, <1>5, <1>6

LEMMA CommittedStep ==
    ASSUME Structure, Numbers, NEW t \in Txns, Step(t) PROVE CommittedOK'
  <1> SUFFICES ASSUME NEW d \in docs', Guarded(d.part)
               PROVE  \E r \in RowIds : /\ rows'[r].state = "live" /\ rows'[r].part = d.part
                                        /\ d.code.seq <= rows'[r].seq
    BY DEF CommittedOK, Guarded, Enforced
  <1>1. docs' \subseteq Docs
    BY TypeStep DEF Structure, TypeOK, Next
  <1>2. d.code.seq \in Nat
    BY <1>1 DEF Docs, Codes
  <1>3. \A r \in RowIds : rows[r] \in Rows
    BY DEF Structure, TypeOK
  <1>4. CASE d \in docs
    <2>1. PICK r \in RowIds : /\ rows[r].state = "live" /\ rows[r].part = d.part
                              /\ d.code.seq <= rows[r].seq
      BY <1>4 DEF Numbers, CommittedOK
    <2>2. /\ rows'[r].state = "live" /\ rows'[r].part = d.part /\ rows'[r].seq >= rows[r].seq
      BY <2>1, RowChange
    <2>3. rows[r].seq \in Nat /\ rows'[r].seq \in Nat
      BY <1>3, TypeStep DEF Structure, TypeOK, Rows, Next
    <2> QED
      BY <1>2, <2>1, <2>2, <2>3
  <1>5. CASE d \notin docs
    <2>1. Commit(t) /\ d \in mine[t]
      <3>1. ~Commit(t) => docs' = docs
        BY DEF Step, BeginGenerate, BeginManual, BeginBump, SelectRows, LockRow, InsertRow,
               UseRow, SaveDoc, Rollback
      <3> QED
        BY <1>5, <3>1 DEF Commit
    <2>2. PICK r \in RowIds : /\ rows[r].part = d.part /\ rows[r].lock = t
                              /\ d.code.seq <= rows[r].new
      BY <2>1 DEF Numbers, UncommittedOK
    <2>3. rows'[r] = AsCommitted(r)
      BY <2>1, <2>2 DEF Commit, AsCommitted
    <2> QED
      BY <1>3, <2>2, <2>3 DEF AsCommitted, Rows
  <1> QED
    BY <1>4, <1>5

LEMMA UncommittedStep ==
    ASSUME Structure, Numbers, NEW t \in Txns, Step(t) PROVE UncommittedOK'
  <1> SUFFICES ASSUME NEW u \in Txns, NEW d \in mine'[u], Guarded(d.part)
               PROVE  \E r \in RowIds : /\ rows'[r].state # "free" /\ rows'[r].part = d.part
                                        /\ rows'[r].lock = u
                                        /\ d.kind = "generate" => rows'[r].seq < d.code.seq
                                        /\ d.code.seq <= rows'[r].new
    BY DEF UncommittedOK, Guarded, Enforced
  <1>0. TypeOK' /\ TypeOK
    BY TypeStep DEF Structure, Next
  <1>1. /\ \A r \in RowIds : rows'[r].new \in Nat /\ rows[r].new \in Nat
        /\ d.code.seq \in Nat
    BY <1>0 DEF TypeOK, Rows, Docs, Codes
  <1>2. CASE d \in mine[u]
    <2>1. PICK r \in RowIds : /\ rows[r].state # "free" /\ rows[r].part = d.part
                              /\ rows[r].lock = u
                              /\ d.kind = "generate" => rows[r].seq < d.code.seq
                              /\ d.code.seq <= rows[r].new
      BY <1>2 DEF Numbers, UncommittedOK
    <2>2. CASE u # t
      BY <2>1, <2>2, RowChange
    <2>3. CASE u = t
      <3>1. ~(Commit(t) \/ Rollback(t))
        BY <1>0, <2>3 DEF Commit, Rollback, End, TypeOK
      <3> QED
        BY <1>1, <2>1, <2>3, <3>1, LockedRowGrows
    <2> QED
      BY <2>2, <2>3
  <1>3. CASE d \notin mine[u]
    <2>1. u = t
      BY <1>3, OthersKeep
    <2>2. SaveDoc(t)
      BY <1>0, <1>3, <2>1 DEF Step, BeginGenerate, BeginManual, BeginBump, SelectRows, LockRow,
                     InsertRow, UseRow, Commit, Rollback, End, TypeOK
    <2>3. /\ d.part = req[t].part /\ d.kind = req[t].kind /\ d.code = CodeOf(t)
          /\ rows' = rows /\ pc[t] = "save"
      BY <1>0, <1>3, <2>1, <2>2 DEF SaveDoc, TypeOK
    <2>4. d.code.seq <= rows[chosen[t]].new
      BY <2>3 DEF Numbers, SavingOK
    <2>6. d.kind = "generate" => rows[chosen[t]].seq < d.code.seq
      <3>1. d.kind = "generate" => rows[chosen[t]].seq < rows[chosen[t]].new
        BY <2>3 DEF Numbers, SavingOK
      <3>2. d.kind = "generate" => d.code.seq = rows[chosen[t]].new
        BY <2>3 DEF CodeOf, Format
      <3> QED
        BY <3>1, <3>2
    <2>5. /\ chosen[t] \in Visible(t, req[t].part) /\ rows[chosen[t]].lock = t
      BY <2>3 DEF Structure, RegistersOK, HoldsOK
    <2> QED
      BY <1>1, <2>1, <2>3, <2>4, <2>5, <2>6 DEF Visible, Sees
  <1> QED
    BY <1>2, <1>3

LEMMA SavingStep ==
    ASSUME Structure, Numbers, NEW t \in Txns, Step(t) PROVE SavingOK'
  <1> SUFFICES ASSUME NEW u \in Txns, pc'[u] = "save"
               PROVE  /\ CodeOf(u)'.seq <= rows'[chosen'[u]].new
                      /\ req'[u].kind = "generate" /\ Guarded(req'[u].part) =>
                           /\ rows'[chosen'[u]].seq < rows'[chosen'[u]].new
                           /\ \A d \in mine'[u] : Drawn(d) /\ d.part = req'[u].part =>
                                 d.code.seq < rows'[chosen'[u]].new
    BY DEF SavingOK, Drawn, Guarded, Enforced
  <1>0. TypeOK
    BY DEF Structure
  <1>1. CASE u # t
    <2>1. /\ pc'[u] = pc[u] /\ req'[u] = req[u] /\ chosen'[u] = chosen[u] /\ mine'[u] = mine[u]
      BY <1>1, OthersKeep
    <2>2. chosen[u] \in RowIds /\ rows[chosen[u]].lock = u
      BY <2>1 DEF Structure, RegistersOK, HoldsOK, Visible
    <2>3. rows'[chosen[u]] = rows[chosen[u]]
      BY <1>1, <2>2, RowChange
    <2> QED
      BY <2>1, <2>3 DEF Numbers, SavingOK, CodeOf
  <1>2. CASE u = t
    <2>1. UseRow(t)
      BY <1>0, <1>2 DEF Step, BeginGenerate, BeginManual, BeginBump, SelectRows, LockRow,
                InsertRow, SaveDoc, Commit, Rollback, End, Return, Goto, TypeOK
    <2>2. pc[t] = "use" /\ req' = req /\ chosen' = chosen /\ mine' = mine
      BY <1>0, <1>2, <2>1 DEF UseRow, Return, Goto, TypeOK
    <2> DEFINE r == chosen[t]
    <2>3. /\ r \in RowIds /\ rows[r].part = req[t].part /\ Sees(t, r) /\ rows[r].lock = t
      BY <2>2 DEF Structure, RegistersOK, HoldsOK, Visible
    <2>4. rows[r] \in Rows /\ rows[r].seq <= rows[r].new
      BY <2>3 DEF Structure, TypeOK, RowsOK
    <2>5. req[t].kind = "generate" =>
            rows'[r].new = rows[r].new + 1 /\ rows'[r].seq = rows[r].seq
      BY <1>0, <1>2, <2>1, <2>2, <2>3, <2>4 DEF UseRow, TypeOK, Rows
    <2>7. CodeOf(t)'.seq <= rows'[r].new
      <3>1. req[t].asked.seq \in Nat
        BY <1>0, <2>2 DEF TypeOK, Requests, Codes
      <3>2. req[t].kind # "generate" => req[t].asked.seq <= rows'[r].new
        BY <1>0, <2>1, <2>3, <2>4, <3>1 DEF UseRow, TypeOK, Rows
      <3>3. req[t].kind = "generate" => CodeOf(t)'.seq = rows'[r].new
        BY <2>2 DEF CodeOf, Format
      <3> QED
        BY <2>2, <2>4, <2>5, <3>2, <3>3 DEF CodeOf, Rows
    <2>6. ASSUME NEW d \in mine[t], Drawn(d), d.part = req[t].part
          PROVE  d.code.seq <= rows[r].new /\ d.code.seq \in Nat
      <3>1. PICK q \in RowIds : /\ rows[q].state # "free" /\ rows[q].part = d.part
                                /\ d.code.seq <= rows[q].new
        BY <2>6 DEF Numbers, UncommittedOK, Drawn
      <3>2. q = r
        BY <2>3, <2>6, <3>1 DEF Structure, OneRow, SameCounter, Sees, Drawn
      <3>3. d.code.seq \in Nat
        BY <1>0 DEF TypeOK, Docs, Codes
      <3> QED
        BY <3>1, <3>2, <3>3
    <2> QED
      BY <1>2, <2>2, <2>4, <2>5, <2>6, <2>7 DEF Rows
  <1> QED
    BY <1>1, <1>2

LEMMA MineUniqueStep ==
    ASSUME Structure, Numbers, NEW t \in Txns, Step(t) PROVE MineUnique'
  <1> SUFFICES ASSUME NEW u \in Txns, NEW d \in mine'[u], NEW e \in mine'[u], Drawn(d), Drawn(e),
                      d.part = e.part, d.code.seq = e.code.seq
               PROVE  d = e
    BY DEF MineUnique, Drawn, Guarded, Enforced
  <1>0. TypeOK
    BY DEF Structure
  <1>1. CASE d \in mine[u] /\ e \in mine[u]
    BY <1>1 DEF Numbers, MineUnique
  <1>2. CASE ~(d \in mine[u] /\ e \in mine[u])
    <2>1. u = t
      BY <1>2, OthersKeep
    <2>2. SaveDoc(t)
      BY <1>0, <1>2, <2>1 DEF Step, BeginGenerate, BeginManual, BeginBump, SelectRows, LockRow,
                     InsertRow, UseRow, Commit, Rollback, End, TypeOK
    <2>3. PICK n \in Docs :
            /\ mine'[t] \subseteq mine[t] \cup {n}
            /\ n.part = req[t].part /\ n.kind = req[t].kind /\ n.code = CodeOf(t)
            /\ n \notin mine[t]
      <3>1. PICK i \in 1..MaxDocs :
              /\ i \notin UsedIds
              /\ mine' = [mine EXCEPT ![t] = @ \cup
                       {[id |-> i, site |-> req[t].site, kind |-> req[t].kind,
                         part |-> req[t].part, code |-> CodeOf(t)]}]
        BY <2>2 DEF SaveDoc
      <3>2. req[t] \in Requests /\ CodeOf(t) \in Codes
        BY <1>0, <2>2, CodeOfType DEF SaveDoc, TypeOK
      <3> DEFINE n == [id |-> i, site |-> req[t].site, kind |-> req[t].kind,
                       part |-> req[t].part, code |-> CodeOf(t)]
      <3>3. n \in Docs
        BY <3>2 DEF Docs, Requests
      <3>4. n \notin mine[t]
        BY <3>1 DEF UsedIds
      <3> QED
        BY <1>0, <3>1, <3>3, <3>4 DEF TypeOK
    <2>4. ASSUME Drawn(n), NEW x \in mine[t], Drawn(x), x.part = n.part
          PROVE  x.code.seq < n.code.seq /\ x.code.seq \in Nat /\ n.code.seq \in Nat
      <3>1. pc[t] = "save" /\ req[t].kind = "generate" /\ Guarded(req[t].part)
        BY <2>2, <2>3, <2>4 DEF SaveDoc, Drawn
      <3>2. n.code.seq = rows[chosen[t]].new
        BY <2>3, <3>1 DEF CodeOf, Format
      <3>3. x.code.seq < rows[chosen[t]].new
        BY <2>3, <2>4, <3>1 DEF Numbers, SavingOK
      <3>4. x \in Docs
        BY <1>0 DEF TypeOK
      <3> QED
        BY <2>3, <3>2, <3>3, <3>4 DEF Docs, Codes
    <2> QED
      BY <1>2, <2>1, <2>3, <2>4
  <1> QED
    BY <1>1, <1>2

(* Only a commit adds documents: its numbers lie above every committed one *)
(* of their counter.                                                       *)
LEMMA UniqueStep ==
    ASSUME Structure, Numbers, NEW t \in Txns, Step(t) PROVE GeneratedCodesUnique'
  <1> SUFFICES ASSUME NEW d \in docs', NEW e \in docs', Drawn(d), Drawn(e),
                      d.part = e.part, d.code.seq = e.code.seq
               PROVE  d = e
    BY DEF GeneratedCodesUnique, Drawn, Guarded, Enforced
  <1>0. TypeOK
    BY DEF Structure
  <1>1. ~Commit(t) => docs' = docs
    BY DEF Step, BeginGenerate, BeginManual, BeginBump, SelectRows, LockRow, InsertRow,
           UseRow, SaveDoc, Rollback
  <1>2. \A x \in docs, y \in mine[t] : Drawn(x) /\ Drawn(y) /\ x.part = y.part =>
                                         x.code.seq # y.code.seq
    <2> SUFFICES ASSUME NEW x \in docs, NEW y \in mine[t], Drawn(x), Drawn(y), x.part = y.part
                 PROVE  x.code.seq # y.code.seq
      OBVIOUS
    <2>1. PICK r \in RowIds : /\ rows[r].state = "live" /\ rows[r].part = x.part
                              /\ x.code.seq <= rows[r].seq
      BY DEF Numbers, CommittedOK, Drawn
    <2>2. PICK q \in RowIds : /\ rows[q].state # "free" /\ rows[q].part = y.part
                              /\ rows[q].seq < y.code.seq
      BY DEF Numbers, UncommittedOK, Drawn
    <2>3. r = q
      BY <2>1, <2>2 DEF Structure, OneRow, SameCounter, Drawn
    <2>4. x.code.seq \in Nat /\ y.code.seq \in Nat /\ rows[r].seq \in Nat
      BY <1>0 DEF TypeOK, Docs, Codes, Rows
    <2> QED
      BY <2>1, <2>2, <2>3, <2>4
  <1>3. CASE d \in docs /\ e \in docs
    BY <1>3 DEF Numbers, GeneratedCodesUnique, Drawn
  <1>4. CASE d \in mine[t] /\ e \in mine[t]
    BY <1>4 DEF Numbers, MineUnique
  <1> QED
    BY <1>1, <1>2, <1>3, <1>4 DEF Commit

LEMMA InductiveInit == Init => Inductive
  BY StructureInit DEF Inductive, Numbers, CommittedOK, UncommittedOK, SavingOK, MineUnique,
                       GeneratedCodesUnique, Init

LEMMA InductiveStep == Inductive /\ [Next]_vars => Inductive'
  <1> SUFFICES ASSUME Inductive, [Next]_vars PROVE Inductive'
    OBVIOUS
  <1>1. Structure'
    BY StructureStep DEF Inductive
  <1>2. CASE UNCHANGED vars \/ NextYear
    <2>1. UNCHANGED <<rows, docs, mine, pc, req, chosen>>
      BY <1>2 DEF vars, NextYear
    <2> QED
      BY <1>1, <2>1 DEF Inductive, Numbers, CommittedOK, UncommittedOK, SavingOK, MineUnique,
                        GeneratedCodesUnique, Drawn, Guarded, Enforced, CodeOf
  <1>3. ASSUME NEW t \in Txns, Step(t) PROVE Inductive'
    BY <1>1, <1>3, CommittedStep, UncommittedStep, SavingStep, MineUniqueStep, UniqueStep
       DEF Inductive, Numbers
  <1> QED
    BY <1>2, <1>3 DEF Next

(* No two committed documents of a guarded partition carry the same        *)
(* generated number, whatever typed and bumped codes ran in between.       *)
THEOREM GeneratedCodesNeverRepeat == Spec => []GeneratedCodesUnique
  <1>1. Inductive => GeneratedCodesUnique
    BY DEF Inductive, Numbers
  <1> QED
    BY <1>1, InductiveInit, InductiveStep, PTL DEF Spec
-----------------------------------------------------------------------------
(* Keys that differ between counters: documents the unique constraint      *)
(* compares are numbered by one counter.                                   *)
SeparateKeys ==
    \/ Scope = "GLOBAL" /\ DocUnique \in {"branch", "company", "global"}
    \/ Scope = "COMPANY" /\ DocUnique \in {"branch", "company"}
    \/ Scope = "BRANCH" /\ DocUnique = "branch"

(* A typed code may name any year; it names the counter's own period when  *)
(* the series has but one.                                                 *)
OwnPeriods == ResetPolicy # "YEARLY" \/ "manual" \notin Kinds

(* Documents and requests carry the partition and the period of one year.  *)
Dated(s, p, c) == \E y \in Years : p = Partition(s, y) /\ c.per = PeriodKey(y)

DatedDocs ==
    /\ \A d \in docs : Dated(d.site, d.part, d.code)
    /\ \A t \in Txns : \A d \in mine[t] : Dated(d.site, d.part, d.code)

DatedRequest(t) ==
    pc[t] \notin {"idle", "open"} =>
        /\ req[t].part = Partition(req[t].site, req[t].year)
        /\ req[t].kind # "generate" => req[t].asked.per = PeriodKey(req[t].year)

DatedOK == DatedDocs /\ \A t \in Txns : DatedRequest(t)

LEMMA DatedDocsStep ==
    ASSUME Structure, DatedOK, NEW t \in Txns, Step(t) PROVE DatedDocs'
  <1>1. DatedDocs /\ DatedRequest(t) /\ TypeOK
    BY DEF DatedOK, Structure
  <1>2. CASE SaveDoc(t)
    <2>1. req[t] \in Requests /\ pc[t] = "save" /\ docs' = docs
      BY <1>1, <1>2 DEF SaveDoc, TypeOK
    <2>2. Dated(req[t].site, req[t].part, CodeOf(t))
      BY <1>1, <2>1 DEF DatedRequest, Dated, CodeOf, Format, Requests
    <2>3. \A u \in Txns : \A d \in mine'[u] : d \in mine[u] \/
            (d.site = req[t].site /\ d.part = req[t].part /\ d.code = CodeOf(t))
      BY <1>1, <1>2 DEF SaveDoc, TypeOK
    <2> QED
      BY <1>1, <2>1, <2>2, <2>3 DEF DatedDocs, Dated
  <1>3. CASE ~SaveDoc(t)
    <2>1. /\ \A u \in Txns : mine'[u] \subseteq mine[u]
          /\ docs' \subseteq docs \cup mine[t]
      BY <1>1, <1>3 DEF Step, BeginGenerate, BeginManual, BeginBump, SelectRows, LockRow,
                        InsertRow, UseRow, Commit, Rollback, End, TypeOK
    <2> QED
      BY <1>1, <2>1 DEF DatedDocs, Dated
  <1> QED
    BY <1>2, <1>3

LEMMA DatedRequestStep ==
    ASSUME Structure, DatedOK, OwnPeriods, NEW t \in Txns, Step(t), NEW u \in Txns
    PROVE  DatedRequest(u)'
  <1>1. DatedRequest(u) /\ TypeOK
    BY DEF DatedOK, Structure
  <1>2. CASE u # t
    BY <1>1, <1>2, OthersKeep DEF DatedRequest
  <1>3. CASE u = t
    <2>1. CASE BeginGenerate(t) \/ BeginManual(t) \/ BeginBump(t)
      <3>1. \E s, k, y, n :
              /\ s \in Sites /\ k \in Kinds /\ y \in Years
              /\ Request(t, s, k, Format(y, n))
              /\ y = year \/ k = "manual"
        BY <1>1, <2>1 DEF BeginGenerate, BeginManual, BeginBump, TypeOK
      <3>2. PICK s, k, y, n :
              /\ s \in Sites /\ k \in Kinds /\ y \in Years
              /\ Request(t, s, k, Format(y, n))
              /\ y = year \/ k = "manual"
        BY <3>1
      <3>3. req'[t] = [site |-> s, kind |-> k, part |-> Partition(s, year),
                       year |-> year, asked |-> Format(y, n)]
        BY <1>1, <3>2 DEF Request, TypeOK
      <3>4. k = "manual" => PeriodKey(y) = PeriodKey(year)
        BY <3>2 DEF OwnPeriods, PeriodKey
      <3> QED
        BY <1>3, <3>2, <3>3, <3>4 DEF DatedRequest, Format
    <2>2. CASE SelectRows(t) \/ LockRow(t) \/ InsertRow(t)
      BY <1>1, <1>3, <2>2 DEF SelectRows, LockRow, InsertRow, DatedRequest
    <2>3. CASE UseRow(t)
      BY <1>1, <1>3, <2>3 DEF UseRow, Return, Goto, DatedRequest, TypeOK
    <2>4. CASE SaveDoc(t) \/ Commit(t) \/ Rollback(t)
      BY <1>1, <1>3, <2>4 DEF SaveDoc, Commit, Rollback, Return, End, Goto, DatedRequest, TypeOK
    <2> QED
      BY <2>1, <2>2, <2>3, <2>4 DEF Step
  <1> QED
    BY <1>2, <1>3

(* A committed document with the key of the code just drawn would be       *)
(* numbered by the same counter, hence below the value drawn.              *)
LEMMA NoClash ==
    ASSUME Inductive, DatedOK, SeparateKeys, NEW t \in Txns,
           pc[t] = "save", req[t].kind = "generate", Guarded(req[t].part)
    PROVE  ~Clash(t, docs)
  <1> SUFFICES ASSUME NEW d \in docs, DocKey(d.site, d.code) = DocKey(req[t].site, CodeOf(t))
               PROVE  FALSE
    BY DEF Clash
  <1>1. TypeOK
    BY DEF Inductive, Structure
  <1>2. req[t] \in Requests /\ req[t].part = Partition(req[t].site, req[t].year)
    BY <1>1 DEF TypeOK, DatedOK, DatedRequest
  <1>3. PICK y \in Years : d.part = Partition(d.site, y) /\ d.code.per = PeriodKey(y)
    BY DEF DatedOK, DatedDocs, Dated
  <1>4. d.code = Format(req[t].year, rows[chosen[t]].new)
    BY DEF SeparateKeys, DocKey, CodeOf
  <1>5. PeriodKey(y) = PeriodKey(req[t].year) /\ d.code.seq = rows[chosen[t]].new
    BY <1>3, <1>4 DEF Format
  <1>6. /\ Scope # "GLOBAL" => d.site.co = req[t].site.co
        /\ Scope = "BRANCH" => d.site.br = req[t].site.br
    BY DEF SeparateKeys, DocKey
  <1>7. d.part = req[t].part
    BY <1>2, <1>3, <1>5, <1>6 DEF Partition
  <1>8. PICK r \in RowIds : /\ rows[r].state = "live" /\ rows[r].part = d.part
                            /\ d.code.seq <= rows[r].seq
    BY <1>7 DEF Inductive, Numbers, CommittedOK
  <1>9. chosen[t] \in Visible(t, req[t].part)
    BY DEF Inductive, Structure, RegistersOK, HoldsOK
  <1>10. r = chosen[t]
    BY <1>7, <1>8, <1>9 DEF Inductive, Structure, OneRow, SameCounter, Visible, Sees
  <1>11. rows[r].seq < rows[r].new
    BY <1>10 DEF Inductive, Numbers, SavingOK
  <1>12. rows[r].seq \in Nat /\ rows[r].new \in Nat
    BY <1>1 DEF TypeOK, Rows
  <1> QED
    BY <1>5, <1>8, <1>10, <1>11, <1>12

(* A generated code never meets a committed document with the same key, so *)
(* the series never gets stuck, where the documents' constraint compares   *)
(* no documents of different counters and no typed code names another      *)
(* period than its counter's.                                              *)
THEOREM GeneratedCodesAreFree ==
    SeparateKeys /\ OwnPeriods /\ Spec => []GeneratedNeverRefused
  <1> SUFFICES ASSUME SeparateKeys, OwnPeriods PROVE Spec => []GeneratedNeverRefused
    OBVIOUS
  <1>1. Init => DatedOK
    BY DEF Init, DatedOK, DatedDocs, DatedRequest
  <1>2. Inductive /\ DatedOK /\ [Next]_vars => DatedOK'
    <2> SUFFICES ASSUME Inductive, DatedOK, [Next]_vars PROVE DatedOK'
      OBVIOUS
    <2>1. CASE UNCHANGED vars \/ NextYear
      BY <2>1 DEF vars, NextYear, DatedOK, DatedDocs, DatedRequest
    <2>2. ASSUME NEW t \in Txns, Step(t) PROVE DatedOK'
      BY <2>2, DatedDocsStep, DatedRequestStep DEF Inductive, DatedOK
    <2> QED
      BY <2>1, <2>2 DEF Next
  <1>3. Inductive /\ DatedOK => GeneratedNeverRefused
    BY NoClash DEF GeneratedNeverRefused
  <1> QED
    BY <1>1, <1>2, <1>3, InductiveInit, InductiveStep, PTL DEF Spec
-----------------------------------------------------------------------------
(* What keeps the series dense while no counter is bumped.  Every number   *)
(* is positive; a typed one was at most one above the counter its request  *)
(* read, and no counter falls while a request runs.                        *)
Positive ==
    /\ \A d \in docs : d.code.seq >= 1
    /\ \A t \in Txns : \A d \in mine[t] : d.code.seq >= 1
    /\ \A t \in Txns : pc[t] = "save" => CodeOf(t).seq >= 1

Near(t, n) == n = 1 \/ \E r \in Visible(t, req[t].part) : n <= Read(t, r) + 1

AskedOK(t) ==
    pc[t] \notin {"idle", "open"} /\ req[t].kind = "manual" =>
        req[t].asked.seq >= 1 /\ Near(t, req[t].asked.seq)

(* Every number up to the committed value is a committed document's, and   *)
(* every number the holder of the lock added is one of its own documents'  *)
(* or the code it is about to save.                                        *)
Carries(S, p, n) == \E d \in S : d.part = p /\ d.code.seq = n

Coverage ==
    \A r \in RowIds : rows[r].state = "live" /\ Guarded(rows[r].part) =>
        \A n \in 1..rows[r].seq : Carries(docs, rows[r].part, n)

Saving(t, r, n) == pc[t] = "save" /\ chosen[t] = r /\ CodeOf(t).seq = n

HeldOK(t) ==
    \A r \in RowIds : rows[r].lock = t /\ Guarded(rows[r].part) =>
        \A n \in (rows[r].seq + 1)..rows[r].new :
            Carries(mine[t], rows[r].part, n) \/ Saving(t, r, n)

Dense == Positive /\ Coverage /\ \A t \in Txns : AskedOK(t) /\ HeldOK(t)

LEMMA ReadGrows ==
    ASSUME Structure, NEW t \in Txns, Step(t), NEW u \in Txns, NEW r \in RowIds, Sees(u, r),
           u # t \/ ~(Commit(t) \/ Rollback(t))
    PROVE  Read(u, r)' >= Read(u, r)
  <1>1. rows[r] \in Rows /\ rows'[r] \in Rows /\ NoTxn \notin Txns
    BY TypeStep, CounterAssumption DEF Structure, TypeOK, Next
  <1>2. CASE rows'[r] = rows[r]
    BY <1>1, <1>2 DEF Read, Rows
  <1>3. CASE u # t /\ rows'[r] # rows[r]
    BY <1>1, <1>3, RowChange DEF Read, Rows
  <1>4. CASE u = t /\ rows[r].lock = t
    BY <1>4, LockedRowGrows DEF Read, Sees
  <1>5. CASE u = t /\ rows[r].lock # t /\ rows'[r] # rows[r]
    <2>1. rows[r] # NoRow
      BY DEF Sees, NoRow, Row
    <2>2. rows'[r] = [rows[r] EXCEPT !.lock = t, !.new = rows[r].seq]
      BY <1>5, <2>1, WrittenRow DEF AsLocked, Read
    <2> QED
      BY <1>1, <1>5, <2>2 DEF Read, Rows
  <1> QED
    BY <1>2, <1>3, <1>4, <1>5

(* What a request read stays near: its rows stay visible and do not fall.  *)
LEMMA NearStays ==
    ASSUME Structure, NEW t \in Txns, Step(t), NEW u \in Txns, NEW n \in Nat, Near(u, n),
           u # t \/ ~(Commit(t) \/ Rollback(t)), req'[u] = req[u]
    PROVE  Near(u, n)'
  <1>1. CASE n = 1
    BY <1>1 DEF Near
  <1>2. CASE n # 1
    <2>1. PICK r \in Visible(u, req[u].part) : n <= Read(u, r) + 1
      BY <1>2 DEF Near
    <2>2. r \in RowIds /\ Sees(u, r) /\ rows[r].part = req[u].part
      BY DEF Visible
    <2>3. Sees(u, r)' /\ rows'[r].part = rows[r].part
      BY <2>2, VisibleStays
    <2>4. r \in Visible(u, req[u].part)'
      BY <2>2, <2>3 DEF Visible
    <2>5. Read(u, r)' >= Read(u, r) /\ Read(u, r) \in Nat
      BY <2>2, ReadGrows, ReadType DEF Structure
    <2>6. Read(u, r)' \in Nat
      BY <2>2, TypeStep DEF Structure, Next, TypeOK, Rows, Read
    <2>7. n <= Read(u, r)' + 1
      BY <2>1, <2>5, <2>6
    <2> QED
      BY <2>4, <2>7 DEF Near
  <1> QED
    BY <1>1, <1>2

(* The number a request types is one above what it reads, or the first.    *)
LEMMA AskedNear ==
    ASSUME Structure, NEW t \in Txns, BeginManual(t)
    PROVE  (req[t].asked.seq \in Nat /\ req[t].asked.seq >= 1 /\ Near(t, req[t].asked.seq))'
  <1>1. TypeOK
    BY DEF Structure
  <1>2. PICK s, y, first :
          /\ s \in Sites /\ y \in Years
          /\ LET seen == Visible(t, Partition(s, year))
                 cur == IF seen = {} THEN 0 ELSE Read(t, first)
             IN Request(t, s, "manual", Format(y, cur + 1)) /\ (seen # {} => first \in seen)
    <2>1. PICK s \in Sites, y \in Years :
            LET seen == Visible(t, Partition(s, year))
                cur == IF seen = {} THEN 0 ELSE Read(t, CHOOSE r \in seen : TRUE)
            IN Request(t, s, "manual", Format(y, cur + 1))
      BY DEF BeginManual
    <2> QED
      BY <2>1
  <1>3. rows' = rows
    BY DEF BeginManual
  <1>4. CASE Visible(t, Partition(s, year)) = {}
    <2>1. req'[t].asked.seq = 1
      BY <1>1, <1>2, <1>4 DEF Request, Format, TypeOK
    <2> QED
      BY <2>1 DEF Near
  <1>5. CASE Visible(t, Partition(s, year)) # {}
    <2>1. first \in RowIds /\ rows[first].part = Partition(s, year) /\ Sees(t, first)
      BY <1>2, <1>5 DEF Visible
    <2>2. req'[t].part = Partition(s, year) /\ req'[t].asked.seq = Read(t, first) + 1
      BY <1>1, <1>2, <1>5 DEF Request, Format, TypeOK
    <2>3. Read(t, first) \in Nat /\ Read(t, first)' = Read(t, first)
      BY <1>1, <1>3, <2>1, ReadType DEF Read
    <2>4. first \in Visible(t, req[t].part)'
      BY <1>3, <2>1, <2>2 DEF Visible, Sees
    <2>5. \E r \in Visible(t, req[t].part)' : req'[t].asked.seq <= Read(t, r)' + 1
      BY <2>2, <2>3, <2>4
    <2> QED
      BY <2>2, <2>3, <2>5 DEF Near
  <1> QED
    BY <1>4, <1>5

LEMMA AskedStep ==
    ASSUME Structure, NEW t \in Txns, Step(t), NEW u \in Txns, AskedOK(u)
    PROVE  AskedOK(u)'
  <1> SUFFICES ASSUME pc'[u] \notin {"idle", "open"}, req'[u].kind = "manual"
               PROVE  (req[u].asked.seq >= 1 /\ Near(u, req[u].asked.seq))'
    BY DEF AskedOK
  <1>1. TypeOK
    BY DEF Structure
  <1>2. CASE u = t /\ (BeginGenerate(t) \/ BeginManual(t) \/ BeginBump(t))
    <2>1. BeginManual(t)
      BY <1>1, <1>2 DEF BeginGenerate, BeginBump, Request, TypeOK
    <2> QED
      BY <1>2, <2>1, AskedNear
  <1>3. CASE ~(u = t /\ (BeginGenerate(t) \/ BeginManual(t) \/ BeginBump(t)))
    <2>1. req'[u] = req[u] /\ pc[u] \notin {"idle", "open"}
      <3>1. CASE u # t
        BY <3>1, OthersKeep
      <3>2. CASE u = t
        BY <1>1, <1>3, <3>2 DEF Step, SelectRows, LockRow, InsertRow, UseRow, SaveDoc, Commit,
                                Rollback, Return, End, Goto, TypeOK
      <3> QED
        BY <3>1, <3>2
    <2>2. u # t \/ ~(Commit(t) \/ Rollback(t))
      BY <1>1 DEF Commit, Rollback, End, Goto, TypeOK
    <2>3. req[u].asked.seq \in Nat
      BY <1>1, <2>1 DEF TypeOK, Requests, Codes
    <2>4. req[u].asked.seq >= 1 /\ Near(u, req[u].asked.seq)
      BY <2>1 DEF AskedOK
    <2>5. PICK n \in Nat : n = req[u].asked.seq
      BY <2>3
    <2>6. Near(u, n)'
      BY <2>1, <2>2, <2>4, <2>5, NearStays
    <2> QED
      BY <2>1, <2>4, <2>5, <2>6 DEF Near
  <1> QED
    BY <1>2, <1>3
(* What a save adds to the documents of the transaction.                   *)
LEMMA SavedDoc ==
    ASSUME TypeOK, NEW t \in Txns, SaveDoc(t)
    PROVE  /\ pc[t] = "save" /\ \A u \in Txns \ {t} : mine'[u] = mine[u]
           /\ \E d \in mine'[t] : /\ d.part = req[t].part /\ d.code = CodeOf(t)
                                  /\ mine'[t] = mine[t] \cup {d}
  <1>1. PICK i \in 1..MaxDocs :
          mine' = [mine EXCEPT ![t] = @ \cup
                     {[id |-> i, site |-> req[t].site, kind |-> req[t].kind,
                       part |-> req[t].part, code |-> CodeOf(t)]}]
    BY DEF SaveDoc
  <1> DEFINE d == [id |-> i, site |-> req[t].site, kind |-> req[t].kind,
                   part |-> req[t].part, code |-> CodeOf(t)]
  <1>2. d.part = req[t].part /\ d.code = CodeOf(t)
    OBVIOUS
  <1>3. /\ mine'[t] = mine[t] \cup {d} /\ \A u \in Txns \ {t} : mine'[u] = mine[u]
    BY <1>1 DEF TypeOK
  <1> HIDE DEF d
  <1> QED
    BY <1>2, <1>3 DEF SaveDoc

LEMMA PositiveStep ==
    ASSUME Structure, Numbers, Dense, "bump" \notin Kinds, NEW t \in Txns, Step(t)
    PROVE  Positive'
  <1>1. TypeOK /\ TypeOK' /\ Positive /\ AskedOK(t)
    BY TypeStep DEF Structure, Dense, Next
  <1>2. docs' \subseteq docs \cup mine[t]
    BY DEF Step, BeginGenerate, BeginManual, BeginBump, SelectRows, LockRow, InsertRow, UseRow,
           SaveDoc, Commit, Rollback
  <1>3. \A u \in Txns : \A d \in mine'[u] : d \in mine[u] \/ (pc[t] = "save" /\ d.code = CodeOf(t))
    <2>1. CASE SaveDoc(t)
      BY <1>1, <2>1, SavedDoc
    <2>2. CASE ~SaveDoc(t)
      BY <1>1, <2>2 DEF Step, BeginGenerate, BeginManual, BeginBump, SelectRows, LockRow, InsertRow,
                        UseRow, Commit, Rollback, End, TypeOK
    <2> QED
      BY <2>1, <2>2
  <1>4. ASSUME NEW u \in Txns, pc'[u] = "save" PROVE CodeOf(u)'.seq >= 1
    <2>1. CASE u # t
      <3>1. /\ pc'[u] = pc[u] /\ req'[u] = req[u] /\ chosen'[u] = chosen[u]
        BY <2>1, OthersKeep
      <3>2. chosen[u] \in RowIds /\ rows[chosen[u]].lock = u
        BY <1>4, <3>1 DEF Structure, RegistersOK, HoldsOK, Visible
      <3>3. rows'[chosen[u]] = rows[chosen[u]]
        BY <2>1, <3>2, RowChange
      <3> QED
        BY <1>1, <1>4, <3>1, <3>3 DEF Positive, CodeOf
    <2>2. CASE u = t
      <3>1. UseRow(t)
        BY <1>1, <1>4, <2>2 DEF Step, BeginGenerate, BeginManual, BeginBump, SelectRows, LockRow,
                InsertRow, SaveDoc, Commit, Rollback, End, Return, Goto, TypeOK
      <3>2. /\ pc[t] = "use" /\ req' = req /\ chosen' = chosen
            /\ rows' = [rows EXCEPT ![chosen[t]].new =
                  IF @ < (IF req[t].kind = "generate" THEN @ + 1 ELSE req[t].asked.seq)
                  THEN (IF req[t].kind = "generate" THEN @ + 1 ELSE req[t].asked.seq) ELSE @]
        BY <1>1, <1>4, <2>2, <3>1 DEF UseRow, Return, Goto, TypeOK
      <3>3. req[t] \in Requests /\ chosen[t] \in RowIds /\ rows[chosen[t]] \in Rows
        BY <1>1, <3>2 DEF TypeOK
      <3>4. CASE req[t].kind = "generate"
        <4>1. rows'[chosen[t]].new = rows[chosen[t]].new + 1
          BY <1>1, <3>2, <3>3, <3>4 DEF TypeOK, Rows
        <4>2. CodeOf(t)'.seq = rows'[chosen[t]].new
          BY <3>2, <3>4 DEF CodeOf, Format
        <4> QED
          BY <2>2, <3>3, <4>1, <4>2 DEF Rows
      <3>5. CASE req[t].kind # "generate"
        <4>1. req[t].kind = "manual"
          BY <3>3, <3>5, CounterAssumption DEF Requests
        <4>2. req[t].asked.seq >= 1
          BY <1>1, <3>2, <4>1 DEF AskedOK
        <4> QED
          BY <2>2, <3>2, <3>5, <4>2 DEF CodeOf
      <3> QED
        BY <3>4, <3>5
    <2> QED
      BY <2>1, <2>2
  <1>5. \A u \in Txns : \A d \in mine'[u] : d.code.seq >= 1
    BY <1>1, <1>3 DEF Positive
  <1>6. \A d \in docs' : d.code.seq >= 1
    BY <1>1, <1>2 DEF Positive
  <1> QED
    BY <1>4, <1>5, <1>6 DEF Positive

LEMMA CoverageStep ==
    ASSUME Structure, Dense, NEW t \in Txns, Step(t) PROVE Coverage'
  <1> SUFFICES ASSUME NEW r \in RowIds, rows'[r].state = "live", Guarded(rows'[r].part),
                      NEW n \in 1..rows'[r].seq
               PROVE  Carries(docs', rows'[r].part, n)
    BY DEF Coverage, Guarded, Enforced, Carries
  <1>1. rows[r] \in Rows /\ docs \subseteq docs'
    BY DEF Structure, TypeOK, Step, BeginGenerate, BeginManual, BeginBump, SelectRows, LockRow,
           InsertRow, UseRow, SaveDoc, Commit, Rollback
  <1>2. CASE /\ rows[r].state = "live" /\ rows'[r].part = rows[r].part
             /\ rows'[r].seq = rows[r].seq
    BY <1>1, <1>2 DEF Dense, Coverage, Carries
  <1>3. CASE Commit(t) /\ rows[r].lock = t /\ rows'[r] = AsCommitted(r)
    <2>1. rows'[r].seq = rows[r].new /\ rows'[r].part = rows[r].part
      BY <1>1, <1>3 DEF AsCommitted, Rows
    <2>2. docs' = docs \cup mine[t] /\ pc[t] = "open"
      BY <1>3 DEF Commit
    <2>3. /\ rows[r].state = "live" \/ rows[r].seq = 0
          /\ rows[r].seq \in Nat /\ rows[r].new \in Nat
      BY <1>1, <1>3, CounterAssumption DEF Structure, RowsOK, Rows, NoRow, Row
    <2>4. CASE n <= rows[r].seq
      BY <1>1, <2>1, <2>3, <2>4 DEF Dense, Coverage, Carries
    <2>5. CASE ~(n <= rows[r].seq)
      <3>1. n \in (rows[r].seq + 1)..rows[r].new
        BY <2>1, <2>3, <2>5
      <3>2. Carries(mine[t], rows[r].part, n)
        BY <1>3, <2>1, <2>2, <3>1 DEF Dense, HeldOK, Saving
      <3> QED
        BY <2>1, <2>2, <3>2 DEF Carries
    <2> QED
      BY <2>4, <2>5
  <1>4. CASE rows'[r] = rows[r]
    BY <1>2, <1>4
  <1>5. CASE r \in Visible(t, req[t].part) /\ rows'[r] = AsLocked(t, r)
    BY <1>1, <1>2, <1>5 DEF AsLocked, Rows
  <1>6. CASE rows'[r] = Row("pending", req[t].part, t) \/ rows'[r] = NoRow
    BY <1>6 DEF Row, NoRow
  <1>7. CASE \E m \in Nat : rows'[r] = AsUsed(r, m)
    BY <1>1, <1>2, <1>7 DEF AsUsed, Rows
  <1>8. CASE rows[r].state # "pending" /\ rows'[r] = AsRestored(r)
    BY <1>1, <1>2, <1>8 DEF AsRestored, Rows
  <1> QED
    BY <1>3, <1>4, <1>5, <1>6, <1>7, <1>8, WrittenRow

(* The number the operation draws or accepts is at most one above the row. *)
LEMMA NextNumber ==
    ASSUME Structure, Dense, "bump" \notin Kinds, NEW t \in Txns, UseRow(t),
           Guarded(req[t].part)
    PROVE  /\ pc'[t] = "save" /\ chosen'[t] = chosen[t]
           /\ \/ rows'[chosen[t]].new = rows[chosen[t]].new
              \/ /\ rows'[chosen[t]].new = rows[chosen[t]].new + 1
                 /\ CodeOf(t)'.seq = rows[chosen[t]].new + 1
  <1>1. TypeOK /\ AskedOK(t) /\ pc[t] = "use"
    BY DEF Structure, Dense, UseRow
  <1>2. req[t] \in Requests /\ chosen[t] \in RowIds /\ rows[chosen[t]] \in Rows
    BY <1>1 DEF TypeOK
  <1>3. req[t].kind \in {"generate", "manual"}
    BY <1>2, CounterAssumption DEF Requests
  <1>4. pc'[t] = "save" /\ chosen' = chosen /\ req' = req
    BY <1>1, <1>3 DEF UseRow, Goto, TypeOK
  <1>5. CASE req[t].kind = "generate"
    <2>1. rows'[chosen[t]].new = rows[chosen[t]].new + 1
      BY <1>1, <1>2, <1>5 DEF UseRow, TypeOK, Rows
    <2> QED
      BY <1>4, <1>5, <2>1 DEF CodeOf, Format
  <1>6. CASE req[t].kind = "manual"
    <2> DEFINE last == rows[chosen[t]].new
               n == req[t].asked.seq
    <2>1. last \in Nat /\ n \in Nat
      BY <1>2 DEF Rows, Requests, Codes
    <2>2. n <= last + 1
      <3>1. Near(t, n)
        BY <1>1, <1>6 DEF AskedOK
      <3>2. chosen[t] \in Visible(t, req[t].part) /\ rows[chosen[t]].lock = t
        BY <1>1 DEF Structure, RegistersOK, HoldsOK
      <3>3. \A r \in Visible(t, req[t].part) : r = chosen[t]
        BY <3>2 DEF Structure, OneRow, SameCounter, Visible, Sees
      <3>4. Read(t, chosen[t]) = last
        BY <3>2 DEF Read
      <3> QED
        BY <2>1, <3>1, <3>3, <3>4 DEF Near
    <2>3. rows'[chosen[t]].new = IF last < n THEN n ELSE last
      BY <1>1, <1>2, <1>6 DEF UseRow, TypeOK, Rows
    <2>4. CodeOf(t)'.seq = n
      BY <1>4, <1>6 DEF CodeOf
    <2> HIDE DEF last, n
    <2>5. \/ rows'[chosen[t]].new = last
          \/ rows'[chosen[t]].new = last + 1 /\ CodeOf(t)'.seq = last + 1
      BY <2>1, <2>2, <2>3, <2>4
    <2> QED
      BY <1>4, <2>5 DEF last
  <1> QED
    BY <1>3, <1>5, <1>6

LEMMA HeldStep ==
    ASSUME Structure, Dense, "bump" \notin Kinds, NEW t \in Txns, Step(t), NEW u \in Txns
    PROVE  HeldOK(u)'
  <1> SUFFICES ASSUME NEW r \in RowIds, rows'[r].lock = u, Guarded(rows'[r].part),
                      NEW n \in (rows'[r].seq + 1)..rows'[r].new
               PROVE  Carries(mine'[u], rows'[r].part, n) \/ Saving(u, r, n)'
    BY DEF HeldOK, Guarded, Enforced, Carries
  <1>1. TypeOK /\ HeldOK(u) /\ rows[r] \in Rows /\ rows'[r] \in Rows /\ NoTxn \notin Txns
    BY TypeStep, CounterAssumption DEF Structure, Dense, TypeOK, Next
  <1>2. CASE u # t
    <2>1. rows'[r] = rows[r]
      BY <1>2, RowChange
    <2>2. /\ pc'[u] = pc[u] /\ req'[u] = req[u] /\ chosen'[u] = chosen[u] /\ mine'[u] = mine[u]
      BY <1>2, OthersKeep
    <2>3. Carries(mine[u], rows[r].part, n) \/ Saving(u, r, n)
      BY <1>1, <2>1 DEF HeldOK
    <2> QED
      BY <2>1, <2>2, <2>3 DEF Saving, CodeOf
  <1>3. CASE u = t
    <2>1. ~(Commit(t) \/ Rollback(t))
      <3>1. ASSUME Commit(t) \/ Rollback(t) PROVE rows'[r].lock # t
        <4>1. CASE rows[r].lock # t
          BY <1>1, <3>1, <4>1 DEF Commit, Rollback
        <4>2. CASE rows[r].lock = t
          <5>1. \/ rows'[r] = [rows[r] EXCEPT !.state = "live", !.seq = rows[r].new, !.lock = NoTxn]
                \/ rows'[r] = NoRow
                \/ rows'[r] = [rows[r] EXCEPT !.new = rows[r].seq, !.lock = NoTxn]
            <6>1. CASE Commit(t)
              BY <4>2, <6>1 DEF Commit
            <6>2. CASE Rollback(t)
              BY <4>2, <6>2 DEF Rollback
            <6> QED
              BY <3>1, <6>1, <6>2
          <5>2. NoRow.lock = NoTxn
            BY DEF NoRow, Row
          <5>3. /\ [rows[r] EXCEPT !.state = "live", !.seq = rows[r].new, !.lock = NoTxn].lock = NoTxn
                /\ [rows[r] EXCEPT !.new = rows[r].seq, !.lock = NoTxn].lock = NoTxn
            BY <1>1 DEF Rows
          <5>4. rows'[r].lock = NoTxn
            BY <5>1, <5>2, <5>3
          <5> QED
            BY <1>1, <5>4
        <4> QED
          BY <4>1, <4>2
      <3> QED
        BY <1>3, <3>1
    <2>2. mine[t] \subseteq mine'[t]
      BY <1>1, <2>1 DEF Step, BeginGenerate, BeginManual, BeginBump, SelectRows, LockRow, InsertRow,
                        UseRow, SaveDoc, TypeOK
    <2>3. ASSUME rows[r].lock = t, rows'[r].part = rows[r].part,
                 n \in (rows[r].seq + 1)..rows[r].new
          PROVE  Carries(mine'[t], rows'[r].part, n)
      <3>1. Carries(mine[t], rows[r].part, n) \/ Saving(t, r, n)
        BY <1>1, <1>3, <2>3 DEF HeldOK
      <3>2. CASE Carries(mine[t], rows[r].part, n)
        BY <2>2, <2>3, <3>2 DEF Carries
      <3>3. CASE Saving(t, r, n)
        <4>1. SaveDoc(t)
          BY <2>1, <3>3 DEF Saving, Step, BeginGenerate, BeginManual, BeginBump, SelectRows,
                            LockRow, InsertRow, UseRow
        <4>2. \E d \in mine'[t] : d.part = req[t].part /\ d.code = CodeOf(t)
          BY <1>1, <4>1, SavedDoc
        <4>3. rows[r].part = req[t].part
          BY <3>3 DEF Saving, Structure, RegistersOK, HoldsOK, Visible
        <4> QED
          BY <2>3, <3>3, <4>2, <4>3 DEF Saving, Carries
      <3> QED
        BY <3>1, <3>2, <3>3
    <2>4. CASE rows'[r] = rows[r]
      BY <1>3, <2>3, <2>4
    <2>5. CASE rows[r].lock \in {NoTxn, t} /\ rows'[r] = AsLocked(t, r)
      <3>1. /\ rows'[r].part = rows[r].part /\ rows'[r].seq = rows[r].seq
            /\ rows'[r].new = Read(t, r)
        BY <1>1, <2>5 DEF AsLocked, Rows
      <3>2. CASE rows[r].lock = t
        BY <1>3, <2>3, <3>1, <3>2 DEF Read
      <3>3. CASE rows[r].lock # t
        BY <1>1, <3>1, <3>3 DEF Read, Rows
      <3> QED
        BY <3>2, <3>3
    <2>6. CASE rows'[r] = Row("pending", req[t].part, t)
      BY <2>6 DEF Row
    <2>7. CASE UseRow(t) /\ rows[r].lock = t /\ r = chosen[t] /\ \E m \in Nat : rows'[r] = AsUsed(r, m)
      <3>1. rows'[r].part = rows[r].part /\ rows'[r].seq = rows[r].seq
        BY <1>1, <2>7 DEF AsUsed, Rows
      <3>2. rows[r].part = req[t].part
        BY <2>7 DEF Structure, RegistersOK, HoldsOK, Visible, UseRow
      <3>3. /\ pc'[t] = "save" /\ chosen'[t] = r
            /\ \/ rows'[r].new = rows[r].new
               \/ rows'[r].new = rows[r].new + 1 /\ CodeOf(t)'.seq = rows[r].new + 1
        BY <2>7, <3>1, <3>2, NextNumber
      <3>4. CASE n <= rows[r].new
        BY <1>1, <1>3, <2>3, <2>7, <3>1, <3>4 DEF Rows
      <3>5. CASE ~(n <= rows[r].new)
        <4>1. CodeOf(t)'.seq = n
          BY <1>1, <3>1, <3>3, <3>5 DEF Rows
        <4> QED
          BY <1>3, <3>3, <4>1 DEF Saving
      <3> QED
        BY <3>4, <3>5
    <2> QED
      BY <1>1, <1>3, <2>1, <2>4, <2>5, <2>6, <2>7, WrittenRow
  <1> QED
    BY <1>2, <1>3

(* A counter's committed numbers are exactly 1 up to its value.            *)
LEMMA DenseSeries ==
    ASSUME Inductive, Dense, NEW r \in RowIds, rows[r].state = "live", Guarded(rows[r].part)
    PROVE  {d.code.seq : d \in {e \in docs : e.part = rows[r].part}} = 1..rows[r].seq
  <1>1. TypeOK /\ rows[r].seq \in Nat
    BY DEF Inductive, Structure, TypeOK, Rows
  <1>2. ASSUME NEW d \in docs, d.part = rows[r].part PROVE d.code.seq \in 1..rows[r].seq
    <2>1. PICK q \in RowIds : /\ rows[q].state = "live" /\ rows[q].part = d.part
                              /\ d.code.seq <= rows[q].seq
      BY <1>2 DEF Inductive, Numbers, CommittedOK
    <2>2. q = r
      BY <1>2, <2>1 DEF Inductive, Structure, OneRow, SameCounter
    <2>3. d.code.seq \in Nat /\ d.code.seq >= 1
      BY <1>1 DEF TypeOK, Docs, Codes, Dense, Positive
    <2> QED
      BY <1>1, <2>1, <2>2, <2>3
  <1>3. ASSUME NEW n \in 1..rows[r].seq
        PROVE  \E d \in docs : d.part = rows[r].part /\ d.code.seq = n
    BY DEF Dense, Coverage, Carries
  <1> QED
    BY <1>2, <1>3

(* While no counter is bumped the committed codes of a guarded partition   *)
(* are numbered from 1 to the counter's value with no hole, whatever       *)
(* requests race, roll back or type the codes themselves.                  *)
THEOREM SeriesHasNoHoles == "bump" \notin Kinds /\ Spec => []GapFree
  <1> SUFFICES ASSUME "bump" \notin Kinds PROVE Spec => []GapFree
    OBVIOUS
  <1>1. Init => Dense
    <2> SUFFICES ASSUME Init PROVE Dense
      OBVIOUS
    <2>1. \A r \in RowIds : rows[r].seq = 0 /\ rows[r].new = 0
      BY DEF Init, NoRow, Row
    <2> QED
      BY <2>1 DEF Init, Dense, Positive, Coverage, AskedOK, HeldOK
  <1>2. Inductive /\ Dense /\ [Next]_vars => Dense'
    <2> SUFFICES ASSUME Inductive, Dense, [Next]_vars PROVE Dense'
      OBVIOUS
    <2>1. CASE UNCHANGED vars \/ NextYear
      <3>1. UNCHANGED <<rows, docs, mine, pc, req, chosen>>
        BY <2>1 DEF vars, NextYear
      <3> QED
        BY <3>1 DEF Dense, Positive, Coverage, AskedOK, HeldOK, Near, Carries, Saving, CodeOf,
                    Read, Visible, Sees, Guarded, Enforced
    <2>2. ASSUME NEW t \in Txns, Step(t) PROVE Dense'
      <3>1. Positive' /\ Coverage'
        BY <2>2, PositiveStep, CoverageStep DEF Inductive
      <3>2. \A u \in Txns : AskedOK(u)' /\ HeldOK(u)'
        BY <2>2, AskedStep, HeldStep DEF Inductive, Dense
      <3> QED
        BY <3>1, <3>2 DEF Dense
    <2> QED
      BY <2>1, <2>2 DEF Next
  <1>3. Inductive /\ Dense => GapFree
    BY DenseSeries DEF GapFree
  <1> QED
    BY <1>1, <1>2, <1>3, InductiveInit, InductiveStep, PTL DEF Spec
=============================================================================
