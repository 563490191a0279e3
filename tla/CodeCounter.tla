----------------------------- MODULE CodeCounter -----------------------------
(***************************************************************************)
(* Document numbering (app/common/generate_code): one counter row per      *)
(* partition of a code type, drawn from by concurrent database             *)
(* transactions under READ COMMITTED.  A statement sees the rows that are  *)
(* committed when it starts and the transaction's own writes; a row lock   *)
(* taken by SELECT ... FOR UPDATE or by a write is kept until the          *)
(* transaction ends.  One code type is modelled; types do not interact.    *)
(***************************************************************************)
EXTENDS Naturals, FiniteSets

CONSTANTS
    Txns,         \* concurrent transactions, one per request
    Sites,        \* the [co, br] affiliations requests are made for
    Scope,        \* code_types.scope: "GLOBAL", "COMPANY" or "BRANCH"
    ResetPolicy,  \* code_types.reset_policy: "NEVER" or "YEARLY"
    DocUnique,    \* the documents' unique constraint: "branch", "company", "global"
    Kinds,        \* the operations requests perform
    Seeded,       \* the counter rows there are initially: row id -> partition
    MaxYear,      \* bound: the calendar runs from year 1 to MaxYear
    MaxRows,      \* bound: counter rows ever inserted
    MaxDocs,      \* bound: documents ever inserted
    Null,         \* SQL NULL
    NoTxn         \* the holder of a free row lock

Years == 1..MaxYear
RowIds == 1..MaxRows

Partitions == [co : {s.co : s \in Sites} \cup {Null},
               br : {s.br : s \in Sites} \cup {Null},
               per : Years \cup {Null}]

ASSUME CounterAssumption ==
    /\ MaxYear \in Nat \ {0} /\ MaxRows \in Nat /\ MaxDocs \in Nat
    /\ NoTxn \notin Txns
    /\ DOMAIN Seeded \subseteq RowIds
    /\ \A r \in DOMAIN Seeded : Seeded[r] \in Partitions
    /\ \A r, q \in DOMAIN Seeded : Seeded[r] = Seeded[q] => r = q
    /\ Kinds \subseteq {"generate", "manual", "bump"}
    /\ \A s \in Sites : DOMAIN s = {"co", "br"}

(* _resolve_partition and _period_key: the parts a scope or a reset policy *)
(* does not use are NULL.                                                  *)
PeriodKey(y) == IF ResetPolicy = "YEARLY" THEN y ELSE Null

Partition(s, y) ==
    [co  |-> IF Scope = "GLOBAL" THEN Null ELSE s.co,
     br  |-> IF Scope = "BRANCH" THEN s.br ELSE Null,
     per |-> PeriodKey(y)]

(* uq_code_counter_partition: PostgreSQL takes two NULLs to be distinct,   *)
(* so the constraint binds only the rows in which no column is NULL.       *)
Enforced(p) == Null \notin {p.co, p.br, p.per}

VARIABLES
    rows,     \* the counter table, by primary key
    docs,     \* committed documents that carry a code
    mine,     \* per transaction: its uncommitted documents
    pc,       \* per transaction: the statement it is about to run
    req,      \* per transaction: the request being served
    todo,     \* per transaction: rows its locking SELECT has yet to lock
    chosen,   \* per transaction: the row get_or_create_counter_row returns
    year      \* today's year

vars == <<rows, docs, mine, pc, req, todo, chosen, year>>

Codes == [per : Years \cup {Null}, seq : Nat]
Requests == [site : Sites, kind : Kinds, part : Partitions, year : Years, asked : Codes]
Docs == [id : 1..MaxDocs, site : Sites, kind : Kinds, part : Partitions, code : Codes]
Rows == [state : {"free", "pending", "live"}, part : Partitions \cup {Null},
         seq : Nat, new : Nat, lock : Txns \cup {NoTxn}]
Row(s, p, l) == [state |-> s, part |-> p, seq |-> 0, new |-> 0, lock |-> l]
NoRow == Row("free", Null, NoTxn)

(* The generated code type prints the year exactly when it resets yearly.  *)
Format(y, n) == [per |-> PeriodKey(y), seq |-> n]

(* The columns of the documents' unique constraint.                        *)
DocKey(s, c) ==
    CASE DocUnique = "branch"  -> <<s.co, s.br, c>>
      [] DocUnique = "company" -> <<s.co, c>>
      [] DocUnique = "global"  -> <<c>>

(* A committed row, or one t inserted itself.                              *)
Sees(t, r) == rows[r].state = "live" \/ (rows[r].state = "pending" /\ rows[r].lock = t)

Visible(t, p) == {r \in RowIds : rows[r].part = p /\ Sees(t, r)}

(* What t reads in row r: its own write if it made one.                    *)
Read(t, r) == IF rows[r].lock = t THEN rows[r].new ELSE rows[r].seq

(* ORDER BY last_sequence_number DESC, id DESC.                            *)
Precedes(a, b) == a.val > b.val \/ (a.val = b.val /\ a.id >= b.id)
Leads(a, S) == \A b \in S : Precedes(a, b)

UsedIds == {d.id : d \in docs \cup UNION {mine[t] : t \in Txns}}

Init ==
    /\ rows = [r \in RowIds |->
                 IF r \in DOMAIN Seeded
                 THEN Row("live", Seeded[r], NoTxn) ELSE NoRow]
    /\ docs = {}
    /\ mine = [t \in Txns |-> {}]
    /\ pc = [t \in Txns |-> "idle"]
    /\ req = [t \in Txns |-> Null]
    /\ todo = [t \in Txns |-> {}]
    /\ chosen = [t \in Txns |-> Null]
    /\ year = 1

-----------------------------------------------------------------------------
Goto(t, l) == pc' = [pc EXCEPT ![t] = l]

Request(t, s, k, c) ==
    req' = [req EXCEPT ![t] = [site |-> s, kind |-> k, part |-> Partition(s, year),
                               year |-> year, asked |-> c]]

(* Mutant: the registers of the request survive its end.                   *)
ReturnStale(t) == Goto(t, "open") /\ UNCHANGED <<req, chosen>>

(* The operation returns to its caller; the transaction stays open.       *)
Return(t) ==
    /\ Goto(t, "open")
    /\ req' = [req EXCEPT ![t] = Null]
    /\ chosen' = [chosen EXCEPT ![t] = Null]

(* generate_next_code, up to its call of get_or_create_counter_row.        *)
BeginGenerate(t) ==
    /\ "generate" \in Kinds /\ pc[t] \in {"idle", "open"}
    /\ \E s \in Sites : Request(t, s, "generate", Format(year, 0))
    /\ Goto(t, "select")
    /\ UNCHANGED <<rows, docs, mine, todo, chosen, year>>

(* ensure_manual_code_is_next_and_bump: the code_exists check of the       *)
(* caller, the unlocked read of the counter (which raises when two rows    *)
(* match) and the comparison with the number in the typed code.  The       *)
(* pattern accepts any year.  A refused code ends the request unchanged.   *)
BeginManual(t) ==
    /\ "manual" \in Kinds /\ pc[t] \in {"idle", "open"}
    /\ \E s \in Sites, y \in Years :
         LET p == Partition(s, year)
             seen == Visible(t, p)
             cur == IF seen = {} THEN 0 ELSE Read(t, CHOOSE r \in seen : TRUE)
             c == Format(y, cur + 1)
         IN /\ Cardinality(seen) <= 1
            /\ \A d \in docs \cup mine[t] : d.site = s => d.code # c
            /\ Request(t, s, "manual", c)
    /\ Goto(t, "select")
    /\ UNCHANGED <<rows, docs, mine, todo, chosen, year>>

(* bump_counter_to_at_least: any number in the pattern is accepted.        *)
BeginBump(t) ==
    /\ "bump" \in Kinds /\ pc[t] \in {"idle", "open"}
    /\ \E s \in Sites, n \in 1..MaxDocs : Request(t, s, "bump", Format(year, n))
    /\ Goto(t, "select")
    /\ UNCHANGED <<rows, docs, mine, todo, chosen, year>>

(* get_or_create_counter_row: the locking SELECT fixes which rows match    *)
(* and their order; it then locks them one by one.                         *)
SelectRows(t) ==
    /\ pc[t] \in {"select", "reselect"}
    /\ LET seen == {[id |-> r, val |-> Read(t, r)] : r \in Visible(t, req[t].part)}
       IN \/ /\ \E a \in seen : Leads(a, seen) /\ chosen' = [chosen EXCEPT ![t] = a.id]
             /\ todo' = [todo EXCEPT ![t] = seen]
             /\ Goto(t, "lock")
          \/ /\ seen = {} /\ pc[t] = "select"
             /\ Goto(t, "insert")
             /\ UNCHANGED <<todo, chosen>>
    /\ UNCHANGED <<rows, docs, mine, req, year>>

(* Mutant: the SELECT does not wait for the holder of the row lock.        *)
LockRowNoWait(t) ==
    /\ pc[t] = "lock"
    /\ \E a \in todo[t] :
         /\ Leads(a, todo[t])
         /\ rows' = [rows EXCEPT ![a.id].lock = t, ![a.id].new = Read(t, a.id)]
         /\ todo' = [todo EXCEPT ![t] = @ \ {a}]
         /\ Goto(t, IF todo[t] = {a} THEN "use" ELSE "lock")
    /\ UNCHANGED <<docs, mine, req, chosen, year>>

(* One row of the SELECT is locked; the transaction waits while another    *)
(* one holds it and then reads the value that one committed.               *)
LockRow(t) ==
    /\ pc[t] = "lock"
    /\ \E a \in todo[t] :
         /\ Leads(a, todo[t])
         /\ rows[a.id].lock \in {NoTxn, t}
         /\ rows' = [rows EXCEPT ![a.id].lock = t, ![a.id].new = Read(t, a.id)]
         /\ todo' = [todo EXCEPT ![t] = @ \ {a}]
         /\ Goto(t, IF todo[t] = {a} THEN "use" ELSE "lock")
    /\ UNCHANGED <<docs, mine, req, chosen, year>>

(* Mutant: the INSERT is checked against committed rows only.              *)
InsertRowUnchecked(t) ==
    /\ pc[t] = "insert"
    /\ \A q \in RowIds : rows[q].state = "live" => rows[q].part # req[t].part
    /\ \E r \in RowIds :
         /\ rows[r].state = "free"
         /\ rows' = [rows EXCEPT ![r] = Row("pending", req[t].part, t)]
         /\ chosen' = [chosen EXCEPT ![t] = r]
    /\ Goto(t, "use")
    /\ UNCHANGED <<docs, mine, req, todo, year>>

(* The INSERT under a savepoint.  Where the constraint is enforced it      *)
(* waits for the transaction that inserted the same key and fails with     *)
(* IntegrityError once that row is committed.                              *)
InsertRow(t) ==
    /\ pc[t] = "insert"
    /\ LET p == req[t].part
           same == {r \in RowIds : rows[r].state # "free" /\ rows[r].part = p}
       IN \/ /\ Enforced(p) => same = {}
             /\ \E r \in RowIds :
                  /\ \A q \in RowIds : q >= r => rows[q].state = "free"
                  /\ r > 1 => rows[r - 1].state # "free"
                  /\ rows' = [rows EXCEPT ![r] = Row("pending", p, t)]
                  /\ chosen' = [chosen EXCEPT ![t] = r]
             /\ Goto(t, "use")
          \/ /\ Enforced(p)
             /\ \E r \in same : rows[r].state = "live"
             /\ Goto(t, "reselect")
             /\ UNCHANGED <<rows, chosen>>
    /\ UNCHANGED <<docs, mine, req, todo, year>>

(* Mutant: a typed code is written without the comparison with the row.    *)
UseRowBlind(t) ==
    /\ pc[t] = "use"
    /\ rows' = [rows EXCEPT ![chosen[t]].new =
                  IF req[t].kind = "generate" THEN @ + 1 ELSE req[t].asked.seq]
    /\ IF req[t].kind = "bump" THEN Return(t) ELSE Goto(t, "save") /\ UNCHANGED <<req, chosen>>
    /\ UNCHANGED <<docs, mine, todo, year>>

(* Mutant: a typed code does not move the counter.                         *)
UseRowNoBump(t) ==
    /\ pc[t] = "use"
    /\ rows' = [rows EXCEPT ![chosen[t]].new = IF req[t].kind = "generate" THEN @ + 1 ELSE @]
    /\ IF req[t].kind = "bump" THEN Return(t) ELSE Goto(t, "save") /\ UNCHANGED <<req, chosen>>
    /\ UNCHANGED <<docs, mine, todo, year>>

(* The rest of the three operations, on the locked row.                    *)
UseRow(t) ==
    /\ pc[t] = "use"
    /\ LET last == rows[chosen[t]].new
           n == IF req[t].kind = "generate" THEN last + 1 ELSE req[t].asked.seq
       IN rows' = [rows EXCEPT ![chosen[t]].new = IF last < n THEN n ELSE last]
    /\ IF req[t].kind = "bump" THEN Return(t) ELSE Goto(t, "save") /\ UNCHANGED <<req, chosen>>
    /\ UNCHANGED <<docs, mine, todo, year>>

(* The code handed to the caller.                                          *)
CodeOf(t) == IF req[t].kind = "generate"
             THEN Format(req[t].year, rows[chosen[t]].new) ELSE req[t].asked

(* The caller inserts its document (repo.save, db.session.add and flush).  *)
(* The index makes it wait for an uncommitted document with the same key.  *)
Clash(t, S) == \E d \in S : DocKey(d.site, d.code) = DocKey(req[t].site, CodeOf(t))

SaveDoc(t) ==
    /\ pc[t] = "save"
    /\ ~Clash(t, docs \cup UNION {mine[u] : u \in Txns})
    /\ \E i \in 1..MaxDocs :
         /\ i \notin UsedIds /\ \A j \in 1..(i - 1) : j \in UsedIds
         /\ mine' = [mine EXCEPT ![t] = @ \cup
                       {[id |-> i, site |-> req[t].site, kind |-> req[t].kind,
                         part |-> req[t].part, code |-> CodeOf(t)]}]
    /\ Return(t)
    /\ UNCHANGED <<rows, docs, todo, year>>

End(t) ==
    /\ mine' = [mine EXCEPT ![t] = {}]
    /\ todo' = [todo EXCEPT ![t] = {}]
    /\ req' = [req EXCEPT ![t] = Null]
    /\ chosen' = [chosen EXCEPT ![t] = Null]
    /\ Goto(t, "idle")
    /\ UNCHANGED year

Commit(t) ==
    /\ pc[t] = "open"
    /\ docs' = docs \cup mine[t]
    /\ rows' = [r \in RowIds |->
                  IF rows[r].lock = t
                  THEN [rows[r] EXCEPT !.state = "live", !.seq = rows[r].new, !.lock = NoTxn]
                  ELSE rows[r]]
    /\ End(t)

(* Mutant: the number drawn survives the rollback, as with a sequence.     *)
RollbackKeepsNumber(t) ==
    /\ pc[t] # "idle"
    /\ rows' = [r \in RowIds |->
                  IF rows[r].lock # t THEN rows[r]
                  ELSE [rows[r] EXCEPT !.state = "live", !.seq = rows[r].new, !.lock = NoTxn]]
    /\ End(t)
    /\ UNCHANGED docs

(* An error of the request (IntegrityError on the document among them), a  *)
(* deadlock resolved by the database or a lost connection.                 *)
Rollback(t) ==
    /\ pc[t] # "idle"
    /\ rows' = [r \in RowIds |->
                  IF rows[r].lock # t THEN rows[r]
                  ELSE IF rows[r].state = "pending" THEN NoRow
                  ELSE [rows[r] EXCEPT !.new = rows[r].seq, !.lock = NoTxn]]
    /\ End(t)
    /\ UNCHANGED docs

NextYear ==
    /\ year < MaxYear /\ year' = year + 1
    /\ UNCHANGED <<rows, docs, mine, pc, req, todo, chosen>>

Step(t) ==
    \/ BeginGenerate(t) \/ BeginManual(t) \/ BeginBump(t)
    \/ SelectRows(t) \/ LockRow(t) \/ InsertRow(t) \/ UseRow(t)
    \/ SaveDoc(t) \/ Commit(t) \/ Rollback(t)

Next == NextYear \/ \E t \in Txns : Step(t)

Spec == Init /\ [][Next]_vars

-----------------------------------------------------------------------------
Locations == {"idle", "open", "select", "lock", "insert", "reselect", "use", "save"}

(* Type invariant of the counter table and of the transactions' registers. *)
TypeOK ==
    /\ rows \in [RowIds -> Rows]
    /\ docs \subseteq Docs
    /\ mine \in [Txns -> SUBSET Docs]
    /\ pc \in [Txns -> Locations]
    /\ req \in [Txns -> Requests \cup {Null}]
    /\ todo \in [Txns -> SUBSET [id : RowIds, val : Nat]]
    /\ chosen \in [Txns -> RowIds \cup {Null}]
    /\ \A t \in Txns : /\ pc[t] \in {"idle", "open"} => req[t] = Null
                       /\ pc[t] \notin {"idle", "open"} => req[t] \in Requests
                       /\ pc[t] \in {"lock", "use", "save"} => chosen[t] \in RowIds
    /\ year \in Years

(* The partitions the database protects: the unique constraint sees every  *)
(* column, or their row was there before the concurrent requests came.     *)
Guarded(p) == Enforced(p) \/ \E r \in DOMAIN Seeded : Seeded[r] = p

SameCounter(r, q) == /\ rows[r].state # "free" /\ rows[q].state # "free"
                     /\ rows[r].part = rows[q].part

(* A guarded partition has one counter row, whoever creates it, and a      *)
(* creator that lost the race finds the winner's row (the RuntimeError of  *)
(* get_or_create_counter_row is never raised).                             *)
OneRowPerPartition ==
    /\ \A r, q \in RowIds : SameCounter(r, q) /\ Guarded(rows[r].part) => r = q
    /\ \A t \in Txns : pc[t] = "reselect" => Visible(t, req[t].part) # {}

(* Two committed documents of a guarded partition never carry the same     *)
(* generated number, whatever manual codes and bumps ran in between.       *)
GeneratedCodesUnique ==
    \A d, e \in docs : /\ d.kind = "generate" /\ e.kind = "generate"
                       /\ d.part = e.part /\ d.code.seq = e.code.seq
                       /\ Guarded(d.part)
                       => d = e

(* The series has no holes: a number is given back by a rollback, and a    *)
(* counter never runs ahead of the committed documents of its partition.   *)
GapFree ==
    \A r \in RowIds : rows[r].state = "live" /\ Guarded(rows[r].part) =>
        {d.code.seq : d \in {e \in docs : e.part = rows[r].part}} = 1..rows[r].seq

(* A generated code is never refused for a committed document's sake: if   *)
(* it were, the rollback would restore the counter and every later request *)
(* would be refused the same code.                                         *)
GeneratedNeverRefused ==
    \A t \in Txns : pc[t] = "save" /\ req[t].kind = "generate" /\ Guarded(req[t].part)
                    => ~Clash(t, docs)

(* No transaction ever lowers a counter another one committed.             *)
CounterNeverRewinds == [][\A r \in RowIds : rows'[r].seq >= rows[r].seq]_vars

=============================================================================
