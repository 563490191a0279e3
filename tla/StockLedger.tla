----------------------------- MODULE StockLedger -----------------------------
(***************************************************************************)
(* The stock ledger (app/application_stock/engine) driven by the submit    *)
(* and cancel handlers of stock entries and stock reconciliations.  A      *)
(* request reads the document and the ledger without locks, then locks the *)
(* document and the item-warehouse pairs, writes and commits.  The locks   *)
(* are held to the commit, so the write phase is one step; what the        *)
(* request read before it may be out of date by then.                      *)
(***************************************************************************)
EXTENDS Integers, Sequences, FiniteSets, SequencesExt

CONSTANTS
    Requests,  \* concurrent requests
    Pairs,     \* item-warehouse pairs
    Entries,   \* document -> [time, type, lines], a line [qty, rate, source, target]
    MaxRows,   \* bound: rows ever written to the ledger
    Null       \* SQL NULL

Documents == DOMAIN Entries

Types == {"receipt", "issue", "transfer", "reconciliation"}
Lines == [qty : Nat, rate : Nat \cup {Null},
          source : Pairs \cup {Null}, target : Pairs \cup {Null}]

(* Posting times are microseconds, far apart for different documents.      *)
ASSUME EntriesAssumption ==
    /\ MaxRows \in Nat
    /\ \A d \in Documents : Entries[d].time \in Nat /\ Entries[d].type \in Types
    /\ \A d \in Documents : Entries[d].lines \in Seq(Lines)
    /\ \A d \in Documents : \A k \in DOMAIN Entries[d].lines :
          LET l == Entries[d].lines[k]
          IN /\ Entries[d].type \in {"issue", "transfer"} => l.source # Null
             /\ Entries[d].type # "issue" => l.target # Null
             /\ Entries[d].type # "reconciliation" => l.qty # 0 /\ l.rate # Null

(* SQL NULL is no number.                                                  *)
ASSUME NullAssumption == Null \notin Int

VARIABLES
    sle,      \* stock_ledger_entries in primary-key order
    bin,      \* bins: the quantity and rate of each pair
    status,   \* doc_status of the documents
    journal,  \* the automatic journals of each document, oldest first
    reg,      \* per request: what it read before taking its locks
    unpriced  \* history: entries of which a submit found nothing to post

vars == <<sle, bin, status, journal, reg, unpriced>>

Time(d) == Entries[d].time
Counts(d) == Entries[d].type = "reconciliation"

(* validate_unique_items: a reconciliation does not name an item twice.    *)
ASSUME CountsAssumption ==
    \A d \in Documents : Counts(d) => \A j, k \in DOMAIN Entries[d].lines :
        Entries[d].lines[j].target = Entries[d].lines[k].target => j = k

-----------------------------------------------------------------------------
(* The engine: operators on a ledger.                                      *)

Later(log, i, j) == log[i].time > log[j].time \/ (log[i].time = log[j].time /\ i >= j)
Latest(log, S) == IF S = {} THEN [after |-> 0, rate |-> 0]
                  ELSE log[CHOOSE i \in S : \A j \in S : Later(log, i, j)]

LiveRows(log, p) == {i \in DOMAIN log : log[i].pair = p /\ log[i].live}

(* get_last_sle_before_dt: inclusive of the given time.                    *)
LastAt(log, p, t) == Latest(log, {i \in LiveRows(log, p) : log[i].time <= t})

(* Rates are integers: a division drops the rest.  Stock may be negative.  *)
Over(a, b) == IF b > 0 THEN a \div b ELSE (-a) \div (-b)

(* Moving average; a positive quantity without an incoming rate falls into *)
(* the branch of pure revaluations, which a row without quantity keeps its *)
(* value in.                                                               *)
Valued(prev, x) ==
    CASE x.qty > 0 /\ x.in # Null ->
           LET after == prev.after + x.qty
           IN [after |-> after, value |-> x.qty * x.in,
               rate |-> IF after = 0 THEN 0
                        ELSE Over(prev.after * prev.rate + x.qty * x.in, after)]
      [] x.qty < 0 ->
           [after |-> prev.after + x.qty, value |-> x.qty * prev.rate, rate |-> prev.rate]
      [] OTHER ->
           [after |-> prev.after,
            value |-> IF x.qty # 0 /\ prev.after = 0 THEN 0 ELSE x.value,
            rate |-> IF prev.after = 0 THEN 0
                     ELSE Over(prev.after * prev.rate + x.value, prev.after)]

(* Mutant: a reconciliation is valued like any other row.                  *)
CountedPlain(prev, x) == Valued(prev, x)

(* The reconciliation mode of append_sle: the quantity moves and the value *)
(* with it.                                                                *)
Counted(prev, x) ==
    IF x.qty = 0 THEN Valued(prev, x)
    ELSE LET after == prev.after + x.qty
         IN [after |-> after, value |-> x.value,
             rate |-> IF after = 0 THEN prev.rate
                      ELSE Over(prev.after * prev.rate + x.value, after)]

AppendRow(log, x, Value(_, _)) ==
    LET prev == LastAt(log, x.pair, x.time)
        v == Value(prev, x)
    IN Append(log, [pair |-> x.pair, time |-> x.time, doc |-> x.doc, qty |-> x.qty,
                    in |-> x.in, rate |-> v.rate, value |-> v.value,
                    before |-> prev.after, after |-> v.after,
                    live |-> TRUE, reversal |-> FALSE])

AppendSle(log, x) == AppendRow(log, x, Valued)
AppendFor(d, log, x) == IF Counts(d) THEN AppendRow(log, x, Counted) ELSE AppendSle(log, x)
AppendAll(log, d, xs) == FoldLeft(LAMBDA l, x : AppendFor(d, l, x), log, xs)

(* cancel_sle: the row is flagged and a live reversal row follows it.      *)
CancelSle(log, i) ==
    Append([log EXCEPT ![i].live = FALSE],
           [log[i] EXCEPT !.time = @ + 1, !.qty = -@, !.value = -@,
                          !.before = log[i].after, !.after = log[i].before,
                          !.live = TRUE, !.reversal = TRUE])

InTimeOrder(log, S) ==
    [k \in 1..Cardinality(S) |-> CHOOSE i \in S : Cardinality({j \in S : Later(log, i, j)}) = k]

(* Mutant: the start time is left out of the query.                        *)
StreamWhole(log, p, t, skipped) ==
    InTimeOrder(log, {i \in LiveRows(log, p) : log[i].doc \notin skipped})

(* _stream_strictly_after: live rows, reversals included, in time order,   *)
(* but those of the document types that are left out.                      *)
Stream(log, p, t, skipped) ==
    InTimeOrder(log, {i \in LiveRows(log, p) : log[i].time > t /\ log[i].doc \notin skipped})

CancelAll(log, stream) == FoldLeft(LAMBDA l, i : CancelSle(l, i), log, stream)
Again(row, k) == [row EXCEPT !.time = @ + (k - 1)]
AppendAgain(log, old, stream) ==
    FoldLeftDomain(LAMBDA l, k : AppendSle(l, Again(old[stream[k]], k)), log, stream)

(* repost_from, for a stream within one batch.  A row of a reconciliation  *)
(* is rebuilt as a normal one.                                             *)
Repost(log, p, t, skipped) ==
    LET stream == Stream(log, p, t, skipped)
    IN AppendAgain(CancelAll(log, stream), log, stream)

RepostAll(log, ps, t, skipped) ==
    FoldSet(LAMBDA p, l : Repost(l, p, t, skipped), log, ps)

(* cancel_sle refuses a row with a negative rate.                          *)
Replayable(log, ps, t, skipped) ==
    \A p \in ps : \A i \in LiveRows(log, p) :
        log[i].time > t /\ log[i].doc \notin skipped => log[i].rate >= 0

(* Mutant: a reconciliation replays the later counts, too.                 *)
SkipNothing(d) == {}

(* What the replay of a submit leaves alone.                               *)
Skipped(d) == IF Counts(d) THEN {e \in Documents : Counts(e)} ELSE {}

(* Mutant: the bin takes the row written last, not the latest in time.     *)
DerivedByInsertion(log, ps) ==
    [p \in Pairs |-> IF p \in ps /\ LiveRows(log, p) # {}
                     THEN LET last == log[CHOOSE i \in LiveRows(log, p) :
                                            \A j \in LiveRows(log, p) : i >= j]
                          IN [qty |-> last.after, rate |-> last.rate]
                     ELSE bin[p]]

(* derive_bin of each pair a document touches.                             *)
Derived(log, ps) ==
    [p \in Pairs |-> IF p \in ps
                     THEN LET last == Latest(log, LiveRows(log, p))
                          IN [qty |-> last.after, rate |-> last.rate]
                     ELSE bin[p]]

RowsOf(log, d) == {i \in DOMAIN log : log[i].doc = d}
LiveRowsOf(log, d) == {i \in RowsOf(log, d) : log[i].live}

(* What rows, or legs, are worth and move together.                        *)
Worth(log, S) == SumFunction([i \in S |-> log[i].value])
Quantity(log, S) == SumFunction([i \in S |-> log[i].qty])

-----------------------------------------------------------------------------
(* The handlers.  A journal is the signed amount of its stock-side line.   *)

Init ==
    /\ sle = <<>>
    /\ bin = [p \in Pairs |-> [qty |-> 0, rate |-> 0]]
    /\ status = [d \in Documents |-> "draft"]
    /\ journal = [d \in Documents |-> <<>>]
    /\ reg = [r \in Requests |-> Null]
    /\ unpriced = {}

(* build_intents_for_reconciliation: from the stock as it is now to the    *)
(* count.                                                                  *)
CountLeg(d, l) ==
    LET now == LastAt(sle, l.target, Time(d))
        rate == IF l.rate = Null THEN now.rate ELSE l.rate
    IN [pair |-> l.target, time |-> Time(d), doc |-> d, qty |-> l.qty - now.after, in |-> Null,
        value |-> l.qty * rate - now.after * now.rate]

(* build_intents_for_stock_entry: a transfer takes its rate from the       *)
(* source as it is now.                                                    *)
Legs(d, l) ==
    LET leg(p, q, in) == [pair |-> p, time |-> Time(d), doc |-> d, qty |-> q,
                          in |-> in, value |-> 0]
    IN CASE Entries[d].type = "receipt" -> <<leg(l.target, l.qty, l.rate)>>
         [] Entries[d].type = "issue" -> <<leg(l.source, -l.qty, Null)>>
         [] Entries[d].type = "transfer" ->
              <<leg(l.source, -l.qty, Null),
                leg(l.target, l.qty, LastAt(sle, l.source, Time(d)).rate)>>
         [] Counts(d) -> <<CountLeg(d, l)>>

Intents(d) == FoldLeft(LAMBDA xs, l : xs \o Legs(d, l), <<>>, Entries[d].lines)

PairsOf(xs) == {xs[k].pair : k \in DOMAIN xs}

(* _detect_backdated.                                                      *)
Backdated(d, ps) == \E p \in ps : \E i \in LiveRows(sle, p) : sle[i].time > Time(d)

(* The submit before its locks.                                            *)
ReadForSubmit(r, d) ==
    /\ reg[r] = Null /\ status[d] = "draft"
    /\ LET xs == Intents(d)
       IN reg' = [reg EXCEPT ![r] = [op |-> "submit", doc |-> d, intents |-> xs,
                                     backdated |-> Backdated(d, PairsOf(xs))]]
    /\ UNCHANGED <<sle, bin, status, journal, unpriced>>

(* Mutant: no idempotency check before the journal is written.             *)
PostAgain(d, amount) ==
    IF amount = 0 THEN UNCHANGED journal
    ELSE journal' = [journal EXCEPT ![d] = Append(@, [type |-> "AUTO", amount |-> amount])]

(* Mutant: an entry, too, posts an empty journal if there is no difference. *)
PostEmpty(d, amount) ==
    /\ \A k \in DOMAIN journal[d] : journal[d][k].type # "AUTO"
    /\ journal' = [journal EXCEPT ![d] = Append(@, [type |-> "AUTO", amount |-> amount])]

(* PostingService.post: refused while the document has an AUTO journal.    *)
(* Only a reconciliation posts a difference of nothing.                    *)
Post(d, amount) ==
    IF amount = 0 /\ ~Counts(d) THEN UNCHANGED journal
    ELSE /\ \A k \in DOMAIN journal[d] : journal[d][k].type # "AUTO"
         /\ journal' = [journal EXCEPT ![d] = Append(@, [type |-> "AUTO", amount |-> amount])]

(* PostingService.cancel: reverses the newest submitted automatic journal. *)
PostReversal(d) ==
    /\ journal[d] # <<>>
    /\ journal' = [journal EXCEPT ![d] =
                     Append(@, [type |-> "REVERSAL", amount |-> -Last(@).amount])]

(* What a submit posts: a reconciliation the difference it has planned, an *)
(* entry what its rows say.                                                *)
Difference(d, xs, log) ==
    IF Counts(d) THEN Worth(xs, DOMAIN xs)
                 ELSE Worth(log, LiveRowsOf(log, d))

(* The locked phase of a submit.  The second guard reads the object loaded *)
(* before the lock, so it passes whenever the first did.                   *)
WriteSubmit(r) ==
    /\ reg[r] # Null /\ reg[r].op = "submit"
    /\ LET d == reg[r].doc
           ps == PairsOf(reg[r].intents)
           added == AppendAll(sle, d, reg[r].intents)
       IN /\ \A k \in DOMAIN reg[r].intents :
                reg[r].intents[k].in # Null => reg[r].intents[k].in >= 0
          /\ reg[r].backdated => Replayable(added, ps, Time(d), Skipped(d))
          /\ sle' = IF reg[r].backdated THEN RepostAll(added, ps, Time(d), Skipped(d)) ELSE added
          /\ Len(sle') <= MaxRows
          /\ bin' = Derived(sle', ps)
          /\ Post(d, Difference(d, reg[r].intents, sle'))
          /\ status' = [status EXCEPT ![d] = "submitted"]
          /\ unpriced' = IF ~Counts(d) /\ Difference(d, reg[r].intents, sle') = 0
                         THEN unpriced \cup {d} ELSE unpriced
    /\ reg' = [reg EXCEPT ![r] = Null]

(* The cancel before its locks.                                            *)
ReadForCancel(r, d) ==
    /\ reg[r] = Null /\ status[d] = "submitted"
    /\ LET own == LiveRowsOf(sle, d)
       IN /\ own # {}
          /\ reg' = [reg EXCEPT ![r] =
                       [op |-> "cancel", doc |-> d, rows |-> own, worth |-> Worth(sle, own)]]
    /\ UNCHANGED <<sle, bin, status, journal, unpriced>>

Flagged(log, S) == [i \in DOMAIN log |-> IF i \in S THEN [log[i] EXCEPT !.live = FALSE] ELSE log[i]]

(* Mutant: the rows are flagged and nothing after them is replayed.        *)
WriteCancelNoReplay(r) ==
    /\ reg[r] # Null /\ reg[r].op = "cancel"
    /\ LET d == reg[r].doc
           ps == {sle[i].pair : i \in reg[r].rows}
       IN /\ sle' = Flagged(sle, reg[r].rows)
          /\ Len(sle') <= MaxRows
          /\ bin' = Derived(sle', ps)
          /\ IF reg[r].worth # 0 THEN PostReversal(d) ELSE UNCHANGED journal
          /\ status' = [status EXCEPT ![d] = "cancelled"]
    /\ reg' = [reg EXCEPT ![r] = Null]
    /\ UNCHANGED unpriced

(* The locked phase of a cancel, on the rows found before it.              *)
WriteCancel(r) ==
    /\ reg[r] # Null /\ reg[r].op = "cancel"
    /\ LET d == reg[r].doc
           ps == {sle[i].pair : i \in reg[r].rows}
           first == CHOOSE t \in {sle[i].time : i \in reg[r].rows} :
                       \A i \in reg[r].rows : t <= sle[i].time
           kept == Flagged(sle, reg[r].rows)
       IN /\ Replayable(kept, ps, first, {})
          /\ sle' = RepostAll(kept, ps, first, {})
          /\ Len(sle') <= MaxRows
          /\ bin' = Derived(sle', ps)
          /\ IF reg[r].worth # 0 THEN PostReversal(d) ELSE UNCHANGED journal
          /\ status' = [status EXCEPT ![d] = "cancelled"]
    /\ reg' = [reg EXCEPT ![r] = Null]
    /\ UNCHANGED unpriced

(* An error or a deadlock rolls everything back.                           *)
Abort(r) ==
    /\ reg[r] # Null
    /\ reg' = [reg EXCEPT ![r] = Null]
    /\ UNCHANGED <<sle, bin, status, journal, unpriced>>

Next == \E r \in Requests :
    \/ \E d \in Documents : ReadForSubmit(r, d) \/ ReadForCancel(r, d)
    \/ WriteSubmit(r) \/ WriteCancel(r) \/ Abort(r)

Spec == Init /\ [][Next]_vars

-----------------------------------------------------------------------------
Sle == [pair : Pairs, time : Nat, doc : Documents, qty : Int, in : Nat \cup {Null},
        rate : Int, value : Int, before : Int, after : Int,
        live : BOOLEAN, reversal : BOOLEAN]

Leg == [pair : Pairs, time : Nat, doc : Documents, qty : Int, in : Int \cup {Null}, value : Int]

(* Type invariant of the ledger, the bins, the journals and the requests.  *)
TypeOK ==
    /\ sle \in Seq(Sle)
    /\ bin \in [Pairs -> [qty : Int, rate : Int]]
    /\ status \in [Documents -> {"draft", "submitted", "cancelled"}]
    /\ journal \in [Documents -> Seq([type : {"AUTO", "REVERSAL"}, amount : Int])]
    /\ \A d \in Documents : \A k \in DOMAIN journal[d] : ~Counts(d) => journal[d][k].amount # 0
    /\ unpriced \subseteq Documents
    /\ DOMAIN reg = Requests
    /\ \A r \in Requests : reg[r] # Null =>
          /\ reg[r].doc \in Documents
          /\ reg[r].op = "submit" => reg[r].intents \in Seq(Leg) /\ reg[r].backdated \in BOOLEAN
          /\ reg[r].op = "cancel" => reg[r].rows \in (SUBSET DOMAIN sle) \ {{}} /\ reg[r].worth \in Int

(* A bin is the snapshot of its pair: what the ledger's latest live row    *)
(* says, whichever submits, cancels and replays wrote the rows.            *)
BinIsSnapshot ==
    \A p \in Pairs : LET last == Latest(sle, LiveRows(sle, p))
                     IN bin[p] = [qty |-> last.after, rate |-> last.rate]

Moved(d, p) == Quantity(sle, {i \in RowsOf(sle, d) : sle[i].pair = p})
Ordered(d, p) ==
    LET xs == Intents(d) IN Quantity(xs, {k \in DOMAIN xs : xs[k].pair = p})

(* Every row ever written for a stock entry, dead ones and reversals       *)
(* included, adds up to what it orders: replays cancel out, and the        *)
(* idempotency of its journal refuses a second submit, a concurrent one    *)
(* too, unless one of them found nothing to post.                          *)
EntryPostedOnce ==
    \A d \in Documents : ~Counts(d) /\ status[d] # "draft" /\ d \notin unpriced =>
        \A p \in Pairs : Moved(d, p) = Ordered(d, p)

Replayed(p) == \E i \in DOMAIN sle : sle[i].pair = p /\ sle[i].reversal
Balances(p) ==
    /\ bin[p].qty = Quantity(sle, LiveRows(sle, p))
    /\ bin[p].qty * bin[p].rate = Worth(sle, LiveRows(sle, p))

(* A reconciliation before a later one: its replay leaves that one alone.  *)
Leapt(p) ==
    \E i, j \in LiveRows(sle, p) : Counts(sle[i].doc) /\ i < j /\ sle[j].time < sle[i].time

(* "Repost if backdated", stock_entry_service.py:587: a pair that was not  *)
(* replayed, nor a count on it passed over, needed no replay.              *)
UnreplayedBalances == \A p \in Pairs : Replayed(p) \/ Leapt(p) \/ Balances(p)

(* A posting never touches what the ledger said up to its own posting time *)
(* but for the document's own rows, and writes no row before it.           *)
HistoryKept ==
    [][\A r \in Requests : reg[r] # Null /\ sle' # sle /\ reg'[r] = Null =>
          LET d == reg[r].doc
          IN /\ \A i \in DOMAIN sle : sle'[i] # sle[i] => sle[i].doc = d \/ sle[i].time > Time(d)
             /\ \A i \in DOMAIN sle' \ DOMAIN sle : sle'[i].time >= Time(d)]_vars

RowsAt(d, p) == {i \in RowsOf(sle, d) : sle[i].pair = p}

(* No document of an earlier time was cancelled, and no entry of an        *)
(* earlier time posted after d.                                            *)
Undisturbed(d, p) ==
    \A e \in Documents : Time(e) < Time(d) =>
        /\ status[e] # "cancelled"
        /\ ~Counts(e) => \A j \in RowsAt(e, p) :
              \E i \in RowsAt(e, p) : i <= j /\ \A k \in RowsAt(d, p) : i < k

(* A count stands: whatever is posted, cancelled or replayed around it, at *)
(* the time of a reconciliation the ledger holds the quantity and the rate *)
(* that were counted, unless an entry before it changed after it; another  *)
(* reconciliation before it may come later.                                *)
CountStands ==
    \A d \in Documents : Counts(d) /\ status[d] = "submitted" =>
        \A k \in DOMAIN Entries[d].lines :
            LET l == Entries[d].lines[k]
                now == LastAt(sle, l.target, Time(d))
            IN Undisturbed(d, l.target) =>
                   /\ now.after = l.qty
                   /\ l.qty # 0 /\ l.rate # Null => now.rate = l.rate

Rebuilt(d) == \E i \in RowsOf(sle, d) : sle[i].reversal

Posted(d) == SumFunction([k \in DOMAIN journal[d] |-> journal[d][k].amount])

(* The general ledger holds what the stock ledger says of a document that  *)
(* no replay has rebuilt, also where the difference was planned, or the    *)
(* rate of a transfer taken, before the locks; an entry whose rows come to *)
(* nothing by a second submit keeps its journal.                           *)
BooksMatchStock ==
    \A d \in Documents : status[d] = "submitted" /\ ~Rebuilt(d) =>
        LET worth == Worth(sle, LiveRowsOf(sle, d))
        IN worth = Posted(d) \/ (d \in unpriced /\ worth = 0)

Stock(p) == SumFunction([d \in {e \in Documents : status[e] = "submitted"} |-> Ordered(d, p)])

(* replay.py:112, "Recompute valuation stream STRICTLY AFTER start_dt": the *)
(* bins hold what the submitted documents moved.                           *)
BinCountsDocuments == \A p \in Pairs : bin[p].qty = Stock(p)
=============================================================================
