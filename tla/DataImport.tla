----------------------------- MODULE DataImport -----------------------------
(***************************************************************************)
(* One data import: the requests that start or retry it, the jobs they     *)
(* queue and the runs of its rows (application_data_import).               *)
(*                                                                         *)
(* The status is both the lock of an import and its result.  It is written *)
(* by the runs and, after the job is queued, once more by the request; an  *)
(* UPDATE leaves it out when the session had loaded that very value.       *)
(***************************************************************************)
EXTENDS Integers, FiniteSets

CONSTANTS
    Rows,         \* the rows of the attached file, by their numbers
    MaxRequests,  \* bound: requests to start or retry in a history
    MaxRacing,    \* bound: the requests after these come while nothing races
    Handlers,     \* which of the kinds below the imports of a history may have
    Null

Whole == -1   \* row_index of the log of a run that failed before its rows

Requests == 1..MaxRequests   \* numbered as they come
Places == {"worker", "inline"}
Runs == Requests \X Places
Indexes == Rows \cup {Whole}
Log == [row : Indexes, success : BOOLEAN]
Statuses == {"NOT_STARTED", "IN_PROGRESS", "SUCCESS", "PARTIAL_SUCCESS", "FAILED"}

(* What the handler of a doctype does to the transaction of the run:       *)
(*   nested     Stock Reconciliation only flushes, as a handler should;     *)
(*   commits    Item commits its row, and with it all the run has pending;  *)
(*   rollsBack  Customer and Supplier roll all of that back when the        *)
(*              database refuses their row.                                 *)
Kinds == {"nested", "commits", "rollsBack"}

Request == [pc : {"answered"}] \cup
           [pc : {"checked", "queued", "reloaded"}, kind : {"start", "retry"}, seen : Statuses]
Job == [pc : {"over"}] \cup
       [pc : {"queued"}, retry : BOOLEAN, seen : Statuses] \cup
       [pc : {"picked", "begun", "parsed"}, seen : Statuses,
        ok : SUBSET Indexes, bad : SUBSET Rows, todo : SUBSET Indexes,
        fresh : SUBSET Log,   \* logs of this transaction, the successes with their documents
        free : SUBSET Rows]   \* the row whose name the Item handler found free

ASSUME DataImportAssumption ==
    /\ Rows \subseteq Nat /\ Rows # {}
    /\ MaxRequests \in Nat /\ MaxRacing \in Nat
    /\ Handlers \subseteq Kinds
    /\ Null \notin Request \cup Job

VARIABLES
    handler,   \* of the import's doctype
    attached,  \* import_file_key is set
    status,    \* the committed status
    logs,      \* data_import_logs
    imported,  \* how often each row's document was inserted
    req,       \* per request: its place in the code and the status it loaded
    run,       \* per run: its place in the code and what it has read
    past       \* history: which of the events below have happened

vars == <<handler, attached, status, logs, imported, req, run, past>>

(* raced: a request passed its guard while a run was yet to begin, or one   *)
(*   job runs twice;  failed: a run failed as a whole;  died: a run's       *)
(*   process ended;  late: a request wrote IN_PROGRESS after its run ended; *)
(*   undone: a handler rolled back other rows, or their logs, with its own. *)
Events == {"raced", "failed", "died", "late", "undone"}

Init ==
    /\ handler \in Handlers
    /\ attached = FALSE
    /\ status = "NOT_STARTED"
    /\ logs = {}
    /\ imported = [w \in Rows |-> 0]
    /\ req = [r \in Requests |-> Null]
    /\ run = [x \in Runs |-> Null]
    /\ past = {}

-----------------------------------------------------------------------------
(* Requests.                                                               *)

AttachFile ==
    /\ attached' = TRUE
    /\ UNCHANGED <<handler, status, logs, imported, req, run, past>>

(* Mutant: a retry is also allowed once everything is imported.            *)
AllowedAlways == [start |-> {"NOT_STARTED"}, retry |-> {"FAILED", "PARTIAL_SUCCESS", "SUCCESS"}]

Allowed == [start |-> {"NOT_STARTED"}, retry |-> {"FAILED", "PARTIAL_SUCCESS"}]

At(r, pc) == req[r] # Null /\ req[r].pc = pc
InRun(x, pc) == run[x] # Null /\ run[x].pc = pc
Goto(r, pc) == req' = [req EXCEPT ![r].pc = pc]
Answer(r) == req' = [req EXCEPT ![r] = [pc |-> "answered"]]

(* A run that will come, of which the status says nothing yet.             *)
Awaited(r) ==
    \/ At(r, "checked")
    \/ \E p \in Places : InRun(<<r, p>>, "queued") \/ InRun(<<r, p>>, "picked")

Check(r) ==
    /\ attached /\ req[r] = Null /\ \A q \in 1..(r-1) : req[q] # Null
    /\ \E kind \in DOMAIN Allowed :
          /\ status \in Allowed[kind]
          /\ req' = [req EXCEPT ![r] = [pc |-> "checked", kind |-> kind, seen |-> status]]
    /\ past' = past \cup {e \in {"raced"} : \E q \in Requests : Awaited(q)}
    /\ r > MaxRacing => "raced" \notin past'
    /\ UNCHANGED <<handler, attached, status, logs, imported, run>>

(* The job is queued; or an error falls back to a run in the request's own *)
(* thread, whose session holds the row already; and the error may be that  *)
(* the answer of a queue that took the job was lost.                       *)
Enqueue(r) ==
    /\ At(r, "checked")
    /\ \E to \in SUBSET Places :
          /\ to # {}
          /\ run' = [x \in Runs |-> IF x[1] = r /\ x[2] \in to
                                    THEN [pc |-> "queued", retry |-> req[r].kind = "retry",
                                          seen |-> req[r].seen]
                                    ELSE run[x]]
          /\ IF "inline" \in to THEN Answer(r) ELSE Goto(r, "queued")
          /\ past' = past \cup {e \in {"raced"} : to = Places}
    /\ UNCHANGED <<handler, attached, status, logs, imported>>

(* start_by_id has returned, and db.session.get reads the row again unless *)
(* its object is still alive; retry has it at hand.                        *)
Reload(r) ==
    /\ At(r, "queued") /\ req[r].kind = "start"
    /\ \E s \in {status, req[r].seen} : req' = [req EXCEPT ![r].pc = "reloaded", ![r].seen = s]
    /\ UNCHANGED <<handler, attached, status, logs, imported, run, past>>

Over(x) == InRun(x, "over")
Merge(seen, new) == IF seen = new THEN status ELSE new

Mark(r) ==
    /\ At(r, "reloaded") \/ (At(r, "queued") /\ req[r].kind = "retry")
    /\ status' = Merge(req[r].seen, "IN_PROGRESS")
    /\ Answer(r)
    /\ past' = past \cup {e \in {"late"} : Over(<<r, "worker">>) /\ req[r].seen # "IN_PROGRESS"}
    /\ UNCHANGED <<handler, attached, logs, imported, run>>

(* The request's process ends after it queued the job.                     *)
RequestDies(r) ==
    /\ At(r, "queued") \/ At(r, "reloaded")
    /\ Answer(r)
    /\ UNCHANGED <<handler, attached, status, logs, imported, run, past>>

-----------------------------------------------------------------------------
(* run_import.                                                             *)

Step(x, record) == run' = [run EXCEPT ![x] = record]
Logged(success) == {w \in Indexes : [row |-> w, success |-> success] \in logs}

Picked(seen, ok, todo) ==
    [pc |-> "picked", seen |-> seen, ok |-> ok, bad |-> {}, todo |-> todo,
     fresh |-> {}, free |-> {}]

(* Mutant: a retry, too, takes every row of the file.                      *)
PickAll(x) ==
    /\ InRun(x, "queued")
    /\ Step(x, Picked(status, {}, Indexes))
    /\ UNCHANGED <<handler, attached, status, logs, imported, req, past>>

(* The row and, on retry, its logs are read.                               *)
Pick(x) ==
    /\ InRun(x, "queued")
    /\ Step(x, Picked(IF x[2] = "inline" THEN run[x].seen ELSE status,
                      IF run[x].retry THEN Logged(TRUE) ELSE {},
                      IF run[x].retry THEN Logged(FALSE) ELSE Indexes))
    /\ UNCHANGED <<handler, attached, status, logs, imported, req, past>>

(* The logs of what is to be done again go, and that is committed.         *)
Begin(x) ==
    /\ InRun(x, "picked")
    /\ logs' = {l \in logs : l.row \notin run[x].todo}
    /\ status' = Merge(run[x].seen, "IN_PROGRESS")
    /\ Step(x, [run[x] EXCEPT !.pc = "begun"])
    /\ UNCHANGED <<handler, attached, imported, req, past>>

(* The row is read again; the file has headers and rows that can be used.  *)
Parse(x) ==
    /\ InRun(x, "begun")
    /\ Step(x, [run[x] EXCEPT !.pc = "parsed", !.seen = status])
    /\ UNCHANGED <<handler, attached, status, logs, imported, req, past>>

(* Mutant: a run is a success when one of its rows is.                     *)
VerdictAnyRow(ok, failed) == IF failed = {} \/ ok # {} THEN "SUCCESS" ELSE "FAILED"

Verdict(ok, failed) ==
    IF failed = {} THEN "SUCCESS" ELSE IF ok = {} THEN "FAILED" ELSE "PARTIAL_SUCCESS"

(* The rows, each in a savepoint of its own.                               *)
Left(x) == run[x].todo \cap Rows

(* A row is counted, and logged in the transaction that goes on.           *)
RowEnds(x, w, success, before, seen) ==
    Step(x, [pc |-> "parsed", seen |-> seen,
             ok |-> IF success THEN run[x].ok \cup {w} ELSE run[x].ok,
             bad |-> IF success THEN run[x].bad ELSE run[x].bad \cup {w},
             todo |-> run[x].todo \ {w},
             fresh |-> before \cup {[row |-> w, success |-> success]},
             free |-> {}])

Insert(x, w) ==
    /\ handler # "commits"
    /\ RowEnds(x, w, TRUE, run[x].fresh, run[x].seen)
    /\ UNCHANGED <<handler, attached, status, logs, imported, req, past>>

(* Refused by a check of the handler: the savepoint is all that is undone. *)
Refuse(x, w) ==
    /\ run[x].free \subseteq {w}
    /\ RowEnds(x, w, FALSE, run[x].fresh, run[x].seen)
    /\ UNCHANGED <<handler, attached, status, logs, imported, req, past>>

(* Mutant: an item is created whatever its name.                           *)
AnyName(x, w) ==
    /\ handler = "commits" /\ run[x].free = {}
    /\ Step(x, [run[x] EXCEPT !.free = {w}])
    /\ UNCHANGED <<handler, attached, status, logs, imported, req, past>>

(* create_item finds no item of the row's name.                            *)
FindNameFree(x, w) ==
    /\ handler = "commits" /\ run[x].free = {} /\ imported[w] = 0
    /\ Step(x, [run[x] EXCEPT !.free = {w}])
    /\ UNCHANGED <<handler, attached, status, logs, imported, req, past>>

(* It commits, which ends the run's transaction under its savepoint: the   *)
(* row is in, and fails at the handler's next access to the database.      *)
CommitRow(x, w) ==
    /\ handler = "commits" /\ run[x].free = {w}
    /\ imported' = [imported EXCEPT ![w] = @ + 1]
    /\ logs' = logs \cup run[x].fresh
    /\ RowEnds(x, w, FALSE, {}, status)
    /\ UNCHANGED <<handler, attached, status, req, past>>

(* The database refuses the row and the handler rolls the session back.    *)
RollBack(x, w) ==
    /\ handler = "rollsBack" \/ (handler = "commits" /\ run[x].free = {w})
    /\ RowEnds(x, w, FALSE, {}, status)
    /\ past' = past \cup {e \in {"undone"} : run[x].fresh # {}}
    /\ UNCHANGED <<handler, attached, status, logs, imported, req>>

Row(x) ==
    /\ InRun(x, "parsed")
    /\ \E w \in Left(x) :
          /\ \A v \in Left(x) : w <= v
          /\ Insert(x, w) \/ Refuse(x, w) \/ FindNameFree(x, w) \/ CommitRow(x, w) \/ RollBack(x, w)

Inserted(x) ==
    [w \in Rows |-> IF [row |-> w, success |-> TRUE] \in run[x].fresh THEN imported[w] + 1
                   ELSE imported[w]]

(* The logs not committed yet, the documents that go with them, and the    *)
(* verdict on the rows counted.                                            *)
Finish(x) ==
    /\ InRun(x, "parsed") /\ Left(x) = {}
    /\ imported' = Inserted(x)
    /\ logs' = logs \cup run[x].fresh
    /\ status' = Merge(run[x].seen, Verdict(run[x].ok, run[x].bad))
    /\ Step(x, [pc |-> "over"])
    /\ UNCHANGED <<handler, attached, req, past>>

(* Mutant: the rows are not undone with the run that failed.               *)
FailKeepsRows(x) ==
    /\ InRun(x, "parsed")
    /\ imported' = Inserted(x)
    /\ status' = "FAILED"
    /\ Step(x, [pc |-> "over"])
    /\ past' = past \cup {"failed"}
    /\ UNCHANGED <<handler, attached, logs, req>>

(* Mutant: the status is left to the request that finds out.               *)
FailSilently(x) ==
    /\ InRun(x, "begun") \/ InRun(x, "parsed")
    /\ Step(x, [pc |-> "over"])
    /\ past' = past \cup {"failed"}
    /\ UNCHANGED <<handler, attached, status, logs, imported, req>>

(* Mutant: the log of the failed run has no row index.                     *)
FailNoIndex(x) ==
    /\ InRun(x, "begun")
    /\ logs' = logs \cup {[row |-> Null, success |-> FALSE]}
    /\ status' = "FAILED"
    /\ Step(x, [pc |-> "over"])
    /\ past' = past \cup {"failed"}
    /\ UNCHANGED <<handler, attached, imported, req>>

(* Any error outside a row, the time limit of the job included: what is    *)
(* not committed is undone, what a handler has committed stays.            *)
Fail(x) ==
    /\ InRun(x, "begun") \/ InRun(x, "parsed")
    /\ logs' = IF logs = {} THEN {[row |-> Whole, success |-> FALSE]} ELSE logs
    /\ status' = "FAILED"
    /\ Step(x, [pc |-> "over"])
    /\ past' = past \cup {"failed"}
    /\ UNCHANGED <<handler, attached, imported, req>>

(* The process ends: what is not committed is lost, and nobody is told.    *)
RunDies(x) ==
    /\ run[x] # Null /\ ~Over(x)
    /\ Step(x, [pc |-> "over"])
    /\ past' = past \cup {"died"}
    /\ UNCHANGED <<handler, attached, status, logs, imported, req>>

RunStep(x) == Pick(x) \/ Begin(x) \/ Parse(x) \/ Row(x) \/ Finish(x) \/ Fail(x)

Next ==
    \/ AttachFile
    \/ \E r \in Requests : Check(r) \/ Enqueue(r) \/ Reload(r) \/ Mark(r) \/ RequestDies(r)
    \/ \E x \in Runs : RunStep(x) \/ RunDies(x)

(* A job that is queued is taken up and runs on: the queue has workers and *)
(* every job a time limit.  Nothing else is promised.                      *)
Fairness == \A x \in Runs : WF_vars(RunStep(x))

Spec == Init /\ [][Next]_vars /\ Fairness

-----------------------------------------------------------------------------
(* Type invariant of the import, its logs, the requests and the runs.      *)
TypeOK ==
    /\ handler \in Handlers
    /\ attached \in BOOLEAN
    /\ status \in Statuses
    /\ logs \subseteq Log
    /\ imported \in [Rows -> Nat]
    /\ req \in [Requests -> {Null} \cup Request]
    /\ run \in [Runs -> {Null} \cup Job]
    /\ past \subseteq Events

(* However often an import is retried, and wherever its runs fail, no row  *)
(* is inserted twice, unless two requests passed their guards before       *)
(* either's run had begun, or the queue's answer was lost.  The rows that  *)
(* the Item handler committed are tried again: only the name refuses them. *)
RowsOnce == "raced" \notin past => \A w \in Rows : imported[w] <= 1

(* Without that race no log is false to a row: what is logged as imported  *)
(* is, and never logged as failed as well; and what is imported is logged  *)
(* so, but for the rows the Item handler commits, which never are.         *)
LogsTrue ==
    "raced" \notin past =>
        /\ \A w \in Rows : w \in Logged(TRUE) => imported[w] = 1
        /\ \A w \in Rows : imported[w] = 1 =>
              IF handler = "commits" THEN w \notin Logged(TRUE) ELSE w \in Logged(TRUE)
        /\ Logged(TRUE) \cap Logged(FALSE) = {}

(* An import reported as a success has imported all of its rows, as long   *)
(* as none of its runs failed as a whole and no handler rolled back rows   *)
(* or logs of others.                                                      *)
SuccessMeansImported ==
    status = "SUCCESS" /\ past \cap {"raced", "failed", "undone"} = {} =>
        \A w \in Rows : imported[w] = 1

(* An import that has succeeded is never taken up again, unless by a race  *)
(* or by the request that marks it after its run has ended.                *)
SuccessIsFinal ==
    [][status = "SUCCESS" => status' = "SUCCESS" \/ past' \cap {"raced", "late"} # {}]_vars

(* An import does not stay in progress, which both guards refuse for good: *)
(* it ends, unless its run's process died, the request overwrote the       *)
(* result, or two runs wrote the status each by what it had loaded.        *)
Settles ==
    status = "IN_PROGRESS" ~>
        (status # "IN_PROGRESS" \/ past \cap {"raced", "died", "late"} # {})
=============================================================================
