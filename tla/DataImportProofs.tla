-------------------------- MODULE DataImportProofs --------------------------
(***************************************************************************)
(* Proofs about data imports, for any file and any number of requests.     *)
(*                                                                         *)
(* Until two requests race there is one request or run at a time that may  *)
(* still change anything but the status, and the status shows it once it   *)
(* has begun (Alone).  The rows it inserts are not imported yet: by its    *)
(* choice of rows or, where the handler commits them, by the name it finds *)
(* free (Work).  While every run gets to its rows, and no handler rolls    *)
(* back others than its own, no row is forgotten (NothingLost).            *)
(***************************************************************************)
EXTENDS DataImport, TLAPS

Raced == "raced" \in past
Spoilt == "failed" \in past \/ "undone" \in past

Live(x) == run[x] # Null /\ run[x].pc # "over"
Has(x) == run[x] # Null /\ run[x].pc \in {"picked", "begun", "parsed"}
Begun(x) == run[x] # Null /\ run[x].pc \in {"begun", "parsed"}

(* One actor at a time, and a status that others respect.                  *)
Alone ==
    /\ \A x, y \in Runs : Live(x) /\ Live(y) => x = y
    /\ \A q \in Requests : At(q, "checked") => \A x \in Runs : ~Live(x)
    /\ \A q, r \in Requests : At(q, "checked") /\ At(r, "checked") => q = r
    /\ \A x \in Runs : Begun(x) => status = "IN_PROGRESS"
    /\ \A x \in Runs : InRun(x, "picked") /\ run[x].seen = "IN_PROGRESS" => status = "IN_PROGRESS"
    /\ \A x \in Runs : InRun(x, "queued") \/ InRun(x, "picked") => status # "SUCCESS"
    /\ \A q \in Requests : At(q, "checked") => status # "SUCCESS" /\ req[q].seen # "IN_PROGRESS"
    /\ \A x \in Runs : InRun(x, "queued") => run[x].seen # "IN_PROGRESS"

(* What a run is about to do has not been done.                            *)
Work ==
    /\ \A w \in Rows : status = "NOT_STARTED" => imported[w] = 0
    /\ \A q \in Requests, w \in Rows : At(q, "checked") /\ req[q].kind = "start" => imported[w] = 0
    /\ \A x \in Runs, w \in Rows : InRun(x, "queued") /\ ~run[x].retry => imported[w] = 0
    /\ \A x \in Runs, w \in Rows :
          Has(x) /\ handler # "commits" /\ w \in run[x].todo => imported[w] = 0
    /\ \A x \in Runs, w \in Rows : Has(x) /\ w \in run[x].free => imported[w] = 0
    /\ \A x \in Runs, w \in Rows :
          Has(x) /\ [row |-> w, success |-> TRUE] \in run[x].fresh => imported[w] = 0
    /\ \A x \in Runs : Begun(x) => \A l \in logs : l.row \notin run[x].todo
    /\ \A x \in Runs : Begun(x) => \A l \in logs, k \in run[x].fresh : l.row # k.row
    /\ \A x \in Runs, w \in Rows : InRun(x, "picked") /\ w \in Logged(FALSE) => w \in run[x].todo
    /\ \A x \in Runs, w \in Rows : Begun(x) /\ w \in Logged(FALSE) => w \in run[x].bad

Covered == \A w \in Rows : imported[w] = 1 \/ w \in Logged(FALSE)

(* While every run gets to its rows, a row not imported is logged as       *)
(* failed or in the hands of a run.                                        *)
NothingLost ==
    /\ status \in {"FAILED", "PARTIAL_SUCCESS"} => Covered
    /\ \A q \in Requests : At(q, "checked") /\ req[q].kind = "retry" => Covered
    /\ \A x \in Runs : InRun(x, "queued") /\ run[x].retry => Covered
    /\ \A x \in Runs, w \in Rows : Has(x) =>
          \/ w \in run[x].todo \/ imported[w] = 1 \/ w \in Logged(FALSE)
          \/ \E l \in run[x].fresh : l.row = w
    /\ status = "SUCCESS" => \A w \in Rows : imported[w] = 1

WholeFails == [row |-> Whole, success |-> TRUE] \notin logs
JobOfRequest ==
    \A r \in Requests : At(r, "queued") \/ At(r, "reloaded") => run[<<r, "worker">>] # Null

(* What a run has logged and not committed is of rows it is done with, of  *)
(* each row once, and a failure is among those it counts.                  *)
FreshOf(x) ==
    /\ \A l \in run[x].fresh : l.row \in Rows /\ l.row \notin run[x].todo
    /\ \A l \in run[x].fresh : l.success => handler # "commits"
    /\ \A l \in run[x].fresh : ~l.success => l.row \in run[x].bad
    /\ \A k, l \in run[x].fresh : k.row = l.row => k = l
    /\ run[x].free \subseteq run[x].todo
    /\ run[x].pc # "parsed" => run[x].fresh = {} /\ run[x].free = {}

FreshRows == \A x \in Runs : Has(x) => FreshOf(x)

Inductive ==
    /\ TypeOK /\ WholeFails /\ JobOfRequest /\ FreshRows
    /\ ~Raced => Alone /\ Work /\ RowsOnce /\ LogsTrue
    /\ ~Raced /\ ~Spoilt => NothingLost

(* An import that nobody has touched satisfies the invariant.              *)
LEMMA InitInductive == Init => Inductive
<1> SUFFICES ASSUME Init PROVE Inductive
  OBVIOUS
<1>1. TypeOK
  BY DEF Init, TypeOK, Statuses
<1>2. WholeFails /\ JobOfRequest /\ FreshRows
  BY DEF Init, WholeFails, JobOfRequest, FreshRows, Has, At
<1>3. Alone /\ Work
  BY DEF Init, Alone, Work, Live, Begun, Has, At, InRun, Logged
<1>4. RowsOnce /\ LogsTrue
  BY DEF Init, RowsOnce, LogsTrue, Logged
<1>5. NothingLost
  BY DEF Init, NothingLost, Has, InRun, At
<1> QED
  BY <1>1, <1>2, <1>3, <1>4, <1>5 DEF Inductive

-----------------------------------------------------------------------------
(* A request that moves on while the jobs stay as they are.                *)
LEMMA CheckStep ==
    ASSUME Inductive, NEW r \in Requests, Check(r)
    PROVE  Inductive'
<1>1. PICK kind \in {"start", "retry"} :
        /\ status \in Allowed[kind]
        /\ req' = [req EXCEPT ![r] = [pc |-> "checked", kind |-> kind, seen |-> status]]
  BY DEF Check, Allowed
<1>2. /\ req'[r] = [pc |-> "checked", kind |-> kind, seen |-> status]
      /\ \A q \in Requests \ {r} : req'[q] = req[q]
      /\ req[r] = Null
      /\ UNCHANGED <<handler, attached, status, logs, imported, run>>
  BY <1>1 DEF Check, Inductive, TypeOK
<1>3. TypeOK'
  <2>1. req' \in [Requests -> {Null} \cup Request]
    BY <1>1 DEF Inductive, TypeOK, Request
  <2>2. past' \subseteq Events
    BY DEF Check, Inductive, TypeOK, Events
  <2> QED
    BY <1>2, <2>1, <2>2 DEF Inductive, TypeOK
<1>4. WholeFails' /\ JobOfRequest' /\ FreshRows'
  BY <1>2 DEF Inductive, WholeFails, JobOfRequest, FreshRows, FreshOf, Has, At
<1>5. ASSUME ~Raced'
      PROVE  /\ ~Raced
             /\ \A q \in Requests : ~At(q, "checked")
             /\ \A x \in Runs : ~Live(x)
             /\ status \in {"NOT_STARTED", "FAILED", "PARTIAL_SUCCESS"}
             /\ kind = "start" => status = "NOT_STARTED"
             /\ kind = "retry" => status \in {"FAILED", "PARTIAL_SUCCESS"}
  <2>1. /\ ~Raced
        /\ \A q \in Requests : ~Awaited(q)
    BY <1>5 DEF Check, Raced
  <2>2. status \in {"NOT_STARTED", "FAILED", "PARTIAL_SUCCESS"}
    BY <1>1 DEF Allowed
  <2>3. \A q \in Requests, p \in Places : ~InRun(<<q, p>>, "queued") /\ ~InRun(<<q, p>>, "picked")
    BY <2>1 DEF Awaited
  <2>4. \A x \in Runs : ~Begun(x)
    BY <2>1, <2>2 DEF Inductive, Alone
  <2>5. \A x \in Runs : ~Live(x)
    BY <2>3, <2>4 DEF Runs, Live, Begun, InRun, Inductive, TypeOK, Job
  <2> QED
    BY <1>1, <2>1, <2>2, <2>5 DEF Awaited, Allowed
<1>6. ~Raced' => Alone'
  BY <1>2, <1>5 DEF Inductive, Alone, Live, Begun, InRun, At
<1>7. ~Raced' => Work'
  BY <1>2, <1>5 DEF Inductive, Work, Live, Begun, Has, InRun, At, Logged
<1>8. ~Raced' => RowsOnce' /\ LogsTrue'
  BY <1>2, <1>5 DEF Inductive, RowsOnce, LogsTrue, Logged, Raced
<1>9. ~Raced' /\ ~Spoilt' => NothingLost'
  <2>1. ~Spoilt' => ~Spoilt
    BY DEF Check, Spoilt
  <2> QED
    BY <1>2, <1>5, <2>1 DEF Inductive, NothingLost, Covered, Live, Has, InRun, At, Logged
<1> QED
  BY <1>3, <1>4, <1>6, <1>7, <1>8, <1>9 DEF Inductive

(* The job is queued, runs in the request's thread, or both.               *)
LEMMA EnqueueStep ==
    ASSUME Inductive, NEW r \in Requests, Enqueue(r)
    PROVE  Inductive'
<1> DEFINE new == [pc |-> "queued", retry |-> req[r].kind = "retry", seen |-> req[r].seen]
<1>1. PICK to \in SUBSET Places :
        /\ to # {}
        /\ run' = [x \in Runs |-> IF x[1] = r /\ x[2] \in to THEN new ELSE run[x]]
        /\ IF "inline" \in to THEN Answer(r) ELSE Goto(r, "queued")
        /\ past' = past \cup {e \in {"raced"} : to = Places}
  BY DEF Enqueue
<1>2. /\ req[r] \in Request /\ req[r].pc = "checked"
      /\ req[r].kind \in {"start", "retry"} /\ req[r].seen \in Statuses
      /\ UNCHANGED <<handler, attached, status, logs, imported>>
  BY DEF Enqueue, At, Inductive, TypeOK, Request
<1>3. new \in Job /\ new # Null
  <2>1. new \in Job
    BY <1>2 DEF Job
  <2> QED
    BY <2>1, DataImportAssumption
<1>4. /\ \A x \in Runs : IF x[1] = r /\ x[2] \in to THEN run'[x] = new ELSE run'[x] = run[x]
      /\ \A q \in Requests \ {r} : req'[q] = req[q]
      /\ req'[r].pc \in {"answered", "queued"}
      /\ req'[r].pc = "queued" => "worker" \in to
      /\ req' \in [Requests -> {Null} \cup Request]
  <2>1. CASE "inline" \in to
    BY <1>1, <2>1 DEF Answer, Inductive, TypeOK, Request
  <2>2. CASE "inline" \notin to
    <3>1. req' = [req EXCEPT ![r] = [req[r] EXCEPT !.pc = "queued"]]
      BY <1>1, <2>2 DEF Goto
    <3>2. [req[r] EXCEPT !.pc = "queued"] \in Request
      BY <1>2 DEF Request
    <3> QED
      BY <1>1, <1>2, <2>2, <3>1, <3>2 DEF Inductive, TypeOK, Places
  <2> QED
    BY <2>1, <2>2
<1>5. TypeOK'
  <2>1. past' \subseteq Events
    BY <1>1 DEF Inductive, TypeOK, Events
  <2>2. run' \in [Runs -> {Null} \cup Job]
    BY <1>1, <1>3 DEF Inductive, TypeOK
  <2> QED
    BY <1>2, <1>4, <2>1, <2>2 DEF Inductive, TypeOK
<1>6. WholeFails' /\ JobOfRequest'
  <2>1. ASSUME NEW q \in Requests, At(q, "queued")' \/ At(q, "reloaded")'
        PROVE  run'[<<q, "worker">>] # Null
    <3>1. <<q, "worker">> \in Runs /\ <<q, "worker">>[1] = q /\ <<q, "worker">>[2] = "worker"
      BY DEF Runs, Places
    <3>2. CASE q = r
      BY <1>3, <1>4, <2>1, <3>1, <3>2 DEF At
    <3>3. CASE q # r
      BY <1>4, <2>1, <3>1, <3>3 DEF At, Inductive, JobOfRequest
    <3> QED
      BY <3>2, <3>3
  <2> QED
    BY <1>2, <2>1 DEF Inductive, WholeFails, JobOfRequest
<1>13. FreshRows'
  BY <1>2, <1>4 DEF Inductive, FreshRows, FreshOf, Has
<1>7. ASSUME ~Raced'
      PROVE  /\ ~Raced
             /\ \A q \in Requests : ~At(q, "checked")'
             /\ \A x \in Runs : ~Live(x)
             /\ \E x \in Runs : /\ run'[x] = new
                               /\ \A y \in Runs : Live(y)' => y = x
             /\ status # "SUCCESS"
  <2>1. ~Raced /\ to # Places
    BY <1>1, <1>7 DEF Raced
  <2>2. PICK p \in Places : to = {p}
    BY <1>1, <2>1 DEF Places
  <2>3. /\ At(r, "checked") /\ \A x \in Runs : ~Live(x)
        /\ \A q \in Requests : At(q, "checked") => q = r
        /\ status # "SUCCESS"
    BY <2>1 DEF Inductive, Alone, Enqueue
  <2>4. \A q \in Requests : ~At(q, "checked")'
    BY <1>4, <2>3 DEF At
  <2>5. /\ <<r, p>> \in Runs /\ run'[<<r, p>>] = new
        /\ \A y \in Runs : y # <<r, p>> => run'[y] = run[y]
    BY <1>4, <2>2 DEF Runs
  <2>6. \A y \in Runs : Live(y)' => y = <<r, p>>
    BY <2>3, <2>5 DEF Live
  <2> QED
    BY <2>1, <2>3, <2>4, <2>5, <2>6
<1>8. /\ new.pc = "queued" /\ new.retry = (req[r].kind = "retry")
      /\ At(r, "checked")
  BY DEF Enqueue
<1>9. ~Raced' => Alone'
  BY <1>2, <1>4, <1>7, <1>8 DEF Inductive, Alone, Live, Begun, InRun, At
<1>10. ~Raced' => Work'
  BY <1>2, <1>4, <1>7, <1>8, ZenonT(60) DEF Inductive, Work, Live, Begun, Has, InRun, At, Logged
<1>11. ~Raced' => RowsOnce' /\ LogsTrue'
  BY <1>2, <1>7 DEF Inductive, RowsOnce, LogsTrue, Logged, Raced
<1>12. ~Raced' /\ ~Spoilt' => NothingLost'
  <2>1. ~Spoilt' => ~Spoilt
    BY <1>1 DEF Spoilt
  <2> QED
    BY <1>2, <1>4, <1>7, <1>8, <2>1, ZenonT(60) DEF Inductive, NothingLost, Covered, Live, Has, InRun, At, Logged
<1> QED
  BY <1>5, <1>6, <1>9, <1>10, <1>11, <1>12, <1>13 DEF Inductive

(* A request past its queue: only the status may change, and only to       *)
(* IN_PROGRESS.                                                            *)
LEMMA AnswerStep ==
    ASSUME Inductive, NEW r \in Requests,
           At(r, "queued") \/ At(r, "reloaded"),
           \A q \in Requests \ {r} : req'[q] = req[q],
           req' \in [Requests -> {Null} \cup Request],
           At(r, "checked")' = FALSE,
           status' \in {status, "IN_PROGRESS"},
           past' \in {past, past \cup {"late"}},
           UNCHANGED <<handler, attached, logs, imported, run>>
    PROVE  Inductive'
<1>1. TypeOK'
  BY DEF Inductive, TypeOK, Statuses, Events
<1>2. WholeFails' /\ JobOfRequest' /\ FreshRows'
  BY DEF Inductive, WholeFails, JobOfRequest, FreshRows, FreshOf, Has, At
<1>3. (Raced' <=> Raced) /\ (Spoilt' <=> Spoilt)
  BY DEF Raced, Spoilt
<1>4. \A q \in Requests : At(q, "checked")' => At(q, "checked") /\ req'[q] = req[q]
  BY DEF At
<1>5. ~Raced => Alone'
  BY <1>4 DEF Inductive, Alone, Live, Begun, InRun
<1>6. ~Raced => Work'
  BY <1>4 DEF Inductive, Work, Begun, Has, InRun, Logged
<1>7. ~Raced => RowsOnce' /\ LogsTrue'
  BY DEF Inductive, RowsOnce, LogsTrue, Logged, Raced
<1>8. ~Raced /\ ~Spoilt => NothingLost'
  BY <1>4 DEF Inductive, NothingLost, Covered, Has, InRun, Logged
<1> QED
  BY <1>1, <1>2, <1>3, <1>5, <1>6, <1>7, <1>8 DEF Inductive

LEMMA ReloadStep ==
    ASSUME Inductive, NEW r \in Requests, Reload(r)
    PROVE  Inductive'
<1>1. PICK t \in {status, req[r].seen} : req' = [req EXCEPT ![r].pc = "reloaded", ![r].seen = t]
  BY DEF Reload
<1>2. req[r] \in Request /\ req[r].pc = "queued" /\ req[r].kind \in {"start", "retry"} /\ t \in Statuses
  BY DEF Reload, At, Inductive, TypeOK, Request
<1>3. [req[r] EXCEPT !.pc = "reloaded", !.seen = t] \in Request
  BY <1>2 DEF Request
<1>4. req' = [req EXCEPT ![r] = [req[r] EXCEPT !.pc = "reloaded", !.seen = t]]
  BY <1>1, <1>2 DEF Inductive, TypeOK
<1>5. req' \in [Requests -> {Null} \cup Request] /\ req'[r].pc = "reloaded"
  BY <1>2, <1>3, <1>4 DEF Inductive, TypeOK, Request
<1> QED
  BY <1>4, <1>5, AnswerStep DEF Reload, At, Inductive, TypeOK

LEMMA MarkStep ==
    ASSUME Inductive, NEW r \in Requests, Mark(r) \/ RequestDies(r)
    PROVE  Inductive'
<1>1. /\ req' = [req EXCEPT ![r] = [pc |-> "answered"]]
      /\ At(r, "queued") \/ At(r, "reloaded")
      /\ UNCHANGED <<handler, attached, logs, imported, run>>
  BY DEF Mark, RequestDies, Answer
<1>2. [pc |-> "answered"] \in Request
  BY DEF Request
<1>3. /\ status' \in {status, "IN_PROGRESS"}
      /\ past' \in {past, past \cup {"late"}}
  BY DEF Mark, RequestDies, Merge
<1> QED
  BY <1>1, <1>2, <1>3, AnswerStep DEF At, Inductive, TypeOK

-----------------------------------------------------------------------------
(* Where a run that has read its rows stands.                              *)
LEMMA JobFields ==
    ASSUME TypeOK, NEW x \in Runs
    PROVE  /\ Has(x) => run[x] \in [pc : {"picked", "begun", "parsed"}, seen : Statuses,
                                    ok : SUBSET Indexes, bad : SUBSET Rows,
                                    todo : SUBSET Indexes, fresh : SUBSET Log,
                                    free : SUBSET Rows]
           /\ InRun(x, "queued") => run[x].seen \in Statuses /\ run[x].retry \in BOOLEAN
           /\ Live(x) => run[x].pc \in {"queued", "picked", "begun", "parsed"}
BY DEF TypeOK, Has, InRun, Live, Job

LEMMA PickStep ==
    ASSUME Inductive, NEW x \in Runs, Pick(x)
    PROVE  Inductive'
<1> DEFINE new == Picked(IF x[2] = "inline" THEN run[x].seen ELSE status,
                         IF run[x].retry THEN Logged(TRUE) ELSE {},
                         IF run[x].retry THEN Logged(FALSE) ELSE Indexes)
<1>1. /\ run' = [run EXCEPT ![x] = new]
      /\ InRun(x, "queued") /\ Live(x)
      /\ UNCHANGED <<handler, attached, status, logs, imported, req, past>>
  BY DEF Pick, Step, InRun, Live
<1>2. new \in Job
  <2>1. Logged(TRUE) \subseteq Indexes /\ Logged(FALSE) \subseteq Indexes
    BY DEF Logged
  <2>2. new.seen \in Statuses
    BY <1>1, JobFields DEF Inductive, TypeOK, Picked
  <2> QED
    BY <2>1, <2>2 DEF Job, Picked
<1>3. /\ run'[x] = new /\ new # Null
      /\ \A y \in Runs \ {x} : run'[y] = run[y]
  BY <1>1, <1>2, DataImportAssumption DEF Inductive, TypeOK
<1>4. TypeOK'
  BY <1>1, <1>2 DEF Inductive, TypeOK
<1>6. ~Raced => /\ \A y \in Runs : Live(y)' => y = x
                /\ \A q \in Requests : ~At(q, "checked")
                /\ status # "SUCCESS"
  BY <1>1, <1>3 DEF Inductive, Alone, Live
<1>7. /\ new.pc = "picked"
      /\ new.todo = IF run[x].retry THEN Logged(FALSE) ELSE Indexes
      /\ new.seen = IF x[2] = "inline" THEN run[x].seen ELSE status
      /\ new.fresh = {} /\ new.free = {}
  BY DEF Picked
<1> HIDE DEF new
<1>5. WholeFails' /\ JobOfRequest' /\ FreshRows'
  BY <1>1, <1>3, <1>7 DEF Inductive, WholeFails, JobOfRequest, FreshRows, FreshOf, Has, At
<1>8. ~Raced => Alone'
  BY <1>1, <1>3, <1>6, <1>7 DEF Inductive, Alone, Live, Begun, InRun, At
<1>9. ~Raced => Work'
  <2> SUFFICES ASSUME ~Raced PROVE Work'
    OBVIOUS
  <2>1. handler # "commits" => \A w \in Rows : w \in new.todo => imported[w] = 0
    <3> SUFFICES ASSUME handler # "commits" PROVE \A w \in Rows : w \in new.todo => imported[w] = 0
      OBVIOUS
    <3>1. CASE run[x].retry
      <4>1. Logged(TRUE) \cap Logged(FALSE) = {}
        BY DEF Inductive, LogsTrue, Raced
      <4>0. \A w \in Rows : imported[w] \in {0, 1}
        BY DEF Inductive, RowsOnce, Raced, TypeOK
      <4>2. \A w \in Rows : imported[w] = 1 => w \in Logged(TRUE)
        BY DEF Inductive, LogsTrue, Raced
      <4> QED
        BY <1>7, <3>1, <4>0, <4>1, <4>2
    <3>2. CASE ~run[x].retry
      BY <1>1, <1>7, <3>2 DEF Inductive, Work
    <3> QED
      BY <3>1, <3>2
  <2>2. \A w \in Rows : w \in Logged(FALSE) => w \in new.todo
    BY <1>7 DEF Logged
  <2>3. \A y \in Runs : Live(y)' => run'[y] = new /\ y = x
    BY <1>3, <1>6
  <2>4. /\ \A y \in Runs : Has(y)' => Live(y)'
        /\ \A y \in Runs : ~Begun(y)' /\ ~InRun(y, "queued")'
        /\ \A q \in Requests : ~At(q, "checked")'
        /\ Logged(FALSE)' = Logged(FALSE)
    BY <1>1, <1>3, <1>6, <1>7, <2>3 DEF Live, Has, Begun, InRun, At, Logged
  <2>5. \A w \in Rows : status' = "NOT_STARTED" => imported'[w] = 0
    BY <1>1 DEF Inductive, Work
  <2>6. ASSUME NEW y \in Runs, Has(y)', NEW w \in Rows
        PROVE  /\ handler' # "commits" /\ w \in run'[y].todo => imported'[w] = 0
               /\ w \notin run'[y].free
               /\ [row |-> w, success |-> TRUE] \notin run'[y].fresh
               /\ w \in Logged(FALSE)' => w \in run'[y].todo
    <3>1. run'[y] = new /\ UNCHANGED <<handler, imported>>
      BY <1>1, <2>3, <2>4, <2>6
    <3> QED
      BY <1>7, <2>1, <2>2, <2>4, <3>1
  <2>7. \A y \in Runs : InRun(y, "picked")' => Has(y)'
    BY DEF InRun, Has
  <2> QED
    BY <2>4, <2>5, <2>6, <2>7 DEF Work
<1>10. ~Raced => RowsOnce' /\ LogsTrue'
  BY <1>1 DEF Inductive, RowsOnce, LogsTrue, Logged, Raced
<1>11. ~Raced /\ ~Spoilt => NothingLost'
  <2> SUFFICES ASSUME ~Raced, ~Spoilt PROVE NothingLost'
    OBVIOUS
  <2>1. \A w \in Rows : w \in new.todo \/ imported[w] = 1
    <3>1. CASE run[x].retry
      BY <1>1, <1>7, <3>1 DEF Inductive, NothingLost, Covered
    <3>2. CASE ~run[x].retry
      BY <1>7, <3>2 DEF Indexes
    <3> QED
      BY <3>1, <3>2
  <2> QED
    BY <1>1, <1>3, <1>6, <1>7, <2>1 DEF Inductive, NothingLost, Covered, Live, Has, InRun, At, Logged
<1> QED
  BY <1>1, <1>4, <1>5, <1>8, <1>9, <1>10, <1>11 DEF Inductive, Raced, Spoilt

LEMMA BeginStep ==
    ASSUME Inductive, NEW x \in Runs, Begin(x)
    PROVE  Inductive'
<1> DEFINE new == [run[x] EXCEPT !.pc = "begun"]
<1>1. /\ run' = [run EXCEPT ![x] = new]
      /\ InRun(x, "picked") /\ Live(x) /\ Has(x)
      /\ logs' = {l \in logs : l.row \notin run[x].todo}
      /\ status' = Merge(run[x].seen, "IN_PROGRESS")
      /\ UNCHANGED <<handler, attached, imported, req, past>>
  BY DEF Begin, Step, InRun, Live, Has
<1>2. /\ new \in Job /\ new.pc = "begun"
      /\ new.todo = run[x].todo /\ new.seen = run[x].seen
      /\ new.fresh = run[x].fresh /\ new.free = run[x].free
  <2>1. run[x] \in Job /\ run[x].pc = "picked"
    BY <1>1 DEF InRun, Inductive, TypeOK
  <2>2. run[x] \in [pc : {"picked", "begun", "parsed"}, seen : Statuses,
                    ok : SUBSET Indexes, bad : SUBSET Rows, todo : SUBSET Indexes,
                    fresh : SUBSET Log, free : SUBSET Rows]
    BY <1>1, JobFields DEF Inductive
  <2> QED
    BY <2>2 DEF Job
<1>3. /\ run'[x] = new /\ new # Null
      /\ \A y \in Runs \ {x} : run'[y] = run[y]
  BY <1>1, <1>2, DataImportAssumption DEF Inductive, TypeOK
<1> HIDE DEF new
<1>4. TypeOK'
  BY <1>1, <1>2 DEF Inductive, TypeOK, Merge, Statuses
<1>5. WholeFails' /\ JobOfRequest' /\ FreshRows'
  <2>1. run[x].fresh = {} /\ run[x].free = {}
    BY <1>1 DEF Inductive, FreshRows, FreshOf, InRun
  <2> QED
    BY <1>1, <1>2, <1>3, <2>1 DEF Inductive, WholeFails, JobOfRequest, FreshRows, FreshOf, Has, At
<1>11. run[x].fresh = {} /\ run[x].free = {}
  BY <1>1 DEF Inductive, FreshRows, FreshOf, InRun
<1>6. ~Raced => /\ \A y \in Runs : Live(y)' => y = x
                /\ \A q \in Requests : ~At(q, "checked")
                /\ status' = "IN_PROGRESS"
  <2> SUFFICES ASSUME ~Raced
               PROVE  /\ \A y \in Runs : Live(y)' => y = x
                      /\ \A q \in Requests : ~At(q, "checked")
                      /\ status' = "IN_PROGRESS"
    OBVIOUS
  <2>1. Alone
    BY DEF Inductive
  <2> QED
    BY <1>1, <1>3, <2>1 DEF Alone, Live, Merge
<1>7. ~Raced => Alone'
  BY <1>1, <1>2, <1>3, <1>6 DEF Alone, Live, Begun, InRun, At
<1>12. ~Raced => \A w \in Rows : w \notin Logged(FALSE)'
  BY <1>1 DEF Inductive, Work, Logged
<1>8. ~Raced => Work'
  <2> SUFFICES ASSUME ~Raced PROVE Work'
    OBVIOUS
  <2>1. /\ new.fresh = {} /\ new.free = {}
        /\ \A l \in logs' : l.row \notin new.todo
        /\ \A w \in Rows : handler # "commits" /\ w \in new.todo => imported[w] = 0
    BY <1>1, <1>2, <1>11 DEF Inductive, Work
  <2>2. \A y \in Runs : Live(y)' => run'[y] = new /\ y = x
    BY <1>3, <1>6
  <2>3. /\ \A y \in Runs : (Has(y)' => Live(y)') /\ (Begun(y)' => Live(y)')
        /\ \A y \in Runs : ~InRun(y, "queued")' /\ ~InRun(y, "picked")'
        /\ status' = "IN_PROGRESS"
        /\ \A q \in Requests : ~At(q, "checked")'
    BY <1>1, <1>2, <1>3, <1>6, <2>2 DEF Live, Has, Begun, InRun, At
  <2> QED
    BY <1>1, <1>12, <2>1, <2>2, <2>3 DEF Work
<1>9. ~Raced => RowsOnce' /\ LogsTrue'
  <2> SUFFICES ASSUME ~Raced PROVE RowsOnce' /\ LogsTrue'
    OBVIOUS
  <2>1. /\ RowsOnce /\ LogsTrue
        /\ handler # "commits" => \A w \in Rows : w \in run[x].todo => imported[w] = 0
    BY <1>1 DEF Inductive, Work
  <2>2. \A w \in Indexes, b \in BOOLEAN :
           w \in Logged(b)' <=> w \in Logged(b) /\ w \notin run[x].todo
    BY <1>1 DEF Logged
  <2>3. RowsOnce'
    BY <1>1, <2>1 DEF RowsOnce
  <2>4. (Logged(TRUE) \cap Logged(FALSE) = {})'
    BY <2>1, <2>2 DEF LogsTrue, Logged, Raced
  <2>5. ASSUME NEW w \in Rows
        PROVE  /\ w \in Logged(TRUE)' => imported[w] = 1
               /\ imported[w] = 1 => IF handler = "commits" THEN w \notin Logged(TRUE)'
                                     ELSE w \in Logged(TRUE)'
    <3>1. /\ w \in Logged(TRUE) => imported[w] = 1
          /\ imported[w] = 1 => IF handler = "commits" THEN w \notin Logged(TRUE)
                                ELSE w \in Logged(TRUE)
      BY <2>1 DEF LogsTrue, Raced
    <3>2. w \in Logged(TRUE)' <=> w \in Logged(TRUE) /\ w \notin run[x].todo
      BY <2>2 DEF Indexes
    <3>3. handler # "commits" /\ imported[w] = 1 => w \notin run[x].todo
      BY <2>1
    <3> QED
      BY <3>1, <3>2, <3>3
  <2> QED
    BY <1>1, <2>3, <2>4, <2>5 DEF LogsTrue
<1>10. ~Raced /\ ~Spoilt => NothingLost'
  <2> SUFFICES ASSUME ~Raced, ~Spoilt PROVE NothingLost'
    OBVIOUS
  <2>1. \A w \in Rows : w \in run[x].todo \/ imported[w] = 1
    BY <1>1, <1>11 DEF Inductive, NothingLost, Work
  <2> QED
    BY <1>1, <1>2, <1>3, <1>6, <2>1 DEF NothingLost, Live, Has, InRun, At
<1> QED
  BY <1>1, <1>4, <1>5, <1>7, <1>8, <1>9, <1>10 DEF Inductive, Raced, Spoilt

LEMMA ParseStep ==
    ASSUME Inductive, NEW x \in Runs, Parse(x)
    PROVE  Inductive'
<1> DEFINE new == [run[x] EXCEPT !.pc = "parsed", !.seen = status]
<1>1. /\ run' = [run EXCEPT ![x] = new]
      /\ InRun(x, "begun") /\ Live(x) /\ Has(x) /\ Begun(x)
      /\ UNCHANGED <<handler, attached, status, logs, imported, req, past>>
  BY DEF Parse, Step, InRun, Live, Has, Begun
<1>2. /\ new \in Job /\ new.pc = "parsed"
      /\ new.todo = run[x].todo /\ new.fresh = run[x].fresh
      /\ new.free = run[x].free /\ new.bad = run[x].bad
  <2>1. status \in Statuses
    BY DEF Inductive, TypeOK
  <2>2. run[x] \in [pc : {"picked", "begun", "parsed"}, seen : Statuses,
                    ok : SUBSET Indexes, bad : SUBSET Rows, todo : SUBSET Indexes,
                    fresh : SUBSET Log, free : SUBSET Rows]
    BY <1>1, JobFields DEF Inductive
  <2> QED
    BY <2>1, <2>2 DEF Job
<1>3. /\ run'[x] = new /\ new # Null
      /\ \A y \in Runs \ {x} : run'[y] = run[y]
  BY <1>1, <1>2, DataImportAssumption DEF Inductive, TypeOK
<1> HIDE DEF new
<1>4. TypeOK'
  BY <1>1, <1>2 DEF Inductive, TypeOK
<1>5. WholeFails' /\ JobOfRequest' /\ FreshRows'
  BY <1>1, <1>2, <1>3 DEF Inductive, WholeFails, JobOfRequest, FreshRows, FreshOf, Has, At
<1>6. ~Raced => Alone' /\ Work'
  BY <1>1, <1>2, <1>3 DEF Inductive, Alone, Work, Live, Begun, Has, InRun, At, Logged
<1>7. ~Raced => RowsOnce' /\ LogsTrue'
  BY <1>1 DEF Inductive, RowsOnce, LogsTrue, Logged, Raced
<1>8. ~Raced /\ ~Spoilt => NothingLost'
  BY <1>1, <1>2, <1>3 DEF Inductive, NothingLost, Covered, Live, Has, InRun, At, Logged
<1> QED
  BY <1>1, <1>4, <1>5, <1>6, <1>7, <1>8 DEF Inductive, Raced, Spoilt

(* The same of a log written out as a record, and of a log as the record   *)
(* it is.                                                                  *)
LEMMA FreshRecord ==
    ASSUME NEW x \in Runs, FreshOf(x), NEW v, NEW b \in BOOLEAN,
           [row |-> v, success |-> b] \in run[x].fresh
    PROVE  /\ v \in Rows /\ v \notin run[x].todo
           /\ b => handler # "commits"
           /\ ~b => v \in run[x].bad
<1> DEFINE l == [row |-> v, success |-> b]
<1>1. l.row = v /\ l.success = b /\ l \in run[x].fresh
  OBVIOUS
<1> HIDE DEF l
<1> QED
  BY <1>1 DEF FreshOf

LEMMA LogRecord ==
    ASSUME NEW l \in Log
    PROVE  l = [row |-> l.row, success |-> l.success] /\ l.success \in BOOLEAN
BY DEF Log

(* A row that ends: the run goes on, with this row behind it.              *)
LEMMA RowStep ==
    ASSUME Inductive, NEW x \in Runs, Row(x)
    PROVE  Inductive'
<1>1. PICK w \in Left(x) :
        Insert(x, w) \/ Refuse(x, w) \/ FindNameFree(x, w) \/ CommitRow(x, w) \/ RollBack(x, w)
  BY DEF Row
<1>2. /\ InRun(x, "parsed") /\ Live(x) /\ Has(x) /\ Begun(x)
      /\ w \in Rows /\ w \in run[x].todo
      /\ run[x] \in [pc : {"picked", "begun", "parsed"}, seen : Statuses,
                     ok : SUBSET Indexes, bad : SUBSET Rows, todo : SUBSET Indexes,
                     fresh : SUBSET Log, free : SUBSET Rows]
      /\ FreshOf(x)
  <2>1. InRun(x, "parsed") /\ Live(x) /\ Has(x) /\ Begun(x)
    BY DEF Row, InRun, Live, Has, Begun
  <2> QED
    BY <2>1, JobFields DEF Left, Inductive, FreshRows
<1> DEFINE Ended(new, success, before) ==
        /\ new.pc = "parsed" /\ new.free = {}
        /\ new.todo = run[x].todo \ {w}
        /\ new.fresh = before \cup {[row |-> w, success |-> success]}
        /\ new.bad = IF success THEN run[x].bad ELSE run[x].bad \cup {w}
(* What the run keeps of its transaction, and what it changes beside it.   *)
<1> DEFINE Keeps(new) ==
        /\ \E success \in BOOLEAN :
              Ended(new, success, run[x].fresh) /\ (success => handler # "commits")
        /\ UNCHANGED <<logs, imported, past>>
<1> DEFINE Finds(new) ==
        /\ new.pc = "parsed" /\ new.free = {w} /\ new.todo = run[x].todo
        /\ new.fresh = run[x].fresh /\ new.bad = run[x].bad
        /\ imported[w] = 0
        /\ UNCHANGED <<logs, imported, past>>
<1> DEFINE Commits(new) ==
        /\ Ended(new, FALSE, {}) /\ handler = "commits" /\ w \in run[x].free
        /\ logs' = logs \cup run[x].fresh
        /\ imported' = [imported EXCEPT ![w] = @ + 1]
        /\ past' = past
<1> DEFINE Undoes(new) ==
        /\ Ended(new, FALSE, {})
        /\ past' = past \cup {e \in {"undone"} : run[x].fresh # {}}
        /\ UNCHANGED <<logs, imported>>
<1>3. PICK new \in Job :
        /\ run' = [run EXCEPT ![x] = new]
        /\ Keeps(new) \/ Finds(new) \/ Commits(new) \/ Undoes(new)
  <2>1. \A success \in BOOLEAN, before \in SUBSET Log, seen \in Statuses :
           RowEnds(x, w, success, before, seen) =>
              \E new \in Job : run' = [run EXCEPT ![x] = new] /\ Ended(new, success, before)
    <3> TAKE success \in BOOLEAN, before \in SUBSET Log, seen \in Statuses
    <3> DEFINE new == [pc |-> "parsed", seen |-> seen,
                       ok |-> IF success THEN run[x].ok \cup {w} ELSE run[x].ok,
                       bad |-> IF success THEN run[x].bad ELSE run[x].bad \cup {w},
                       todo |-> run[x].todo \ {w},
                       fresh |-> before \cup {[row |-> w, success |-> success]},
                       free |-> {}]
    <3>1. [row |-> w, success |-> success] \in Log
      BY <1>2 DEF Log, Indexes
    <3>2. new \in Job
      BY <1>2, <3>1 DEF Job, Indexes
    <3>3. Ended(new, success, before)
      OBVIOUS
    <3> QED
      BY <3>2, <3>3 DEF RowEnds, Step
  <2>2. /\ run[x].fresh \in SUBSET Log /\ {} \in SUBSET Log
        /\ run[x].seen \in Statuses /\ status \in Statuses
    BY <1>2 DEF Inductive, TypeOK
  <2>3. CASE Insert(x, w)
    BY <2>1, <2>2, <2>3 DEF Insert
  <2>4. CASE Refuse(x, w)
    BY <2>1, <2>2, <2>4 DEF Refuse
  <2>5. CASE FindNameFree(x, w)
    <3> DEFINE new == [run[x] EXCEPT !.free = {w}]
    <3>1. new \in Job
      BY <1>2 DEF Job
    <3>2. Finds(new)
      BY <1>2, <2>5 DEF FindNameFree, InRun
    <3> QED
      BY <2>5, <3>1, <3>2 DEF FindNameFree, Step
  <2>6. CASE CommitRow(x, w)
    BY <2>1, <2>2, <2>6 DEF CommitRow
  <2>7. CASE RollBack(x, w)
    BY <2>1, <2>2, <2>7 DEF RollBack
  <2> QED
    BY <1>1, <2>3, <2>4, <2>5, <2>6, <2>7
<1>4. UNCHANGED <<handler, attached, status, req>>
  BY <1>1 DEF Insert, Refuse, FindNameFree, CommitRow, RollBack
<1>5. /\ run'[x] = new /\ new # Null
      /\ \A y \in Runs \ {x} : run'[y] = run[y]
  BY <1>3, DataImportAssumption DEF Inductive, TypeOK
<1>6. /\ new.pc = "parsed" /\ new.todo \subseteq run[x].todo
      /\ (Raced' <=> Raced) /\ (~Spoilt' => ~Spoilt)
  BY <1>3 DEF Raced, Spoilt
<1>7. TypeOK'
  <2>1. logs' \subseteq Log
    BY <1>2, <1>3 DEF Inductive, TypeOK
  <2>2. imported' \in [Rows -> Nat]
    BY <1>2, <1>3 DEF Inductive, TypeOK
  <2>3. past' \subseteq Events
    BY <1>3 DEF Inductive, TypeOK, Events
  <2>4. run' \in [Runs -> {Null} \cup Job]
    BY <1>3 DEF Inductive, TypeOK
  <2> QED
    BY <1>4, <2>1, <2>2, <2>3, <2>4 DEF Inductive, TypeOK
<1>8. WholeFails' /\ JobOfRequest'
  <2>2. Whole \notin Rows
    BY DataImportAssumption DEF Whole
  <2>1. [row |-> Whole, success |-> TRUE] \notin run[x].fresh
    BY <1>2, <2>2, FreshRecord
  <2> QED
    BY <1>3, <1>4, <1>5, <2>1 DEF Inductive, WholeFails, JobOfRequest, At
<1>9. FreshRows'
  <2>0. ASSUME Finds(new) PROVE FreshOf(x)'
    BY <1>2, <1>4, <1>5, <2>0 DEF FreshOf
  <2>3. ASSUME NEW success \in BOOLEAN, NEW before \in {{}, run[x].fresh},
               Ended(new, success, before), success => handler # "commits"
        PROVE  FreshOf(x)'
    <3> DEFINE r == [row |-> w, success |-> success]
    <3>1. r.row = w /\ r.success = success
      OBVIOUS
    <3>2. new.fresh = before \cup {r}
      BY <2>3
    <3> HIDE DEF r
    <3>3. \A l \in before : /\ l.row \in Rows /\ l.row # w /\ l.row \notin run[x].todo
                            /\ (l.success => handler # "commits")
                            /\ (~l.success => l.row \in run[x].bad)
      BY <1>2, <2>3 DEF FreshOf
    <3>4. \A k, l \in before : k.row = l.row => k = l
      BY <1>2, <2>3 DEF FreshOf
    <3>5. \A l \in new.fresh : l.row \in Rows /\ l.row \notin new.todo
      BY <1>2, <2>3, <3>1, <3>2, <3>3
    <3>6. \A l \in new.fresh : l.success => handler # "commits"
      BY <2>3, <3>1, <3>2, <3>3
    <3>7. \A l \in new.fresh : ~l.success => l.row \in new.bad
      BY <2>3, <3>1, <3>2, <3>3
    <3>8. \A k, l \in new.fresh : k.row = l.row => k = l
      BY <3>1, <3>2, <3>3, <3>4
    <3> QED
      BY <1>4, <1>5, <2>3, <3>5, <3>6, <3>7, <3>8 DEF FreshOf
  <2>1. FreshOf(x)'
    BY <1>3, <2>0, <2>3
  <2>2. \A y \in Runs \ {x} : Has(y)' => FreshOf(y)'
    BY <1>4, <1>5 DEF Inductive, FreshRows, FreshOf, Has
  <2> QED
    BY <2>1, <2>2 DEF FreshRows
<1>10. ~Raced => Alone'
  BY <1>2, <1>4, <1>5, <1>6 DEF Inductive, Alone, Live, Begun, InRun, At
<1>11. ~Raced => /\ \A y \in Runs : Live(y)' => y = x
                 /\ \A q \in Requests : ~At(q, "checked")
                 /\ status = "IN_PROGRESS"
  BY <1>2, <1>5 DEF Inductive, Alone, Live
<1>12. ~Raced => /\ \A l \in logs : l.row \notin run[x].todo
                 /\ \A l \in logs, k \in run[x].fresh : l.row # k.row
                 /\ \A v \in Rows : v \in Logged(FALSE) => v \in run[x].bad
                 /\ \A v \in Rows : handler # "commits" /\ v \in run[x].todo => imported[v] = 0
                 /\ \A v \in Rows : v \in run[x].free => imported[v] = 0
                 /\ \A v \in Rows : [row |-> v, success |-> TRUE] \in run[x].fresh => imported[v] = 0
  BY <1>2 DEF Inductive, Work
<1>13. ~Raced => Work'
  <2> SUFFICES ASSUME ~Raced PROVE Work'
    OBVIOUS
  <2>1. \A v \in Rows : handler # "commits" /\ v \in new.todo => imported'[v] = 0
    BY <1>3, <1>6, <1>12
  <2>2. \A v \in Rows : v \in new.free => imported'[v] = 0
    BY <1>3
  <2>3. \A v \in Rows : [row |-> v, success |-> TRUE] \in new.fresh => imported'[v] = 0
    BY <1>2, <1>3, <1>12
  <2>4. \A l \in logs' : l.row \notin new.todo
    BY <1>2, <1>3, <1>6, <1>12 DEF FreshOf
  <2>5. \A l \in logs', k \in new.fresh : l.row # k.row
    <3>1. \A k \in new.fresh : k.row = w \/ (k \in run[x].fresh /\ logs' = logs)
      BY <1>3
    <3>2. \A l \in logs' : l \in logs \/ l \in run[x].fresh
      BY <1>3
    <3>3. \A l \in logs' : l.row # w \/ Finds(new)
      BY <1>2, <1>12, <3>2 DEF FreshOf
    <3>4. CASE Finds(new)
      BY <1>12, <3>4
    <3>5. CASE ~Finds(new)
      BY <1>12, <3>1, <3>3, <3>5
    <3> QED
      BY <3>4, <3>5
  <2>6. \A v \in Rows : v \in Logged(FALSE)' => v \in new.bad
    <3>1. \A v \in Rows : [row |-> v, success |-> FALSE] \in run[x].fresh => v \in run[x].bad
      BY <1>2, FreshRecord
    <3>2. run[x].bad \subseteq new.bad
      BY <1>3
    <3> QED
      BY <1>3, <1>12, <3>1, <3>2 DEF Logged
  <2> QED
    BY <1>4, <1>5, <1>6, <1>11, <2>1, <2>2, <2>3, <2>4, <2>5, <2>6
       DEF Work, Live, Begun, Has, InRun, At
<1>14. ~Raced => RowsOnce' /\ LogsTrue'
  <2> SUFFICES ASSUME ~Raced PROVE RowsOnce' /\ LogsTrue'
    OBVIOUS
  <2>1. RowsOnce /\ LogsTrue /\ imported \in [Rows -> Nat]
    BY DEF Inductive, TypeOK
  <2>2. CASE UNCHANGED <<logs, imported>>
    BY <1>4, <1>6, <2>1, <2>2 DEF RowsOnce, LogsTrue, Logged, Raced
  <2>3. CASE Commits(new)
    <3>1. /\ imported[w] = 0 /\ imported'[w] = 1
          /\ \A v \in Rows \ {w} : imported'[v] = imported[v]
      BY <1>2, <1>12, <2>1, <2>3
    <3>2. /\ Logged(TRUE)' = Logged(TRUE)
          /\ \A v \in Logged(FALSE)' : v \in Logged(FALSE) \/ v \in Rows
      BY <1>2, <2>3, FreshRecord DEF Logged
    <3>3. \A v \in Rows : v \notin Logged(TRUE)
      BY <2>1, <2>3 DEF LogsTrue, Raced
    <3>4. (Logged(TRUE) \cap Logged(FALSE) = {})'
      BY <2>1, <3>2, <3>3 DEF LogsTrue, Raced
    <3> QED
      <4>1. RowsOnce'
        BY <1>6, <2>1, <3>1 DEF RowsOnce, Raced
      <4>2. \A v \in Rows : v \notin Logged(TRUE)'
        BY <3>2, <3>3
      <4>3. handler' = "commits"
        BY <1>4, <2>3
      <4> QED
        BY <3>4, <4>1, <4>2, <4>3 DEF LogsTrue
  <2> QED
    BY <1>3, <2>2, <2>3
<1>15. ~Raced /\ ~Spoilt' => NothingLost'
  <2> SUFFICES ASSUME ~Raced, ~Spoilt' PROVE NothingLost'
    OBVIOUS
  <2> DEFINE Known(v, job) == \/ v \in job.todo \/ imported[v] = 1 \/ v \in Logged(FALSE)
                              \/ \E l \in job.fresh : l.row = v
  <2>1. \A v \in Rows : Known(v, run[x])
    BY <1>2, <1>6 DEF Inductive, NothingLost
  <2>2. ASSUME NEW v \in Rows
        PROVE  \/ v \in new.todo \/ imported'[v] = 1 \/ v \in Logged(FALSE)'
               \/ \E l \in new.fresh : l.row = v
    <3>1. CASE Keeps(new)
      <4>1. PICK r \in new.fresh : r.row = w /\ new.fresh = run[x].fresh \cup {r}
        BY <3>1
      <4>2. v \in run[x].todo => v = w \/ v \in new.todo
        BY <3>1
      <4>3. imported' = imported /\ Logged(FALSE)' = Logged(FALSE)
        BY <3>1 DEF Logged
      <4> QED
        BY <2>1, <4>1, <4>2, <4>3
    <3>2. CASE Finds(new)
      BY <2>1, <3>2 DEF Logged
    <3>3. CASE Undoes(new)
      <4>1. run[x].fresh = {}
        BY <3>3 DEF Spoilt
      <4> QED
        BY <2>1, <3>3, <4>1 DEF Logged
    <3>4. CASE Commits(new)
      <4>1. v = w \/ v \in new.todo \/ v \notin run[x].todo
        BY <3>4
      <4>2. v = w => \E l \in new.fresh : l.row = v
        BY <3>4
      <4>3. v # w => imported'[v] = imported[v]
        BY <3>4, <1>2 DEF Inductive, TypeOK
      <4>4. v \in Logged(FALSE) => v \in Logged(FALSE)'
        BY <3>4 DEF Logged
      <4>5. \A l \in run[x].fresh : l.row = v => v \in Logged(FALSE)'
        <5> TAKE l \in run[x].fresh
        <5> HAVE l.row = v
        <5>1. l \in Log /\ ~l.success
          BY <1>2, <3>4 DEF FreshOf
        <5>2. l = [row |-> v, success |-> FALSE]
          BY <5>1, LogRecord
        <5> QED
          BY <3>4, <5>2 DEF Logged, Indexes
      <4> QED
        BY <2>1, <4>1, <4>2, <4>3, <4>4, <4>5
    <3> QED
      BY <1>3, <3>1, <3>2, <3>3, <3>4
  <2> QED
    BY <1>4, <1>5, <1>6, <1>11, <2>2 DEF NothingLost, Live, Has, InRun, At
<1> QED
  BY <1>6, <1>7, <1>8, <1>9, <1>10, <1>13, <1>14, <1>15 DEF Inductive

(* The commit of the rows.                                                 *)
LEMMA FinishStep ==
    ASSUME Inductive, NEW x \in Runs, Finish(x)
    PROVE  Inductive'
<1> DEFINE new == [pc |-> "over"]
<1> DEFINE good == {w \in Rows : [row |-> w, success |-> TRUE] \in run[x].fresh}
<1>1. /\ InRun(x, "parsed") /\ Live(x) /\ Has(x) /\ Begun(x)
      /\ FreshOf(x)
      /\ run[x] \in [pc : {"picked", "begun", "parsed"}, seen : Statuses,
                     ok : SUBSET Indexes, bad : SUBSET Rows, todo : SUBSET Indexes,
                     fresh : SUBSET Log, free : SUBSET Rows]
  <2>1. InRun(x, "parsed") /\ Live(x) /\ Has(x) /\ Begun(x)
    BY DEF Finish, InRun, Live, Has, Begun
  <2> QED
    BY <2>1, JobFields DEF Inductive, FreshRows
<1>2. /\ run' = [run EXCEPT ![x] = new]
      /\ imported' = [w \in Rows |-> IF w \in good THEN imported[w] + 1 ELSE imported[w]]
      /\ logs' = logs \cup run[x].fresh
      /\ status' = Merge(run[x].seen, Verdict(run[x].ok, run[x].bad))
      /\ UNCHANGED <<handler, attached, req, past>>
      /\ \A w \in Rows : w \notin run[x].todo
  BY DEF Finish, Step, Inserted, Left
<1>3. /\ new \in Job /\ new # Null /\ new.pc = "over"
  <2>1. new \in Job
    BY DEF Job
  <2> QED
    BY <2>1, DataImportAssumption
<1>4. /\ run'[x] = new
      /\ \A y \in Runs \ {x} : run'[y] = run[y]
  BY <1>2 DEF Inductive, TypeOK
<1> HIDE DEF new
<1>5. status' \in {status, "SUCCESS", "FAILED", "PARTIAL_SUCCESS"}
  BY <1>2 DEF Merge, Verdict
<1>6. status' = "SUCCESS" => status = "SUCCESS" \/ run[x].bad = {}
  BY <1>2 DEF Merge, Verdict
<1>7. TypeOK'
  <2>1. imported' \in [Rows -> Nat]
    BY <1>2 DEF Inductive, TypeOK
  <2>2. logs' \subseteq Log
    BY <1>1, <1>2 DEF Inductive, TypeOK
  <2> QED
    BY <1>2, <1>3, <1>5, <2>1, <2>2 DEF Inductive, TypeOK, Statuses
<1>8. WholeFails' /\ JobOfRequest' /\ FreshRows'
  <2>4. Whole \notin Rows
    BY DataImportAssumption DEF Whole
  <2>1. [row |-> Whole, success |-> TRUE] \notin run[x].fresh
    BY <1>1, <2>4, FreshRecord
  <2>2. WholeFails' /\ JobOfRequest'
    BY <1>2, <1>3, <1>4, <2>1, DataImportAssumption DEF Inductive, WholeFails, JobOfRequest, At
  <2>3. FreshRows'
    BY <1>2, <1>3, <1>4 DEF Inductive, FreshRows, FreshOf, Has
  <2> QED
    BY <2>2, <2>3
<1>9. ~Raced => /\ \A y \in Runs : ~Live(y)'
                /\ \A q \in Requests : ~At(q, "checked")
                /\ status' # "NOT_STARTED" /\ status = "IN_PROGRESS"
  <2> SUFFICES ASSUME ~Raced
               PROVE  /\ \A y \in Runs : ~Live(y)'
                      /\ \A q \in Requests : ~At(q, "checked")
                      /\ status' # "NOT_STARTED" /\ status = "IN_PROGRESS"
    OBVIOUS
  <2>1. Alone
    BY DEF Inductive
  <2>2. status = "IN_PROGRESS"
    BY <1>1, <2>1 DEF Alone
  <2> QED
    BY <1>1, <1>3, <1>4, <1>5, <2>1, <2>2 DEF Alone, Live
<1>10. ~Raced => Alone' /\ Work'
  BY <1>2, <1>3, <1>4, <1>9 DEF Alone, Work, Live, Begun, Has, InRun, At
<1>13. ~Raced => /\ \A w \in good : imported[w] = 0 /\ handler # "commits"
                 /\ \A l \in logs, k \in run[x].fresh : l.row # k.row
                 /\ \A w \in Rows : w \in Logged(FALSE) => w \in run[x].bad
  <2>1. \A w \in good : handler # "commits"
    BY <1>1, FreshRecord
  <2> QED
    BY <1>1, <2>1 DEF Inductive, Work
<1>11. ~Raced => RowsOnce' /\ LogsTrue'
  <2> SUFFICES ASSUME ~Raced PROVE RowsOnce' /\ LogsTrue'
    OBVIOUS
  <2>2. imported \in [Rows -> Nat] /\ RowsOnce /\ LogsTrue
    BY DEF Inductive, TypeOK
  <2>3. /\ \A w \in Rows : w \in Logged(TRUE)' <=> w \in Logged(TRUE) \/ w \in good
        /\ \A w \in Logged(TRUE)' : w \in Logged(TRUE) \/ w \in good
    BY <1>1, <1>2, FreshRecord DEF Logged, Indexes
  <2>5. RowsOnce'
    <3>1. \A w \in good : imported'[w] = 1
      BY <1>2, <1>13
    <3>2. \A w \in Rows \ good : imported'[w] = imported[w]
      BY <1>2
    <3> HIDE DEF good
    <3> QED
      BY <2>2, <3>1, <3>2 DEF RowsOnce, Raced
  <2>6. ASSUME NEW w \in Rows
        PROVE  /\ w \in Logged(TRUE)' => imported'[w] = 1
               /\ imported'[w] = 1 => IF handler = "commits" THEN w \notin Logged(TRUE)'
                                      ELSE w \in Logged(TRUE)'
    <3>1. /\ w \in Logged(TRUE) => imported[w] = 1
          /\ imported[w] = 1 => IF handler = "commits" THEN w \notin Logged(TRUE)
                                ELSE w \in Logged(TRUE)
      BY <2>2 DEF LogsTrue, Raced
    <3>3. w \in good => imported[w] = 0 /\ imported'[w] = 1 /\ handler # "commits"
      BY <1>2, <1>13
    <3>4. w \notin good => imported'[w] = imported[w]
      BY <1>2
    <3> HIDE DEF good
    <3> QED
      BY <2>3, <3>1, <3>3, <3>4
  <2>7. (Logged(TRUE) \cap Logged(FALSE) = {})'
    <3>1. Logged(TRUE) \cap Logged(FALSE) = {}
      BY <2>2 DEF LogsTrue, Raced
    <3>2. ASSUME NEW w \in Indexes,
                 [row |-> w, success |-> TRUE] \in logs \cup run[x].fresh,
                 [row |-> w, success |-> FALSE] \in logs \cup run[x].fresh
          PROVE  FALSE
      <4> DEFINE t == [row |-> w, success |-> TRUE]
      <4> DEFINE f == [row |-> w, success |-> FALSE]
      <4>1. CASE t \in logs /\ f \in logs
        BY <3>1, <4>1 DEF Logged
      <4>2. CASE t \in run[x].fresh /\ f \in run[x].fresh
        <5>1. t = f
          BY <1>1, <4>2 DEF FreshOf
        <5>2. t.success = f.success
          BY <5>1
        <5> QED
          BY <5>2
      <4>3. CASE (t \in logs /\ f \in run[x].fresh) \/ (f \in logs /\ t \in run[x].fresh)
        <5>1. t.row = f.row
          OBVIOUS
        <5> QED
          BY <1>13, <4>3, <5>1
      <4> QED
        BY <3>2, <4>1, <4>2, <4>3
    <3> QED
      BY <1>2, <3>2 DEF Logged
  <2> QED
    BY <1>2, <2>5, <2>6, <2>7 DEF LogsTrue
<1>12. ~Raced /\ ~Spoilt => NothingLost'
  <2> SUFFICES ASSUME ~Raced, ~Spoilt PROVE NothingLost'
    OBVIOUS
  <2>1. \A w \in Rows : \/ imported[w] = 1 \/ w \in Logged(FALSE)
                        \/ \E l \in run[x].fresh : l.row = w
    BY <1>1, <1>2 DEF Inductive, NothingLost
  <2>2. ASSUME NEW w \in Rows
        PROVE  imported'[w] = 1 \/ (w \in Logged(FALSE)' /\ run[x].bad # {})
    <3>1. CASE imported[w] = 1
      <4>1. w \notin good
        BY <1>13, <3>1
      <4> QED
        BY <1>2, <3>1, <4>1
    <3>2. CASE w \in Logged(FALSE)
      <4>1. w \in Logged(FALSE)'
        BY <1>2, <3>2 DEF Logged
      <4> QED
        BY <1>13, <3>2, <4>1
    <3>3. CASE \E l \in run[x].fresh : l.row = w
      <4>1. PICK l \in run[x].fresh : l.row = w
        BY <3>3
      <4>2. l \in Log
        BY <1>1
      <4>3. CASE l.success
        <5>1. l = [row |-> w, success |-> TRUE]
          BY <4>1, <4>2, <4>3 DEF Log
        <5>2. w \in good
          BY <4>1, <5>1
        <5>3. imported'[w] = imported[w] + 1
          BY <1>2, <5>2
        <5>4. imported[w] = 0
          BY <1>13, <5>2
        <5> QED
          BY <5>3, <5>4
      <4>4. CASE ~l.success
        <5>1. l = [row |-> w, success |-> FALSE]
          BY <4>1, <4>2, <4>4 DEF Log
        <5>2. w \in Logged(FALSE)'
          BY <1>2, <5>1 DEF Logged, Indexes
        <5> QED
          BY <1>1, <4>4, <5>2 DEF FreshOf
      <4> QED
        BY <4>3, <4>4
    <3> QED
      BY <2>1, <3>1, <3>2, <3>3
  <2>4. Covered'
    BY <2>2 DEF Covered
  <2>5. status' = "SUCCESS" => \A w \in Rows : imported'[w] = 1
    BY <1>6, <1>9, <2>2
  <2> QED
    BY <1>2, <1>3, <1>4, <1>9, <2>4, <2>5 DEF NothingLost, Live, Has, InRun, At
<1> QED
  BY <1>2, <1>7, <1>8, <1>10, <1>11, <1>12 DEF Inductive, Raced, Spoilt

(* A run that ends without its rows.                                       *)
LEMMA EndStep ==
    ASSUME Inductive, NEW x \in Runs, Fail(x) \/ RunDies(x)
    PROVE  Inductive'
<1> DEFINE new == [pc |-> "over"]
<1>1. /\ run' = [run EXCEPT ![x] = new]
      /\ Live(x)
      /\ UNCHANGED <<handler, attached, imported, req>>
      /\ \/ Begun(x) /\ status' = "FAILED" /\ past' = past \cup {"failed"}
         \/ UNCHANGED <<status, logs>> /\ past' = past \cup {"died"}
      /\ logs' \in {logs, {[row |-> Whole, success |-> FALSE]}}
      /\ logs' # logs => logs = {}
  BY DEF Fail, RunDies, Step, Live, Begun, InRun, Over
<1>2. /\ new \in Job /\ new # Null /\ new.pc = "over"
  <2>1. new \in Job
    BY DEF Job
  <2> QED
    BY <2>1, DataImportAssumption
<1>3. /\ run'[x] = new
      /\ \A y \in Runs \ {x} : run'[y] = run[y]
  BY <1>1 DEF Inductive, TypeOK
<1> HIDE DEF new
<1>4. Raced' <=> Raced
  BY <1>1 DEF Raced
<1>5. TypeOK'
  <2>1. [row |-> Whole, success |-> FALSE] \in Log
    BY DEF Log, Indexes
  <2>2. logs' \subseteq Log
    BY <1>1, <2>1 DEF Inductive, TypeOK
  <2>3. status' \in Statuses /\ past' \subseteq Events
    BY <1>1 DEF Inductive, TypeOK, Statuses, Events
  <2>4. run' \in [Runs -> {Null} \cup Job]
    BY <1>1, <1>2 DEF Inductive, TypeOK
  <2> QED
    BY <1>1, <2>2, <2>3, <2>4 DEF Inductive, TypeOK
<1>6. WholeFails' /\ JobOfRequest' /\ FreshRows'
  BY <1>1, <1>2, <1>3 DEF Inductive, WholeFails, JobOfRequest, FreshRows, FreshOf, Has, At
<1>7. ~Raced => /\ \A y \in Runs : ~Live(y)'
                /\ \A q \in Requests : ~At(q, "checked")
  BY <1>1, <1>2, <1>3 DEF Inductive, Alone, Live
<1>8. ~Raced => Alone'
  BY <1>1, <1>2, <1>3, <1>7 DEF Alone, Live, Begun, InRun, At
<1>9. ~Raced => Work'
  BY <1>1, <1>2, <1>3, <1>7 DEF Inductive, Work, Live, Begun, Has, InRun, At
<1>10. ~Raced => RowsOnce' /\ LogsTrue'
  <2> SUFFICES ASSUME ~Raced PROVE RowsOnce' /\ LogsTrue'
    OBVIOUS
  <2>1. RowsOnce /\ LogsTrue
    BY DEF Inductive
  <2>2. Logged(TRUE)' = Logged(TRUE)
    BY <1>1 DEF Logged
  <2>3. (Logged(TRUE) \cap Logged(FALSE) = {})'
    <3>1. CASE logs' = logs
      BY <2>1, <3>1 DEF LogsTrue, Logged, Raced
    <3>2. CASE logs' # logs
      BY <1>1, <2>2, <3>2 DEF Logged
    <3> QED
      BY <3>1, <3>2
  <2> QED
    BY <1>1, <2>1, <2>2, <2>3 DEF RowsOnce, LogsTrue, Raced
<1>11. ~Raced /\ ~Spoilt' => NothingLost'
  <2> SUFFICES ASSUME ~Raced, ~Spoilt' PROVE NothingLost'
    OBVIOUS
  <2>1. ~Spoilt /\ UNCHANGED <<status, logs>>
    BY <1>1 DEF Spoilt
  <2> QED
    BY <1>1, <1>2, <1>3, <1>7, <2>1
       DEF Inductive, NothingLost, Covered, Live, Has, InRun, At, Logged
<1> QED
  BY <1>4, <1>5, <1>6, <1>8, <1>9, <1>10, <1>11 DEF Inductive

-----------------------------------------------------------------------------
(* The invariant is kept by every step.                                    *)
LEMMA StepInductive == Inductive /\ [Next]_vars => Inductive'
<1> SUFFICES ASSUME Inductive, [Next]_vars PROVE Inductive'
  OBVIOUS
<1>1. CASE AttachFile
  BY <1>1 DEF AttachFile, Inductive, TypeOK, WholeFails, JobOfRequest, FreshRows, FreshOf, Alone, Work, RowsOnce,
     LogsTrue, NothingLost, Covered, Raced, Spoilt, Live, Has, Begun, At, InRun, Logged
<1>2. CASE \E r \in Requests : Check(r) \/ Enqueue(r) \/ Reload(r) \/ Mark(r) \/ RequestDies(r)
  BY <1>2, CheckStep, EnqueueStep, ReloadStep, MarkStep
<1>3. CASE \E x \in Runs : RunStep(x) \/ RunDies(x)
  BY <1>3, PickStep, BeginStep, ParseStep, RowStep, FinishStep, EndStep DEF RunStep
<1>4. CASE UNCHANGED vars
  BY <1>4 DEF vars, Inductive, TypeOK, WholeFails, JobOfRequest, FreshRows, FreshOf, Alone, Work, RowsOnce,
     LogsTrue, NothingLost, Covered, Raced, Spoilt, Live, Has, Begun, At, InRun, Logged
<1> QED
  BY <1>1, <1>2, <1>3, <1>4 DEF Next

LEMMA SpecInductive == Spec => []Inductive
BY InitInductive, StepInductive, PTL DEF Spec

(* The import, its logs, requests and runs keep their types.               *)
THEOREM TypeCorrect == Spec => []TypeOK
BY SpecInductive, PTL DEF Inductive

(* No row is inserted twice unless two requests or two runs raced: not     *)
(* where a handler commits its row and the row, logged as failed, is tried *)
(* again, nor where one rolls back what its run had pending.               *)
THEOREM ImportedOnce == Spec => []RowsOnce
<1>1. Inductive => RowsOnce
  BY DEF Inductive, RowsOnce, Raced
<1> QED
  BY <1>1, SpecInductive, PTL

(* Unless by a race, what is logged as imported is; what is imported is    *)
(* logged so exactly where the handler leaves the transaction alone, and   *)
(* never by a handler that commits its rows.                               *)
THEOREM LogsCorrect == Spec => []LogsTrue
<1>1. Inductive => LogsTrue
  BY DEF Inductive, LogsTrue, Raced
<1> QED
  BY <1>1, SpecInductive, PTL

(* A success has imported every row, unless by a race, a run that failed   *)
(* as a whole, or a handler that rolled back rows or logs of others.       *)
THEOREM SuccessComplete == Spec => []SuccessMeansImported
<1>1. Inductive => SuccessMeansImported
  BY DEF Inductive, NothingLost, SuccessMeansImported, Raced, Spoilt
<1> QED
  BY <1>1, SpecInductive, PTL

(* A success stays one, unless by a race or a late answer.                 *)
THEOREM SuccessStays == Spec => SuccessIsFinal
<1>1. Inductive /\ [Next]_vars =>
        [status = "SUCCESS" => status' = "SUCCESS" \/ past' \cap {"raced", "late"} # {}]_vars
  <2> SUFFICES ASSUME Inductive, Next, status = "SUCCESS", status' # "SUCCESS"
               PROVE  past' \cap {"raced", "late"} # {}
    BY DEF vars
  <2>0. \A x \in Runs : Row(x) => status' = status /\ past \subseteq past'
    BY DEF Row, Insert, Refuse, FindNameFree, CommitRow, RollBack
  <2>1. CASE Raced
    <3>1. ASSUME NEW r \in Requests,
                 Check(r) \/ Enqueue(r) \/ Reload(r) \/ Mark(r) \/ RequestDies(r)
          PROVE  past \subseteq past'
      BY <3>1 DEF Check, Enqueue, Reload, Mark, RequestDies
    <3>2. ASSUME NEW x \in Runs, RunStep(x) \/ RunDies(x)
          PROVE  past \subseteq past'
      BY <2>0, <3>2 DEF RunStep, Pick, Begin, Parse, Finish, Fail, RunDies
    <3>3. past \subseteq past'
      BY <3>1, <3>2 DEF Next, AttachFile
    <3> QED
      BY <2>1, <3>3 DEF Raced
  <2>2. CASE ~Raced
    <3>1. /\ \A x \in Runs : ~Begun(x) /\ ~InRun(x, "picked") /\ ~InRun(x, "queued")
          /\ TypeOK /\ JobOfRequest
      BY <2>2 DEF Inductive, Alone
    <3>6. ASSUME NEW x \in Runs, RunStep(x) \/ RunDies(x)
          PROVE  status' = status
      BY <2>0, <3>1, <3>6 DEF RunStep, Pick, Begin, Parse, Finish, Fail, RunDies, InRun, Begun
    <3>7. ASSUME NEW r \in Requests, Check(r) \/ Enqueue(r) \/ Reload(r) \/ RequestDies(r)
          PROVE  status' = status
      BY <3>7 DEF Check, Enqueue, Reload, RequestDies
    <3>2. PICK r \in Requests : Mark(r)
      BY <3>6, <3>7 DEF Next, AttachFile
    <3>3. req[r].seen # "IN_PROGRESS"
      BY <3>2 DEF Mark, Merge
    <3>4. <<r, "worker">> \in Runs /\ run[<<r, "worker">>] # Null
      BY <3>1, <3>2 DEF Mark, At, JobOfRequest, Runs, Places
    <3>5. Over(<<r, "worker">>)
      BY <3>1, <3>4 DEF TypeOK, Job, Over, InRun, Begun
    <3> QED
      BY <3>2, <3>3, <3>5 DEF Mark
  <2> QED
    BY <2>1, <2>2
<1> QED
  BY <1>1, SpecInductive, PTL DEF Spec, SuccessIsFinal
=============================================================================
