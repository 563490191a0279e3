# TLA+ verification of the dugsikaal API

The dugsikaal API (`src/app`) is a Flask and SQLAlchemy back end for schools and
small businesses: document numbering, a stock ledger, a general ledger, payments,
buying and selling, education, HR, reports, and a Redis cache. Every HTTP request runs
in a worker of its own against one PostgreSQL database at READ COMMITTED, so what goes
wrong goes wrong between requests: something read before a lock and used after it, a
row read without any lock and written back, an invalidation that comes between a read
and a store, an error in the middle of an operation.

This directory models the parts in which such interleavings decide whether money,
stock and numbers are right. `PROJECT.json` holds the machine-readable side: the runs,
the map from definitions to source lines, the mutants of each property, the hazards
and the theorems.

- [1 Inventory](#1-inventory)
- [2 Modules](#2-modules)
- [3 What the runs show](#3-what-the-runs-show)
- [4 What is proved](#4-what-is-proved)
- [5 Where code and documentation part](#5-where-code-and-documentation-part)
- [6 What is not modelled](#6-what-is-not-modelled)
- [7 Plan](#7-plan)

## 1 Inventory

Paths are relative to `src/app`.

### Components with a protocol of their own

| Component | State | Operations | What is hard | What makes it correct |
|---|---|---|---|---|
| Document numbering, `common/generate_code` | `code_counters`: one row per code type, company, branch and period | `generate_next_code`, `ensure_manual_code_is_next_and_bump`, `bump_counter_to_at_least`, all through `get_or_create_counter_row` | two requests create the row at once; a typed code is compared before the lock; a rollback after the number was drawn; NULLs in the unique constraint | one row per partition, no number twice, no holes, no counter lowered, no number that a later request can never save |
| Stock ledger, `application_stock/engine` | `stock_ledger_entries` (append, flag), `bins` (derived) | `append_sle`, `cancel_sle`, `repost_from`, `derive_bin` | backdated documents replay everything later; replays leave live reversal rows; the bin is a cached copy | bins are the last row and the sum of the documents; the past is not rewritten |
| Stock entries, `stock_entry_service.py` | `stock_entries.doc_status`, and the ledger, the bins, the journals | create, submit, cancel | rows, transfer rates and `is_backdated` are read before the advisory locks; the guard repeated after `SELECT ... FOR UPDATE` sees the object of before the lock | posted once, journals and ledger agree |
| Stock reconciliations, `reconciliation_service.py` | the same | submit, cancel | the difference to the count, and the amount of its journal, are computed before the locks; cancelled rows have no reversal rows; a replay passes over later counts | a count stands: the ledger holds what was counted at its time |
| General ledger, `application_accounting/engine` | journals, GL entries, account balances | `PostingService.post`, `cancel`; `balance_updater` | balances are read and written back without a lock, account by account; a cancel reverses the newest journal | balances are the sums of the entries; one posting per document, one reversal per posting; no deadlock |
| Manual journals, expenses, period closing | their documents and the ledger | update, submit, cancel | a manual submit takes no counter row; a closing voucher is guarded and its amount summed before the lock only | the same, with the amount the document has |
| Payments, `chart_of_accounts/services/payment_service.py` | `payment_entries`, `payment_items`, `outstanding_amount` of the invoices | create, update, submit, cancel | invoices are read and written without a lock; drafts are validated long before they are applied | an invoice's outstanding amount is its total less what its submitted payments allocate |
| Sales invoices and returns, `sales_service.py` | `sales_invoices`, their lines, stock, journals | create, update, submit | what was returned and refunded before is read without any lock, the first without drafts; the second guard of a submit is stale | nothing returned or refunded beyond what was sold or paid; books and stock as the invoice |
| Purchase receipts, `receipt_service.py` | `purchase_receipts`, ledger, bins, journals | create, update, submit, cancel | two transactions for a submit, three for a cancel; the bin is derived without the locks; the call of the replay always fails | rows and journal follow the status; the bin is what the ledger says |
| Versioned cache, `common/cache` | version counters and values in Redis, a cache per request | `get_or_build_detail`, `get_or_build_list`, `get_or_build_user_profile`, `bump_version` | a value is built while others commit and invalidate; every call to Redis may fail by itself; a missing version and version 1 look alike | a request that begins after an invalidation is given nothing older |
| Data import, `application_data_import` | imports, logs, the created records | attach, start, retry, run | the status is both the lock and the result; logs are deleted and committed before the rows run; handlers commit a row or roll the run back under its savepoints; a queue's answer may be lost; a process may end | every row once, logs that are true, a success that is complete, an import that settles |
| Purchase invoices, `invoice_service.py` | documents, stock, journals | submit, cancel, return | as sales invoices | not modelled |
| Report cache, `application_reports/core/cache.py` | values in Redis | `get`, `set` | the key is computed again when the value is stored | not modelled |
| Student groups | rosters | replace the roster | the roster and the capacity are read without a lock | not modelled |

The other components are listed in `PROJECT.json` with the reason they have no model:
master data, edited in one transaction with uniqueness left to the database (chart of
accounts, parties, items, organisation, employees, students), queries (lists, reports,
availability), pure decisions (permissions, navigation, pricing), rendering, and tables
without operations.

### How they interact

```
 stock entries ----+----> document numbering <----+---- payments
     |             |       (SE and JE series)     |         |
     v             v                              v         v
 stock ledger    general ledger: PostingService.post / cancel   invoices'
 and bins        (one AUTO journal per document)                outstanding amounts
     ^                     ^
     |                     |
 receipts, invoices, reconciliations, expenses, closing vouchers
     ^
     |
 data import: rows become items, parties, reconciliations, employees; one savepoint
 each in the transaction of a run, which some handlers end themselves

 every service ---- after its commit ----> bump_version <---- get_or_build (readers)
```

Everything in the upper part shares one database transaction per request and relies on
four mechanisms, which the models keep apart:

1. row locks (`SELECT ... FOR UPDATE`) on a document, after a guard that was read
   without one;
2. transaction-level advisory locks on item-warehouse pairs (`lock_pairs`);
3. the row lock on the JE counter of the company, which every automatic journal takes
   when it draws its number and which the transaction holds until it commits. Nothing
   in the code says that the invoices' outstanding amounts and the balances of the
   accounts depend on it: they do (`WritesAreCurrent`, `BalancesExact`);
4. savepoints and unique constraints, for the creation of counter rows.

The cache lies outside: its invalidation is a separate call after the commit.

## 2 Modules

| Module | Models | Used by |
|---|---|---|
| `CodeCounter` | document numbering, with its callers' insert, commit and rollback | `MCCodeCounter`, `CodeCounterProofs` |
| `StockLedger` | the stock ledger engine, submit and cancel of stock entries and reconciliations, their journals | `MCStockLedger`, `StockLedgerProofs` |
| `GeneralLedger` | postings and balances, driven by manual journals, expenses and closing vouchers | `MCGeneralLedger`, `GeneralLedgerProofs` |
| `Payments` | payment entries, allocations, outstanding amounts, the journals of each payment | `MCPayments`, `PaymentsProofs` |
| `SalesInvoices` | sales invoices and returns, what they move and post | `MCSalesInvoices`, `SalesInvoicesProofs` |
| `PurchaseReceipts` | purchase receipts and returns, transaction by transaction | `MCPurchaseReceipts`, `PurchaseReceiptsProofs` |
| `DataImport` | requests, queue and runs of one import | `MCDataImport`, `DataImportProofs` |
| `CachePromise` | abstract: what a cache promises, without versions, keys or Redis | `VersionCache` |
| `VersionCache` | the versioned cache; refines `CachePromise` | `MCVersionCache`, `VersionCacheProofs` |
| `MC...` | instances for TLC: sites, entries, invoices, accounts, symmetry | the `.cfg` files |
| `...Proofs` | inductive invariants, lemmas and theorems | |

A definition named in a `(* Mutant: ... *)` comment is a faulty version of the
definition that follows it. No `Next` uses one; `PROJECT.json` names the property that
each of them breaks.

### CodeCounter

One code type, with its scope and reset policy as constants. `rows` is the counter
table by primary key: each row has the committed value `seq`, the value `new` of its
lock holder, and the holder `lock`. A row is `pending` while its inserter has not
committed. `docs` and `mine` are the documents committed and inserted. `pc`, `req`,
`todo` and `chosen` are where a request stands, what it asked for, which rows its
locking SELECT has yet to lock, and which one it will use.

| Action | Code |
|---|---|
| `BeginGenerate`, `BeginManual`, `BeginBump` | the three operations up to `get_or_create_counter_row`: the partition, the unlocked read and comparison of a typed code, the `code_exists` check of the caller |
| `SelectRows`, `LockRow` | the `SELECT ... ORDER BY ... FOR UPDATE`: rows and order are fixed by the statement's snapshot, then each row is waited for and read again as committed |
| `InsertRow` | the INSERT in a savepoint: waits for an uncommitted row with the same key, fails once that is committed, and is not bound at all when a key column is NULL |
| `UseRow`, `SaveDoc` | the number is drawn, or compared and raised; the caller's document is inserted and waits for an uncommitted one with the same key |
| `Commit`, `Rollback` | a transaction may draw several numbers before it commits, and may fail anywhere |
| `NextYear` | the calendar, for series that reset yearly |

### StockLedger

`sle` is the ledger in primary-key order, `bin` the bins, `status` and `journal` the
documents, `reg` what a request read before its locks. The operators `AppendSle`,
`Counted`, `CancelSle`, `Repost` and `Derived` are the engine as functions of a ledger,
so that a handler is one action that composes them in the order of the code.
`ReadForSubmit` and `ReadForCancel` are everything a handler reads before it takes its
locks: the guard, the intents with the source rate of a transfer or the difference to a
count, `is_backdated`, the rows to cancel and their worth. `WriteSubmit` and
`WriteCancel` are the locked phase up to the commit, one step because the locks on the
document and on its pairs are held to the commit. The repeated guard of the locked phase
is absent on purpose: it evaluates the object that the session loaded before the lock,
and SQLAlchemy does not refresh a loaded object unless told to (payments do, with
`populate_existing`; stock entries do not). A reconciliation differs in its leg
(`CountLeg`: quantity and value are the difference to the stock as it is now), in how its
row is valued (`Counted`), in what its replay passes over (`Skipped`: every
reconciliation) and in what it posts (`Difference`: what it had planned, even nothing).
A replay, however, rebuilds a reconciliation's row as a plain one. One variable is history
and stands for nothing in the code: `unpriced` holds the entries of which a submit found
nothing to post, and which can therefore be posted again (section 5). Rates and quantities
are integers; posting times are microseconds, far apart for different documents, since
the code separates rows of one instant by microseconds.

### GeneralLedger

`status`, `amount` and `posts` are the documents and the amounts of their journals,
`ledger` the committed sums of the entries, `balance` the cached balances; `reg` holds,
for each request, the balances it has computed (`mine`), those it has read (`loaded`)
and those whose UPDATE it has sent (`flushed`), which lock their rows.

| Action | Code |
|---|---|
| `Edit` | create or update of a draft, in a short transaction |
| `BeginJournal` | a manual journal locks its row before it reads it; its submit draws no code, its cancel posts an automatic reversal |
| `Read` | the unlocked read and guard of expenses and closing vouchers; the profit to close |
| `Lock` | the row lock or `lock_doc`; an expense is refreshed and guarded again, a voucher is not; `ensure_idempotent_absent`; the journal to reverse |
| `Number` | `generate_next_code`: the JE counter of the company, held to the commit |
| `Load` | `_bump_account_balance` of the next line; its query flushes the line before |
| `Commit`, `Abort` | the last flush, the status and the commit; an error, or the victim of a deadlock |

Which accounts a template or a dynamic account yields is data: `Side` gives each
document's lines, and they come in any order.

### SalesInvoices

An invoice is its quantity and its payment; a return's are magnitudes. `ReadForCreate`
and `ReadForSubmit` are the unlocked reads, with the check of what may still be returned
(`MayReturn`, which counts returns that are posted) and refunded (`MayRefund`, which
counts drafts, too). An edit locks its row from the first read. `Write` is the write
phase of a submit, which works from the object it read. A cancel changes nothing: its
guard requires the status SUBMITTED, which a submitted invoice never has
(`_derive_status_after_submit`). Credit notes by `cn_id` raise at their first query.
`crowded`, `blurred` and `overtaken` record the overlaps that spoil a property.

### PurchaseReceipts

One receipt per document over one pair, at price 1. A submit is `ReadForSubmit`,
`WriteSubmit` (its first transaction: row, journal, status), `DeriveRead` and
`DeriveWrite` (its second). A cancel is `ReadForCancel`, `ReadRows`, `WriteCancel`, and
`ReverseJournal` in a transaction of its own. The process may end between any two
(`Abort`). `repost_from` takes keyword arguments only and is called with positional
ones, so that whatever needs a replay raises after its first transaction: the request
stands at `repost` and can only end there. A cancel that finds rows therefore never
reaches its journal; one whose rows another cancel has flagged goes on to it.
Histories: `behind` (the bin is due, or its derivation was lost), `overtaken`, `redrawn`
and `recancelled`.

### DataImport

`status` is the import's only lock and its result. `Check`, `Enqueue`, `Reload`, `Mark`
are a start or a retry: the guard, the queue with its inline fallback (and the case that
the queue took the job and its answer was lost), and the IN_PROGRESS that the request
writes after it has queued the job. `Pick`, `Begin`, `Parse`, `Row`, `Finish`, `Fail` are
`run_import`, one action per commit or read that others may come between, and one per row.
`handler` is what the handler of the doctype does to the transaction of the run, although
`application_stock/services/adapters.py:53` says that none must. That of reconciliations only
flushes: its row is inserted or refused in a savepoint (`Insert`, `Refuse`), and all of it
is committed by `Finish` or undone by `Fail`; `fresh` are the logs not yet committed. That
of items first looks for the name (`FindNameFree`) and then commits (`CommitRow`), and with
its row everything the run had pending; the closed savepoint then raises, so that a row
which is in is logged as failed, and if its insert is refused instead, everything pending
is rolled back. That of customers and suppliers rolls back all that is pending when the
database refuses a row (`RollBack`), with `autocommit=False`, too; what was counted stays
counted. `Merge` is how
SQLAlchemy writes a status: not at all when the session had loaded the same value.
`RunDies` and `RequestDies` end a process anywhere. `past` records which events have
happened: `raced`, `failed`, `died`, `late`, `undone`.

### Payments

`outstanding`, `status`, `header`, `items` and `journal` are the tables; `reg` is where
a request stands: `read` (first guard), `locked` (the row is locked and refreshed, the
guard repeated, the lines chosen), `posted` (the journal has its number, so the counter
is held, and the invoices have been read). `Commit` publishes the absolute values the
request computed when it posted. `Create` and `Update` are one step each: they
write only the payment, behind its lock. `Apply` is `apply_allocation`: it takes the
outstanding amount toward zero by the magnitude of what it is given, and does nothing to a
document that is neither UNPAID nor PARTIALLY_PAID. `Eligible` lists those two statuses
only. `DocStatus` has no variable: `apply_allocation` writes the status with the amount it
follows from, and a submitted return is RETURNED whatever is left of it
(`sales_service.py:1058`, `invoice_service.py:64`), so it is never listed and never settled.

`CounterFree` is the JE counter of one company and one year, once its row exists. In the
first posting of a year, or between two years, two requests may hold different rows (section
5, item 3), and the exclusion that `WritesAreCurrent` rests on is not there. The same
holds of `Counting` in `GeneralLedger`.

### VersionCache and CachePromise

One record and the global epoch, each a counter in Redis whose missing key reads as 1.
`cached` and `local` are the values under an epoch and a version, in Redis and in each
request; a value is the number of commits its builder saw. Each call to Redis is an
action or an alternative of one: a read of a version may answer the default, a lookup may
miss, a store may fail, or may succeed with its answer lost, an increment may not happen.
`promised` and `since` are history variables: the commits that had happened when a
version was reached, and the floor when a request began.

`CachePromise` has four variables: the commits, the floor, and what each request was
promised and given. `VersionCache` implements it with `floor <- Floor`, the commits that
the present epoch and version have taken into account.

## 3 What the runs show

| Run | Expected | Shows |
|---|---|---|
| `CodeCounterBranch` | holds | two requests race over a branch's yearly series, across a change of year, with generated and typed codes and rollbacks: one row per partition, and the loser of a creation finds the winner's row (`OneRowPerPartition`); no holes (`GapFree`); no committed counter lowered (`CounterNeverRewinds`) |
| `CodeCounterCompany` | holds | two branches draw from one company-wide series that has its row, with generated and typed codes and bumps: generated numbers are unique (`GeneratedCodesUnique`) and never refused (`GeneratedNeverRefused`) |
| `StockLedgerConcurrent` | holds | two requests submit and cancel two receipts, a count and an issue of one pair in any order and at once: bins are the last live row (`BinIsSnapshot`), what was written for an entry is what it orders, once (`EntryPostedOnce`), journals hold what the ledger says of a document that no replay has rebuilt (`BooksMatchStock`), and a posting leaves alone what the ledger said before it (`HistoryKept`) |
| `StockLedgerSequential` | holds | one request at a time, receipts, counts and a transfer over two pairs: a pair that was not replayed carries the quantity and the value of its live rows (`UnreplayedBalances`), and a count stands whatever is posted around it (`CountStands`) |
| `StockLedgerReplay` | violated | after a backdated receipt the bin lacks its quantity (`BinCountsDocuments`) |
| `GeneralLedger` | holds | two requests edit, submit and cancel a manual journal, an expense and a closing voucher, lines in any order: cached balances are the sums of the entries (`BalancesExact`), journals follow the status (`JournalsFollowStatus`) with the amount the document has (`PostedAsWritten`), no two automatic postings deadlock (`OnlyManualsDeadlock`), every request ends (`RequestsEnd`) |
| `PaymentsConcurrent` | holds | two requests submit, cancel and edit two payments, typed or automatic, on two invoices with a return between them: the journals follow the status (`JournalFollowsStatus`), what is about to be written is still current (`WritesAreCurrent`), and outstanding amounts are exact as long as nothing was cancelled, and nothing is allocated to the return (`OutstandingExact`) |
| `PaymentsCancel` | violated | a payment of 1 on an invoice of 2 is submitted and cancelled: the invoice owes 1 before the cancel and nothing after it (`CancelRestores`) |
| `SalesInvoices` | holds | two requests draft, edit and submit a sale and two returns of it: no more is returned than was sold (`ReturnedWithinSold`) or refunded than was paid (`RefundsWithinPaid`), there is one journal (`JournalOnce`), books and stock are as the invoice (`PostedAsWritten`) |
| `PurchaseReceipts` | holds | two requests draft, edit, submit and cancel two receipts and a return and may end after any transaction: rows and journal follow the status (`LedgerFollowsStatus`), the bin is current (`BinCurrent`), the amounts are the receipt's (`PostedAsWritten`) |
| `DataImport` | holds | a start and two retries of a file of two rows, under each kind of handler, with lost answers, failing runs and processes that end anywhere: no row twice (`RowsOnce`), logs that are true (`LogsTrue`), a success that is complete (`SuccessMeansImported`) and final (`SuccessIsFinal`), an import that settles (`Settles`) |
| `VersionCacheFresh` | holds | two readers and a writer, any call to Redis but the read of a version may fail: the cache implements its promise (`PromiseKept`) |

Each module also has one type invariant, `TypeOK`. That of `Payments` includes the
check constraint of the table: allocations never exceed what was paid.

### Properties with an exception

Several properties of the newer modules hold *except* for what an overlap has spoilt, and
the overlap is named by a history variable. The exception is part of what the run shows:
without it TLC finds a violation, and with it nothing else can break the property.

| Property | Holds unless | What happens then |
|---|---|---|
| `BalancesExact` | a manual submit and another request wrote the account at once (`blurred`) | one of two changes of a balance is lost: a manual submit draws no code and so does not wait for the counter |
| `JournalsFollowStatus` | two cancels of one closing voucher were under way (`recancelled`) | the second reverses the reversal |
| `OnlyManualsDeadlock` | one of the two is a manual submit | lines in opposite orders wait for each other; the database ends one |
| `ReturnedWithinSold` | two drafts of returns of one invoice existed together (`crowded`) | each fits alone, and both are submitted: what is left to return is compared when a draft is saved, never at its submit |
| `RefundsWithinPaid` | refunds were summed while another return was being edited (`blurred`) | the sum has the old refund |
| `PostedAsWritten` (sales, receipts) | the document was written between a submit's read and its write (`overtaken`, `redrawn`) | what was read is posted |
| `LedgerFollowsStatus` | two cancels of one receipt read its rows at once (`recancelled`) | the row is reversed twice |
| `BinCurrent` | a derivation is due, lost with its process, or overtaken by a posting (`behind`) | the bin is old until the next derivation of the pair |
| `RowsOnce`, `LogsTrue` | two requests passed the guard, or one job runs twice (`raced`) | rows are inserted twice |
| `LogsTrue`, one direction | the handler commits its rows (`handler`) | rows that are in are logged as failed, always |
| `SuccessMeansImported` | a race; a run failed as a whole (`failed`) | a retry finds no failed row and reports a success |
| `SuccessMeansImported` | a handler rolled back other rows or their logs (`undone`) | they stay counted as imported, and no retry takes them up |
| `SuccessIsFinal`, `Settles` | the request marked the import after its run had ended (`late`), or a process died | the result is overwritten, or the import stays in progress, which both guards refuse |

### Fairness

Most specifications are safety specifications, `Init /\ [][Next]_vars`; a request may
fail and a process may end anywhere, so there is nothing to assume. Two have liveness:

- `DataImport` assumes weak fairness of the steps of each run: the queue has workers, and
  every job has a time limit, after which it fails. It assumes nothing of requests, and
  a process may die in spite of it (`RunDies`).
- `GeneralLedger` assumes strong fairness of the progress of each request: who waits for
  a lock gets it in its turn, since PostgreSQL queues waiters, though the lock is not free
  all the time; a refused guard raises; and of two requests that wait for each other the
  database ends one, which is the only `Abort` that is promised.

Deadlock is not checked because every instance ends: documents are submitted and
cancelled once and the counters of the instance run out. Waiting for each other is what
`OnlyManualsDeadlock` and `RequestsEnd` are about.

### Bounds, and why they are enough

- Two requests: every race described above is between two requests over one row, pair,
  invoice or version. What a third could add, waiting behind a lock, is a step of one of
  the two at a later time. The theorems of section 4 hold for any number.
- `CodeCounter`: two rows and three documents (two years), or one row and two documents
  (two branches with bumps). Three documents are one more than a race needs, so that a
  number drawn after a rollback meets those drawn before it. `MaxDocs` also bounds how
  far a bump may jump.
- `StockLedger`: four documents on one pair, one of two lines, and 13 rows. That is room
  for a replay of every later document, but not for a replay of a replay of all of them.
  The sequential run has five documents, two pairs and 20 rows. Its rates are multiples
  of 3600, which every quantity that comes about divides, so that integer division does
  not hide or invent a difference in value.
- `GeneralLedger`: a journal and an expense that meet on two accounts, whose lines come in
  either order, and a voucher that closes what they leave. Amounts of one and two tell an
  edited document from the one that was read.
- `SalesInvoices`: quantities and payments up to 2; two returns are what it takes to
  exceed a sale that each alone does not. One of them moves stock, the other does not.
- `PurchaseReceipts`: two receipts, the second backdated when posted after the return or
  in the wrong order, a return, and five rows: all three posted, two cancelled.
- `DataImport`: two rows, so that a run may succeed in part, and a row be rolled back with
  another; three requests, so that a retry comes to what a retry has left. With `MaxRacing`
  = 1 the second and third come only while no run is yet to begin. Every property of the run
  but its types ends with a race, so the states after one could violate none of them; the
  one race left in, a job that runs twice because the queue's answer was lost, is enough to
  see the exception at work. A retry may still overtake the answer of the request before it.
- `Payments`: two payments, invoices of 2 and 1 with a return of -1 due between them,
  payments of up to 2 with up to two typed lines: partial, exact and excessive allocation
  all occur, and so does an automatic allocation that passes over the return.
  `PaymentsCancel` has one invoice of 2 and pays 1, since a cancel leaves a PAID invoice
  alone.
- `VersionCache`: one commit and two versions of each counter; a record is committed,
  invalidated, built before and after, expired and served again. The proof covers the
  rest.
- Symmetry: requests (and payments, writers) are interchangeable in every action and
  property of the runs that use it; none of these checks liveness.

## 4 What is proved

TLAPS proves the following for every value of the constants that satisfies the named
assumptions of each module (bounds are naturals, seeded rows lie in distinct partitions,
an invoice's party exists and its total is not zero, a return's original is no return,
a movement has a quantity, a rate and the warehouses its type calls for, `Null` is no
record or no number). Seven theorems need more than that and say so in their statements: two
of the numbering, two of the cache, three of the stock ledger. The bounds are constants too, so the theorems hold for all
of them. The inductive invariants they rest on, named below, were checked on runs first.

**Numbering** (`CodeCounterProofs`). `TypeCorrect`, `GuardedPartitionsHaveOneRow`,
`CountersNeverRewind`, `GeneratedCodesNeverRepeat`. A partition is *guarded* when the
unique constraint binds it or its row existed at the start; the restriction is necessary
(section 5, item 3). None of these properties is inductive. The first half of
the invariant, `Structure`, says that an uncommitted row belongs to its inserter, that
only the lock holder has a value that is not committed, that a request which is about to
use a row holds it, and that a request which is about to insert into a seeded partition
does not exist. From it follow one row per partition and monotone counters. The second
half, `Numbers`, places every generated number: committed ones at most at the committed
value of their counter, uncommitted ones strictly above it, under the lock of the
request that drew them. Two equal numbers would have to be both below and above.

`GeneratedCodesAreFree` is `GeneratedNeverRefused` under two hypotheses on the series.
`SeparateKeys`: documents that the unique constraint of their table compares are numbered
by one counter (stock entries are the exception, section 5, item 4). `OwnPeriods`: typed
codes are not used in a yearly series, or the series has one period; TLC refutes the
property without it, since a code typed with another year's period is met by that year's
counter when it gets there. What is added to the invariant, `DatedOK`, says that a
document carries the partition and the period of one year. `SeriesHasNoHoles` is `GapFree`
while no counter is bumped, and nothing in the code calls `bump_counter_to_at_least`. Its
invariant, `Dense`, counts: every number up to the committed value of a counter is on a
committed document, every number the lock holder has added is on one of its own or is the
one it is about to save, and a typed number was at most one above what its request saw of
the counter, which has not fallen since.

**General ledger** (`GeneralLedgerProofs`). `TypeCorrect`, `CachedIsLedger`,
`JournalsCorrect`, `AmountsCorrect`, `NoAutomaticDeadlock`. `Alone` says that automatic
postings are written one at a time and that a document has one request past its lock;
`Sums`, that what a request has computed for an account that is not blurred is the sum of
the ledger and its own effect, and that nobody else has read that account: this is what
a commit of another request must preserve, and why the exception is needed; `Holds` and
`Cancels`, that whoever has locked a document finds it as its guard left it.

**Stock ledger** (`StockLedgerProofs`). `TypeCorrect`, `BinsAreSnapshots`, `HistoryIsKept`,
`EntriesPostOnce`, `BooksFollowStock`, `CountsStand`, `QuantitiesAddUp`, `ValuesAddUp`. The
engine is made of folds: over the legs of a document, over the rows of a pair in the order
of their time, over the rows that a replay flags and writes again. The first part of the module shows that such a fold exists, that it is unique, and that it stays in any set
that each of its steps stays in (`FoldExists`, `FoldUnique`, `FoldStays`), by minimal
counterexamples among the subsets of a finite set, and not by induction over data. The
second takes the engine's functions one by one and shows for each the set it stays in:
`Ledger`, the ledgers whose rows lie no earlier than the posting of their documents, and
`Within`, what a posting may do to a ledger (append rows of its pairs from its time on,
flag rows of theirs after it). `HistoryIsKept` is then read off `Within`; `BinsAreSnapshots`
needs in addition that every pair a posting writes is among those whose bins it derives.
`Fits` says that what a request has read is still of its document when it gets to write.
`TypeCorrect` has substance here: a rate is a division, and the type says that it was
defined.

`EntriesPostOnce` and `BooksFollowStock` say what the engine *computes*. Their invariant,
`Booked`, relates the ledger, the journals and the requests of each document (`Recorded`):
the first journal of a document is its automatic one; a document without a journal that is
not `unpriced` is still a draft, and a draft has no rows; the quantities its rows move add
up to what its entry orders (`Total`); and its journals add up to what its live rows are
worth. It also says that what a request has planned, before its locks, is the sum over the
lines of its document, whatever the stock then was (`Planned`). Without the first three parts the
idempotence of the journal, which is all that refuses a stale second submit, would not be
known to refuse it. The steps go through the engine once more: a posting writes one row for
each leg it was given (`SubmitMoves`), a cancel flags or reverses each row of its document
and no other (`CancelMoves`), and a replay rebuilds the rows of a document or leaves it
alone (`RepostAllKept`), each rebuilt row moving what the row it replaces did
(`RepostAllMoves`). Which documents a replay left alone is what the property excepts.

`CountsStand` is `CountStands` under two hypotheses, which the run that checks it meets.
`OneAtATime`: a count that was planned before another request moved the stock counts away a
difference that no longer is one. `FarApart`: a replay writes a reversal one microsecond
after the row it cancels, and a rebuilt reversal may be cancelled again, so a row can drift
by as many microseconds as there are rows; documents must lie further apart than that, or a
drifted row of an earlier one may come to lie between a count and what it counted. Its
invariant is `Steady`. `Drifts`
bounds the time of each row by its place in the ledger; `Current` says that what the one
request has read is what it would read now; and `Standing`, that an undisturbed line of a
submitted count has one row in the ledger, live, at the time of the count, with what was
counted. The division by which a reconciliation gets its rate is exact (`CountValued`):
stock worth the counted quantity at the counted rate is divided by that quantity. A posting
before the count disturbs it or lies on another pair (`SubmitDisturbs`, `SubmitSpares`),
one after it does not reach back to it (`Spared`), a cancel before it disturbs it, and what
is disturbed stays so (`DisturbedStays`). That a count has one row for each pair is
`CountsAssumption`, which `validate_unique_items` enforces when lines are saved.

`QuantitiesAddUp` is the first half of `UnreplayedBalances`. A row carries a running balance,
`after`, that the append took from the row before it; a document posted before others
therefore falsifies theirs until a replay has rebuilt them, and one that is cancelled, too.
What the code relies on is that it detects both. `Tallied`, the heart of the invariant
`Tallies`, says so for every live row, and not only for the last: on a pair without a
reversal each row lies at the time of its document and carries the sum of the live rows up
to it, but for those behind a reconciliation that was passed over. A submit that finds
nothing later adds to the end (`AppendAllSums`), one that does either rebuilds nothing on a
pair, so that only counts lie there, or leaves a reversal there (`RepostNothing`,
`RepostReverses`); a cancel flags the rows of its document only if nothing was posted after
it (`FlaggedSums`). `Fresh` says that the request's own reading of "later" is still true when
it writes, which is what `OneAtATime` buys. `Distinct`, no two documents of one posting time,
is needed since the code compares times strictly: cancelling the first of two documents of
one time flags its row without a replay of the second, whose balance still contains it.
`NullAssumption` says that SQL's `NULL` is no number.

`ValuesAddUp` is `UnreplayedBalances` as a whole, quantity and value, under one hypothesis
more, `EvenAverages`. A receipt sets the rate of its pair to the worth of the stock divided
by its quantity, and what the division leaves over, or the worth of stock that comes down to
zero, is in no later row: the value half fails there in the code too. `EvenAverages` is
about the receipts of the present ledger only, each with the row before it; that an
issue and a transfer take out what they are worth, that a reconciliation brings the worth to
what was counted, whatever the rates, and that late postings and cancels keep it so, is
proved. The invariant is the same: in `Summed` the balance of a row times its rate is the
worth of the rows up to it, as far as the averages up to it are even. Here a count must find
the stock it was planned on (`UpToDate`, `CountValued`), and a row is only as good as the one
it continues, so a lemma carries a row from one ledger to another that agrees with it on all
rows up to it (`SummedStays`). `EvenAverages` holds in every state of `StockLedgerSequential`.

**Payments** (`PaymentsProofs`). `TypeCorrect`, `JournalsFollowStatus`, `NoUpdateIsLost`,
`OutstandingIsExact`. `Inductive` says that at most one request is past the lock of a
payment, that at most one in all is past the counter, that a request past the lock still
sees the status it guards on, and that the journal it is about to commit is the one its
payment calls for. Without the second part `WritesAreCurrent` is not preserved by another
request's `Commit`. `Full` adds the amounts: the lines a request holds are worth at most
what was paid (`LinesOK`), and the invoices owe what is left of them. The folds over lines
are unrolled into the values after each prefix (`TotalRuns`, `ShareRuns`, `AllocateRuns`),
and what holds of the empty prefix and of one line more holds of the whole (`UpTo`):
allocating lines takes from each invoice exactly its share of them and stops at zero
(`AllocateSettles`), automatic lines never exceed what was paid (`AutoFits`). All lines,
typed or automatic, are on documents whose total is positive (`Due`, `EligibleIsDue`,
`ItemsDue`), which is why nothing is ever allocated to a return. One commit then adds one share to the sum over the submitted payments (`OneMore`).

**Sales invoices** (`SalesInvoicesProofs`). `TypeCorrect`, `OneJournal`,
`BooksAsWritten`, `NoOverReturn`, `NoOverRefund`. `Reads` says what a request still knows
of the invoice it has read: everything, as long as nobody wrote it since; `OneCreator` and
`NothingMovedEarly` carry the cases before the first submit. The two last theorems rest on
`Full`: an original stays sold while it has returns; where no drafts were made side by side
it has one active return at most and room for what that may become (`OneReturnAtATime`,
`RoomForReturns`); and where no edit summed the refunds meanwhile, the returns a submit has
checked, whether or not that submit went through, are within what was paid, and so is every
edit under way (`RoomForRefunds`). The submitted returns alone are not inductive: a return
whose submit failed after its check is not checked again.

**Purchase receipts** (`PurchaseReceiptsProofs`). `TypeCorrect`, `LedgerCorrect`,
`BinsCorrect`, `AmountsCorrect`. `Postings` is the property with one thing more, which
rows are reversals; `Knowledge` says what each stage of a request knows of its receipt
(a cancel that has read rows, unless recancelled, finds the receipt submitted and its one
row as it was); `Lonely`, that such a cancel is the only one; `Readings`, that a bin about
to be written, unless overtaken, is what the ledger says at this moment.

**Data import** (`DataImportProofs`). `TypeCorrect`, `ImportedOnce`, `LogsCorrect`,
`SuccessComplete`, `SuccessStays`. Until two requests race, `Alone`: one request or run
may still change anything but the status, and the status shows it once it has begun.
`Work`: what a run is about to do has not been done, and the rows it has
pending are not in yet; where the handler commits, a row may be in already, and what
is known instead is that a row whose name was found free is not. `NothingLost`: while every run gets
to its rows and no handler rolls back more than its own, a row that is not imported is
logged as failed or in the hands of a run. The theorems hold for any set of handler kinds.

**Cache** (`VersionCacheProofs`). `CacheTypes`, and `CacheKeepsPromise`: `VersionCache`
implements `CachePromise`, a refinement proved step by step (an increment that counts is
an `Invalidate`, the return of a reader is an `Answer`, the rest stutters). Both assume
`~VersionReadsFail`, and a failed read does break the promise (section 5, item 5). The
invariant says
that whatever is stored under an epoch and a version was built after both were reached,
and that a reader's epoch and version were reached before it began or later: reading the
version *before* the build is what makes the cache right.

**Only model-checked.** Every invariant and every action property that a run checks is
stated by a theorem; that of `UnreplayedBalances` asks for even averages, which the run's
quantities and rates give in every state. `Settles` and `RequestsEnd` are liveness under
fairness, which the prover does not do.

## 5 Where code and documentation part

Two runs are expected to be violated; `PROJECT.json` quotes the line that each of them
contradicts.

1. **Replays lose the backdated quantity** (`StockLedgerReplay`, `sle_writer.py:303`).
   The replay leaves a live reversal row one microsecond after each row it flags, and
   both `append_sle` and `derive_bin` take live rows whether or not they are reversals.
2. **Cancelling a payment reduces the invoices again** (`PaymentsCancel`,
   `party_ledger_repo.py:156`): the sign of the amount is dropped, and what is left of a
   partly paid invoice is taken, too. An invoice that the payment had settled is PAID, and
   stays so (:181).

Others were met while modelling. They have no run of their own; the properties of
section 3 are stated around them.

3. **Counter rows may double** (`code_counter_model.py:76`, against :56 "One row per
   (code_type, scope partition, period_key)"). The unique constraint lists columns that
   are NULL for company- and global-scope series and for series that never reset.
   PostgreSQL takes NULLs to be distinct, so two first requests both insert a row. From
   then on the locking SELECT uses the larger one, and the unlocked read of a typed code
   raises because it finds two.
4. **Stock entry codes collide across companies** (`stock_models.py:358`). They are
   numbered per company and unique over all; the second company's first code is refused,
   the rollback takes the counter back, and every later request is refused the same.
5. **A failed read of a version looks like a missing one** (`redis_client.py:37`): the
   reader takes version 1 and may be given what was stored under it long before.
6. **A concurrent cancel reverses the reversal**: of a stock entry
   (`stock_entry_service.py:819`), where the repeated guard is stale, and of a closing
   voucher (`pcv_service.py:270`), which has no guard under the lock.
7. **Balances lose changes** (`balance_updater.py:13`) when a manual journal is submitted
   while another posting is under way; `rebuild_balances`, which could repair them, has no
   caller, and deletes the balances of every company to rebuild those of one.
8. **A closing voucher leaves the income accounts as they are** (`pcv_service.py:196`):
   a second voucher of the year closes the same profit again.
9. **An expense of two lines cannot be submitted** (`expense_service.py:294`): each line
   posts a journal for the same document and entry type, and the idempotence guard refuses
   the second.
10. **Two drafts of returns over-return** (`sales_service.py:557`, "over-return
    protection"), and a submitted sales invoice cannot be cancelled, since
    `guard_cancellable_state` wants SUBMITTED and a submit never leaves that status.
11. **Cancelled receipts keep their journal** (`receipt_service.py:405`, and the same call
    in the cancel): the replay's call raises after the stock is committed, so neither the
    bin nor the journal follows, and the guards refuse to repeat the cancel. A backdated
    submit is committed and then reported as an error.
12. **A retry may report a success that imported nothing** (`pipeline.py:415`, against :174
    "reflect final state"): after a run that failed as a whole the only log is the one of
    row -1, so the retry has no row to process.

13. **Credit notes are never offered for payment** (`party_ledger_repo.py:77`, against :59
    "Includes both positive and negative outstanding"): submitted returns are RETURNED,
    which the filter leaves out, so that paying a customer automatically always raises
    (`payment_service.py:583`), and so does receiving from a supplier.
14. **Importing items logs every row as failed** (`inventory_services.py:345`, `:373`,
    against `pipeline.py:173` "Rows that were previously successful are NOT reprocessed"):
    the handler commits inside the savepoint of its row, the savepoint raises, and the row,
    which is in, is retried. The check of its name, and nothing else, refuses it then. An
    update (`:465`) is applied again.
15. **A refused party takes the rows before it along** (`application_parties/services.py:269`,
    against `pipeline.py:175` "reflect final state"): row 1 is inserted, the database refuses row
    2, the handler rolls back both, the import is a partial success with row 1 counted, and
    the retry of row 2 makes it a success without row 1.

Smaller ones: two submits of different documents on one pair, the later one in time
first, both decide before their locks that they are not backdated, and neither replays; a
second concurrent submit of an entry that found nothing to post, a transfer whose journal
nets to zero or a receipt that is worth nothing, is not refused by the idempotence of the
journal and moves the stock twice (`EntryPostedOnce` and `BooksMatchStock` are stated
around it); a document whose rows were replayed
is cancelled by flagging its live rows, reversal rows included; company-wide series whose
documents are unique per branch accept one typed code in two branches; drafts that
together allocate more than an invoice has are all submitted, and the excess is dropped
silently; a draft's party may change while its lines stay.

## 6 What is not modelled

- Of the modelled components: batches of more than 100 rows in a replay, units of
  measure, time zones; a second kind of party, internal transfers, accounts and modes of
  payment; taxes, write-offs and discounts of invoices; party balances, which follow the
  account balances line by line; the cache's decorator, its `delete` and the scopes inside
  keys; `preview_next_code`, which changes nothing and has no caller. Of data imports: what a row
  contains; updates of existing records; the second attempts of a handler at a generated code
  or SKU, which end as one of the row's outcomes; and the handler of employees, which commits
  or only flushes according to whether its session says it is in a savepoint, and so falls
  under one of the two kinds. Editing of draft stock entries and reconciliations, and with it the
  check, at creation only, that an opening stock meets an empty pair, is left out, which is
  why those components are listed as partly modelled.
- Delivery notes, which move stock as stock entries do, and purchase invoices
  (`invoice_service.py`), which have the protocol of the sales invoices with receipts in
  place of deliveries.
- Waiting for advisory locks. Pairs are locked in the order of a set, so two documents
  may wait on each other; PostgreSQL aborts one, which the models have as `Abort` and
  `Rollback`.
- PostgreSQL and Redis themselves. The models take from them what the code relies on:
  statement snapshots, row locks held to the end of the transaction, unique indexes that
  wait for uncommitted keys, savepoints, atomic single commands.
- Shareholders, enrollments and students import `app.common.cache.cache_invalidator`, which the tree
  does not contain, and the repost worker calls functions with arguments they do not take:
  there is no behaviour to model.
- Rosters of student groups: capacity is compared with members that were read without a
  lock, and two edits at once may exceed it; nothing orders them, so there is no protocol
  to check beyond that race.
- Everything else in the tree is master data, queries, rendering, schema migrations and
  seed data. They are most of its lines, and they have no state that two actors share but
  rows whose uniqueness the database enforces.

## 7 Plan

What would be worth adding, in order:

1. `PurchaseInvoices`, over the same histories as `SalesInvoices`, with what was billed of
   a receipt.
2. The composition of `Payments` with `SalesInvoices`: an invoice is edited or returned
   while it is being paid.
3. `ReportCache` and the list and company scopes of `invalidation.py` over
   `VersionCache`.
4. Proofs: a bound on what uneven averages lose, in place of `EvenAverages`.

The engine's operators in `StockLedger` take a ledger, and those of `Payments` the
outstanding amounts; neither refers to a request, so other modules can instantiate them.
