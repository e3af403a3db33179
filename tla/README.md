# TradeForge in TLA+

TradeForge is a trading journal: executions ("fills") are typed in or imported
from a broker's CSV file, and the backend reconstructs from them the trades that
the user sees, their P&L, their tax lots and their statistics. This directory
holds TLA+ models of that backend, the TLC instances that check them, and TLAPS
proofs about them. Paths below are relative to `src/backend/src/tradeforge/`
unless they start with `src/`.

## 1. The system

FastAPI over SQLAlchemy (async) and PostgreSQL at READ COMMITTED, with Redis for
sessions and counters and an object store for attachments. One database
session per HTTP request (`infrastructure/db.py`); the router commits, and any
exception rolls the whole request back (what was done in Redis or in the object
store stays). There are no background workers: all
concurrency is between requests.

| Component | State it keeps | Operations | What is hard | What makes it correct |
|---|---|---|---|---|
| Reconstruction engine (`application/trade/reconstruction.py`) | none between runs; during a run the current trade's snapshot, signed running position, averages | `run`: lock and resume the open trade, then open / scale in / exit per fill | resuming from a stored row, errors in the middle of a batch, crossing zero, lots shared between trades | quantities, status, sign and role agree with the fills; memory agrees with the tables; all or nothing |
| Trade tables (`infrastructure/models/trade_domain.py`, `repositories/{trade,fill,tax_lot,fill_exclusion}_repo.py`) | `trades`, `execution_fills`, `tax_lots`, `fill_exclusions` | the queries and updates behind the engine, `SELECT ... FOR UPDATE` | filters (status, `is_deleted`, exclusions), row locks that lock nothing on an empty result, stale identity map | at most one live open trade per unit; closed and deleted trades are final |
| Trade service (`application/trade_service.py`, `api/v1/trades.py`) | none | `create_trade`, `add_fill`, `soft_delete_trade` | checks made before the lock, deletion of trades that still have open lots | each request acts on the trade its caller meant, or fails |
| Import service (`application/import_service.py`) | `import_records` | parse, deduplicate, insert, run the engine once per processing unit | several units locked in one transaction, re-import, fills out of time order | importing the same file again changes nothing; a failure leaves nothing |
| P&L and risk (`application/pnl_service.py`, `risk_service.py`, `domain/pnl/`) | `trade_pnl`, `charge_schedules`, planned risk on `trades` | compute at the close, backfill after imports and closing requests, recalculate R | seven components rounded one by one, a brokerage cap per order, the schedule in force on a date; the order of planned risk and close; two copies of the planned risk | a P&L row is what the statute charges; a closed trade has one whenever there is a schedule; R follows the planned risk |
| Journal and attachments (`application/journal/`, `api/v1/journal.py`) | `journal_entries`, its audit log, attachments with a status; the object store | save an entry; presign, confirm, expire, reject, delete | read before write at READ COMMITTED; uploads the server does not see, through a URL that stays good after the confirm; a mark written just before an exception | the audit log explains the entry; a confirmed attachment was uploaded and is in the store, a deleted one stays deleted |
| Authentication (`application/auth/`, `repositories/{session,auth,user}_repo.py`) | users and mailed links (PostgreSQL), login sessions, failure counter, forced re-login (Redis) | register, verify, login, logout, reset | two stores changed without a common transaction; the counter is read before and raised after the comparison | the counter stays near its threshold; a login that no revocation overtakes admits its holder |
| Analytics and dashboard (`application/analytics_service.py`, `domain/analytics/`, `repositories/analytics_repo.py`, `api/v1/{analytics,dashboard,risk}.py`) | none | some twenty statements, the calculators behind them, answers made of up to twelve statements | partitions cut at written-out bounds, empty inputs, ties, one figure computed in several places, commits between the statements of one answer | parts add up to the total; each figure equals its definition; the endpoints agree |
| Broker adapter (`infrastructure/adapters/zerodha_adapter.py`) | none | CSV rows to normalised fills | product type of a row, deduplication keys | one execution, one fill |
| Accounts, users | rows | create, rename, deactivate | - | - |

How they interact: the trade and import services insert fills and then call
`ReconstructionEngine.run` for one *processing unit*, a tuple (account,
instrument, product type family). The engine reads and writes the trade tables,
calls `PnlService` when a trade closes, and returns; the router commits. Two
requests meet only in the tables and in the row locks on `trades`. Tax lots are
looked up by user and instrument alone, so two accounts of one user meet there
as well. The P&L of a trade takes its planned risk from the journal entry first,
from the trade otherwise; saving the entry recalculates R on an existing P&L row.
The analytics read all of these tables and write none.

## 2. Modules

| Module | Models |
|---|---|
| `TradeEngine` | rows, and the pure decisions and effects of the engine on one fill; the `WHERE` clauses of its queries; lot arithmetic |
| `Reconstruction` (extends `TradeEngine`) | the requests that change trades, one transaction at a time, the engine's loop fill by fill |
| `PositionBook` | the abstract specification: one signed position per unit, moved by signed quantities, kept or discarded per request |
| `MCReconstruction` | the symmetry sets of the instances of `Reconstruction` |
| `TradeSessions` (extends `TradeEngine`) | overlapping requests on one unit: snapshots of statements, row locks, stale ORM objects, deletion |
| `ImportPipeline` | overlapping uploads of broker files: deduplication, unique indexes, several units per file, deadlocks |
| `ImportLedger` | the abstract specification of imports: a file goes into an account as a whole, and once |
| `MCImportPipeline` | the files of the instances of `ImportPipeline` |
| `SumTheorems` | sums over finite sets, for the proofs about totals |
| `EngineProofs` (extends `TradeEngine`, `SumTheorems`) | what the engine's operators do to one row, and what assigning a fill does to a trade's totals |
| `ReconstructionProofs` | the inductive invariant and the safety theorems of `Reconstruction`; it implements `PositionBook`; trades as sums of their fills, and tax lots |
| `Charges` | the P&L calculator with its rounding, the lookup of the charge schedule, and the charges as a statute states them |
| `TradeJournal` (extends `Charges`) | overlapping requests on one trade and what hangs off it: P&L row, journal entry, audit log, attachments |
| `MCTradeJournal` | the charge schedules of the instances of `TradeJournal` |
| `AnalyticsMetrics` | the calculators of `domain/analytics` on exact fractions |
| `TradeQueries` (extends `AnalyticsMetrics`) | the statements of `AnalyticsRepository` as functions of the rows they read |
| `Analytics` (extends `TradeQueries`) | the endpoints, and an answer of several statements over a book that others change |
| `MCAnalytics` | the trades, accounts and filters of the instance of `Analytics` |
| `LoginSessions` | one account in PostgreSQL and Redis under overlapping requests |
| `LoginProofs` | types, the bound on failures and what a login promises, for `LoginSessions` |
| `SessionProofs` (extends `EngineProofs`) | safety of `TradeSessions` |
| `JournalProofs` | safety of `TradeJournal`: the rounding of the charges, P&L rows, R, the audit log, attachments |
| `AnalyticsProofs` (extends `Analytics`, `SumTheorems`) | the groupings of the analytics are partitions; the dashboard agrees with them; expectancy is one number; drawdown, streaks and the rolling series say what the curve says; the answers of one request agree and have their types; ruin is told from final results |
| `ImportProofs` | types of `ImportPipeline`, and that no fill is left without a trade; it implements `ImportLedger` |

### Reconstruction

| In the model | In the code |
|---|---|
| `fills`, `trades`, `lots`, `excluded` | the four tables as the open transaction sees them |
| `committed` | the same tables at the last COMMIT; ROLLBACK restores them |
| `phase`, `unit` | whether a request's transaction is open, and for which unit |
| `pending`, `cur`, `snap`, `pos` | the fetched fills, `current_trade_id`, `current_trade`, `running_position` in `run()` |
| `CreateTrade`, `AddFill`, `ImportFills` | the request up to the loop: checks, inserts, `get_open_trade_with_lock`, `get_unprocessed_fills`, resume |
| `OpenTrade`, `ScaleIn`, `PartialExit`, `FullExit` | one iteration of the loop, lots and `assign_trade` included |
| `CrossingZero`, `LotInconsistent` | errors E1 and E4, which reach the router and roll back |
| `Commit`, `Abort`, `SoftDelete` | `db.commit()`; any other failure; `soft_delete_trade` with its commit |

A trade's id is a fresh uuid drawn when a fill opens it; the model names the
trade after that fill. Quantities are multiples of 0.0001 counted as integers.
Fills with equal timestamps are ordered in the code by `fill_id`, an opaque
string, so the model lets them come in any order. One user and one instrument;
the units are that user's accounts, all of one product type family. The engine
does the same for every unit, and units share nothing but tax lots, which the
model has. `DELIVERY` is the only family with lots.

Left out of `Reconstruction`: average prices, `trade_type`, closing dates (they
feed no guard), P&L (in `TradeJournal`), planned stop and risk amount (their check
can only fail the request, which `Abort` covers). E2 and E5 are not modelled:
`get_unprocessed_fills` returns only unassigned fills of one unit, so `run()`
never meets them; E3 is a condition of `create_trade`. `ImportFills` is
`POST /v1/accounts/{id}/import` for the rows of one unit, committed by its route
(`api/v1/accounts.py`). A CSV row has a `trade_date` column of its own; the model
derives the date from the timestamp, with which the broker's column agrees.

### TradeSessions

Each session is a request with an identity map and a transaction. What is shared
is the committed tables and `lock`. The steps are those at which PostgreSQL or
the ORM lets another request come between: the read of the trade in `add_fill`
(`session.get`, which leaves the row in the identity map), the snapshot of
`SELECT ... FOR UPDATE` (`Scan`), the wait for each row and the re-check of its
newest version (`LockRow`), the run, and the commit. The statement has no `ORDER BY`,
so it visits the rows in any order; over two open trades of one unit two lookups can
wait for each other, and PostgreSQL aborts one of them (`WaitsFor`, `DeadlockVictim`).
`RowObject` is the point
where the ORM hands the engine a row it had loaded before. The run is the
engine's loop with a step per fill (`StartRun`, then `OpenTrade`, `ScaleIn` or
`ScaleOut`, or `RunFails`), built from the same `TradeEngine` operators as
`Reconstruction`; what it writes stays in its session (`rows`, `mine`) until
`Commit`. A fill's id is its place in fill order. The instrument is taken to exist: `get_or_create`
only waits for somebody else when two requests insert the same new one. A
`DELETE` reads the fills without a lock (`ReadFills`), then waits for the row
(`WriteDeleted`). The constant `SoftDeletes` says whether there are such requests.

### ImportPipeline

Each session is one upload of one file into one account: the file is looked up
(`Upload`), then each row is looked up (`CheckRow`) and inserted (`InsertRow`),
then each unit that got a fill is reconstructed in the order of the file
(`ScanUnit`, `RunUnit`), then the import record is written and the route
commits. Between a lookup and the write it guards another upload may commit;
what decides then is a unique index, and waiting for it: for an uncommitted fill
with the same trade id (`SameFillPending`), for the row lock of an open trade
(`TradePending`), for an uncommitted record of the same file (`RecordPending`).
`WaitsFor` collects the three, and PostgreSQL aborts a transaction that is on a
cycle of waits (`DeadlockVictim`). The index on fills is the one of migration
0002, on broker and trade id, which the one of 0008 adds to but does not replace.

A run here is what `Reconstruction` and `TradeSessions` say of it, seen from
outside: the trade it found stays open or is closed, and a new one may stay
open. Every fill of its unit is assigned. Rows that do not parse are counted and
skipped by the code and left out here; instruments are taken to exist, and the
P&L backfill of an import is in `TradeJournal`.

### Charges and TradeJournal

| In the model | In the code |
|---|---|
| `trade`, `pnl`, `entry`, `audit`, `atts`, `schedules` | one row of `trades` and the rows that refer to it, as committed; `charge_schedules` |
| `sess[s].own` | what the transaction of request `s` has written and not committed |
| `sess[s].seen` | what it has read and will use later |
| `lock` | the rows written by a transaction that has not ended: others wait |
| `Run`, `Backfill`, `Store` | `create_trade`, `add_fill` or an import: the engine with the P&L of a close, then the planned stop, then `backfill_all_closed` |
| `ReadForUpsert`, `WriteEntry`, `Recalculate`, `EntryExists` | `upsert_entry`: the two reads, the write with its audit rows, `recalculate_r_multiple`; the unique key of the entry |
| `Presign`, `InsertPending` | `presign_attachment`: the checks, then the rows |
| `Confirm`, `HeadFound`, `HeadMissing`, `HeadTooLarge`, `Discard`, `Expire`, `Raise` | `confirm_attachment`, each outcome, and the route that answers an error without committing; `HEAD` and `DELETE` are two calls to the store |
| `Put`, `Wait` (external) | an upload through the presigned URL, of any size and any number of times while it is good, after the confirm too; the passing of time |
| `object`, `sent` (external) | what the store holds for each attachment, and the sizes ever uploaded for it |
| `Commit`, `Fail`, `Deploy` | `db.commit()`; a failure anywhere; a migration that adds schedules while no request runs |

A request is split wherever another transaction may come between: after each
read it acts on later, and before each write that may have to wait. An UPDATE
writes the columns it names over the newest version of the row; an upsert writes
every column. Money is an integer in units of the four decimals that are stored,
rates are numerators over `RateScale`, and both roundings are ROUND_HALF_UP as
`domain/decimal_config.py` has it. `ExactCharges` is the reference the calculator
is checked against: per order, unrounded, and told by the columns that are filled
instead of by the type of brokerage.

Abstracted: the engine's run is one step (`Reconstruction` has it fill by fill);
a partial exit changes nothing read here and is left out; quantities are whole,
so gross P&L is exact. Of the ten audited fields of an entry there are two, one
a price and one a text, which is what `_diff_for_audit` distinguishes. Which
sessions may save (`Editors`), trade (`Writers`) or
upload (`Uploaders`) is a constant of the instance. The other trades of the user
count only in `OtherBytes`.

### Analytics, TradeQueries, AnalyticsMetrics

`book` maps a trade id to its row, joined with instrument, P&L and exit fills, or
to NULL. `Open`, `Close`, `Backfill`, `Rescale` and the deletion are the commits
of other requests that the statements can see. Each statement is an operator on
the book and the filter, with its WHERE, GROUP BY and CASE; each calculator an
operator on what its statement returned. `Decimal` quotients are exact fractions,
and a standard deviation is represented by its variance, so no digit is lost and
none is invented. Endpoints of several statements, apart from the summary below, are given
on one snapshot: `get_r_distribution` is seven SELECTs and the hold-duration endpoint two, and
a commit between them may set a histogram and its `coverage_count` apart, which `PartsAddUp`
does not exclude. The order of the parts of an answer is presentation and left
out, where the order of trades is a matter of content (curve, streaks, rolling
series) it is the code's: by date, last fill and id. Monte Carlo draws are
every sequence of draws.

`req` is `GET /v1/risk/summary` under way: it runs the statements of
`/v1/analytics/summary` and three more, each seeing what is committed when it
starts. `moved` is a history variable: whether a commit fell between them.

### LoginSessions

One user. `user`, `verification` and `resets` are rows; `live`, `user_sessions`,
`forced_reauth` and `login_failures` are keys in Redis. A request's Redis commands
take effect at once and survive its failure; its rows appear at its commit.
`Login` reads the user and the counter, `WrongPassword` and `RightPassword` come
after the comparison of hashes, which takes time. `ReadTokens` and `Revoke` are
the read and the pipeline of `revoke_all_user_sessions`. `alone` is a history
variable: no reset has revoked sessions since this request began. `Release` is a
change of the hash parameters, which makes the next login `Rehash`. `Expire` is
any TTL or `expires_at` running out. A token or a link id is a fresh random value
in the code and a value nobody holds in the model.

Left out: the limits per address and the password policy, which refuse a request
before it changes anything else; the security audit log; the profile routes.

## 3. Runs

| Run | Instance | Shows |
|---|---|---|
| `one_unit` | 4 fills, quantities 1-2, 2 timestamps of one day, batches of 2, deletions, F&O | `TypeOK`, the safety invariants of the trades, fills and the run, among them the sums (`TradesAddUp`), final history, refinement of `PositionBook` |
| `shared_lots` | 4 fills in batches of up to 4, 2 accounts, `DELIVERY`, deletions | lots conserve quantity and never go negative; a closed trade's lot is closed; while one account trades and no open trade is deleted, a lot mirrors its trade (`LotMirrorsTrade`) |
| `sessions` | 2 sessions, 3 fills, batches of 2 | who writes a trade holds its lock (`WritersHoldLocks`), trades touched by imports only add up, closed and deleted trades are never written again, an excluded fill's trade stays deleted (`ExcludedAreDeleted`) |
| `deadlocks` | 2 sessions, 4 fills of one quantity, deletions | circles of waits form, and each is made of lookups that hold one trade and wait for another; no `DELETE` is in one (`DeadlockNeedsTwoTrades`) |
| `waits` | 2 sessions, 4 fills of one quantity, no deletions, fair | two lookups over two open trades do wait in a circle; the database breaks it, and every request ends (`SessionsEnd`) |
| `imports` | 3 uploads, 2 at a time, 3 files, 2 accounts, fair | every import is whole and happens once (refinement of `ImportLedger`), no fill is passed over, every upload ends |
| `journal` | one trade of up to 2 units, 2 prices, 2 stops, 2 dates, 3 schedules; one session edits, another trades and imports | a P&L row is explained by its trade and the statute (`PnlExplained`), a close has one when there is a schedule (`ScheduledCloseHasPnl`), R follows the journal (`RFollowsEdits`), the audit rows of the one editor's saves chain and end at the entry (`AuditExplainsEntry`) |
| `attachments` | one attachment, 2 sizes around the limit, any number of uploads, 2 sessions that presign, confirm and delete | a confirmed attachment was uploaded within the limit and stays in the store unless a larger file follows (`ConfirmedUploaded`), confirmed and deleted are final though a second confirm may be under way (`DeletedStaysDeleted`) |
| `analytics` | 4 trades, 2 accounts, 3 filters, one commit during an answer | the parts of every partition add up, three copies of the expectancy agree, drawdown, streaks and rolling series meet their definitions, ruin is told by the final results, dashboard and analytics agree, the statements of one answer agree unless a commit came between |
| `logins` | 2 requests, 2 tokens, 2 links, threshold 2, one release | the failure counter passes its threshold by fewer than the requests under way; a login during which no reset revoked sessions admits its holder when it answers (`LoginAdmits`) |
| `lost_update`, `planned_r` | the smallest instances | two of the findings below |

A circle of waits needs four fills, two that open trades and two whose lookups find
them. So `DeadlockNeedsTwoTrades` is checked on the instance of `deadlocks`, which has
circles and deletions together (2 million states), and not on that of `sessions`. `waits` has
the circles without deletions, because liveness with both takes TLC too long;
`SessionsEnd.cfg`, with deletions on two fills, passes as well. The theorem of section 5
covers circles and deletions in any number.

The other findings of section 4 each have a configuration that shows them; TLC
reports the property of each as violated.

| Configuration | Module | Property |
|---|---|---|
| `Quarantine.cfg` | `MCReconstruction` | `CrossingFillIsQuarantined` |
| `TwoOpenLots.cfg` | `MCReconstruction` | `AtMostOneOpenLot` |
| `TwoOpenTrades.cfg` | `TradeSessions` | `OneOpenTradePerUnit` |
| `HalfDeleted.cfg` | `TradeSessions` | `DeletedFillsExcluded` |
| `ForeignFill.cfg` | `MCImportPipeline` | `KeyedByAccount` |
| `HoldFilter.cfg` | `MCAnalytics` | `FilterReachesEveryQuery` |
| `RejectedMark.cfg` | `MCTradeJournal` | `MissingUploadIsRejected` |
| `AuditRace.cfg` | `MCTradeJournal` | `AuditExplainsEntry`, with two editors |
| `LaterUpload.cfg` | `MCTradeJournal` | `ConfirmedWithinLimit` |
| `RehashRace.cfg` | `LoginSessions` | `ResetSticks` |

*Bounds.* Four fills are enough for open, scale-in, partial exit and close in
one life; for a scale-in after a partial exit; for a trade closed and another
opened in the same batch; and for a trade resumed twice from its row. Two
quantities distinguish an exit that is too small, exact and too large. With two
timestamps a later request may carry an earlier fill. `shared_lots` needs the
fourth fill for one account to consume the other's lot and the other then to
close; there one timestamp suffices because lots of one date already come in any
order. In `TradeSessions` two sessions meet in every window the code has (the
windows are between a pair of steps of one request), and three fills let a trade
be opened, then touched by both. Two open trades and two lookups over them take
four fills (`waits` and `deadlocks`; with fewer no circle can close), and there
the quantities do not matter. In `imports` two of the files report the same
executions in opposite orders, so that they wait for each other's keys, and the
third touches the same units in the opposite order, so that it waits for their
trades; the third upload meets what the first two have committed. One account
starts with open trades, the other is flat. Every bound is a constant: `Fill` (the supply
of fills), `MaxBatch`, `Session`, `MaxUploads`. Symmetry (permutations of `Fill`, of `Account`)
is used in runs without liveness. `CHECK_DEADLOCK FALSE` is set for these modules
because the supply of fill ids is finite and the system stops when it is spent;
`TradeJournal`, `Analytics` and `LoginSessions` are checked for deadlock.

In `journal` the two prices give a gain, a loss and nothing, on either side; the
rates are hundredths, so components end on halves, and the brokerage cap is
reached by some orders and not by others. The two dates are the day before a
schedule takes effect and the day itself; a broker without a schedule gets one
from a release. The stops are on either side of the average. In `attachments` of
the two sizes one is over `MaxBytes`, and a browser may upload either, whatever
it declared and as often as it likes while the URL is good. Saves and uploads touch
different rows, so `journal` has no uploader, and `attachments` one price and one save;
both have one editor, two being the finding `AuditRace.cfg`. In `analytics` the four trades are a gain, a loss
or a zero, a larger gain and a loss, on three dates, so that the curve climbs,
falls, recovers and falls again; `MinSample` and `Window` are 2, `RuinThreshold`
is -2, so that samples fall on either side. `Moving` holds one trade of each
account. In `logins` two requests meet in every window; the second link
supersedes the first, the second token is another device.

*Fairness.* `TradeSessions` assumes strong
fairness of each session's own steps, because a waiter for a row lock is
enabled and disabled as others take it: PostgreSQL queues waiters for a row and
grants it in turn. `ImportPipeline` does the same. Under weak fairness alone TLC finds one request overtaken
for ever, which that queue excludes. No fairness is put on requests, which users may stop
sending, or on aborts. The other modules assume none: each of their requests may be given
up at any step (`Reconstruction` runs one at a time, a finite loop that blocks on nothing),
and they are asked for safety only.

Every checked property has a mutation of a model definition, shaped like a bug
in that code, that breaks it; they stand beside the definitions they mutate,
marked `Mutation`, and nothing uses them otherwise.

## 4. Findings

Each is a disagreement between the code and what the repository says of it.

* **Crossing zero** (`Quarantine.cfg`). The design document says a fill that crosses
  zero stays in `execution_fills`, unassigned, for the user to exclude and split.
  The error propagates and the fill is rolled back with its request.
* **Two open lots** (`TwoOpenLots.cfg`). Deleting an open `DELIVERY` trade leaves
  its lot open. `get_open_lot` relies on at most one open lot per user and
  instrument. Exits of the next trade then drain the dead lot, and its close
  fails with E4. Two accounts of one user break the same premise.
* **Two open trades** (`TwoOpenTrades.cfg`). `SELECT ... FOR UPDATE` on a flat
  unit locks no row, so two overlapping requests both open a trade, and every
  later run of the unit fails in `scalar_one_or_none()`.
* **Lost update** (`lost_update`). `add_fill` loads the trade before the engine
  locks it. The locking query has no `populate_existing`, so the engine computes
  from the older attributes and overwrites what another run committed.
* **Half-deleted trade** (`HalfDeleted.cfg`). A fill committed between the fills
  query and the update of a `DELETE` stays assigned to the deleted trade,
  without an exclusion.
* **Foreign fill** (`ForeignFill.cfg`). The contract makes (trade id, account) the
  key of a fill. The index of migration 0002 on (broker, trade id) is still in
  force, so a file with a trade id that any other account already has can never
  be imported: the insert fails, nothing catches it, the upload is rolled back.

* **R of a trade entered whole** (`planned_r`). The engine stores the P&L when it
  closes the trade, before `create_trade` writes the planned risk; the backfill
  after it passes over a trade that has a P&L row. A trade entered with its exit
  and a planned stop keeps `r_multiple` NULL, which `trade_service.py:282-283`
  and STEP-16-EXECUTION-PLAN.md:525 mean to exclude.
* **A filter that stops half-way** (`HoldFilter.cfg`). `domain/analytics/types.py:17`
  calls the filter one "applied to every analytics query". The averages of the
  hold-duration endpoint (`analytics_repo.py:587-601`) do not join `instruments`
  and leave two dimensions out: buckets of futures beside averages of everything.
* **A mark that is lost** (`RejectedMark.cfg`). JOURNAL-API-SPEC.md:504 has an
  attachment without an upload REJECTED. The service marks it and raises, and
  the route (`api/v1/journal.py:424-428`) answers without a commit.
* **A later upload** (`LaterUpload.cfg`). JOURNAL-API-SPEC.md:455 has the store reject
  bodies over 15 MB by a `content-length-range`. A presigned PUT sets no such condition
  (`journal/service.py:391-392` says so), and its URL is good for 15 minutes; the size is
  checked once, at the confirm. A larger file sent after it replaces a confirmed one.
* **Two editors** (`AuditRace.cfg`). The audit rows of a save are the difference to
  an entry read before the UPDATE (`journal/service.py:170-178`). Of two saves
  that overlap, the later one's rows start from a value the earlier one replaced.
* **A reset undone** (`RehashRace.cfg`). A login that hashes the password again
  writes the password of the row it read; a reset that commits in between is
  overwritten by the old password.

What holds in spite of them is stated as properties: `ImportedTradesAddUp` and
`SettledStaysSettled` under any overlap, `LotsConserved` and
`ClosedTradeLotClosed` under any sharing of lots (E4 is what protects them),
`RFollowsEdits` with its two exceptions, `ConfirmedUploaded` unless a file over the limit
is sent, `LoginAdmits` for logins that begin after a reset has revoked the sessions; of a
login that a revocation overtakes it claims nothing.

Seen while modelling, and what the models contain without a property about it:

* R goes stale when a save removes the planned stop (`journal/service.py:188` skips
  the recalculation), or looks for the P&L row before the close has committed.
  Two backfills that overlap write whole P&L rows, R included.
* A price read from its column has four decimals, so saving "100" over 100.0000
  appends an audit row for a value that did not change.
* Stamp duty is charged on the entry turnover of short trades too
  (`domain/pnl/calculator.py:71-72`), where the entry is the sale.
* An import that scales a trade in leaves `planned_risk_amount` as it was.
* `max_drawdown_inr` belongs to the drawdown that is deepest in percent, not in
  rupees. A trade whose first fill is before 9:15 is counted in the last band of
  the day. No setup name selects the trades without one. The planned risk-reward
  statement divides by the distance of entry and stop, which may be zero.
* The attachment quota counts confirmed, declared bytes: presigned uploads pass it
  together.
* An expired verification link is never replaced. A session that a login
  creates between the two halves of `revoke_all_user_sessions` survives the
  reset and is no longer listed; the revocation precedes the commit of the
  new password, and stays if that fails.

## 5. Proofs

For every set of fills and accounts, every set of positive quantities, every
`MaxBatch` and every family, `ReconstructionProofs` proves for `Spec`:
`TypeOK`, `TradesAddUp` (its parts `TradeQuantities` and `FillsExplainTrade`),
`OneOpenTrade`, `RunAgreesWithTables`, `NoOrphanFill`, `FillsMatchTrades` (its parts
`RolesMatchDirection` and `ExcludedAreDeleted`), `HistoryIsFinal`, `LotsConserved` and `ClosedTradeLotClosed`, that
`Reconstruction` implements `PositionBook`, and `LotMirrorsTrade`, which says of each
state that lots mirror trades as long as one account has traded and no open trade has
been deleted (otherwise they need not, which is a finding).
For every set of sessions, however many, and all fills, quantities and batches,
`SessionProofs` proves `TypeOK`, `WritersHoldLocks`, `ImportedTradesAddUp`,
`ExcludedAreDeleted`, `DeadlockNeedsTwoTrades` and `SettledStaysSettled` of
`TradeSessions`.
For every finite set of requests, every threshold and all tokens, links and
passwords, `LoginProofs` proves `TypeOK`, `FailuresBounded` and `LoginAdmits` of
`LoginSessions`. For all sessions, prices, quantities, schedules and rates,
attachments, sizes and limits, `JournalProofs` proves every property of
`TradeJournal` that a run checks: `TypeOK`, `PnlExplained`,
`ScheduledCloseHasPnl`, `ConfirmedUploaded` and `DeletedStaysDeleted`;
`RFollowsEdits` if at most one session trades (`Writers`), however many edit; and
`AuditExplainsEntry` if at most one session edits (`Editors`), however many trade
and upload. With two the last two are false: two backfills that overlap overwrite
R, and two saves that overlap break the chain of the log (section 4). For all
files, accounts, sessions and initially open trades, `ImportProofs` proves `TypeOK` and
`NoFillLeftBehind` of `ImportPipeline`, and that it implements `ImportLedger`. For
any trades, rows, filters, accounts and days, `AnalyticsProofs` proves `TypeOK`,
`PartsAddUp`, `DashboardAgrees`, `ExpectancyAgrees`, `CurveMetricsSound`,
`RuinMatchesFinals` and `SummaryAddsUp` of `Analytics`. No invariant of a passing run
is left without a theorem.
The assumptions are the named ones of the modules
(`QtyAssumption`, `TimeAssumption`, `FamilyAssumption`, `NullAssumption`,
`BoundsAssumption`, `SessionsAssumption`, `LoginAssumption`, `JournalAssumption`,
`ImportAssumption`, `ChargesAssumption`, `MigrationsAssumption`, `TradeAssumption`,
`ProfileAssumption`, `ClockAssumption`, `MetricsAssumption`, `MovingAssumption`), which TLC evaluates on every instance.
`ProfileAssumption` says how a trade begins, open, kept and without a P&L row, and
what the calculator will make of it: a total that is the sum of its levies, and an R
with the sign of the net result, because it divides by the absolute value of a risk.
`MigrationsAssumption` is the CHECK constraints of
`charge_schedules`; `JournalAssumption` also says that the ids of attachments are
not the names of the other rows, which is how `lock` is indexed.

None of the invariants of `Reconstruction` is inductive alone. A rollback restores `committed`, so
whatever is claimed of the working tables must be claimed of the committed ones
too (`DatabaseGood` twice). A scale-in is right only if the snapshot is the row
(`RunAgreesWithTables`). The unit stays flat-or-single only if the run holds the
unit's one open trade. `TradeQuantities` needs the sign of `pos` to exclude an
exit larger than the net quantity, which is E1's check. `NoOrphanFill` needs
every unassigned fill to be on the run's work list (`WorkList`), and
`HistoryIsFinal` needs the working tables to extend the committed ones
(`Extends`). `IInv` is their conjunction. `EntryStep`, `ExitStep` and `OpenStep`
say what the engine's operators do to one row; `AssignIInv` carries the tables
through one iteration, and each action of the loop is an instance of it.

*Sums.* The community modules define a sum by recursion on a set from which
arbitrary elements are taken one by one. `SumTheorems` proves what that comes
to for every finite set: any element can be taken out first (`SumRemove`), so a
sum changes by what one element changes (`SumChange`, `SumAdd`). The library's
induction rules have an operator as parameter and cannot be used, but
well-foundedness of the strict subsets of a finite set can: a set of
counterexamples, if not empty, has a member with no smaller one
(`SmallestSubset`), and each proof by induction is that member led to a
contradiction. The recursive function itself is built in the same way, since its
existence is a fact to prove (`SumsExist`, `SumsUnique`).

*Trades and their fills.* `FillsExplainTrade` is inductive with `IInv` once it is
stated of the committed tables too: a fill that is taken enters exactly one of
the two totals of exactly one trade (`FillEnters`), and the engine adds its
quantity to the same column (`EntersRow`). Inserted fills have no trade and enter
no total.

*Overlapping requests.* `Good` describes one session of `TradeSessions` against
the tables it shares. `Owns`: the fills it has inserted are nobody else's, and each
existing row it will write, or was given as open, is locked by it, open and live.
`Writes`: a run writes only rows it was given, a `DELETE` only its target's flag.
`Run`: the position is that of the snapshot, and the snapshot is that of the row
*unless* the session had loaded the row before it was locked. That exception is
the lost update of section 4, and only `add_fill` has it, whose fill is manual;
so a row whose fills are all imported was written by runs whose snapshot was
right, and `AddUp` is kept by each step of them (`TakesKeeps`, `CurrentTrade`). Steps
of one session leave the others `Good` because they touch no lock but a free one
or their own (`OneSession`); a commit does because the rows it writes were locked
by the committing session and by no other (`CommitOthers`).
`SettledStaysSettled` follows: a settled row is neither open nor anybody's to
write, except for the `DELETE` of a closed one.

*Waiting.* `DeadlockNeedsTwoTrades` is about whom a request waits for, and `Good`
does not say which locks a request has *not* taken. `LockInv` does: none before its
lookup or the `DELETE`'s update, and within a lookup none of the rows still to be
locked. So whoever is waited for holds a lock, and if it waits itself it is a lookup,
and waits for another row than the one it holds (`CirclesOfLookups`).
`ExcludedAreDeleted` needs `HideInv`: a `DELETE` hides fills of its target only, and
fills never change trade; the run that could write the trade's row as it was before
cannot hold its lock, by `WritersHoldLocks` and the re-check in `LockRow`.

The refinement maps a unit to the signed net quantity of its open trade, or 0.
`TradesGood` makes the `CHOOSE` in that mapping unique; `PosIsSignedNet` says
`running_position` is what the tables show; `FillImplements` turns the check for
E1 into `Legal`.

`FailuresBounded` alone is not inductive either: a wrong password raises a counter
that was read some steps before. `Room` counts the requests that have passed the
threshold and not yet compared: the counter plus their number stays below the
threshold plus the number of all requests. A login needs the counter below the
threshold and adds one to the second summand (`LoginStep`), a wrong password moves
one from the second to the first (`WrongPasswordStep`), all else lowers both or
leaves them (`QuieterKeepsRoom`). `LoginAdmits` rests on `Opened`: what a login that
no reset has disturbed holds true at each of its steps, the session listed under
its user, and the key live, until its cookie is sent; `Filled` says the record of
a request has the fields this speaks of.

The same module proves that the user's row is whole. A request writes some
columns only, so it is right only if the row is there when it commits: `Holds`
says so for every request that will write, and that whoever holds the lock is
past its first write, so a request that ends leaves no lock behind.

*Lots.* `get_open_lot` looks only at open lots, and a close makes its trade's lot
closed or fails with E4. So what a foreign trade draws on is never the lot of a
closed trade (`LoopKeepsClosed`), in the open transaction as in the committed
tables. For `LotMirrorsTrade` the only open lot has to be the current trade's:
while the trades have one owner (`OneOwner`) there is one open trade, and every other
lot is of a closed one (`OwnLotFound`). A run adds trades and undoes no deletion, so a state
with one owner came from one with one owner (`OwnerBefore`); a rollback restores the
committed tables, of which the same is claimed.

*Attachments.* Neither property can be told from the committed rows: a request may
have read a row long before it writes it. `SessionRight` says what each request is
about to write and why that is still right: a confirm has seen an object within the limit,
so one was sent, and only a request that has seen a larger one takes an object away
(`Discard`), so one was sent too. `Claims` says that the id drawn by a
presign is nobody else's, so no pending row is written over another.

*Charges.* `ChargesExact` is about the calculator alone: for any trade and any
schedule that satisfies the CHECKs, the seven rounded components differ from the
unrounded charges by at most seven half units. Each quotient is bounded by what
ROUND_HALF_UP means (`RoundHalfUpBounds`), scaled to the common denominator
`RateScale`^2 (`RoundsScaled`), and the seven bounds are added; all products are
named and hidden first, so that what is left is linear. `Brokerage` shows that the
three types of brokerage compute what the filled columns say.

*P&L rows.* `PnlExplained` is about the committed rows, but a request may have
computed its P&L row long before it writes it. `JInv` therefore says of each
session that the row it has written or is about to write is explained by the trade
as this transaction sees it (`PnlRight`), and that what it has written is locked by
it (`Holds`), so no other session changes the trade in between. A trade that is
closed keeps the columns the calculator reads (`SameToPnl`); schedules are only
added. `ScheduledCloseHasPnl` is the last conjunct of `PnlRight`: a close that is
not committed has its P&L row in the same transaction when `Latest` finds a
schedule, which exists because a set of dates has a greatest one below a bound
(`LatestExists`).

*R and the journal.* Per session, `RInv` says which rows it can have written at
which step: a save that wrote both the entry and the P&L row wrote an R that fits,
and one that wrote a P&L row alone is the session that trades, which saw no P&L row
before it. Since nobody else inserts one, its commit cannot replace an R that was in
line.

*The audit log.* `Story` is the property for any log and any entry. A save appends
rows of which each is about another field, starts at the entry it read and ends at
the entry it writes, and is silent only about a field that stays (`Tells`);
`StoryGoesOn` shows that a story with such rows appended is one of the new entry. It
remains that the entry read is the committed one when the save commits, which
`ARight` carries: no other session edits, and a presign writes an entry only where
there is none.

*Imports.* `Good` describes the record of one upload: an inserted fill has a trade
or its unit is still in the queue (`Awaited`), so when the queue is empty none is
left. For the refinement, `Faithful` says that what an upload has inserted is in
its file and for its account, and that the rows it has passed are in the book or
among its own. With the unique index (one fill per trade id in the book and all
uploads together) and the unique record (one upload of a file and account at its
commit) a commit makes the count of each reported execution one and changes no
other, which is the step of `ImportLedger`.

*Analytics.* A request changes no trade, so these are facts about one book. The
invariant is small (`BookInv`: rows are typed, under their own id, and priced only
if closed); the work is in the operators. `SumParts` says that the sums over the
parts `{x : Key(x) = k}` of a finite set add up to the sum over the set, for
whatever keys. Each statement with a GROUP BY is shown to be such a cut: the five
CASEs over written-out bounds (`RBucket`, `HoldBucket`, `Band`, ...) are functions
that meet each row once, and the six bands that a service fills up with zeros
lose none. The dashboard uses another WHERE clause and an outer join;
`SameRows` shows what the two select: the same priced trades, so one net P&L.

`ExpectancyAgrees` is about sequences, sets and quotients at once. `RanksListAll`
shows that picking the i-th element of a strict order lists every element once
(ranks are an injection between sets of one size), so that `SeriesLists` can turn the
total of a column of rows in order into a sum over the set of rows. The rolling series
picks winners and losers out of a list in order, which is such a listing again
(`ChosenList`). The three formulas then come to one `Weighed`, a function of the two
counts and the two sums, and `WeighedIsMean` shows it to be the mean. That needs the
losers' sum not to be positive, because the code takes the magnitude of their average
and subtracts it.

`SummaryAddsUp` is the one property of a request under way. Its invariant, `ReqInv`,
is a claim about two books: there is an earlier one, no different from the present one
but for moving trades and equal to it while nothing was committed, and each answer is
that of one of the two (`Seen`). A statement may read earlier answers, so the order of
the statements is part of it (`Progress`). At the end, answers of one book are compared
by sums (`ProfitAndLoss`, `GrossLessCharges`; `LeviesAddUp` sums a table by rows and
by columns) and by the last step of the streak calculator, and answers of two
books by an injection of the rows selected from only one of them into the moving
trades (`NearBooks`).

`CurveMetricsSound` is about calculators that go through a series once. They are
recursive functions in the model, so a claim about the state after `i` points is
carried from `i` to `i + 1` (`Along`), and there is such a function at all because
it can be lengthened by one point (`IteratedExists`). The drawdown keeps the running
peak, which is the maximum so far (`PeakSteps`), the deepest of the falls met, by a
comparison of fractions that is transitive (`DeeperChain`), and a list of falls none
of which is deeper, so neither is their mean (`MeanFall`): `Deepest`. The streak
counters keep the length of the run that ends here, and no run so far is longer than
it and all the closed ones (`LongestSoFar`). A point of the rolling series is a sum
over a window and a point of the curve a sum from the start (`WindowAdds`).

`TypeOK` says that every quotient has a positive denominator and that nothing is
missing where a class has no `None`. The book is typed by `BookInv`; an answer is
typed because each statement is (`AnswerTyped`), of whichever of the two books of
`Seen` it was given, and because the two answers a later statement reads are there
and are counts (`EarlierAnswers`, from `Progress`).

`RuinMatchesFinals` needs two facts for sequences of any length. A simulation carries
the claim that it is ruined exactly if its sum is at or below the threshold, which holds
from its first draw because a ruined one draws no more (`SimulationEnds`; before the
first draw the sum is 0 and nothing is ruined, whatever the threshold). Sorting lists
the places of a sequence in a stable order (`WeakOrdered`, `SortingLists`), so the
values at or below a threshold are as many as in the unsorted sequence and come first
(`SortedCounts`, `FirstOnes`). The percentiles of three simulations are then read off;
the property is about three because other numbers round a percentile elsewhere.

Model-checked only:

* liveness (`SessionsEnd`, `ImportsEnd`).

## 6. Plan

In order of what matters most to a user's records:

1. The backfill over several trades of several accounts: two imports that write
   P&L rows in different orders and wait for each other.
2. `exit_type` and its CHECK in the import of expiry square-offs.
3. The broker adapter: from rows of a file to normalised fills and their keys.

## 7. Not modelled, and why

The web frontend renders what the API returns and keeps no state the backend
trusts. The broker adapter parses text: `ImportPipeline` takes the rows it
returns. E-mail, the password-breach lookup, settings and wiring are I/O. Accounts
and users are single-row edits. The security audit log is written and feeds
nothing else. Migrations and deployment are declarations; the
constraints the code relies on are in the models (the CHECKs on quantities, the
unique `trade_id` of a lot, the unique `fill_id` of an exclusion).
