--------------------------- MODULE TradeSessions ---------------------------
(***************************************************************************)
(* Requests on one processing unit that overlap.  Each is a transaction at *)
(* READ COMMITTED over an SQLAlchemy session of its own; all they share is *)
(* the committed tables and the row locks on trades.                       *)
(*   application/trade_service.py, application/import_service.py,          *)
(*   infrastructure/repositories/trade_repo.py, infrastructure/db.py       *)
(*                                                                         *)
(* The engine takes one fill a step, and awaits the database at each.  The *)
(* instrument already exists, so get_or_create takes no lock.  Tax lots,   *)
(* prices and times are left out.                                          *)
(***************************************************************************)
EXTENDS TradeEngine, Functions

CONSTANTS
    Session,     \* concurrent requests
    MaxBatch,    \* bound: fills in one request
    SoftDeletes  \* whether the user issues DELETE requests

\* Fill ids are numbered; a request's fills are in fill order by their ids.
ASSUME SessionsAssumption ==
    /\ Fill \subseteq Nat
    /\ MaxBatch \in Nat \ {0} /\ SoftDeletes \in BOOLEAN
    /\ NULL \notin Session
    /\ \E a \in Account : Account = {a}
    /\ \E t \in Time : Time = {t}

VARIABLES
    fills,    \* committed execution_fills
    trades,   \* committed trades
    excluded, \* committed fill_exclusions
    lock,     \* row locks on trades: the session that holds each, or NULL
    sess      \* what each request's session holds

tables == <<fills, trades, excluded>>
vars   == <<fills, trades, excluded, lock, sess>>

NoRows == [t \in {} |-> NULL]

OneRow(t, row) == [u \in {t} |-> row]

\* The table after rows are inserted or updated in it.
Stored(rows, table) ==
    [t \in DOMAIN rows \cup DOMAIN table |->
        IF t \in DOMAIN rows THEN rows[t] ELSE table[t]]

\* at: what the session does next.    mine: the fills it has inserted.
\* seen: rows in its identity map.    found: rows its lookup has yet to lock.
\* open: rows its lookup returned.    rows: trades rows it has written.
\* left: its fills yet to be taken.   cur, snap, pos: the locals of the run.
\* target, hide: the trade a DELETE is for, and the fills it will exclude.
Ended == [at |-> "start", mine |-> NoRows, seen |-> NoRows, found |-> {},
          open |-> {}, rows |-> NoRows, left |-> {}, cur |-> NULL,
          snap |-> NoSnapshot, pos |-> 0, target |-> NULL, hide |-> {}]

\* The one account of the unit.
Unit == CHOOSE a \in Account : TRUE

Init ==
    /\ fills = NoRows
    /\ trades = NoRows
    /\ excluded = {}
    /\ lock = NoRows
    /\ sess = [s \in Session |-> Ended]

\* The locks a session holds last until its transaction ends.
Released(s) == [t \in DOMAIN lock |-> IF lock[t] = s THEN NULL ELSE lock[t]]

\* The transaction of s rolls back: an exception, a lost connection.
Rollback(s) ==
    /\ sess' = [sess EXCEPT ![s] = Ended]
    /\ lock' = Released(s)
    /\ UNCHANGED tables

----------------------------------------------------------------------------
(* Requests that insert fills *)

Drawn == DOMAIN fills \cup UNION {DOMAIN sess[s].mine : s \in Session}

\* The next n ids.
NextIds(n) == {F \in SUBSET (Fill \ Drawn) :
                  /\ IsFiniteSet(F) /\ Cardinality(F) = n
                  /\ \A f \in F, g \in Fill \ (Drawn \cup F) : f < g}

\* New fills of the unit, as rows.
NewRows(F, src) ==
    {[f \in F |-> [acct |-> Unit, side |-> new[f].side, qty |-> new[f].qty,
                   ts |-> CHOOSE ts \in Time : TRUE, source |-> src,
                   trade |-> NULL, role |-> "NULL"]]
        : new \in [F -> [side: Side, qty: Qty]]}

\* create_trade and import_fills.
InsertFills(s, src) ==
    /\ sess[s].at = "start"
    /\ \E n \in 1..MaxBatch : \E F \in NextIds(n) : \E new \in NewRows(F, src) :
           sess' = [sess EXCEPT ![s] = [Ended EXCEPT !.at = "scan", !.mine = new,
                                                     !.left = F]]
    /\ UNCHANGED <<tables, lock>>

\* add_fill up to the engine: session.get puts the trade's row in the identity
\* map, and the checks are made on that row.
AddFill(s, t) ==
    /\ sess[s].at = "start"
    /\ ~trades[t].deleted
    /\ trades[t].status # "CLOSED"
    /\ \E F \in NextIds(1) : \E new \in NewRows(F, "MANUAL") :
           sess' = [sess EXCEPT ![s] = [Ended EXCEPT !.at = "scan", !.mine = new,
                                                     !.left = F,
                                                     !.seen = OneRow(t, trades[t])]]
    /\ UNCHANGED <<tables, lock>>

----------------------------------------------------------------------------
(* get_open_trade_with_lock: SELECT ... FOR UPDATE *)

\* The rows of the statement's snapshot that match the WHERE clause.
Scan(s) ==
    /\ sess[s].at = "scan"
    /\ sess' = [sess EXCEPT ![s].at = "lock", ![s].found = OpenTrades(trades, Unit)]
    /\ UNCHANGED <<tables, lock>>

\* Mutations: a row is returned without waiting for its lock, or is returned
\* although it no longer matches the WHERE clause.
LockRowWithoutWaiting(s) ==
    /\ sess[s].at = "lock"
    /\ \E t \in sess[s].found :
           /\ lock' = [lock EXCEPT ![t] = s]
           /\ sess' = [sess EXCEPT
                  ![s].found = @ \ {t},
                  ![s].open = IF t \in OpenTrades(trades, Unit) THEN @ \cup {t} ELSE @]
    /\ UNCHANGED tables

LockRowWithoutRecheck(s) ==
    /\ sess[s].at = "lock"
    /\ \E t \in sess[s].found :
           /\ lock[t] = NULL
           /\ lock' = [lock EXCEPT ![t] = s]
           /\ sess' = [sess EXCEPT ![s].found = @ \ {t}, ![s].open = @ \cup {t}]
    /\ UNCHANGED tables

\* Wait for the row, lock its newest version, and return it only if that
\* version still matches.  A trade opened since the scan is not looked for.  The
\* statement has no ORDER BY, so the rows come in any order.
LockRow(s) ==
    /\ sess[s].at = "lock"
    /\ \E t \in sess[s].found :
           /\ lock[t] = NULL
           /\ lock' = [lock EXCEPT ![t] = s]
           /\ sess' = [sess EXCEPT
                  ![s].found = @ \ {t},
                  ![s].open = IF t \in OpenTrades(trades, Unit) THEN @ \cup {t} ELSE @]
    /\ UNCHANGED tables

\* The object the ORM returns for a locked row: one already in the identity
\* map keeps the attributes it was loaded with (no populate_existing).
RowObject(s, t) == IF t \in DOMAIN sess[s].seen THEN sess[s].seen[t] ELSE trades[t]

----------------------------------------------------------------------------
(* ReconstructionEngine.run over the session's own fills, in fill order *)

\* The lookup returned at most one trade; the run resumes it.
StartRun(s) ==
    /\ sess[s].at = "lock"
    /\ sess[s].found = {}
    /\ \/ /\ sess[s].open = {}
          /\ sess' = [sess EXCEPT ![s].at = "run"]
       \/ \E t \in sess[s].open :
             /\ sess[s].open = {t}
             /\ sess' = [sess EXCEPT
                    ![s].at = "run", ![s].cur = t, ![s].snap = SnapshotOf(RowObject(s, t)),
                    ![s].pos = ResumedPosition(RowObject(s, t)),
                    ![s].rows = OneRow(t, trades[t])]
    /\ UNCHANGED <<tables, lock>>

FirstLeft(s) == {f \in sess[s].left : \A g \in sess[s].left : f <= g}

Delta(s, f) == SignedQty(sess[s].mine[f].side, sess[s].mine[f].qty)

Crosses(s, f) == CrossesZero(sess[s].pos, sess[s].pos + Delta(s, f))

\* The CHECK constraints of the trades table.
Accepted(row) == row.net >= 0 /\ row.exit <= row.entry

\* The session once the next fill f is assigned to t, whose row becomes row and
\* snapshot snap.
Taken(s, f, t, row, snap, role) ==
    [sess[s] EXCEPT
        !.at   = IF sess[s].left = {f} THEN "commit" ELSE "run",
        !.left = @ \ {f},
        !.cur  = IF snap.status = "CLOSED" THEN NULL ELSE t,
        !.snap = IF snap.status = "CLOSED" THEN NoSnapshot ELSE snap,
        !.pos  = @ + Delta(s, f),
        !.rows = Stored(OneRow(t, row), @),
        !.mine[f] = AssignedTo(@, t, role)]

Takes(s, f, t, row, snap, role) ==
    /\ sess[s].at = "run"
    /\ f \in FirstLeft(s)
    /\ ~Crosses(s, f)
    /\ Accepted(row)
    /\ sess' = [sess EXCEPT ![s] = Taken(s, f, t, row, snap, role)]
    /\ UNCHANGED <<tables, lock>>

OpenTrade(s, f) ==
    /\ sess[s].cur = NULL
    /\ LET snap == OpenedBy(sess[s].mine[f])
       IN  Takes(s, f, f, NewTrade(sess[s].mine[f], snap), snap, "ENTRY")

TakenAs(s, f, role) ==
    sess[s].cur # NULL /\ FillRoleFor(sess[s].snap.dir, sess[s].mine[f].side) = role

EntrySnap(s, f) == ScaledIn(sess[s].snap, sess[s].mine[f].qty)
ExitSnap(s, f)  == ScaledOut(sess[s].snap, sess[s].mine[f].qty)

CurrentRow(s) == sess[s].rows[sess[s].cur]

ScaleIn(s, f) ==
    /\ TakenAs(s, f, "ENTRY")
    /\ Takes(s, f, sess[s].cur, EntryWritten(CurrentRow(s), EntrySnap(s, f)),
             EntrySnap(s, f), "ENTRY")

ScaleOut(s, f) ==
    /\ TakenAs(s, f, "EXIT")
    /\ Takes(s, f, sess[s].cur, ExitWritten(CurrentRow(s), ExitSnap(s, f)),
             ExitSnap(s, f), "EXIT")

TakeFill(s) ==
    \E f \in sess[s].left : OpenTrade(s, f) \/ ScaleIn(s, f) \/ ScaleOut(s, f)

\* E1, or an update that a CHECK constraint refuses.
Refused(s, f) ==
    \/ Crosses(s, f)
    \/ /\ TakenAs(s, f, "ENTRY")
       /\ ~Accepted(EntryWritten(CurrentRow(s), EntrySnap(s, f)))
    \/ /\ TakenAs(s, f, "EXIT")
       /\ ~Accepted(ExitWritten(CurrentRow(s), ExitSnap(s, f)))

\* MultipleResultsFound, or the next fill is refused.
RunFails(s) ==
    /\ \/ /\ sess[s].at = "lock"
          /\ sess[s].found = {}
          /\ \E t, u \in sess[s].open : t # u
       \/ /\ sess[s].at = "run"
          /\ \E f \in FirstLeft(s) : Refused(s, f)
    /\ Rollback(s)

----------------------------------------------------------------------------
(* soft_delete_trade *)

DeleteTrade(s, t) ==
    /\ SoftDeletes
    /\ sess[s].at = "start"
    /\ ~trades[t].deleted
    /\ sess' = [sess EXCEPT ![s] = [Ended EXCEPT !.at = "hide", !.target = t]]
    /\ UNCHANGED <<tables, lock>>

FillsOf(t) == {f \in DOMAIN fills : fills[f].trade = t}

AllManual(t) == \A f \in FillsOf(t) : fills[f].source = "MANUAL"

\* The fills as the SELECT finds them; no lock is taken.
ReadFills(s) ==
    /\ sess[s].at = "hide"
    /\ AllManual(sess[s].target)
    /\ sess' = [sess EXCEPT ![s].at = "delete",
                            ![s].hide = FillsOf(sess[s].target) \ excluded]
    /\ UNCHANGED <<tables, lock>>

\* INSERT the exclusions (fill_id is unique), then UPDATE is_deleted, which
\* waits for the row lock and leaves the other columns alone.
WriteDeleted(s) ==
    /\ sess[s].at = "delete"
    /\ lock[sess[s].target] = NULL
    /\ sess[s].hide \cap excluded = {}
    /\ LET t == sess[s].target
       IN  /\ lock' = [lock EXCEPT ![t] = s]
           /\ sess' = [sess EXCEPT ![s].at = "commit",
                          ![s].rows = OneRow(t, [trades[t] EXCEPT !.deleted = TRUE])]
    /\ UNCHANGED tables

\* TradeNotManualError, or another DELETE excluded the fills first.
DeleteFails(s) ==
    /\ \/ sess[s].at = "hide" /\ ~AllManual(sess[s].target)
       \/ sess[s].at = "delete" /\ sess[s].hide \cap excluded # {}
    /\ Rollback(s)

----------------------------------------------------------------------------
\* Mutation: the transaction ends but its row locks are never released.
CommitKeepingLocks(s) ==
    /\ sess[s].at = "commit"
    /\ trades' = Stored(sess[s].rows, trades)
    /\ fills' = Stored(sess[s].mine, fills)
    /\ excluded' = excluded \cup sess[s].hide
    /\ lock' = [t \in DOMAIN trades' |-> IF t \in DOMAIN lock THEN lock[t] ELSE NULL]
    /\ sess' = [sess EXCEPT ![s] = Ended]

\* The router's db.commit().
Commit(s) ==
    /\ sess[s].at = "commit"
    /\ trades' = Stored(sess[s].rows, trades)
    /\ fills' = Stored(sess[s].mine, fills)
    /\ excluded' = excluded \cup sess[s].hide
    /\ lock' = [t \in DOMAIN trades' |->
                   IF t \in DOMAIN lock THEN Released(s)[t] ELSE NULL]
    /\ sess' = [sess EXCEPT ![s] = Ended]

\* The connection or the process of s dies before its commit.
Abort(s) ==
    /\ sess[s].at # "start"
    /\ Rollback(s)

\* Whom s waits for: the holder of a row it wants to lock.
WaitsFor(s) ==
    LET wanted == CASE sess[s].at = "lock" -> sess[s].found
                    [] sess[s].at = "delete" -> {sess[s].target}
                    [] OTHER -> {}
    IN  {z \in Session \ {s} : \E t \in wanted : lock[t] = z}

\* Each waits for another of them, and each is waited for.
Circle(C) ==
    \A s \in C : WaitsFor(s) \cap C # {} /\ \E z \in C : s \in WaitsFor(z)

\* PostgreSQL aborts one of the transactions that wait in a circle.
DeadlockVictim(s) ==
    /\ \E C \in SUBSET Session : s \in C /\ Circle(C)
    /\ Rollback(s)

Request(s) ==
    \/ \E src \in Source : InsertFills(s, src)
    \/ \E t \in DOMAIN trades : AddFill(s, t) \/ DeleteTrade(s, t)

\* The steps of a request once it has begun.
Advance(s) ==
    \/ Scan(s)
    \/ LockRow(s)
    \/ StartRun(s)
    \/ TakeFill(s)
    \/ RunFails(s)
    \/ ReadFills(s)
    \/ WriteDeleted(s)
    \/ DeleteFails(s)
    \/ Commit(s)
    \/ DeadlockVictim(s)

Next == \E s \in Session : Request(s) \/ Advance(s) \/ Abort(s)

Spec == Init /\ [][Next]_vars

\* A statement that waits for no one runs; the database grants a row lock to
\* those who wait for it in turn, so a wait that keeps ending ends for all.
Fairness == \A s \in Session : SF_vars(Advance(s))

FairSpec == Spec /\ Fairness
----------------------------------------------------------------------------
(* Properties *)

FilledAs(t, role) == {f \in FillsOf(t) : fills[f].role = role}
TotalAs(t, role)  == SumFunction([f \in FilledAs(t, role) |-> fills[f].qty])

AddsUp(t) ==
    /\ trades[t].entry = TotalAs(t, "ENTRY")
    /\ trades[t].exit = TotalAs(t, "EXIT")
    /\ QuantitiesAgree(trades[t])

\* Committed rows have the types of their columns, and every committed fill has
\* its trade and its role; a session holds only rows and ids that exist.
TypeOK ==
    /\ fills \in [DOMAIN fills ->
          {row \in FillRow : row.trade \in DOMAIN trades /\ row.role # "NULL"}]
    /\ trades \in [DOMAIN trades -> TradeRow]
    /\ DOMAIN trades \subseteq DOMAIN fills /\ DOMAIN fills \subseteq Fill
    /\ excluded \subseteq DOMAIN fills
    /\ lock \in [DOMAIN trades -> Session \cup {NULL}]
    /\ \A s \in Session :
          /\ sess[s].at \in {"start", "scan", "lock", "run", "hide", "delete", "commit"}
          /\ sess[s].mine \in [DOMAIN sess[s].mine -> FillRow]
          /\ sess[s].rows \in [DOMAIN sess[s].rows -> TradeRow]
          /\ sess[s].seen \in [DOMAIN sess[s].seen -> TradeRow]
          /\ sess[s].found \cup sess[s].open \subseteq DOMAIN trades
          /\ sess[s].left \subseteq DOMAIN sess[s].mine
          /\ sess[s].cur \in DOMAIN sess[s].rows \cup {NULL}
          /\ sess[s].snap \in Snapshot /\ sess[s].pos \in Int
          /\ sess[s].target \in DOMAIN trades \cup {NULL}
          /\ sess[s].hide \subseteq DOMAIN fills

\* Whoever is about to write a trade that exists holds its row lock, and what a
\* lookup returned as open is still open and live when the run starts: between
\* lock and commit nobody else can close, delete or overwrite the row.
WritersHoldLocks ==
    \A s \in Session :
        /\ \A t \in DOMAIN sess[s].rows \cap DOMAIN trades : lock[t] = s
        /\ \A t \in sess[s].open : lock[t] = s /\ t \in OpenTrades(trades, Unit)

\* The row lock does its work for imports and new trades: however they overlap
\* with each other and with deletions, a trade that only they have touched
\* is the sum of its fills and its quantities agree.
ImportedTradesAddUp ==
    \A t \in DOMAIN trades :
        (\A f \in FillsOf(t) : fills[f].source = "CSV") => AddsUp(t)

\* A fill is left out of the statistics only with its trade: no run brings back
\* a trade whose fills a DELETE that came between its steps has excluded.
ExcludedAreDeleted == \A f \in excluded : trades[fills[f].trade].deleted

\* Requests wait in a circle only over several open trades of one unit: each of
\* them is a lookup that holds one trade it found and waits for another.  A
\* DELETE is never in one, nor any request of a unit with one open trade.
DeadlockNeedsTwoTrades ==
    \A C \in SUBSET Session : Circle(C) =>
        \A s \in C : sess[s].at = "lock" /\
            \E t \in DOMAIN trades, u \in sess[s].found : lock[t] = s /\ t # u

\* However requests overlap, a trade that was closed or deleted when it was
\* committed is never written to again by a run that had seen it open.
SettledStaysSettled ==
    [][\A t \in DOMAIN trades :
          Settled(trades[t]) =>
              /\ SnapshotOf(trades'[t]) = SnapshotOf(trades[t])
              /\ trades[t].deleted => trades'[t].deleted]_trades

\* No two requests wait for each other for ever: each one that begins ends,
\* and leaves no lock behind it.
SessionsEnd == \A s \in Session : sess[s].at # "start" ~> sess[s].at = "start"

\* "Two concurrent imports for the same user and instrument must be
\* serialized" (TRADE-RECONSTRUCTION-SPEC.md section 11): two requests that
\* both find the unit flat must not both open a trade.
OneOpenTradePerUnit ==
    Cardinality(OpenTrades(trades, Unit)) <= 1

\* "Concurrent reconstruction runs on the same processing unit will block at
\* this statement" (trade_repo.py:38-39): then no run may overwrite
\* what another has written, and every trade is the sum of its fills.
NoLostUpdate == \A t \in DOMAIN trades : AddsUp(t)

\* "Excludes all non-already-excluded fills" (trade_service.py:525): no
\* fill of a deleted trade is left out, however the DELETE overlaps.
DeletedFillsExcluded ==
    \A t \in DOMAIN trades : trades[t].deleted => FillsOf(t) \subseteq excluded
=============================================================================
