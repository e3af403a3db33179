--------------------------- MODULE Reconstruction ---------------------------
(***************************************************************************)
(* The requests that change trades, one database transaction at a time:    *)
(* POST /v1/trades, POST /v1/trades/{id}/fills, CSV import and DELETE      *)
(* /v1/trades/{id}.  Each inserts its fills, runs the reconstruction       *)
(* engine over the unprocessed fills of one processing unit, one fill per  *)
(* step, and commits, or rolls everything back.                            *)
(*   application/trade/reconstruction.py, application/trade_service.py,    *)
(*   application/import_service.py, infrastructure/repositories/           *)
(*                                                                         *)
(* One user and one instrument; the processing units are the accounts,     *)
(* all of one product_type_family.  What happens when two transactions     *)
(* overlap is the subject of TradeSessions.                                *)
(***************************************************************************)
EXTENDS TradeEngine, Functions

CONSTANTS
    MaxBatch,    \* bound: fills in one request
    SoftDeletes  \* whether the user issues DELETE requests

ASSUME BoundsAssumption == MaxBatch \in Nat \ {0} /\ SoftDeletes \in BOOLEAN

VARIABLES
    fills,     \* execution_fills, by primary key
    trades,    \* trades, by opening fill
    lots,      \* tax_lots, by trade (trade_id is unique)
    excluded,  \* fill_exclusions: primary keys of excluded fills
    committed, \* the tables as of the last COMMIT
    phase,     \* "idle", or "running" while a request's transaction is open
    unit,      \* the account whose unit is being reconstructed
    pending,   \* fills fetched by the run and not yet processed
    cur,       \* current_trade_id of the run
    snap,      \* current_trade of the run (an OpenTradeSnapshot)
    pos        \* running_position of the run

tables == <<fills, trades, lots, excluded>>
run    == <<phase, unit, pending, cur, snap, pos>>
vars   == <<fills, trades, lots, excluded, committed,
            phase, unit, pending, cur, snap, pos>>

Tables(fs, ts, ls, xs) == [fills |-> fs, trades |-> ts, lots |-> ls, excluded |-> xs]

NoRows == [f \in {} |-> NULL]

----------------------------------------------------------------------------
Idle ==
    /\ phase = "idle"
    /\ unit = NULL
    /\ pending = {}
    /\ cur = NULL
    /\ snap = NoSnapshot
    /\ pos = 0

Init ==
    /\ fills = NoRows
    /\ trades = NoRows
    /\ lots = NoRows
    /\ excluded = {}
    /\ committed = Tables(NoRows, NoRows, NoRows, {})
    /\ Idle

EndRun ==
    /\ phase' = "idle"
    /\ unit' = NULL
    /\ pending' = {}
    /\ cur' = NULL
    /\ snap' = NoSnapshot
    /\ pos' = 0

\* session.rollback(): an exception reached the router, or the process died.
Rollback ==
    /\ fills' = committed.fills
    /\ trades' = committed.trades
    /\ lots' = committed.lots
    /\ excluded' = committed.excluded
    /\ EndRun
    /\ UNCHANGED committed

----------------------------------------------------------------------------
(* Requests *)

\* New fills as the request schemas admit them.
NewFill == [side: Side, qty: Qty, ts: Time]

Batch == {F \in SUBSET (Fill \ DOMAIN fills) :
              F # {} /\ IsFiniteSet(F) /\ Cardinality(F) <= MaxBatch}

\* insert_normalized_fill: trade_id and fill_role start NULL.
Inserted(a, new, src) ==
    [f \in DOMAIN fills \cup DOMAIN new |->
        IF f \in DOMAIN new
        THEN [acct |-> a, side |-> new[f].side, qty |-> new[f].qty,
              ts |-> new[f].ts, source |-> src, trade |-> NULL, role |-> "NULL"]
        ELSE fills[f]]

\* Insert the fills, lock and read the open trade, fetch the unprocessed fills.
\* Two open trades (MultipleResultsFound) would fail the request: no disjunct.
BeginRun(a, new, src) ==
    /\ phase = "idle"
    /\ fills' = Inserted(a, new, src)
    /\ phase' = "running"
    /\ unit' = a
    /\ pending' = UnprocessedFills(fills', excluded, a)
    /\ \/ /\ OpenTrades(trades, a) = {}
          /\ cur' = NULL
          /\ snap' = NoSnapshot
          /\ pos' = 0
       \/ \E t \in DOMAIN trades :
             /\ OpenTrades(trades, a) = {t}
             /\ cur' = t
             /\ snap' = SnapshotOf(trades[t])
             /\ pos' = ResumedPosition(trades[t])
    /\ UNCHANGED <<trades, lots, excluded, committed>>

\* create_trade: fills in strictly ascending timestamp order.
CreateTrade(a) ==
    \E F \in Batch : \E new \in [F -> NewFill] :
        /\ \A f, g \in F : f # g => new[f].ts # new[g].ts
        /\ BeginRun(a, new, "MANUAL")

\* add_fill: the trade is live, not closed, and not younger than the fill.
AddFill(t) ==
    /\ ~trades[t].deleted
    /\ trades[t].status # "CLOSED"
    /\ \E f \in Fill \ DOMAIN fills : \E new \in [{f} -> NewFill] :
           /\ new[f].ts >= trades[t].first
           /\ BeginRun(trades[t].acct, new, "MANUAL")

\* import_fills, for the rows of one unit: broker timestamps may be equal.
ImportFills(a) ==
    \E F \in Batch : \E new \in [F -> NewFill] : BeginRun(a, new, "CSV")

FillsOf(t) == {f \in DOMAIN fills : fills[f].trade = t}

\* soft_delete_trade: the status stays; the tax lot is not touched.
SoftDelete(t) ==
    /\ SoftDeletes
    /\ phase = "idle"
    /\ ~trades[t].deleted
    /\ \A f \in FillsOf(t) : fills[f].source = "MANUAL"
    /\ excluded' = excluded \cup FillsOf(t)
    /\ trades' = [trades EXCEPT ![t].deleted = TRUE]
    /\ committed' = Tables(fills, trades', lots, excluded')
    /\ UNCHANGED <<fills, lots, run>>

----------------------------------------------------------------------------
(* The engine's loop: one iteration per fill *)

Delta(f) == SignedQty(fills[f].side, fills[f].qty)

\* f is next in fill order and does not cross zero.
Takes(f) ==
    /\ phase = "running"
    /\ f \in FirstInOrder(fills, pending)
    /\ ~CrossesZero(pos, pos + Delta(f))

\* assign_trade, and the end of the iteration.
Assign(f, t, role) ==
    /\ fills' = [fills EXCEPT ![f] = AssignedTo(@, t, role)]
    /\ pos' = pos + Delta(f)
    /\ pending' = pending \ {f}
    /\ UNCHANGED <<excluded, committed, phase, unit>>

OpenTrade(f) ==
    /\ Takes(f)
    /\ cur = NULL
    /\ LET s == OpenedBy(fills[f])
       IN  /\ snap' = s
           /\ trades' = [t \in DOMAIN trades \cup {f} |->
                            IF t = f THEN NewTrade(fills[f], s) ELSE trades[t]]
           /\ Assign(f, f, FillRoleFor(s.dir, fills[f].side))
    /\ cur' = f
    /\ lots' = IF Family = "DELIVERY"
               THEN [t \in DOMAIN lots \cup {f} |->
                        IF t = f THEN NewLot(fills[f]) ELSE lots[t]]
               ELSE lots

\* A fill of the current trade, by its role.
TakesAs(f, role) ==
    /\ Takes(f)
    /\ cur # NULL
    /\ FillRoleFor(snap.dir, fills[f].side) = role

ScaleIn(f) ==
    /\ TakesAs(f, "ENTRY")
    /\ LET s == ScaledIn(snap, fills[f].qty)
       IN  /\ snap' = s
           /\ trades' = [trades EXCEPT ![cur] = EntryWritten(@, s)]
    /\ lots' = IF Family = "DELIVERY"
               THEN [lots EXCEPT ![cur] = LotScaledIn(@, fills[f].qty)]
               ELSE lots
    /\ Assign(f, cur, "ENTRY")
    /\ UNCHANGED cur

\* The lot table after an exit of q, drawn from lot l.
LotsAfterExit(l, q) == [lots EXCEPT ![l] = LotDecremented(@, q)]

DecrementLot(q) ==
    IF Family = "DELIVERY"
    THEN \E l \in OldestOpenLots(lots) :
            /\ lots[l].rem >= q
            /\ lots' = LotsAfterExit(l, q)
    ELSE UNCHANGED lots

PartialExit(f) ==
    /\ TakesAs(f, "EXIT")
    /\ snap.net # fills[f].qty
    /\ DecrementLot(fills[f].qty)
    /\ LET s == ScaledOut(snap, fills[f].qty)
       IN  /\ snap' = s
           /\ trades' = [trades EXCEPT ![cur] = ExitWritten(@, s)]
    /\ Assign(f, cur, "EXIT")
    /\ UNCHANGED cur

\* Mutation: the E4 assertion is missing.
OwnLotUnchecked(ls) == TRUE

\* _assert_lot_closed, on the lot table ls.
OwnLotClosed(ls) ==
    Family = "DELIVERY" => ls[cur].rem = 0 /\ ls[cur].status = "CLOSED"

FullExit(f) ==
    /\ TakesAs(f, "EXIT")
    /\ snap.net = fills[f].qty
    /\ DecrementLot(fills[f].qty)
    /\ OwnLotClosed(lots')
    /\ trades' = [trades EXCEPT ![cur] =
                     ExitWritten(@, ScaledOut(snap, fills[f].qty))]
    /\ Assign(f, cur, "EXIT")
    /\ cur' = NULL
    /\ snap' = NoSnapshot

ProcessFill == \E f \in pending : \/ OpenTrade(f)
                                  \/ ScaleIn(f)
                                  \/ PartialExit(f)
                                  \/ FullExit(f)

\* Mutation: the offending fill is skipped and the run goes on.
CrossingZeroSkipped(f) ==
    /\ phase = "running"
    /\ f \in FirstInOrder(fills, pending)
    /\ CrossesZero(pos, pos + Delta(f))
    /\ pending' = pending \ {f}
    /\ UNCHANGED <<tables, committed, phase, unit, cur, snap, pos>>

\* E1: PositionCrossingZeroError.
CrossingZero(f) ==
    /\ phase = "running"
    /\ f \in FirstInOrder(fills, pending)
    /\ CrossesZero(pos, pos + Delta(f))
    /\ Rollback

\* E4: no open lot, a lot too small, or the closing trade's own lot not closed.
LotInconsistent(f) ==
    /\ Family = "DELIVERY"
    /\ TakesAs(f, "EXIT")
    /\ \/ OpenLots(lots) = {}
       \/ \E l \in OldestOpenLots(lots) :
             \/ lots[l].rem < fills[f].qty
             \/ /\ snap.net = fills[f].qty
                /\ ~OwnLotClosed(LotsAfterExit(l, fills[f].qty))
    /\ Rollback

RaiseError == \E f \in pending : CrossingZero(f) \/ LotInconsistent(f)

\* The router commits once the whole batch is processed.
Commit ==
    /\ phase = "running"
    /\ pending = {}
    /\ committed' = Tables(fills, trades, lots, excluded)
    /\ EndRun
    /\ UNCHANGED tables

\* Any other failure of the request: planned stop on the wrong side, a
\* database error, a lost connection, the death of the process.
Abort ==
    /\ phase = "running"
    /\ Rollback

----------------------------------------------------------------------------
Request ==
    \/ \E a \in Account : CreateTrade(a) \/ ImportFills(a)
    \/ \E t \in DOMAIN trades : AddFill(t) \/ SoftDelete(t)

Next ==
    \/ Request
    \/ ProcessFill
    \/ RaiseError
    \/ Commit
    \/ Abort

Spec == Init /\ [][Next]_vars

----------------------------------------------------------------------------
(* Properties *)

\* Every table row and every local of the run has the type its column or
\* annotation declares (trade_domain.py, OpenTradeSnapshot).
TablesOK(fs, ts, ls, xs) ==
    /\ DOMAIN fs \subseteq Fill     /\ fs \in [DOMAIN fs -> FillRow]
    /\ DOMAIN ts \subseteq DOMAIN fs /\ ts \in [DOMAIN ts -> TradeRow]
    /\ DOMAIN ls \subseteq DOMAIN ts /\ ls \in [DOMAIN ls -> LotRow]
    /\ xs \subseteq DOMAIN fs

TypeOK ==
    /\ TablesOK(fills, trades, lots, excluded)
    /\ committed = Tables(committed.fills, committed.trades,
                          committed.lots, committed.excluded)
    /\ TablesOK(committed.fills, committed.trades,
                committed.lots, committed.excluded)
    /\ phase \in {"idle", "running"}
    /\ unit \in Account \cup {NULL}
    /\ pending \subseteq DOMAIN fills
    /\ cur \in DOMAIN trades \cup {NULL}
    /\ snap \in Snapshot
    /\ pos \in Int

\* The quantities of a trade agree with each other and with its status at
\* every step of every run: net is entry less exit and not negative, and the
\* status is CLOSED exactly at zero, PARTIAL exactly after some exit (spec
\* section 4, invariant 3, and section 9's status rule).
TradeQuantities == \A t \in DOMAIN trades : QuantitiesAgree(trades[t])

\* A processing unit never has two live open trades: the lookup of the next
\* request, scalar_one_or_none, would raise MultipleResultsFound for ever.
OneOpenTrade ==
    \A t, u \in DOMAIN trades :
        /\ trades[t].acct = trades[u].acct
        /\ trades[t].status # "CLOSED" /\ trades[u].status # "CLOSED"
        /\ ~trades[t].deleted /\ ~trades[u].deleted
        => t = u

\* While a run is on, what it holds in memory is what the tables hold: the
\* current trade is the unit's open trade, the snapshot is its row, and
\* running_position is its signed net position, zero when there is none
\* (spec section 4, invariants 1 and 2).
RunAgreesWithTables ==
    phase = "running" =>
        \/ /\ cur = NULL
           /\ OpenTrades(trades, unit) = {}
           /\ pos = 0
        \/ /\ cur \in DOMAIN trades
           /\ cur \in OpenTrades(trades, unit)
           /\ snap = SnapshotOf(trades[cur])
           /\ pos = ResumedPosition(trades[cur])

\* A commit leaves no fill behind: every fill of the committed tables belongs
\* to a trade, so the next run of the unit starts from its own fills only.
NoOrphanFill ==
    \A f \in DOMAIN committed.fills :
        committed.fills[f].trade \in DOMAIN committed.trades

\* Every assigned fill is of its trade's account and plays the role that the
\* direction and side table gives it; a trade's opening fill is an entry
\* (spec section 4, invariant 4).
RolesMatchDirection ==
    \A f \in DOMAIN fills :
        LET t == fills[f].trade
        IN  t # NULL =>
                /\ t \in DOMAIN trades
                /\ fills[f].acct = trades[t].acct
                /\ fills[f].role = FillRoleFor(trades[t].dir, fills[f].side)
                /\ f = t => fills[f].role = "ENTRY"

\* The excluded fills are exactly the fills of the deleted trades, so no fill
\* of a live trade is hidden from it and none of a dead one is reprocessed.
ExcludedAreDeleted ==
    \A f \in DOMAIN fills :
        f \in excluded <=> /\ fills[f].trade # NULL
                           /\ trades[fills[f].trade].deleted

\* Whatever a fill is assigned to, revived by or deleted with, its account, role
\* and exclusion are what its trade says they are.
FillsMatchTrades == RolesMatchDirection /\ ExcludedAreDeleted

\* A committed fill keeps its trade and role for ever (the immutability
\* trigger), a closed or deleted trade keeps its quantities, status and
\* direction for ever, and a deletion is never undone.
HistoryIsFinal ==
    [][/\ \A f \in DOMAIN committed.fills :
              /\ f \in DOMAIN committed'.fills
              /\ committed'.fills[f] = committed.fills[f]
       /\ \A t \in DOMAIN committed.trades :
              /\ t \in DOMAIN committed'.trades
              /\ Settled(committed.trades[t]) =>
                    SnapshotOf(committed'.trades[t]) = SnapshotOf(committed.trades[t])
              /\ committed.trades[t].deleted => committed'.trades[t].deleted
      ]_committed

\* Once a DELIVERY trade is closed its own tax lot is closed and empty, and
\* stays so, whatever other trades of the instrument draw on the lots.
ClosedTradeLotClosed ==
    \A t \in DOMAIN lots :
        trades[t].status = "CLOSED" => lots[t].rem = 0 /\ lots[t].status = "CLOSED"

\* One account has traded the instrument, and deleted none of its open trades.
OneOwner(ts) ==
    /\ \A t, u \in DOMAIN ts : ts[t].acct = ts[u].acct
    /\ \A t \in DOMAIN ts : ts[t].deleted => ts[t].status = "CLOSED"

\* As long as the lots of an instrument have one owner, each DELIVERY trade's lot
\* mirrors it: bought and remaining quantities are the trade's entry and net
\* quantities, and the lot is CLOSED exactly with the trade (one aggregated
\* lot per trade, spec section 10).
Mirrors(ls, ts) ==
    Family = "DELIVERY" /\ OneOwner(ts) =>
        \A t \in DOMAIN ts :
            /\ t \in DOMAIN ls
            /\ ls[t].orig = ts[t].entry
            /\ ls[t].rem = ts[t].net
            /\ ls[t].status = "CLOSED" <=> ts[t].status = "CLOSED"

LotMirrorsTrade == Mirrors(lots, trades)

\* Every trade is the sum of its fills at every step of every run: the entry
\* (exit) quantity accumulated over many requests by the engine is the total
\* of the fills assigned to the trade as ENTRY (EXIT), deleted trades included.
FilledAs(t, r) == {f \in FillsOf(t) : fills[f].role = r}
TotalAs(t, r)  == SumFunction([f \in FilledAs(t, r) |-> fills[f].qty])

FillsExplainTrade ==
    \A t \in DOMAIN trades :
        trades[t].entry = TotalAs(t, "ENTRY") /\ trades[t].exit = TotalAs(t, "EXIT")

\* So net quantity and status, too, are those of the fills that were taken.
TradesAddUp == TradeQuantities /\ FillsExplainTrade

\* Lots are conserved: even when an exit draws on another account's lot or on
\* a deleted trade's, the quantity remaining in all lots of the instrument is
\* the quantity still held by all its trades, and no lot goes negative.
LotsConserved ==
    Family = "DELIVERY" =>
        /\ SumFunction([t \in DOMAIN lots |-> lots[t].rem])
             = SumFunction([t \in DOMAIN trades |-> trades[t].net])
        /\ \A t \in DOMAIN lots : lots[t].rem \in 0..lots[t].orig

\* "At most one non-CLOSED lot exists per (user, instrument) at any time"
\* (tax_lot_repo.py:77): what lets get_open_lot ignore the trade.
AtMostOneOpenLot ==
    \A t, u \in OpenLots(committed.lots) : t = u

\* "left with trade_id = NULL": a fill that crosses zero stays in
\* execution_fills, unassigned, so that the user can exclude it and enter the
\* two halves (TRADE-RECONSTRUCTION-SPEC.md section 12, E1).
CrossingFillIsQuarantined ==
    [][\A f \in pending :
          CrossingZero(f) => /\ f \in DOMAIN committed'.fills
                             /\ committed'.fills[f].trade = NULL]_vars

----------------------------------------------------------------------------
(* The tables, read as signed positions, are a PositionBook. *)

SignedNet(ts, a) ==
    IF OpenTrades(ts, a) = {} THEN 0
    ELSE ResumedPosition(ts[CHOOSE t \in OpenTrades(ts, a) : TRUE])

Book == INSTANCE PositionBook WITH
    book  <- [a \in Account |-> SignedNet(trades, a)],
    kept  <- [a \in Account |-> SignedNet(committed.trades, a)],
    owner <- unit

\* Reconstruction implements the position book: each fill moves the position
\* that the trades table shows by exactly its signed quantity, never through
\* zero, and a request's moves are kept or discarded together.
ImplementsPositionBook == Book!BookSpec
=============================================================================
