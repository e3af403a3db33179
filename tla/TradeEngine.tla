---------------------------- MODULE TradeEngine ----------------------------
(***************************************************************************)
(* The vocabulary of the trade-reconstruction engine: the rows it reads    *)
(* and writes and the pure decisions it takes on each execution fill.      *)
(*   domain/trade/types.py, application/trade/reconstruction.py            *)
(*                                                                         *)
(* A trade_id is a fresh uuid4 drawn when a fill finds its processing unit *)
(* flat.  The model names the trade after that opening fill: the map is    *)
(* one to one and needs no second supply of identifiers.                   *)
(* Prices, dates used only for labels, and text are abstracted away;       *)
(* quantities are counted in units of 0.0001 (the 4-decimal QUANTITY).     *)
(***************************************************************************)
EXTENDS Integers, FiniteSets

CONSTANTS
    Fill,        \* primary keys of execution_fills
    Account,     \* trading accounts of one user; one instrument is modelled
    Qty,         \* fill quantities
    Time,        \* fill timestamps
    TicksPerDay, \* timestamps per trade date
    Family,      \* the product_type_family of the processing units
    NULL         \* SQL NULL / Python None

ASSUME QtyAssumption  == Qty \subseteq Nat \ {0}
ASSUME TimeAssumption == Time \subseteq Nat /\ TicksPerDay \in Nat \ {0}
ASSUME FamilyAssumption == Family \in {"INTRADAY", "DELIVERY", "FO"}
ASSUME NullAssumption == NULL \notin Fill /\ NULL \notin Account

Side      == {"BUY", "SELL"}
Direction == {"LONG", "SHORT"}
Source    == {"MANUAL", "CSV"}

----------------------------------------------------------------------------
(* Rows *)

FillRow == [acct: Account, side: Side, qty: Qty, ts: Time, source: Source,
            trade: Fill \cup {NULL}, role: {"ENTRY", "EXIT", "NULL"}]

TradeRow == [acct: Account, dir: Direction,
             status: {"OPEN", "PARTIAL", "CLOSED"},
             entry: Nat, exit: Nat, net: Int,
             first: Time, deleted: BOOLEAN]

\* quantity_remaining is an Int: the CHECK >= 0 is something to establish.
LotRow == [orig: Nat, rem: Int, date: Nat,
           status: {"OPEN", "PARTIALLY_CLOSED", "CLOSED"}]

\* OpenTradeSnapshot: what a run carries in memory about the current trade.
Snapshot == [dir: Direction, status: {"OPEN", "PARTIAL"},
             entry: Nat, exit: Nat, net: Int]

NoSnapshot == [dir |-> "LONG", status |-> "OPEN",
               entry |-> 0, exit |-> 0, net |-> 0]

SnapshotOf(row) == [dir |-> row.dir, status |-> row.status,
                    entry |-> row.entry, exit |-> row.exit, net |-> row.net]

----------------------------------------------------------------------------
(* Decisions on one fill *)

\* _derive_trade_date: the calendar date a timestamp falls on.
TradeDate(ts) == ts \div TicksPerDay

SignedQty(side, q) == IF side = "BUY" THEN q ELSE -q

\* Mutation: only a long position is guarded against crossing zero.
CrossesZeroFromLong(p, q) == p > 0 /\ q < 0

\* Error E1.
CrossesZero(p, q) == (p > 0 /\ q < 0) \/ (p < 0 /\ q > 0)

DirectionForFirstFill(side) == IF side = "BUY" THEN "LONG" ELSE "SHORT"

FillRoleFor(dir, side) ==
    IF (dir = "LONG") = (side = "BUY") THEN "ENTRY" ELSE "EXIT"

\* running_position of a resumed trade, from its stored row.
ResumedPosition(row) == IF row.dir = "LONG" THEN row.net ELSE -row.net

----------------------------------------------------------------------------
(* Effects of one fill on the trade's in-memory snapshot *)

OpenedBy(fill) == [dir |-> DirectionForFirstFill(fill.side), status |-> "OPEN",
                   entry |-> fill.qty, exit |-> 0, net |-> fill.qty]

\* Mutation: a scale-in forgets that the trade was already partly exited.
ScaledInReopened(s, q) ==
    [dir |-> s.dir, status |-> "OPEN",
     entry |-> s.entry + q, exit |-> s.exit, net |-> s.net + q]

ScaledIn(s, q) ==
    [dir |-> s.dir, status |-> IF s.exit > 0 THEN "PARTIAL" ELSE "OPEN",
     entry |-> s.entry + q, exit |-> s.exit, net |-> s.net + q]

\* The exit that reaches zero closes the trade; no snapshot outlives it.
ScaledOut(s, q) ==
    [dir |-> s.dir, status |-> IF s.net = q THEN "CLOSED" ELSE "PARTIAL",
     entry |-> s.entry, exit |-> s.exit + q, net |-> s.net - q]

----------------------------------------------------------------------------
(* The trades row the engine writes from a snapshot: create_trade writes    *)
(* every column, update_trade only the columns named in its dict.           *)

NewTrade(fill, s) ==
    [acct |-> fill.acct, dir |-> s.dir, status |-> s.status, entry |-> s.entry,
     exit |-> s.exit, net |-> s.net, first |-> fill.ts, deleted |-> FALSE]

EntryWritten(row, s) ==
    [row EXCEPT !.entry = s.entry, !.net = s.net, !.status = s.status]

\* Mutation: the status is missing from the dict of an exit's update_trade.
ExitWrittenWithoutStatus(row, s) ==
    [row EXCEPT !.exit = s.exit, !.net = s.net]

ExitWritten(row, s) ==
    [row EXCEPT !.exit = s.exit, !.net = s.net, !.status = s.status]

\* Mutation: assign_trade without the fill_role column.
AssignedWithoutRole(fill, t, role) == [fill EXCEPT !.trade = t]

\* assign_trade: trade_id and fill_role are always written together.
AssignedTo(fill, t, role) == [fill EXCEPT !.trade = t, !.role = role]

----------------------------------------------------------------------------
(* Queries over the tables *)

\* Mutations: the lookup without one of its three filters.
OpenTradesOfAnyStatus(trades, a) ==
    {t \in DOMAIN trades : trades[t].acct = a /\ ~trades[t].deleted}

OpenTradesNotPartial(trades, a) ==
    {t \in DOMAIN trades : /\ trades[t].acct = a
                           /\ trades[t].status = "OPEN"
                           /\ ~trades[t].deleted}

OpenTradesDeletedToo(trades, a) ==
    {t \in DOMAIN trades : /\ trades[t].acct = a
                           /\ trades[t].status \in {"OPEN", "PARTIAL"}}

\* get_open_trade_with_lock: the rows its WHERE clause selects.
OpenTrades(trades, a) ==
    {t \in DOMAIN trades : /\ trades[t].acct = a
                           /\ trades[t].status \in {"OPEN", "PARTIAL"}
                           /\ ~trades[t].deleted}

\* Mutation: assigned fills are fetched again.
FillsNotExcluded(fills, excluded, a) ==
    {f \in DOMAIN fills : fills[f].acct = a /\ f \notin excluded}

\* get_unprocessed_fills: the fills of the unit with no trade, exclusions out.
UnprocessedFills(fills, excluded, a) ==
    {f \in DOMAIN fills : /\ fills[f].acct = a
                          /\ fills[f].trade = NULL
                          /\ f \notin excluded}

\* ORDER BY fill_timestamp, fill_id: fill_id is a random uuid (manual) or an
\* opaque broker string (CSV), so equal timestamps come in any order.
FirstInOrder(fills, pending) ==
    {f \in pending : \A g \in pending : fills[f].ts <= fills[g].ts}

\* get_open_lot: oldest non-closed lot of the (user, instrument), LIMIT 1.
\* Neither the account nor the trade is in its WHERE clause, and lots of one
\* purchase_date come in any order.
OpenLots(lots) == {t \in DOMAIN lots : lots[t].status # "CLOSED"}

OldestOpenLots(lots) ==
    {t \in OpenLots(lots) : \A u \in OpenLots(lots) : lots[t].date <= lots[u].date}

----------------------------------------------------------------------------
(* Tax lots of DELIVERY trades *)

NewLot(fill) == [orig |-> fill.qty, rem |-> fill.qty,
                 date |-> TradeDate(fill.ts), status |-> "OPEN"]

\* Mutations: the quantity already consumed is forgotten, or the scale-in
\* reaches only one of the two quantities.
LotRefilled(lot, q) == [lot EXCEPT !.orig = @ + q, !.rem = lot.orig + q]

LotNotRefilled(lot, q) == [lot EXCEPT !.orig = @ + q]

\* _update_lot_on_scale_in: status is left alone.
LotScaledIn(lot, q) ==
    [lot EXCEPT !.orig = @ + q, !.rem = (lot.orig + q) - (lot.orig - lot.rem)]

\* _decrement_lot_on_exit.
LotDecremented(lot, q) ==
    [lot EXCEPT !.rem = @ - q,
                !.status = IF lot.rem = q THEN "CLOSED" ELSE "PARTIALLY_CLOSED"]

----------------------------------------------------------------------------
(* What properties say of one trades row *)

QuantitiesAgree(row) ==
    /\ row.entry > 0
    /\ row.net = row.entry - row.exit
    /\ row.net >= 0
    /\ row.status = "CLOSED" <=> row.net = 0
    /\ row.status = "OPEN" <=> row.exit = 0

\* A row no request may change any more, but for its deleted flag.
Settled(row) == row.status = "CLOSED" \/ row.deleted
=============================================================================
