----------------------------- MODULE TradeQueries -----------------------------
(***************************************************************************)
(* The SELECT statements of AnalyticsRepository, as functions of the rows  *)
(* they read.  A book maps a trade id to its row, which joins what the     *)
(* tables trades, instruments, trade_pnl and execution_fills hold of the   *)
(* trade, or to NULL; the rows are those of one user, whom every statement *)
(* asks for.  Instants are minutes (IST), dates are days.  A sum of        *)
(* nothing is 0 and an average of nothing is NULL, as COALESCE(SUM, 0) and *)
(* AVG are.  The ORDER BY of a grouped answer is presentation.             *)
(***************************************************************************)
EXTENDS AnalyticsMetrics, FiniteSetsExt

CONSTANT Trade          \* trade ids; the code breaks ties by their order

ASSUME TradeAssumption == Trade \subseteq Nat /\ IsFiniteSet(Trade)

-----------------------------------------------------------------------------
(* A row: a trade with its instrument, its first, last and EXIT fills and   *)
(* its trade_pnl.  gross, charges, rs and broker are what the engine will   *)
(* store there; the R-multiple depends on the planned risk of the moment.   *)

Levies == {"brokerage", "stt", "exchange", "sebi", "stamp", "gst", "ipft"}

ChargesRow == [Levies \cup {"total"} -> Nat]

PnlRow == [gross : Int, net : Int, charges : ChargesRow, r : {NULL} \cup Int, broker : STRING]

TradeRow ==
    [id : Trade, account_id : STRING, trade_type : STRING, instrument_type : STRING,
     exchange_segment : STRING, symbol : STRING, direction : {"LONG", "SHORT"},
     setup_name : {NULL} \cup STRING, trade_date : Nat, first_fill_at : Nat,
     last_fill_at : Nat, average_entry : Nat, planned_stop : {NULL} \cup Nat,
     planned_target : {NULL} \cup Nat, planned_risk_amount : {NULL} \cup Nat,
     exits : SUBSET [at : Nat, exit_type : {NULL} \cup STRING],
     gross : Int, charges : ChargesRow, rs : SUBSET ({NULL} \cup Int), broker : STRING,
     status : {"OPEN", "PARTIAL", "CLOSED"}, is_deleted : BOOLEAN, pnl : {NULL} \cup PnlRow]

ASSUME NullAssumption == NULL \notin Int /\ NULL \notin PnlRow /\ NULL \notin TradeRow

-----------------------------------------------------------------------------
(* The filter, and the rows a statement selects. *)

AnalyticsFilter ==
    [date_from : {NULL} \cup Nat, date_to : {NULL} \cup Nat,
     account_ids : SUBSET STRING, instrument_types : SUBSET STRING,
     exchange_segments : SUBSET STRING, trade_types : SUBSET STRING,
     directions : SUBSET STRING, setup_names : SUBSET STRING, brokers : SUBSET STRING]

\* An empty dimension does not filter; a NULL setup is IN no list.
Allows(dimension, value) == dimension = {} \/ value \in dimension

\* The trades of the book joined with their P&L row.
Priced(b) == {t \in Trade : b[t] # NULL /\ b[t].pnl # NULL}

BaseWhere(b, f) ==
    {b[t] : t \in {u \in Priced(b) :
        /\ b[u].status = "CLOSED"
        /\ ~b[u].is_deleted
        /\ f.date_from # NULL => b[u].trade_date >= f.date_from
        /\ f.date_to # NULL => b[u].trade_date <= f.date_to
        /\ Allows(f.account_ids, b[u].account_id)
        /\ Allows(f.trade_types, b[u].trade_type)
        /\ Allows(f.directions, b[u].direction)
        /\ Allows(f.setup_names, b[u].setup_name)
        /\ Allows(f.brokers, b[u].pnl.broker)}}

InstrumentClauses(rows, f) ==
    {x \in rows : /\ Allows(f.instrument_types, x.instrument_type)
                  /\ Allows(f.exchange_segments, x.exchange_segment)}

Selected(b, f) == InstrumentClauses(BaseWhere(b, f), f)

-----------------------------------------------------------------------------
(* Aggregates. *)

\* The record or function r with one entry more.
With(r, key, value) == [x \in DOMAIN r \cup {key} |-> IF x = key THEN value ELSE r[x]]

SumOf(Value(_), rows) == SumFunction([x \in rows |-> Value(x)])
Avg(Value(_), rows) ==
    IF rows = {} THEN NULL ELSE <<SumOf(Value, rows), Cardinality(rows)>>

Won(rows) == {x \in rows : x.pnl.net > 0}
Lost(rows) == {x \in rows : x.pnl.net < 0}
Even(rows) == {x \in rows : x.pnl.net = 0}
WithR(rows) == {x \in rows : x.pnl.r # NULL}

NetOf(x) == x.pnl.net
ROf(x) == x.pnl.r
Minutes(x) == x.last_fill_at - x.first_fill_at

\* percentile_cont: interpolation between the two values around num/den.
PercentileCont(Value(_), rows, num, den) ==
    LET s == SetToSortSeq(rows, LAMBDA x, y : Value(x) < Value(y) \/ (Value(x) = Value(y) /\ x.id < y.id))
        at == num * (Len(s) - 1)
        lo == s[(at \div den) + 1]
        hi == s[Min({(at \div den) + 2, Len(s)})]
    IN  IF rows = {} THEN NULL
        ELSE <<den * Value(lo) + (at % den) * (Value(hi) - Value(lo)), den>>

\* What the grouped statements report of each group.
Performance(rows) ==
    [trade_count |-> Cardinality(rows), win_count |-> Cardinality(Won(rows)),
     loss_count |-> Cardinality(Lost(rows)), breakeven_count |-> Cardinality(Even(rows)),
     win_rate |-> Percent(Cardinality(Won(rows)), Cardinality(rows)),
     avg_net_pnl |-> Avg(NetOf, rows), total_net_pnl |-> SumOf(NetOf, rows),
     avg_r_multiple |-> Avg(ROf, WithR(rows))]

GroupBy(Key(_), rows) ==
    [k \in {Key(x) : x \in rows} |-> Performance({x \in rows : Key(x) = k})]

\* G-CONF-03: trade_date, last_fill_at, id.
Earlier(x, y) ==
    \/ x.trade_date < y.trade_date
    \/ x.trade_date = y.trade_date /\ x.last_fill_at < y.last_fill_at
    \/ x.trade_date = y.trade_date /\ x.last_fill_at = y.last_fill_at /\ x.id < y.id

InOrder(rows) == Enumerate(rows, Earlier)

-----------------------------------------------------------------------------
(* The result classes of the summary. *)

PnlSummary ==
    [total_trades : Nat, gross_pnl : Int, net_pnl : Int, total_charges : Nat]

OutcomeDistribution ==
    [win_count : Nat, loss_count : Nat, breakeven_count : Nat, total_n : Nat,
     win_rate : Fraction, loss_rate : Fraction, breakeven_rate : Fraction]

ProfitFactorResult ==
    [profit_factor : {NULL} \cup Fraction, gross_profit : Nat, gross_loss : Int]

PlannedRRResult ==
    [avg_planned_rr : {NULL} \cup Fraction, trade_count_with_rr : Nat,
     total_count : Nat, coverage_pct : Fraction]

-----------------------------------------------------------------------------
(* The statements of the summary. *)

get_pnl_summary(b, f) ==
    LET rows == Selected(b, f)
    IN  [total_trades |-> Cardinality(rows),
         gross_pnl |-> SumOf(LAMBDA x : x.pnl.gross, rows),
         net_pnl |-> SumOf(NetOf, rows),
         total_charges |-> SumOf(LAMBDA x : x.pnl.charges.total, rows)]

get_outcome_distribution(b, f) ==
    LET rows == Selected(b, f)
        Rate(part) == Percent(Cardinality(part), Cardinality(rows))
    IN  [win_count |-> Cardinality(Won(rows)), loss_count |-> Cardinality(Lost(rows)),
         breakeven_count |-> Cardinality(Even(rows)), total_n |-> Cardinality(rows),
         win_rate |-> Rate(Won(rows)), loss_rate |-> Rate(Lost(rows)),
         breakeven_rate |-> Rate(Even(rows))]

\* The R-multiples of the wins and of the losses; breakevens are left out.
Series(Value(_), rows) == LET s == InOrder(rows) IN [i \in DOMAIN s |-> Value(s[i])]

get_r_multiple_series(b, f) ==
    [win_r |-> Series(ROf, Won(WithR(Selected(b, f)))),
     loss_r |-> Series(ROf, Lost(WithR(Selected(b, f))))]

get_profit_factor(b, f) ==
    LET profit == SumOf(NetOf, Won(Selected(b, f)))
        loss == SumOf(NetOf, Lost(Selected(b, f)))
    IN  [profit_factor |-> IF loss < 0 THEN <<profit, -loss>> ELSE NULL,
         gross_profit |-> profit, gross_loss |-> loss]

\* The planned reward over the planned risk; a stop at the entry divides by zero.
PlannedRR(x) ==
    IF x.direction = "LONG"
    THEN Norm(x.planned_target - x.average_entry, x.average_entry - x.planned_stop)
    ELSE Norm(x.average_entry - x.planned_target, x.planned_stop - x.average_entry)

\* Two statements in the code: the count of all selected trades comes first.
\* NULL stands for the error of the second, division by zero.
get_planned_rr_total(b, f) == Cardinality(Selected(b, f))

get_planned_rr(b, f, total) ==
    LET rows == {x \in Selected(b, f) : x.planned_target # NULL /\ x.planned_stop # NULL}
    IN  IF \E x \in rows : x.planned_stop = x.average_entry THEN NULL
        ELSE [avg_planned_rr |-> FractionMean(Series(PlannedRR, rows)),
              trade_count_with_rr |-> Cardinality(rows), total_count |-> total,
              coverage_pct |-> Percent(Cardinality(rows), total)]

get_equity_curve(b, f) ==
    LET s == InOrder(Selected(b, f))
    IN  [i \in DOMAIN s |->
            [trade_date |-> s[i].trade_date, trade_id |-> s[i].id, net_pnl |-> s[i].pnl.net,
             cumulative_net_pnl |-> SumOf(NetOf, {s[j] : j \in 1..i})]]

\* Mutation: the instrument clauses are forgotten.
DirectionOfAnyInstrument(b, f) == GroupBy(LAMBDA x : x.direction, BaseWhere(b, f))

get_by_direction(b, f) == GroupBy(LAMBDA x : x.direction, Selected(b, f))

get_charges_breakdown(b, f) ==
    LET rows == Selected(b, f)
    IN  [levies |-> [c \in Levies |-> SumOf(LAMBDA x : x.pnl.charges[c], rows)],
         total_charges |-> SumOf(LAMBDA x : x.pnl.charges.total, rows),
         total_gross_pnl |-> SumOf(LAMBDA x : x.pnl.gross, rows)]

-----------------------------------------------------------------------------
(* The statements of the other endpoints. *)

get_r_distribution_stats(b, f) ==
    LET rows == WithR(Selected(b, f))
        n == Cardinality(rows)
        v == Variance(Series(ROf, rows))
    IN  [coverage_count |-> n, total_count |-> Cardinality(Selected(b, f)),
         mean_r |-> Avg(ROf, rows), median_r |-> PercentileCont(ROf, rows, 1, 2),
         p25_r |-> PercentileCont(ROf, rows, 1, 4), p75_r |-> PercentileCont(ROf, rows, 3, 4),
         \* STDDEV is the sample's: the variance times n / (n - 1).
         stddev_r |-> IF n < 2 THEN NULL ELSE Times(v, <<n, n - 1>>)]

\* Six buckets, cut at these R-multiples: the lower bound is inside.
RBounds == <<-2, -1, 0, 1, 2>>
RBucket(r) == Cardinality({i \in DOMAIN RBounds : RBounds[i] <= r}) + 1

get_r_distribution_buckets(b, f) ==
    [k \in 1..(Len(RBounds) + 1) |->
        Cardinality({x \in WithR(Selected(b, f)) : RBucket(x.pnl.r) = k})]

get_by_setup(b, f) == GroupBy(LAMBDA x : x.setup_name, Selected(b, f))

get_net_pnl_series(b, f) == Series(NetOf, Selected(b, f))

\* Six buckets, cut at these minutes: the upper bound is outside.
HoldBounds == <<15, 60, 240, 1440, 10080>>
HoldBucket(minutes) == Cardinality({i \in DOMAIN HoldBounds : HoldBounds[i] <= minutes}) + 1

\* The averages are a second statement, which does not join the instruments.
get_hold_duration_distribution(b, f) ==
    [buckets |-> GroupBy(LAMBDA x : HoldBucket(Minutes(x)), Selected(b, f)),
     avg_duration_minutes |-> Avg(Minutes, BaseWhere(b, f)),
     median_duration_minutes |-> PercentileCont(Minutes, BaseWhere(b, f), 1, 2)]

\* The exit type of the latest EXIT fill: NULL when there is none or it is
\* untagged.  Of two fills of one instant the statement may take either.
LastExitType(x) ==
    LET latest == {e \in x.exits : \A d \in x.exits : d.at <= e.at}
    IN  IF latest = {} THEN NULL ELSE (CHOOSE e \in latest : TRUE).exit_type

\* Mutation: an inner join with the exit fills.
ExitTypeOfExited(b, f) ==
    GroupBy(LastExitType, {x \in Selected(b, f) : x.exits # {}})

get_by_exit_type(b, f) == GroupBy(LastExitType, Selected(b, f))

get_r_multiples_for_monte_carlo(b, f) == Series(ROf, WithR(Selected(b, f)))

Dimensions == {"direction", "setup", "instrument", "trade_type", "segment"}

Label(x, dimension) ==
    CASE dimension = "direction" -> x.direction
      [] dimension = "setup" -> IF x.setup_name = NULL THEN "(no setup)" ELSE x.setup_name
      [] dimension = "instrument" -> x.symbol
      [] dimension = "trade_type" -> x.trade_type
      [] dimension = "segment" -> x.exchange_segment

get_dimension_breakdown(b, f, dimension) ==
    LET rows == Selected(b, f)
        Group(k) == {x \in rows : Label(x, dimension) = k}
    IN  [k \in {Label(x, dimension) : x \in rows} |->
            With(Performance(Group(k)), "avg_hold_duration_minutes", Avg(Minutes, Group(k)))]

get_kelly_inputs(b, f) ==
    LET rows == WithR(Selected(b, f))
    IN  [trades_with_r |-> Cardinality(rows),
         win_r_count |-> Cardinality(Won(rows)), loss_r_count |-> Cardinality(Lost(rows)),
         avg_win_r |-> Avg(ROf, Won(rows)), avg_loss_r |-> Avg(ROf, Lost(rows)),
         avg_positive_r |-> Avg(ROf, {x \in rows : x.pnl.r > 0})]

\* NSE session bands, minutes of the day: both ends are inside, the first that
\* fits is taken, and what fits none is "close".
Bands == <<"pre_open", "open_volatility", "mid_morning", "lunch", "afternoon", "close">>
BandEnds == <<<<555, 570>>, <<570, 600>>, <<600, 690>>, <<690, 810>>, <<810, 900>>>>

Band(minute) ==
    LET fits == {i \in DOMAIN BandEnds : BandEnds[i][1] <= minute /\ minute <= BandEnds[i][2]}
    IN  Bands[Min(fits \cup {Len(Bands)})]

MinuteOfDay(x) == x.first_fill_at % 1440
get_time_of_day(b, f) == GroupBy(LAMBDA x : Band(MinuteOfDay(x)), Selected(b, f))

get_trade_series(b, f) ==
    LET s == InOrder(Selected(b, f))
    IN  [i \in DOMAIN s |-> [trade_date |-> s[i].trade_date, trade_id |-> s[i].id,
                             net_pnl |-> s[i].pnl.net, r_multiple |-> s[i].pnl.r]]

-----------------------------------------------------------------------------
(* The values offered for the filter: closed trades, deleted ones included. *)

ClosedOnes(b) == {t \in Trade : b[t] # NULL /\ b[t].status = "CLOSED"}

get_distinct_accounts(b) == {b[t].account_id : t \in ClosedOnes(b)}
get_distinct_setups(b) == {Label(b[t], "setup") : t \in ClosedOnes(b)}
get_distinct_brokers(b) == {b[t].pnl.broker : t \in ClosedOnes(b) \cap Priced(b)}
=============================================================================
