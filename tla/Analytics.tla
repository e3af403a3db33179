------------------------------- MODULE Analytics -------------------------------
(***************************************************************************)
(* The read side of TradeForge: the analytics endpoints, the dashboard and *)
(* the risk summary, over a book of trades that other requests keep        *)
(* changing.  Each statement sees what is committed when it starts (READ   *)
(* COMMITTED).  GET /v1/risk/summary runs GET /v1/analytics/summary and    *)
(* three statements more: req is one such request under way.  The other    *)
(* endpoints, of one statement or a few, are given on one snapshot, as     *)
(* functions of the book.                                                  *)
(***************************************************************************)
EXTENDS TradeQueries

CONSTANTS
    Profile,        \* trade id -> the rows it may be opened with
    Account, Capital,           \* account -> starting capital or NULL
    Filters,        \* the filters asked for
    Today, MonthStart, WeekStart,   \* days, as the server's clock has them
    Moving          \* bound: trades that may change while a request runs

IsOpen(x) == x.status \in {"OPEN", "PARTIAL"}

\* The calculator's rows: the total is that of the levies, and R is the net
\* result over a risk that is an absolute value.
WellPriced(x) ==
    /\ SumOf(LAMBDA c : x.charges[c], Levies) = x.charges.total
    /\ \A r \in x.rs \ {NULL} : r * (x.gross - x.charges.total) >= 0

ASSUME ProfileAssumption ==
    \A t \in Trade : Profile[t] \subseteq
        {x \in TradeRow : x.id = t /\ IsOpen(x) /\ ~x.is_deleted /\ x.pnl = NULL /\ WellPriced(x)}

ASSUME MovingAssumption == Moving \subseteq Trade

ASSUME ClockAssumption == {Today, MonthStart, WeekStart} \subseteq Nat

VARIABLES book, req

vars == <<book, req>>

-----------------------------------------------------------------------------
(* The endpoints (AnalyticsService) on one snapshot of the book. *)

\* Seven statements in the code, one for the figures and one per bucket: this is
\* the answer when no commit falls between them.
get_r_distribution(b, f) ==
    LET stats == get_r_distribution_stats(b, f)
    IN  [stats |-> stats,
         coverage_pct |-> Percent(stats.coverage_count, stats.total_count),
         insufficient_sample |-> stats.coverage_count < 5,
         buckets |-> get_r_distribution_buckets(b, f)]

get_streaks(b, f) == compute_streak_stats(get_net_pnl_series(b, f))

\* The second copy of the expectancy formula, from the aggregates of one
\* statement; avg_loss_r is negative here.
\* Mutation: the average loss is used with its sign.
KellyExpectancySigned(k) ==
    LET n == k.win_r_count + k.loss_r_count
    IN  CASE k.avg_win_r # NULL /\ k.avg_loss_r # NULL ->
                 Minus(Times(<<k.win_r_count, n>>, k.avg_win_r),
                       Times(<<k.loss_r_count, n>>, k.avg_loss_r))
          [] k.avg_win_r # NULL /\ k.avg_loss_r = NULL -> k.avg_win_r
          [] OTHER -> Minus(Zero, k.avg_loss_r)

KellyExpectancy(k) ==
    LET n == k.win_r_count + k.loss_r_count
    IN  CASE k.avg_win_r # NULL /\ k.avg_loss_r # NULL ->
                 Minus(Times(<<k.win_r_count, n>>, k.avg_win_r),
                       Times(<<k.loss_r_count, n>>, Magnitude(k.avg_loss_r)))
          [] k.avg_win_r # NULL /\ k.avg_loss_r = NULL -> k.avg_win_r
          [] OTHER -> Minus(Zero, Magnitude(k.avg_loss_r))

get_kelly_fraction(b, f) ==
    LET k == get_kelly_inputs(b, f)
        known == /\ k.trades_with_r >= MinSample
                 /\ k.avg_positive_r # NULL
                 /\ k.win_r_count + k.loss_r_count > 0
        pct == Over(KellyExpectancy(k), k.avg_positive_r)
    IN  [kelly_pct |-> IF known THEN pct ELSE NULL,
         half_kelly_pct |-> IF known THEN Over(pct, <<2, 1>>) ELSE NULL,
         trades_with_r |-> k.trades_with_r, insufficient_sample |-> ~known]

\* All six bands in session order, the empty ones as zeros.
get_time_of_day_buckets(b, f) ==
    LET raw == get_time_of_day(b, f)
    IN  [i \in DOMAIN Bands |->
            IF Bands[i] \in DOMAIN raw THEN raw[Bands[i]] ELSE Performance({})]

get_rolling_expectancy(b, f) == compute_rolling_expectancy(get_trade_series(b, f))

\* random.choices: every simulation is some sequence of n of the n R-multiples.
MonteCarloRuns(b, f, n_simulations) ==
    LET pool == get_r_multiples_for_monte_carlo(b, f)
        Draws == [DOMAIN pool -> Range(pool)]
    IN  [1..n_simulations -> Draws]

\* G-CORR-03: charges are a share of the gross profit, or an amount on top of a loss.
ChargeDrag(raw) ==
    [drag_pct |-> IF raw.total_gross_pnl > 0
                  THEN Percent(raw.total_charges, raw.total_gross_pnl) ELSE NULL,
     added_to_loss |-> IF raw.total_gross_pnl > 0 THEN NULL ELSE raw.total_charges]

-----------------------------------------------------------------------------
(* The dashboard of one account: one statement, P&L joined from outside. *)

\* Mutation: soft-deleted trades are not left out.
KeptOrDeleted(b) == {b[t] : t \in {u \in Trade : b[u] # NULL}}

Kept(b) == {b[t] : t \in {u \in Trade : b[u] # NULL /\ ~b[u].is_deleted}}
dashboard_summary(b, a) ==
    LET rows == {x \in Kept(b) : x.account_id = a}
        Net(since) == SumOf(NetOf, {x \in rows : x.pnl # NULL /\ x.trade_date >= since})
    IN  [all_time_net_pnl |-> Net(0), mtd_net_pnl |-> Net(MonthStart),
         wtd_net_pnl |-> Net(WeekStart),
         realized_equity |-> IF Capital[a] = NULL THEN NULL ELSE Capital[a] + Net(0),
         total_closed_trades |-> Cardinality({x \in rows : x.status = "CLOSED"}),
         open_trade_count |-> Cardinality({x \in rows : IsOpen(x)})]

(* Risk of today: open positions of any day, and the losses of trades of today. *)

AtRisk(rows) ==
    LET known == {x \in rows : IsOpen(x) /\ x.planned_risk_amount # NULL}
    IN  [open_trade_count |-> Cardinality({x \in rows : IsOpen(x)}),
         total_at_risk_inr |-> IF known = {} THEN NULL
                               ELSE SumOf(LAMBDA x : x.planned_risk_amount, known)]

DailyLoss(rows) ==
    LET lost == {x \in rows : x.pnl # NULL /\ x.trade_date = Today /\ x.pnl.net < 0}
    IN  [daily_loss_inr |-> SumOf(NetOf, lost), daily_loss_trade_count |-> Cardinality(lost)]

get_daily_risk(b, a) ==
    LET rows == {x \in Kept(b) : x.account_id = a}
    IN  [at_risk |-> AtRisk(rows), daily_loss |-> DailyLoss(rows)]

\* The account clause: of the whole filter only account_ids reaches these two.
InScope(b, f) == {x \in Kept(b) : Allows(f.account_ids, x.account_id)}

-----------------------------------------------------------------------------
(* The request of several statements. *)

\* The first nine are the summary of the analytics service, the last three
\* what the risk service asks on top.
Statements == <<"pnl", "outcome", "profit_factor", "planned_rr_total", "planned_rr",
                "r_series", "curve", "direction", "charges",
                "streaks", "at_risk", "daily_loss">>

FromRSeries(series, total) ==
    LET all == series.win_r \o series.loss_r
    IN  [expectancy |-> compute_expectancy(series.win_r, series.loss_r, total),
         sharpe |-> compute_sharpe_ratio(all), sortino |-> compute_sortino_ratio(all)]

Answer(s, b, f, got) ==
    CASE s = "pnl" -> get_pnl_summary(b, f)
      [] s = "outcome" -> get_outcome_distribution(b, f)
      [] s = "profit_factor" -> get_profit_factor(b, f)
      [] s = "planned_rr_total" -> get_planned_rr_total(b, f)
      [] s = "planned_rr" -> get_planned_rr(b, f, got["planned_rr_total"])
      [] s = "r_series" -> FromRSeries(get_r_multiple_series(b, f), got["outcome"].total_n)
      [] s = "curve" -> compute_drawdown_stats(get_equity_curve(b, f))
      [] s = "direction" -> get_by_direction(b, f)
      [] s = "charges" -> With(get_charges_breakdown(b, f), "drag",
                               ChargeDrag(get_charges_breakdown(b, f)))
      [] s = "streaks" -> get_streaks(b, f)
      [] s = "at_risk" -> AtRisk(InScope(b, f))
      [] s = "daily_loss" -> DailyLoss(InScope(b, f))

\* got holds the answers so far; moved, whether a commit fell in between.
Ask(f) ==
    /\ req = NULL
    /\ req' = [filter |-> f, got |-> <<>>, moved |-> FALSE]
    /\ UNCHANGED book

NextStatement(r) == Statements[Cardinality(DOMAIN r.got) + 1]
Answered(r) == Cardinality(DOMAIN r.got) = Len(Statements)
Failed(r) == "planned_rr" \in DOMAIN r.got /\ r.got["planned_rr"] = NULL

Read ==
    /\ req # NULL /\ ~Answered(req) /\ ~Failed(req)
    /\ LET s == NextStatement(req)
       IN  req' = [req EXCEPT !.got = With(@, s, Answer(s, book, req.filter, req.got))]
    /\ UNCHANGED book

\* The response, or the error of the failed statement, leaves the server.
Respond ==
    /\ req # NULL /\ (Answered(req) \/ Failed(req))
    /\ req' = NULL
    /\ UNCHANGED book

-----------------------------------------------------------------------------
(* Other requests.  Those of one transaction are one commit here. *)

Commit(S, b) ==
    /\ req # NULL => S \subseteq Moving /\ ~req.moved
    /\ req' = IF req = NULL THEN NULL ELSE [req EXCEPT !.moved = TRUE]
    /\ book' = b

PnlOf(x, r) ==
    [gross |-> x.gross, net |-> x.gross - x.charges.total, charges |-> x.charges,
     r |-> r, broker |-> x.broker]

Open(t, p) ==
    /\ book[t] = NULL
    /\ Commit({t}, [book EXCEPT ![t] = p])

\* The engine prices the trade when it closes it by hand; an import does not.
Close(t) ==
    /\ book[t] # NULL /\ IsOpen(book[t]) /\ ~book[t].is_deleted
    /\ \E pnl \in {NULL} \cup {PnlOf(book[t], r) : r \in book[t].rs} :
           Commit({t}, [book EXCEPT ![t].status = "CLOSED", ![t].pnl = pnl])

\* backfill_all_closed: a trade whose charge schedule is missing is passed over.
\* Mutation: trades of any status are priced.
BackfillAnyStatus ==
    \E t \in Trade :
        /\ book[t] # NULL /\ ~book[t].is_deleted /\ book[t].pnl = NULL
        /\ \E r \in book[t].rs : Commit({t}, [book EXCEPT ![t].pnl = PnlOf(book[t], r)])

Backfill ==
    LET due == {t \in Trade : /\ book[t] # NULL /\ book[t].status = "CLOSED"
                              /\ ~book[t].is_deleted /\ book[t].pnl = NULL}
    IN  \E S \in SUBSET due \ {{}} :
            \E r \in [S -> UNION {book[t].rs : t \in S}] :
                /\ \A t \in S : r[t] \in book[t].rs
                /\ Commit(S, [t \in Trade |->
                       IF t \in S THEN [book[t] EXCEPT !.pnl = PnlOf(book[t], r[t])]
                       ELSE book[t]])

\* The journal stores another planned stop: the R-multiple follows.
Rescale(t, r) ==
    /\ book[t] # NULL /\ book[t].pnl # NULL /\ ~book[t].is_deleted
    /\ r \in book[t].rs \ {book[t].pnl.r}
    /\ Commit({t}, [book EXCEPT ![t].pnl.r = r])

\* Soft: the status and the P&L row stay.
Delete(t) ==
    /\ book[t] # NULL /\ ~book[t].is_deleted
    /\ Commit({t}, [book EXCEPT ![t].is_deleted = TRUE])

Init == book = [t \in Trade |-> NULL] /\ req = NULL

Next ==
    \/ \E f \in Filters : Ask(f)
    \/ Read
    \/ Respond
    \/ \E t \in Trade : \E p \in Profile[t] : Open(t, p)
    \/ \E t \in Trade : Close(t)
    \/ \E t \in Trade : \E r \in UNION {p.rs : p \in Profile[t]} : Rescale(t, r)
    \/ \E t \in Trade : Delete(t)
    \/ Backfill

Spec == Init /\ [][Next]_vars

-----------------------------------------------------------------------------
(* Properties.  Those of the book alone are read when no request is under  *)
(* way: a request changes nothing.                                         *)

AnswerTypes ==
    [pnl |-> PnlSummary, outcome |-> OutcomeDistribution,
     profit_factor |-> ProfitFactorResult, planned_rr_total |-> Nat,
     planned_rr |-> {NULL} \cup PlannedRRResult,
     r_series |-> [expectancy : ExpectancyResult, sharpe : SharpeResult,
                   sortino : SortinoResult],
     curve |-> DrawdownStats, streaks |-> StreakStats]

\* The book holds trades of the user, with a P&L row only where one was closed;
\* the answers have the shape of the result classes.
TypeOK ==
    /\ book \in [Trade -> {NULL} \cup TradeRow]
    /\ \A t \in Trade : book[t] # NULL =>
           book[t].id = t /\ (book[t].pnl # NULL => book[t].status = "CLOSED")
    /\ req # NULL => \A s \in DOMAIN req.got \cap DOMAIN AnswerTypes :
                        req.got[s] \in AnswerTypes[s]

Counted(groups) == SumOf(LAMBDA k : groups[k].trade_count, DOMAIN groups)
Netted(groups) == SumOf(LAMBDA k : groups[k].total_net_pnl, DOMAIN groups)

\* Every way the code has of cutting the selected trades (direction, setup, exit
\* type, session band, hold time, the five dimensions, outcomes, R histogram)
\* puts each of them into exactly one part: the parts add up to the headline
\* count and net P&L of get_pnl_summary, whatever the filter.  This is a claim about
\* one snapshot: a commit between the seven statements of get_r_distribution may
\* set its histogram and its coverage_count apart.
PartsAddUp ==
    req = NULL => \A f \in Filters :
        LET head == get_pnl_summary(book, f)
            outcome == get_outcome_distribution(book, f)
            r == get_r_distribution(book, f)
            AddUp(groups) == /\ Counted(groups) = head.total_trades
                             /\ Netted(groups) = head.net_pnl
        IN  /\ AddUp(get_by_direction(book, f))
            /\ AddUp(get_by_setup(book, f))
            /\ AddUp(get_by_exit_type(book, f))
            /\ AddUp(get_time_of_day_buckets(book, f))
            /\ AddUp(get_hold_duration_distribution(book, f).buckets)
            /\ \A d \in Dimensions : AddUp(get_dimension_breakdown(book, f, d))
            /\ outcome.win_count + outcome.loss_count + outcome.breakeven_count
                   = head.total_trades
            /\ Total(r.buckets) = r.stats.coverage_count

\* The expectancy formula exists three times: in the summary, in the Kelly
\* fraction (from SQL aggregates) and in the rolling series.  They agree with
\* each other and with the plain mean of the R-multiples of decided trades.
ExpectancyAgrees ==
    req = NULL => \A f \in Filters :
        LET series == get_r_multiple_series(book, f)
            all == series.win_r \o series.loss_r
            total == get_outcome_distribution(book, f).total_n
            e == compute_expectancy(series.win_r, series.loss_r, total).expectancy_r
            kelly == get_kelly_fraction(book, f)
            rolling == get_rolling_expectancy(book, f)
        IN  /\ e = NULL <=> all = <<>>
            /\ e # NULL => Same(e, Mean(all))
            /\ kelly.kelly_pct # NULL =>
                   Same(e, Times(kelly.kelly_pct, get_kelly_inputs(book, f).avg_positive_r))
            /\ total = Window /\ e # NULL => Same(e, rolling.data[1].rolling_exp_r)
            /\ total = Window /\ e = NULL => rolling.data[1].rolling_exp_r = NULL

\* What drawdown and streaks mean, without the running peak and counters.
PeakAt(curve, i) == Max({curve[j].cumulative_net_pnl : j \in 1..i})
Drops(curve) ==
    {<<100 * (PeakAt(curve, i) - curve[i].cumulative_net_pnl), PeakAt(curve, i)>> :
        i \in {k \in DOMAIN curve : PeakAt(curve, k) > curve[k].cumulative_net_pnl
                                   /\ PeakAt(curve, k) > 0}}
WinRuns(pnls) ==
    {w[2] - w[1] + 1 : w \in {v \in (DOMAIN pnls) \X (DOMAIN pnls) :
                                 v[1] <= v[2] /\ \A k \in v[1]..v[2] : pnls[k] > 0}}

\* The one-pass drawdown finds the deepest fall from any earlier high of the
\* curve, the last point is never deeper than it, the longest winning streak is
\* the longest run of wins in date order, and each point of the rolling series
\* is the rise of the equity curve over its window.
CurveMetricsSound ==
    req = NULL => \A f \in Filters :
        LET curve == get_equity_curve(book, f)
            dd == compute_drawdown_stats(curve)
            drops == Drops(curve)
            streaks == get_streaks(book, f)
            rolling == get_rolling_expectancy(book, f).data
            CumAt(i) == IF i = 0 THEN 0 ELSE curve[i].cumulative_net_pnl
        IN  /\ dd.max_drawdown_pct = NULL <=> drops = {}
            /\ drops # {} => /\ \E d \in drops : Same(d, dd.max_drawdown_pct)
                             /\ \A d \in drops : ~Less(dd.max_drawdown_pct, d)
                             /\ ~Less(dd.max_drawdown_pct, dd.current_drawdown_pct)
                             /\ ~Less(dd.max_drawdown_pct, dd.avg_drawdown_pct)
            /\ streaks.max_win_streak = Max({0} \cup WinRuns(get_net_pnl_series(book, f)))
            /\ streaks.current_win_streak <= streaks.max_win_streak
            /\ streaks.current_win_streak = 0 \/ streaks.current_loss_streak = 0
            /\ \A k \in DOMAIN rolling :
                   Same(rolling[k].rolling_exp_inr,
                        <<CumAt(rolling[k].trade_index) - CumAt(k - 1), Window>>)

\* Monte Carlo, over every set of three simulations that two trades allow: a
\* simulation stops at ruin and never recovers, so the share of ruined ones and
\* the sorted final results tell the same story.
RuinMatchesFinals ==
    req = NULL => \A f \in Filters :
        Len(get_r_multiples_for_monte_carlo(book, f)) \in 1..2 =>
            \A sims \in MonteCarloRuns(book, f, 3) :
                LET mc == compute_monte_carlo(sims)
                IN  /\ Less(<<50, 1>>, mc.risk_of_ruin_pct) <=> mc.median_final_r <= RuinThreshold
                    /\ mc.risk_of_ruin_pct[1] > 0 <=> mc.p5_final_r <= RuinThreshold
                    /\ ~Less(mc.worst_max_drawdown_pct, mc.p5_max_drawdown_pct)

\* The dashboard joins P&L from outside and looks at no status, the analytics
\* join from inside and want CLOSED: per account they show one net P&L, and they
\* differ in the number of closed trades by exactly those not priced yet.
DashboardAgrees ==
    req = NULL => \A a \in Account :
        LET d == dashboard_summary(book, a)
            only == [date_from |-> NULL, date_to |-> NULL, account_ids |-> {a},
                     instrument_types |-> {}, exchange_segments |-> {}, trade_types |-> {},
                     directions |-> {}, setup_names |-> {}, brokers |-> {}]
            head == get_pnl_summary(book, only)
            unpriced == {x \in Kept(book) : x.account_id = a /\ x.status = "CLOSED" /\ x.pnl = NULL}
        IN  /\ d.all_time_net_pnl = head.net_pnl
            /\ d.total_closed_trades = head.total_trades + Cardinality(unpriced)
            /\ d.open_trade_count = get_daily_risk(book, a).at_risk.open_trade_count
            /\ d.mtd_net_pnl = get_pnl_summary(book, [only EXCEPT !.date_from = MonthStart]).net_pnl

\* The answers of one request agree with each other when no commit fell between
\* its statements; a commit in between can at most set them apart by the trades
\* it touched, never the figures that are computed from one statement.
SummaryAddsUp ==
    req # NULL /\ Answered(req) =>
        LET g == req.got
            e == g["r_series"].expectancy
            net == g["charges"].total_gross_pnl - g["charges"].total_charges
        IN  /\ e.r_coverage_count = g["r_series"].sharpe.r_coverage_count
            /\ e.r_coverage_count <= e.total_count + (IF req.moved THEN Cardinality(Moving) ELSE 0)
            /\ SumOf(LAMBDA c : g["charges"].levies[c], Levies) = g["charges"].total_charges
            /\ ~req.moved =>
                   /\ g["profit_factor"].gross_profit + g["profit_factor"].gross_loss
                          = g["pnl"].net_pnl
                   /\ g["outcome"].total_n = g["pnl"].total_trades
                   /\ g["planned_rr_total"] = g["pnl"].total_trades
                   /\ Counted(g["direction"]) = g["pnl"].total_trades
                   /\ Netted(g["direction"]) = net
                   /\ net = g["pnl"].net_pnl
                   /\ g["streaks"].current_loss_streak > 0 => g["outcome"].loss_count > 0

\* types.py: "9-dimension filter applied to every analytics query".  The two
\* statements of the hold-duration endpoint look at the same trades.
FilterReachesEveryQuery ==
    req = NULL => \A f \in Filters :
        LET hold == get_hold_duration_distribution(book, f)
        IN  hold.avg_duration_minutes = NULL <=> hold.buckets = <<>>
=============================================================================
