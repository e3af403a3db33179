--------------------------- MODULE AnalyticsMetrics ---------------------------
(***************************************************************************)
(* The pure calculators of the analytics layer, domain/analytics: they     *)
(* take what one SELECT returned and compute expectancy, drawdown,         *)
(* streaks, the risk-adjusted ratios, the rolling series and the Monte     *)
(* Carlo summary.  Money and R-multiples are integers; a quotient is the   *)
(* exact fraction <<numerator, denominator>> with a positive denominator,  *)
(* which is what Decimal computes up to its 28 digits.  A square root is   *)
(* not taken: a standard deviation is represented by its variance.         *)
(***************************************************************************)
EXTENDS Integers, Sequences, FiniteSets, SequencesExt

CONSTANTS
    MinSample,      \* 30 in the code: below it a ratio is not published
    Window,         \* 20 in the code: trades in one rolling window
    RuinThreshold,  \* -50 in the code: cumulative R that counts as ruin
    NULL

Fraction == Int \X (Nat \ {0})

ASSUME MetricsAssumption ==
    /\ MinSample \in Nat \ {0}
    /\ Window \in Nat \ {0}
    /\ RuinThreshold \in Int
    /\ NULL \notin Fraction

-----------------------------------------------------------------------------
(* Fractions. *)

Zero == <<0, 1>>
Norm(n, d) == IF d < 0 THEN <<-n, -d>> ELSE <<n, d>>
Plus(x, y) == <<x[1] * y[2] + y[1] * x[2], x[2] * y[2]>>
Minus(x, y) == <<x[1] * y[2] - y[1] * x[2], x[2] * y[2]>>
Times(x, y) == <<x[1] * y[1], x[2] * y[2]>>
Over(x, y) == Norm(x[1] * y[2], x[2] * y[1])
Less(x, y) == x[1] * y[2] < y[1] * x[2]
Same(x, y) == x[1] * y[2] = y[1] * x[2]
Magnitude(x) == IF x[1] < 0 THEN <<-x[1], x[2]>> ELSE x

\* A percentage, 0 of nothing.
Percent(n, d) == IF d = 0 THEN Zero ELSE Norm(100 * n, d)

\* The elements of S in a strict order: the i-th has i - 1 before it.
Enumerate(S, Before(_, _)) ==
    [i \in 1..Cardinality(S) |-> CHOOSE x \in S : Cardinality({y \in S : Before(y, x)}) = i - 1]

\* s sorted, equal values in the order they had.
Sorted(s, Before(_, _)) ==
    LET at == Enumerate(DOMAIN s, LAMBDA i, j :
                  Before(s[i], s[j]) \/ (~Before(s[j], s[i]) /\ i < j))
    IN  [k \in DOMAIN at |-> s[at[k]]]

Total(s) == SumFunction(s)
Mean(s) == <<Total(s), Len(s)>>

\* Of fractions.
FractionSum(s) ==
    LET sum[i \in 0..Len(s)] == IF i = 0 THEN Zero ELSE Plus(sum[i - 1], s[i])
    IN  sum[Len(s)]
FractionMean(s) == IF s = <<>> THEN NULL ELSE Over(FractionSum(s), <<Len(s), 1>>)

\* The variance of s over Len(s): (n * sum of squares - square of sum) / n^2.
Variance(s) ==
    LET squares == Total([i \in DOMAIN s |-> s[i] * s[i]])
    IN  <<Len(s) * squares - Total(s) * Total(s), Len(s) * Len(s)>>

-----------------------------------------------------------------------------
(* What the calculators return. *)

ExpectancyResult ==
    [expectancy_r : {NULL} \cup Fraction, avg_r_win : {NULL} \cup Fraction,
     avg_r_loss : {NULL} \cup Fraction, r_coverage_count : Nat,
     total_count : Nat, r_coverage_pct : Fraction, insufficient_sample : BOOLEAN]

DrawdownStats ==
    [max_drawdown_pct : {NULL} \cup Fraction, max_drawdown_inr : {NULL} \cup Nat,
     avg_drawdown_pct : {NULL} \cup Fraction,
     current_drawdown_pct : {NULL} \cup Fraction, current_drawdown_inr : {NULL} \cup Nat]

StreakStats ==
    [current_win_streak : Nat, current_loss_streak : Nat,
     max_win_streak : Nat, max_loss_streak : Nat,
     avg_win_streak : Fraction, avg_loss_streak : Fraction]

SharpeResult ==
    [sharpe_ratio : {"defined", NULL}, mean_r : {NULL} \cup Fraction,
     std_r : {NULL} \cup Fraction, r_coverage_count : Nat,
     insufficient_sample : BOOLEAN]

SortinoResult ==
    [sortino_ratio : {"defined", NULL}, mean_r : {NULL} \cup Fraction,
     downside_dev : {NULL} \cup Fraction, r_coverage_count : Nat,
     insufficient_sample : BOOLEAN, no_downside_trades : BOOLEAN]

-----------------------------------------------------------------------------
(* M-3 and N-4: expectancy.  The weighing of wins against losses is written *)
(* twice in the code, once for compute_expectancy and once for the Kelly    *)
(* fraction; WeighedR is the first.                                         *)

WeighedR(wins, losses, avgWin, avgLoss) ==
    LET n == Len(wins) + Len(losses)
    IN  IF avgWin # NULL /\ avgLoss # NULL
        THEN Minus(Times(<<Len(wins), n>>, avgWin), Times(<<Len(losses), n>>, avgLoss))
        ELSE IF avgWin # NULL THEN avgWin ELSE Minus(Zero, avgLoss)

compute_expectancy(wins, losses, total) ==
    LET n == Len(wins) + Len(losses)
        avgWin == IF wins = <<>> THEN NULL ELSE Mean(wins)
        avgLoss == IF losses = <<>> THEN NULL ELSE Magnitude(Mean(losses))
    IN  [expectancy_r |-> IF n = 0 THEN NULL ELSE WeighedR(wins, losses, avgWin, avgLoss),
         avg_r_win |-> avgWin, avg_r_loss |-> avgLoss,
         r_coverage_count |-> n, total_count |-> total,
         r_coverage_pct |-> Percent(n, total),
         insufficient_sample |-> n < MinSample]

-----------------------------------------------------------------------------
(* M-8: drawdown, in one pass over the cumulative curve.  The rupee figure  *)
(* kept is the one of the deepest percentage, and a peak that is not        *)
(* positive counts for nothing.                                             *)

\* Mutation: the deepest fall is the one of the largest amount.
DrawdownByAmount(a, pt) ==
    LET cum == pt.cumulative_net_pnl
        peak == IF cum > a.peak THEN cum ELSE a.peak
        pct == <<100 * (peak - cum), peak>>
        deeper == peak > 0 /\ peak - cum > a.inr
    IN  [peak |-> peak,
         pct |-> IF deeper THEN pct ELSE a.pct,
         inr |-> IF deeper THEN peak - cum ELSE a.inr,
         pcts |-> IF peak > 0 /\ cum < peak THEN Append(a.pcts, pct) ELSE a.pcts]

DrawdownStep(a, pt) ==
    LET cum == pt.cumulative_net_pnl
        peak == IF cum > a.peak THEN cum ELSE a.peak
        pct == <<100 * (peak - cum), peak>>
        deeper == peak > 0 /\ Less(IF a.pct = NULL THEN Zero ELSE a.pct, pct)
    IN  [peak |-> peak,
         pct |-> IF deeper THEN pct ELSE a.pct,
         inr |-> IF deeper THEN peak - cum ELSE a.inr,
         pcts |-> IF peak > 0 /\ cum < peak THEN Append(a.pcts, pct) ELSE a.pcts]

compute_drawdown_stats(curve) ==
    IF curve = <<>>
    THEN [max_drawdown_pct |-> NULL, max_drawdown_inr |-> NULL, avg_drawdown_pct |-> NULL,
          current_drawdown_pct |-> NULL, current_drawdown_inr |-> NULL]
    ELSE LET after[i \in 0..Len(curve)] ==
                 IF i = 0 THEN [peak |-> curve[1].cumulative_net_pnl, pct |-> NULL, inr |-> 0,
                                pcts |-> <<>>]
                 ELSE DrawdownStep(after[i - 1], curve[i])
             a == after[Len(curve)]
             last == Last(curve).cumulative_net_pnl
             under == a.peak > 0 /\ last < a.peak
         IN  [max_drawdown_pct |-> a.pct,
              max_drawdown_inr |-> IF a.pct = NULL THEN NULL ELSE a.inr,
              avg_drawdown_pct |-> FractionMean(a.pcts),
              current_drawdown_pct |->
                  IF under THEN <<100 * (a.peak - last), a.peak>> ELSE Zero,
              current_drawdown_inr |-> IF under THEN a.peak - last ELSE 0]

-----------------------------------------------------------------------------
(* M-12: streaks.  A streak is closed by a trade of the other sign or by a  *)
(* breakeven, and the last one stays open.                                  *)

StreakStep(a, pnl) ==
    [cw |-> IF pnl > 0 THEN a.cw + 1 ELSE 0,
     cl |-> IF pnl < 0 THEN a.cl + 1 ELSE 0,
     wins |-> IF pnl <= 0 /\ a.cw > 0 THEN Append(a.wins, a.cw) ELSE a.wins,
     losses |-> IF pnl >= 0 /\ a.cl > 0 THEN Append(a.losses, a.cl) ELSE a.losses]

compute_streak_stats(pnls) ==
    LET after[i \in 0..Len(pnls)] ==
            IF i = 0 THEN [cw |-> 0, cl |-> 0, wins |-> <<>>, losses |-> <<>>]
            ELSE StreakStep(after[i - 1], pnls[i])
        a == after[Len(pnls)]
        wins == IF a.cw > 0 THEN Append(a.wins, a.cw) ELSE a.wins
        losses == IF a.cl > 0 THEN Append(a.losses, a.cl) ELSE a.losses
        Longest(s) == Max({0} \cup {s[i] : i \in DOMAIN s})
        Usual(s) == IF s = <<>> THEN Zero ELSE Mean(s)
    IN  [current_win_streak |-> a.cw, current_loss_streak |-> a.cl,
         max_win_streak |-> Longest(wins), max_loss_streak |-> Longest(losses),
         avg_win_streak |-> Usual(wins), avg_loss_streak |-> Usual(losses)]

-----------------------------------------------------------------------------
(* M-8K and M-9K: Sharpe and Sortino.  "defined" stands for                 *)
(* mean / deviation * sqrt(252).                                            *)

compute_sharpe_ratio(rs) ==
    LET n == Len(rs)
    IN  [sharpe_ratio |-> IF n < MinSample \/ Variance(rs)[1] = 0 THEN NULL ELSE "defined",
         mean_r |-> IF n < MinSample THEN NULL ELSE Mean(rs),
         std_r |-> IF n < MinSample THEN NULL ELSE Variance(rs),
         r_coverage_count |-> n,
         insufficient_sample |-> n < MinSample]

Downside(rs) ==
    LET at == Enumerate({i \in DOMAIN rs : rs[i] < 0}, LAMBDA i, j : i < j)
    IN  [k \in DOMAIN at |-> rs[at[k]]]

compute_sortino_ratio(rs) ==
    LET n == Len(rs)
        down == Downside(rs)
        known == n >= MinSample
    IN  [sortino_ratio |-> IF known /\ down # <<>> /\ Variance(down)[1] # 0
                           THEN "defined" ELSE NULL,
         mean_r |-> IF known THEN Mean(rs) ELSE NULL,
         downside_dev |-> IF known /\ down # <<>> THEN Variance(down) ELSE NULL,
         r_coverage_count |-> n,
         insufficient_sample |-> ~known,
         no_downside_trades |-> known /\ down = <<>>]

-----------------------------------------------------------------------------
(* N-1: rolling expectancy over a series of [net_pnl, r_multiple, ...].     *)

RsWhere(points, Sign(_)) ==
    LET chosen == {i \in DOMAIN points : points[i].r_multiple # NULL /\ Sign(points[i].net_pnl)}
        at == Enumerate(chosen, LAMBDA i, j : i < j)
    IN  [k \in DOMAIN at |-> points[at[k]].r_multiple]

RollingExpR(points) ==
    compute_expectancy(RsWhere(points, LAMBDA x : x > 0), RsWhere(points, LAMBDA x : x < 0),
                       Len(points)).expectancy_r

compute_rolling_expectancy(points) ==
    IF Len(points) < Window
    THEN [insufficient_sample |-> TRUE, data |-> <<>>]
    ELSE [insufficient_sample |-> FALSE,
          data |-> [k \in 1..(Len(points) - Window + 1) |->
                      LET slice == SubSeq(points, k, k + Window - 1)
                      IN  [trade_index |-> k + Window - 1,
                           rolling_exp_r |-> RollingExpR(slice),
                           rolling_exp_inr |->
                               <<Total([i \in DOMAIN slice |-> slice[i].net_pnl]), Window>>]]]

-----------------------------------------------------------------------------
(* N-3: Monte Carlo.  random.choices is a choice of one resample per        *)
(* simulation: sims is the sequence of the resamples drawn.                 *)

Drawn(a, r) ==
    LET cum == a.cum + r
        peak == IF cum > a.peak THEN cum ELSE a.peak
        dd == IF peak > 0 THEN <<100 * (peak - cum), peak>> ELSE Zero
        losses == IF r < 0 THEN a.losses + 1 ELSE 0
    IN  [cum |-> cum, peak |-> peak, dd |-> IF Less(a.dd, dd) THEN dd ELSE a.dd,
         losses |-> losses, most |-> Max({a.most, losses}),
         ruined |-> cum <= RuinThreshold]

\* Mutation: a ruined simulation trades on.
SimStepTradesOn(a, r) == [Drawn(a, r) EXCEPT !.ruined = @ \/ a.ruined]

SimStep(a, r) == IF a.ruined THEN a ELSE Drawn(a, r)

Simulated(sim) ==
    LET after[i \in 0..Len(sim)] ==
            IF i = 0 THEN [cum |-> 0, peak |-> 0, dd |-> Zero, losses |-> 0, most |-> 0,
                           ruined |-> FALSE]
            ELSE SimStep(after[i - 1], sim[i])
    IN  after[Len(sim)]

\* The value at int(n * pct / 100), clamped to the last, of the n sorted values.
PercentileOf(sorted, pct) == sorted[Min({(Len(sorted) * pct) \div 100, Len(sorted) - 1}) + 1]

compute_monte_carlo(sims) ==
    LET n == Len(sims)
        ends == [i \in 1..n |-> Simulated(sims[i])]
        finals == Sorted([i \in 1..n |-> ends[i].cum], LAMBDA x, y : x < y)
        dds == Sorted([i \in 1..n |-> ends[i].dd], Less)
        streaks == Sorted([i \in 1..n |-> ends[i].most], LAMBDA x, y : x < y)
    IN  [median_final_r |-> PercentileOf(finals, 50),
         p5_final_r |-> PercentileOf(finals, 5),
         p95_final_r |-> PercentileOf(finals, 95),
         p5_max_drawdown_pct |-> PercentileOf(dds, 95),
         p1_max_drawdown_pct |-> PercentileOf(dds, 99),
         worst_max_drawdown_pct |-> Last(dds),
         risk_of_ruin_pct |-> Percent(Cardinality({i \in 1..n : ends[i].ruined}), n),
         p95_max_consecutive_losses |-> PercentileOf(streaks, 95)]
=============================================================================
