-------------------------------- MODULE Charges --------------------------------
(***************************************************************************)
(* What a closed trade has earned: the pure functions of domain/pnl and    *)
(* the lookup of the charge schedule in force on the trade's date.         *)
(*                                                                         *)
(* An amount of money is an integer, in units of the 4 decimals that are   *)
(* stored; a rate is a numerator over RateScale (8 decimals in the code);  *)
(* an R-multiple is counted in units of 1 / RScale (6 decimals).           *)
(* Quantities are whole, so a turnover is exact and so is the gross P&L.   *)
(***************************************************************************)
EXTENDS Integers, FiniteSets

CONSTANTS RateScale, RScale, NULL

ASSUME ChargesAssumption ==
    /\ RateScale \in Nat \ {0}
    /\ RScale \in Nat \ {0}

Abs(n) == IF n < 0 THEN -n ELSE n
Lesser(a, b) == IF a < b THEN a ELSE b

\* quantize(..., ROUND_HALF_UP) of the fraction n / d: ties go away from zero.
RoundHalfUp(n, d) ==
    LET size == (2 * Abs(n) + d) \div (2 * d)
    IN  IF n < 0 THEN -size ELSE size

\* The CHECK constraints of charge_schedules.
Brokers == {"ZERODHA", "UPSTOX", "ANGEL_ONE", "MANUAL"}
TradeTypes == {"MIS", "CNC", "CNC_SAME_DAY", "NRML_FUT", "NRML_OPT"}
Segments == {"NSE_EQ", "NSE_FO", "BSE_EQ"}
BrokerageTypes == {"ZERO", "FLAT", "PERCENT_CAP"}

\* charge_schedules; the columns a brokerage type does not use are NULL.
ChargeScheduleRow ==
    [broker: Brokers, trade_type: TradeTypes, exchange_segment: Segments, effective_from: Nat,
     brokerage_type: BrokerageTypes, brokerage_flat_per_order: Nat \cup {NULL},
     brokerage_pct: Nat \cup {NULL}, brokerage_cap_per_order: Nat \cup {NULL},
     stt_buy_rate: Nat, stt_sell_rate: Nat, exchange_charge_rate: Nat,
     sebi_charge_rate: Nat, stamp_duty_rate: Nat, gst_rate: Nat, ipft_rate: Nat]

BrokerageColumns(cs) ==
    /\ (cs.brokerage_flat_per_order # NULL) <=> (cs.brokerage_type = "FLAT")
    /\ (cs.brokerage_pct # NULL) <=> (cs.brokerage_type = "PERCENT_CAP")
    /\ (cs.brokerage_cap_per_order # NULL) <=> (cs.brokerage_type = "PERCENT_CAP")

LookupKey(cs) == <<cs.broker, cs.trade_type, cs.exchange_segment, cs.effective_from>>

Candidates(schedules, trade) ==
    {cs \in schedules : /\ cs.broker = trade.broker
                        /\ cs.trade_type = trade.trade_type
                        /\ cs.exchange_segment = trade.exchange_segment}

Latest(rows) ==
    IF rows = {} THEN NULL
    ELSE CHOOSE cs \in rows : \A other \in rows : other.effective_from <= cs.effective_from

\* Mutation: a schedule counts only from the day after it takes effect.
ScheduleOfDayBefore(schedules, trade) ==
    Latest({cs \in Candidates(schedules, trade) : cs.effective_from < trade.trade_date})

\* The row with the latest effective_from not after the trade's date, or NULL.
get_for_date(schedules, trade) ==
    Latest({cs \in Candidates(schedules, trade) : cs.effective_from <= trade.trade_date})

----------------------------------------------------------------------------
(* The calculator. *)

\* Brokerage of one order, over RateScale.
\* Mutation: the cap is per trade, half of it for each order.
BrokerageCappedPerTrade(turnover, cs) ==
    CASE cs.brokerage_type = "ZERO" -> 0
      [] cs.brokerage_type = "FLAT" -> cs.brokerage_flat_per_order * RateScale
      [] cs.brokerage_type = "PERCENT_CAP" ->
            Lesser(cs.brokerage_pct * turnover, (cs.brokerage_cap_per_order * RateScale) \div 2)

BrokeragePerSide(turnover, cs) ==
    CASE cs.brokerage_type = "ZERO" -> 0
      [] cs.brokerage_type = "FLAT" -> cs.brokerage_flat_per_order * RateScale
      [] cs.brokerage_type = "PERCENT_CAP" ->
            Lesser(cs.brokerage_pct * turnover, cs.brokerage_cap_per_order * RateScale)

compute_gross_pnl(trade) ==
    IF trade.direction = "LONG"
    THEN (trade.average_exit - trade.average_entry) * trade.total_entry_quantity
    ELSE (trade.average_entry - trade.average_exit) * trade.total_entry_quantity

Components == {"brokerage", "stt", "exchange_charges", "sebi_charges",
               "stamp_duty", "gst", "ipft"}

TotalCharges(c) ==
    c.brokerage + c.stt + c.exchange_charges + c.sebi_charges
        + c.stamp_duty + c.gst + c.ipft

\* Seven components at full precision, each rounded once on its own; the
\* total is summed again from the rounded ones.
compute_charges(trade, cs) ==
    LET entry == trade.average_entry * trade.total_entry_quantity
        exit  == trade.average_exit * trade.total_entry_quantity
        both  == entry + exit
        brokerage == BrokeragePerSide(entry, cs) + BrokeragePerSide(exit, cs)
        exchange  == cs.exchange_charge_rate * both
        sebi      == cs.sebi_charge_rate * both
        Stored(n) == RoundHalfUp(n, RateScale)
    IN  [brokerage |-> Stored(brokerage),
         stt |-> Stored(cs.stt_buy_rate * entry + cs.stt_sell_rate * exit),
         exchange_charges |-> Stored(exchange),
         sebi_charges |-> Stored(sebi),
         stamp_duty |-> Stored(cs.stamp_duty_rate * entry),
         gst |-> RoundHalfUp(cs.gst_rate * (brokerage + exchange + sebi),
                             RateScale * RateScale),
         ipft |-> Stored(cs.ipft_rate * both)]

\* net_pnl / planned_risk_amount, or NULL when the risk is unknown or zero.
compute_r_multiple(net_pnl, planned_risk_amount) ==
    IF planned_risk_amount \in {NULL, 0} THEN NULL
    ELSE RoundHalfUp(net_pnl * RScale, planned_risk_amount)

\* The row of trade_pnl for a closed trade.
compute_pnl(trade, risk, cs) ==
    LET charges == compute_charges(trade, cs)
        gross   == compute_gross_pnl(trade)
        net     == gross - TotalCharges(charges)
    IN  [gross_pnl |-> gross, net_pnl |-> net, charges |-> charges,
         total_charges |-> TotalCharges(charges),
         r_multiple |-> compute_r_multiple(net, risk), schedule |-> LookupKey(cs)]

----------------------------------------------------------------------------
(* The same charges as a statute would state them: what each of the two    *)
(* orders is charged, exactly, over RateScale squared.                     *)

ExactCharges(trade, cs) ==
    LET Brokerage(turnover) ==
            CASE cs.brokerage_pct # NULL ->
                    Lesser(cs.brokerage_pct * turnover, cs.brokerage_cap_per_order * RateScale)
              [] cs.brokerage_flat_per_order # NULL -> cs.brokerage_flat_per_order * RateScale
              [] OTHER -> 0
        Order(price, own_rates) ==
            LET turnover == price * trade.total_entry_quantity
                fees == Brokerage(turnover)
                        + (cs.exchange_charge_rate + cs.sebi_charge_rate) * turnover
            IN  RateScale * (fees + (own_rates + cs.ipft_rate) * turnover)
                + cs.gst_rate * fees
    IN  Order(trade.average_entry, cs.stt_buy_rate + cs.stamp_duty_rate)
        + Order(trade.average_exit, cs.stt_sell_rate)
================================================================================
