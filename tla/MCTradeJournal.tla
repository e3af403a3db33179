----------------------------- MODULE MCTradeJournal -----------------------------
(***************************************************************************)
(* Prices a few units apart and rates of 1 to 18 hundredths, so charges    *)
(* have halves to round and a brokerage cap that one side may reach.       *)
(***************************************************************************)
EXTENDS TradeJournal

Nothing ==
    [broker |-> "MANUAL", trade_type |-> "MIS", exchange_segment |-> "NSE_EQ",
     effective_from |-> 1, brokerage_type |-> "ZERO", brokerage_flat_per_order |-> NULL,
     brokerage_pct |-> NULL, brokerage_cap_per_order |-> NULL, stt_buy_rate |-> 0,
     stt_sell_rate |-> 0, exchange_charge_rate |-> 0, sebi_charge_rate |-> 0,
     stamp_duty_rate |-> 0, gst_rate |-> 0, ipft_rate |-> 0]

\* Intraday rates of a broker, a share of the turnover up to a cap ...
Capped ==
    [Nothing EXCEPT !.broker = "ZERODHA", !.brokerage_type = "PERCENT_CAP",
        !.brokerage_pct = 3, !.brokerage_cap_per_order = 4, !.stt_sell_rate = 5,
        !.exchange_charge_rate = 2, !.sebi_charge_rate = 1, !.stamp_duty_rate = 1,
        !.gst_rate = 18, !.ipft_rate = 1]

\* ... and, from the second day, a flat fee and a tax on both sides.
FlatFee ==
    [Capped EXCEPT !.effective_from = 2, !.brokerage_type = "FLAT", !.brokerage_pct = NULL,
        !.brokerage_cap_per_order = NULL, !.brokerage_flat_per_order = 2, !.stt_buy_rate = 5]

MCMigrations == <<{Capped, FlatFee}, {Nothing}>>
================================================================================
