------------------------------ MODULE MCAnalytics ------------------------------
(***************************************************************************)
(* Four trades of one user on two accounts.  Their net results are +10,    *)
(* -6 or 0, +20 and -9, so a curve may climb, fall, recover and fall       *)
(* again, and the third deal may come before or after the second.          *)
(***************************************************************************)
EXTENDS Analytics

Charges(total) ==
    [brokerage |-> total - 1, stt |-> 0, exchange |-> 0, sebi |-> 0, stamp |-> 1,
     gst |-> 0, ipft |-> 0, total |-> total]

\* An equity day trade on the account "A".
DayTrade ==
    [id |-> 1, account_id |-> "A", trade_type |-> "MIS", instrument_type |-> "EQ",
     exchange_segment |-> "NSE_EQ", symbol |-> "INFY", direction |-> "LONG",
     setup_name |-> NULL, trade_date |-> 1, first_fill_at |-> 2010, last_fill_at |-> 2025,
     average_entry |-> 100, planned_stop |-> 98, planned_target |-> 104,
     planned_risk_amount |-> 4, exits |-> {[at |-> 2025, exit_type |-> "MANUAL"]},
     gross |-> 12, charges |-> Charges(2), rs |-> {NULL, 2}, broker |-> "ZERODHA",
     status |-> "OPEN", is_deleted |-> FALSE, pnl |-> NULL]

\* Two sides of a second day: a loss, or a trade that comes out even.
SecondDay ==
    {[DayTrade EXCEPT !.id = 2, !.trade_date = 2, !.first_fill_at = 3510, !.last_fill_at = 3540,
        !.direction = "SHORT", !.gross = -4, !.rs = {-1}, !.setup_name = "orb",
        !.exits = {}, !.planned_stop = 103],
     [DayTrade EXCEPT !.id = 2, !.trade_date = 3, !.first_fill_at = 4800, !.last_fill_at = 5070,
        !.gross = 2, !.rs = {0}, !.planned_risk_amount = NULL, !.planned_target = NULL,
        !.exits = {[at |-> 4900, exit_type |-> NULL], [at |-> 5070, exit_type |-> "SL_HIT"]}]}

\* A future carried over nights on the account "B".
Carried ==
    [DayTrade EXCEPT !.id = 3, !.account_id = "B", !.trade_type = "NRML_FUT", !.instrument_type = "FUT",
        !.exchange_segment = "NSE_FO", !.symbol = "NIFTY", !.trade_date = 2,
        !.first_fill_at = 3400, !.last_fill_at = 13600, !.gross = 23, !.charges = Charges(3),
        !.rs = {3}, !.setup_name = "orb", !.broker = "UPSTOX", !.status = "PARTIAL",
        !.exits = {[at |-> 13600, exit_type |-> "EXPIRY_SQUAREOFF"]}]

LastDay ==
    [DayTrade EXCEPT !.id = 4, !.trade_date = 3, !.first_fill_at = 4890, !.last_fill_at = 4900,
        !.gross = -7, !.rs = {-2}, !.setup_name = "fade", !.planned_stop = 100]

MCProfile == <<{DayTrade}, SecondDay, {Carried}, {LastDay}>>

MCRuinThreshold == -2

MCCapital == [a \in {"A", "B"} |-> IF a = "A" THEN 1000 ELSE NULL]

Everything ==
    [date_from |-> NULL, date_to |-> NULL, account_ids |-> {}, instrument_types |-> {},
     exchange_segments |-> {}, trade_types |-> {}, directions |-> {}, setup_names |-> {},
     brokers |-> {}]

MCFilters ==
    {Everything,
     [Everything EXCEPT !.instrument_types = {"FUT"}, !.date_from = 2],
     [Everything EXCEPT !.account_ids = {"A"}, !.exchange_segments = {"NSE_EQ"},
                        !.setup_names = {"orb", "fade"}]}
=============================================================================
