------------------------------ MODULE PaperExecutor ------------------------------
(***************************************************************************)
(* The paper trading executor and its risk manager                         *)
(* (src/src/execution/executor.py, src/src/risk/manager.py).  The worker   *)
(* builds both afresh in every cycle, restores the executor from the saved *)
(* book, and throws them away when the cycle ends, so that the state of    *)
(* the two is one record ex:                                               *)
(*   cash, pos (symbol -> quantity), avg (symbol -> average price),        *)
(*   day_start (day_start_equity), peak, anchor ({_current_day}, or {}),   *)
(*   kill (kill_switch_enabled of either).                                 *)
(* The worker never calls mark_to_market: an open position is valued at    *)
(* its average price.  Both read date and time of a bar off the bar's own  *)
(* clock, which is UTC for the bars of Alpaca and the market's for the     *)
(* others.                                                                 *)
(***************************************************************************)
EXTENDS TradingRules, FiniteSetsExt

CONSTANTS Symbols,
          UtcAhead         \* buckets by which the bars' clock is ahead of the market's

ASSUME ExecutorAssumption == UtcAhead \in Nat

\* The sum of a function's values.
Total(v) == MapThenSumSet(LAMBDA x : v[x], DOMAIN v)

Open(ex) == {s \in Symbols : ex.pos[s] > 0}
active_positions(ex) == Cardinality(Open(ex))

\* The money in the positions, at their average price.
gross_exposure(ex) == Total([s \in Symbols |-> ex.pos[s] * ex.avg[s]])
current_equity(ex) == ex.cash + gross_exposure(ex)

\* current_equity() also raises _peak_equity.
WithPeak(ex) == [ex EXCEPT !.peak = GreatestOf(ex.peak, current_equity(ex))]

\* restore_state of a new executor from the book, with the persisted kill switch.
restore_state(book, kill) ==
    [cash |-> book.cash, pos |-> book.pos, avg |-> book.avg, day_start |-> book.day_start,
     peak |-> book.peak, anchor |-> {}, kill |-> kill]

\* snapshot_state, what is saved of it.
snapshot_state(ex) ==
    [cash |-> ex.cash, pos |-> ex.pos, avg |-> ex.avg, day_start |-> ex.day_start, peak |-> ex.peak]

\* _update_day_anchor: an order whose bar is of another date than the last order's, be it an
\* earlier one, or the first of this executor, takes the equity as the day's start.
BarDate(o) == MarketDate(o.bar_time + UtcAhead)
DayAnchor(ex, o) ==
    IF ex.anchor = {BarDate(o)} THEN ex
    ELSE [WithPeak(ex) EXCEPT !.anchor = {BarDate(o)}, !.day_start = current_equity(ex)]

\* _trigger_drawdown_kill_switch: the drawdown from the peak reaches 30 %.
MaxDrawdownPct == 30
DrawdownBreached(ex) ==
    ex.peak > 0 /\ (ex.peak - current_equity(ex)) * 100 >= MaxDrawdownPct * ex.peak

DailyLossBreached(ex, S) == current_equity(ex) - ex.day_start <= 0 - S.max_daily_loss

\* Exposure of the order's symbol, and of all, once it is filled.
ProjectedSymbol(ex, o) ==
    IF o.side = "BUY" THEN ex.pos[o.symbol] * ex.avg[o.symbol] + o.quantity * o.price
    ELSE GreatestOf(ex.pos[o.symbol] * ex.avg[o.symbol] - o.quantity * o.price, 0)
\* Mutant: the exposure before the order.
CurrentGross(ex, o) == gross_exposure(ex)

ProjectedGross(ex, o) ==
    IF o.side = "BUY" THEN gross_exposure(ex) + o.quantity * o.price
    ELSE GreatestOf(gross_exposure(ex) - o.quantity * o.price, 0)

\* The risk manager compares trading hours, which are the market's, with the bar's own clock.
OutsideTradingHours(o, S) ==
    /\ ~(S.allow_after_hours \/ S.extended_hours_enabled)
    /\ TimeOfDay(o.bar_time + UtcAhead) \notin TradingStart..TradingEnd

\* RiskManager.validate_order: the reasons against an order, buy or sell.
validate_order(ex, o, S) ==
    When(ex.kill, "kill_switch_enabled")
    \cup When(DrawdownBreached(ex), "max_drawdown_exceeded")
    \cup When(current_equity(ex) <= 0, "non_positive_equity")
    \cup When(DailyLossBreached(ex, S), "max_daily_loss_exceeded")
    \cup When(OutsideTradingHours(o, S), "outside_trading_hours")
    \cup When(ProjectedSymbol(ex, o) * 100 > S.max_position_pct * current_equity(ex),
              "max_position_size_exceeded")
    \cup When(ProjectedGross(ex, o) * 100 > EffectiveMaxGrossPct(S) * current_equity(ex),
              "max_gross_exposure_exceeded")
    \cup When(/\ o.side = "BUY" /\ ex.pos[o.symbol] = 0
              /\ active_positions(ex) >= EffectiveMaxOpenPositions(S),
              "max_open_positions_exceeded")

\* _apply_fill.
apply_fill(ex, o) ==
    LET held == ex.pos[o.symbol]
    IN IF o.side = "BUY"
       THEN [ex EXCEPT
                !.cash = @ - o.quantity * o.price,
                !.pos[o.symbol] = held + o.quantity,
                !.avg[o.symbol] = (held * @ + o.quantity * o.price) \div (held + o.quantity)]
       ELSE LET closed == LeastOf(o.quantity, held)
            IN [ex EXCEPT
                !.cash = @ + closed * o.price,
                !.pos[o.symbol] = held - closed,
                !.avg[o.symbol] = IF held = closed THEN 0 ELSE @]

\* The daily loss cap, checked after a fill, trips the kill switch.
LossCapBreached(ex, S) == current_equity(ex) <= ex.day_start - S.executor_daily_loss_cap

\* What submit_order refuses before it looks at the portfolio.
Inadmissible(ex, o) ==
    \/ ex.kill \/ o.quantity <= 0 \/ o.price <= 0
    \/ o.extended_hours /\ ~o.limit

Rejected(ex) == [ex |-> ex, status |-> "REJECTED"]

\* submit_order: the executor afterwards, and the order's status.
submit_order(ex, o, S) ==
    LET anchored == WithPeak(DayAnchor(ex, o))
        reasons == validate_order(anchored, o, S)
        tripped == \/ DrawdownBreached(anchored) \/ DailyLossBreached(anchored, S)
        filled == WithPeak(apply_fill(anchored, o))
    IN IF Inadmissible(ex, o) THEN Rejected(ex)
       ELSE IF \/ o.quantity * o.price > S.max_notional_per_trade
               \/ /\ o.side = "BUY" /\ ex.pos[o.symbol] = 0
                  /\ active_positions(ex) >= EffectiveMaxOpenPositions(S)
            THEN Rejected(DayAnchor(ex, o))
       ELSE IF reasons # {} THEN Rejected([anchored EXCEPT !.kill = @ \/ tripped])
       ELSE [ex |-> [filled EXCEPT !.kill = @ \/ LossCapBreached(filled, S)],
             status |-> "FILLED"]
=============================================================================
