------------------------------ MODULE TradingRules ------------------------------
(***************************************************************************)
(* The rules the trading worker decides by, as functions of the market and *)
(* of its settings: sessions (src/src/trading/session.py), the filters of  *)
(* the universe scan (src/src/worker/universe.py) and of each strategy     *)
(* (strategy_filters.py), the regime gate, position sizing and risk caps   *)
(* (gating.py, sizing.py, risk_policy.py), and the strategy selector       *)
(* (src/src/selection/selector.py).                                        *)
(*                                                                         *)
(* Time is counted in poll buckets of the worker; a market day has         *)
(* DayLength of them.  Money and quantities are integers; multipliers and  *)
(* shares of equity are percents.  What the indicator code computes from   *)
(* bars (a signal, a regime, a volume ratio) is a field of the "bar" a     *)
(* symbol shows in a cycle.  Every operator takes the settings S of the    *)
(* deployment, whose fields have the names of the code.                    *)
(***************************************************************************)
EXTENDS Integers, Sequences, FiniteSets

CONSTANTS
    DayLength,          \* buckets in a market day
    PremarketStart,     \* bucket of the day: premarket_start,
    TradingStart,       \* ... trading_start,
    TradingEnd,         \* ... trading_end (its bucket still belongs to the session),
    AfterhoursEnd,      \* ... afterhours_end
    Weekend             \* the market days on which the market is closed

ASSUME RulesAssumption ==
    /\ DayLength \in Nat \ {0}
    /\ {PremarketStart, TradingStart, TradingEnd, AfterhoursEnd} \subseteq 0..DayLength
    /\ PremarketStart <= TradingStart /\ TradingStart <= TradingEnd
    /\ TradingEnd <= AfterhoursEnd
    /\ Weekend \subseteq Nat

\* The reason, if the condition holds: the rules collect sets of reasons.
When(condition, reason) == IF condition THEN {reason} ELSE {}

-----------------------------------------------------------------------------
(* Sessions.                                                               *)

TimeOfDay(t) == t % DayLength
MarketDate(t) == t \div DayLength

SessionContext(state, can_open, multiplier, reason) ==
    [state |-> state, can_open |-> can_open, size_multiplier |-> multiplier, reason |-> reason]

ExtendedSessions == {"premarket_session", "afterhours_session", "overnight_session"}

\* _extended_context: outside regular hours only what is enabled and supported opens.
ExtendedContext(state, enabled, supported, multiplier) ==
    CASE enabled /\ supported -> SessionContext(state, TRUE, multiplier, "none")
      [] enabled /\ ~supported -> SessionContext(state, FALSE, 0, "extended_hours_unsupported")
      [] ~enabled -> SessionContext(state, FALSE, 0, "extended_hours_disabled")

classify_trading_session(t, S, supported) ==
    LET tod == TimeOfDay(t)
        enabled == S.extended_hours_enabled \/ S.allow_after_hours
    IN CASE MarketDate(t) \in Weekend ->
                SessionContext("closed_session", FALSE, 0, "weekend_closed")
         [] MarketDate(t) \notin Weekend /\ tod \in TradingStart..TradingEnd ->
                SessionContext("regular_session", TRUE, 100, "none")
         [] MarketDate(t) \notin Weekend /\ tod \in PremarketStart..(TradingStart - 1) ->
                ExtendedContext("premarket_session", enabled, supported, 50)
         [] MarketDate(t) \notin Weekend /\ tod \in (TradingEnd + 1)..AfterhoursEnd ->
                ExtendedContext("afterhours_session", enabled, supported, 50)
         [] OTHER -> ExtendedContext("overnight_session",
                        enabled /\ S.overnight_trading_enabled, supported, 25)

\* The worker counts allow_after_hours as broker support; the scanner only
\* when extended_hours_enabled is off.
WorkerSession(t, S) ==
    classify_trading_session(t, S, S.broker_extended_hours_supported \/ S.allow_after_hours)
ScannerSession(t, S) ==
    classify_trading_session(t, S, \/ S.broker_extended_hours_supported
                                   \/ S.allow_after_hours /\ ~S.extended_hours_enabled)

buckets_until_regular_session_end(t) == TradingEnd - TimeOfDay(t)

\* _should_force_flatten: the last buckets of the session close every position.
ShouldForceFlatten(t, S) ==
    /\ S.force_flatten_before_session_end /\ ~S.allow_overnight_positions
    /\ WorkerSession(t, S).state = "regular_session"
    /\ buckets_until_regular_session_end(t) \in 0..S.flatten_buffer

-----------------------------------------------------------------------------
(* Universe scan.  A bar is what one symbol shows in a cycle: price, avg   *)
(* and relative volume, spread, candidate score and move, age in buckets,  *)
(* regimes, and the strategies that signal.                                *)

\* _assess_bar_freshness, for an intraday timeframe.
FreshnessReason(bar, t, S) ==
    LET session == ScannerSession(t, S)
        same_day == MarketDate(t - bar.age) = MarketDate(t)
    IN CASE S.only_open_in_market_hours /\ ~session.can_open -> session.reason
         [] ~(S.only_open_in_market_hours /\ ~session.can_open) /\ bar.age > S.stale_age ->
                IF session.can_open /\ same_day THEN "missing_recent_bar" ELSE "stale_market_data"
         [] OTHER -> "none"

FilterReasons(bar, t, S) ==
    When(bar.price < S.min_price, "below_min_price")
    \cup When(bar.average_volume < S.min_avg_volume, "below_min_avg_volume")
    \cup When(S.enforce_relative_volume_filter /\ bar.relative_volume < S.min_relative_volume,
              "below_min_relative_volume")
    \cup When(bar.spread_pct > S.max_spread_pct, "spread_above_max")
    \cup (IF FreshnessReason(bar, t, S) = "none" THEN {} ELSE {FreshnessReason(bar, t, S)})

\* _rank_symbols, mode by mode; ties go to the order of the symbols.
RankKey(bar, S) ==
    CASE S.universe_mode = "top_gainers" -> <<bar.percent_move, bar.candidate_score>>
      [] S.universe_mode = "top_losers" -> <<0 - bar.percent_move, bar.candidate_score>>
      [] S.universe_mode = "high_relative_volume" -> <<bar.relative_volume, bar.candidate_score>>
      [] OTHER -> <<bar.candidate_score, bar.relative_volume>>

RanksBefore(a, b, bars, order, S) ==
    LET ka == RankKey(bars[a], S)  kb == RankKey(bars[b], S)
    IN \/ ka[1] > kb[1]
       \/ ka[1] = kb[1] /\ ka[2] > kb[2]
       \/ ka = kb /\ order[a] < order[b]

\* scan: the symbols that pass the filters and rank among the first max_candidates.
Shortlist(bars, order, t, S) ==
    LET eligible == {s \in DOMAIN bars : bars[s].loads /\ FilterReasons(bars[s], t, S) = {}}
    IN {s \in eligible :
          Cardinality({r \in eligible : RanksBefore(r, s, bars, order, S)}) < S.max_candidates}

-----------------------------------------------------------------------------
(* Strategy filters and the regime gate.                                   *)

Breakouts == {"breakout_momentum", "breakout_momentum_intraday"}
Intraday == {"breakout_momentum_intraday", "opening_range_breakout", "vwap_reclaim_intraday",
             "pullback_trend_continuation", "mean_reversion_scalp"}
RegularOnly == {"breakout_momentum", "moving_average_crossover", "rsi_mean_reversion",
                "vwap_mean_reversion", "opening_range_breakout"}

AllowedSessions(strategy) ==
    {"regular_session"}
    \cup (IF strategy \in Intraday \ RegularOnly
          THEN {"premarket_session", "afterhours_session"} ELSE {})
    \cup (IF strategy = "breakout_momentum_intraday" THEN {"overnight_session"} ELSE {})

\* _strategy_min_relative_volume, in percents; no minimum for the others.
MinRelativeVolume(strategy, state) ==
    CASE strategy \in Breakouts -> IF state \in ExtendedSessions THEN 150 ELSE 120
      [] strategy = "opening_range_breakout" -> 110
      [] strategy = "pullback_trend_continuation" -> 60
      [] strategy \in {"vwap_reclaim_intraday", "vwap_mean_reversion"} -> 40
      [] OTHER -> 0

evaluate_strategy_filters(strategy, bar, state, S) ==
    LET extended == state \in ExtendedSessions
    IN When(state \notin AllowedSessions(strategy), "strategy_session_not_allowed")
       \cup When(extended /\ ~(S.broker_extended_hours_supported \/ S.allow_after_hours),
                 "extended_hours_unsupported")
       \cup When(extended /\ bar.spread_pct > S.max_spread_pct, "extended_hours_spread_too_wide")
       \cup When(state = "overnight_session" /\ bar.average_volume < S.overnight_min_avg_volume,
                 "overnight_liquidity_too_low")
       \cup When(bar.relative_volume < MinRelativeVolume(strategy, state),
                 "strategy_relative_volume_below_threshold")

MeanReversion == {"rsi_mean_reversion", "vwap_mean_reversion", "mean_reversion_scalp"}

\* gate_trade_intent: {} if the market regime lets the strategy open a long position.
GateReasons(strategy, market, S) ==
    CASE market = "unknown" -> {"regime_unknown"}
      [] market # "unknown" /\ strategy = "moving_average_crossover" ->
            {"strategy_reserved_for_regime_filter"}
      [] market = "bullish" /\ strategy # "moving_average_crossover" ->
            When(strategy = "rsi_mean_reversion" /\ ~S.allow_rsi_in_bullish,
                 "rsi_blocked_in_bullish_regime")
      [] market = "sideways" /\ strategy # "moving_average_crossover" ->
            When(strategy \in Breakouts \cup {"opening_range_breakout"},
                 "breakout_blocked_in_sideways_regime")
            \cup When(strategy = "pullback_trend_continuation", "strategy_blocked_by_regime")
      [] market = "bearish" /\ strategy # "moving_average_crossover" ->
            IF ~S.allow_bearish_mean_reversion THEN {"long_entries_blocked_in_bearish_regime"}
            ELSE When(strategy \notin MeanReversion, "mean_reversion_blocked_in_bearish_regime")

RegimeMultiplier(market, S) ==
    CASE market = "bullish" -> S.bullish_multiplier
      [] market = "sideways" -> S.sideways_multiplier
      [] OTHER -> S.bearish_multiplier

-----------------------------------------------------------------------------
(* Sizing and risk caps.  account: equity, day_start, gross, active.       *)

LeastOf(a, b) == IF a < b THEN a ELSE b
GreatestOf(a, b) == IF a > b THEN a ELSE b

\* The stop lies stop_loss_pct below the entry, which is what a share risks.
RiskPerShare(price, S) == (price * S.stop_loss_pct) \div 100

RawQuantity(price, multiplier, account, S) ==
    (account.equity * S.risk_per_trade_pct * multiplier) \div (10000 * RiskPerShare(price, S))

ExposureQuantity(price, account, S) ==
    GreatestOf((account.equity * S.max_portfolio_exposure_pct) \div 100 - account.gross, 0) \div price

\* calculate_position_size: 0 stands for every rejection.
calculate_position_size(price, multiplier, account, S) ==
    IF \/ account.equity <= 0 \/ account.active >= S.max_concurrent_positions
       \/ S.stop_loss_pct \notin 1..99 \/ RiskPerShare(price, S) = 0
    THEN 0
    ELSE LeastOf(RawQuantity(price, multiplier, account, S), ExposureQuantity(price, account, S))

evaluate_risk_policy(account, notional, S) ==
    When(account.equity <= 0 \/ account.day_start <= 0, "missing_account_equity")
    \cup When(/\ account.equity > 0 /\ account.day_start > 0
              /\ (account.day_start - account.equity) * 100
                    >= S.daily_drawdown_limit_pct * account.day_start,
              "daily_drawdown_limit_exceeded")
    \cup When(account.active >= S.max_concurrent_positions, "max_concurrent_positions_exceeded")
    \cup When(S.stop_loss_pct \notin 1..99, "invalid_stop_configuration")
    \cup When(/\ account.equity > 0
              /\ (account.gross + notional) * 100 > account.equity * S.max_portfolio_exposure_pct,
              "max_portfolio_exposure_exceeded")

\* With sizing or caps on, their limits replace the executor's own.
EffectiveMaxOpenPositions(S) ==
    IF S.enable_position_sizing \/ S.enable_risk_caps THEN S.max_concurrent_positions
    ELSE S.max_open_positions
EffectiveMaxGrossPct(S) ==
    IF S.enable_position_sizing \/ S.enable_risk_caps THEN S.max_portfolio_exposure_pct ELSE 100

-----------------------------------------------------------------------------
(* The strategy selector.                                                  *)

CompatibleRegimes(strategy) ==
    (IF strategy \in {"rsi_mean_reversion", "vwap_mean_reversion", "mean_reversion_scalp"}
     THEN {"mean_reverting"} ELSE {"trending"})
    \cup (IF strategy \in {"breakout_momentum", "vwap_mean_reversion", "pullback_trend_continuation"}
          THEN {} ELSE {"neutral"})

\* _regime_fit, in percent.
RegimeFit(strategy, regime) ==
    LET compatible == CompatibleRegimes(strategy)
    IN CASE regime \in compatible -> 100
         [] regime \notin compatible /\ regime = "neutral" -> 60
         [] regime \notin compatible /\ regime # "neutral" ->
                IF "neutral" \in compatible THEN 55 ELSE 20

\* The score times 10000.  metrics: trades, expectancy (money) and win_rate (percent)
\* of the strategy's closed trades; their Sharpe ratio and drawdown are left out.
Score(metrics, fit) == 3500 * metrics.expectancy + 15 * metrics.win_rate + 15 * fit

MinScore == 500
MediocreScore == 2000

\* _evaluate_candidate: why a candidate is not eligible.  global: the gates of
\* _build_global_selection_state; c: one candidate of _build_strategy_candidates.
\* Left out: the two gates that repeat run_once's skip conditions, and
\* required_market_data_missing, which always comes with a signal of 0.
CandidateReasons(c, regime, global) ==
    c.external
    \cup When(~c.enabled, "strategy_disabled")
    \cup When(global.kill, "kill_switch_enabled")
    \cup When(c.metrics.trades < global.min_recent_trades, "insufficient_recent_trades")
    \cup When(c.metrics.expectancy < 0, "recent_expectancy_below_threshold")
    \cup When(~global.risk_budget, "insufficient_risk_budget")
    \cup When(global.max_positions, "max_open_positions_breached")
    \cup When(~c.signal, "no_active_signal")
    \cup When(RegimeFit(c.strategy, regime) < 50, "regime_incompatible")

CandidateScore(c, regime) == Score(c.metrics, RegimeFit(c.strategy, regime))

Qualified(candidates, regime, global) ==
    {c \in candidates : /\ CandidateReasons(c, regime, global) = {}
                        /\ CandidateScore(c, regime) >= MinScore}

\* select: the best score, by name among equals; "none" if no candidate qualifies.
select(candidates, regime, global, order) ==
    LET qualified == Qualified(candidates, regime, global)
        best == {c \in qualified : \A d \in qualified \ {c} :
                    \/ CandidateScore(c, regime) > CandidateScore(d, regime)
                    \/ /\ CandidateScore(c, regime) = CandidateScore(d, regime)
                       /\ order[c.strategy] < order[d.strategy]}
    IN IF best = {} THEN [strategy |-> "none", multiplier |-> 0]
       ELSE LET c == CHOOSE b \in best : TRUE
            IN [strategy |-> c.strategy,
                multiplier |-> IF CandidateScore(c, regime) < MediocreScore THEN 50 ELSE 100]
=============================================================================
