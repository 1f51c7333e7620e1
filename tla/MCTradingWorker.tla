---------------------------- MODULE MCTradingWorker ----------------------------
(* Instances of TradingWorker small enough for TLC: the worker_*.cfg files. *)
EXTENDS TradingWorker

MCOrder == [n \in {"AAA", "BBB", "breakout_momentum", "mean_reversion_scalp"} |->
               CASE n = "AAA" -> 1 [] n = "BBB" -> 2 [] n = "breakout_momentum" -> 3 [] OTHER -> 4]

Bar(price, regime, market, signalling) ==
    [loads |-> TRUE, price |-> price, average_volume |-> 9, relative_volume |-> 160,
     spread_pct |-> 0, candidate_score |-> price, percent_move |-> 0, age |-> 0,
     regime |-> regime, market |-> market, signals |-> signalling]

\* A breakout, a fall without a signal, an oversold dip on the last bucket's bar, a stale
\* market, no data.
Breakout == Bar(10, "trending", "bullish", {"breakout_momentum", "mean_reversion_scalp"})
Fall == Bar(8, "trending", "bearish", {})
Dip == [Bar(10, "mean_reverting", "sideways", {"mean_reversion_scalp"}) EXCEPT !.age = 1]
Stale == [Bar(8, "neutral", "unknown", {"mean_reversion_scalp"}) EXCEPT !.age = 2]
Missing == [Fall EXCEPT !.loads = FALSE]

\* The active profile: configured quantities, regular hours only.
Active ==
    [execution_profile |-> "active_day_trader", worker_enable_trading |-> TRUE,
     paper_trading_enabled |-> TRUE, worker_dry_run |-> FALSE, kill_switch_on_startup |-> FALSE,
     allow_multi_strategy |-> FALSE, universe_mode |-> "static", max_candidates |-> 2,
     min_price |-> 1, min_avg_volume |-> 5, overnight_min_avg_volume |-> 5,
     enforce_relative_volume_filter |-> TRUE, min_relative_volume |-> 50, max_spread_pct |-> 1,
     only_open_in_market_hours |-> TRUE, stale_age |-> 1,
     extended_hours_enabled |-> FALSE, allow_after_hours |-> FALSE,
     overnight_trading_enabled |-> FALSE, broker_extended_hours_supported |-> FALSE,
     force_flatten_before_session_end |-> FALSE, allow_overnight_positions |-> TRUE,
     flatten_buffer |-> 0, use_limit_orders |-> TRUE, aggressiveness_pct |-> 10,
     enable_strategy_gating |-> FALSE, enable_position_sizing |-> FALSE, enable_risk_caps |-> FALSE,
     allow_rsi_in_bullish |-> FALSE, allow_bearish_mean_reversion |-> FALSE,
     bullish_multiplier |-> 100, sideways_multiplier |-> 50, bearish_multiplier |-> 0,
     stop_loss_pct |-> 10, risk_per_trade_pct |-> 10, max_portfolio_exposure_pct |-> 100,
     max_concurrent_positions |-> 2, daily_drawdown_limit_pct |-> 50, max_open_positions |-> 2,
     max_position_pct |-> 60, max_notional_per_trade |-> 100, max_daily_loss |-> 50,
     executor_daily_loss_cap |-> 3, worker_order_quantity |-> 4,
     warmup_cycles |-> 9, min_recent_trades |-> 1,
     max_trades_per_day |-> 2, max_trades_per_symbol_per_day |-> 2,
     one_trade_per_symbol_per_session |-> FALSE, symbol_cooldown |-> 0, strategy_cooldown |-> 0]

\* The layers on: gates, sizing by risk, caps, extended hours with limit orders, a flat
\* book at the end of the session, one candidate per scan.
Layered ==
    [Active EXCEPT
        !.enable_strategy_gating = TRUE, !.enable_position_sizing = TRUE, !.enable_risk_caps = TRUE,
        !.only_open_in_market_hours = FALSE, !.extended_hours_enabled = TRUE,
        !.broker_extended_hours_supported = TRUE, !.force_flatten_before_session_end = TRUE,
        !.allow_overnight_positions = FALSE, !.universe_mode = "top_losers", !.max_candidates = 1,
        !.one_trade_per_symbol_per_session = TRUE, !.max_trades_per_day = 1]

\* Extended hours that the broker supports but the deployment has not enabled, the scan
\* not limited to market hours, several strategies on a symbol, one trade a day.
Disabled ==
    [Active EXCEPT !.only_open_in_market_hours = FALSE, !.broker_extended_hours_supported = TRUE,
                   !.allow_multi_strategy = TRUE, !.kill_switch_on_startup = TRUE,
                   !.max_trades_per_day = 1]

DryRun == [Active EXCEPT !.worker_dry_run = TRUE, !.paper_trading_enabled = FALSE]

MCBars == {Breakout, Fall, Dip, Stale}
MCProfiles == {Active, Layered, Disabled, DryRun}
FewBars == {Breakout, Fall, Dip}
ActiveOnly == {Active}
LiveBars == {Breakout, Fall, Missing}

\* Deployment has no behaviour of its own: what it states of every environment is evaluated here.
ASSUME DeploymentChecked ==
    /\ \A e \in Environments :
          LiveIsAskedFor(e) /\ RealOrdersAskedFor(e) /\ ReadingsAgree(e) /\ StartsOnce(e)
    /\ \E e \in Environments : CarriesUnseen(e)
=============================================================================
