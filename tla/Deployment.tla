------------------------------- MODULE Deployment -------------------------------
(***************************************************************************)
(* The environment a process is started in, and what is made of it twice:  *)
(* DeploymentSettings (src/config/deployment.py) decides which worker the  *)
(* entry point starts (src/worker/__main__.py) and what the API shows; the *)
(* Polymarket worker then reads the same variables once more, with other   *)
(* defaults, into PolymarketConfig (src/polymarket/config.py), whose       *)
(* dry_run decides whether an order is sent.  Beside it runs the carry     *)
(* trades' monitor, with two variables of its own.                         *)
(*                                                                         *)
(* Texts are already stripped and lower-case, "equities" is "alpaca", a    *)
(* variable that is read with the same default by both is a Boolean, and   *)
(* a blank one is told from one not set where the readers do.              *)
(***************************************************************************)
EXTENDS Naturals

Unset == "unset"
Blank == "blank"

TradingModes == {"disabled", "dry_run", "paper", "live"}
AlpacaModes == {"disabled", "paper", "live"}
PolyModes == {"disabled", "dry_run", "live"}

Environments ==
    [ venue : {Unset, "alpaca", "polymarket"},           \* TRADING_VENUE
      trading_mode : TradingModes \cup {Unset},
      alpaca_trading_mode : AlpacaModes \cup {Unset, Blank},
      poly_trading_mode : PolyModes \cup {Unset},
      live_trading : {Unset, "true", "false"},
      poly_dry_run : BOOLEAN,                            \* not set, or to one of _read_bool's yeses
      poly_numbers : BOOLEAN,                            \* what only PolymarketConfig reads is right
      hl_dry_run : BOOLEAN, basis_dry_run : BOOLEAN,     \* unless set to "false"
      paper_trading : BOOLEAN, worker_enable_trading : BOOLEAN, worker_dry_run : BOOLEAN,
      credentials : BOOLEAN,                             \* the four POLY_ credentials
      signals_need_keys : BOOLEAN ]                      \* SIGNAL_PROVIDER=alpaca, keys missing

-----------------------------------------------------------------------------
(* DeploymentSettings.from_env.                                            *)

Venue(e) == IF e.venue = Unset THEN "alpaca" ELSE e.venue

AlpacaMode(e) ==
    IF e.alpaca_trading_mode \notin {Unset, Blank} THEN e.alpaca_trading_mode
    ELSE IF Venue(e) = "alpaca" /\ e.paper_trading THEN "paper" ELSE "disabled"

PolyModeRead(e) ==
    IF e.poly_trading_mode # Unset THEN e.poly_trading_mode
    ELSE IF Venue(e) = "alpaca" THEN "disabled"
    ELSE IF ~e.poly_dry_run \/ e.live_trading = "true" THEN "live"
    ELSE IF e.worker_enable_trading THEN "dry_run" ELSE "disabled"

\* A live mode turns LIVE_TRADING on if nothing is said of it.
LiveTrading(e) == e.live_trading = "true" \/ (PolyModeRead(e) = "live" /\ e.live_trading = Unset)

TradingMode(e) ==
    IF e.trading_mode # Unset THEN e.trading_mode
    ELSE IF Venue(e) = "polymarket" THEN PolyModeRead(e)
    ELSE IF AlpacaMode(e) = "paper" THEN "paper"
    ELSE IF e.worker_enable_trading /\ e.worker_dry_run THEN "dry_run" ELSE "disabled"

\* __post_init__ replaces "disabled", also one that was asked for.
PolyMode(e) ==
    IF Venue(e) # "polymarket" \/ PolyModeRead(e) # "disabled" THEN PolyModeRead(e)
    ELSE IF ~e.poly_dry_run THEN "live"
    ELSE IF e.worker_enable_trading THEN "dry_run" ELSE "disabled"

PolymarketVenueOk(e) ==
    /\ AlpacaMode(e) = "disabled" /\ ~e.paper_trading /\ TradingMode(e) # "paper"
    /\ PolyMode(e) = "live" => TradingMode(e) \in {"live", "disabled"}
    /\ PolyMode(e) = "dry_run" => e.poly_dry_run
    /\ ~e.poly_dry_run => PolyMode(e) = "live"

AlpacaVenueOk(e) == PolyMode(e) = "disabled" /\ e.poly_dry_run /\ AlpacaMode(e) # "live"

LiveOk(e) ==
    /\ Venue(e) = "polymarket" /\ LiveTrading(e) /\ e.worker_enable_trading /\ ~e.worker_dry_run
    /\ ~e.poly_dry_run /\ e.credentials /\ ~e.signals_need_keys

\* Paper trading is the only trading on the venue "alpaca".
EquitiesOk(enable, dry_run, paper) == enable /\ ~dry_run => paper

\* The process starts: from_env and __post_init__ raise nothing.
Accepted(e) ==
    /\ ~(Venue(e) = "alpaca" /\ e.alpaca_trading_mode = "disabled" /\ e.paper_trading)
    /\ IF Venue(e) = "polymarket" THEN PolymarketVenueOk(e) ELSE AlpacaVenueOk(e)
    /\ IF PolyMode(e) = "live" THEN LiveOk(e) ELSE ~LiveTrading(e)
    /\ Venue(e) = "alpaca" =>
          EquitiesOk(e.worker_enable_trading, e.worker_dry_run, AlpacaMode(e) = "paper" /\ e.paper_trading)

\* The limits __post_init__ wants, of those the trading worker of a settings record has.
LimitsOk(s) ==
    /\ s.execution_profile \in {"conservative", "balanced", "active_day_trader"}
    /\ s.universe_mode \in {"static", "top_gainers", "top_losers", "high_relative_volume", "index_constituents"}
    /\ {s.max_candidates, s.worker_order_quantity, s.max_trades_per_day, s.max_trades_per_symbol_per_day,
        s.max_concurrent_positions, s.max_open_positions, s.max_position_pct, s.max_notional_per_trade,
        s.max_daily_loss, s.executor_daily_loss_cap, s.stale_age} \subseteq Nat \ {0}
    /\ {s.min_recent_trades, s.warmup_cycles, s.flatten_buffer, s.symbol_cooldown, s.strategy_cooldown,
        s.bullish_multiplier, s.sideways_multiplier, s.bearish_multiplier,
        s.min_price, s.min_avg_volume, s.min_relative_volume, s.max_spread_pct} \subseteq Nat
    /\ {s.risk_per_trade_pct, s.daily_drawdown_limit_pct, s.stop_loss_pct} \subseteq 1..99
    /\ s.aggressiveness_pct \in 0..99 /\ s.max_portfolio_exposure_pct \in 1..100
    /\ EquitiesOk(s.worker_enable_trading, s.worker_dry_run, s.paper_trading_enabled)

-----------------------------------------------------------------------------
(* worker/__main__.py and PolymarketConfig.                                *)

\* _run_polymarket_worker starts the carry trades' monitor, then the scanner's main().
StartsPolymarket(e) ==
    /\ Accepted(e) /\ Venue(e) = "polymarket"
    /\ e.worker_enable_trading /\ PolyMode(e) # "disabled" /\ e.credentials

ConfigPolyMode(e) ==
    IF e.poly_trading_mode # Unset THEN e.poly_trading_mode
    ELSE IF e.poly_dry_run THEN "dry_run" ELSE "live"

ConfigTradingMode(e) == IF e.trading_mode # Unset THEN e.trading_mode ELSE ConfigPolyMode(e)

ConfigLive(e) == e.live_trading = "true" \/ (ConfigPolyMode(e) = "live" /\ e.live_trading = Unset)

\* PolymarketConfig.from_env and its __post_init__ raise nothing.  A blank ALPACA_TRADING_MODE
\* is refused: os.getenv's default is for one that is not set.
ConfigAccepted(e) ==
    /\ e.credentials /\ e.poly_numbers
    /\ e.venue = "alpaca" => ConfigPolyMode(e) = "disabled"
    /\ e.alpaca_trading_mode \in {Unset, "disabled"}
    /\ ~e.poly_dry_run => ConfigPolyMode(e) = "live"
    /\ ConfigPolyMode(e) = "live" =>
          /\ ConfigTradingMode(e) = "live" /\ e.venue # "alpaca" /\ ConfigLive(e)
          /\ ~e.poly_dry_run /\ ~e.signals_need_keys

\* The executor sends orders.
SendsOrders(e) == ConfigAccepted(e) /\ ~e.poly_dry_run

\* scan_once: enter_arb trades under HL_DRY_RUN, open_basis_trade under BASIS_DRY_RUN.
CarryVenues(e) ==
    {v \in {"hyperliquid", "coinbase"} : ~e.basis_dry_run \/ (v = "hyperliquid" /\ ~e.hl_dry_run)}

\* Where the worker process of a deployment can send orders that move money.  The monitor is
\* started before the second reading, whatever that comes to.
RealVenues(e) ==
    IF ~StartsPolymarket(e) THEN {}
    ELSE CarryVenues(e) \cup {v \in {"polymarket"} : SendsOrders(e)}

-----------------------------------------------------------------------------
(* Properties.                                                             *)

\* Orders are sent to Polymarket only by a deployment that asked for it in every variable that
\* has a say, and in which LIVE_TRADING is not "false"; that an unset LIVE_TRADING counts as a
\* yes is what the code does, required-env-vars.md says any "true" is refused.
LiveIsAskedFor(e) ==
    Accepted(e) /\ PolyMode(e) = "live" =>
        /\ e.venue = "polymarket" /\ ~e.poly_dry_run /\ e.live_trading # "false"
        /\ e.worker_enable_trading /\ ~e.worker_dry_run /\ e.credentials /\ ~e.paper_trading

\* Money moves only from a deployment that asked for it: never by "alpaca", which is for paper;
\* anywhere only from an enabled worker of "polymarket" with credentials and nothing on paper;
\* and on Polymarket only if nothing said dry run.  Of the carry trades' venues no more is true:
\* LIVE_TRADING, WORKER_DRY_RUN and POLY_DRY_RUN do not stop them (CarriesUnseen).
RealOrdersAskedFor(e) ==
    /\ Accepted(e) => AlpacaMode(e) # "live"
    /\ RealVenues(e) # {} =>
          /\ e.venue = "polymarket" /\ AlpacaMode(e) = "disabled" /\ ~e.paper_trading
          /\ e.worker_enable_trading /\ e.credentials
    /\ "polymarket" \in RealVenues(e) =>
          PolyMode(e) = "live" /\ e.live_trading # "false" /\ ~e.worker_dry_run /\ ~e.poly_dry_run

\* A worker that is logged, and shown by the API, as a dry run, and that trades for real on two
\* venues: "Run the Polymarket scanner/monitor loop as the only active worker" is not what
\* _run_polymarket_worker does.
CarriesUnseen(e) == PolyMode(e) = "dry_run" /\ RealVenues(e) = {"hyperliquid", "coinbase"}

\* The two readings agree: the Polymarket worker that the entry point starts sends orders if
\* and only if the entry point logged, and the API shows, the mode "live".
ReadingsAgree(e) ==
    StartsPolymarket(e) /\ ConfigAccepted(e) => (SendsOrders(e) <=> PolyMode(e) = "live")

\* What the entry point starts fails over its second reading in three cases and no other: a
\* blank ALPACA_TRADING_MODE, a number that only the second reads, and, with POLY_DRY_RUN false,
\* a "disabled" that was asked for where the first has made something else of it.
StartsOnce(e) ==
    StartsPolymarket(e) =>
        (ConfigAccepted(e) <=>
            /\ e.alpaca_trading_mode # Blank /\ e.poly_numbers
            /\ ~e.poly_dry_run => "disabled" \notin {e.trading_mode, e.poly_trading_mode})
=============================================================================
