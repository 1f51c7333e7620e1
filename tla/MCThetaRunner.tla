---------------------------- MODULE MCThetaRunner ----------------------------
(* Instances of ThetaRunner, and of FundingArb below it, for TLC: theta_*.cfg. *)
EXTENDS ThetaRunner

\* A live deployment with all strategies: a static buy signal, an inventory cap.
Live ==
    [enabled |-> <<"spot", "momentum", "funding">>, dry_run |-> FALSE, edge |-> 160,
     min_notional |-> 1, max_notional |-> 3, max_long |-> 4, buffer_pct |-> 10,
     momentum_notional |-> 2, per_trade |-> 2, daily |-> [coinbase |-> 3, hyperliquid |-> 2],
     min_score |-> 10, mode |-> "priority_with_fallback", available_capital |-> 4, max_eth |-> 3,
     fallback_min |-> 165, monitor |-> FALSE, edge_weight |-> 1, score_offset |-> 0, cooldown |-> TRUE,
     max_ticks |-> 1, max_moves |-> 0]

\* The two Coinbase strategies, no cap on what a tick buys but the capital, no cooldown.
Coinbase ==
    [Live EXCEPT !.enabled = <<"spot", "momentum">>, !.max_eth = 0, !.fallback_min = 0, !.max_long = 0,
                 !.cooldown = FALSE, !.max_ticks = 2, !.max_moves = 1]

\* A static sell signal against momentum's buys.
Selling == [Coinbase EXCEPT !.edge = -170, !.cooldown = TRUE, !.max_moves = 0]

\* Carry trades only, with the monitor of the trading worker beside the runner.
CarryOnly == [Live EXCEPT !.enabled = <<"funding">>, !.monitor = TRUE]

\* The same without the monitor, for a second tick against the budget and the cooldown, and a
\* midnight between the two orders of an entry.
CarryAgain == [CarryOnly EXCEPT !.monitor = FALSE, !.max_ticks = 3, !.max_moves = 1]

\* One trade a tick, in a dry run; no signal for spot.
Single == [Live EXCEPT !.mode = "single_best", !.dry_run = TRUE, !.edge = 0, !.max_long = 0,
                       !.max_ticks = 2, !.max_moves = 1]

MCBasis == {-400, 400}
AllProfiles == {Live, Coinbase, Selling, CarryOnly, CarryAgain, Single}
==============================================================================
