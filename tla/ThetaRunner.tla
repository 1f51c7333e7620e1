----------------------------- MODULE ThetaRunner -----------------------------
(***************************************************************************)
(* theta/: the strategy runner.  Each tick evaluates the strategies,       *)
(* checks the global risk limits, lets the allocator select at most two    *)
(* trades, executes them and reports.  The spot and momentum strategies    *)
(* trade one asset on Coinbase, the funding strategy enters carry trades   *)
(* through FundingArb, whose monitor runs in another process.  Money is in *)
(* whole dollars, edges are in basis points.                               *)
(***************************************************************************)
EXTENDS FundingArb, Sequences

CONSTANTS Profiles,        \* settings the environment may give (/etc/trauto/env), with two
                           \* bounds: max_ticks, and max_moves of midnights, prices and deposits
          Hurdle,          \* BasisConfig.hurdle_bps
          PosUsd,          \* the funding strategy's HL_MAX_POSITION_USD
          MomentumEdges,   \* edges momentum may estimate
          Prices,          \* mid prices of the spot asset
          Balances,        \* quote balances the account may be topped up to
          StartUsd, StartBase

Strategies == {"spot", "momentum", "funding"}
Exchanges == {"coinbase", "hyperliquid"}

\* A strategy is switched on or not, and no limit of the environment is negative: nothing
\* checks that.
ASSUME RunnerAssumption ==
    /\ "runner" \in Processes
    /\ Hurdle \in Int /\ PosUsd \in Nat /\ MomentumEdges \subseteq Int
    /\ Prices \subseteq Nat \ {0} /\ Balances \subseteq Int /\ StartUsd \in Int /\ StartBase \in Int
    /\ \A c \in Profiles :
        /\ c.enabled \in Seq(Strategies)
        /\ \A i, j \in 1..Len(c.enabled) : c.enabled[i] = c.enabled[j] => i = j
        /\ {c.min_notional, c.per_trade, c.available_capital} \subseteq Nat
        /\ {c.max_notional, c.momentum_notional, c.max_long, c.max_eth, c.buffer_pct,
             c.edge, c.edge_weight, c.score_offset} \subseteq Int
        /\ c.daily \in [Exchanges -> Nat]

VARIABLES cfg,        \* the settings of this deployment
          pc, turn,   \* where run_once is, and the strategy or trade it is at
          accepted,   \* ExecutionResult.success of the trade it is at
          proposals,  \* the trades proposed, then those approved
          selected,   \* the trades the allocator selected
          spent,      \* _DailyNotional.spent
          midnight,   \* _DailyNotional.date is not today
          cooling,    \* strategies whose cooldown is running
          backoff,    \* CoinbaseSpotEdgeStrategy._buy_backoff
          shutdown,   \* SIGTERM was received
          usd, base, price,   \* the Coinbase account and the market
          moves, iterations,
          \* ghosts
          done,       \* trades executed in this tick
          traded,     \* notional that reached an exchange today
          uncounted,  \* of it, what an answer lost or a restart hid from the runner
          recent,     \* strategies whose last order is less than a cooldown ago
          forgotten   \* of them, those whose order an answer lost or a restart hid

vars_runner == <<cfg, pc, turn, accepted, proposals, selected, spent, midnight, cooling, backoff,
                 shutdown, usd, base, price, moves, iterations, done, traded, uncounted, recent, forgotten>>
vars == <<vars_funding, vars_runner>>

Nothing == [x \in Exchanges |-> 0]
Asset == "ETH"     \* the spot strategy's and momentum's

Lesser(a, b) == IF a <= b THEN a ELSE b

Trade(s, x, a, side, notional, edge) ==
    [strategy |-> s, exchange |-> x, asset |-> a, side |-> side, notional |-> notional,
     edge |-> edge]

(***************************************************************************)
(* Strategies                                                              *)
(***************************************************************************)

\* should_trade_spot
ShouldTrade(notional, edge) ==
    notional >= cfg.min_notional /\ notional <= cfg.max_notional /\ edge >= Hurdle

\* _resolve_buy_notional: what a buy may spend of `balance`; 0 is no trade.
Spendable(balance) == (balance * (100 - cfg.buffer_pct)) \div 100
BuyNotional(balance, backingOff) ==
    LET desired == Lesser(cfg.max_notional, Spendable(balance)) IN
    IF \/ balance <= 0
       \/ backingOff /\ Spendable(balance) < cfg.min_notional
       \/ desired < cfg.min_notional
    THEN 0 ELSE desired
BackoffAfter(balance) ==
    backoff /\ (balance <= 0 \/ Spendable(balance) < cfg.min_notional)

\* _evaluate_cap_sell: the excess above the inventory cap.
CapSell(held, mid) ==
    LET notional == Lesser(held * mid - cfg.max_long, cfg.max_notional) IN
    IF cfg.max_long > 0 /\ held * mid > cfg.max_long /\ notional >= cfg.min_notional
    THEN <<Trade("spot", "coinbase", Asset, "sell", notional, Hurdle)>>
    ELSE <<>>

\* _evaluate_sell with _resolve_sell_notional.
SignalSell(held, mid) ==
    LET notional == Lesser(held * mid, cfg.max_notional) IN
    IF held > 0 /\ notional >= cfg.min_notional /\ ShouldTrade(notional, -cfg.edge)
    THEN <<Trade("spot", "coinbase", Asset, "sell", notional, -cfg.edge)>>
    ELSE <<>>

SignalBuy(balance) ==
    LET notional == BuyNotional(balance, backoff) IN
    IF notional > 0 /\ ShouldTrade(notional, cfg.edge)
    THEN <<Trade("spot", "coinbase", Asset, "buy", notional, cfg.edge)>>
    ELSE <<>>

\* get_spot_balance and get_spot_mid_price: a read that fails is a 0, or an exception the
\* strategy answers as it answers a 0.
BalanceRead(value) == {0, value}
PriceRead == {0, price}

\* The moving averages of the candles: no candles, or an average of 0, is no edge.
MomentumSeen == MomentumEdges \cup {0}

\* SimpleMomentumStrategy.evaluate_opportunity: it looks at no balance.
EvaluateMomentum(edge) ==
    LET notional == Lesser(cfg.momentum_notional, cfg.max_notional) IN
    IF edge > 0 /\ ShouldTrade(notional, edge)
    THEN <<Trade("momentum", "coinbase", Asset, "buy", notional, edge)>>
    ELSE <<>>

\* FundingArbStrategy.evaluate_opportunity: the best carry inside the window; a basis is
\* taken for a funding opportunity.
FundingEdge(rate, basis) ==
    LET annual == IF Carry(rate, basis) = "funding" THEN FundingAnnual(rate) ELSE BasisAnnual(basis)
    IN IF Carry(rate, basis) = "no_trade" \/ annual < MinAnnual
       THEN 0 ELSE (annual * 100) \div 1095
FundingProposals ==
    {Trade("funding", "hyperliquid", a, "buy", PosUsd, FundingEdge(rate, basis)) :
        a \in Assets, rate \in {r \in RateLevels : r >= MinRate}, basis \in BasisSeen}
EvaluateFunding ==
    IF window THEN {<<t>> : t \in {u \in FundingProposals : u.edge > 0}} \cup {<<>>} ELSE {<<>>}

(***************************************************************************)
(* Risk limits and allocator                                               *)
(***************************************************************************)

\* _DailyNotional._maybe_reset
SpentToday == IF midnight THEN Nothing ELSE spent

\* _check_risk: the notional is cut to the cap, then held against the day's budget.
Capped(t) == [t EXCEPT !.notional = Lesser(t.notional, cfg.per_trade)]
\* Mutant: the trade alone is held against the budget.
CanSpendAlone(t) == Capped(t).notional <= cfg.daily[t.exchange]

CanSpend(t) == SpentToday[t.exchange] + Capped(t).notional <= cfg.daily[t.exchange]
\* The proposals, by their place in the list.
Approved(ps) == {i \in DOMAIN ps : CanSpend(ps[i])}

\* Mutant: cooldowns are not looked at.
EligibleWarmOrNot(ps) == Approved(ps)

Eligible(ps) == {i \in Approved(ps) : ~(cfg.cooldown /\ ps[i].strategy \in cooling)}

\* composite_score: no strategy sets a confidence or a risk, so their terms are one
\* constant for all trades.
Score(t) == cfg.edge_weight * t.edge + cfg.score_offset

\* Best score first; sorted() keeps the order of equal ones.
Ahead(ps, i, j) == Score(ps[i]) > Score(ps[j]) \/ (Score(ps[i]) = Score(ps[j]) /\ i < j)
Best(ps, S) == {i \in S : \A j \in S \ {i} : Ahead(ps, i, j)}

\* The notional of the trades of ts at the places in S.
SumOver(ts, S) ==
    LET sum[n \in 0..Len(ts)] ==
            IF n = 0 THEN 0 ELSE sum[n - 1] + (IF n \in S THEN ts[n].notional ELSE 0)
    IN sum[Len(ts)]
NotionalOf(ts) == SumOver(ts, DOMAIN ts)
IsEthBuy(t) == t.side = "buy" /\ t.asset = "ETH"
EthBuys(ts) == SumOver(ts, {i \in DOMAIN ts : IsEthBuy(ts[i])})
AreConflicting(a, b) == a.asset = b.asset /\ a.side # b.side

Fits(ts, t) == t.notional <= cfg.available_capital - NotionalOf(ts)
\* Mutant: sides are not compared.
PassesEitherSide(ts, t) ==
    cfg.max_eth > 0 /\ IsEthBuy(t) => EthBuys(ts) + t.notional <= cfg.max_eth

Passes(ts, t) ==
    /\ ~\E i \in 1..Len(ts) : AreConflicting(ts[i], t)
    /\ cfg.max_eth > 0 /\ IsEthBuy(t) => EthBuys(ts) + t.notional <= cfg.max_eth

\* _priority_with_fallback.  The first of the ranking is the primary: if it does not fit,
\* nothing is selected; any other needs the score of a fallback.
Primary(ps) == Best(ps, Eligible(ps))
Takes(ps, ts) ==
    {i \in Eligible(ps) : /\ i \in Primary(ps) \/ Score(ps[i]) >= cfg.fallback_min
                          /\ Fits(ts, Capped(ps[i])) /\ Passes(ts, Capped(ps[i]))}
First(ps) == IF \E i \in Primary(ps) : Fits(<<>>, Capped(ps[i])) THEN Best(ps, Takes(ps, <<>>)) ELSE {}
Second(ps, i) == Best(ps, {j \in Takes(ps, <<Capped(ps[i])>>) : Ahead(ps, i, j)})

\* The selection is the one member of this set: at most two trades.
PriorityWithFallback(ps) ==
    (IF First(ps) = {} THEN {<<>>} ELSE {})
      \cup {<<Capped(ps[i])>> : i \in {k \in First(ps) : Second(ps, k) = {}}}
      \cup UNION {{<<Capped(ps[i]), Capped(ps[j])>> : j \in Second(ps, i)} : i \in First(ps)}

Select(ps) ==
    IF Eligible(ps) = {} THEN {<<>>}
    ELSE IF cfg.mode = "single_best" THEN {<<Capped(ps[i])>> : i \in Primary(ps)}
    ELSE PriorityWithFallback(ps)

(***************************************************************************)
(* run_once                                                                *)
(***************************************************************************)

AtStrategy(s) == pc = "evaluate" /\ turn <= Len(cfg.enabled) /\ cfg.enabled[turn] = s
Propose(ts) == proposals' = proposals \o ts /\ turn' = turn + 1

\* CoinbaseSpotEdgeStrategy.evaluate_opportunity: the inventory cap first, then the signal.
EvaluateSpot ==
    /\ AtStrategy("spot")
    /\ \E held \in BalanceRead(base), mid \in PriceRead :
        \/ /\ CapSell(held, mid) # <<>>
           /\ Propose(CapSell(held, mid))
           /\ UNCHANGED backoff
        \/ /\ CapSell(held, mid) = <<>>
           /\ \/ /\ cfg.edge >= Hurdle
                 /\ \E balance \in BalanceRead(usd) :
                     /\ Propose(SignalBuy(balance))
                     /\ backoff' = BackoffAfter(balance)
              \/ /\ -cfg.edge >= Hurdle
                 /\ \E holding \in BalanceRead(base), quote \in PriceRead : Propose(SignalSell(holding, quote))
                 /\ UNCHANGED backoff
              \/ /\ cfg.edge < Hurdle /\ -cfg.edge < Hurdle
                 /\ Propose(<<>>)
                 /\ UNCHANGED backoff
    /\ UNCHANGED <<vars_funding, cfg, pc, accepted, selected, spent, midnight, cooling, shutdown, usd,
                   base, price, moves, iterations, done, traded, uncounted, recent, forgotten>>

\* The other two, and any strategy whose evaluation raises.
EvaluateOther ==
    /\ \/ /\ AtStrategy("momentum")
          /\ \E edge \in MomentumSeen : Propose(EvaluateMomentum(edge))
       \/ /\ AtStrategy("funding")
          /\ \E ts \in EvaluateFunding : Propose(ts)
    /\ UNCHANGED <<vars_funding, cfg, pc, accepted, selected, spent, midnight, cooling, backoff,
                   shutdown, usd, base, price, moves, iterations, done, traded, uncounted, recent,
                   forgotten>>

\* The risk limits and the allocator see all proposals before any of them is executed.
Gate ==
    /\ pc = "evaluate" /\ turn > Len(cfg.enabled)
    /\ \E chosen \in Select(proposals) :
        LET trades == IF chosen # <<>> /\ Score(chosen[1]) < cfg.min_score THEN <<>> ELSE chosen
        IN /\ selected' = trades
           /\ pc' = IF trades = <<>> THEN "report" ELSE "execute"
    /\ spent' = IF proposals = <<>> THEN spent ELSE SpentToday
    /\ midnight' = (midnight /\ proposals = <<>>)
    /\ turn' = 1 /\ proposals' = <<>>
    /\ UNCHANGED <<vars_funding, cfg, accepted, cooling, backoff, shutdown, usd, base, price, moves,
                   iterations, done, traded, uncounted, recent, forgotten>>

Current == selected[turn]

\* A trade that was executed, as far as the runner knows or not.
Performed(t, known) ==
    /\ done' = Append(done, t)
    /\ recent' = recent \cup {t.strategy}
    /\ forgotten' = IF known THEN forgotten ELSE forgotten \cup {t.strategy}

\* An order that reached an exchange.
Plus(amounts, t) == [amounts EXCEPT ![t.exchange] = @ + t.notional]
Reached(t, known) ==
    /\ Performed(t, known)
    /\ traded' = IF cfg.dry_run THEN traded ELSE Plus(traded, t)
    /\ uncounted' = IF cfg.dry_run \/ known THEN uncounted ELSE Plus(uncounted, t)
NotReached == UNCHANGED <<done, traded, uncounted, recent, forgotten>>

\* place_market_order with dry_run: a record, no order.
ExecuteDry ==
    /\ pc = "execute" /\ Current.exchange = "coinbase" /\ cfg.dry_run
    /\ pc' = "record" /\ accepted' = TRUE
    /\ Reached(Current, TRUE)
    /\ UNCHANGED <<vars_funding, cfg, turn, proposals, selected, spent, midnight, cooling, backoff,
                   shutdown, usd, base, price, moves, iterations>>

\* A sell's base size comes from the mid price of the moment, not from the one it was
\* sized with.
BaseSize(notional) == (notional + price - 1) \div price
Affordable(t) ==
    IF t.side = "buy" THEN t.notional <= usd ELSE BaseSize(t.notional) <= base

\* CoinbaseSpotEdgeStrategy.execute: a buy refused for funds sets the backoff.
BackedOff(for_funds) ==
    backoff \/ (for_funds /\ Current.strategy = "spot" /\ Current.side = "buy")

\* place_market_order: no price or no client; create_order raises, before or after the
\* order reached Coinbase; it is refused, for funds or otherwise; it is taken.  Never a
\* second try.
ExecuteCoinbase ==
    /\ pc = "execute" /\ Current.exchange = "coinbase" /\ ~cfg.dry_run
    /\ \E ok, filled \in BOOLEAN, for_funds \in BOOLEAN :
        /\ filled => Affordable(Current)
        /\ for_funds => ~ok /\ ~filled
        /\ accepted' = ok
        /\ backoff' = BackedOff(for_funds)
        /\ IF filled THEN Reached(Current, ok) ELSE NotReached
        /\ LET size == BaseSize(Current.notional) IN
           IF ~filled THEN UNCHANGED <<usd, base>>
           ELSE IF Current.side = "buy"
                THEN usd' = usd - Current.notional /\ base' = base + Current.notional \div price
                ELSE usd' = usd + size * price /\ base' = base - size
    /\ pc' = "record"
    /\ UNCHANGED <<vars_funding, cfg, turn, proposals, selected, spent, midnight, cooling, shutdown,
                   price, moves, iterations>>

\* FundingArbStrategy.execute: enter_arb runs with the runner's dry_run, not HL_DRY_RUN, and
\* places two orders of the trade's notional each.
EnterFunding ==
    /\ pc = "execute" /\ Current.exchange = "hyperliquid"
    /\ StartArb("runner", Current.asset, cfg.dry_run)
    /\ Performed(Current, TRUE)
    /\ pc' = "entering"
    /\ UNCHANGED <<spot, perp, cb, window, monitor, alarms, cut, misread, scans, crashes, cfg, turn, accepted,
                   proposals, selected, spent, midnight, cooling, backoff, shutdown, usd, base, price,
                   moves, iterations, traded, uncounted>>

\* One of the two.
EnterLeg ==
    /\ ArbSpotLeg("runner") \/ ArbPerpLeg("runner")
    /\ traded' = IF UNCHANGED <<spot, perp>> THEN traded ELSE Plus(traded, Current)
    /\ UNCHANGED <<cfg, pc, turn, accepted, proposals, selected, spent, midnight, cooling, backoff, shutdown,
                   usd, base, price, moves, iterations, done, uncounted, recent, forgotten>>

\* Success, whatever the two legs did.
FundingEntered ==
    /\ pc = "entering" /\ job["runner"] = Idle
    /\ accepted' = TRUE
    /\ pc' = "record"
    /\ UNCHANGED <<vars_funding, cfg, turn, proposals, selected, spent, midnight, cooling, backoff,
                   shutdown, usd, base, price, moves, iterations, done, traded, uncounted, recent,
                   forgotten>>

\* Mutant: an order that failed is tried again.
RecordRetries ==
    /\ pc = "record"
    /\ LET counts == accepted /\ ~cfg.dry_run IN
       /\ spent' = IF counts THEN [SpentToday EXCEPT ![Current.exchange] = @ + Current.notional] ELSE spent
       /\ midnight' = (midnight /\ ~counts)
    /\ cooling' = IF accepted THEN cooling \cup {Current.strategy} ELSE cooling
    /\ turn' = IF accepted THEN turn + 1 ELSE turn
    /\ pc' = IF turn < Len(selected) \/ ~accepted THEN "execute" ELSE "report"
    /\ UNCHANGED <<vars_funding, cfg, accepted, proposals, selected, backoff, shutdown, usd, base, price,
                   moves, iterations, done, traded, uncounted, recent, forgotten>>

\* Only an order said to have succeeded counts in the budget and starts a cooldown.
Record ==
    /\ pc = "record"
    /\ LET counts == accepted /\ ~cfg.dry_run IN
       /\ spent' = IF counts THEN [SpentToday EXCEPT ![Current.exchange] = @ + Current.notional] ELSE spent
       /\ midnight' = (midnight /\ ~counts)
    /\ cooling' = IF accepted THEN cooling \cup {Current.strategy} ELSE cooling
    /\ turn' = turn + 1
    /\ pc' = IF turn < Len(selected) THEN "execute" ELSE "report"
    /\ UNCHANGED <<vars_funding, cfg, accepted, proposals, selected, backoff, shutdown, usd, base, price,
                   moves, iterations, done, traded, uncounted, recent, forgotten>>

(***************************************************************************)
(* runner_worker                                                           *)
(***************************************************************************)

Between == UNCHANGED <<vars_funding, cfg, accepted, spent, midnight, cooling, backoff, shutdown, usd, base,
                       price, moves, traded, uncounted, recent, forgotten>>

\* The end of run()'s loop body; a shutdown is looked at before the sleep.
Report ==
    /\ pc = "report"
    /\ iterations' = iterations + 1
    /\ pc' = IF shutdown THEN "stopped" ELSE "sleep"
    /\ turn' = 1 /\ proposals' = <<>> /\ selected' = <<>> /\ done' = <<>>
    /\ Between

\* The sleep ends after tick_interval, or within a second of a shutdown.
Wake ==
    /\ pc = "sleep"
    /\ \/ shutdown /\ pc' = "stopped"
       \/ ~shutdown /\ iterations < cfg.max_ticks /\ pc' = "evaluate"
    /\ UNCHANGED <<turn, proposals, selected, done, iterations>>
    /\ Between

Sigterm ==
    /\ ~shutdown /\ pc # "stopped"
    /\ shutdown' = TRUE
    /\ UNCHANGED <<vars_funding, cfg, pc, turn, accepted, proposals, selected, spent, midnight, cooling,
                   backoff, usd, base, price, moves, iterations, done, traded, uncounted, recent, forgotten>>

\* A crash, or a start after a stop: budget, cooldowns and backoff are only in memory.
RunnerRestarts ==
    /\ ForgetEntry("runner")
    /\ pc' = "sleep" /\ turn' = 1 /\ accepted' = FALSE
    /\ proposals' = <<>> /\ selected' = <<>> /\ done' = <<>>
    /\ spent' = Nothing /\ midnight' = FALSE
    /\ cooling' = {} /\ backoff' = FALSE /\ shutdown' = FALSE
    /\ uncounted' = traded /\ forgotten' = recent
    /\ UNCHANGED <<spot, perp, cb, window, monitor, alarms, misread, scans, cfg, usd, base, price, moves, iterations,
                   traded, recent>>

(***************************************************************************)
(* Time and the market                                                     *)
(***************************************************************************)

\* Cooldowns are looked at once a tick, so one that ends during a tick ends after it.
CooldownEnds ==
    /\ pc = "sleep"
    /\ \E s \in recent \cup cooling :
        /\ cooling' = cooling \ {s}
        /\ recent' = recent \ {s}
        /\ forgotten' = forgotten \ {s}
    /\ UNCHANGED <<vars_funding, cfg, pc, turn, accepted, proposals, selected, spent, midnight, backoff,
                   shutdown, usd, base, price, moves, iterations, done, traded, uncounted>>

\* The UTC day changes, in the middle of a tick too.
Midnight ==
    /\ moves < cfg.max_moves /\ moves' = moves + 1
    /\ midnight' = TRUE
    /\ traded' = Nothing /\ uncounted' = Nothing
    /\ UNCHANGED <<vars_funding, cfg, pc, turn, accepted, proposals, selected, spent, cooling, backoff,
                   shutdown, usd, base, price, iterations, done, recent, forgotten>>

\* The price moves, or the owner moves money.
MarketMoves ==
    /\ moves < cfg.max_moves /\ moves' = moves + 1
    /\ \/ price' \in Prices \ {price} /\ UNCHANGED usd
       \/ usd' \in Balances \ {usd} /\ UNCHANGED price
    /\ UNCHANGED <<vars_funding, cfg, pc, turn, accepted, proposals, selected, spent, midnight, cooling,
                   backoff, shutdown, base, iterations, done, traded, uncounted, recent, forgotten>>

Init ==
    /\ InitFunding
    /\ cfg \in Profiles
    /\ pc = "evaluate" /\ turn = 1 /\ accepted = FALSE
    /\ proposals = <<>> /\ selected = <<>> /\ done = <<>>
    /\ spent = Nothing /\ midnight = FALSE
    /\ cooling = {} /\ backoff = FALSE /\ shutdown = FALSE
    /\ usd = StartUsd /\ base = StartBase /\ price \in Prices
    /\ moves = 0 /\ iterations = 0
    /\ traded = Nothing /\ uncounted = Nothing /\ recent = {} /\ forgotten = {}

RunnerStep ==
    \/ EvaluateSpot \/ EvaluateOther \/ Gate
    \/ ExecuteDry \/ ExecuteCoinbase \/ EnterFunding
    \/ EnterLeg
    \/ FundingEntered \/ Record \/ Report \/ Wake

Next ==
    \/ RunnerStep
    \/ cfg.monitor /\ NextFunding /\ UNCHANGED vars_runner
    \/ Sigterm \/ RunnerRestarts
    \/ CooldownEnds \/ Midnight \/ MarketMoves

Spec == Init /\ [][Next]_vars

\* The runner's process goes on where no call of it can hang: those to Hyperliquid have a
\* timeout, those to Coinbase have none (get_coinbase_client), so evaluating a strategy and
\* executing a trade on Coinbase, in a dry run too, may take for ever.  This is weak fairness
\* of the other steps of RunnerStep, written without ENABLED: each of them changes where the
\* runner is, and its restarts are finitely many.
RunnerCanStep ==
    \/ pc \in {"entering", "record", "report"}
    \/ pc = "evaluate" /\ turn > Len(cfg.enabled)
    \/ pc = "execute" /\ Current.exchange = "hyperliquid"
    \/ pc = "sleep" /\ (shutdown \/ iterations < cfg.max_ticks)
FairSpec ==
    /\ Spec
    /\ []<>~RunnerCanStep \/ []<><<TRUE>>_<<pc, turn, job["runner"]>>

(***************************************************************************)
(* Properties                                                              *)
(***************************************************************************)

\* What reached an exchange in a UTC day, except for the orders an answer lost or a restart
\* hid from the runner, is bounded by the daily budget.  On Coinbase by the budget and one
\* trade: the trades of a tick are all checked before the first is recorded, and two of them
\* may go there.  On Hyperliquid by twice the budget: the budget counts one of the two orders
\* of a carry trade.
BudgetBoundsTrading ==
    /\ traded["coinbase"] - uncounted["coinbase"] <= cfg.daily["coinbase"] + cfg.per_trade
    /\ traded["hyperliquid"] - uncounted["hyperliquid"] <= 2 * cfg.daily["hyperliquid"]

\* The trades of one tick never take opposite sides of an asset; with a fallback allowed,
\* they stay within the capital and the exposure to ETH the portfolio gives a tick.
TickWithinLimits ==
    /\ \A i, j \in 1..Len(done) : ~AreConflicting(done[i], done[j])
    /\ cfg.mode # "single_best" =>
        /\ NotionalOf(done) <= cfg.available_capital
        /\ cfg.max_eth > 0 => EthBuys(done) <= cfg.max_eth

\* Two orders of a strategy are a cooldown apart, except after an order whose answer was
\* lost, or a restart.
CooldownSpacesOrders ==
    [][(cfg.cooldown /\ Len(done') > Len(done)) =>
        LET s == done'[Len(done')].strategy IN s \in recent => s \in forgotten]_vars

\* A tick that has selected its trades ends once no trade on Coinbase is left to execute in
\* it, whatever the answers to the others: it enters a carry trade once, and retries nothing.
\* A SIGTERM is answered after that, and not before a hanging call to Coinbase returns.
AwaitsCoinbase ==
    \E i \in turn..Len(selected) :
        selected[i].exchange = "coinbase" /\ (i > turn \/ pc = "execute")
InTick == pc \in {"execute", "entering", "record", "report"}
TickEnds == (InTick /\ ~AwaitsCoinbase) ~> (pc \in {"sleep", "stopped"})
=============================================================================
