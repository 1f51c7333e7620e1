------------------------------ MODULE TradingWorker ------------------------------
(***************************************************************************)
(* The trading worker (src/src/worker/service.py) on its database          *)
(* (src/src/persistence/repository.py), with the paper executor of each    *)
(* cycle, beside the operator's API (src/src/api/services.py).             *)
(*                                                                         *)
(* run_once runs at most once per poll bucket.  It loads the book, scans   *)
(* the universe, takes the symbols one by one through _run_symbol_cycle,   *)
(* and saves the book only when all of them are done.  Each call of the    *)
(* repository is a transaction of its own: a step of the worker is what    *)
(* it does from one transaction to the next, the process may die between   *)
(* any two of them, and the API's transactions fall between them as well.  *)
(*                                                                         *)
(* settings is chosen once, from Profiles; see TradingRules for its        *)
(* fields.  Log rows and heartbeats are left out: nothing the worker does  *)
(* depends on them.                                                        *)
(***************************************************************************)
EXTENDS PaperExecutor, Deployment, SequencesExt

CONSTANTS
    Strategies,         \* list_strategies(), those of the instance
    Order,              \* rank of every symbol and strategy name in a sort
    Profiles,           \* the settings a deployment may run with
    Bars,               \* what a symbol may show in a cycle
    InitialCapital,     \* initial_capital
    MaxTime,            \* bound: poll buckets
    MaxDisturbances     \* bound: deaths of the worker, database errors, operator requests

ASSUME WorkerAssumption ==
    /\ Symbols # {} /\ IsFiniteSet(Symbols) /\ "none" \notin Symbols
    /\ IsFiniteSet(Strategies) /\ "none" \notin Strategies
    /\ InitialCapital \in Nat \ {0}
    /\ MaxTime \in Nat /\ MaxDisturbances \in Nat

\* A bar has a price and was not made in the future.
ASSUME BarsAssumption == \A b \in Bars : b.price \in Nat /\ b.age \in Nat

\* A worker starts only with settings that DeploymentSettings accepts.
ASSUME SettingsAssumption == \A s \in Profiles : LimitsOk(s)

VARIABLES
    settings, now,
    kill,        \* GlobalState.kill_switch_enabled
    book,        \* PortfolioState and Positions
    lock,        \* SymbolStrategyLock: symbol -> strategy or "none"
    config,      \* StrategyConfig: strategy -> "absent", "enabled" or "disabled"
    runs,        \* RunHistory of this worker: symbol, bucket -> status, selected strategy
    orders,      \* Orders: symbol, bucket -> status or "none"
    fills,       \* Fills, in the order they were recorded
    w,           \* the worker process and its locals
    budget,      \* disturbances left
    torn,        \* history: a fill of the executor was lost or left half recorded
    late_buys,   \* history: BUY fills recorded since the kill switch is on
    chosen       \* history: the intraday strategies an operator enabled

db == <<kill, book, lock, config, runs, orders, fills>>
vars == <<settings, now, kill, book, lock, config, runs, orders, fills, w, budget, torn,
          late_buys, chosen>>

Buckets == 0..MaxTime
NoRun == [status |-> "none", selected |-> "none"]
NoOrder == [symbol |-> "none"]

\* The process has died or not started; it waits for a bucket; its cycle is over.
Stopped == [up |-> FALSE, at |-> "idle", key |-> 0 - 1, cycles |-> 0]

Started == [up |-> TRUE, at |-> "idle", key |-> 0 - 1, cycles |-> 0]
EndOfCycle == [Started EXCEPT !.key = w.key, !.cycles = w.cycles]

EmptyBook == [cash |-> InitialCapital, pos |-> [s \in Symbols |-> 0], avg |-> [s \in Symbols |-> 0],
              day_start |-> InitialCapital, peak |-> InitialCapital]

Init ==
    /\ settings \in Profiles /\ now = 0
    /\ kill = FALSE /\ book = EmptyBook
    /\ lock = [s \in Symbols |-> "none"]
    /\ config = [st \in Strategies |-> "absent"]
    /\ runs = [s \in Symbols |-> [t \in Buckets |-> NoRun]]
    /\ orders = [s \in Symbols |-> [t \in Buckets |-> "none"]]
    /\ fills = <<>>
    /\ w = Stopped
    /\ budget = MaxDisturbances
    /\ torn = FALSE /\ late_buys = 0 /\ chosen = {}

At(point) == w.up /\ w.at = point

Disturb == budget > 0 /\ budget' = budget - 1

-----------------------------------------------------------------------------
(* Fills as the repository and the analytics read them.                    *)

\* recent_fills: a fill belongs to the strategy its run selected.
strategy_of(f) ==
    LET r == runs[f.symbol][f.bucket]
    IN IF r.selected = "none" THEN "strategy_selector" ELSE r.selected

\* The sort key of _reconstruct_outcomes.
Earlier(f, g) ==
    \/ f.bar_time < g.bar_time
    \/ f.bar_time = g.bar_time /\ f.side = "BUY" /\ g.side = "SELL"

\* _reconstruct_outcomes: the closed trades; a position is kept per strategy and
\* symbol, and a SELL that meets none is skipped.
reconstruct_outcomes(seen) ==
    LET sorted == SortSeq(SubSeq(fills, 1, seen), Earlier)
        walk[n \in 0..seen] ==
            IF n = 0 THEN [held |-> <<>>, closed |-> <<>>]
            ELSE LET f == sorted[n]
                     before == walk[n - 1]
                     key == <<strategy_of(f), f.symbol>>
                     has == IF key \in DOMAIN before.held THEN before.held[key]
                            ELSE [quantity |-> 0, cost |-> 0]
                     closing == LeastOf(f.quantity, has.quantity)
                     cost == IF closing = 0 THEN 0 ELSE (has.cost * closing) \div has.quantity
                 IN CASE f.side = "BUY" ->
                            [before EXCEPT !.held = key :>
                                [quantity |-> has.quantity + f.quantity,
                                 cost |-> has.cost + f.quantity * f.price] @@ @]
                      [] f.side = "SELL" /\ closing = 0 -> before
                      [] f.side = "SELL" /\ closing > 0 ->
                            [held |-> key :> [quantity |-> has.quantity - closing,
                                              cost |-> has.cost - cost] @@ before.held,
                             closed |-> Append(before.closed,
                                [strategy |-> key[1], pnl |-> closing * f.price - cost])]
    IN walk[seen].closed

\* _compute_strategy_analytics: what the selector reads of one strategy.
strategy_metrics(st, seen) ==
    LET closed == reconstruct_outcomes(seen)
        mine == {i \in DOMAIN closed : closed[i].strategy = st}
        wins == {i \in mine : closed[i].pnl > 0}
        total == MapThenSumSet(LAMBDA i : closed[i].pnl, mine)
    IN IF mine = {} THEN [trades |-> 0, expectancy |-> 0, win_rate |-> 0]
       ELSE [trades |-> Cardinality(mine),
             expectancy |-> total \div Cardinality(mine),
             win_rate |-> (100 * Cardinality(wins)) \div Cardinality(mine)]

\* The recorded BUY fills whose bar is of the market day of bucket t.
buys_of_day(t) ==
    {i \in DOMAIN fills : fills[i].side = "BUY" /\ MarketDate(fills[i].bar_time) = MarketDate(t)}

\* Mutant: the fills that were loaded when the cycle began are counted.
cooldown_reasons_of_cycle(s, st, t, bar_time) ==
    LET today == {i \in buys_of_day(t) : i <= w.seen}
    IN When(Cardinality(today) >= settings.max_trades_per_day, "max_trades_per_day_exceeded")

\* _cooldown_reasons: trade counts of the day, and the time since the last BUY.
cooldown_reasons(s, st, t, bar_time) ==
    LET today == buys_of_day(t)
        of_symbol == {i \in today : fills[i].symbol = s}
        of_strategy == {i \in today : strategy_of(fills[i]) = st}
        within(set, seconds) ==
            seconds > 0 /\ set # {} /\ bar_time - Max({fills[i].bar_time : i \in set}) < seconds
    IN When(Cardinality(today) >= settings.max_trades_per_day, "max_trades_per_day_exceeded")
       \cup When(Cardinality(of_symbol) >= settings.max_trades_per_symbol_per_day,
                 "max_trades_per_symbol_per_day_exceeded")
       \cup When(settings.one_trade_per_symbol_per_session /\ of_symbol # {},
                 "symbol_session_trade_limit_reached")
       \cup When(within(of_symbol, settings.symbol_cooldown), "symbol_cooldown_active")
       \cup When(within(of_strategy, settings.strategy_cooldown), "strategy_cooldown_active")

-----------------------------------------------------------------------------
(* Operations of the repository.                                           *)

\* start_run: FALSE if service and cycle key are taken, otherwise a running row.
RunExists(s, t) == runs[s][t].status # "none"
start_run(s, t) == runs' = [runs EXCEPT ![s][t] = [status |-> "running", selected |-> "none"]]

\* finish_run; the details hold the selection by which fills are attributed.
finish_run(s, t, status, selected) ==
    runs' = [runs EXCEPT ![s][t] = [status |-> status, selected |-> selected]]

\* The dedupe key has one order per symbol and cycle, as there is one intent in each.
order_exists_by_dedupe_key(s, t) == orders[s][t] # "none"
record_order(s, t) == orders' = [orders EXCEPT ![s][t] = "SUBMITTED"]
update_order_status(s, t, status) == orders' = [orders EXCEPT ![s][t] = status]

\* Mutant: every fill is recorded as one share.
record_fill_of_one(o, t, strategy) ==
    fills' = Append(fills, [symbol |-> o.symbol, side |-> o.side, quantity |-> 1,
                            price |-> o.price, bar_time |-> o.bar_time,
                            bucket |-> t, strategy |-> strategy])

record_fill(o, t, strategy) ==
    fills' = Append(fills, [symbol |-> o.symbol, side |-> o.side, quantity |-> o.quantity,
                            price |-> o.price, bar_time |-> o.bar_time,
                            bucket |-> t, strategy |-> strategy])

\* upsert_symbol_strategy_lock and release_symbol_strategy_lock; a lock that the worker
\* believes to be as it should be is not written.
write_lock(s, believed, strategy) ==
    lock' = IF strategy = believed THEN lock ELSE [lock EXCEPT ![s] = strategy]

\* load_strategy_configs, with the worker's default for a strategy without a row:
\* enabled, but for the intraday ones of the conservative profile.
enabled(st) ==
    \/ config[st] = "enabled"
    \/ /\ config[st] = "absent"
       /\ ~(st \in Intraday /\ settings.execution_profile = "conservative")

-----------------------------------------------------------------------------
(* The process.                                                            *)

\* __post_init__ and run_forever up to the loop.
WorkerStart ==
    /\ ~w.up
    /\ w' = Started
    /\ kill' = (kill \/ settings.kill_switch_on_startup)
    /\ UNCHANGED <<settings, now, book, lock, config, runs, orders, fills, budget, torn,
                   late_buys, chosen>>

\* The process dies: killed, or an exception outside _run_symbol_cycle.  What the
\* executor filled since the book was loaded is lost.
Crash ==
    /\ w.up /\ Disturb
    /\ w' = Stopped
    /\ torn' = \/ torn
               \/ w.at \notin {"idle", "restore"} /\ w.ex.pos # book.pos
    /\ UNCHANGED <<settings, now, kill, book, lock, config, runs, orders, fills, late_buys, chosen>>

\* Time passes between cycles: a cycle ends within its poll bucket.
Tick ==
    /\ now < MaxTime /\ w.at = "idle"
    /\ now' = now + 1
    /\ UNCHANGED <<settings, kill, book, lock, config, runs, orders, fills, w, budget, torn,
                   late_buys, chosen>>

-----------------------------------------------------------------------------
(* run_once, up to the loop over the symbols.                              *)

\* The skip conditions hold: nothing but a heartbeat.
CycleMayRun ==
    /\ ~kill /\ settings.worker_enable_trading
    /\ settings.paper_trading_enabled \/ settings.worker_dry_run
    /\ w.key # now

RegisterCycle ==
    /\ At("idle") /\ CycleMayRun
    /\ w' = [up |-> TRUE, at |-> "restore", key |-> now, cycles |-> w.cycles + 1]
    /\ UNCHANGED <<settings, now, kill, book, lock, config, runs, orders, fills, budget, torn,
                   late_buys, chosen>>

Locked(locks) == {s \in Symbols : locks[s] # "none"}

\* _release_stale_locks: the locks of symbols without a position.
WithoutStale(locks, ex) == [s \in Symbols |-> IF ex.pos[s] = 0 THEN "none" ELSE locks[s]]

\* Ranked shortlist first, then the open positions that are not on it, by name: the one
\* way to order them, as no two symbols rank equal.
universe(bars, ex) ==
    LET shortlist == Shortlist(bars, Order, now, settings)
        symbols == shortlist \cup Open(ex)
        before(a, b) == IF a \in shortlist
                        THEN b \in shortlist => RanksBefore(a, b, bars, Order, settings)
                        ELSE b \notin shortlist /\ Order[a] < Order[b]
        ordered == {o \in Injection(1..Cardinality(symbols), symbols) :
                       \A i, j \in DOMAIN o : i < j => before(o[i], o[j])}
    IN {[i \in DOMAIN o |-> [symbol |-> o[i], bar |-> bars[o[i]]]] : o \in ordered}

\* From load_portfolio_snapshot to the universe: the executor is restored with the
\* book and the kill switch, stale locks go, and the scan sees one bar per symbol.
RestoreAndScan ==
    /\ At("restore")
    /\ LET ex == restore_state(book, kill)
           locks == WithoutStale(lock, ex)
       IN \E bars \in [Symbols -> Bars] : \E todo \in universe(bars, ex) :
           /\ lock' = locks
           /\ w' = IF todo = <<>> THEN EndOfCycle
                   ELSE [up |-> TRUE, at |-> "next", key |-> w.key, cycles |-> w.cycles,
                         ex |-> ex, locks |-> locks, seen |-> Len(fills), todo |-> todo,
                         sel |-> "none", order |-> NoOrder, status |-> "none"]
    /\ UNCHANGED <<settings, now, kill, book, config, runs, orders, fills, budget, torn,
                   late_buys, chosen>>

-----------------------------------------------------------------------------
(* _run_symbol_cycle for Head(w.todo).                                     *)

sym == Head(w.todo).symbol
bar == Head(w.todo).bar
held == w.ex.pos[sym]
session == WorkerSession(now, settings)
InSymbolCycle == w.up /\ w.at \in {"decide", "order", "status", "fill", "lock", "finish"}

\* start_run: service and cycle key are unique together; a duplicate is skipped.
StartRun ==
    /\ At("next") /\ w.todo # <<>>
    /\ IF ~RunExists(sym, w.key)
       THEN /\ start_run(sym, w.key)
            /\ w' = [w EXCEPT !.at = "decide"]
       ELSE /\ w' = [w EXCEPT !.todo = Tail(@)]
            /\ UNCHANGED runs
    /\ UNCHANGED <<settings, now, kill, book, lock, config, orders, fills, budget, torn,
                   late_buys, chosen>>

signals(st) == enabled(st) /\ st \in bar.signals

\* The lock of another strategy, and the filters of a new entry.
external_reasons(st) ==
    When(~settings.allow_multi_strategy /\ w.locks[sym] \notin {"none", st},
         "symbol_locked_by_active_strategy")
    \cup (IF held > 0 THEN {}
          ELSE evaluate_strategy_filters(st, bar, session.state, settings)
               \cup cooldown_reasons(sym, st, now, now - bar.age)
               \cup (IF settings.enable_strategy_gating /\ signals(st)
                     THEN GateReasons(st, bar.market, settings) ELSE {}))

candidates ==
    {[strategy |-> st, enabled |-> enabled(st), signal |-> signals(st),
      metrics |-> strategy_metrics(st, w.seen), external |-> external_reasons(st)]
        : st \in Strategies}

\* Mutant: the kill switch of the executor is the one that counts.
global_state_of_cycle ==
    [kill |-> w.ex.kill,
     min_recent_trades |-> IF w.cycles <= settings.warmup_cycles THEN 0 ELSE settings.min_recent_trades,
     risk_budget |-> bar.price * settings.worker_order_quantity <= w.ex.cash,
     max_positions |-> held = 0 /\ active_positions(w.ex) >= EffectiveMaxOpenPositions(settings)]

\* _build_global_selection_state: the kill switch is read from the database once more.
global_state ==
    LET required == bar.price * (IF settings.enable_position_sizing THEN 1
                                 ELSE settings.worker_order_quantity)
    IN [kill |-> kill,
        min_recent_trades |-> IF w.cycles <= settings.warmup_cycles THEN 0
                              ELSE settings.min_recent_trades,
        risk_budget |-> /\ required <= settings.max_notional_per_trade
                        /\ required * 100 <= settings.max_position_pct * current_equity(w.ex)
                        /\ required <= w.ex.cash,
        max_positions |-> held = 0 /\ active_positions(w.ex) >= EffectiveMaxOpenPositions(settings)]

account == [equity |-> current_equity(w.ex), day_start |-> w.ex.day_start,
            gross |-> gross_exposure(w.ex), active |-> active_positions(w.ex)]

\* Mutant: the session does not scale the configured quantity.
entry_quantity_any_session(multiplier) ==
    (settings.worker_order_quantity * multiplier) \div 100

\* What a new entry buys: sized by risk, or the configured quantity; 0 for none.
entry_quantity(multiplier) ==
    LET regime == IF settings.enable_strategy_gating THEN RegimeMultiplier(bar.market, settings) ELSE 100
        quantity ==
            IF settings.enable_position_sizing
            THEN calculate_position_size(bar.price, (regime * session.size_multiplier) \div 100,
                                         account, settings)
            ELSE (settings.worker_order_quantity * multiplier * session.size_multiplier) \div 10000
    IN IF settings.enable_risk_caps
          /\ evaluate_risk_policy(account, quantity * bar.price, settings) # {}
       THEN 0 ELSE quantity

\* _order_pricing: a limit order that gives way by the configured share.
order_price(side) ==
    IF session.state \in ExtendedSessions /\ settings.use_limit_orders
    THEN (bar.price * (IF side = "BUY" THEN 100 + settings.aggressiveness_pct
                       ELSE 100 - settings.aggressiveness_pct)) \div 100
    ELSE bar.price

order_of(side, quantity) ==
    [symbol |-> sym, side |-> side, quantity |-> quantity, price |-> order_price(side),
     bar_time |-> now - bar.age, extended_hours |-> session.state \in ExtendedSessions,
     limit |-> session.state \in ExtendedSessions /\ settings.use_limit_orders]

\* _plan_order: sell all when the session ends or no strategy is selected; buy when flat.
plan_order(selection) ==
    LET quantity == entry_quantity(selection.multiplier)
    IN CASE held > 0 /\ (ShouldForceFlatten(now, settings) \/ selection.strategy = "none") ->
                order_of("SELL", held)
         [] held = 0 /\ selection.strategy # "none" /\ quantity > 0 -> order_of("BUY", quantity)
         [] OTHER -> NoOrder

\* Where the symbol's cycle goes on with its order; a dry run only finishes the run.
after_planning(order) ==
    CASE order = NoOrder -> "lock"
      [] order # NoOrder /\ settings.worker_dry_run -> "finish"
      [] order # NoOrder /\ ~settings.worker_dry_run -> "order"

\* From the bars to the order, or none.
Decide ==
    /\ At("decide") /\ bar.loads
    /\ LET selection == select(candidates, bar.regime, global_state, Order)
           order == plan_order(selection)
       IN w' = [w EXCEPT !.sel = selection.strategy,
                         !.order = IF settings.worker_dry_run THEN NoOrder ELSE order,
                         !.at = after_planning(order)]
    /\ UNCHANGED <<settings, now, kill, book, lock, config, runs, orders, fills, budget, torn,
                   late_buys, chosen>>

\* record_order, unless its dedupe key exists, and submit_order, in memory.
RecordOrder ==
    /\ At("order")
    /\ IF order_exists_by_dedupe_key(sym, w.key)
       THEN w' = [w EXCEPT !.at = "finish"] /\ UNCHANGED orders
       ELSE LET result == submit_order(w.ex, w.order, settings)
            IN /\ record_order(sym, w.key)
               /\ w' = [w EXCEPT !.at = "status", !.ex = result.ex, !.status = result.status]
    /\ UNCHANGED <<settings, now, kill, book, lock, config, runs, fills, budget, torn,
                   late_buys, chosen>>

UpdateOrderStatus ==
    /\ At("status")
    /\ update_order_status(sym, w.key, w.status)
    /\ w' = [w EXCEPT !.at = IF w.status = "FILLED" THEN "fill" ELSE "finish"]
    /\ UNCHANGED <<settings, now, kill, book, lock, config, runs, fills, budget, torn,
                   late_buys, chosen>>

RecordFill ==
    /\ At("fill")
    /\ record_fill(w.order, w.key, w.sel)
    /\ late_buys' = IF kill /\ w.order.side = "BUY" THEN late_buys + 1 ELSE late_buys
    /\ w' = [w EXCEPT !.at = "lock"]
    /\ UNCHANGED <<settings, now, kill, book, lock, config, runs, orders, budget, torn, chosen>>

\* Mutant: a BUY does not take the lock; a position without one is adopted later.
synced_lock_of_position ==
    IF held = 0 \/ settings.allow_multi_strategy THEN w.locks[sym]
    ELSE IF w.locks[sym] = "none" /\ w.order = NoOrder THEN w.sel ELSE w.locks[sym]

\* _sync_lock_after_execution of a fill, _sync_lock_on_no_order without an order.
synced_lock ==
    CASE settings.allow_multi_strategy -> w.locks[sym]
      [] ~settings.allow_multi_strategy /\ w.order # NoOrder ->
            IF w.order.side = "BUY" THEN w.sel ELSE IF held = 0 THEN "none" ELSE w.locks[sym]
      [] ~settings.allow_multi_strategy /\ w.order = NoOrder ->
            IF held = 0 THEN "none"
            ELSE IF w.locks[sym] = "none" THEN w.sel ELSE w.locks[sym]

SyncLock ==
    /\ At("lock")
    /\ write_lock(sym, w.locks[sym], synced_lock)
    /\ w' = [w EXCEPT !.at = "finish", !.locks[sym] = synced_lock]
    /\ UNCHANGED <<settings, now, kill, book, config, runs, orders, fills, budget, torn,
                   late_buys, chosen>>

NextSymbol == [w EXCEPT !.at = "next", !.todo = Tail(@), !.sel = "none", !.order = NoOrder,
                        !.status = "none"]

\* finish_run with the selection, by which fills are attributed from now on.
FinishRun ==
    /\ At("finish")
    /\ finish_run(sym, w.key, "completed", w.sel)
    /\ w' = NextSymbol
    /\ UNCHANGED <<settings, now, kill, book, lock, config, orders, fills, budget, torn,
                   late_buys, chosen>>

\* Mutant: the error path does not finish the run.
SymbolFailsSilently ==
    /\ InSymbolCycle
    /\ \/ w.at = "decide" /\ ~bar.loads /\ UNCHANGED budget
       \/ Disturb
    /\ w' = NextSymbol
    /\ torn' = TRUE
    /\ UNCHANGED <<settings, now, kill, book, lock, config, runs, orders, fills, late_buys, chosen>>

\* Data that cannot be loaded, or an error of the database, ends the symbol's cycle;
\* what the executor filled stays in its memory.
SymbolFails ==
    /\ InSymbolCycle
    /\ \/ w.at = "decide" /\ ~bar.loads /\ UNCHANGED budget
       \/ Disturb
    /\ finish_run(sym, w.key, "failed", "none")
    /\ w' = NextSymbol
    /\ torn' = \/ torn
               \/ w.at = "status" /\ w.status = "FILLED"
               \/ w.at \in {"fill", "lock", "finish"}
    /\ UNCHANGED <<settings, now, kill, book, lock, config, orders, fills, late_buys, chosen>>

-----------------------------------------------------------------------------
(* run_once, after the loop.                                               *)

SaveBook ==
    /\ At("next") /\ w.todo = <<>>
    /\ book' = snapshot_state(w.ex)
    /\ w' = [w EXCEPT !.at = "release"]
    /\ UNCHANGED <<settings, now, kill, lock, config, runs, orders, fills, budget, torn,
                   late_buys, chosen>>

ReleaseStaleLocks ==
    /\ At("release")
    /\ lock' = [s \in Symbols |-> IF w.locks[s] # "none" /\ w.ex.pos[s] = 0 THEN "none" ELSE lock[s]]
    /\ w' = [w EXCEPT !.at = "trip"]
    /\ UNCHANGED <<settings, now, kill, book, config, runs, orders, fills, budget, torn,
                   late_buys, chosen>>

\* Mutant: the switch is only persisted when the cycle ended with an open position.
PersistKillWithPosition ==
    /\ At("trip")
    /\ kill' = \/ kill
               \/ w.ex.kill /\ Open(w.ex) # {}
    /\ w' = EndOfCycle
    /\ UNCHANGED <<settings, now, book, lock, config, runs, orders, fills, budget, torn,
                   late_buys, chosen>>

\* The executor's kill switch becomes the global one only here.
PersistKill ==
    /\ At("trip")
    /\ kill' = (kill \/ w.ex.kill)
    /\ w' = EndOfCycle
    /\ UNCHANGED <<settings, now, book, lock, config, runs, orders, fills, budget, torn,
                   late_buys, chosen>>

-----------------------------------------------------------------------------
(* The API process: one transaction per request.                           *)

\* TradingApiService starts: every strategy gets a row, "enabled" if it had none.
ApiStart ==
    /\ Disturb
    /\ config' = [st \in Strategies |-> IF config[st] = "absent" THEN "enabled" ELSE config[st]]
    /\ UNCHANGED <<settings, now, kill, book, lock, runs, orders, fills, w, torn, late_buys, chosen>>

update_strategy(st, status) ==
    /\ Disturb
    /\ config' = [config EXCEPT ![st] = status]
    /\ chosen' = IF status = "enabled" THEN chosen \cup {st} ELSE chosen \ {st}
    /\ UNCHANGED <<settings, now, kill, book, lock, runs, orders, fills, w, torn, late_buys>>

set_kill_switch(on) ==
    /\ Disturb
    /\ kill' = on
    /\ late_buys' = IF on THEN late_buys ELSE 0
    /\ UNCHANGED <<settings, now, book, lock, config, runs, orders, fills, w, torn, chosen>>

Operator ==
    \/ ApiStart
    \/ \E st \in Strategies, status \in {"enabled", "disabled"} : update_strategy(st, status)
    \/ \E on \in BOOLEAN : set_kill_switch(on)

Worker ==
    \/ RegisterCycle \/ RestoreAndScan \/ StartRun \/ Decide \/ RecordOrder \/ UpdateOrderStatus
    \/ RecordFill \/ SyncLock \/ FinishRun \/ SymbolFails \/ SaveBook \/ ReleaseStaleLocks
    \/ PersistKill

Next == WorkerStart \/ Crash \/ Tick \/ Worker \/ Operator

Spec == Init /\ [][Next]_vars

\* ENABLED Worker: between cycles the worker waits for the next bucket.
WorkerCanStep == w.up /\ (w.at = "idle" => CycleMayRun)

\* The process runs on while it is up: WF_w(Worker), with its ENABLED spelled out.
FairSpec == Spec /\ ([]<>~WorkerCanStep \/ []<><<Worker>>_w)

-----------------------------------------------------------------------------
(* Properties.                                                             *)

Signed(f) == IF f.side = "BUY" THEN f.quantity ELSE 0 - f.quantity
Net(s) == Total([i \in DOMAIN fills |-> IF fills[i].symbol = s THEN Signed(fills[i]) ELSE 0])
Spent == Total([i \in DOMAIN fills |-> Signed(fills[i]) * fills[i].price])

\* Between cycles the saved book and the recorded fills tell the same story: cash and
\* positions of save_portfolio_snapshot are what the fill rows add up to, unless a
\* crash or a failed transaction cut a symbol's cycle in two.
BooksMatchFills ==
    w.at = "idle" /\ ~torn =>
        /\ book.cash = InitialCapital - Spent
        /\ \A s \in Symbols : book.pos[s] = Net(s)

\* The strategy that last bought the symbol.
LastBuyer(s) ==
    LET buys == {i \in DOMAIN fills : fills[i].symbol = s /\ fills[i].side = "BUY"}
    IN fills[Max(buys)].strategy

\* One strategy per symbol: between cycles a position is locked by the strategy that
\* opened it, and no lock outlives its position (worker_allow_multi_strategy_per_symbol off).
LockFollowsPosition ==
    w.at = "idle" /\ ~torn /\ ~settings.allow_multi_strategy =>
        \A s \in Symbols : lock[s] = IF book.pos[s] = 0 THEN "none" ELSE LastBuyer(s)

\* Once the global kill switch is on, at most the one BUY that was already decided is
\* still recorded, whoever sets the switch and whatever dies: every later decision
\* reads the switch again, and the executor's copy of it is not enough.
OneLateBuy == late_buys <= 1

\* No day records more entries on that day's bars than max_trades_per_day, over all symbols
\* of a cycle, over restarts and failed transactions: the count is read from the fills, not
\* kept in memory.  A fill has the date of its bar: an entry on a bar of the day before
\* counts neither for the day it is made on nor against that day's limit.
DailyTradeLimit ==
    \A t \in Buckets :
        Cardinality({i \in buys_of_day(t) : MarketDate(fills[i].bucket) = MarketDate(t)})
            <= settings.max_trades_per_day

\* Positions are only opened in a session that lets them: by the scan's filter, or, when
\* only_open_in_market_hours is off, by the session's multiplier of 0 in every sizing path.
EntriesInOpenSessions ==
    \A i \in DOMAIN fills :
        fills[i].side = "BUY" => WorkerSession(fills[i].bucket, settings).can_open

\* The paper account never borrows, in the executor or in the saved book: the exposure
\* check of the risk manager holds at the price of the order, above the last price for a
\* limit BUY in extended hours, where selection and sizing have used the last price.
NeverBorrows == book.cash >= 0 /\ (w.up /\ w.at \notin {"idle", "restore"} => w.ex.cash >= 0)

\* A loss limit that trips inside the executor reaches the database, so that the next
\* cycle is paused, unless the process dies first.
TripReachesDatabase ==
    (w.up /\ w.at \notin {"idle", "restore"} /\ w.ex.kill) ~> (kill \/ ~w.up)

\* Every run the process has started is finished, one way or the other, unless the process
\* dies: no error of the data or of the database leaves a symbol's cycle half way.
RunsFinish ==
    \A s \in Symbols, t \in Buckets :
        (InSymbolCycle /\ sym = s /\ w.key = t)
            ~> (runs[s][t].status \in {"completed", "failed"} \/ ~w.up)

\* "Reconstruct closed long-only trade outcomes from fills": between cycles every position
\* that was bought and sold counts as a closed trade of some strategy.
ClosedTradesCounted ==
    w.at = "idle" /\ ~torn /\ fills # <<>> /\ (\A s \in Symbols : Net(s) = 0)
        => reconstruct_outcomes(Len(fills)) # <<>>
=============================================================================
