# Formal models of ThetaData

TLA+ modules for the parts of this repository where steps of several processes,
threads, orders, transactions and restarts can interleave. TLC checks them on small
instances; TLAPS proves the main properties of eight modules for every value of their
constants. Paths below are relative to the repository root.

To run a check: `tlc -config poly_core.cfg MCPolyPositions.tla`; to check proofs:
`tlapm PolyPositions_proofs.tla`, and likewise for every `*_proofs` module.
`PROJECT.json` lists the runs with what each shows, the mutants (one deliberate bug per
property, which the property must notice), the source lines each definition stands for,
the findings, the hazards and the theorems.

## 1. The system

The repository is a set of trading programs that share code, a database and data files.

| Component | State it keeps | Operations | What is hard | What makes it correct |
|---|---|---|---|---|
| **Polymarket worker** (`src/polymarket`): scan, risk check, order legs, monitor, close | `data/polymarket_positions.json`; tokens in the wallet; the loop's locals | scan-and-execute, place a leg with retries, record, monitor cycle, close_position, resolution | an order whose answer is lost; a death between an order and the write about it; the dashboard closes records in the middle; two legs, one fails | the position limit holds; every buy is on the ledger; nothing is sold that was not bought; records leave the active set |
| **Positions ledger** (`src/polymarket/positions.py`) | the JSON file and its `.tmp` | load, add, transition, update_fields | two processes, no lock, one `.tmp` name, deaths half way | the file is whole and loses no record |
| **Signal parameters** (`polymarket/signals.py`, `tuner.py`, `feedback.py`) | parameter file, proposal file, history directory; parameters in memory of two processes | run, apply, reject, reload | files truncated in place, an apply beside a run | parameters stay in their bounds; what is replaced has a backup |
| **Operations dashboard** (`src/dashboard`) | the pause flag file | close a position, pause, resume, read-only summaries | runs in its own process beside the worker | as for the ledger |
| **Trauto engine** (`trauto/core`) with its endpoints (`trauto/dashboard/api.py`) | emergency stop and its file, circuit breakers, portfolio snapshot, running flag | tick, concurrent orders, refresh, stop, resume, breaker resume, start | operator calls between awaits, answers after a trip, the first tick after a restart | a stop holds; the position limit; a breaker that keeps tripping asks for a human |
| **AI proposals** (`trauto/ai`) | tables of proposals, parameters, log and token usage | scheduled and requested analysis, apply, reject, apply by timer | two processes, a timer and an operator on one table without locks | a proposal is decided once; timers fire; usage is counted |
| **Capital rebalance** (`src/capital`) | cooldown registry in memory | evaluate, withdraw, wait for the deposit | lost answers, late money, money of others during a wait, restarts, balances that cannot be read | a cooldown between two transfers; no money is confirmed twice |
| **Funding arbitrage** (`funding_arb`) | positions on two venues, none of them remembered | scan, enter an arb, open a basis trade, unwind its first leg | one leg fails, closing the other fails too; a refusal in a body reads as a success; runner and monitor enter the same asset | a one-sided position nobody was told of comes from a misread answer only |
| **Theta runner** (`theta`) | daily budget, cooldowns and back-off in memory | propose, allocate, check, execute, record; SIGTERM | checks of a tick all precede its records; lost answers; restart | the daily budget, the limits of a tick, cooldowns |
| **Trading worker** (`src/worker`) with **paper executor and risk manager** (`src/execution`, `src/risk`) and the rules (`src/trading`, `src/selection`) | the executor of a cycle; book, locks, runs, orders, fills, kill switch in the database | run_once, the cycle of a symbol, restore, snapshot | a transaction per row, a crash between any two, an operator who sets the kill switch in the middle | books match fills; locks follow positions; daily limits; no borrowing; a trip reaches the database |
| **Authentication** (`src/auth`) | password, sessions, failed attempts in the database | log in, authenticate, log out, change the password, bootstrap | several transactions per request, concurrent requests | a block is earned; a logged-out session is not used |
| **Operator API** (`src/api`) | kill switch and strategies in memory and in the database; backtest runs | toggle, status, update a strategy, run a backtest | memory and database change in different steps; failing transactions; restart | they agree in the end; a completed run is complete |
| **Deployment configuration** (`src/config/deployment.py`, `polymarket/config.py`) | none: the environment, read twice | accept or refuse, choose the worker, start the carry trades' monitor beside it | different defaults and checks of the two readings, and variables only the monitor reads | orders are sent only by who was asked to |
| Polymarket market maker and scanners, Trauto strategies and brokers, analytics, backtests, CLI, web user interface, scripts | see section 6 | | | |

How they interact: the Polymarket worker and the dashboard share the ledger file, the
pause flag and the parameter files; the worker calls the rebalance cycle in its own
thread after each scan, so a wait for a deposit keeps the monitor waiting; the Trauto
API changes the engine between two awaits of its loop; the AI loop, the scanner and
the API share tables; the trading worker and the operator API share the kill switch and
the strategy rows; the Polymarket worker's process runs the funding monitor in a thread
of its own, and the theta runner enters trades on the same venues. Exchanges and brokers answer
each request, late, wrongly or never.

`PROJECT.json` lists every component with its status, and under "hazards" where in
the code each of these dangers bites.

## 2. Modules

| Module | Models | Extends |
|---|---|---|
| `PolyStatus` | the statuses of a record and `VALID_TRANSITIONS` | |
| `PolyLifecycle` | abstract: a list of statuses, each moving along the transition table; additions only below the limit | `PolyStatus` |
| `PolyPositions` | worker loop, order legs, monitor, `close_position`, dashboard threads, markets, days, crashes | `PolyStatus` |
| `PolyLedger` | abstract: a table changed by one call at a time | `PolyStatus` |
| `PolyLedgerFile` | the ledger as a file: read all, write `.tmp`, rename, in several processes | `PolyStatus` |
| `TrautoEngine` | tick, orders in flight, refreshes, breakers, emergency stop and its file, restart | |
| `Rebalance` | snapshot, triggers, withdrawal, wait, cooldown, late money and money of others, restart | |
| `FundingArb` | the carry trades and their monitor, as processes over two venues | |
| `ThetaRunner` | the runner's tick, allocator, strategies, orders, shutdown, restart | `FundingArb` |
| `TradingRules` | sessions, filters, gates, sizing, selection: operators over a settings record | |
| `PaperExecutor` | executor and risk manager: `submit_order` and what it calls, as operators | `TradingRules` |
| `Deployment` | the two readings of the environment, where a deployment sends real orders, and the limits a settings record has | |
| `TradingWorker` | `run_once` on the database, beside the API | `PaperExecutor`, `Deployment` |
| `SignalBounds` | parameters, bounds and threads that the next two share | |
| `SignalParams` | parameter, proposal and backup files | `SignalBounds` |
| `AiProposals` | the analyst's tables, gates, tiers, timers and decisions | `SignalBounds` |
| `AuthSessions` | logins, sessions, the password: one action per transaction | |
| `OperatorApi` | kill switch, strategies, backtest runs behind the sessions | `AuthSessions` |
| `*_proofs` | the theorems about a module | that module, `TLAPS` |
| `MC*` | the instances TLC checks | their component |

### PolyPositions

A step goes from one exchange call or ledger write to the next one, of any process.
`wk` is the worker: where it is in the loop, the legs it still has to buy, the legs
it `got`, the monitor's snapshot `seen` of the ledger (the code iterates over a list
it read at the start) and what is left of it. `cl[c]` holds the locals of one
`close_position` call, by the worker or by a request thread. `ledger` is the file, a
call of it one step: `PolyLedgerFile` opens that step up. `held` is the wallet.

| Code | Actions |
|---|---|
| `runner.scan_and_execute`, `risk.py` checks 6 and 7 | `Execute`, `SkipScan` |
| `executor._place_leg` with its retries, `execute` | `BuyLeg` over `Attempts`, `RecordPosition`, `RecordFails` |
| `__main__` monitor interval, `monitor.run_monitor_cycle` | `MonitorNotDue`, `MonitorStart`, `MonitorRetryClose`, `MonitorResolved`, `MonitorStale`, `MonitorTrading`, `MonitorBlind`, `MonitorSkips`, `MonitorEnd` |
| `monitor.close_position` | `CloseMark`, `CloseBooks`, `CloseUnavailable`, `SellLeg`, `CloseFinish`, `CloseSaveFails` |
| `dashboard/api.py` close, pause | `WebClose`, `SetPaused` |
| exchange, time, processes | `MarketEvent`, `Age`, `NextDay`, `CrashWorker`, `CrashWeb` |

Tokens are counted in half lots, because `close_position` divides the contracts of a
record by the number of legs it sells. `bought` and `sold` are histories, used by
properties only. Prices are not modelled: a close reason other than time may hold or
not, and profit is a gain or a loss of one unit.

### PolyLedgerFile

Inodes and names are distinct, so a writer that opened `.tmp` keeps writing the file
somebody else has renamed into place. A call is `CallAdd`, `CallTransition`,
`CallRejected` or `CallUpdateFields` (which read the file), then `SaveOpen`,
`SaveDump`, `SaveReplace`, or `SaveFails`, `SaveNotFound`, `Crash`. A file that
nothing names and nobody has open loses its bytes. Until two calls overlap, the file,
read at any time, refines the atomic table `PolyLedger` (`TableUntilOverlap`). Its names
differ from those of `PolyPositions` (`InitFile`, `NextFile`, `FileFaults`), so that one
proof module extends both and shows that they speak of the same table.

### TrautoEngine

A step goes from one await to the next. `Tick(S)` collects signals, deduplicates and
checks all of them, and puts the accepted ones in flight, in one step:
`asyncio.gather` starts every order before any has its answer. `OrderFilled`,
`OrderRejected`, `OrderRaises` answer them in any order, `RefreshOk` and
`RefreshFails` refresh the brokers in any order. `StopBegin`/`StopEnd`, `Resume`,
`ManualResume` and `UpdateStrategy` may come between any two of these. `Crash`
restarts from the state file, `CrashInWrite` leaves that file torn. Each breaker is the
record of `CircuitBreakerState`.

### Rebalance

The history `sent` says which withdrawals were accepted and which of them the worker
knows of; `inflow` and `credited` say, for each venue, what money ever came to it and
what was reported as a confirmed deposit. `w` is the worker inside `run_rebalance_cycle`.
`Cycle` takes the three probes and evaluates every ordered pair
of venues; `BridgeSubmitted`, `BridgeFails` and `BridgeAnswerLost` are the outcomes of
the bridge; `Sleep`, `PollConfirms`, `PollTimesOut` the wait. `Arrive` delivers
withdrawn money at any time, or never; `OthersBring` and `OthersTake` are a sale of the
dashboard, a deposit of the operator, a purchase, a margin: they move a venue's balance
during a wait too, and the poll, which looks at the balance only, takes them for the
transfer. Arrivals are exact: bridge fees, which the tolerance of 2% is for, are left out.

### FundingArb and ThetaRunner

An entry is one unit per leg, and a step is one order: `ArbSpotLeg` and `ArbPerpLeg`
(`enter_arb`), `BasisPerpLeg`, `BasisCoinbaseLeg` and `BasisUnwind`
(`open_basis_trade`). What the program takes an answer for and what the venue did may
differ in both directions (`LegOutcomes`): an answer is lost after the fill, or Hyperliquid
refuses with HTTP 200 and `statuses[].error`, which the code, looking only whether the body is
a dictionary, takes for success. `misread` counts the difference, in units of spot less perp, and
`cut` the assets of entries a process ended in. `job[p]` is the entry process `p` is
in: `"monitor"` scans (`BeginScan`, `ScanAsset`, `EndScan`, with the funding rates and
the window read once per scan), `"runner"` enters what the allocator chose. `Carry` is
`compare_carry` with its two annualisations.

`ThetaRunner` takes a deployment from `Profiles` and goes through a tick:
`EvaluateSpot`, `EvaluateMomentum`, `EvaluateFunding` propose, `Gate` applies the
global limits and the allocator to all proposals at once (`Select`: its ranking is the
order `Ahead` of places, and what it selects is the one member of a set, so that no
recursion stands between the allocator and a proof), `ExecuteCoinbase`,
`ExecuteDry` and `EnterFunding` carry out one trade after the other, `Record` books
it, `Report` and `Wake` end the tick. `Reached` says what came to the exchange and what
the runner knows of it; a carry trade goes on with `EnterLeg`, one of its two orders of the
trade's notional each, though the runner counts it once. `traded`, `uncounted` and `forgotten`
are histories.
`RunnerAssumption` says of a deployment what nothing in the code checks: no strategy is
switched on twice, no limit is negative.

### TradingRules, PaperExecutor and TradingWorker

Each call of the repository is a transaction; a step of the worker is what it does
from one to the next: `RegisterCycle`, `RestoreAndScan`, then per symbol `StartRun`,
`Decide` (signals, filters, gates, sizing, selection, session), `RecordOrder`,
`UpdateOrderStatus`, `RecordFill`, `SyncLock`, `FinishRun`, or `SymbolFails`; after all
symbols `SaveBook`, `ReleaseStaleLocks`, `PersistKill`. `Crash`, `ApiStart` and
`Operator` fall between any two. The executor is rebuilt from the saved book in every
cycle, so it is a record `ex` that `submit_order` maps to another. Settings have the
names of the code. Bars are a record of what the indicator code would say of them;
`BarsAssumption` says that a bar has a price and was not made in the future. The executor's
day and the risk manager's trading hours go by the bar's own clock, which for Alpaca's bars
is UTC: `UtcAhead` buckets ahead of the market's. `universe` is
the set of the one order in which a scan's symbols are taken.

### SignalParams and AiProposals

`SignalParams` opens the file writes up: `OpenParams` truncates, `WriteParams` fills;
the same for the proposal. A torn file is read as the defaults. An apply is
`BeginApply`, `ReadProposal` (again), `CountBackups`, `Backup`, `OpenParams`,
`WriteParams`, `Reload`, `Unlink`.

In `AiProposals` a thread (`"loop"`, `"scanner"`, a request) has one `job`. `Decide`
reads a row, `CommitDecision` writes it and the parameters. `BeginScheduled` selects the
due timers, `NextDue` decides them, `Gate` reads log, pending rows and budget,
`CallAnalyst` has any answer the validator lets through or none, `ApplyOwn`,
`ReadUsage`, `CountUsage`, `Log` end the analysis. `Fail` ends a thread at any
transaction, `Restart` all threads of a process. `timer` goes from "set" to "due".

### AuthSessions and OperatorApi

Request threads go through the transactions of a request; `OperatorApi` adds the
operations behind the authentication, and `Next`. A log-in is `CheckBlocked`, `Verify`,
`ReadAttempts`, `WriteAttempts` or `ClearAttempts`, `CreateSession`; a token is
`ReadToken`, `RevokeExpired` or `Touch`. `Kill`/`CommitKill`,
`SetStatus`/`Validate`/`UpsertStrategy`, `ReadSwitch`/`AssignSwitch` and
`StartRun`/`Work`/`RecordTrade`/`FinishRun`/`LogCompleted`/`FailRun` are the two sides
of memory and database. `DbFails` fails a transaction, `Restart` empties the memory,
`WorkerKills` is the trading worker's trip.

### Deployment

No behaviour: operators from an environment to what each reading makes of it, and to the
venues its worker process can move money on (`RealVenues`): Polymarket as the second reading
has it, Hyperliquid and Coinbase as the carry trades' monitor, which is started before that
reading, has `HL_DRY_RUN` and `BASIS_DRY_RUN`. `MCTradingWorker` evaluates the four statements
over all 460 800 environments, and that one of them is logged as a dry run and trades on two
venues (`CarriesUnseen`). `SettingsAssumption` holds the profiles of the worker's runs to
`LimitsOk`.

## 3. Runs

Every passing run explores its instance completely. Each property has a mutant that
breaks it under the same configuration.

| Run | Properties | What it shows |
|---|---|---|
| `poly_core` | `PositionLimit`, `MarkedBeforeSell`, `ClosedOnlyAfterAck`, `LifecycleSpec` | worker and one dashboard thread closing the same records, markets ending and resolving, one lost answer, refusal, failed save or crash |
| `poly_worker` | `EveryBuyRecorded`, `SingleNeverOversold`, `AgedPositionLeaves` | pairs, low sides and single legs, markets that end and resolve, one order dropped, refused or resting, or one failed read, retries, two days, a loss limit of one, under fairness: each accepted BUY is accounted for, no retry sells a single leg twice, an aged single-leg record leaves the active set or is stuck in a named way |
| `file_web` | `SafeWithoutOverlap`, `TableUntilOverlap` | two processes: whatever save fails or process dies, harm needs an overlap of two calls; until then the file implements the table of `PolyLedger` |
| `engine_ops` | `StopHolds`, `BreakerHandsOver`, `BreakerStaysOpen` | no order after a stop that memory or file still knows; 2L - 1 trips within an hour ask for a human; only a cooldown, a human or a restart closes a breaker; all faults |
| `rebal_core` | `CooldownHolds`, `ConfirmedBacked`, `WaitEnds` | a pair waits its cooldown even when the wait for the deposit is in vain; no money is confirmed twice, whoever brought it; each wait for Polymarket ends; all faults |
| `theta_run` | `BudgetBoundsTrading`, `TickWithinLimits`, `CooldownSpacesOrders`, `UnreportedIsMisread`, `NoBackwardation`, `TickEnds` | six deployments, one with the monitor beside the runner: the budget is passed by at most one trade a day on Coinbase and by the second orders of carry trades on Hyperliquid, a tick never trades against itself, one-sided carry is reported unless an answer was misread |
| `worker_core` | `BooksMatchFills`, `LockFollowsPosition`, `DailyTradeLimit`, `EntriesInOpenSessions`, `NeverBorrows` | four deployments, two strategies and symbols over a session, its after hours and the next day's session, with a crash, a database error or an operator request at any step |
| `worker_live` | `OneLateBuy`, `TripReachesDatabase`, `RunsFinish` | bars on UTC, two disturbances: what is still bought after the kill switch is on; a trip reaches the database; every run ends |
| `tuner_run` | `ParamsInBounds`, `BackupBeforeReplace` | runs, applies and rejects of three threads on the two files, a crash at any step |
| `ai_run` | `DecisionsHold`, `AnswersCounted`, `PendingBound`, `TimerDecides` | two analyses, operator and timers, one failed transaction or crash |
| `operator_run` | `BlockedAfterFailures`, `NoUseAfterLogout`, `AcknowledgedUpdatesLast`, `CompletedHasTrades`, `KillSwitchConverges` | two request threads, two failures or restarts, the worker's trip |

One run states what a comment of the repository says, and TLC finds the trace on which
the code does otherwise; it is the finding of `PROJECT.json`:

| Run | Stated | What happens |
|---|---|---|
| `worker_closed_trades` (`ClosedTradesCounted`) | closed trades are reconstructed from fills | a SELL is decided without a selected strategy, so its fill is attributed to "strategy_selector" and meets no position: no trade is ever closed |

### Where the properties end

The passing properties are as strong as the code allows. Loosening a configuration or
dropping a hypothesis shows where each stops to hold:

| Property | fails | because |
|---|---|---|
| `EveryBuyRecorded` | `poly_worker` with `"lost"` | an exception is taken for "not filled" |
| `SingleNeverOversold` | `poly_worker` with `"crash"`, `"lost"` or a web thread | the retry, or the second closer, does not ask what was sold |
| `AgedPositionLeaves` | without `side = "YES"` | a low side has no token to sell; a pair can have sold all of one leg and fails on it for ever |
| `AgedPositionLeaves` | without either line of `Stuck` | an unhedged or closing record of a resolved market may not become "resolved", has no book and is retried for ever (`monitor.py:246`, `:381`); a BUY that rests is recorded as a position, and its tokens cannot be sold |
| `SafeWithoutOverlap`, `TableUntilOverlap` | `file_web` with `"read"` in `FileFaults` | a read error is an empty list, and is written back |
| `StopHolds` | without `StopKnown` | a failed save is only logged; a torn file reads as no stop |
| `PositionCap`, `OvershootBound` | with crashes or failed refreshes | the first tick after a restart sees no positions; a failed refresh keeps old ones |
| `CooldownHolds` | without `known` | a lost answer starts no cooldown; the registry is in memory |
| `ConfirmedBacked` | without `read` | an unread baseline is 0.0 |
| `ConfirmedBacked` | said of the transfer that is waited for | the poll confirms on any rise of the balance (`deposit_acknowledger.py:81`) |
| `WaitEnds` | for transfers to Coinbase | its client has no timeout (`funding_arb/coinbase_client.py:47`) |
| `BudgetBoundsTrading` | on Hyperliquid with the budget itself | budget and cap per trade count one of the two orders of a carry trade (`funding_arb/executor.py:548`) |
| `TickEnds` | with a trade on Coinbase still to execute | a call that hangs holds the tick, and a SIGTERM with it |
| `BudgetBoundsTrading`, `CooldownSpacesOrders` | without `uncounted`, `forgotten` | a lost answer or a restart hides an order from the runner |
| `UnreportedIsMisread` | without `cut`; with 0 for `misread` | a crash between two legs leaves nothing that remembers them; a refusal in an HTTP 200 body reads as a success, so nobody is told of the other leg |
| `DailyTradeLimit` | counted by the day an entry is made | a fill has the date of its bar, and the limit compares that with today: an entry on a bar of the day before counts for neither day (`service.py:1595`) |
| `BooksMatchFills`, `LockFollowsPosition` | without `torn` | the book is saved after all symbols; positions whose fills are in the database are lost to a crash |
| `DecisionsHold` | without `raced` | timer and operator both read "pending" and both commit: applied twice, or applied and rejected |
| `AnswersCounted` | without `concurrent` | read and write of the usage are two transactions |
| `BackupBeforeReplace` | without `overlapped` | two applies count the same number of backups and write the same name |
| `BlockedAfterFailures` | without `overlapped` | a failure written late brings a cleared counter back |
| `AcknowledgedUpdatesLast` | without `taint` | rows are written in another order than memory; a refused update has already set the status in memory, and the next one writes it to the row |

### Disagreements met while modelling

Read in the source while the models were written; the models behave like the code, and
no run is kept for them. `poly`: `contracts_held` is per leg and divided by the number
of legs, so a pair is sold by half and closed (`monitor.py:318`); each retry sells both
legs again (`monitor.py:381`); a stale record, which "awaits a human", is sold in the
cycle that marks it (`monitor.py:227`). `engine`: start clears the stop, but the loop
has ended and nothing calls it again (`engine.py:168`, `trauto/dashboard/api.py:93`);
`engine.dry_run` is read and logged and no check looks at it (`engine.py:65`).
`rebalance`: scores are looked up by venue, while opportunities carry the name of a
strategy, so the venue funding arbitrage trades on scores 0 and is drained
(`rebalance_trigger.py:72`). `funding`: `HL_DRY_RUN`, which the header of
`executor.py` says gates all orders, is not looked at by the runner's strategy
(`theta/strategies/funding_arb.py:167`); every scan inside the window enters again; "If either
leg fails, logs a CRITICAL warning" (`executor.py:543`) is not kept for a leg refused in the body
of an HTTP 200 answer, Hyperliquid's ordinary refusal (`executor.py:235`, `:315`).
`theta`: "Hard cap on any single trade" (`runner.py:37`) and the daily budget count one of the two
orders of a carry trade; "finishing current tick then exiting" (`runner_worker.py:54`) waits for
ever on a call of Coinbase's client that hangs.
`worker`: the API writes an "enabled" row for every strategy that has none, also for
the conservative profile, whose default is off (`api/services.py:616`); a fresh
executor takes the equity as the day's start in each cycle, so the daily loss limit is
per cycle (`execution/executor.py:281`), and a change of the bars' date within a cycle, also
backwards, takes it anew; trading hours, which are New York's in `session.py:62`, are compared
with the time of the bar as it is, UTC for Alpaca's (`risk/manager.py:165`), so that orders of
the session's second half are refused as outside trading hours. `ai`: 30 fills hold at most 15
round trips and
20 are asked for, so every analysis is refused (theorem `NeverProposes`; `ai_run` takes
constants that let proposals through); applied proposals go to a table, while the
scorer loads the JSON file (`db.py:281`); `compute_change_impact` averages over all
parameters, though its docstring says the changed ones; a timer applies what was
validated against parameters that may have changed since. `tuner`: an apply reads the
proposal again, and removes by name one that was written meanwhile (`tuner.py:452`).
`operator`: a completed run becomes "failed" when the log event after it cannot be
written, and stays "running" after a crash (`services.py:896`); identical trades of a
backtest share a key; the bootstrap sets the password anew on each restart.
`deployment`: `docs/required-env-vars.md:18` says any true-like `LIVE_TRADING` is
rejected, the code defaults it to true in a live mode; `POLY_TRADING_MODE=disabled`
becomes another mode in the first reading and, with `POLY_DRY_RUN=false`, is refused by the
second, as is a blank `ALPACA_TRADING_MODE`, which the first reads as unset; "Dispatch to exactly
one venue-specific worker" and "as the only active worker" (`worker/__main__.py:118`, `:68`): the
Polymarket worker starts the carry trades' monitor too, which sends real orders to Hyperliquid
and Coinbase in a deployment that is logged as a dry run.

### Bounds

Bounds are constants, and each module names its own. *Polymarket*: two records of
one market are enough for one record's retry to sell what belongs to another, for
a slot to be freed and taken again, and for a snapshot of the monitor to be older than
the ledger; each fault of `poly_core` is needed once; in `poly_worker` one fault and a market
that ends or
resolves at any point reach each way in which a record is stuck. *File*: two ids, so that a list
can lose one of them; four files, as
many as two names and two writers can hold. *Engine*: a limit of one with two signals;
four clock units with a window of two and a cooldown of one let trips fall on both sides
of a window's edge. *Rebalance*: eight clock units hold three transfers of one pair; the
cooldown of three is longer than the timeout of two, so that it is the mark after a wait
in vain that matters; one movement of money by others, large enough to pass for the transfer.
*Theta*: two ticks, three of the deployment that only carries, so that budget and cooldown meet
a
second one, a midnight between or within them, one restart; one asset that both processes enter;
an edge
on each side of the hurdle. *Worker*: three buckets make two market days and a session after
hours on the
first, so that the second day meets fills and bars of the first; two symbols, so that an order
of a cycle sees the fill of another; bars that
break out, fall, are stale and are missing; quantities for which limits of exposure,
loss and number of positions each bind; the bars' clock is the market's in `worker_core`, whose day
of two buckets has one of trading, and one bucket ahead in `worker_live`, where the executor's hours
end before the session does. *Signals*: parameters next to their upper bound;
three begun operations, two of which can overlap while the third has left something
behind. *AI*: two analyses, the fewest with two proposals; a budget of one, so that it
stops the second. *Operator*: two threads; two requests besides status requests, which are
unbounded; two faults; two attempts until a block.

### Fairness

*Polymarket* (`FairSpec`): the worker is one thread whose calls of Polymarket have
timeouts, so it keeps taking steps (`WF_vars(WorkerStep)`), unless Coinbase credentials are set
and the balance the rebalance cycle reads there, through a client without a timeout, never
comes; each cycle sleeps at least
30 s, so the monitor interval elapses again and again while the scanner may go on
finding opportunities (`SF_vars(MonitorStart)`); a request thread runs to its end.
Nothing is assumed of operators, markets or prices. *Rebalance*: weak fairness of the worker
while it waits for Polymarket, whose probe has a
timeout, and of nothing that may call Coinbase; the
arrival of money is not fair. *Theta*: the process steps on in the places where it calls
Hyperliquid, whose calls have timeouts, or nobody; where it evaluates a strategy or executes a trade
on Coinbase it may stay for ever. *Worker*: the process steps on as long as it can. Both are the
guards of the steps written out (`RunnerCanStep`, `WorkerCanStep`), which is weak
fairness without ENABLED; crashes, time and operators are not fair. *AI*: the loop's
thread, which wakes every hour and catches what its steps raise, takes steps for ever.
*Operator* (`LiveSpec`): each request is answered; that status requests go on is a
hypothesis of `KillSwitchConverges`, as an open page polls it.

## 4. Proofs

Eight modules hold theorems; each rests only on the assumptions about constants that its
component names. Together they have some 14 100 obligations. Every invariant, every action
property and both refinements the passing runs check are theorems, and two of the seven
liveness properties. An inductive invariant was checked by TLC on the runs' instances before it
was proved.

Functions that recur over sets, `Cardinality` and `Total` (the sum of a function's
values), are reasoned about one member at a time. Where an argument is by induction, the
least counterexample is taken instead: a set of numbers that is not empty has a least
member (`Least`, from the well-foundedness of the naturals).

### Polymarket: `PolyPositions_proofs`

`TypeCorrect`, `LimitHolds`, `MarkHolds`, `ClosedAcknowledged`, `ImplementsLifecycle`
(`Spec => LifecycleSpec`). The inductive invariant `IInv` adds: `Shape` (a closer at work
has a record of the ledger and legs left, the monitor's snapshot is no longer than the
ledger); `SlotReserved` (while the worker buys, there is a free slot: the risk check saw
one, and only the worker adds records); `Marked` (a closer past its first write, a record
the monitor saw in "closing", and every record with a sale are no longer open or
unhedged); `Acknowledged` (a close that has not failed yet has the acknowledgements of the
legs it is past, which is what `Leftover` says of each of two closers of one record).
`LedgerStep` is the lemma the rest stands on: any step leaves the ledger alone, moves one
record along the transition table, or adds one. From it `CountStep` bounds the growth of
the active set, and the refinement maps each step to an abstract step or a stutter.

`BuysRecorded` has the hypothesis `Reliable` (no answer lost, no death, no failed save: the
faults without which the property is false, section 3): `Bought` compares what the running
execution has and has left to buy with what the exchange took. `SinglesSoldOnce` adds that
the dashboard closes nothing: `OneSale` says that a single record the worker has yet to
look at is unsold.

The ledger as a file, in the same module: `FileInv` holds for all faults. Until two calls
overlap, `SoleWriter` says that at most one process is in a call, that the file is whole and is
not the inode being written, that who writes has `.tmp` open, and that who is about to rename
has written all of it; `FileShape` has the types. `WholeAlone` (never half a list) follows.
`FileFaithful` adds that a call under way is one change (`OneChange`: nothing, one record moved
along the transition table, one record added) of the table a reader finds now, and that the
file has every acknowledged addition. It needs the hypothesis that reads do not fail, without which
`SafeWithoutOverlap` is false (section 3). `SafeAlone` and `FileIsTable` (the rename is the step
of `PolyLedger`, all others stutter) follow. `LedgerIsTable` proves of `PolyPositions` that
its ledger implements the same `PolyLedger`: the table that one model takes for granted is what
the other shows the file to be, for as long as no two calls overlap.

### Engine and rebalance: `TrautoEngine_proofs`, `Rebalance_proofs`

`EngineTypes`; `StopKept` (a restart may forget what memory knew; `FileAgrees` says that
while the engine is halted a file that reads "on" is never contradicted by memory, and the
flag stops `Tick`, the only action that sends); `BreakerStays`; `OvershootBounded` and
`CapKept`, under the assumption `Undisturbed` (no failed refresh, no restart: with them
both are false). The inductive `ExposureBound` counts what is held or can become held by
orders in flight. `HandedOver` (2L - 1 trips within an hour reach a human, for every limit
L): `HandInv` places the trips of the history against the breaker's counting window. The
window before the current one had fewer than L trips too, and it began at least an hour
before this one, so that 2L - 1 trips do not fit into an hour.

`RebalanceTypes`; `CooldownKept`, with `Registered` (every withdrawal the worker knows of
is in the registry, but for the one it waits for) and `BridgeReady` (the pair has waited
its cooldown when the bridge is called); `ConfirmationsBacked`, with `Backed`: while a
worker that has read its baseline is under way, the sum of what is already credited at its
destination and of what the balance has risen above the baseline is within what came to the
venue, so that a confirmation uses money no other has used. `WaitRunsOut` is what `WaitEnds`
rests on: a wait has between 0 and `TimeoutSec` left,
each step of the waiting worker takes from it, and no arrival gives it any.

### Theta: `ThetaRunner_proofs`

For any number of processes and assets: `OneSidedIsMisread` and `CarryForward`.
`UnreportedIsMisread` speaks of assets nobody is entering; the inductive `Balanced` says of
all of them that an asset without an alarm or an entry cut in two is exposed by exactly what was
misread and what the entries under way hold, which is a difference of two cardinalities;
`UnwindsTold` says that
who unwinds has raised the alarm, and `NoBackwardation` that a basis entry always has its
second leg to come.

For any strategies, limits, prices and answers: `BudgetKept`, `TickLimitsKept`,
`OrdersSpaced`. `OneEach` (a strategy has at most one proposal) makes the two trades of a
selection differ in strategy; `Ordered` says that what is selected is sound as a whole and
that what was done is part of it, in order; `Budgeted` that what reached an exchange and is
known is recorded or is the trade being recorded, `Carried` the same of carry trades, of which
an entry under way has up to two orders still unsent (`Unsent`): what reached Hyperliquid and
what is unsent are within twice what is recorded or owed, and since only one strategy trades
there the recorded amount stays within the budget, and that the checks of a tick, all of
which precede its records, leave the day over its budget by less than a trade, also when
midnight falls into the tick; `Spaced` that an order which was not forgotten cools its
strategy, and what is still to be executed does not cool.

`AllTicksEnd` is liveness, of the part of a tick with no trade on Coinbase left in it: once it is
reached it is not left (`NoCoinbaseLeft`). From the invariant, its places form a chain: execute,
first leg, second leg, record, and the same for the second trade of a selection, which has at
most two. From each place the runner's next step leads further or ends the tick, and no step of
the market, the clock or the monitor moves it; a restart ends the tick. The fairness is written
without ENABLED (section 3), so that each link of the
chain, and their composition, is propositional temporal logic.

### Trading worker and deployment: `TradingWorker_proofs`

For any symbols, strategies, settings, bars and calendar, any number of cycles, crashes,
database errors and requests:

- `Shape` is the types of the database and of the worker's locals at each point of a cycle,
  and that a sale sells the whole position and a purchase starts one. That an account never
  owes (`NoDebts`) is part of it: cash stays a natural number because the order that was
  checked against exposure and position limits is the one that is filled.
- `TradesShow`: what a cycle has traded shows in the positions, so that a cycle cut off is
  seen by comparing the executor with the book, which is how `torn` is defined. Without it
  a crash could leave fills that the book lacks and the history does not excuse.
- `BooksInv` (`BooksAgree`): cash and positions of the executor are the sums of the fill
  rows and the fill still to be recorded; a section on sums over finite sets gives what
  `Net` and `Spent` become when a row is added.
- `LocksInv` (`LocksFollow`): the lock of a symbol follows the strategy of its last BUY row,
  but for the symbol between its fill and its sync.
- `EntriesInv` (`OpenEntries`), `LimitInv` (`DayLimited`), `LateInv` (`OneLate`): a BUY that
  has been planned has passed session, limit and kill switch, and nothing between the plan
  and the record takes that back but a new kill.
- `AllRunsFinish` is liveness, by the chain of the points of a symbol's cycle as in the theta
  runner; no error of data or database and no operator request leads back. `RunsShape` says
  that the run history stays one row for each symbol and bucket, which the last point closes.
- `TripInTime` (`TripDescends`): while a trip is in the executor only, every step of the worker
  keeps it there and lowers `CycleLeft`, which counts the points left for all symbols to come,
  or puts it into the database, or the process dies.

The deployment has no behaviour: `LiveDeployment`, `RealOrders`, `OneReading` and
`SecondReading` (which is an equivalence: it says what the second reading refuses, and that it
refuses nothing else) hold for every environment.

### Signals, proposals, operators

`SignalParams_proofs`: `BoundsKept`, inductive together with the types of files and
jobs; `BackupsKept`, with `BackupInv`: while no two applies overlap, backups are numbered
from 1, the next number is new, and who is about to truncate the file has left all of the
past in backups.

`AiProposals_proofs`: `DecisionsAreFinal`, with `Deciders` (while nobody raced, who
commits has a pending proposal and has it alone) and `Recorded` (an applied proposal has
exactly one row, any other none); `OneUndecided`, with `CallOk` (a scheduled analysis
about to propose has none pending); `AnswersAreCounted`, with `UsageInv`: counter and
answers differ by the analyses whose answer is yet to be counted; `NeverProposes`:
`MaxFills < 2 * MinTradeCount`, which the constants of the code satisfy, implies that no
proposal is ever made.

`OperatorApi_proofs`: `CompletedRuns`, with `RunsInv` (no two threads have the same run,
and the trades it has and those left add up); `LoggedOut`, with `SessionsInv` (a request
that came late has got to the session's row, which says that it is revoked);
`BlocksEarned`, with `LoginsInv` (while no logins overlap, the counter, in the row or on its
way there, is no more than the wrong passwords of the window); `UpdatesLast`, with
`UpdatesInv`, by cases of what is tainted: nothing, the memory (an update failed after it
had set the status), or the row too (updates overlapped, or a later one wrote what the
failed one had left).

### Only model-checked

Five liveness properties. `TripReachesDatabase` and `WaitEnds` have a variant that is proved to
descend (`TripInTime`, `WaitRunsOut`), but its bound depends on the constants, and the last
step, from a natural number that keeps falling to "eventually", is an induction on a temporal
formula, which the installed provers cannot do. The same induction, over the faults and
requests that are left, stands between fairness and `TimerDecides` or `KillSwitchConverges`.
`AgedPositionLeaves` (and `WaitEnds`) have WF and SF, so ENABLED, which is out of the prover's
reach. And the violation of `ClosedTradesCounted`, which is a trace.

## 5. What is left out of the modelled components

Dry-run branches of Polymarket (they send nothing), order prices and sizes there,
`fills.jsonl` and the database mirrors; comparisons of a risk guard that look at one
opportunity and configuration only; account values of the engine (checks that read them
may turn out either way), its alerts and statistics, and the whole-file strategy
configuration, which the later of two writers wins (`engine.py:335`); the signing of
Hyperliquid orders, `close_basis_trade` and `funding_arb/positions.py`, which nothing
calls; log rows and heartbeats of the worker, `cancel_order` and `mark_to_market`, which
it never calls, an unset stop loss; the analyst's prompt and the turn of the month; the
hashing of passwords, several users and the inactive user; the seeding of strategy
configurations, and read-only responses; logging and formatting everywhere.

## 6. Not modelled

- *Polymarket market access, scanners and signals; market maker*: HTTP and
  floating-point functions of order books. The models take their answers as any
  opportunity, price or failure.
- *Trauto strategies, brokers, scheduler, clock, event bus*: adapters and wall-clock
  predicates without a protocol; the bus has no subscriber outside tests.
- *Backtests (`polymarket/backtest.py`, `trauto/backtester`, `src/backtest`), analytics,
  events, data*: replays and statistics of price series, without shared state.
- *CLI, observability, web user interface, scripts and deployment files*: command lines,
  formatting, a user interface over the API; the restart policy of the units is the crash
  and restart of the models.

Further proofs worth making: variants like `TripInTime` for `TimerDecides` and
`AgedPositionLeaves`, and `PolyPositions` over the file itself, in place of the table.
