---------------------------- MODULE PolyPositions ----------------------------
(***************************************************************************)
(* The life of a Polymarket position: the worker's scan/execute/monitor    *)
(* loop (src/src/polymarket/__main__.py, runner.py, executor.py,           *)
(* monitor.py, risk.py), the positions ledger (positions.py), and the      *)
(* dashboard process that may close positions and pause the worker         *)
(* (src/src/dashboard/api.py), over an exchange whose answers can be lost. *)
(*                                                                         *)
(* A step is atomic up to the next call to the exchange or the next ledger *)
(* write.  A ledger call (load, change, rename) is one step here; what two *)
(* processes overlapping inside it do is the subject of PolyLedgerFile.    *)
(*                                                                         *)
(* Tokens are counted in half lots: a BUY order is for one lot, that is    *)
(* two halves, because close_position divides the contracts it holds by    *)
(* the number of legs it sells.                                            *)
(***************************************************************************)
EXTENDS PolyStatus, Integers, Sequences, FiniteSets

CONSTANTS
    Markets,          \* condition ids
    NoMarket,         \* no market
    Strategies,       \* the executable strategies the scanner proposes
    MaxPositions,     \* config.max_positions
    MaxRetries,       \* config.max_retries
    DailyLossLimit,   \* config.daily_loss_limit, in units of one loss
    WebThreads,       \* request threads of the dashboard process
    MarketEvents,     \* what may happen to a market: "ended", "resolved"
    FaultKinds,       \* what may go wrong: see Fault
    MaxRecords,       \* bound: records the ledger grows to
    MaxFaults,        \* bound: faults of one behaviour
    MaxDay            \* bound: UTC days of one behaviour

StrategyNames ==
    {"orderbook_spread", "underround", "correlated_markets", "resolution_carry"}

(***************************************************************************)
(* "lost": the exchange accepts an order and the answer is lost;           *)
(* "dropped": the order never reaches it; "rejected": it refuses it;       *)
(* "rest": it is accepted, which is all the code looks at, and never       *)
(* fills; "read": a GET fails; "crash": a process dies; "save": the ledger *)
(* file cannot be written.                                                 *)
(***************************************************************************)
AllFaults == {"lost", "dropped", "rejected", "rest", "read", "crash", "save"}

ASSUME PolyAssumption ==
    /\ Strategies \subseteq StrategyNames
    /\ MaxPositions \in Nat \ {0}
    /\ MaxRetries \in Nat
    /\ DailyLossLimit \in Nat \ {0}
    /\ MarketEvents \subseteq {"ended", "resolved"}
    /\ FaultKinds \subseteq AllFaults
    /\ MaxRecords \in Nat /\ MaxFaults \in Nat /\ MaxDay \in Nat \ {0}

ASSUME ThreadsAssumption == "worker" \notin WebThreads

Closers == {"worker"} \cup WebThreads     \* who runs close_position

VARIABLES
    ledger,    \* data/polymarket_positions.json: a sequence of records
    held,      \* outcome tokens in the wallet: market -> leg -> half lots
    market,    \* market -> "trading", "ended" (end date passed) or "resolved"
    aged,      \* records past max_hold_hours, or past the unhedged grace
    paused,    \* the dashboard's pause flag file
    day,       \* the UTC date
    wk,        \* the worker's loop: program counter and locals
    cl,        \* closer -> the locals of its close_position call
    faults,    \* faults so far
    bought,    \* history: BUY orders the exchange accepted, per market and leg
    sold       \* history: per record, half lots sold and legs acknowledged

vars == <<ledger, held, market, aged, paused, day, wk, cl, faults, bought, sold>>

-----------------------------------------------------------------------------
(* The ledger: positions.py.                                               *)

Legs == {"YES", "NO"}
Sides == {"YES", "YES+NO", "BUY_LOW"}

Records ==
    [ market : Markets, side : Sides, status : Statuses,
      opened : 1..MaxDay, pnl : {-1, 0, 1} ]

ActiveRecords == {i \in DOMAIN ledger : ledger[i].status \in ACTIVE_STATUSES}

\* Mutant: only "open" records are counted.
open_count_OpenOnly == Cardinality({i \in DOMAIN ledger : ledger[i].status = "open"})

open_count == Cardinality(ActiveRecords)

\* Realized P&L of a set of records, each a gain or a loss of one unit.
PnlOf(S) == Cardinality({i \in S : ledger[i].pnl = 1})
              - Cardinality({i \in S : ledger[i].pnl = -1})

daily_pnl == PnlOf({i \in DOMAIN ledger : /\ ledger[i].status \in FINAL_STATUSES
                                          /\ ledger[i].opened = day})

\* transition(): an invalid one changes nothing, and callers ignore the answer.
transition(i, s) ==
    IF s \in VALID_TRANSITIONS[ledger[i].status]
    THEN [ledger EXCEPT ![i].status = s]
    ELSE ledger

\* Mutant: the fields are written without validation, as update_fields() does.
finalize_Unchecked(i, s, pnl) ==
    [ledger EXCEPT ![i] = [@ EXCEPT !.status = s, !.pnl = pnl]]

\* The same for a final status, with its pnl.
finalize(i, s, pnl) ==
    IF s \in VALID_TRANSITIONS[ledger[i].status]
    THEN [ledger EXCEPT ![i] = [@ EXCEPT !.status = s, !.pnl = pnl]]
    ELSE ledger

new_position(m, side, s) ==
    [market |-> m, side |-> side, status |-> s, opened |-> day, pnl |-> 0]

-----------------------------------------------------------------------------
(* Legs and sides: executor.py buys, monitor.py sells.                     *)

LegsOf(strategy) ==
    IF strategy \in {"orderbook_spread", "underround"} THEN <<"YES", "NO">> ELSE <<"YES">>

SideOf(strategy) ==
    CASE strategy \in {"orderbook_spread", "underround"} -> "YES+NO"
      [] strategy = "correlated_markets"                 -> "BUY_LOW"
      [] OTHER                                           -> "YES"

\* The legs a record of this side was bought with.
BoughtLegs(side) == IF side = "YES+NO" THEN {"YES", "NO"} ELSE {"YES"}

\* tokens_to_sell: close_position knows no token for the side "BUY_LOW".
tokens_to_sell(side) ==
    CASE side = "YES+NO" -> <<"YES", "NO">>
      [] side = "YES"    -> <<"YES">>
      [] OTHER           -> << >>

\* contracts / len(tokens_to_sell), in half lots.
contracts_per_leg(side) == IF side = "YES+NO" THEN 1 ELSE 2

-----------------------------------------------------------------------------
(* Faults and orders.                                                      *)

Fault(k) == k \in FaultKinds /\ faults < MaxFaults

\* attempt runs over range(max_retries + 1).
CanRetry(try) == try < MaxRetries

\* One pass of _place_order's retry loop.  "accepted" says whether the exchange took the
\* order, whatever the caller is told, "fills" whether it traded; "cost" counts the fault.
Attempts(can, try) ==
    LET transient == IF CanRetry(try) THEN "retry" ELSE "raise"
        answer(res, accepted, fills, cost) ==
            [res |-> res, accepted |-> accepted, fills |-> fills, cost |-> cost]
    IN  {answer(IF can THEN "ack" ELSE "raise", can, can, 0)}
          \cup (IF can /\ Fault("lost") THEN {answer(transient, TRUE, TRUE, 1)} ELSE {})
          \cup (IF can /\ Fault("rest") THEN {answer("ack", TRUE, FALSE, 1)} ELSE {})
          \cup (IF Fault("dropped") THEN {answer(transient, FALSE, FALSE, 1)} ELSE {})
          \cup (IF Fault("rejected") THEN {answer("raise", FALSE, FALSE, 1)} ELSE {})

-----------------------------------------------------------------------------
(* State.                                                                  *)

WorkerStates ==
    [ pc : {"loop", "buy", "record", "scanned", "monitor"},
      market : Markets \cup {NoMarket}, side : Sides, legs : Seq(Legs), try : 0..MaxRetries,
      got : SUBSET Legs, todo : SUBSET Nat, seen : Seq(Statuses) ]

CloserStates ==
    [ pc : {"idle", "mark", "books", "sell", "finish"}, pos : Nat, legs : Seq(Legs),
      ok : BOOLEAN, try : 0..MaxRetries ]

SaleStates == [halves : [Legs -> Nat], acked : SUBSET Legs]

IdleWorker ==
    [ pc |-> "loop", market |-> NoMarket, side |-> "YES", legs |-> << >>, try |-> 0,
      got |-> {}, todo |-> {}, seen |-> << >> ]

IdleCloser == [pc |-> "idle", pos |-> 0, legs |-> << >>, ok |-> TRUE, try |-> 0]

NoSales == [halves |-> [leg \in Legs |-> 0], acked |-> {}]

Init ==
    /\ ledger = << >>
    /\ held = [m \in Markets |-> [leg \in Legs |-> 0]]
    /\ market = [m \in Markets |-> "trading"]
    /\ aged = {}
    /\ paused = FALSE
    /\ day = 1
    /\ wk = IdleWorker
    /\ cl = [c \in Closers |-> IdleCloser]
    /\ faults = 0
    /\ bought = [m \in Markets |-> [leg \in Legs |-> 0]]
    /\ sold = << >>

-----------------------------------------------------------------------------
(* The worker: scan and execute.                                           *)

\* scan_and_execute() has a top opportunity that passes the risk guard's checks
\* 6 and 7 (the others do not depend on this state) and the preflights.
Execute(strategy, m) ==
    /\ wk.pc = "loop"
    /\ ~paused
    /\ market[m] # "resolved"
    /\ Len(ledger) < MaxRecords
    /\ open_count < MaxPositions
    /\ daily_pnl > -DailyLossLimit
    /\ wk' = [wk EXCEPT !.pc = "buy", !.market = m, !.side = SideOf(strategy),
                        !.legs = LegsOf(strategy)]
    /\ UNCHANGED <<ledger, held, market, aged, paused, day, cl, faults, bought, sold>>

\* The pause flag is set, or nothing was found, or a check or preflight failed.
SkipScan ==
    /\ wk.pc = "loop"
    /\ wk' = [wk EXCEPT !.pc = "scanned"]
    /\ UNCHANGED <<ledger, held, market, aged, paused, day, cl, faults, bought, sold>>

\* Mutant: a failure of the NO leg is swallowed too.
AfterBuy_Swallows(res) ==
    CASE res = "ack" ->
            [wk EXCEPT !.legs = Tail(@), !.try = 0, !.got = @ \cup {Head(wk.legs)},
                       !.pc = IF Len(wk.legs) = 1 THEN "record" ELSE "buy"]
      [] res = "retry" -> [wk EXCEPT !.try = @ + 1]
      [] OTHER -> [IdleWorker EXCEPT !.pc = "scanned"]

\* A leg that raises ends the execution: before any fill nothing is recorded,
\* after the YES leg the record will be "unhedged".
AfterBuy(res) ==
    CASE res = "ack" ->
            [wk EXCEPT !.legs = Tail(@), !.try = 0, !.got = @ \cup {Head(wk.legs)},
                       !.pc = IF Len(wk.legs) = 1 THEN "record" ELSE "buy"]
      [] res = "retry" -> [wk EXCEPT !.try = @ + 1]
      [] OTHER ->
            IF wk.got = {} THEN [IdleWorker EXCEPT !.pc = "scanned"]
                           ELSE [wk EXCEPT !.pc = "record", !.try = 0]

BuyLeg ==
    /\ wk.pc = "buy"
    /\ LET leg == Head(wk.legs)
           m   == wk.market
       IN  \E a \in Attempts(market[m] # "resolved", wk.try) :
              /\ wk' = AfterBuy(a.res)
              /\ faults' = faults + a.cost
              /\ bought' = IF a.accepted THEN [bought EXCEPT ![m][leg] = @ + 1] ELSE bought
              /\ held' = IF a.fills THEN [held EXCEPT ![m][leg] = @ + 2] ELSE held
    /\ UNCHANGED <<ledger, market, aged, paused, day, cl, sold>>

\* ledger.add() once the legs are done: "open", or "unhedged" with the YES leg only.
RecordPosition ==
    /\ wk.pc = "record"
    /\ ledger' = Append(ledger, IF wk.legs = << >>
                                THEN new_position(wk.market, wk.side, "open")
                                ELSE new_position(wk.market, "YES", "unhedged"))
    /\ sold' = Append(sold, NoSales)
    /\ wk' = [IdleWorker EXCEPT !.pc = "scanned"]
    /\ UNCHANGED <<held, market, aged, paused, day, cl, faults, bought>>

\* ledger.add() raises OSError; the main loop logs a scan error and goes on.
RecordFails ==
    /\ wk.pc = "record"
    /\ Fault("save")
    /\ faults' = faults + 1
    /\ wk' = [IdleWorker EXCEPT !.pc = "scanned"]
    /\ UNCHANGED <<ledger, held, market, aged, paused, day, cl, bought, sold>>

-----------------------------------------------------------------------------
(* The worker: monitor_positions.                                          *)

MonitorNotDue ==
    /\ wk.pc = "scanned"
    /\ wk' = [wk EXCEPT !.pc = "loop"]
    /\ UNCHANGED <<ledger, held, market, aged, paused, day, cl, faults, bought, sold>>

\* monitor_positions() loads the ledger once and works from that snapshot.
MonitorStart ==
    /\ wk.pc = "scanned"
    /\ wk' = [wk EXCEPT !.pc = "monitor", !.todo = ActiveRecords,
                        !.seen = [i \in DOMAIN ledger |-> ledger[i].status]]
    /\ UNCHANGED <<ledger, held, market, aged, paused, day, cl, faults, bought, sold>>

\* The record the monitor's for loop is at.
AtRecord(i) ==
    /\ wk.pc = "monitor"
    /\ cl["worker"].pc = "idle"
    /\ i \in wk.todo
    /\ \A j \in wk.todo : i <= j

NextRecord(i) == wk' = [wk EXCEPT !.todo = @ \ {i}]

\* Mutant: only a record seen "open" is marked.
Closing_OpenOnly(i, seen) ==
    [IdleCloser EXCEPT !.pc = IF seen = "open" THEN "mark" ELSE "books", !.pos = i]

\* close_position() as called with a record that was last seen in this status.
Closing(i, seen) ==
    [IdleCloser EXCEPT !.pc = IF seen = "closing" THEN "books" ELSE "mark", !.pos = i]

\* Mutant: the holding time is not looked at.
CloseReason_NoTime(i) == BOOLEAN

\* close_reason(): prices decide (profit target, stop loss) until time does.
CloseReason(i) == IF i \in aged THEN {TRUE} ELSE BOOLEAN

MaybeClose(i) ==
    \E reason \in CloseReason(i) :
        cl' = IF reason THEN [cl EXCEPT !["worker"] = Closing(i, wk.seen[i])] ELSE cl

\* A record seen in "closing" is only retried: resolution is not looked at.
MonitorRetryClose(i) ==
    /\ AtRecord(i)
    /\ wk.seen[i] = "closing"
    /\ NextRecord(i)
    /\ cl' = [cl EXCEPT !["worker"] = Closing(i, "closing")]
    /\ UNCHANGED <<ledger, held, market, aged, paused, day, faults, bought, sold>>

\* check_resolution() on a resolved market returns True: this record is done.
\* A complete pair pays out a gain, a bought low side is booked as a loss.
MonitorResolved(i) ==
    /\ AtRecord(i)
    /\ wk.seen[i] # "closing"
    /\ market[ledger[i].market] = "resolved"
    /\ NextRecord(i)
    /\ \E pnl \in CASE ledger[i].side = "YES+NO"  -> {1}
                    [] ledger[i].side = "BUY_LOW" -> {-1}
                    [] OTHER                      -> {-1, 1} :
          ledger' = finalize(i, "resolved", pnl)
    /\ UNCHANGED <<held, market, aged, paused, day, cl, faults, bought, sold>>

\* check_resolution() past the end date marks the record stale, returns False,
\* and the caller goes on to the close conditions.
MonitorStale(i) ==
    /\ AtRecord(i)
    /\ wk.seen[i] # "closing"
    /\ market[ledger[i].market] = "ended"
    /\ NextRecord(i)
    /\ ledger' = transition(i, "stale")
    /\ MaybeClose(i)
    /\ UNCHANGED <<held, market, aged, paused, day, faults, bought, sold>>

\* The market still trades.
MonitorTrading(i) ==
    /\ AtRecord(i)
    /\ wk.seen[i] # "closing"
    /\ market[ledger[i].market] = "trading"
    /\ NextRecord(i)
    /\ MaybeClose(i)
    /\ UNCHANGED <<ledger, held, market, aged, paused, day, faults, bought, sold>>

\* fetch_market_detail() or the ledger write in check_resolution() raises: the
\* close conditions are looked at all the same.
MonitorBlind(i) ==
    /\ AtRecord(i)
    /\ wk.seen[i] # "closing"
    /\ Fault("read") \/ (Fault("save") /\ market[ledger[i].market] # "trading")
    /\ NextRecord(i)
    /\ faults' = faults + 1
    /\ MaybeClose(i)
    /\ UNCHANGED <<ledger, held, market, aged, paused, day, bought, sold>>

\* update_fields() cannot write the unrealized P&L: monitor_positions() logs the
\* error and goes on with the next record.
MonitorSkips(i) ==
    /\ AtRecord(i)
    /\ wk.seen[i] # "closing"
    /\ Fault("save")
    /\ NextRecord(i)
    /\ faults' = faults + 1
    /\ UNCHANGED <<ledger, held, market, aged, paused, day, cl, bought, sold>>

MonitorEnd ==
    /\ wk.pc = "monitor"
    /\ cl["worker"].pc = "idle"
    /\ wk.todo = {}
    /\ wk' = IdleWorker
    /\ UNCHANGED <<ledger, held, market, aged, paused, day, cl, faults, bought, sold>>

-----------------------------------------------------------------------------
(* close_position, in the worker and in the dashboard's request threads.   *)

\* Mark the record before touching the exchange; the answer is not looked at.
CloseMark(c) ==
    /\ cl[c].pc = "mark"
    /\ ledger' = transition(cl[c].pos, "closing")
    /\ cl' = [cl EXCEPT ![c].pc = "books"]
    /\ UNCHANGED <<held, market, aged, paused, day, wk, faults, bought, sold>>

\* Order books read: the legs to sell are known.
CloseBooks(c) ==
    LET r == ledger[cl[c].pos] IN
    /\ cl[c].pc = "books"
    /\ market[r.market] # "resolved"
    /\ tokens_to_sell(r.side) # << >>
    /\ cl' = [cl EXCEPT ![c].pc = "sell", ![c].legs = tokens_to_sell(r.side)]
    /\ UNCHANGED <<ledger, held, market, aged, paused, day, wk, faults, bought, sold>>

\* No order book (a GET failed, or the market is gone), or no token to sell.
CloseUnavailable(c) ==
    LET r        == ledger[cl[c].pos]
        hopeless == market[r.market] = "resolved" \/ tokens_to_sell(r.side) = << >>
    IN
    /\ cl[c].pc = "books"
    /\ hopeless \/ Fault("read")
    /\ cl' = [cl EXCEPT ![c] = IdleCloser]
    /\ faults' = IF hopeless THEN faults ELSE faults + 1
    /\ UNCHANGED <<ledger, held, market, aged, paused, day, wk, bought, sold>>

\* Mutant: the last leg decides.
AfterSell_LastLeg(c, res) ==
    CASE res = "retry" -> [cl[c] EXCEPT !.try = @ + 1]
      [] OTHER -> [cl[c] EXCEPT !.legs = Tail(@), !.try = 0, !.ok = (res = "ack"),
                                !.pc = IF Len(cl[c].legs) = 1 THEN "finish" ELSE "sell"]

\* A leg that raises is skipped: the loop goes on to the other leg.
AfterSell(c, res) ==
    CASE res = "retry" -> [cl[c] EXCEPT !.try = @ + 1]
      [] OTHER -> [cl[c] EXCEPT !.legs = Tail(@), !.try = 0, !.ok = @ /\ res = "ack",
                                !.pc = IF Len(cl[c].legs) = 1 THEN "finish" ELSE "sell"]

\* Bound: halves sold beyond what a record can have bought are not counted on.
Plus(n, size) == IF n > 2 THEN n ELSE n + size

\* The history of a record after the attempt a to sell size half lots of a leg.
WithSale(sale, leg, size, a) ==
    [ halves |-> IF a.accepted THEN [sale.halves EXCEPT ![leg] = Plus(@, size)] ELSE sale.halves,
      acked  |-> IF a.res = "ack" THEN sale.acked \cup {leg} ELSE sale.acked ]

\* The exchange takes a SELL order for tokens the wallet holds, whoever bought them.
SellLeg(c) ==
    /\ cl[c].pc = "sell"
    /\ LET i    == cl[c].pos
           m    == ledger[i].market
           leg  == Head(cl[c].legs)
           size == contracts_per_leg(ledger[i].side)
           can  == held[m][leg] >= size /\ market[m] # "resolved"
       IN  \E a \in Attempts(can, cl[c].try) :
              /\ cl' = [cl EXCEPT ![c] = AfterSell(c, a.res)]
              /\ faults' = faults + a.cost
              /\ held' = IF a.fills THEN [held EXCEPT ![m][leg] = @ - size] ELSE held
              /\ sold' = [sold EXCEPT ![i] = WithSale(@, leg, size, a)]
    /\ UNCHANGED <<ledger, market, aged, paused, day, wk, bought>>

\* Every leg acknowledged: "closed" with the realized P&L.  Otherwise the record
\* stays in "closing" for the next cycle.
CloseFinish(c) ==
    /\ cl[c].pc = "finish"
    /\ IF cl[c].ok
       THEN \E pnl \in {-1, 1} : ledger' = finalize(cl[c].pos, "closed", pnl)
       ELSE ledger' = ledger
    /\ cl' = [cl EXCEPT ![c] = IdleCloser]
    /\ UNCHANGED <<held, market, aged, paused, day, wk, faults, bought, sold>>

\* The ledger write of CloseMark or CloseFinish raises OSError.
CloseSaveFails(c) ==
    /\ cl[c].pc \in {"mark", "finish"}
    /\ Fault("save")
    /\ faults' = faults + 1
    /\ cl' = [cl EXCEPT ![c] = IdleCloser]
    /\ UNCHANGED <<ledger, held, market, aged, paused, day, wk, bought, sold>>

-----------------------------------------------------------------------------
(* The dashboard process: dashboard/api.py and aggregator.py.              *)

\* post_poly_close() loads the record and finds it active.
WebClose(c, i) ==
    /\ cl[c].pc = "idle"
    /\ ledger[i].status \in ACTIVE_STATUSES
    /\ cl' = [cl EXCEPT ![c] = Closing(i, ledger[i].status)]
    /\ UNCHANGED <<ledger, held, market, aged, paused, day, wk, faults, bought, sold>>

\* The operator pauses the worker or lets it go on, where there is a dashboard.
SetPaused(flag) ==
    /\ WebThreads # {}
    /\ paused # flag
    /\ paused' = flag
    /\ UNCHANGED <<ledger, held, market, aged, day, wk, cl, faults, bought, sold>>

-----------------------------------------------------------------------------
(* The world: time, markets, crashes.                                      *)

MarketEvent(m, e) ==
    /\ e \in MarketEvents
    /\ \/ market[m] = "trading"
       \/ market[m] = "ended" /\ e = "resolved"
    /\ market' = [market EXCEPT ![m] = e]
    /\ UNCHANGED <<ledger, held, aged, paused, day, wk, cl, faults, bought, sold>>

Age(i) ==
    /\ i \notin aged
    /\ aged' = aged \cup {i}
    /\ UNCHANGED <<ledger, held, market, paused, day, wk, cl, faults, bought, sold>>

NextDay ==
    /\ day < MaxDay
    /\ day' = day + 1
    /\ UNCHANGED <<ledger, held, market, aged, paused, wk, cl, faults, bought, sold>>

\* The worker dies and is restarted: the ledger file is all it remembers.
CrashWorker ==
    /\ Fault("crash")
    /\ faults' = faults + 1
    /\ wk' = IdleWorker
    /\ cl' = [cl EXCEPT !["worker"] = IdleCloser]
    /\ UNCHANGED <<ledger, held, market, aged, paused, day, bought, sold>>

CrashWeb(c) ==
    /\ Fault("crash")
    /\ cl[c].pc # "idle"
    /\ faults' = faults + 1
    /\ cl' = [cl EXCEPT ![c] = IdleCloser]
    /\ UNCHANGED <<ledger, held, market, aged, paused, day, wk, bought, sold>>

-----------------------------------------------------------------------------
Scan ==
    \/ \E s \in Strategies, m \in Markets : Execute(s, m)
    \/ SkipScan

Buy == BuyLeg \/ RecordPosition \/ RecordFails

Monitor ==
    \/ MonitorStart
    \/ \E i \in DOMAIN ledger :
          \/ MonitorRetryClose(i)
          \/ MonitorResolved(i)
          \/ MonitorStale(i)
          \/ MonitorTrading(i)
          \/ MonitorBlind(i)
          \/ MonitorSkips(i)
    \/ MonitorEnd

ClosePosition(c) ==
    \/ CloseMark(c)
    \/ CloseBooks(c)
    \/ CloseUnavailable(c)
    \/ SellLeg(c)
    \/ CloseFinish(c)
    \/ CloseSaveFails(c)

Dashboard ==
    \/ \E c \in WebThreads : ClosePosition(c)
    \/ \E c \in WebThreads, i \in DOMAIN ledger : WebClose(c, i)
    \/ \E flag \in BOOLEAN : SetPaused(flag)

World ==
    \/ \E m \in Markets, e \in {"ended", "resolved"} : MarketEvent(m, e)
    \/ \E i \in DOMAIN ledger : Age(i)
    \/ NextDay
    \/ CrashWorker
    \/ \E c \in WebThreads : CrashWeb(c)

Next == Scan \/ Buy \/ MonitorNotDue \/ Monitor \/ ClosePosition("worker") \/ Dashboard \/ World

Spec == Init /\ [][Next]_vars

(***************************************************************************)
(* The worker is one thread.  Its calls of Polymarket have a timeout, so   *)
(* it keeps taking steps; each cycle sleeps at least 30 s, so              *)
(* monitor_interval_sec keeps elapsing and the monitor runs again and      *)
(* again.  That is so where no Coinbase credentials are set: with them the *)
(* thread also reads a balance through a client without a timeout (see     *)
(* Rebalance), which may hold it for good.  A request thread of the        *)
(* dashboard runs to its end.  Nothing is assumed of the operator, the     *)
(* markets, the prices or the scanner.                                     *)
(***************************************************************************)
WorkerStep == Scan \/ Buy \/ MonitorNotDue \/ Monitor \/ ClosePosition("worker")

Fairness ==
    /\ WF_vars(WorkerStep)
    /\ SF_vars(MonitorStart)
    /\ \A c \in WebThreads : WF_vars(ClosePosition(c))

FairSpec == Spec /\ Fairness

-----------------------------------------------------------------------------
(* Properties.                                                             *)

\* Types: every variable stays in its domain.
TypeOK ==
    /\ ledger \in Seq(Records)
    /\ held \in [Markets -> [Legs -> Int]]
    /\ market \in [Markets -> {"trading", "ended", "resolved"}]
    /\ aged \subseteq DOMAIN ledger
    /\ paused \in BOOLEAN
    /\ day \in 1..MaxDay
    /\ wk \in WorkerStates
    /\ cl \in [Closers -> CloserStates]
    /\ faults \in Nat
    /\ bought \in [Markets -> [Legs -> Nat]]
    /\ sold \in Seq(SaleStates)

\* Never more than max_positions active records: the check of RiskGuard and the
\* ledger.add() it allows are many steps apart, with orders, closes by the
\* dashboard, failed legs and crashes in between (risk.py check 6).
PositionLimit == Cardinality(ActiveRecords) <= MaxPositions

\* A record for which a SELL was sent is no longer "open" or "unhedged": close_position
\* marks it before it touches the exchange, and whoever retries from an older
\* snapshot relies on that mark (monitor.py, "Mark as closing before touching the API").
MarkedBeforeSell ==
    \A i \in DOMAIN ledger :
        sold[i] # NoSales => ledger[i].status \notin {"open", "unhedged"}

\* A record is "closed" only when a SELL of every leg it was bought with has been
\* acknowledged, over however many attempts, by the worker or the dashboard.
ClosedOnlyAfterAck ==
    \A i \in DOMAIN ledger :
        ledger[i].status = "closed" => sold[i].acked = BoughtLegs(ledger[i].side)

\* BUY orders of market m and leg that some record, or the running execution, accounts for.
AccountedBuys(m, leg) ==
    Cardinality({i \in DOMAIN ledger : /\ ledger[i].market = m
                                       /\ leg \in BoughtLegs(ledger[i].side)})
      + (IF wk.market = m /\ leg \in wk.got THEN 1 ELSE 0)

\* Every BUY order the exchange accepted is on the ledger, or about to be: a YES
\* leg whose NO leg failed "must never be silently swallowed" (executor.py), and a
\* failed first leg means "nothing filled" (tests/polymarket/test_executor.py).
EveryBuyRecorded ==
    \A m \in Markets, leg \in Legs : bought[m][leg] = AccountedBuys(m, leg)

\* No SELL goes beyond what record i bought: what is sold twice belongs to another
\* record of the market.
SoldWithin(i) ==
    \A leg \in Legs :
        sold[i].halves[leg] <= IF leg \in BoughtLegs(ledger[i].side) THEN 2 ELSE 0

\* close_position retries a close "next cycle" (monitor.py), however often, without
\* selling more than the record bought.
NeverOversold == \A i \in DOMAIN ledger : SoldWithin(i)

\* That much holds for the records that are not pairs, unhedged ones included: their only
\* SELL is the last thing that can fail before "closed" is written.
SingleNeverOversold == \A i \in DOMAIN ledger : ledger[i].side # "YES+NO" => SoldWithin(i)

\* A record the worker cannot get rid of: its market was resolved, and the life cycle takes
\* no "resolved" from "unhedged" or "closing"; or its close cannot be filled, because its
\* order never was, or a retry for a pair of the market has sold its tokens.
Stuck(i) ==
    /\ i \in DOMAIN ledger
    /\ \/ market[ledger[i].market] = "resolved" /\ ledger[i].status \in {"unhedged", "closing"}
       \/ ledger[i].status = "closing" /\ held[ledger[i].market]["YES"] < contracts_per_leg("YES")

\* A record of a single YES leg past its maximum holding time leaves the active set,
\* whether or not the worker goes on buying and however the retries fall ("On
\* failure: marks "closing" for retry next cycle", monitor.py), or it is stuck for good in
\* one of the ways named: there is no other.
AgedPositionLeaves ==
    \A i \in 1..MaxRecords :
        (i \in aged /\ ledger[i].side = "YES")
            ~> (\/ i \in DOMAIN ledger /\ ledger[i].status \in TERMINAL
                \/ []Stuck(i))

\* The ledger the outside sees implements the abstract one.
Lifecycle == INSTANCE PolyLifecycle
    WITH status <- [i \in DOMAIN ledger |-> ledger[i].status]

LifecycleSpec == Lifecycle!Spec
=============================================================================
