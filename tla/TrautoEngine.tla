----------------------------- MODULE TrautoEngine -----------------------------
(***************************************************************************)
(* The Trauto trading engine (src/trauto/core): the tick loop of           *)
(* TradingEngine (engine.py), the orders of one tick that UnifiedExecutor  *)
(* has in flight together (executor.py), the checks and circuit breakers   *)
(* of GlobalRiskManager (risk.py), and the operator's requests             *)
(* (src/trauto/dashboard/api.py) that arrive between two awaits, or, for   *)
(* the synchronous endpoints, from another thread.                         *)
(*                                                                         *)
(* A step goes from one await of the loop to the next.  The checks of all  *)
(* the signals of a tick are one step: asyncio.gather starts the orders    *)
(* one after the other and none has an answer before all are started.      *)
(* Account values are not modelled: the checks that read them (daily loss, *)
(* capital allocation) may turn out either way.  Strategy modes survive a  *)
(* restart: they are read back from data/strategy_config.json.             *)
(***************************************************************************)
EXTENDS Integers, Sequences, FiniteSets

CONSTANTS
    Brokers, Strategies, Symbols,
    GlobalMaxPositions,      \* config risk.global_max_positions
    ErrorThreshold,          \* config risk.circuit_breaker_error_threshold
    HourlyTripLimit,         \* config risk.circuit_breaker_hourly_trip_limit
    Cooldown, Hour,          \* the breaker's cooldown and 3600 s, in clock units
    MaxSignals,              \* signals of one tick, after deduplication
    FaultKinds,              \* what may go wrong: see AllFaults
    MaxTime,                 \* bound: clock units of one behaviour
    MaxFaults                \* bound: faults of one behaviour

(***************************************************************************)
(* "order", "refresh": place_order(), get_account() or get_positions()     *)
(* raises; "save": engine_state.json cannot be written; "crash": the       *)
(* process dies and is restarted; "tear": it dies while it writes that     *)
(* file, which write_text() has truncated.                                 *)
(***************************************************************************)
AllFaults == {"order", "refresh", "save", "crash", "tear"}

ASSUME EngineAssumption ==
    /\ IsFiniteSet(Brokers) /\ IsFiniteSet(Symbols) /\ IsFiniteSet(Strategies)
    /\ GlobalMaxPositions \in Nat \ {0} /\ MaxSignals \in Nat \ {0}
    /\ ErrorThreshold \in Nat \ {0} /\ HourlyTripLimit \in Nat \ {0}
    /\ Cooldown \in Nat /\ Hour \in Nat
    /\ MaxTime \in Nat \ {0} /\ MaxFaults \in Nat
    /\ FaultKinds \subseteq AllFaults

VARIABLES
    estop,        \* risk_manager._emergency_stop
    stateFile,    \* data/engine_state.json: "none", "on", "off" or "torn"
    running,      \* engine._running
    stopping,     \* a stop() is between setting the flag and its end
    mode,         \* strategy -> "live", "dry" (dry_run) or "off" (not enabled)
    cb,           \* broker -> its CircuitBreakerState
    pos,          \* broker -> the symbols it holds a position in
    snap,         \* engine.portfolio: the positions of the last refresh
    loop,         \* the tick loop: where it is, and brokers left to refresh
    flying,       \* signals of this tick whose order has no answer yet
    now,          \* time.monotonic()
    faults,       \* faults so far
    halted,       \* history: set_emergency_stop(True) has returned, no resume since
    trips         \* history: broker -> times it tripped since a human resumed it

vars == <<estop, stateFile, running, stopping, mode, cb, pos, snap, loop, flying, now,
          faults, halted, trips>>

engineVars == <<estop, stateFile, running, stopping, mode>>
history    == <<halted, trips>>

Modes == {"live", "dry", "off"}

Signals == [strategy : Strategies, broker : Brokers, symbol : Symbols, action : {"buy", "sell"}]

Fault(k) == k \in FaultKinds /\ faults < MaxFaults

-----------------------------------------------------------------------------
(* CircuitBreakerState.                                                    *)

NewBreaker == [errors |-> 0, tripped_at |-> 0, trips |-> 0, window |-> 0, manual |-> FALSE]

is_tripped(c) == c.tripped_at # 0

\* Mutant: more trips than the limit, not as many.
record_error_More(c) ==
    LET fresh == now - c.window > Hour
        count == 1 + IF fresh THEN 0 ELSE c.trips
    IN  IF c.errors + 1 < ErrorThreshold \/ is_tripped(c)
        THEN [c EXCEPT !.errors = @ + 1]
        ELSE [ errors |-> c.errors + 1, tripped_at |-> now, trips |-> count,
               window |-> IF fresh THEN now ELSE c.window,
               manual |-> c.manual \/ count > HourlyTripLimit ]

\* The hour window restarts at a trip that finds it over.
record_error(c) ==
    LET fresh == now - c.window > Hour
        count == 1 + IF fresh THEN 0 ELSE c.trips
    IN  IF c.errors + 1 < ErrorThreshold \/ is_tripped(c)
        THEN [c EXCEPT !.errors = @ + 1]
        ELSE [ errors |-> c.errors + 1, tripped_at |-> now, trips |-> count,
               window |-> IF fresh THEN now ELSE c.window,
               manual |-> c.manual \/ count >= HourlyTripLimit ]

\* Mutant: an order that succeeds closes the breaker.
record_success_Closes(c) == [c EXCEPT !.errors = 0, !.tripped_at = 0]

record_success(c) == [c EXCEPT !.errors = 0]

try_auto_resume(c) ==
    IF is_tripped(c) /\ ~c.manual /\ now - c.tripped_at >= Cooldown
    THEN [c EXCEPT !.tripped_at = 0, !.errors = 0]
    ELSE c

manual_resume(c) == [c EXCEPT !.tripped_at = 0, !.errors = 0, !.manual = FALSE]

\* A broker call raised: the breaker's and the histories' new values.
RecordBrokerError(b) ==
    LET c == record_error(cb[b]) IN
    /\ cb' = [cb EXCEPT ![b] = c]
    /\ trips' = [trips EXCEPT ![b] = IF is_tripped(c) /\ ~is_tripped(cb[b])
                                     THEN Append(@, now) ELSE @]

-----------------------------------------------------------------------------
(* GlobalRiskManager.check.                                                *)

\* portfolio.total_open_positions, and what it would be if it were up to date.
HeldIn(positions) == {p \in Brokers \X Symbols : p[2] \in positions[p[1]]}
total_open_positions == Cardinality(HeldIn(snap))
OpenPositions == Cardinality(HeldIn(pos))

\* Checks 1, 2 and 4.
Passes(s) ==
    /\ ~estop
    /\ mode[s.strategy] # "off"
    /\ s.action = "buy" => total_open_positions < GlobalMaxPositions

\* At most one signal per (broker, symbol) is left in a tick.
Deduplicated(S) ==
    /\ Cardinality(S) <= MaxSignals
    /\ \A s, t \in S : s.broker = t.broker /\ s.symbol = t.symbol => s = t

-----------------------------------------------------------------------------
Init ==
    /\ estop = FALSE
    /\ stateFile = "none"
    /\ running = TRUE
    /\ stopping = FALSE
    /\ mode \in [Strategies -> Modes]
    /\ cb = [b \in Brokers |-> NewBreaker]
    /\ pos = [b \in Brokers |-> {}]
    /\ snap = [b \in Brokers |-> {}]
    /\ loop = [pc |-> "tick", todo |-> {}]
    /\ flying = {}
    /\ now = 1
    /\ faults = 0
    /\ halted = FALSE
    /\ trips = [b \in Brokers |-> << >>]

-----------------------------------------------------------------------------
(* The tick loop.                                                          *)

\* execute_batch() on the signals of a tick: each is checked and, if approved, its
\* order is sent.  A breaker whose cooldown is over closes at the first check that
\* reaches it.  The daily loss (check 3) stops all of them, a used up allocation
\* (check 7) any buy.
Tick(S) ==
    /\ loop.pc = "tick"
    /\ running
    /\ Deduplicated(S)
    /\ \E reached \in {{}, {s \in S : Passes(s)}}, full \in SUBSET {s \in S : s.action = "buy"} :
          LET after == [b \in Brokers |-> IF \E s \in reached : s.broker = b
                                          THEN try_auto_resume(cb[b]) ELSE cb[b]]
          IN  /\ cb' = after
              /\ flying' = {s \in reached \ full : /\ ~is_tripped(after[s.broker])
                                                   /\ mode[s.strategy] = "live"}
    /\ loop' = [loop EXCEPT !.pc = "orders"]
    /\ UNCHANGED <<engineVars, pos, snap, now, faults, history>>

\* The positions of a broker once the order of s took effect.
Applied(s, closes) ==
    [pos EXCEPT ![s.broker] = IF s.action = "buy" THEN @ \cup {s.symbol}
                              ELSE IF closes THEN @ \ {s.symbol} ELSE @]

OrderFilled(s) ==
    /\ s \in flying
    /\ flying' = flying \ {s}
    /\ \E closes \in BOOLEAN : pos' = Applied(s, closes)
    /\ cb' = [cb EXCEPT ![s.broker] = record_success(@)]
    /\ UNCHANGED <<engineVars, snap, loop, now, faults, halted, trips>>

\* A rejection counts neither as an error nor as a success.
OrderRejected(s) ==
    /\ s \in flying
    /\ flying' = flying \ {s}
    /\ UNCHANGED <<engineVars, cb, pos, snap, loop, now, faults, halted, trips>>

\* place_order() raises: the broker may have taken the order all the same.
OrderRaises(s) ==
    /\ s \in flying
    /\ Fault("order")
    /\ faults' = faults + 1
    /\ flying' = flying \ {s}
    /\ \E after \in {pos, Applied(s, TRUE)} : pos' = after
    /\ RecordBrokerError(s.broker)
    /\ UNCHANGED <<engineVars, snap, loop, now, halted>>

\* gather() returns: on to _refresh_portfolio().
OrdersDone ==
    /\ loop.pc = "orders"
    /\ flying = {}
    /\ loop' = [pc |-> "refresh", todo |-> Brokers]
    /\ UNCHANGED <<engineVars, cb, pos, snap, flying, now, faults, history>>

RefreshOk(b) ==
    /\ b \in loop.todo
    /\ loop' = [loop EXCEPT !.todo = @ \ {b}]
    /\ snap' = [snap EXCEPT ![b] = pos[b]]
    /\ UNCHANGED <<engineVars, cb, pos, flying, now, faults, halted, trips>>

\* The broker's last positions stay, and its breaker counts an error.
RefreshFails(b) ==
    /\ b \in loop.todo
    /\ Fault("refresh")
    /\ faults' = faults + 1
    /\ loop' = [loop EXCEPT !.todo = @ \ {b}]
    /\ RecordBrokerError(b)
    /\ UNCHANGED <<engineVars, pos, snap, flying, now, halted>>

TickEnd ==
    /\ loop.pc = "refresh"
    /\ loop.todo = {}
    /\ loop' = [loop EXCEPT !.pc = "tick"]
    /\ UNCHANGED <<engineVars, cb, pos, snap, flying, now, faults, history>>

\* The while loop finds _running cleared: start() returns.
LoopExit ==
    /\ loop.pc = "tick"
    /\ ~running
    /\ loop' = [loop EXCEPT !.pc = "stopped"]
    /\ UNCHANGED <<engineVars, cb, pos, snap, flying, now, faults, history>>

-----------------------------------------------------------------------------
(* The operator.                                                           *)

\* set_emergency_stop(): memory, then the file; an OSError is only logged.
SetEmergencyStop(on) ==
    /\ estop' = on
    /\ halted' = on
    /\ \/ stateFile' = (IF on THEN "on" ELSE "off") /\ faults' = faults
       \/ Fault("save") /\ stateFile' = stateFile /\ faults' = faults + 1

\* POST /api/engine/stop: the flag is set and written, then every broker is asked
\* for its positions.  One such request at a time is in this stage.
StopBegin ==
    /\ ~stopping
    /\ SetEmergencyStop(TRUE)
    /\ stopping' = TRUE
    /\ UNCHANGED <<running, mode, cb, pos, snap, loop, flying, now, trips>>

StopEnd ==
    /\ stopping
    /\ stopping' = FALSE
    /\ running' = FALSE
    /\ UNCHANGED <<estop, stateFile, mode, cb, pos, snap, loop, flying, now, faults, history>>

\* POST /api/engine/start.
Resume ==
    /\ SetEmergencyStop(FALSE)
    /\ UNCHANGED <<running, stopping, mode, cb, pos, snap, loop, flying, now, trips>>

\* POST /api/engine/circuit-breaker/{broker}/resume.
ManualResume(b) ==
    /\ cb' = [cb EXCEPT ![b] = manual_resume(@)]
    /\ trips' = [trips EXCEPT ![b] = << >>]
    /\ UNCHANGED <<engineVars, pos, snap, loop, flying, now, faults, halted>>

\* update_strategy(): enable, disable, or the dry_run flag.
UpdateStrategy(s, m) ==
    /\ mode' = [mode EXCEPT ![s] = m]
    /\ UNCHANGED <<estop, stateFile, running, stopping, cb, pos, snap, loop, flying, now,
                   faults, history>>

-----------------------------------------------------------------------------
(* Time and crashes.                                                       *)

Clock ==
    /\ now < MaxTime
    /\ now' = now + 1
    /\ UNCHANGED <<engineVars, cb, pos, snap, loop, flying, faults, history>>

\* Mutant: the file is not read.
LoadedStop_Never(file) == FALSE

\* _load_engine_state(): a missing or torn file reads as no stop.
LoadedStop(file) == file = "on"

\* The process is restarted with what is in the file; orders in flight may or may
\* not have reached their broker.
Restart(file) ==
    /\ stateFile' = file
    /\ estop' = LoadedStop(file)
    /\ running' = TRUE
    /\ stopping' = FALSE
    /\ cb' = [b \in Brokers |-> NewBreaker]
    /\ snap' = [b \in Brokers |-> {}]
    /\ loop' = [pc |-> "tick", todo |-> {}]
    /\ flying' = {}
    /\ \E done \in SUBSET flying :
          pos' = [b \in Brokers |->
                    (pos[b] \cup {s.symbol : s \in {t \in done : t.broker = b /\ t.action = "buy"}})
                       \ {s.symbol : s \in {t \in done : t.broker = b /\ t.action = "sell"}}]
    /\ trips' = [b \in Brokers |-> << >>]
    /\ faults' = faults + 1
    /\ UNCHANGED <<mode, now, halted>>

Crash == Fault("crash") /\ Restart(stateFile)

\* It dies in write_text(), during a stop or a resume.
CrashInWrite == Fault("tear") /\ Restart("torn")

-----------------------------------------------------------------------------
Loop ==
    \/ \E S \in SUBSET Signals : Tick(S)
    \/ \E s \in flying : OrderFilled(s) \/ OrderRejected(s) \/ OrderRaises(s)
    \/ OrdersDone
    \/ \E b \in Brokers : RefreshOk(b) \/ RefreshFails(b)
    \/ TickEnd
    \/ LoopExit

Operator ==
    \/ StopBegin
    \/ StopEnd
    \/ Resume
    \/ \E b \in Brokers : ManualResume(b)
    \/ \E s \in Strategies, m \in Modes : UpdateStrategy(s, m)

Next == Loop \/ Operator \/ Clock \/ Crash \/ CrashInWrite

Spec == Init /\ [][Next]_vars

-----------------------------------------------------------------------------
(* Properties.                                                             *)

Breakers == [ errors : Nat, tripped_at : 0..MaxTime, trips : Nat, window : 0..MaxTime,
              manual : BOOLEAN ]

\* Types: every variable stays in its domain, and orders are in flight only while
\* the loop waits for them.
TypeOK ==
    /\ {estop, running, stopping, halted} \subseteq BOOLEAN
    /\ stateFile \in {"none", "on", "off", "torn"}
    /\ mode \in [Strategies -> Modes]
    /\ cb \in [Brokers -> Breakers]
    /\ {pos, snap} \subseteq [Brokers -> SUBSET Symbols]
    /\ loop \in [pc : {"tick", "orders", "refresh", "stopped"}, todo : SUBSET Brokers]
    /\ flying \subseteq Signals
    /\ flying # {} => loop.pc = "orders"
    /\ now \in 1..MaxTime
    /\ faults \in 0..MaxFaults
    /\ trips \in [Brokers -> Seq(1..MaxTime)]

\* A stop that was set is still known to the process or to the file it restarts from.
StopKnown == estop \/ stateFile = "on"

\* Once an emergency stop was set, no new order is sent until the operator resumes
\* ("halts all new order execution immediately", api.py), as long as it is known: not
\* by the tick that was collecting signals, not by answers and refreshes that come
\* afterwards, and not after a restart.
StopHolds == [][halted /\ StopKnown => flying' \subseteq flying]_vars

\* The orders of one tick are all checked against the portfolio of the last refresh:
\* the position limit can be passed, but by no more than the signals of one tick.
OvershootBound == OpenPositions <= GlobalMaxPositions - 1 + MaxSignals

\* "Global max positions exceeded -> block new-position buys" (risk.py): no order is
\* sent for a new position while the brokers hold as many as the limit allows.
PositionCap ==
    [][\A s \in flying' \ flying :
          s.action = "buy" => OpenPositions < GlobalMaxPositions]_vars

\* A breaker that tripped closes only after its cooldown, or by a human, or with the
\* process: not by an answer to an order that was in flight when it tripped.
BreakerStaysOpen ==
    [][\A b \in Brokers : (is_tripped(cb[b]) /\ ~is_tripped(cb'[b])) =>
          \/ ~cb[b].manual /\ now - cb[b].tripped_at >= Cooldown
          \/ ManualResume(b)
          \/ Crash \/ CrashInWrite]_vars

\* The times of the last n trips lie within an hour.
WithinHour(ts, n) == Len(ts) >= n /\ ts[Len(ts)] - ts[Len(ts) - n + 1] <= Hour

\* A broker cannot go on tripping and resuming by itself: 2L - 1 trips within an hour
\* always hand it to a human, however they fall over the counting windows.
BreakerHandsOver ==
    \A b \in Brokers :
        (is_tripped(cb[b]) /\ WithinHour(trips[b], 2 * HourlyTripLimit - 1)) => cb[b].manual
=============================================================================
