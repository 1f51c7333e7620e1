-------------------------- MODULE TrautoEngine_proofs --------------------------
(***************************************************************************)
(* Theorems about TrautoEngine.                                            *)
(***************************************************************************)
EXTENDS TrautoEngine, FiniteSetTheorems, TLAPS

-----------------------------------------------------------------------------
(* Lemmas on the breakers: types, and what keeps one tripped.              *)

LEMMA BreakerTypes ==
    ASSUME NEW c \in Breakers, now \in 1..MaxTime
    PROVE  /\ record_error(c) \in Breakers
           /\ record_success(c) \in Breakers
           /\ try_auto_resume(c) \in Breakers
           /\ manual_resume(c) \in Breakers
           /\ NewBreaker \in Breakers
  <1> USE EngineAssumption DEF Breakers
  <1>0. /\ c.errors \in Nat /\ c.tripped_at \in 0..MaxTime /\ c.trips \in Nat
        /\ c.window \in 0..MaxTime /\ c.manual \in BOOLEAN /\ 0 \in 0..MaxTime
    OBVIOUS
  <1>1. record_error(c) \in Breakers
    <2> DEFINE fresh == now - c.window > Hour
               count == 1 + IF fresh THEN 0 ELSE c.trips
    <2>1. CASE c.errors + 1 < ErrorThreshold \/ is_tripped(c)
      BY <2>1 DEF record_error
    <2>2. CASE ~(c.errors + 1 < ErrorThreshold \/ is_tripped(c))
      <3>1. record_error(c) =
              [ errors |-> c.errors + 1, tripped_at |-> now, trips |-> count,
                window |-> IF fresh THEN now ELSE c.window,
                manual |-> c.manual \/ count >= HourlyTripLimit ]
        BY <2>2 DEF record_error
      <3>2. c.errors + 1 \in Nat /\ count \in Nat /\ now \in 0..MaxTime
        OBVIOUS
      <3>3. (IF fresh THEN now ELSE c.window) \in 0..MaxTime
        OBVIOUS
      <3>4. (c.manual \/ count >= HourlyTripLimit) \in BOOLEAN
        OBVIOUS
      <3> QED
        BY ONLY <3>1, <3>2, <3>3, <3>4 DEF Breakers
    <2> QED
      BY <2>1, <2>2
  <1>2. record_success(c) \in Breakers
    BY <1>0 DEF record_success
  <1>3. try_auto_resume(c) \in Breakers
    BY <1>0 DEF try_auto_resume
  <1>4. manual_resume(c) \in Breakers
    BY <1>0 DEF manual_resume
  <1>5. NewBreaker \in Breakers
    BY DEF NewBreaker
  <1> QED
    BY <1>1, <1>2, <1>3, <1>4, <1>5

\* An answer does not close a tripped breaker, whether it is an error or not.
LEMMA AnswersKeepTripped ==
    ASSUME NEW c \in Breakers, is_tripped(c)
    PROVE  /\ is_tripped(record_error(c))
           /\ is_tripped(record_success(c))
           /\ is_tripped(try_auto_resume(c)) \/ (~c.manual /\ now - c.tripped_at >= Cooldown)
  <1>1. is_tripped(record_error(c))
    BY DEF record_error, is_tripped, Breakers
  <1>2. is_tripped(record_success(c))
    BY DEF record_success, is_tripped, Breakers
  <1>3. is_tripped(try_auto_resume(c)) \/ (~c.manual /\ now - c.tripped_at >= Cooldown)
    BY DEF try_auto_resume
  <1> QED
    BY <1>1, <1>2, <1>3

\* Counting an error of a broker keeps the types of breakers and histories, and leaves
\* tripped breakers tripped.
LEMMA ErrorRecorded ==
    ASSUME TypeOK, NEW b \in Brokers, RecordBrokerError(b)
    PROVE  /\ cb' \in [Brokers -> Breakers]
           /\ trips' \in [Brokers -> Seq(1..MaxTime)]
           /\ \A x \in Brokers : is_tripped(cb[x]) => is_tripped(cb'[x])
  <1>1. cb \in [Brokers -> Breakers] /\ trips \in [Brokers -> Seq(1..MaxTime)]
        /\ now \in 1..MaxTime
    BY DEF TypeOK
  <1>2. cb' = [cb EXCEPT ![b] = record_error(cb[b])]
    BY DEF RecordBrokerError
  <1>3. record_error(cb[b]) \in Breakers
    BY <1>1, BreakerTypes
  <1>4. cb' \in [Brokers -> Breakers]
    BY <1>1, <1>2, <1>3
  <1>5. trips' \in [Brokers -> Seq(1..MaxTime)]
    <2>1. Append(trips[b], now) \in Seq(1..MaxTime) /\ trips[b] \in Seq(1..MaxTime)
      BY <1>1
    <2>2. PICK t \in {Append(trips[b], now), trips[b]} : trips' = [trips EXCEPT ![b] = t]
      BY DEF RecordBrokerError
    <2> QED
      BY <1>1, <2>1, <2>2
  <1>6. ASSUME NEW x \in Brokers, is_tripped(cb[x])
        PROVE  is_tripped(cb'[x])
    <2>1. CASE x = b
      BY <2>1, <1>1, <1>2, <1>6, AnswersKeepTripped
    <2>2. CASE x # b
      BY <2>2, <1>1, <1>2, <1>6
    <2> QED
      BY <2>1, <2>2
  <1> QED
    BY <1>4, <1>5, <1>6

\* Counting a fault stays within the bound.
LEMMA FaultCounts ==
    ASSUME TypeOK, NEW k, Fault(k)
    PROVE  faults + 1 \in 0..MaxFaults
  BY EngineAssumption DEF TypeOK, Fault

\* What an order does to the positions keeps their types.
LEMMA AppliedType ==
    ASSUME TypeOK, NEW s \in Signals, NEW closes \in BOOLEAN
    PROVE  Applied(s, closes) \in [Brokers -> SUBSET Symbols]
  <1>1. s.broker \in Brokers /\ s.symbol \in Symbols
    BY DEF Signals
  <1>2. pos \in [Brokers -> SUBSET Symbols]
    BY DEF TypeOK
  <1>3. PICK x \in SUBSET Symbols : Applied(s, closes) = [pos EXCEPT ![s.broker] = x]
    <2>1. CASE s.action = "buy"
      <3>1. Applied(s, closes) = [pos EXCEPT ![s.broker] = pos[s.broker] \cup {s.symbol}]
        BY <2>1 DEF Applied
      <3> QED
        BY <3>1, <1>1, <1>2
    <2>2. CASE s.action # "buy" /\ closes
      <3>1. Applied(s, closes) = [pos EXCEPT ![s.broker] = pos[s.broker] \ {s.symbol}]
        BY <2>2 DEF Applied
      <3> QED
        BY <3>1, <1>1, <1>2
    <2>3. CASE s.action # "buy" /\ ~closes
      <3>1. Applied(s, closes) = [pos EXCEPT ![s.broker] = pos[s.broker]]
        BY <2>3 DEF Applied
      <3> QED
        BY <3>1, <1>1, <1>2
    <2> QED
      BY <2>1, <2>2, <2>3
  <1> QED
    BY <1>1, <1>2, <1>3

-----------------------------------------------------------------------------
(* Type correctness.                                                       *)

\* The flag, the file and the fault count after set_emergency_stop().
LEMMA StopSetTypes ==
    ASSUME TypeOK, NEW on \in BOOLEAN, SetEmergencyStop(on)
    PROVE  /\ estop' \in BOOLEAN /\ halted' \in BOOLEAN
           /\ stateFile' \in {"none", "on", "off", "torn"}
           /\ faults' \in 0..MaxFaults
  BY FaultCounts DEF SetEmergencyStop, TypeOK

\* A restart keeps the types.
LEMMA RestartTypes ==
    ASSUME TypeOK, NEW file \in {"none", "on", "off", "torn"}, Restart(file),
           faults' \in 0..MaxFaults
    PROVE  TypeOK'
  <1>1. cb' \in [Brokers -> Breakers]
    BY BreakerTypes DEF Restart, TypeOK
  <1>2. pos' \in [Brokers -> SUBSET Symbols]
    <2>1. PICK done \in SUBSET flying :
            pos' = [b \in Brokers |->
                    (pos[b] \cup {s.symbol : s \in {t \in done : t.broker = b /\ t.action = "buy"}})
                       \ {s.symbol : s \in {t \in done : t.broker = b /\ t.action = "sell"}}]
      BY DEF Restart
    <2>2. \A s \in done : s.symbol \in Symbols
      BY DEF TypeOK, Signals
    <2>3. ASSUME NEW b \in Brokers
          PROVE  (pos[b] \cup {s.symbol : s \in {t \in done : t.broker = b /\ t.action = "buy"}})
                    \subseteq Symbols
      BY <2>2 DEF TypeOK
    <2> QED
      BY <2>1, <2>3
  <1>3. snap' \in [Brokers -> SUBSET Symbols] /\ trips' \in [Brokers -> Seq(1..MaxTime)]
    BY DEF Restart
  <1>4. loop' \in [pc : {"tick", "orders", "refresh", "stopped"}, todo : SUBSET Brokers]
    BY DEF Restart
  <1>5. {estop', running', stopping', halted'} \subseteq BOOLEAN
    BY DEF Restart, LoadedStop, TypeOK
  <1> QED
    BY <1>1, <1>2, <1>3, <1>4, <1>5 DEF Restart, TypeOK

\* Every step keeps the types.
LEMMA TypeStep ==
    ASSUME TypeOK, [Next]_vars
    PROVE  TypeOK'
  <1> USE EngineAssumption DEF engineVars, history
  <1>1. ASSUME NEW S \in SUBSET Signals, Tick(S)
        PROVE  TypeOK'
    <2>1. PICK reached \in {{}, {s \in S : Passes(s)}} :
             /\ cb' = [b \in Brokers |-> IF \E s \in reached : s.broker = b
                                         THEN try_auto_resume(cb[b]) ELSE cb[b]]
             /\ flying' \subseteq reached
      BY <1>1 DEF Tick
    <2>2. cb' \in [Brokers -> Breakers]
      <3>1. \A b \in Brokers : cb[b] \in Breakers /\ try_auto_resume(cb[b]) \in Breakers
        BY BreakerTypes DEF TypeOK
      <3> QED
        BY <2>1, <3>1
    <2>3. flying' \subseteq Signals
      BY <2>1
    <2>4. loop' \in [pc : {"tick", "orders", "refresh", "stopped"}, todo : SUBSET Brokers]
          /\ loop'.pc = "orders"
      BY <1>1 DEF Tick, TypeOK
    <2> QED
      BY <1>1, <2>2, <2>3, <2>4 DEF Tick, TypeOK
  <1>2. ASSUME NEW s \in flying, OrderFilled(s)
        PROVE  TypeOK'
    <2>1. s \in Signals /\ s.broker \in Brokers
      BY DEF TypeOK, Signals
    <2>2. pos' \in [Brokers -> SUBSET Symbols]
      BY <1>2, <2>1, AppliedType DEF OrderFilled
    <2>3. cb' \in [Brokers -> Breakers]
      <3>1. record_success(cb[s.broker]) \in Breakers
        BY <2>1, BreakerTypes DEF TypeOK
      <3> QED
        BY <1>2, <3>1 DEF OrderFilled, TypeOK
    <2> QED
      BY <1>2, <2>2, <2>3 DEF OrderFilled, TypeOK
  <1>3. ASSUME NEW s \in flying, OrderRejected(s)
        PROVE  TypeOK'
    BY <1>3 DEF OrderRejected, TypeOK
  <1>4. ASSUME NEW s \in flying, OrderRaises(s)
        PROVE  TypeOK'
    <2>1. s \in Signals /\ s.broker \in Brokers
      BY DEF TypeOK, Signals
    <2>2. pos' \in [Brokers -> SUBSET Symbols]
      <3>1. Applied(s, TRUE) \in [Brokers -> SUBSET Symbols]
        BY <2>1, AppliedType, Zenon
      <3> QED
        BY <1>4, <3>1 DEF OrderRaises, TypeOK
    <2>3. cb' \in [Brokers -> Breakers] /\ trips' \in [Brokers -> Seq(1..MaxTime)]
      BY <1>4, <2>1, ErrorRecorded DEF OrderRaises
    <2>4. faults' \in 0..MaxFaults
      BY <1>4, FaultCounts DEF OrderRaises
    <2> QED
      BY <1>4, <2>2, <2>3, <2>4 DEF OrderRaises, TypeOK
  <1>5. CASE OrdersDone
    BY <1>5 DEF OrdersDone, TypeOK
  <1>6. ASSUME NEW b \in Brokers, RefreshOk(b)
        PROVE  TypeOK'
    <2>1. snap' \in [Brokers -> SUBSET Symbols]
      BY <1>6 DEF RefreshOk, TypeOK
    <2> QED
      BY <1>6, <2>1 DEF RefreshOk, TypeOK
  <1>7. ASSUME NEW b \in Brokers, RefreshFails(b)
        PROVE  TypeOK'
    <2>1. cb' \in [Brokers -> Breakers] /\ trips' \in [Brokers -> Seq(1..MaxTime)]
      BY <1>7, ErrorRecorded DEF RefreshFails
    <2>2. faults' \in 0..MaxFaults
      BY <1>7, FaultCounts DEF RefreshFails
    <2> QED
      BY <1>7, <2>1, <2>2 DEF RefreshFails, TypeOK
  <1>8. CASE TickEnd
    BY <1>8 DEF TickEnd, TypeOK
  <1>9. CASE LoopExit
    BY <1>9 DEF LoopExit, TypeOK
  <1>10. CASE StopBegin
    BY <1>10, StopSetTypes DEF StopBegin, TypeOK
  <1>11. CASE StopEnd
    BY <1>11 DEF StopEnd, TypeOK
  <1>12. CASE Resume
    BY <1>12, StopSetTypes DEF Resume, TypeOK
  <1>13. ASSUME NEW b \in Brokers, ManualResume(b)
         PROVE  TypeOK'
    <2>1. manual_resume(cb[b]) \in Breakers
      BY BreakerTypes DEF TypeOK
    <2>2. << >> \in Seq(1..MaxTime)
      OBVIOUS
    <2> QED
      BY <1>13, <2>1, <2>2 DEF ManualResume, TypeOK
  <1>14. ASSUME NEW s \in Strategies, NEW m \in Modes, UpdateStrategy(s, m)
         PROVE  TypeOK'
    BY <1>14 DEF UpdateStrategy, TypeOK
  <1>15. CASE Clock
    BY <1>15 DEF Clock, TypeOK
  <1>16. CASE Crash
    <2>1. faults' \in 0..MaxFaults /\ stateFile \in {"none", "on", "off", "torn"}
      BY <1>16, FaultCounts DEF Crash, Restart, TypeOK
    <2> QED
      BY <1>16, <2>1, RestartTypes DEF Crash
  <1>17. CASE CrashInWrite
    <2>1. faults' \in 0..MaxFaults
      BY <1>17, FaultCounts DEF CrashInWrite, Restart
    <2> QED
      BY <1>17, <2>1, RestartTypes DEF CrashInWrite
  <1>18. CASE UNCHANGED vars
    BY <1>18 DEF vars, TypeOK
  <1> QED
    BY <1>1, <1>2, <1>3, <1>4, <1>5, <1>6, <1>7, <1>8, <1>9, <1>10, <1>11, <1>12, <1>13,
       <1>14, <1>15, <1>16, <1>17, <1>18 DEF Next, Loop, Operator
\* The initial state is well typed.
LEMMA InitTypes == Init => TypeOK
  <1> SUFFICES ASSUME Init PROVE TypeOK
    OBVIOUS
  <1> USE EngineAssumption
  <1>1. now \in 1..MaxTime
    BY DEF Init
  <1>2. cb \in [Brokers -> Breakers]
    BY <1>1 DEF Init, Breakers, NewBreaker
  <1>3. loop \in [pc : {"tick", "orders", "refresh", "stopped"}, todo : SUBSET Brokers]
    BY DEF Init
  <1>4. {estop, running, stopping, halted} \subseteq BOOLEAN
    BY DEF Init
  <1>5. {pos, snap} \subseteq [Brokers -> SUBSET Symbols]
        /\ trips \in [Brokers -> Seq(1..MaxTime)]
    BY DEF Init
  <1> QED
    BY <1>1, <1>2, <1>3, <1>4, <1>5 DEF Init, TypeOK

\* Types: every variable stays in its domain, whatever fails and whatever the operator
\* does, and orders are in flight only while the loop waits for them.
THEOREM EngineTypes == Spec => []TypeOK
  <1> QED
    BY InitTypes, TypeStep, PTL DEF Spec

-----------------------------------------------------------------------------
(* The emergency stop.                                                     *)

\* While the engine is halted, memory knows what the file knows: only a resume clears
\* the flag, and a restart reads it back.
FileAgrees == halted /\ stateFile = "on" => estop

\* A tick sends orders only if no stop is set.
LEMMA TickNeedsNoStop ==
    ASSUME NEW S \in SUBSET Signals, Tick(S), estop
    PROVE  flying' = {}
  BY DEF Tick, Passes

LEMMA FileStep ==
    ASSUME TypeOK, FileAgrees, [Next]_vars
    PROVE  FileAgrees'
  <1> USE DEF FileAgrees, engineVars, history
  <1>1. CASE UNCHANGED <<estop, halted, stateFile>>
    BY <1>1
  <1>2. CASE StopBegin
    BY <1>2 DEF StopBegin, SetEmergencyStop
  <1>3. CASE Resume
    BY <1>3 DEF Resume, SetEmergencyStop
  <1>4. CASE Crash \/ CrashInWrite
    BY <1>4 DEF Crash, CrashInWrite, Restart, LoadedStop
  <1>5. CASE Loop
    BY <1>1, <1>5 DEF Loop, Tick, OrderFilled, OrderRejected, OrderRaises, OrdersDone,
       RefreshOk, RefreshFails, TickEnd, LoopExit
  <1>6. CASE StopEnd \/ Clock \/ UNCHANGED vars
    BY <1>1, <1>6 DEF StopEnd, Clock, vars
  <1>7. ASSUME NEW b \in Brokers, ManualResume(b)
        PROVE  FileAgrees'
    BY <1>1, <1>7 DEF ManualResume
  <1>8. ASSUME NEW s \in Strategies, NEW m \in Modes, UpdateStrategy(s, m)
        PROVE  FileAgrees'
    BY <1>1, <1>8 DEF UpdateStrategy
  <1> QED
    BY <1>2, <1>3, <1>4, <1>5, <1>6, <1>7, <1>8 DEF Next, Operator

\* Only a tick puts orders in flight.
LEMMA OnlyTickSends ==
    ASSUME [Next]_vars
    PROVE  flying' \subseteq flying \/ \E S \in SUBSET Signals : Tick(S)
  <1> USE DEF history
  <1>1. CASE Loop
    BY <1>1 DEF Loop, OrderFilled, OrderRejected, OrderRaises, OrdersDone,
       RefreshOk, RefreshFails, TickEnd, LoopExit
  <1>2. CASE Operator
    BY <1>2 DEF Operator, StopBegin, StopEnd, Resume, ManualResume, UpdateStrategy
  <1>3. CASE Clock \/ UNCHANGED vars
    BY <1>3 DEF Clock, vars
  <1>4. CASE Crash \/ CrashInWrite
    BY <1>4 DEF Crash, CrashInWrite, Restart
  <1> QED
    BY <1>1, <1>2, <1>3, <1>4 DEF Next

\* Once an emergency stop was set no new order is sent until the operator resumes, as
\* long as memory or the file knows of it: through ticks, answers and restarts.
THEOREM StopKept == Spec => StopHolds
  <1>1. Init => FileAgrees
    BY DEF Init, FileAgrees
  <1>2. FileAgrees /\ [Next]_vars => [halted /\ StopKnown => flying' \subseteq flying]_vars
    <2> SUFFICES ASSUME FileAgrees, [Next]_vars, halted, StopKnown
                 PROVE  flying' \subseteq flying
      OBVIOUS
    <2>1. estop
      BY DEF FileAgrees, StopKnown
    <2> QED
      BY <2>1, OnlyTickSends, TickNeedsNoStop
  <1> QED
    BY <1>1, <1>2, FileStep, EngineTypes, PTL DEF Spec, StopHolds

-----------------------------------------------------------------------------
(* The breakers.                                                           *)

\* How a step may close the breaker of b.
MayClose(b) ==
    (is_tripped(cb[b]) /\ ~is_tripped(cb'[b])) =>
        \/ ~cb[b].manual /\ now - cb[b].tripped_at >= Cooldown
        \/ ManualResume(b)
        \/ Crash \/ CrashInWrite

LEMMA BreakerStep ==
    ASSUME TypeOK, [Next]_vars, NEW b \in Brokers
    PROVE  MayClose(b)
  <1> SUFFICES ASSUME is_tripped(cb[b]), ~is_tripped(cb'[b])
               PROVE  \/ ~cb[b].manual /\ now - cb[b].tripped_at >= Cooldown
                      \/ ManualResume(b)
                      \/ Crash \/ CrashInWrite
    BY DEF MayClose
  <1> USE DEF history
  <1>0. cb \in [Brokers -> Breakers] /\ cb[b] \in Breakers
    BY DEF TypeOK
  <1>1. cb' # cb
    OBVIOUS
  <1>2. ASSUME NEW S \in SUBSET Signals, Tick(S)
        PROVE  ~cb[b].manual /\ now - cb[b].tripped_at >= Cooldown
    <2>1. cb'[b] \in {cb[b], try_auto_resume(cb[b])}
      BY <1>2 DEF Tick
    <2> QED
      BY <1>0, <2>1, AnswersKeepTripped
  <1>3. ASSUME NEW s \in flying, OrderFilled(s)
        PROVE  FALSE
    <2>1. cb'[b] \in {cb[b], record_success(cb[b])}
      BY <1>0, <1>3 DEF OrderFilled
    <2> QED
      BY <1>0, <2>1, AnswersKeepTripped
  <1>4. ASSUME NEW s \in flying, OrderRaises(s)
        PROVE  FALSE
    <2>1. s.broker \in Brokers
      BY DEF TypeOK, Signals
    <2> QED
      BY <1>4, <2>1, ErrorRecorded DEF OrderRaises
  <1>5. ASSUME NEW x \in Brokers, RefreshFails(x)
        PROVE  FALSE
    BY <1>5, ErrorRecorded DEF RefreshFails
  <1>6. ASSUME NEW x \in Brokers, ManualResume(x)
        PROVE  ManualResume(b)
    <2>1. x = b
      BY <1>0, <1>6 DEF ManualResume
    <2> QED
      BY <1>6, <2>1
  <1>7. ~OrdersDone /\ ~TickEnd /\ ~LoopExit /\ ~StopBegin /\ ~StopEnd /\ ~Resume
        /\ ~Clock /\ ~UNCHANGED vars
    BY <1>1 DEF OrdersDone, TickEnd, LoopExit, StopBegin, StopEnd, Resume, Clock, vars
  <1>8. /\ \A s \in flying : ~OrderRejected(s)
        /\ \A x \in Brokers : ~RefreshOk(x)
        /\ \A s \in Strategies, m \in Modes : ~UpdateStrategy(s, m)
    BY <1>1 DEF OrderRejected, RefreshOk, UpdateStrategy
  <1> QED
    BY <1>2, <1>3, <1>4, <1>5, <1>6, <1>7, <1>8 DEF Next, Loop, Operator

\* A tripped breaker closes only after its cooldown, by a human, or with the process:
\* no answer to an order that was in flight when it tripped closes it.
THEOREM BreakerStays == Spec => BreakerStaysOpen
  <1>1. TypeOK /\ [Next]_vars =>
           [\A b \in Brokers : (is_tripped(cb[b]) /\ ~is_tripped(cb'[b])) =>
              \/ ~cb[b].manual /\ now - cb[b].tripped_at >= Cooldown
              \/ ManualResume(b)
              \/ Crash \/ CrashInWrite]_vars
    BY BreakerStep DEF MayClose
  <1> QED
    BY <1>1, EngineTypes, PTL DEF Spec, BreakerStaysOpen

-----------------------------------------------------------------------------
(* Handing over to a human.                                                *)

\* What the history of a broker's trips says of its breaker.  The trips before those of
\* the current counting window are not later than its start; while no human is called,
\* the current window has fewer trips than the limit, and so had the one before it: a
\* trip further back than both lies more than an hour before the current window.
Handing(c, ts) ==
    /\ c.window <= now
    /\ c.manual => is_tripped(c)
    /\ ts # << >> => ts[Len(ts)] >= c.window
    /\ \A j \in DOMAIN ts : ts[j] <= now
    /\ \A j \in DOMAIN ts : j <= Len(ts) - c.trips => ts[j] <= c.window
    /\ (~c.manual /\ ts # << >>) =>
          /\ c.trips < HourlyTripLimit
          /\ \A j \in DOMAIN ts :
                j <= Len(ts) - c.trips - (HourlyTripLimit - 1) => c.window - ts[j] > Hour

HandInv == \A b \in Brokers : Handing(cb[b], trips[b])

\* One entry of a sequence, and one entry more.
LEMMA Entries ==
    ASSUME NEW T, NEW ts \in Seq(T)
    PROVE  /\ Len(ts) \in Nat /\ DOMAIN ts = 1..Len(ts)
           /\ \A j \in 1..Len(ts) : ts[j] \in T
           /\ Len(ts) > 0 <=> ts # << >>
  OBVIOUS

LEMMA OneMoreTrip ==
    ASSUME NEW T, NEW ts \in Seq(T), NEW e \in T
    PROVE  /\ Append(ts, e) \in Seq(T) /\ Len(Append(ts, e)) = Len(ts) + 1
           /\ \A j \in 1..Len(ts) : Append(ts, e)[j] = ts[j]
           /\ Append(ts, e)[Len(ts) + 1] = e
  OBVIOUS

\* An error that trips the breaker: the window restarts or goes on, and the trip is
\* the last of the history.
LEMMA TripHands ==
    ASSUME NEW c \in Breakers, NEW ts \in Seq(1..MaxTime), now \in 1..MaxTime,
           Handing(c, ts), ~is_tripped(c), is_tripped(record_error(c))
    PROVE  Handing(record_error(c), Append(ts, now))
  <1> DEFINE fresh == now - c.window > Hour
             count == 1 + IF fresh THEN 0 ELSE c.trips
             start == IF fresh THEN now ELSE c.window
             d == record_error(c)
             us == Append(ts, now)
             n == Len(ts)
  <1>1. /\ c.trips \in Nat /\ c.window \in 0..MaxTime /\ c.manual \in BOOLEAN
        /\ HourlyTripLimit \in Nat \ {0} /\ Hour \in Nat
    BY EngineAssumption DEF Breakers
  <1>2. ~c.manual
    BY DEF Handing
  <1>3. d = [ errors |-> c.errors + 1, tripped_at |-> now, trips |-> count, window |-> start,
              manual |-> c.manual \/ count >= HourlyTripLimit ]
    <2>1. ~(c.errors + 1 < ErrorThreshold \/ is_tripped(c))
      BY DEF record_error, is_tripped, Breakers
    <2> QED
      BY <2>1 DEF record_error
  <1>4. d.trips = count /\ d.window = start /\ (d.manual <=> count >= HourlyTripLimit)
    <2>1. d.trips = count /\ d.window = start /\ d.manual = (c.manual \/ count >= HourlyTripLimit)
      <3> HIDE DEF d, count, start
      <3> QED
        BY <1>3
    <2> HIDE DEF d, count, start
    <2> QED
      BY <1>2, <2>1, Zenon
  <1>5. /\ us # << >> /\ n \in Nat /\ Len(us) = n + 1 /\ DOMAIN ts = 1..n
        /\ DOMAIN us = 1..(n + 1) /\ us[n + 1] = now
        /\ \A j \in 1..n : us[j] = ts[j] /\ ts[j] \in 1..MaxTime
    <2>1. us \in Seq(1..MaxTime)
      BY OneMoreTrip
    <2>2. /\ Len(us) \in Nat /\ DOMAIN us = 1..Len(us) /\ (Len(us) > 0 <=> us # << >>)
          /\ n \in Nat /\ DOMAIN ts = 1..n /\ \A j \in 1..n : ts[j] \in 1..MaxTime
      BY <2>1, Entries
    <2>3. Len(us) = n + 1 /\ us[n + 1] = now /\ \A j \in 1..n : us[j] = ts[j]
      BY OneMoreTrip
    <2> HIDE DEF us, n
    <2> QED
      BY <2>2, <2>3
  <1>6. /\ c.window <= now
        /\ \A j \in 1..n : ts[j] <= now
        /\ \A j \in 1..n : j <= n - c.trips => ts[j] <= c.window
        /\ n > 0 => /\ c.trips < HourlyTripLimit
                    /\ \A j \in 1..n : j <= n - c.trips - (HourlyTripLimit - 1)
                                          => c.window - ts[j] > Hour
    <2>1. n > 0 => ts # << >>
      BY <1>5
    <2> QED
      BY <1>2, <1>5, <2>1 DEF Handing
  <1>7. count \in Nat /\ start \in Nat /\ start <= now /\ start >= c.window
    BY <1>1, <1>6
  <1> HIDE DEF d, us, n
  <1>F. /\ fresh => count = 1 /\ start = now
        /\ ~fresh => count = c.trips + 1 /\ start = c.window
        /\ fresh <=> now - c.window > Hour
    BY <1>1
  <1>N. n \in Nat
    BY <1>5
  <1> HIDE DEF fresh, count, start
  <1>8. ASSUME NEW j \in 1..(n + 1)
        PROVE  us[j] <= now
    <2>1. CASE j = n + 1
      BY <2>1, <1>5
    <2>2. CASE j # n + 1
      <3>1. j \in 1..n
        BY <1>5, <2>2
      <3> QED
        BY <1>5, <1>6, <3>1
    <2> QED
      BY <2>1, <2>2
  <1>9. ASSUME NEW j \in 1..(n + 1), j <= (n + 1) - count
        PROVE  us[j] <= start
    <2>1. CASE fresh
      <3>1. start = now
        BY <1>F, <2>1
      <3> QED
        BY <1>8, <3>1
    <2>2. CASE ~fresh
      <3>1. j \in 1..n /\ j <= n - c.trips
        <4>1. count = c.trips + 1 /\ c.trips \in Nat
          BY <1>1, <1>F, <2>2
        <4> QED
          BY <1>N, <1>9, <4>1
      <3>2. us[j] = ts[j] /\ ts[j] <= c.window
        BY <1>5, <1>6, <3>1
      <3> QED
        BY <1>F, <2>2, <3>2
    <2> QED
      BY <2>1, <2>2
  <1>10. ASSUME ~d.manual, NEW j \in 1..(n + 1),
                j <= (n + 1) - count - (HourlyTripLimit - 1)
         PROVE  start - us[j] > Hour
    <2>1. j \in 1..n /\ n > 0
      <3>1. count >= 1
        BY <1>1, <1>F
      <3> QED
        BY <1>1, <1>5, <1>7, <1>10, <3>1
    <2>2. us[j] = ts[j] /\ ts[j] \in Nat
      BY <1>5, <2>1
    <2>3. CASE fresh
      <3>1. j <= n - c.trips
        <4>1. c.trips < HourlyTripLimit
          BY <1>6, <2>1
        <4>2. j <= n - (HourlyTripLimit - 1)
          BY <1>1, <1>5, <1>10, <1>F, <2>3
        <4> QED
          BY <1>1, <1>5, <2>1, <4>1, <4>2
      <3>2. ts[j] <= c.window /\ start = now /\ now - c.window > Hour
        BY <1>6, <1>F, <2>1, <2>3, <3>1
      <3> QED
        BY <1>1, <2>2, <3>2
    <2>4. CASE ~fresh
      <3>1. j <= n - c.trips - (HourlyTripLimit - 1) /\ start = c.window
        BY <1>1, <1>5, <1>10, <1>F, <2>4
      <3> QED
        BY <1>6, <2>1, <2>2, <3>1
    <2> QED
      BY <2>3, <2>4
  <1>11. ~d.manual => count < HourlyTripLimit
    BY <1>1, <1>4, <1>7
  <1>12. is_tripped(d)
    BY DEF d
  <1> QED
    BY <1>4, <1>5, <1>7, <1>8, <1>9, <1>10, <1>11, <1>12 DEF Handing, d, us

\* What does not trip a breaker changes neither its window nor its counts; the history
\* stays, and a human is called only by what was called before.
LEMMA SameWindow ==
    ASSUME NEW c, NEW d, NEW ts, Handing(c, ts),
           d.window = c.window, d.trips = c.trips, d.manual = c.manual,
           c.manual => is_tripped(d)
    PROVE  Handing(d, ts)
  BY DEF Handing

LEMMA OthersHand ==
    ASSUME NEW c \in Breakers, NEW ts, Handing(c, ts), now \in 1..MaxTime
    PROVE  /\ Handing(record_success(c), ts)
           /\ Handing(try_auto_resume(c), ts)
           /\ (is_tripped(c) \/ ~is_tripped(record_error(c))) => Handing(record_error(c), ts)
  <1>0. c.manual => is_tripped(c)
    BY DEF Handing
  <1>1. Handing(record_success(c), ts)
    BY <1>0, SameWindow DEF record_success, Breakers, is_tripped
  <1>2. Handing(try_auto_resume(c), ts)
    <2>1. CASE try_auto_resume(c) = c
      BY <2>1
    <2>2. CASE try_auto_resume(c) # c
      <3>1. ~c.manual /\ try_auto_resume(c) = [c EXCEPT !.tripped_at = 0, !.errors = 0]
        BY <2>2 DEF try_auto_resume
      <3>2. /\ try_auto_resume(c).window = c.window /\ try_auto_resume(c).trips = c.trips
            /\ try_auto_resume(c).manual = c.manual
        BY <3>1 DEF Breakers
      <3> QED
        BY <3>1, <3>2, SameWindow
    <2> QED
      BY <2>1, <2>2
  <1>3. ASSUME is_tripped(c) \/ ~is_tripped(record_error(c))
        PROVE  Handing(record_error(c), ts)
    <2>1. CASE c.errors + 1 < ErrorThreshold \/ is_tripped(c)
      <3>1. record_error(c) = [c EXCEPT !.errors = @ + 1]
        BY <2>1 DEF record_error
      <3> QED
        BY <3>1, <1>0, SameWindow DEF Breakers, is_tripped
    <2>2. CASE ~(c.errors + 1 < ErrorThreshold \/ is_tripped(c))
      <3>1. record_error(c).tripped_at = now
        BY <2>2 DEF record_error
      <3>2. now = 0
        BY <1>3, <2>2, <3>1 DEF is_tripped
      <3> QED
        BY <3>2
    <2> QED
      BY <2>1, <2>2
  <1> QED
    BY <1>1, <1>2, <1>3

\* Counting an error of a broker keeps what the histories say of the breakers.
LEMMA ErrorHands ==
    ASSUME TypeOK, HandInv, NEW b \in Brokers, RecordBrokerError(b), now' = now
    PROVE  HandInv'
  <1>1. /\ cb \in [Brokers -> Breakers] /\ trips \in [Brokers -> Seq(1..MaxTime)]
        /\ now \in 1..MaxTime
    BY DEF TypeOK
  <1> DEFINE c == record_error(cb[b])
             ts == IF is_tripped(c) /\ ~is_tripped(cb[b]) THEN Append(trips[b], now) ELSE trips[b]
  <1>2. cb' = [cb EXCEPT ![b] = c] /\ trips' = [trips EXCEPT ![b] = ts]
    BY DEF RecordBrokerError
  <1>3. cb[b] \in Breakers /\ trips[b] \in Seq(1..MaxTime) /\ Handing(cb[b], trips[b])
    BY <1>1 DEF HandInv
  <1>4. Handing(c, ts)
    <2>1. CASE is_tripped(c) /\ ~is_tripped(cb[b])
      BY <2>1, <1>1, <1>3, TripHands
    <2>2. CASE ~(is_tripped(c) /\ ~is_tripped(cb[b]))
      BY <2>2, <1>1, <1>3, OthersHand
    <2> QED
      BY <2>1, <2>2
  <1> HIDE DEF c, ts
  <1>5. ASSUME NEW x \in Brokers
        PROVE  Handing(cb'[x], trips'[x])
    <2>1. CASE x = b
      BY <2>1, <1>1, <1>2, <1>4
    <2>2. CASE x # b
      BY <2>2, <1>1, <1>2 DEF HandInv
    <2> QED
      BY <2>1, <2>2
  <1> QED
    BY <1>5 DEF HandInv, Handing

\* A breaker that starts with no history.
LEMMA FreshHands ==
    ASSUME NEW c \in Breakers, ~c.manual, c.window <= now
    PROVE  Handing(c, << >>)
  BY DEF Handing

\* A step that leaves the clock and the histories and gives each breaker a value that
\* agrees with its history.
LEMMA HandKept ==
    ASSUME HandInv, trips' = trips, now' = now, \A b \in Brokers : Handing(cb'[b], trips[b])
    PROVE  HandInv'
  BY DEF HandInv, Handing

\* Every step keeps what the histories say of the breakers.
LEMMA HandStep ==
    ASSUME TypeOK, HandInv, [Next]_vars
    PROVE  HandInv'
  <1> USE DEF history
  <1>0. /\ cb \in [Brokers -> Breakers] /\ trips \in [Brokers -> Seq(1..MaxTime)]
        /\ now \in 1..MaxTime /\ \A b \in Brokers : cb[b] \in Breakers /\ Handing(cb[b], trips[b])
    BY DEF TypeOK, HandInv
  <1>1. ASSUME NEW S \in SUBSET Signals, Tick(S)
        PROVE  HandInv'
    <2>1. trips' = trips /\ now' = now
          /\ \A b \in Brokers : cb'[b] \in {cb[b], try_auto_resume(cb[b])}
      BY <1>1 DEF Tick
    <2>2. \A b \in Brokers : Handing(cb'[b], trips[b])
      BY <1>0, <2>1, OthersHand
    <2> QED
      BY <2>1, <2>2, HandKept
  <1>2. ASSUME NEW s \in flying, OrderFilled(s)
        PROVE  HandInv'
    <2>1. trips' = trips /\ now' = now
          /\ \A b \in Brokers : cb'[b] \in {cb[b], record_success(cb[b])}
      BY <1>0, <1>2 DEF OrderFilled
    <2>2. \A b \in Brokers : Handing(cb'[b], trips[b])
      BY <1>0, <2>1, OthersHand
    <2> QED
      BY <2>1, <2>2, HandKept
  <1>3. ASSUME NEW s \in flying, OrderRaises(s)
        PROVE  HandInv'
    <2>1. s.broker \in Brokers
      BY DEF TypeOK, Signals
    <2> QED
      BY <1>3, <2>1, ErrorHands DEF OrderRaises
  <1>4. ASSUME NEW b \in Brokers, RefreshFails(b)
        PROVE  HandInv'
    BY <1>4, ErrorHands DEF RefreshFails
  <1>5. ASSUME NEW b \in Brokers, ManualResume(b)
        PROVE  HandInv'
    <2> DEFINE c == manual_resume(cb[b])
    <2>1. c.window = cb[b].window /\ c.manual = FALSE /\ c \in Breakers
      <3>1. cb[b] \in Breakers /\ c \in Breakers
        BY <1>0, BreakerTypes
      <3>2. cb[b] = [errors |-> cb[b].errors, tripped_at |-> cb[b].tripped_at,
                     trips |-> cb[b].trips, window |-> cb[b].window, manual |-> cb[b].manual]
        BY <3>1 DEF Breakers
      <3> QED
        BY <3>1, <3>2 DEF manual_resume
    <2>2. cb[b].window <= now
      BY <1>0 DEF Handing
    <2>3. cb' = [cb EXCEPT ![b] = c] /\ trips' = [trips EXCEPT ![b] = << >>] /\ now' = now
      BY <1>5 DEF ManualResume
    <2> HIDE DEF c
    <2>4. Handing(c, << >>)
      BY <2>1, <2>2, FreshHands
    <2>5. ASSUME NEW x \in Brokers
          PROVE  Handing(cb'[x], trips'[x])
      <3>1. CASE x = b
        BY <3>1, <1>0, <2>3, <2>4
      <3>2. CASE x # b
        BY <3>2, <1>0, <2>3
      <3> QED
        BY <3>1, <3>2
    <2> QED
      BY <2>3, <2>5 DEF HandInv, Handing
  <1>6. CASE Crash \/ CrashInWrite
    <2>1. /\ cb' = [b \in Brokers |-> NewBreaker] /\ trips' = [b \in Brokers |-> << >>]
          /\ now' = now
      BY <1>6 DEF Crash, CrashInWrite, Restart
    <2>2. NewBreaker \in Breakers /\ ~NewBreaker.manual /\ NewBreaker.window <= now
      BY <1>0, EngineAssumption DEF NewBreaker, Breakers
    <2>3. \A b \in Brokers : Handing(cb'[b], trips'[b])
      BY <2>1, <2>2, FreshHands
    <2> QED
      BY <2>1, <2>3 DEF HandInv, Handing
  <1>7. CASE Clock
    <2>1. cb' = cb /\ trips' = trips /\ now' = now + 1
      BY <1>7 DEF Clock
    <2>2. ASSUME NEW b \in Brokers
          PROVE  Handing(cb[b], trips[b])'
      <3> DEFINE c == cb[b]
                 ts == trips[b]
      <3>1. c.window \in Nat /\ \A j \in DOMAIN ts : ts[j] \in Nat
        <4>1. cb[b] \in Breakers /\ trips[b] \in Seq(1..MaxTime)
          BY <1>0
        <4>2. \A j \in DOMAIN trips[b] : trips[b][j] \in 1..MaxTime
          BY <4>1, Entries
        <4> QED
          BY <4>1, <4>2 DEF Breakers
      <3>2. c.window <= now + 1 /\ \A j \in DOMAIN ts : ts[j] <= now + 1
        BY <1>0, <3>1 DEF Handing
      <3> QED
        BY <1>0, <2>1, <3>2 DEF Handing
    <2> QED
      BY <2>2 DEF HandInv
  <1>8. CASE UNCHANGED <<cb, trips, now>>
    BY <1>8 DEF HandInv, Handing
  <1>9. CASE OrdersDone \/ TickEnd \/ LoopExit \/ StopBegin \/ StopEnd \/ Resume \/ UNCHANGED vars
    BY <1>8, <1>9 DEF OrdersDone, TickEnd, LoopExit, StopBegin, StopEnd, Resume, vars
  <1>10. ASSUME NEW s \in flying, OrderRejected(s)
         PROVE  HandInv'
    BY <1>8, <1>10 DEF OrderRejected
  <1>11. ASSUME NEW b \in Brokers, RefreshOk(b)
         PROVE  HandInv'
    BY <1>8, <1>11 DEF RefreshOk
  <1>12. ASSUME NEW s \in Strategies, NEW m \in Modes, UpdateStrategy(s, m)
         PROVE  HandInv'
    BY <1>8, <1>12 DEF UpdateStrategy
  <1> QED
    BY <1>1, <1>2, <1>3, <1>4, <1>5, <1>6, <1>7, <1>9, <1>10, <1>11, <1>12
       DEF Next, Loop, Operator

\* 2L - 1 trips within an hour reach back over two counting windows.
LEMMA HandsOver ==
    ASSUME TypeOK, HandInv
    PROVE  BreakerHandsOver
  <1> SUFFICES ASSUME NEW b \in Brokers, is_tripped(cb[b]), ~cb[b].manual,
                      WithinHour(trips[b], 2 * HourlyTripLimit - 1)
               PROVE  FALSE
    BY DEF BreakerHandsOver
  <1> DEFINE c == cb[b]
             ts == trips[b]
             n == Len(ts)
             j == n - (2 * HourlyTripLimit - 1) + 1
  <1>1. c \in Breakers /\ ts \in Seq(1..MaxTime) /\ Handing(c, ts)
    BY DEF TypeOK, HandInv
  <1>2. HourlyTripLimit \in Nat \ {0} /\ Hour \in Nat /\ c.trips \in Nat /\ c.window \in Nat
    BY <1>1, EngineAssumption DEF Breakers
  <1>3. n \in Nat /\ DOMAIN ts = 1..n /\ \A i \in 1..n : ts[i] \in Nat
    <2>1. n \in Nat /\ DOMAIN ts = 1..n /\ \A i \in 1..n : ts[i] \in 1..MaxTime
      BY <1>1, Entries
    <2> QED
      BY <2>1
  <1>4. n >= 2 * HourlyTripLimit - 1 /\ ts[n] - ts[j] <= Hour
    BY DEF WithinHour
  <1>5. n > 0 /\ j \in 1..n /\ ts # << >>
    <2>1. n > 0 /\ j \in 1..n
      <3> HIDE DEF n
      <3> QED
        BY <1>2, <1>3, <1>4
    <2> QED
      BY <2>1, <1>1, Entries
  <1>6. ts[n] >= c.window /\ c.trips < HourlyTripLimit
    <2>1. ~c.manual
      OBVIOUS
    <2> HIDE DEF c, ts
    <2> QED
      BY <2>1, <1>1, <1>5 DEF Handing
  <1>7. j <= n - c.trips - (HourlyTripLimit - 1)
    <2> HIDE DEF c, ts, n
    <2> QED
      BY <1>2, <1>3, <1>6
  <1>8. c.window - ts[j] > Hour
    BY <1>1, <1>3, <1>5, <1>7 DEF Handing
  <1>9. ts[n] \in Nat /\ ts[j] \in Nat
    BY <1>3, <1>5
  <1> HIDE DEF c, ts, n, j
  <1> QED
    BY <1>2, <1>4, <1>6, <1>8, <1>9

\* A broker cannot go on tripping and resuming by itself: 2L - 1 trips within an hour
\* always hand it to a human, for every limit, cooldown and error threshold, and however
\* the trips fall over the counting windows.
THEOREM HandedOver == Spec => []BreakerHandsOver
  <1>1. Init => HandInv
    <2> SUFFICES ASSUME Init PROVE HandInv
      OBVIOUS
    <2>1. NewBreaker \in Breakers /\ ~NewBreaker.manual /\ NewBreaker.window <= now
      BY InitTypes, EngineAssumption DEF NewBreaker, Breakers, Init
    <2>2. \A b \in Brokers : cb[b] = NewBreaker /\ trips[b] = << >>
      BY DEF Init
    <2> QED
      BY <2>1, <2>2, FreshHands DEF HandInv
  <1> QED
    BY <1>1, HandStep, HandsOver, EngineTypes, PTL DEF Spec

-----------------------------------------------------------------------------
(* The position limit, if no refresh fails and the process does not restart. *)

Undisturbed == FaultKinds \cap {"refresh", "crash", "tear"} = {}

\* The refreshed brokers are seen as they are; outside the orders of a tick nothing
\* changes what they hold.
Fresh ==
    /\ loop.pc # "refresh" => loop.todo = {}
    /\ loop.pc # "orders" => \A b \in Brokers \ loop.todo : snap[b] = pos[b]

\* What the buys in flight may open.
Targets == {<<s.broker, s.symbol>> : s \in {t \in flying : t.action = "buy"}}

\* What is held or may become held by the orders in flight.
Exposed == HeldIn(pos) \cup Targets

ExposureBound == Cardinality(Exposed) <= GlobalMaxPositions - 1 + MaxSignals

CapInv == TypeOK /\ Fresh /\ ExposureBound

\* There are finitely many positions to hold.
LEMMA FinitelyMany ==
    ASSUME NEW X \in SUBSET (Brokers \X Symbols)
    PROVE  IsFiniteSet(X) /\ Cardinality(X) \in Nat
  <1>1. IsFiniteSet(Brokers \X Symbols)
    BY EngineAssumption, FS_Product
  <1> QED
    BY <1>1, FS_Subset, FS_CardinalityType

LEMMA Positions ==
    ASSUME TypeOK
    PROVE  /\ HeldIn(pos) \subseteq Brokers \X Symbols
           /\ Targets \subseteq Brokers \X Symbols
           /\ Exposed \subseteq Brokers \X Symbols
  <1>1. HeldIn(pos) \subseteq Brokers \X Symbols
    BY DEF HeldIn
  <1>2. Targets \subseteq Brokers \X Symbols
    BY DEF Targets, TypeOK, Signals
  <1> QED
    BY <1>1, <1>2 DEF Exposed

\* A step that exposes nothing new keeps the bound.
LEMMA ShrinkKeeps ==
    ASSUME TypeOK, ExposureBound, Exposed' \subseteq Exposed
    PROVE  ExposureBound'
  <1>1. IsFiniteSet(Exposed) /\ Cardinality(Exposed) \in Nat
    BY Positions, FinitelyMany
  <1>2. IsFiniteSet(Exposed') /\ Cardinality(Exposed') <= Cardinality(Exposed)
        /\ Cardinality(Exposed') \in Nat
    BY <1>1, FS_Subset, FS_CardinalityType
  <1> QED
    BY <1>1, <1>2, EngineAssumption DEF ExposureBound

\* The signals of a tick can open no more positions than there are signals.
LEMMA FewTargets ==
    ASSUME NEW S \in SUBSET Signals, Deduplicated(S), NEW F \in SUBSET S
    PROVE  LET T == {<<s.broker, s.symbol>> : s \in {t \in F : t.action = "buy"}}
           IN  IsFiniteSet(T) /\ Cardinality(T) <= MaxSignals /\ Cardinality(T) \in Nat
  <1> DEFINE B == {t \in F : t.action = "buy"}
             T == {<<s.broker, s.symbol>> : s \in B}
             f == [s \in S |-> <<s.broker, s.symbol>>]
             g == [s \in B |-> <<s.broker, s.symbol>>]
  <1>1. IsFiniteSet(Brokers \X Symbols)
    BY EngineAssumption, FS_Product
  <1>2. f \in [S -> Brokers \X Symbols]
    BY DEF Signals
  <1>3. \A a, b \in S : f[a] = f[b] => a = b
    BY DEF Deduplicated
  <1>4. f \in Injection(S, Brokers \X Symbols)
    <2> HIDE DEF f
    <2> QED
      BY <1>2, <1>3 DEF Injection, IsInjective
  <1>5. IsFiniteSet(S)
    <2> HIDE DEF f
    <2> QED
      BY <1>1, <1>4, FS_Injection
  <1>6. IsFiniteSet(B) /\ Cardinality(B) <= Cardinality(S)
    <2>1. B \in SUBSET S
      OBVIOUS
    <2> HIDE DEF B
    <2> QED
      BY <1>5, <2>1, FS_Subset
  <1>7. g \in Surjection(B, T)
    <2>1. g \in [B -> T]
      OBVIOUS
    <2>2. \A t \in T : \E s \in B : g[s] = t
      OBVIOUS
    <2> HIDE DEF g, T, B
    <2> QED
      BY <2>1, <2>2 DEF Surjection
  <1>8. IsFiniteSet(T) /\ Cardinality(T) <= Cardinality(B)
    <2> HIDE DEF g, T, B
    <2> QED
      BY <1>6, <1>7, FS_Surjection
  <1>9. Cardinality(S) \in Nat /\ Cardinality(B) \in Nat /\ Cardinality(T) \in Nat
    <2> HIDE DEF T, B
    <2> QED
      BY <1>5, <1>6, <1>8, FS_CardinalityType
  <1>10. Cardinality(S) <= MaxSignals
    BY DEF Deduplicated
  <1> HIDE DEF T, B
  <1>11. IsFiniteSet(T) /\ Cardinality(T) <= MaxSignals /\ Cardinality(T) \in Nat
    BY <1>6, <1>8, <1>9, <1>10, EngineAssumption
  <1> QED
    BY <1>11 DEF T, B

\* At a tick, nothing is in flight and the portfolio is up to date.
LEMMA TickFresh ==
    ASSUME TypeOK, Fresh, loop.pc = "tick"
    PROVE  snap = pos /\ flying = {} /\ loop.todo = {}
  <1>1. \A b \in Brokers : snap[b] = pos[b]
    BY DEF Fresh
  <1> QED
    BY <1>1 DEF TypeOK, Fresh
LEMMA FreshStep ==
    ASSUME Undisturbed, TypeOK, Fresh, [Next]_vars
    PROVE  Fresh'
  <1> USE DEF Fresh, engineVars, history
  <1>1. ~Crash /\ ~CrashInWrite /\ \A b \in Brokers : ~RefreshFails(b)
    BY DEF Undisturbed, Crash, CrashInWrite, RefreshFails, Fault
  <1>2. ASSUME NEW S \in SUBSET Signals, Tick(S)
        PROVE  Fresh'
    <2>1. loop'.pc = "orders" /\ loop'.todo = loop.todo
      BY <1>2 DEF Tick, TypeOK
    <2> QED
      BY <1>2, <2>1 DEF Tick
  <1>3. ASSUME NEW s \in flying, OrderFilled(s) \/ OrderRejected(s) \/ OrderRaises(s)
        PROVE  Fresh'
    <2>1. loop.pc = "orders" /\ loop' = loop
      BY <1>3 DEF TypeOK, OrderFilled, OrderRejected, OrderRaises
    <2> QED
      BY <2>1
  <1>4. CASE OrdersDone
    BY <1>4 DEF OrdersDone
  <1>5. ASSUME NEW b \in Brokers, RefreshOk(b)
        PROVE  Fresh'
    <2>1. loop.pc = "refresh" /\ loop'.pc = "refresh" /\ loop'.todo = loop.todo \ {b}
      BY <1>5 DEF RefreshOk, TypeOK
    <2>2. pos' = pos /\ snap' = [snap EXCEPT ![b] = pos[b]]
      BY <1>5 DEF RefreshOk
    <2> QED
      BY <2>1, <2>2 DEF TypeOK
  <1>6. CASE TickEnd \/ LoopExit
    <2>1. loop'.todo = loop.todo /\ loop.todo = {} /\ loop.pc # "orders"
      BY <1>6 DEF TickEnd, LoopExit, TypeOK
    <2> QED
      BY <1>6, <2>1 DEF TickEnd, LoopExit
  <1>7. CASE UNCHANGED <<loop, pos, snap>>
    BY <1>7
  <1>8. CASE Operator
    BY <1>7, <1>8 DEF Operator, StopBegin, StopEnd, Resume, ManualResume, UpdateStrategy
  <1>9. CASE Clock \/ UNCHANGED vars
    BY <1>7, <1>9 DEF Clock, vars
  <1> QED
    BY <1>1, <1>2, <1>3, <1>4, <1>5, <1>6, <1>8, <1>9 DEF Next, Loop

LEMMA ExposureStep ==
    ASSUME Undisturbed, CapInv, [Next]_vars
    PROVE  ExposureBound'
  <1> USE DEF history
  <1>0. TypeOK /\ Fresh /\ ExposureBound
    BY DEF CapInv
  <1>1. ASSUME NEW S \in SUBSET Signals, Tick(S)
        PROVE  ExposureBound'
    <2>1. snap = pos /\ flying = {} /\ pos' = pos
      BY <1>0, <1>1, TickFresh DEF Tick
    <2>2. HeldIn(pos') = HeldIn(pos)
      BY <2>1
    <2>3. CASE \A s \in flying' : s.action # "buy"
      <3>1. Exposed' \subseteq Exposed
        BY <2>2, <2>3 DEF Exposed, Targets
      <3> QED
        BY <1>0, <3>1, ShrinkKeeps
    <2>4. CASE \E s \in flying' : s.action = "buy"
      <3>1. PICK s \in S : Passes(s) /\ s.action = "buy"
        BY <1>1, <2>4 DEF Tick
      <3>2. Cardinality(HeldIn(pos)) < GlobalMaxPositions
        BY <2>1, <3>1 DEF Passes, total_open_positions
      <3>3. IsFiniteSet(Targets') /\ Cardinality(Targets') <= MaxSignals
            /\ Cardinality(Targets') \in Nat
        <4>1. flying' \in SUBSET S /\ Deduplicated(S)
          BY <1>1 DEF Tick
        <4> QED
          BY <4>1, FewTargets DEF Targets
      <3>4. IsFiniteSet(HeldIn(pos)) /\ Cardinality(HeldIn(pos)) \in Nat
        BY <1>0, Positions, FinitelyMany
      <3>5. /\ Cardinality(HeldIn(pos) \cup Targets') =
                  Cardinality(HeldIn(pos)) + Cardinality(Targets')
                    - Cardinality(HeldIn(pos) \cap Targets')
            /\ Cardinality(HeldIn(pos) \cap Targets') \in Nat
        <4>1. IsFiniteSet(HeldIn(pos) \cap Targets')
          BY <3>4, FS_Subset
        <4> QED
          BY <3>3, <3>4, <4>1, FS_Union, FS_CardinalityType
      <3>6. Cardinality(HeldIn(pos) \cup Targets') <= GlobalMaxPositions - 1 + MaxSignals
        BY <3>2, <3>3, <3>4, <3>5, EngineAssumption
      <3> QED
        BY <2>2, <3>6 DEF ExposureBound, Exposed
    <2> QED
      BY <2>3, <2>4
  <1>2. ASSUME NEW s \in flying, flying' = flying \ {s},
               pos' = pos \/ (\E closes \in BOOLEAN : pos' = Applied(s, closes))
        PROVE  ExposureBound'
    <2>1. s \in Signals /\ s.broker \in Brokers /\ s.symbol \in Symbols
      BY <1>0 DEF TypeOK, Signals
    <2>2. Targets' \subseteq Targets
      BY <1>2 DEF Targets
    <2>3. HeldIn(pos') \subseteq HeldIn(pos) \cup Targets
      <3>1. s.action = "buy" => <<s.broker, s.symbol>> \in Targets
        BY DEF Targets
      <3>2. \A p \in HeldIn(pos') :
               p \in HeldIn(pos) \/ (s.action = "buy" /\ p = <<s.broker, s.symbol>>)
        BY <1>0, <1>2, <2>1 DEF HeldIn, Applied, TypeOK
      <3> QED
        BY <3>1, <3>2
    <2>4. Exposed' \subseteq Exposed
      BY <2>2, <2>3 DEF Exposed
    <2> QED
      BY <1>0, <2>4, ShrinkKeeps
  <1>3. ASSUME NEW s \in flying, OrderFilled(s) \/ OrderRejected(s) \/ OrderRaises(s)
        PROVE  ExposureBound'
    BY <1>2, <1>3 DEF OrderFilled, OrderRejected, OrderRaises
  <1>4. CASE UNCHANGED <<pos, flying>>
    <2>1. Exposed' \subseteq Exposed
      BY <1>4 DEF Exposed, Targets
    <2> QED
      BY <1>0, <2>1, ShrinkKeeps
  <1>5. CASE OrdersDone \/ TickEnd \/ LoopExit \/ Clock \/ UNCHANGED vars
    BY <1>4, <1>5 DEF OrdersDone, TickEnd, LoopExit, Clock, vars
  <1>6. CASE \E b \in Brokers : RefreshOk(b) \/ RefreshFails(b)
    BY <1>4, <1>6 DEF RefreshOk, RefreshFails
  <1>7. CASE Operator
    BY <1>4, <1>7 DEF Operator, StopBegin, StopEnd, Resume, ManualResume, UpdateStrategy
  <1>8. ~Crash /\ ~CrashInWrite
    BY DEF Undisturbed, Crash, CrashInWrite, Fault
  <1> QED
    BY <1>1, <1>3, <1>5, <1>6, <1>7, <1>8 DEF Next, Loop

LEMMA CapInitially ==
    ASSUME Init
    PROVE  CapInv
  <1>1. TypeOK
    BY InitTypes
  <1>2. Fresh
    BY DEF Init, Fresh
  <1>3. ExposureBound
    <2>1. Exposed = {}
      BY DEF Exposed, Targets, HeldIn, Init
    <2> QED
      BY <2>1, FS_EmptySet, EngineAssumption DEF ExposureBound
  <1> QED
    BY <1>1, <1>2, <1>3 DEF CapInv

LEMMA CapInvariance ==
    ASSUME Undisturbed
    PROVE  Spec => []CapInv
  <1>1. CapInv /\ [Next]_vars => CapInv'
    BY TypeStep, FreshStep, ExposureStep DEF CapInv
  <1> QED
    BY <1>1, CapInitially, PTL DEF Spec

\* The orders of a tick are all checked against one portfolio: with refreshes that
\* work and no restart, the limit is passed by no more than the signals of one tick,
\* for every number of brokers, symbols and signals.
THEOREM OvershootBounded ==
    ASSUME Undisturbed
    PROVE  Spec => []OvershootBound
  <1>1. CapInv => OvershootBound
    <2> SUFFICES ASSUME CapInv PROVE OvershootBound
      OBVIOUS
    <2>1. IsFiniteSet(Exposed) /\ Cardinality(Exposed) \in Nat
      BY Positions, FinitelyMany DEF CapInv
    <2>2. IsFiniteSet(HeldIn(pos)) /\ Cardinality(HeldIn(pos)) \in Nat
          /\ Cardinality(HeldIn(pos)) <= Cardinality(Exposed)
      BY <2>1, Positions, FinitelyMany, FS_Subset DEF CapInv, Exposed
    <2> QED
      BY <2>1, <2>2, EngineAssumption DEF OvershootBound, OpenPositions, CapInv, ExposureBound
  <1> QED
    BY <1>1, CapInvariance, PTL

\* No order for a new position is sent while the brokers hold as many as the limit
\* allows, with refreshes that work and no restart.
THEOREM CapKept ==
    ASSUME Undisturbed
    PROVE  Spec => PositionCap
  <1>1. CapInv /\ [Next]_vars =>
          [\A s \in flying' \ flying : s.action = "buy" => OpenPositions < GlobalMaxPositions]_vars
    <2> SUFFICES ASSUME CapInv, [Next]_vars, NEW s \in flying' \ flying, s.action = "buy"
                 PROVE  OpenPositions < GlobalMaxPositions
      OBVIOUS
    <2>1. PICK S \in SUBSET Signals : Tick(S)
      BY OnlyTickSends
    <2>2. Passes(s)
      BY <2>1 DEF Tick
    <2>3. snap = pos
      BY <2>1, TickFresh DEF CapInv, Tick
    <2> QED
      BY <2>2, <2>3 DEF Passes, total_open_positions, OpenPositions
  <1> QED
    BY <1>1, CapInvariance, PTL DEF Spec, PositionCap
=============================================================================
