------------------------- MODULE PolyPositions_proofs -------------------------
(***************************************************************************)
(* Theorems about PolyPositions, and about the file that its ledger is     *)
(* (PolyLedgerFile).                                                       *)
(***************************************************************************)
EXTENDS PolyPositions, PolyLedgerFile, FiniteSetTheorems, TLAPS

-----------------------------------------------------------------------------
(* The inductive invariant.                                                *)

\* Program counters and locals agree with each other and with the ledger.
Shape ==
    /\ Len(sold) = Len(ledger)
    /\ wk.pc \in {"buy", "record"} => wk.market \in Markets
    /\ wk.pc = "buy" => wk.legs # << >>
    /\ Len(wk.seen) <= Len(ledger)
    /\ wk.todo \subseteq DOMAIN wk.seen
    /\ \A c \in Closers :
          /\ cl[c].pc # "idle" => cl[c].pos \in DOMAIN ledger
          /\ cl[c].pc = "sell" => cl[c].legs # << >>

\* Only the executor adds records: while it runs its position slot stays free.
SlotReserved == wk.pc \in {"buy", "record"} => open_count < MaxPositions

Unmarked == {"open", "unhedged"}

\* Program counters of a close_position call that sells from here on.
Armed == {"books", "sell", "finish"}

\* Whoever may send a SELL without marking its record first finds it marked.
Marked ==
    /\ \A c \in Closers : cl[c].pc \in Armed =>
          ledger[cl[c].pos].status \notin Unmarked
    /\ \A i \in DOMAIN wk.seen :
          wk.seen[i] = "closing" => ledger[i].status \notin Unmarked

\* The legs a close still has to sell: all of the record's, or the second of a pair.
Leftover(c) ==
    LET i == cl[c].pos IN
    \/ cl[c].legs = tokens_to_sell(ledger[i].side)
    \/ /\ ledger[i].side = "YES+NO" /\ cl[c].legs = <<"NO">>
       /\ cl[c].ok => "YES" \in sold[i].acked

\* Only legs that were bought are acknowledged; a close that still believes it succeeded has
\* the acknowledgements of the legs behind it.
Acknowledged ==
    /\ \A i \in DOMAIN ledger : sold[i].acked \subseteq BoughtLegs(ledger[i].side)
    /\ \A c \in Closers : cl[c].pc = "sell" => Leftover(c)
    /\ \A c \in Closers : cl[c].pc = "finish" /\ cl[c].ok =>
          sold[cl[c].pos].acked = BoughtLegs(ledger[cl[c].pos].side)

IInv ==
    /\ TypeOK
    /\ Shape
    /\ PositionLimit
    /\ SlotReserved
    /\ MarkedBeforeSell
    /\ Marked
    /\ Acknowledged
    /\ ClosedOnlyAfterAck

-----------------------------------------------------------------------------
(* What a call on the ledger does to it.                                   *)

\* The ledger after one record moved along an edge of VALID_TRANSITIONS, or did not; what
\* was bought does not change.
AdvancesAt(L, i) ==
    /\ L \in Seq(Records)
    /\ Len(L) = Len(ledger)
    /\ \A j \in DOMAIN ledger : j # i => L[j] = ledger[j]
    /\ L[i].side = ledger[i].side /\ L[i].market = ledger[i].market
    /\ L[i].status \in {ledger[i].status} \cup VALID_TRANSITIONS[ledger[i].status]

\* transition() moves the record it names or leaves the ledger as it was.
LEMMA TransitionAdvances ==
    ASSUME ledger \in Seq(Records), NEW i \in DOMAIN ledger, NEW s \in Statuses
    PROVE  AdvancesAt(transition(i, s), i)
  <1>1. ledger[i] \in Records
    OBVIOUS
  <1>2. CASE s \in VALID_TRANSITIONS[ledger[i].status]
    <2> DEFINE r == [ledger[i] EXCEPT !.status = s]
    <2>1. transition(i, s) = [ledger EXCEPT ![i] = r]
      BY <1>2 DEF transition
    <2>2. r \in Records /\ r.status = s /\ r.side = ledger[i].side /\ r.market = ledger[i].market
      BY <1>1 DEF Records
    <2> HIDE DEF r
    <2> QED
      BY <1>1, <1>2, <2>1, <2>2 DEF AdvancesAt
  <1>3. CASE s \notin VALID_TRANSITIONS[ledger[i].status]
    BY <1>3 DEF transition, AdvancesAt
  <1> QED
    BY <1>2, <1>3

\* So does a transition to a final status, with the fields it writes.
LEMMA FinalizeAdvances ==
    ASSUME ledger \in Seq(Records), day \in 1..MaxDay, MaxDay \in Nat,
           NEW i \in DOMAIN ledger, NEW s \in Statuses, NEW pnl \in {-1, 0, 1}
    PROVE  AdvancesAt(finalize(i, s, pnl), i)
  <1>1. ledger[i] \in Records
    OBVIOUS
  <1>2. CASE s \in VALID_TRANSITIONS[ledger[i].status]
    <2> DEFINE r == [ledger[i] EXCEPT !.status = s, !.pnl = pnl]
    <2>1. finalize(i, s, pnl) = [ledger EXCEPT ![i] = r]
      BY <1>2 DEF finalize
    <2>2. day \in 0..MaxDay
      OBVIOUS
    <2>3. r \in Records
      BY <1>1, <2>2 DEF Records
    <2>4. r.status = s /\ r.side = ledger[i].side /\ r.market = ledger[i].market
      BY <1>1 DEF Records
    <2> HIDE DEF r
    <2> QED
      BY <1>1, <1>2, <2>1, <2>3, <2>4 DEF AdvancesAt
  <1>3. CASE s \notin VALID_TRANSITIONS[ledger[i].status]
    BY <1>3 DEF finalize, AdvancesAt
  <1> QED
    BY <1>2, <1>3

\* A step leaves the ledger alone, moves one record, or adds one.
LEMMA LedgerStep ==
    ASSUME TypeOK, Shape, [Next]_vars
    PROVE  \/ ledger' = ledger
           \/ \E i \in DOMAIN ledger : AdvancesAt(ledger', i)
           \/ RecordPosition
  <1> USE PolyAssumption DEF PolyAssumption
  <1>1. ASSUME NEW i \in DOMAIN ledger, MonitorResolved(i)
        PROVE  AdvancesAt(ledger', i)
    <2>1. PICK pnl \in {-1, 0, 1} : ledger' = finalize(i, "resolved", pnl)
      BY <1>1 DEF MonitorResolved
    <2> QED
      BY <2>1, FinalizeAdvances DEF TypeOK, Statuses
  <1>2. ASSUME NEW i \in DOMAIN ledger, MonitorStale(i)
        PROVE  AdvancesAt(ledger', i)
    BY <1>2, TransitionAdvances DEF MonitorStale, TypeOK, Statuses
  <1>3. ASSUME NEW c \in Closers, CloseMark(c)
        PROVE  cl[c].pos \in DOMAIN ledger /\ AdvancesAt(ledger', cl[c].pos)
    <2>1. cl[c].pos \in DOMAIN ledger
      BY <1>3 DEF CloseMark, Shape
    <2> QED
      BY <1>3, <2>1, TransitionAdvances DEF CloseMark, TypeOK, Statuses
  <1>4. ASSUME NEW c \in Closers, CloseFinish(c)
        PROVE  cl[c].pos \in DOMAIN ledger /\ (ledger' = ledger \/ AdvancesAt(ledger', cl[c].pos))
    <2>1. cl[c].pos \in DOMAIN ledger
      BY <1>4 DEF CloseFinish, Shape
    <2>2. CASE cl[c].ok
      <3>1. PICK pnl \in {-1, 1} : ledger' = finalize(cl[c].pos, "closed", pnl)
        BY <1>4, <2>2 DEF CloseFinish
      <3> QED
        BY <2>1, <3>1, FinalizeAdvances DEF TypeOK, Statuses
    <2>3. CASE ~cl[c].ok
      BY <1>4, <2>1, <2>3 DEF CloseFinish
    <2> QED
      BY <2>2, <2>3
  <1>5. ASSUME NEW c \in Closers, ClosePosition(c)
        PROVE  ledger' = ledger \/ \E i \in DOMAIN ledger : AdvancesAt(ledger', i)
    BY <1>3, <1>4, <1>5 DEF ClosePosition, CloseBooks, CloseUnavailable, SellLeg, CloseSaveFails
  <1>6. CASE Scan \/ Buy
    BY <1>6 DEF Scan, Buy, Execute, SkipScan, BuyLeg, RecordFails
  <1>7. CASE Monitor \/ MonitorNotDue
    BY <1>1, <1>2, <1>7 DEF Monitor, MonitorNotDue, MonitorStart, MonitorRetryClose,
        MonitorTrading, MonitorBlind, MonitorSkips, MonitorEnd
  <1>8. CASE ClosePosition("worker")
    BY <1>5, <1>8 DEF Closers
  <1>9. CASE Dashboard
    BY <1>5, <1>9 DEF Dashboard, WebClose, SetPaused, Closers
  <1>10. CASE World
    BY <1>10 DEF World, MarketEvent, Age, NextDay, CrashWorker, CrashWeb
  <1>11. CASE UNCHANGED vars
    BY <1>11 DEF vars
  <1> QED
    BY <1>6, <1>7, <1>8, <1>9, <1>10, <1>11 DEF Next

-----------------------------------------------------------------------------
(* Types.                                                                  *)

\* What the assumption on the constants says of the bounds.
LEMMA Bounds ==
    /\ MaxRetries \in Nat /\ 0 \in 0..MaxRetries
    /\ MaxDay \in Nat /\ 1 \in 1..MaxDay
    /\ MaxPositions \in Nat /\ 0 <= MaxPositions
  BY PolyAssumption DEF PolyAssumption

LEMMA Consume ==
    ASSUME NEW S, NEW q \in Seq(S), q # << >>
    PROVE  Head(q) \in S /\ Tail(q) \in Seq(S) /\ Len(q) \in Nat \ {0} /\ (Len(q) # 1 => Tail(q) # << >>)
  BY SMTT(20)

\* Counters per market and leg stay counters.
LEMMA Counters ==
    ASSUME NEW m \in Markets, NEW leg \in Legs, NEW k \in Nat
    PROVE  /\ \A f \in [Markets -> [Legs -> Nat]] :
                [f EXCEPT ![m][leg] = @ + k] \in [Markets -> [Legs -> Nat]]
           /\ \A f \in [Markets -> [Legs -> Int]] :
                /\ [f EXCEPT ![m][leg] = @ + k] \in [Markets -> [Legs -> Int]]
                /\ [f EXCEPT ![m][leg] = @ - k] \in [Markets -> [Legs -> Int]]
  OBVIOUS

LEMMA IdleTypes == IdleWorker \in WorkerStates /\ IdleCloser \in CloserStates
  BY Bounds DEF IdleWorker, IdleCloser, WorkerStates, CloserStates, Sides

LEMMA StrategyTypes ==
    ASSUME NEW s
    PROVE  SideOf(s) \in Sides /\ LegsOf(s) \in Seq(Legs) /\ LegsOf(s) # << >>
  <1>1. CASE s \in {"orderbook_spread", "underround"}
    BY <1>1 DEF SideOf, Sides, LegsOf, Legs
  <1>2. CASE s \notin {"orderbook_spread", "underround"}
    BY <1>2 DEF SideOf, Sides, LegsOf, Legs
  <1> QED
    BY <1>1, <1>2

LEMMA SellTypes ==
    ASSUME NEW side
    PROVE  tokens_to_sell(side) \in Seq(Legs) /\ contracts_per_leg(side) \in Nat
  <1>1. CASE side = "YES+NO"
    BY <1>1 DEF tokens_to_sell, contracts_per_leg, Legs
  <1>2. CASE side = "YES"
    BY <1>2 DEF tokens_to_sell, contracts_per_leg, Legs
  <1>3. CASE side \notin {"YES+NO", "YES"}
    BY <1>3 DEF tokens_to_sell, contracts_per_leg, Legs
  <1> QED
    BY <1>1, <1>2, <1>3

LEMMA AttemptTypes ==
    ASSUME NEW can, NEW try, NEW a \in Attempts(can, try)
    PROVE  a.cost \in Nat /\ (a.res = "retry" => try < MaxRetries)
  BY DEF Attempts, CanRetry

\* Without lost answers, the caller knows of every order that is taken.
LEMMA ReliableAttempt ==
    ASSUME NEW can \in BOOLEAN, NEW try, NEW a \in Attempts(can, try), ~Fault("lost")
    PROVE  \/ a.res = "ack" /\ a.accepted
           \/ a.res \in {"retry", "raise"} /\ ~a.accepted
  BY DEF Attempts

LEMMA TypedInit == Init => TypeOK /\ Shape
  <1> SUFFICES ASSUME Init PROVE TypeOK /\ Shape
    OBVIOUS
  <1>1. wk \in WorkerStates /\ cl \in [Closers -> CloserStates]
    BY IdleTypes DEF Init
  <1>2. paused \in BOOLEAN
    BY DEF Init
  <1>3. /\ held \in [Markets -> [Legs -> Int]]
        /\ market \in [Markets -> {"trading", "ended", "resolved"}]
        /\ faults \in Nat
        /\ bought \in [Markets -> [Legs -> Nat]]
        /\ day \in 1..MaxDay
        /\ ledger = << >> /\ sold = << >> /\ aged = {}
    BY Bounds DEF Init
  <1>4. TypeOK
    BY <1>1, <1>2, <1>3 DEF TypeOK
  <1>5. Shape
    BY DEF Init, Shape, IdleWorker, IdleCloser
  <1> QED
    BY <1>4, <1>5

\* A step of the worker's loop that leaves the ledger and the closers alone.
LoopStep ==
    /\ wk' \in WorkerStates
    /\ wk'.pc \in {"buy", "record"} => wk'.market \in Markets
    /\ wk'.pc = "buy" => wk'.legs # << >>
    /\ Len(wk'.seen) <= Len(ledger)
    /\ wk'.todo \subseteq DOMAIN wk'.seen

LEMMA LoopStepTyped ==
    ASSUME TypeOK, Shape, LoopStep, held' \in [Markets -> [Legs -> Int]], faults' \in Nat,
           bought' \in [Markets -> [Legs -> Nat]],
           UNCHANGED <<ledger, market, aged, paused, day, cl, sold>>
    PROVE  TypeOK' /\ Shape'
  BY DEF TypeOK, Shape, LoopStep

\* The worker stays idle, or keeps its snapshot and forgets some of it.
LEMMA SameLoop ==
    ASSUME TypeOK, Shape, wk' = wk \/ (\E S : wk' = [wk EXCEPT !.todo = @ \ S])
    PROVE  LoopStep
  <1>1. wk \in WorkerStates
    BY DEF TypeOK
  <1>2. CASE wk' = wk
    BY <1>1, <1>2 DEF LoopStep, Shape
  <1>3. ASSUME NEW S, wk' = [wk EXCEPT !.todo = @ \ S]
        PROVE  LoopStep
    <2>1. wk.todo \ S \in SUBSET Nat
      BY <1>1 DEF WorkerStates
    <2>2. wk' \in WorkerStates
      BY <1>1, <1>3, <2>1 DEF WorkerStates
    <2> QED
      BY <1>1, <1>3, <2>2 DEF LoopStep, Shape, WorkerStates
  <1> QED
    BY <1>2, <1>3

\* One closer moves to the state st.
CloserStep(c, st) ==
    /\ st \in CloserStates
    /\ st.pc # "idle" => st.pos \in DOMAIN ledger
    /\ st.pc = "sell" => st.legs # << >>
    /\ cl' = [cl EXCEPT ![c] = st]

LEMMA CloserStepTyped ==
    ASSUME TypeOK, Shape, LoopStep,
           cl' = cl \/ (\E c \in Closers : \E st : CloserStep(c, st)),
           ledger' \in Seq(Records), Len(ledger') = Len(ledger),
           sold' \in Seq(SaleStates), Len(sold') = Len(sold),
           held' \in [Markets -> [Legs -> Int]], faults' \in Nat,
           UNCHANGED <<market, aged, paused, day, bought>>
    PROVE  TypeOK' /\ Shape'
  <1>1. DOMAIN ledger' = DOMAIN ledger
    BY DEF TypeOK
  <1>2. /\ cl' \in [Closers -> CloserStates]
        /\ \A c \in Closers : /\ cl'[c].pc # "idle" => cl'[c].pos \in DOMAIN ledger
                              /\ cl'[c].pc = "sell" => cl'[c].legs # << >>
    <2>1. CASE cl' = cl
      BY <2>1 DEF TypeOK, Shape
    <2>2. ASSUME NEW c \in Closers, NEW st, CloserStep(c, st)
          PROVE  <1>2!1 /\ <1>2!2
      BY <2>2 DEF TypeOK, Shape, CloserStep
    <2> QED
      BY <2>1, <2>2
  <1>3. TypeOK'
    BY <1>1, <1>2 DEF TypeOK, LoopStep
  <1>4. Shape'
    BY <1>1, <1>2 DEF TypeOK, Shape, LoopStep
  <1> QED
    BY <1>3, <1>4

LEMMA TypedStep ==
    ASSUME TypeOK, Shape, [Next]_vars
    PROVE  TypeOK' /\ Shape'
  <1>1. ASSUME NEW s \in Strategies, NEW m \in Markets, Execute(s, m)
        PROVE  TypeOK' /\ Shape'
    <2>1. /\ SideOf(s) \in Sides
          /\ LegsOf(s) \in Seq(Legs)
          /\ LegsOf(s) # << >>
      BY StrategyTypes
    <2>2. wk' = [wk EXCEPT !.pc = "buy", !.market = m, !.side = SideOf(s), !.legs = LegsOf(s)]
      BY <1>1 DEF Execute
    <2>3. LoopStep
      BY <2>1, <2>2 DEF TypeOK, Shape, WorkerStates, LoopStep
    <2> QED
      BY <1>1, <2>3, LoopStepTyped DEF Execute, TypeOK
  <1>2. CASE SkipScan
    BY <1>2 DEF SkipScan, TypeOK, Shape, WorkerStates
  <1>3. CASE BuyLeg
    <2> DEFINE leg == Head(wk.legs)
               m   == wk.market
    <2>1. /\ wk \in WorkerStates /\ wk.pc = "buy"
          /\ m \in Markets /\ wk.legs \in Seq(Legs) /\ wk.legs # << >>
          /\ Len(wk.seen) <= Len(ledger) /\ wk.todo \subseteq DOMAIN wk.seen
      BY <1>3 DEF BuyLeg, TypeOK, Shape, WorkerStates
    <2>2. leg \in Legs /\ Tail(wk.legs) \in Seq(Legs) /\ (Len(wk.legs) # 1 => Tail(wk.legs) # << >>)
      BY <2>1, Consume
    <2>3. PICK a \in Attempts(market[m] # "resolved", wk.try) :
              /\ wk' = AfterBuy(a.res)
              /\ faults' = faults + a.cost
              /\ bought' = IF a.accepted THEN [bought EXCEPT ![m][leg] = @ + 1] ELSE bought
              /\ held' = IF a.fills THEN [held EXCEPT ![m][leg] = @ + 2] ELSE held
      BY <1>3 DEF BuyLeg
    <2>4. a.cost \in Nat /\ (a.res = "retry" => wk.try < MaxRetries)
      BY <2>3, AttemptTypes
    <2>5. faults' \in Nat /\ bought' \in [Markets -> [Legs -> Nat]]
                /\ held' \in [Markets -> [Legs -> Int]]
      <3>1. /\ [bought EXCEPT ![m][leg] = @ + 1] \in [Markets -> [Legs -> Nat]]
            /\ [held EXCEPT ![m][leg] = @ + 2] \in [Markets -> [Legs -> Int]]
        BY <2>1, <2>2, Counters DEF TypeOK
      <3>2. faults \in Nat /\ bought \in [Markets -> [Legs -> Nat]] /\ held \in [Markets -> [Legs -> Int]]
        BY DEF TypeOK
      <3> DEFINE oneMore == [bought EXCEPT ![m][leg] = @ + 1]
                 received == [held EXCEPT ![m][leg] = @ + 2]
      <3>3. (bought' = oneMore \/ bought' = bought) /\ (held' = received \/ held' = held)
        BY <2>3
      <3>4. oneMore \in [Markets -> [Legs -> Nat]] /\ received \in [Markets -> [Legs -> Int]]
        BY <3>1
      <3>5. faults' \in Nat
        BY <2>3, <2>4, <3>2
      <3> HIDE DEF oneMore, received
      <3> QED
        BY <3>2, <3>3, <3>4, <3>5
    <2>6. LoopStep
      <3>1. CASE a.res = "ack"
        <4>1. wk' = [wk EXCEPT !.legs = Tail(@), !.try = 0, !.got = @ \cup {leg},
                               !.pc = IF Len(wk.legs) = 1 THEN "record" ELSE "buy"]
          BY <2>3, <3>1 DEF AfterBuy
        <4>2. wk.got \cup {leg} \in SUBSET Legs
          BY <2>1, <2>2 DEF WorkerStates
        <4>3. wk' \in WorkerStates
          BY <2>1, <2>2, <4>1, <4>2, Bounds DEF WorkerStates
        <4> QED
          BY <2>1, <2>2, <4>1, <4>3 DEF LoopStep, WorkerStates
      <3>2. CASE a.res = "retry"
        <4>1. wk' = [wk EXCEPT !.try = @ + 1]
          BY <2>3, <3>2 DEF AfterBuy
        <4>2. wk.try + 1 \in 0..MaxRetries
          BY <2>1, <2>4, <3>2, Bounds DEF WorkerStates
        <4>3. wk' \in WorkerStates
          BY <2>1, <4>1, <4>2 DEF WorkerStates
        <4> QED
          BY <2>1, <4>1, <4>3 DEF LoopStep, WorkerStates
      <3>3. CASE a.res \notin {"ack", "retry"} /\ wk.got = {}
        <4>1. wk' = [IdleWorker EXCEPT !.pc = "scanned"]
          BY <2>3, <3>3 DEF AfterBuy
        <4>2. wk' \in WorkerStates /\ wk'.pc = "scanned" /\ wk'.seen = << >> /\ wk'.todo = {}
          BY <4>1, IdleTypes DEF WorkerStates, IdleWorker
        <4> QED
          BY <4>2 DEF LoopStep, TypeOK
      <3>4. CASE a.res \notin {"ack", "retry"} /\ wk.got # {}
        <4>1. wk' = [wk EXCEPT !.pc = "record", !.try = 0]
          BY <2>3, <3>4 DEF AfterBuy
        <4> QED
          BY <2>1, <4>1, Bounds DEF LoopStep, WorkerStates
      <3> QED
        BY <3>1, <3>2, <3>3, <3>4
    <2> QED
      BY <1>3, <2>5, <2>6, LoopStepTyped DEF BuyLeg
  <1>4. CASE RecordPosition
    <2>1. /\ wk \in WorkerStates /\ wk.market \in Markets /\ wk.side \in Sides
          /\ ledger \in Seq(Records) /\ sold \in Seq(SaleStates) /\ Len(sold) = Len(ledger)
      BY <1>4 DEF RecordPosition, TypeOK, Shape, WorkerStates
    <2> DEFINE r == IF wk.legs = << >> THEN new_position(wk.market, wk.side, "open")
                                       ELSE new_position(wk.market, "YES", "unhedged")
    <2>2. r \in Records
      <3>1. 0 \in 0..MaxDay /\ day \in 1..MaxDay
        BY Bounds DEF TypeOK
      <3> QED
        BY <2>1, <3>1 DEF Records, new_position, Sides, Statuses
    <2>3. NoSales \in SaleStates
      BY DEF NoSales, SaleStates
    <2>4. /\ ledger' = Append(ledger, r) /\ sold' = Append(sold, NoSales)
          /\ wk' = [IdleWorker EXCEPT !.pc = "scanned"]
      BY <1>4 DEF RecordPosition
    <2> HIDE DEF r
    <2>5. /\ ledger' \in Seq(Records) /\ sold' \in Seq(SaleStates) /\ Len(sold') = Len(ledger')
          /\ Len(ledger') = Len(ledger) + 1 /\ DOMAIN ledger \subseteq DOMAIN ledger'
      BY <2>1, <2>2, <2>3, <2>4, SMTT(20)
    <2>6. wk' \in WorkerStates /\ wk'.pc = "scanned" /\ wk'.seen = << >> /\ wk'.todo = {}
      BY <2>4, IdleTypes DEF WorkerStates, IdleWorker
    <2>7. TypeOK'
      BY <1>4, <2>5, <2>6 DEF RecordPosition, TypeOK
    <2>8. Shape'
      BY <1>4, <2>5, <2>6 DEF RecordPosition, Shape, TypeOK
    <2> QED
      BY <2>7, <2>8
  <1>5. CASE RecordFails \/ MonitorEnd \/ MonitorNotDue
    <2>1. wk' \in WorkerStates
      <3>1. \/ wk' = [IdleWorker EXCEPT !.pc = "scanned"]
            \/ wk' = IdleWorker
            \/ wk' = [wk EXCEPT !.pc = "loop"]
        BY <1>5 DEF RecordFails, MonitorEnd, MonitorNotDue
      <3>2. IdleWorker \in WorkerStates /\ wk \in WorkerStates
        BY IdleTypes DEF TypeOK
      <3> QED
        BY <3>1, <3>2 DEF WorkerStates
    <2>2. \/ wk'.pc \in {"scanned", "loop"} /\ wk'.seen = << >> /\ wk'.todo = {}
          \/ wk'.pc = "loop" /\ wk'.seen = wk.seen /\ wk'.todo = wk.todo
      <3>1. wk \in WorkerStates
        BY DEF TypeOK
      <3>2. CASE RecordFails \/ MonitorEnd
        BY <3>2 DEF RecordFails, MonitorEnd, IdleWorker
      <3>3. CASE MonitorNotDue
        BY <3>1, <3>3 DEF MonitorNotDue, WorkerStates
      <3> QED
        BY <1>5, <3>2, <3>3
    <2>3. LoopStep
      BY <2>1, <2>2 DEF LoopStep, TypeOK, Shape
    <2> QED
      BY <1>5, <2>3, LoopStepTyped DEF RecordFails, MonitorEnd, MonitorNotDue, TypeOK
  <1>6. CASE MonitorStart
    <2> DEFINE seen == [i \in DOMAIN ledger |-> ledger[i].status]
    <2>1. wk \in WorkerStates /\ ledger \in Seq(Records)
      BY DEF TypeOK
    <2>2. seen \in Seq(Statuses) /\ Len(seen) = Len(ledger) /\ DOMAIN seen = DOMAIN ledger
      <3>1. DOMAIN ledger = 1..Len(ledger) /\ Len(ledger) \in Nat
        BY <2>1
      <3>2. ASSUME NEW i \in DOMAIN ledger
            PROVE  ledger[i].status \in Statuses
        <4>1. ledger[i] \in Records
          BY <2>1
        <4> QED
          BY <4>1 DEF Records
      <3>3. seen \in [1..Len(ledger) -> Statuses]
        BY <3>1, <3>2
      <3> HIDE DEF seen
      <3> QED
        BY <3>1, <3>3
    <2>3. ActiveRecords \in SUBSET Nat /\ ActiveRecords \subseteq DOMAIN ledger
      BY <2>1 DEF ActiveRecords
    <2>4. wk' = [wk EXCEPT !.pc = "monitor", !.todo = ActiveRecords, !.seen = seen]
      BY <1>6 DEF MonitorStart
    <2> HIDE DEF seen
    <2>5. wk' \in WorkerStates
      BY <2>1, <2>2, <2>3, <2>4 DEF WorkerStates
    <2>6. LoopStep
      BY <2>1, <2>2, <2>3, <2>4, <2>5 DEF LoopStep, WorkerStates
    <2> QED
      BY <1>6, <2>6, LoopStepTyped DEF MonitorStart, TypeOK
  <1>7. ASSUME NEW i \in DOMAIN ledger, NextRecord(i)
        PROVE  LoopStep
    BY <1>7, SameLoop DEF NextRecord
  <1>8. Closers # {} /\ "worker" \in Closers
    BY DEF Closers
  <1>9. ASSUME NEW i \in DOMAIN ledger, NEW seen
        PROVE  /\ Closing(i, seen) \in CloserStates
               /\ Closing(i, seen).pos = i
               /\ Closing(i, seen).pc # "sell"
    <2>1. i \in Nat /\ IdleCloser \in CloserStates
      BY IdleTypes DEF TypeOK
    <2> DEFINE at == IF seen = "closing" THEN "books" ELSE "mark"
    <2>2. at \in {"books", "mark"} /\ Closing(i, seen) = [IdleCloser EXCEPT !.pc = at, !.pos = i]
      BY DEF Closing
    <2> HIDE DEF at
    <2> QED
      BY <2>1, <2>2 DEF CloserStates
  <1>10. ASSUME NEW i \in DOMAIN ledger, MaybeClose(i)
         PROVE  cl' = cl \/ \E c \in Closers : \E st : CloserStep(c, st)
    BY <1>8, <1>9, <1>10 DEF MaybeClose, CloserStep
  <1>11. ASSUME NEW i \in DOMAIN ledger,
                \/ MonitorRetryClose(i) \/ MonitorResolved(i) \/ MonitorStale(i)
                \/ MonitorTrading(i) \/ MonitorBlind(i) \/ MonitorSkips(i)
         PROVE  TypeOK' /\ Shape'
    <2>1. cl' = cl \/ \E c \in Closers : \E st : CloserStep(c, st)
      BY <1>8, <1>9, <1>10, <1>11 DEF MonitorRetryClose, MonitorResolved, MonitorStale,
          MonitorTrading, MonitorBlind, MonitorSkips, CloserStep
    <2>2. LoopStep
      BY <1>7, <1>11 DEF MonitorRetryClose, MonitorResolved, MonitorStale,
          MonitorTrading, MonitorBlind, MonitorSkips
    <2>3. ledger' \in Seq(Records) /\ Len(ledger') = Len(ledger)
      BY <1>11, LedgerStep DEF AdvancesAt, TypeOK, MonitorRetryClose, MonitorResolved,
          MonitorStale, MonitorTrading, MonitorBlind, MonitorSkips, RecordPosition, AtRecord
    <2>4. faults' \in Nat /\ UNCHANGED <<held, market, aged, paused, day, bought, sold>>
      BY <1>11 DEF TypeOK, MonitorRetryClose, MonitorResolved,
          MonitorStale, MonitorTrading, MonitorBlind, MonitorSkips
    <2> QED
      BY <2>1, <2>2, <2>3, <2>4, CloserStepTyped DEF TypeOK
  <1>12. wk' = wk => LoopStep
    BY SameLoop
  <1>13. ASSUME NEW c \in Closers, CloseMark(c) \/ CloseBooks(c) \/ CloseUnavailable(c)
                                      \/ CloseFinish(c) \/ CloseSaveFails(c)
         PROVE  TypeOK' /\ Shape'
    <2>1. /\ cl[c] \in CloserStates /\ cl[c].pos \in DOMAIN ledger
          /\ IdleCloser \in CloserStates /\ IdleCloser.pc = "idle"
      BY <1>13, IdleTypes DEF TypeOK, Shape, IdleCloser, CloseMark, CloseBooks, CloseUnavailable,
          CloseFinish, CloseSaveFails
    <2>2. \E st : CloserStep(c, st)
      <3>1. CASE CloseMark(c)
        <4>1. cl' = [cl EXCEPT ![c] = [cl[c] EXCEPT !.pc = "books"]]
          BY <3>1 DEF CloseMark
        <4>2. CloserStep(c, [cl[c] EXCEPT !.pc = "books"])
          BY <2>1, <4>1 DEF CloserStep, CloserStates
        <4> QED
          BY <4>2
      <3>2. CASE CloseBooks(c)
        <4> DEFINE legs == tokens_to_sell(ledger[cl[c].pos].side)
        <4>1. /\ cl' = [cl EXCEPT ![c] = [cl[c] EXCEPT !.pc = "sell", !.legs = legs]]
              /\ legs # << >>
          BY <3>2 DEF CloseBooks
        <4>2. legs \in Seq(Legs)
          BY SellTypes
        <4> HIDE DEF legs
        <4>3. CloserStep(c, [cl[c] EXCEPT !.pc = "sell", !.legs = legs])
          BY <2>1, <4>1, <4>2 DEF CloserStep, CloserStates
        <4> QED
          BY <4>3
      <3>3. CASE CloseUnavailable(c) \/ CloseFinish(c) \/ CloseSaveFails(c)
        BY <2>1, <3>3 DEF CloseUnavailable, CloseFinish, CloseSaveFails, CloserStep
      <3> QED
        BY <1>13, <3>1, <3>2, <3>3
    <2>3. ledger' \in Seq(Records) /\ Len(ledger') = Len(ledger)
      BY <1>13, LedgerStep DEF AdvancesAt, TypeOK, CloseMark, CloseBooks, CloseUnavailable,
          CloseFinish, CloseSaveFails, RecordPosition
    <2>4. faults' \in Nat /\ UNCHANGED <<held, market, aged, paused, day, wk, bought, sold>>
      BY <1>13 DEF TypeOK, CloseMark, CloseBooks, CloseUnavailable, CloseFinish, CloseSaveFails
    <2> QED
      BY <1>12, <2>2, <2>3, <2>4, CloserStepTyped DEF TypeOK
  <1>14. ASSUME NEW c \in Closers, SellLeg(c)
         PROVE  TypeOK' /\ Shape'
    <2> DEFINE i    == cl[c].pos
               m    == ledger[i].market
               leg  == Head(cl[c].legs)
               size == contracts_per_leg(ledger[i].side)
               can  == held[m][leg] >= size /\ market[m] # "resolved"
    <2>1. /\ cl[c] \in CloserStates /\ cl[c].pc = "sell" /\ cl[c].legs \in Seq(Legs)
          /\ cl[c].legs # << >> /\ i \in DOMAIN ledger /\ i \in DOMAIN sold /\ size \in Nat
      <3>1. cl[c] \in CloserStates /\ cl[c].pc = "sell" /\ size \in Nat
        BY <1>14, SellTypes DEF SellLeg, TypeOK
      <3>2. cl[c].legs \in Seq(Legs)
        BY <3>1 DEF CloserStates
      <3>3. cl[c].legs # << >> /\ i \in DOMAIN ledger /\ DOMAIN sold = DOMAIN ledger
        BY <1>14, <3>1 DEF TypeOK, Shape
      <3> QED
        BY <3>1, <3>2, <3>3
    <2>2. leg \in Legs /\ m \in Markets
      <3>1. ledger[i] \in Records
        BY <2>1 DEF TypeOK
      <3> QED
        BY <2>1, <3>1, Consume DEF Records
    <2>3. PICK a \in Attempts(can, cl[c].try) :
              /\ cl' = [cl EXCEPT ![c] = AfterSell(c, a.res)]
              /\ faults' = faults + a.cost
              /\ held' = IF a.fills THEN [held EXCEPT ![m][leg] = @ - size] ELSE held
              /\ sold' = [sold EXCEPT ![i] = WithSale(@, leg, size, a)]
      BY <1>14 DEF SellLeg
    <2> HIDE DEF i, m, leg, size, can
    <2>4. a.cost \in Nat /\ (a.res = "retry" => cl[c].try < MaxRetries)
      BY <2>3, AttemptTypes
    <2>5. faults' \in Nat /\ held' \in [Markets -> [Legs -> Int]]
      <3>1. [held EXCEPT ![m][leg] = @ - size] \in [Markets -> [Legs -> Int]]
        BY <2>1, <2>2, Counters DEF TypeOK
      <3>2. faults \in Nat /\ held \in [Markets -> [Legs -> Int]]
        BY DEF TypeOK
      <3> DEFINE spent == [held EXCEPT ![m][leg] = @ - size]
      <3>3. held' = spent \/ held' = held
        BY <2>3
      <3>4. faults' \in Nat
        BY <2>3, <2>4, <3>2
      <3> HIDE DEF spent
      <3> QED
        BY <3>1, <3>2, <3>3, <3>4 DEF spent
    <2>6. sold' \in Seq(SaleStates) /\ Len(sold') = Len(sold)
      <3>1. sold[i] \in SaleStates /\ sold \in Seq(SaleStates)
        BY <2>1 DEF TypeOK
      <3>2. WithSale(sold[i], leg, size, a) \in SaleStates
        BY <2>1, <2>2, <3>1 DEF WithSale, SaleStates, Plus
      <3>3. sold' = [sold EXCEPT ![i] = WithSale(sold[i], leg, size, a)]
        BY <2>3
      <3> QED
        BY <2>1, <3>1, <3>2, <3>3
    <2>7. CloserStep(c, AfterSell(c, a.res))
      <3>1. CASE a.res = "retry"
        <4>1. AfterSell(c, a.res) = [cl[c] EXCEPT !.try = @ + 1]
          BY <3>1 DEF AfterSell
        <4>2. cl[c].try + 1 \in 0..MaxRetries
          BY <2>1, <2>4, <3>1, Bounds DEF CloserStates
        <4> QED
          BY <2>1, <2>3, <4>1, <4>2 DEF CloserStep, CloserStates, i
      <3>2. CASE a.res # "retry"
        <4> DEFINE at == IF Len(cl[c].legs) = 1 THEN "finish" ELSE "sell"
                   ok == cl[c].ok /\ a.res = "ack"
        <4>1. AfterSell(c, a.res) = [cl[c] EXCEPT !.legs = Tail(@), !.try = 0, !.ok = ok, !.pc = at]
          BY <3>2 DEF AfterSell
        <4>2. /\ Tail(cl[c].legs) \in Seq(Legs)
              /\ at \in {"finish", "sell"} /\ (at = "sell" => Tail(cl[c].legs) # << >>)
          BY <2>1, Consume
        <4>3. ok \in BOOLEAN
          OBVIOUS
        <4> HIDE DEF at, ok
        <4>4. [cl[c] EXCEPT !.legs = Tail(@), !.try = 0, !.ok = ok, !.pc = at] \in CloserStates
          BY <2>1, <4>2, <4>3, Bounds DEF CloserStates
        <4> QED
          BY <2>1, <2>3, <4>1, <4>2, <4>4 DEF CloserStep, CloserStates, i
      <3> QED
        BY <3>1, <3>2
    <2>8. UNCHANGED <<ledger, market, aged, paused, day, wk, bought>>
      BY <1>14 DEF SellLeg
    <2> QED
      BY <1>12, <2>5, <2>6, <2>7, <2>8, CloserStepTyped DEF TypeOK
  <1>15. ASSUME NEW c \in Closers, ClosePosition(c)
         PROVE  TypeOK' /\ Shape'
    BY <1>13, <1>14, <1>15 DEF ClosePosition
  <1>16. ASSUME NEW c \in WebThreads, NEW i \in DOMAIN ledger, WebClose(c, i)
         PROVE  TypeOK' /\ Shape'
    <2>1. c \in Closers
      BY DEF Closers
    <2>2. CloserStep(c, Closing(i, ledger[i].status))
      BY <1>9, <1>16 DEF WebClose, CloserStep
    <2> QED
      BY <1>12, <1>16, <2>1, <2>2, CloserStepTyped DEF WebClose, TypeOK
  <1>17. ASSUME NEW c \in WebThreads, CrashWeb(c)
         PROVE  TypeOK' /\ Shape'
    <2>1. c \in Closers /\ CloserStep(c, IdleCloser)
      BY <1>17, IdleTypes DEF Closers, CrashWeb, CloserStep, IdleCloser
    <2> QED
      BY <1>12, <1>17, <2>1, CloserStepTyped DEF CrashWeb, TypeOK
  <1>18. CASE CrashWorker
    <2>1. CloserStep("worker", IdleCloser)
      BY <1>18, IdleTypes DEF CrashWorker, CloserStep, IdleCloser
    <2>2. LoopStep
      BY <1>18, IdleTypes DEF CrashWorker, LoopStep, IdleWorker, TypeOK
    <2> QED
      BY <1>8, <1>18, <2>1, <2>2, CloserStepTyped DEF CrashWorker, TypeOK
  <1>19. ASSUME NEW flag \in BOOLEAN, SetPaused(flag)
         PROVE  TypeOK' /\ Shape'
    BY <1>19 DEF SetPaused, TypeOK, Shape
  <1>20. ASSUME NEW m \in Markets, NEW e \in {"ended", "resolved"}, MarketEvent(m, e)
         PROVE  TypeOK' /\ Shape'
    BY <1>20 DEF MarketEvent, TypeOK, Shape
  <1>21. ASSUME NEW i \in DOMAIN ledger, Age(i)
         PROVE  TypeOK' /\ Shape'
    BY <1>21 DEF Age, TypeOK, Shape
  <1>22. CASE NextDay
    <2>1. day + 1 \in 1..MaxDay
      BY <1>22, Bounds DEF NextDay, TypeOK
    <2> QED
      BY <1>22, <2>1 DEF NextDay, TypeOK, Shape
  <1>23. CASE UNCHANGED vars
    BY <1>23 DEF vars, TypeOK, Shape
  <1>24. CASE Scan \/ Buy \/ MonitorNotDue
    BY <1>1, <1>2, <1>3, <1>4, <1>5, <1>24 DEF Scan, Buy
  <1>25. CASE Monitor
    BY <1>5, <1>6, <1>11, <1>25 DEF Monitor
  <1>26. CASE Dashboard
    BY <1>15, <1>16, <1>19, <1>26 DEF Dashboard, Closers
  <1>27. CASE World
    BY <1>17, <1>18, <1>20, <1>21, <1>22, <1>27 DEF World
  <1> QED
    BY <1>8, <1>15, <1>23, <1>24, <1>25, <1>26, <1>27 DEF Next

-----------------------------------------------------------------------------
(* The position limit.                                                     *)

\* Only a new record makes the number of active records grow, and by one.
LEMMA CountStep ==
    ASSUME TypeOK, Shape, [Next]_vars
    PROVE  /\ open_count \in Nat /\ open_count' \in Nat
           /\ \/ open_count' <= open_count
              \/ RecordPosition /\ open_count' <= open_count + 1
  <1>1. /\ ledger \in Seq(Records) /\ ledger' \in Seq(Records)
        /\ Len(ledger) \in Nat /\ Len(ledger') \in Nat
    BY TypedStep DEF TypeOK
  <1>2. IsFiniteSet(ActiveRecords) /\ IsFiniteSet(ActiveRecords')
    <2>1. IsFiniteSet(1..Len(ledger)) /\ IsFiniteSet(1..Len(ledger'))
      BY <1>1, FS_Interval
    <2>2. ActiveRecords \subseteq 1..Len(ledger) /\ ActiveRecords' \subseteq 1..Len(ledger')
      BY <1>1 DEF ActiveRecords
    <2> QED
      BY <2>1, <2>2, FS_Subset
  <1>3. open_count \in Nat /\ open_count' \in Nat
    BY <1>2, FS_CardinalityType DEF open_count
  <1>4. ASSUME ActiveRecords' \subseteq ActiveRecords
        PROVE  open_count' <= open_count
    BY <1>2, <1>4, FS_Subset DEF open_count
  <1>5. CASE ledger' = ledger
    BY <1>3, <1>4, <1>5 DEF ActiveRecords
  <1>6. ASSUME NEW i \in DOMAIN ledger, AdvancesAt(ledger', i)
        PROVE  ActiveRecords' \subseteq ActiveRecords
    <2>1. ledger[i] \in Records /\ DOMAIN ledger' = DOMAIN ledger
      BY <1>1, <1>6 DEF AdvancesAt
    <2>2. ledger[i].status \in Statuses
      BY <2>1 DEF Records
    <2>3. ledger'[i].status \in ACTIVE_STATUSES => ledger[i].status \in ACTIVE_STATUSES
      BY <1>6, <2>2 DEF AdvancesAt, ACTIVE_STATUSES, VALID_TRANSITIONS, Statuses
    <2>4. \A j \in DOMAIN ledger' : j # i => ledger'[j] = ledger[j]
      BY <1>6, <2>1 DEF AdvancesAt
    <2> QED
      BY <2>1, <2>3, <2>4 DEF ActiveRecords
  <1>7. CASE RecordPosition
    <2> DEFINE n == Len(ledger) + 1
    <2>1. DOMAIN ledger' \subseteq DOMAIN ledger \cup {n} /\ \A j \in DOMAIN ledger : ledger'[j] = ledger[j]
      BY <1>1, <1>7 DEF RecordPosition
    <2>2. ActiveRecords' \subseteq ActiveRecords \cup {n}
      BY <2>1 DEF ActiveRecords
    <2>3. /\ IsFiniteSet(ActiveRecords \cup {n})
          /\ Cardinality(ActiveRecords \cup {n}) <= open_count + 1
      <3>1. CASE n \in ActiveRecords
        <4>1. ActiveRecords \cup {n} = ActiveRecords
          BY <3>1
        <4> HIDE DEF n
        <4> QED
          BY <1>2, <1>3, <4>1 DEF open_count
      <3>2. CASE n \notin ActiveRecords
        <4> HIDE DEF n
        <4>1. /\ IsFiniteSet(ActiveRecords \cup {n})
              /\ Cardinality(ActiveRecords \cup {n}) = Cardinality(ActiveRecords) + 1
          BY <1>2, <3>2, FS_AddElement
        <4> QED
          BY <1>3, <4>1 DEF open_count
      <3> QED
        BY <3>1, <3>2
    <2>4. Cardinality(ActiveRecords') <= Cardinality(ActiveRecords \cup {n})
      BY <2>2, <2>3, FS_Subset
    <2>5. Cardinality(ActiveRecords \cup {n}) \in Nat
      BY <2>3, FS_CardinalityType
    <2> QED
      BY <1>3, <1>7, <2>3, <2>4, <2>5 DEF open_count
  <1> QED
    BY <1>3, <1>4, <1>5, <1>6, <1>7, LedgerStep

\* The executor starts with a free slot, and no other step enters its code.
LEMMA SlotStep ==
    ASSUME TypeOK, [Next]_vars, wk'.pc \in {"buy", "record"}
    PROVE  /\ wk.pc \in {"buy", "record"} \/ open_count < MaxPositions
           /\ ~RecordPosition
  <1>1. wk \in WorkerStates
    BY DEF TypeOK
  <1>2. ~(RecordPosition \/ RecordFails \/ MonitorEnd \/ CrashWorker)
    BY DEF RecordPosition, RecordFails, MonitorEnd, CrashWorker, IdleWorker
  <1>3. ~(SkipScan \/ MonitorNotDue \/ MonitorStart)
    BY <1>1 DEF SkipScan, MonitorNotDue, MonitorStart, WorkerStates
  <1>4. ASSUME NEW s \in Strategies, NEW m \in Markets, Execute(s, m)
        PROVE  open_count < MaxPositions
    BY <1>4 DEF Execute
  <1>5. BuyLeg => wk.pc \in {"buy", "record"}
    BY DEF BuyLeg
  <1>6. ASSUME NEW i, NextRecord(i)
        PROVE  wk.pc \in {"buy", "record"}
    BY <1>1, <1>6 DEF NextRecord, WorkerStates
  <1>7. ASSUME wk' = wk
        PROVE  wk.pc \in {"buy", "record"}
    BY <1>7
  <1>8. CASE Scan \/ Buy \/ MonitorNotDue
    BY <1>2, <1>3, <1>4, <1>5, <1>8 DEF Scan, Buy
  <1>9. CASE Monitor
    BY <1>2, <1>3, <1>6, <1>9 DEF Monitor, MonitorRetryClose, MonitorResolved, MonitorStale,
        MonitorTrading, MonitorBlind, MonitorSkips
  <1>10. ASSUME NEW c, ClosePosition(c)
         PROVE  wk' = wk
    BY <1>10 DEF ClosePosition, CloseMark, CloseBooks, CloseUnavailable, SellLeg, CloseFinish,
        CloseSaveFails
  <1>11. CASE ClosePosition("worker") \/ Dashboard
    BY <1>2, <1>7, <1>10, <1>11 DEF Dashboard, WebClose, SetPaused
  <1>12. CASE World
    BY <1>2, <1>7, <1>12 DEF World, MarketEvent, Age, NextDay, CrashWeb
  <1>13. CASE UNCHANGED vars
    BY <1>2, <1>7, <1>13 DEF vars
  <1> QED
    BY <1>2, <1>8, <1>9, <1>11, <1>12, <1>13 DEF Next

LEMMA LimitStep ==
    ASSUME TypeOK, Shape, PositionLimit, SlotReserved, [Next]_vars
    PROVE  PositionLimit' /\ SlotReserved'
  <1> USE Bounds, CountStep
  <1>1. RecordPosition => open_count < MaxPositions
    BY DEF RecordPosition, SlotReserved
  <1>2. PositionLimit'
    BY <1>1 DEF PositionLimit, open_count
  <1>3. SlotReserved'
    BY SlotStep DEF SlotReserved
  <1> QED
    BY <1>2, <1>3

-----------------------------------------------------------------------------
(* A SELL only for a marked record.                                        *)

\* A record that is marked stays marked.
LEMMA MarkedStays ==
    ASSUME TypeOK, Shape, [Next]_vars, NEW i \in DOMAIN ledger,
           ledger[i].status \notin Unmarked
    PROVE  i \in DOMAIN ledger' /\ ledger'[i].status \notin Unmarked
  <1>1. ledger \in Seq(Records) /\ ledger[i] \in Records
    BY DEF TypeOK
  <1>2. CASE ledger' = ledger
    BY <1>2
  <1>3. ASSUME NEW j \in DOMAIN ledger, AdvancesAt(ledger', j)
        PROVE  i \in DOMAIN ledger' /\ ledger'[i].status \notin Unmarked
    <2>1. DOMAIN ledger' = DOMAIN ledger
      BY <1>1, <1>3 DEF AdvancesAt
    <2>2. CASE j # i
      BY <1>3, <2>1, <2>2 DEF AdvancesAt
    <2>3. CASE j = i
      <3>1. ledger'[i].status \in {ledger[i].status} \cup VALID_TRANSITIONS[ledger[i].status]
        BY <1>3, <2>3 DEF AdvancesAt
      <3>2. ledger[i].status \in Statuses
        BY <1>1 DEF Records
      <3> QED
        BY <2>1, <3>1, <3>2 DEF VALID_TRANSITIONS, Statuses, Unmarked
    <2> QED
      BY <2>2, <2>3
  <1>4. CASE RecordPosition
    BY <1>1, <1>4 DEF RecordPosition
  <1> QED
    BY <1>2, <1>3, <1>4, LedgerStep

\* close_position's first write marks the record, whatever its status was.
LEMMA CloseMarkMarks ==
    ASSUME TypeOK, Shape, NEW c \in Closers, CloseMark(c)
    PROVE  /\ cl'[c].pos = cl[c].pos /\ cl[c].pos \in DOMAIN ledger
           /\ ledger'[cl[c].pos].status \notin Unmarked
  <1> DEFINE i == cl[c].pos
  <1>1. i \in DOMAIN ledger /\ ledger \in Seq(Records)
    BY DEF CloseMark, Shape, TypeOK
  <1>2. ledger[i] \in Records
    BY <1>1
  <1>3. ledger[i].status \in Statuses
    BY <1>2 DEF Records
  <1>4. ledger' = transition(i, "closing") /\ cl' = [cl EXCEPT ![c].pc = "books"]
    BY DEF CloseMark
  <1>5. CASE "closing" \in VALID_TRANSITIONS[ledger[i].status]
    <2>1. ledger'[i].status = "closing"
      BY <1>1, <1>2, <1>4, <1>5 DEF transition, Records
    <2> QED
      BY <1>1, <1>4, <2>1 DEF TypeOK, CloserStates, Unmarked
  <1>6. CASE "closing" \notin VALID_TRANSITIONS[ledger[i].status]
    <2>1. ledger' = ledger
      BY <1>4, <1>6 DEF transition
    <2>2. ledger[i].status \notin Unmarked
      BY <1>3, <1>6 DEF VALID_TRANSITIONS, Statuses, Unmarked
    <2> QED
      BY <1>1, <1>4, <2>1, <2>2 DEF TypeOK, CloserStates
  <1> QED
    BY <1>5, <1>6

\* Who gets to sell: a call that was there already, one that has just marked its
\* record, or one that was given a record seen in "closing".
LEMMA ArmedStep ==
    ASSUME TypeOK, Shape, [Next]_vars, NEW c \in Closers, cl'[c].pc \in Armed
    PROVE  \/ cl[c].pc \in Armed /\ cl'[c].pos = cl[c].pos
           \/ CloseMark(c)
           \/ cl'[c].pos \in DOMAIN ledger /\ ledger[cl'[c].pos].status = "closing"
           \/ cl'[c].pos \in DOMAIN wk.seen /\ wk.seen[cl'[c].pos] = "closing"
  <1> DEFINE Goal == \/ cl[c].pc \in Armed /\ cl'[c].pos = cl[c].pos
                     \/ CloseMark(c)
                     \/ cl'[c].pos \in DOMAIN ledger /\ ledger[cl'[c].pos].status = "closing"
                     \/ cl'[c].pos \in DOMAIN wk.seen /\ wk.seen[cl'[c].pos] = "closing"
  <1>1. cl \in [Closers -> CloserStates] /\ "worker" \in Closers
    BY DEF TypeOK, Closers
  <1>2. cl'[c] = cl[c] => Goal
    OBVIOUS
  <1>3. ASSUME NEW d \in Closers, cl' = [cl EXCEPT ![d] = IdleCloser]
        PROVE  Goal
    BY <1>1, <1>2, <1>3 DEF IdleCloser, Armed
  <1>4. ASSUME NEW i \in DOMAIN ledger, NEW seen
        PROVE  /\ Closing(i, seen).pos = i
               /\ Closing(i, seen).pc \in Armed => seen = "closing"
    BY DEF Closing, IdleCloser, Armed
  <1>5. ASSUME NEW d \in Closers, ClosePosition(d)
        PROVE  Goal
    <2>1. CASE CloseMark(d)
      BY <1>1, <1>2, <2>1 DEF CloseMark
    <2>2. CASE CloseBooks(d)
      <3>1. cl[d].pc = "books" /\ cl'[d].pos = cl[d].pos /\ (d # c => cl'[c] = cl[c])
        BY <1>1, <2>2 DEF CloseBooks, CloserStates
      <3> QED
        BY <1>2, <3>1 DEF Armed
    <2>3. CASE SellLeg(d)
      <3>1. PICK res : cl' = [cl EXCEPT ![d] = AfterSell(d, res)]
        BY <2>3 DEF SellLeg
      <3>2. AfterSell(d, res).pos = cl[d].pos
        BY <1>1 DEF AfterSell, CloserStates
      <3>3. cl[d].pc = "sell" /\ cl'[d].pos = cl[d].pos /\ (d # c => cl'[c] = cl[c])
        BY <1>1, <2>3, <3>1, <3>2 DEF SellLeg
      <3> QED
        BY <1>2, <3>3 DEF Armed
    <2>4. CASE CloseUnavailable(d) \/ CloseFinish(d) \/ CloseSaveFails(d)
      BY <1>3, <2>4 DEF CloseUnavailable, CloseFinish, CloseSaveFails
    <2> QED
      BY <1>5, <2>1, <2>2, <2>3, <2>4 DEF ClosePosition
  <1>6. ASSUME NEW i \in DOMAIN ledger, AtRecord(i),
               cl' = [cl EXCEPT !["worker"] = Closing(i, wk.seen[i])]
        PROVE  Goal
    <2>1. i \in DOMAIN wk.seen
      BY <1>6 DEF AtRecord, Shape
    <2> QED
      BY <1>1, <1>2, <1>4, <1>6, <2>1
  <1>7. ASSUME NEW i \in DOMAIN ledger, AtRecord(i), MaybeClose(i)
        PROVE  Goal
    BY <1>2, <1>6, <1>7 DEF MaybeClose
  <1>8. CASE Monitor
    BY <1>2, <1>6, <1>7, <1>8 DEF Monitor, MonitorStart, MonitorRetryClose, MonitorResolved,
        MonitorStale, MonitorTrading, MonitorBlind, MonitorSkips, MonitorEnd
  <1>9. ASSUME NEW d \in WebThreads, NEW i \in DOMAIN ledger, WebClose(d, i)
        PROVE  Goal
    <2>1. d \in Closers /\ cl' = [cl EXCEPT ![d] = Closing(i, ledger[i].status)]
      BY <1>9 DEF WebClose, Closers
    <2> QED
      BY <1>1, <1>2, <1>4, <2>1
  <1>10. CASE Scan \/ Buy \/ MonitorNotDue \/ UNCHANGED vars
    BY <1>2, <1>10 DEF Scan, Buy, Execute, SkipScan, BuyLeg, RecordPosition, RecordFails,
        MonitorNotDue, vars
  <1>11. CASE Dashboard
    BY <1>2, <1>5, <1>9, <1>11 DEF Dashboard, SetPaused, Closers
  <1>12. CASE World
    BY <1>1, <1>2, <1>3, <1>12 DEF World, MarketEvent, Age, NextDay, CrashWorker, CrashWeb, Closers
  <1> QED
    BY <1>1, <1>5, <1>8, <1>10, <1>11, <1>12 DEF Next

\* The monitor's snapshot is the one it had, an empty one, or the ledger of now.
LEMMA SeenStep ==
    ASSUME TypeOK, Shape, [Next]_vars, NEW i \in DOMAIN wk'.seen
    PROVE  \/ wk'.seen = wk.seen
           \/ ledger' = ledger /\ i \in DOMAIN ledger /\ wk'.seen[i] = ledger[i].status
  <1>1. wk \in WorkerStates
    BY DEF TypeOK
  <1>2. ~(RecordPosition \/ RecordFails \/ MonitorEnd \/ CrashWorker)
    BY DEF RecordPosition, RecordFails, MonitorEnd, CrashWorker, IdleWorker
  <1>3. CASE Scan \/ MonitorNotDue
    BY <1>1, <1>3 DEF Scan, Execute, SkipScan, MonitorNotDue, WorkerStates
  <1>4. CASE BuyLeg
    <2>1. PICK res : wk' = AfterBuy(res)
      BY <1>4 DEF BuyLeg
    <2>2. wk'.seen \in {wk.seen, << >>}
      BY <1>1, <2>1 DEF AfterBuy, IdleWorker, WorkerStates
    <2> QED
      BY <2>2
  <1>5. CASE MonitorStart
    BY <1>1, <1>5 DEF MonitorStart, WorkerStates
  <1>6. ASSUME NEW j, NextRecord(j)
        PROVE  wk'.seen = wk.seen
    BY <1>1, <1>6 DEF NextRecord, WorkerStates
  <1>7. CASE Monitor
    BY <1>2, <1>5, <1>6, <1>7 DEF Monitor, MonitorRetryClose, MonitorResolved, MonitorStale,
        MonitorTrading, MonitorBlind, MonitorSkips
  <1>8. CASE ClosePosition("worker") \/ Dashboard
    BY <1>8 DEF Dashboard, ClosePosition, CloseMark, CloseBooks, CloseUnavailable, SellLeg,
        CloseFinish, CloseSaveFails, WebClose, SetPaused
  <1>9. CASE World \/ UNCHANGED vars
    BY <1>2, <1>9 DEF World, MarketEvent, Age, NextDay, CrashWeb, vars
  <1> QED
    BY <1>2, <1>3, <1>4, <1>7, <1>8, <1>9 DEF Next, Buy

\* The history of sales changes for the record a closer sells, and for a new one.
LEMMA SoldStep ==
    ASSUME TypeOK, Shape, [Next]_vars
    PROVE  \/ sold' = sold
           \/ sold' = Append(sold, NoSales)
           \/ \E c \in Closers : /\ cl[c].pc = "sell"
                                 /\ \A i \in DOMAIN sold : i # cl[c].pos => sold'[i] = sold[i]
                                 /\ Len(sold') = Len(sold)
  <1>1. sold \in Seq(SaleStates)
    BY DEF TypeOK
  <1>2. ASSUME NEW c \in Closers, SellLeg(c)
        PROVE  /\ cl[c].pc = "sell"
               /\ \A i \in DOMAIN sold : i # cl[c].pos => sold'[i] = sold[i]
               /\ Len(sold') = Len(sold)
    <2>1. cl[c].pc = "sell" /\ \E s : sold' = [sold EXCEPT ![cl[c].pos] = s]
      BY <1>2 DEF SellLeg
    <2>2. PICK s : sold' = [sold EXCEPT ![cl[c].pos] = s]
      BY <2>1
    <2>3. DOMAIN sold' = DOMAIN sold
      BY <2>2
    <2>4. \A i \in DOMAIN sold : i # cl[c].pos => sold'[i] = sold[i]
      BY <2>2
    <2>5. sold' \in Seq(SaleStates)
      BY TypedStep DEF TypeOK
    <2>6. Len(sold') = Len(sold)
      BY <1>1, <2>3, <2>5
    <2> QED
      BY <2>1, <2>4, <2>6
  <1>3. ASSUME NEW c \in Closers, ClosePosition(c), ~SellLeg(c)
        PROVE  sold' = sold
    BY <1>3 DEF ClosePosition, CloseMark, CloseBooks, CloseUnavailable, CloseFinish, CloseSaveFails
  <1>4. CASE Scan \/ Buy \/ MonitorNotDue \/ UNCHANGED vars
    BY <1>4 DEF Scan, Buy, Execute, SkipScan, BuyLeg, RecordPosition, RecordFails, MonitorNotDue, vars
  <1>5. CASE Monitor
    BY <1>5 DEF Monitor, MonitorStart, MonitorRetryClose, MonitorResolved, MonitorStale,
        MonitorTrading, MonitorBlind, MonitorSkips, MonitorEnd
  <1>6. CASE ClosePosition("worker") \/ Dashboard
    BY <1>2, <1>3, <1>6 DEF Dashboard, WebClose, SetPaused, Closers
  <1>7. CASE World
    BY <1>7 DEF World, MarketEvent, Age, NextDay, CrashWorker, CrashWeb
  <1> QED
    BY <1>4, <1>5, <1>6, <1>7 DEF Next

LEMMA MarksStep ==
    ASSUME TypeOK, Shape, MarkedBeforeSell, Marked, [Next]_vars
    PROVE  MarkedBeforeSell' /\ Marked'
  <1>1. /\ ledger \in Seq(Records) /\ ledger' \in Seq(Records)
        /\ sold \in Seq(SaleStates) /\ sold' \in Seq(SaleStates)
        /\ Len(sold) = Len(ledger) /\ Len(sold') = Len(ledger')
    BY TypedStep DEF TypeOK, Shape
  <1>2. ASSUME NEW i \in DOMAIN ledger', sold'[i] # NoSales
        PROVE  ledger'[i].status \notin Unmarked
    <2>1. ASSUME i \in DOMAIN sold, sold'[i] = sold[i]
          PROVE  ledger'[i].status \notin Unmarked
      <3>1. i \in DOMAIN ledger /\ sold[i] # NoSales
        BY <1>1, <1>2, <2>1
      <3>2. ledger[i].status \notin Unmarked
        BY <3>1 DEF MarkedBeforeSell, Unmarked
      <3> QED
        BY <3>1, <3>2, MarkedStays
    <2>2. CASE sold' = sold
      BY <1>1, <2>1, <2>2
    <2>3. CASE sold' = Append(sold, NoSales)
      <3>1. i \in DOMAIN sold \/ i = Len(sold) + 1
        BY <1>1, <2>3
      <3>2. sold'[Len(sold) + 1] = NoSales
        BY <1>1, <2>3
      <3>3. i \in DOMAIN sold => sold'[i] = sold[i]
        BY <1>1, <2>3
      <3> QED
        BY <1>2, <2>1, <3>1, <3>2, <3>3
    <2>4. ASSUME NEW c \in Closers, cl[c].pc = "sell", Len(sold') = Len(sold),
                 \A j \in DOMAIN sold : j # cl[c].pos => sold'[j] = sold[j]
          PROVE  ledger'[i].status \notin Unmarked
      <3>1. i \in DOMAIN sold /\ i \in DOMAIN ledger
        <4>1. DOMAIN ledger' = 1..Len(ledger') /\ DOMAIN ledger = 1..Len(ledger) /\ DOMAIN sold = 1..Len(sold)
          BY <1>1
        <4> QED
          BY <1>1, <2>4, <4>1
      <3>2. CASE i = cl[c].pos
        <4>1. ledger[i].status \notin Unmarked
          BY <2>4, <3>2 DEF Marked, Armed
        <4> QED
          BY <3>1, <4>1, MarkedStays
      <3>3. CASE i # cl[c].pos
        BY <2>1, <2>4, <3>1, <3>3
      <3> QED
        BY <3>2, <3>3
    <2> QED
      BY <2>2, <2>3, <2>4, SoldStep
  <1>3. MarkedBeforeSell'
    BY <1>2 DEF MarkedBeforeSell, Unmarked
  <1>4. ASSUME NEW c \in Closers, cl'[c].pc \in Armed
        PROVE  ledger'[cl'[c].pos].status \notin Unmarked
    <2>1. CASE cl[c].pc \in Armed /\ cl'[c].pos = cl[c].pos
      <3>1. cl[c].pos \in DOMAIN ledger /\ ledger[cl[c].pos].status \notin Unmarked
        BY <2>1 DEF Shape, Marked, Armed
      <3> QED
        BY <2>1, <3>1, MarkedStays
    <2>2. CASE CloseMark(c)
      BY <2>2, CloseMarkMarks
    <2>3. CASE cl'[c].pos \in DOMAIN ledger /\ ledger[cl'[c].pos].status = "closing"
      <3>1. ledger[cl'[c].pos].status \notin Unmarked
        BY <2>3 DEF Unmarked
      <3> QED
        BY <2>3, <3>1, MarkedStays
    <2>4. CASE cl'[c].pos \in DOMAIN wk.seen /\ wk.seen[cl'[c].pos] = "closing"
      <3>1. DOMAIN wk.seen \subseteq DOMAIN ledger
        BY <1>1 DEF TypeOK, Shape, WorkerStates
      <3>2. cl'[c].pos \in DOMAIN ledger /\ ledger[cl'[c].pos].status \notin Unmarked
        BY <2>4, <3>1 DEF Marked
      <3> QED
        BY <3>2, MarkedStays
    <2> QED
      BY <1>4, <2>1, <2>2, <2>3, <2>4, ArmedStep
  <1>5. ASSUME NEW i \in DOMAIN wk'.seen, wk'.seen[i] = "closing"
        PROVE  ledger'[i].status \notin Unmarked
    <2>1. CASE wk'.seen = wk.seen
      <3>1. DOMAIN wk.seen \subseteq DOMAIN ledger
        BY <1>1 DEF TypeOK, Shape, WorkerStates
      <3>2. i \in DOMAIN ledger /\ ledger[i].status \notin Unmarked
        BY <1>5, <2>1, <3>1 DEF Marked
      <3> QED
        BY <3>2, MarkedStays
    <2>2. CASE ledger' = ledger /\ i \in DOMAIN ledger /\ wk'.seen[i] = ledger[i].status
      BY <1>5, <2>2 DEF Unmarked
    <2> QED
      BY <2>1, <2>2, SeenStep
  <1>6. Marked'
    BY <1>4, <1>5 DEF Marked
  <1> QED
    BY <1>3, <1>6

-----------------------------------------------------------------------------
(* A record is closed only after every leg is acknowledged.                *)

\* What a record was bought as stays.
LEMMA SideStays ==
    ASSUME TypeOK, Shape, [Next]_vars, NEW i \in DOMAIN ledger
    PROVE  /\ i \in DOMAIN ledger'
           /\ ledger'[i].side = ledger[i].side /\ ledger'[i].market = ledger[i].market
  <1>1. ledger \in Seq(Records)
    BY DEF TypeOK
  <1>2. CASE ledger' = ledger
    BY <1>2
  <1>3. ASSUME NEW j \in DOMAIN ledger, AdvancesAt(ledger', j)
        PROVE  /\ i \in DOMAIN ledger'
               /\ ledger'[i].side = ledger[i].side /\ ledger'[i].market = ledger[i].market
    BY <1>1, <1>3 DEF AdvancesAt
  <1>4. CASE RecordPosition
    BY <1>1, <1>4 DEF RecordPosition
  <1> QED
    BY <1>2, <1>3, <1>4, LedgerStep

\* A closer that is selling or finishing was so before, has read the order books, or sold.
LEMMA CloserSteps ==
    ASSUME TypeOK, Shape, [Next]_vars, NEW c \in Closers
    PROVE  \/ cl'[c] = cl[c]
           \/ cl'[c].pc \in {"idle", "mark", "books"}
           \/ CloseBooks(c)
           \/ SellLeg(c)
  <1> DEFINE Goal == \/ cl'[c] = cl[c]
                     \/ cl'[c].pc \in {"idle", "mark", "books"}
                     \/ CloseBooks(c)
                     \/ SellLeg(c)
  <1> SUFFICES Goal
    OBVIOUS
  <1>1. cl \in [Closers -> CloserStates] /\ "worker" \in Closers
    BY DEF TypeOK, Closers
  <1>2. ASSUME NEW d \in Closers, NEW st, st.pc \in {"idle", "mark", "books"},
               cl' = [cl EXCEPT ![d] = st]
        PROVE  Goal
    BY <1>1, <1>2
  <1>3. IdleCloser.pc = "idle" /\ \A i, seen : Closing(i, seen).pc \in {"mark", "books"}
    BY DEF IdleCloser, Closing
  <1>4. ASSUME NEW d \in Closers, ClosePosition(d)
        PROVE  Goal
    <2>1. CASE CloseMark(d)
      <3>1. cl' = [cl EXCEPT ![d] = [cl[d] EXCEPT !.pc = "books"]]
        BY <2>1 DEF CloseMark
      <3>2. [cl[d] EXCEPT !.pc = "books"].pc = "books"
        BY <1>1 DEF CloserStates
      <3> QED
        BY <1>2, <3>1, <3>2
    <2>2. CASE (CloseBooks(d) \/ SellLeg(d)) /\ d = c
      BY <2>2
    <2>3. CASE (CloseBooks(d) \/ SellLeg(d)) /\ d # c
      <3>1. cl'[c] = cl[c]
        BY <1>1, <2>3 DEF CloseBooks, SellLeg
      <3> QED
        BY <3>1
    <2>4. CASE CloseUnavailable(d) \/ CloseFinish(d) \/ CloseSaveFails(d)
      BY <1>2, <1>3, <2>4 DEF CloseUnavailable, CloseFinish, CloseSaveFails
    <2> QED
      BY <1>4, <2>1, <2>2, <2>3, <2>4 DEF ClosePosition
  <1>5. CASE Scan \/ Buy \/ MonitorNotDue \/ UNCHANGED vars
    BY <1>5 DEF Scan, Buy, Execute, SkipScan, BuyLeg, RecordPosition, RecordFails, MonitorNotDue,
        vars
  <1>6. ASSUME NEW i, MaybeClose(i)
        PROVE  Goal
    BY <1>1, <1>2, <1>3, <1>6 DEF MaybeClose
  <1>7. CASE Monitor
    <2>1. ASSUME NEW i, MonitorRetryClose(i)
          PROVE  Goal
      BY <1>1, <1>2, <1>3, <2>1 DEF MonitorRetryClose
    <2>2. ASSUME NEW i, MonitorStale(i) \/ MonitorTrading(i) \/ MonitorBlind(i)
          PROVE  Goal
      BY <1>6, <2>2 DEF MonitorStale, MonitorTrading, MonitorBlind
    <2>3. ASSUME NEW i, MonitorResolved(i) \/ MonitorSkips(i)
          PROVE  Goal
      BY <2>3 DEF MonitorResolved, MonitorSkips
    <2>4. CASE MonitorStart \/ MonitorEnd
      BY <2>4 DEF MonitorStart, MonitorEnd
    <2> HIDE DEF Goal
    <2> QED
      BY <1>7, <2>1, <2>2, <2>3, <2>4 DEF Monitor
  <1>8. CASE ClosePosition("worker") \/ Dashboard
    <2>1. ASSUME NEW d \in WebThreads, NEW i, WebClose(d, i)
          PROVE  Goal
      BY <1>2, <1>3, <2>1 DEF WebClose, Closers
    <2>2. ASSUME NEW flag, SetPaused(flag)
          PROVE  Goal
      BY <2>2 DEF SetPaused
    <2> HIDE DEF Goal
    <2> QED
      BY <1>1, <1>4, <1>8, <2>1, <2>2 DEF Dashboard, Closers
  <1>9. CASE World
    BY <1>1, <1>2, <1>3, <1>9 DEF World, MarketEvent, Age, NextDay, CrashWorker, CrashWeb, Closers
  <1> QED
    BY <1>5, <1>7, <1>8, <1>9 DEF Next

\* The history of sales changes with a new record or with an order.
LEMMA SaleSteps ==
    ASSUME TypeOK, Shape, [Next]_vars
    PROVE  \/ sold' = sold
           \/ sold' = Append(sold, NoSales)
           \/ \E c \in Closers : SellLeg(c)
  <1>1. ASSUME NEW c \in Closers, ClosePosition(c), ~SellLeg(c)
        PROVE  sold' = sold
    BY <1>1 DEF ClosePosition, CloseMark, CloseBooks, CloseUnavailable, CloseFinish, CloseSaveFails
  <1>2. CASE Scan \/ Buy \/ MonitorNotDue \/ UNCHANGED vars
    BY <1>2 DEF Scan, Buy, Execute, SkipScan, BuyLeg, RecordPosition, RecordFails, MonitorNotDue, vars
  <1>3. CASE Monitor
    BY <1>3 DEF Monitor, MonitorStart, MonitorRetryClose, MonitorResolved, MonitorStale,
        MonitorTrading, MonitorBlind, MonitorSkips, MonitorEnd
  <1>4. CASE ClosePosition("worker") \/ Dashboard
    BY <1>1, <1>4 DEF Dashboard, WebClose, SetPaused, Closers
  <1>5. CASE World
    BY <1>5 DEF World, MarketEvent, Age, NextDay, CrashWorker, CrashWeb
  <1> QED
    BY <1>2, <1>3, <1>4, <1>5 DEF Next

\* An order that is acknowledged adds its leg to the history of the record.
LEMMA SellEffect ==
    ASSUME TypeOK, Shape, NEW c \in Closers, SellLeg(c)
    PROVE  \E res :
              /\ cl' = [cl EXCEPT ![c] = AfterSell(c, res)]
              /\ sold' \in Seq(SaleStates) /\ Len(sold') = Len(sold)
              /\ \A i \in DOMAIN ledger : i # cl[c].pos => sold'[i] = sold[i]
              /\ sold'[cl[c].pos].acked = sold[cl[c].pos].acked
                                            \cup (IF res = "ack" THEN {Head(cl[c].legs)} ELSE {})
              /\ ledger' = ledger
  <1> DEFINE i == cl[c].pos
             leg == Head(cl[c].legs)
             size == contracts_per_leg(ledger[i].side)
  <1>1. /\ sold \in Seq(SaleStates) /\ Len(sold) = Len(ledger) /\ i \in DOMAIN ledger
        /\ cl \in [Closers -> CloserStates] /\ ledger \in Seq(Records) /\ cl[c].pc = "sell"
        /\ cl[c].legs # << >>
    BY DEF TypeOK, Shape, SellLeg
  <1>2. PICK a : /\ cl' = [cl EXCEPT ![c] = AfterSell(c, a.res)]
                 /\ sold' = [sold EXCEPT ![i] = WithSale(sold[i], leg, size, a)]
    BY DEF SellLeg
  <1>3. leg \in Legs /\ size \in Nat /\ sold[i] \in SaleStates
    <2>1. cl[c].legs \in Seq(Legs)
      BY <1>1 DEF CloserStates
    <2> QED
      BY <1>1, <2>1, SellTypes
  <1>4. WithSale(sold[i], leg, size, a) \in SaleStates
    BY <1>3 DEF WithSale, SaleStates, Plus
  <1>5. WithSale(sold[i], leg, size, a).acked = sold[i].acked \cup (IF a.res = "ack" THEN {leg} ELSE {})
    BY DEF WithSale
  <1>6. ledger' = ledger
    BY DEF SellLeg
  <1> DEFINE w == WithSale(sold[i], leg, size, a)
  <1> HIDE DEF w
  <1>7. sold' = [sold EXCEPT ![i] = w] /\ w \in SaleStates
    BY <1>2, <1>4 DEF w
  <1>8. sold' \in Seq(SaleStates) /\ Len(sold') = Len(sold) /\ sold'[i] = w
        /\ \A j \in DOMAIN ledger : j # i => sold'[j] = sold[j]
    BY <1>1, <1>7
  <1> QED
    BY <1>2, <1>5, <1>6, <1>8 DEF w

\* Only a close that believes it succeeded writes "closed".
LEMMA ClosedSteps ==
    ASSUME TypeOK, Shape, [Next]_vars, NEW i \in DOMAIN ledger', ledger'[i].status = "closed"
    PROVE  \/ i \in DOMAIN ledger /\ ledger[i].status = "closed"
           \/ \E c \in Closers : /\ cl[c].pc = "finish" /\ cl[c].ok /\ cl[c].pos = i
                                 /\ i \in DOMAIN ledger /\ sold' = sold
  <1> DEFINE Goal == \/ i \in DOMAIN ledger /\ ledger[i].status = "closed"
                     \/ \E c \in Closers : /\ cl[c].pc = "finish" /\ cl[c].ok /\ cl[c].pos = i
                                           /\ i \in DOMAIN ledger /\ sold' = sold
  <1> SUFFICES Goal
    OBVIOUS
  <1>1. ledger \in Seq(Records)
    BY DEF TypeOK
  <1>2. ledger' = ledger => Goal
    OBVIOUS
  <1>3. ASSUME NEW j \in DOMAIN ledger, NEW s, s # "closed", ledger' = transition(j, s)
        PROVE  Goal
    BY <1>1, <1>3 DEF transition, Records
  <1>4. ASSUME NEW j \in DOMAIN ledger, NEW s, s # "closed", NEW pnl, ledger' = finalize(j, s, pnl)
        PROVE  Goal
    BY <1>1, <1>4 DEF finalize, Records
  <1>5. ASSUME NEW c \in Closers, CloseMark(c)
        PROVE  Goal
    BY <1>3, <1>5 DEF CloseMark, Shape
  <1>6. ASSUME NEW c \in Closers, CloseFinish(c)
        PROVE  Goal
    <2>1. cl[c].pos \in DOMAIN ledger /\ cl[c].pc = "finish" /\ sold' = sold
      BY <1>6 DEF CloseFinish, Shape
    <2>2. CASE cl[c].ok /\ cl[c].pos # i
      <3>1. PICK pnl : ledger' = finalize(cl[c].pos, "closed", pnl)
        BY <1>6, <2>2 DEF CloseFinish
      <3>2. i \in DOMAIN ledger /\ ledger'[i] = ledger[i]
        BY <1>1, <2>1, <2>2, <3>1 DEF finalize
      <3> QED
        BY <3>2
    <2>3. CASE cl[c].ok /\ cl[c].pos = i
      BY <2>1, <2>3
    <2>4. CASE ~cl[c].ok
      BY <1>2, <1>6, <2>4 DEF CloseFinish
    <2> QED
      BY <2>2, <2>3, <2>4
  <1>7. CASE RecordPosition
    <2>1. i \in DOMAIN ledger \/ ledger'[i].status \in {"open", "unhedged"}
      BY <1>1, <1>7 DEF RecordPosition, new_position
    <2>2. i \in DOMAIN ledger => ledger'[i] = ledger[i]
      BY <1>1, <1>7 DEF RecordPosition
    <2> QED
      BY <2>1, <2>2
  <1> HIDE DEF Goal
  <1>8. ASSUME NEW c \in Closers, ClosePosition(c)
        PROVE  Goal
    BY <1>2, <1>5, <1>6, <1>8 DEF ClosePosition, CloseBooks, CloseUnavailable, SellLeg, CloseSaveFails
  <1>9. ASSUME NEW j \in DOMAIN ledger, MonitorResolved(j) \/ MonitorStale(j)
        PROVE  Goal
    BY <1>3, <1>4, <1>9 DEF MonitorResolved, MonitorStale
  <1>10. CASE Scan \/ Buy \/ MonitorNotDue \/ UNCHANGED vars
    BY <1>2, <1>7, <1>10 DEF Scan, Buy, Execute, SkipScan, BuyLeg, RecordFails, MonitorNotDue, vars
  <1>11. CASE Monitor
    <2>1. ASSUME NEW j \in DOMAIN ledger, \/ MonitorRetryClose(j) \/ MonitorTrading(j)
                                          \/ MonitorBlind(j) \/ MonitorSkips(j)
          PROVE  Goal
      BY <1>2, <2>1 DEF MonitorRetryClose, MonitorTrading, MonitorBlind, MonitorSkips
    <2>2. CASE MonitorStart \/ MonitorEnd
      BY <1>2, <2>2 DEF MonitorStart, MonitorEnd
    <2> QED
      BY <1>9, <1>11, <2>1, <2>2 DEF Monitor
  <1>12. CASE ClosePosition("worker") \/ Dashboard
    <2>1. ASSUME NEW c, NEW j, WebClose(c, j)
          PROVE  Goal
      BY <1>2, <2>1 DEF WebClose
    <2>2. ASSUME NEW flag, SetPaused(flag)
          PROVE  Goal
      BY <1>2, <2>2 DEF SetPaused
    <2> QED
      BY <1>8, <1>12, <2>1, <2>2 DEF Dashboard, Closers
  <1>13. CASE World
    BY <1>2, <1>13 DEF World, MarketEvent, Age, NextDay, CrashWorker, CrashWeb
  <1> QED
    BY <1>10, <1>11, <1>12, <1>13 DEF Next

\* What a leg's order leaves of a close.
LEMMA SellLeftover ==
    ASSUME TypeOK, Shape, Acknowledged, NEW c \in Closers, SellLeg(c)
    PROVE  LET i == cl[c].pos IN
           /\ cl'[c].pos = i
           /\ sold[i].acked \subseteq sold'[i].acked
           /\ sold'[i].acked \subseteq BoughtLegs(ledger[i].side)
           /\ cl'[c].pc = "sell" => Leftover(c)'
           /\ cl'[c].pc = "finish" /\ cl'[c].ok => sold'[i].acked = BoughtLegs(ledger[i].side)
  <1> DEFINE i == cl[c].pos
             side == ledger[i].side
  <1>1. /\ cl \in [Closers -> CloserStates] /\ cl[c] \in CloserStates
        /\ cl[c].pc = "sell" /\ cl[c].legs # << >> /\ i \in DOMAIN ledger
    BY DEF TypeOK, Shape, SellLeg
  <1>2. PICK res : /\ cl' = [cl EXCEPT ![c] = AfterSell(c, res)]
                   /\ sold'[i].acked = sold[i].acked \cup (IF res = "ack" THEN {Head(cl[c].legs)} ELSE {})
                   /\ ledger' = ledger
    BY SellEffect
  <1>3. sold[i].acked \subseteq BoughtLegs(side) /\ Leftover(c)
    BY <1>1 DEF Acknowledged
  <1>4. cl'[c] = AfterSell(c, res)
    BY <1>1, <1>2
  <1>5. CASE res = "retry"
    <2>1. cl'[c].legs = cl[c].legs /\ cl'[c].pos = i /\ cl'[c].ok = cl[c].ok /\ cl'[c].pc = "sell"
      BY <1>1, <1>4, <1>5 DEF AfterSell, CloserStates
    <2> QED
      BY <1>2, <1>3, <1>5, <2>1 DEF Leftover
  <1>6. CASE res # "retry"
    <2>1. /\ cl'[c].legs = Tail(cl[c].legs) /\ cl'[c].pos = i
          /\ cl'[c].ok => cl[c].ok /\ res = "ack"
          /\ cl'[c].pc = IF Len(cl[c].legs) = 1 THEN "finish" ELSE "sell"
      BY <1>1, <1>4, <1>6 DEF AfterSell, CloserStates
    <2>2. CASE cl[c].legs = <<"YES", "NO">> /\ side = "YES+NO"
      <3>1. Head(cl[c].legs) = "YES" /\ Tail(cl[c].legs) = <<"NO">> /\ Len(cl[c].legs) = 2
        BY <2>2
      <3>2. cl'[c].pc = "sell" /\ cl'[c].legs = <<"NO">> /\ (cl'[c].ok => "YES" \in sold'[i].acked)
        BY <1>2, <2>1, <2>2, <3>1
      <3>3. Leftover(c)'
        BY <1>2, <2>1, <2>2, <3>2 DEF Leftover
      <3> QED
        BY <1>2, <1>3, <2>1, <2>2, <3>1, <3>2, <3>3 DEF BoughtLegs
    <2>3. CASE cl[c].legs = <<"NO">> /\ side = "YES+NO" /\ (cl[c].ok => "YES" \in sold[i].acked)
      <3>1. Head(cl[c].legs) = "NO" /\ Len(cl[c].legs) = 1
        BY <2>3
      <3>2. cl'[c].pc = "finish" /\ BoughtLegs(side) = {"YES", "NO"}
        BY <2>1, <2>3, <3>1 DEF BoughtLegs
      <3>3. sold[i].acked \subseteq sold'[i].acked /\ sold'[i].acked \subseteq {"YES", "NO"}
        BY <1>2, <1>3, <3>1, <3>2
      <3>4. cl'[c].ok => sold'[i].acked = {"YES", "NO"}
        <4>1. cl'[c].ok => "YES" \in sold'[i].acked /\ "NO" \in sold'[i].acked
          BY <1>2, <2>1, <2>3, <3>1
        <4> QED
          BY <3>3, <4>1
      <3> QED
        BY <1>2, <2>1, <3>2, <3>3, <3>4
    <2>4. CASE cl[c].legs = <<"YES">> /\ side = "YES"
      <3>1. Head(cl[c].legs) = "YES" /\ Len(cl[c].legs) = 1
        BY <2>4
      <3>2. cl'[c].pc = "finish" /\ BoughtLegs(side) = {"YES"}
        BY <2>1, <2>4, <3>1 DEF BoughtLegs
      <3>3. sold[i].acked \subseteq sold'[i].acked /\ sold'[i].acked \subseteq {"YES"}
        BY <1>2, <1>3, <3>1, <3>2
      <3>4. cl'[c].ok => sold'[i].acked = {"YES"}
        <4>1. cl'[c].ok => "YES" \in sold'[i].acked
          BY <1>2, <2>1, <3>1
        <4> QED
          BY <3>3, <4>1
      <3> QED
        BY <1>2, <2>1, <3>2, <3>3, <3>4
    <2> QED
      BY <1>1, <1>3, <2>2, <2>3, <2>4 DEF Leftover, tokens_to_sell
  <1> QED
    BY <1>5, <1>6

LEMMA AcknowledgedStep ==
    ASSUME TypeOK, Shape, Acknowledged, [Next]_vars
    PROVE  Acknowledged'
  <1>1. /\ ledger \in Seq(Records) /\ ledger' \in Seq(Records)
        /\ sold \in Seq(SaleStates) /\ sold' \in Seq(SaleStates)
        /\ Len(sold) = Len(ledger) /\ Len(sold') = Len(ledger')
        /\ cl \in [Closers -> CloserStates]
    BY TypedStep DEF TypeOK, Shape
  <1>2. \A i \in DOMAIN ledger : i \in DOMAIN ledger' /\ ledger'[i].side = ledger[i].side
    BY SideStays
  <1>3. ASSUME NEW i \in DOMAIN ledger
        PROVE  /\ sold'[i].acked \subseteq BoughtLegs(ledger[i].side)
               /\ sold[i].acked \subseteq sold'[i].acked
               /\ (sold'[i].acked = sold[i].acked \/ \E c \in Closers : SellLeg(c) /\ cl[c].pos = i)
    <2>1. CASE sold' = sold
      BY <2>1 DEF Acknowledged
    <2>2. CASE sold' = Append(sold, NoSales)
      <3>1. sold'[i] = sold[i]
        BY <1>1, <2>2
      <3> QED
        BY <3>1 DEF Acknowledged
    <2>3. ASSUME NEW c \in Closers, SellLeg(c)
          PROVE  <1>3!2
      <3>1. CASE cl[c].pos = i
        BY <2>3, <3>1, SellLeftover
      <3>2. CASE cl[c].pos # i
        <4>1. sold'[i] = sold[i]
          BY <2>3, <3>2, SellEffect
        <4> QED
          BY <4>1 DEF Acknowledged
      <3> QED
        BY <3>1, <3>2
    <2> QED
      BY <2>1, <2>2, <2>3, SaleSteps
  <1>4. ASSUME NEW i \in DOMAIN ledger'
        PROVE  sold'[i].acked \subseteq BoughtLegs(ledger'[i].side)
    <2>1. CASE i \in DOMAIN ledger
      BY <1>2, <1>3, <2>1
    <2>2. CASE i \notin DOMAIN ledger
      <3>1. sold' = Append(sold, NoSales) /\ i = Len(sold) + 1
        <4>1. Len(sold') # Len(sold)
          BY <1>1, <2>2
        <4>2. sold' = Append(sold, NoSales)
          BY <4>1, SaleSteps, SellEffect
        <4> QED
          BY <1>1, <2>2, <4>2
      <3>2. sold'[i] = NoSales
        BY <1>1, <3>1
      <3> QED
        BY <3>2 DEF NoSales
    <2> QED
      BY <2>1, <2>2
  <1>5. ASSUME NEW c \in Closers, cl'[c] = cl[c], cl[c].pc \in {"sell", "finish"}, ~SellLeg(c)
        PROVE  /\ cl'[c].pc = "sell" => Leftover(c)'
               /\ cl'[c].pc = "finish" /\ cl'[c].ok =>
                      sold'[cl'[c].pos].acked = BoughtLegs(ledger'[cl'[c].pos].side)
    <2>1. cl[c].pos \in DOMAIN ledger
      BY <1>5 DEF Shape
    <2>2. /\ ledger'[cl[c].pos].side = ledger[cl[c].pos].side
          /\ sold[cl[c].pos].acked \subseteq sold'[cl[c].pos].acked
          /\ sold'[cl[c].pos].acked \subseteq BoughtLegs(ledger[cl[c].pos].side)
      BY <1>2, <1>3, <2>1
    <2>3. CASE cl[c].pc = "sell"
      <3>1. Leftover(c)
        BY <2>3 DEF Acknowledged
      <3> QED
        BY <1>5, <2>2, <2>3, <3>1 DEF Leftover
    <2>4. CASE cl[c].pc = "finish"
      <3>1. cl[c].ok => sold[cl[c].pos].acked = BoughtLegs(ledger[cl[c].pos].side)
        BY <2>4 DEF Acknowledged
      <3>2. cl[c].ok => sold'[cl[c].pos].acked = BoughtLegs(ledger[cl[c].pos].side)
        BY <2>2, <3>1
      <3> QED
        BY <1>5, <2>2, <2>4, <3>2
    <2> QED
      BY <1>5, <2>3, <2>4
  <1>6. ASSUME NEW c \in Closers, CloseBooks(c)
        PROVE  cl'[c].pc = "sell" /\ Leftover(c)'
    <2>1. /\ cl'[c].pc = "sell" /\ cl'[c].pos = cl[c].pos /\ ledger' = ledger
          /\ cl'[c].legs = tokens_to_sell(ledger[cl[c].pos].side)
      BY <1>1, <1>6 DEF CloseBooks, CloserStates
    <2> QED
      BY <2>1 DEF Leftover
  <1>7. ASSUME NEW c \in Closers
        PROVE  /\ cl'[c].pc = "sell" => Leftover(c)'
               /\ cl'[c].pc = "finish" /\ cl'[c].ok =>
                      sold'[cl'[c].pos].acked = BoughtLegs(ledger'[cl'[c].pos].side)
    <2>1. CASE SellLeg(c)
      <3>1. cl[c].pos \in DOMAIN ledger
        BY <2>1 DEF SellLeg, Shape
      <3> QED
        BY <1>2, <2>1, <3>1, SellLeftover
    <2>2. CASE ~SellLeg(c) /\ cl'[c] = cl[c]
      BY <1>5, <2>2
    <2> QED
      BY <1>6, <2>1, <2>2, CloserSteps
  <1> QED
    BY <1>4, <1>7 DEF Acknowledged

\* What is closed stays closed, and its history can only grow.
LEMMA ClosedStep ==
    ASSUME TypeOK, Shape, Acknowledged, ClosedOnlyAfterAck, [Next]_vars
    PROVE  ClosedOnlyAfterAck'
  <1> SUFFICES ASSUME NEW i \in DOMAIN ledger', ledger'[i].status = "closed"
               PROVE  sold'[i].acked = BoughtLegs(ledger'[i].side)
    BY DEF ClosedOnlyAfterAck
  <1>1. Acknowledged'
    BY AcknowledgedStep
  <1>2. sold'[i].acked \subseteq BoughtLegs(ledger'[i].side)
    BY <1>1 DEF Acknowledged
  <1>3. i \in DOMAIN ledger /\ sold[i].acked = BoughtLegs(ledger[i].side)
    BY ClosedSteps DEF ClosedOnlyAfterAck, Acknowledged
  <1>4. ledger'[i].side = ledger[i].side
    BY <1>3, SideStays
  <1>5. sold[i].acked \subseteq sold'[i].acked
    <2>1. sold \in Seq(SaleStates) /\ Len(sold) = Len(ledger) /\ ledger \in Seq(Records)
      BY DEF TypeOK, Shape
    <2>2. CASE sold' = sold \/ sold' = Append(sold, NoSales)
      BY <1>3, <2>1, <2>2
    <2>3. ASSUME NEW c \in Closers, SellLeg(c)
          PROVE  sold[i].acked \subseteq sold'[i].acked
      BY <1>3, <2>3, SellLeftover, SellEffect
    <2> QED
      BY <2>2, <2>3, SaleSteps
  <1> QED
    BY <1>2, <1>3, <1>4, <1>5

-----------------------------------------------------------------------------
(* Every accepted BUY is accounted for.                                    *)

\* No answer is lost, no process dies, and the ledger can be written.
Reliable == FaultKinds \cap {"lost", "crash", "save"} = {}

\* What the running execution has bought, and what it has left to buy.
Bought ==
    /\ wk.pc \notin {"buy", "record"} => wk.got = {}
    /\ wk.pc = "buy" =>
          \/ wk.side = "YES+NO" /\ wk.legs = <<"YES", "NO">> /\ wk.got = {}
          \/ wk.side = "YES+NO" /\ wk.legs = <<"NO">> /\ wk.got = {"YES"}
          \/ wk.side # "YES+NO" /\ wk.legs = <<"YES">> /\ wk.got = {}
    /\ wk.pc = "record" =>
          \/ wk.legs = << >> /\ wk.got = BoughtLegs(wk.side)
          \/ wk.legs # << >> /\ wk.got = {"YES"}

\* The records of a market that were bought with a leg.
Holders(L, m, leg) == {i \in DOMAIN L : L[i].market = m /\ leg \in BoughtLegs(L[i].side)}

LEMMA HoldersFinite ==
    ASSUME NEW L \in Seq(Records), NEW m, NEW leg
    PROVE  IsFiniteSet(Holders(L, m, leg)) /\ Cardinality(Holders(L, m, leg)) \in Nat
  <1>1. IsFiniteSet(1..Len(L)) /\ Holders(L, m, leg) \subseteq 1..Len(L)
    BY FS_Interval DEF Holders
  <1> QED
    BY <1>1, FS_Subset, FS_CardinalityType

LEMMA HoldersAppend ==
    ASSUME NEW L \in Seq(Records), NEW r \in Records, NEW m, NEW leg
    PROVE  Cardinality(Holders(Append(L, r), m, leg))
              = Cardinality(Holders(L, m, leg))
                  + (IF r.market = m /\ leg \in BoughtLegs(r.side) THEN 1 ELSE 0)
  <1> DEFINE M == Append(L, r)
             n == Len(L) + 1
             H == Holders(L, m, leg)
  <1>1. /\ DOMAIN M = DOMAIN L \cup {n} /\ n \notin DOMAIN L /\ M[n] = r
        /\ \A i \in DOMAIN L : M[i] = L[i]
    OBVIOUS
  <1>2. IsFiniteSet(H) /\ Cardinality(H) \in Nat /\ n \notin H
    <2>1. n \notin H
      BY <1>1 DEF Holders
    <2> QED
      BY <2>1, HoldersFinite
  <1> HIDE DEF M, n
  <1>3. CASE r.market = m /\ leg \in BoughtLegs(r.side)
    <2>1. Holders(M, m, leg) = H \cup {n}
      BY <1>1, <1>3 DEF Holders
    <2> HIDE DEF H
    <2> QED
      BY <1>2, <1>3, <2>1, FS_AddElement DEF M, H
  <1>4. CASE ~(r.market = m /\ leg \in BoughtLegs(r.side))
    <2>1. Holders(M, m, leg) = H
      BY <1>1, <1>4 DEF Holders
    <2> HIDE DEF H
    <2> QED
      BY <1>2, <1>4, <2>1 DEF M, H
  <1> QED
    BY <1>3, <1>4

\* Nothing but a new record changes what the ledger accounts for.
LEMMA HoldersStay ==
    ASSUME TypeOK, Shape, [Next]_vars, ~RecordPosition, NEW m, NEW leg
    PROVE  Holders(ledger', m, leg) = Holders(ledger, m, leg)
  <1>1. ledger \in Seq(Records)
    BY DEF TypeOK
  <1>2. ASSUME NEW j \in DOMAIN ledger, AdvancesAt(ledger', j)
        PROVE  Holders(ledger', m, leg) = Holders(ledger, m, leg)
    <2>1. DOMAIN ledger' = DOMAIN ledger
      BY <1>1, <1>2 DEF AdvancesAt
    <2>2. \A i \in DOMAIN ledger : ledger'[i].market = ledger[i].market /\ ledger'[i].side = ledger[i].side
      BY <1>2 DEF AdvancesAt
    <2> QED
      BY <2>1, <2>2 DEF Holders
  <1> QED
    BY <1>2, LedgerStep

\* An execution's steps; every other step leaves it with nothing bought.
LEMMA BuySteps ==
    ASSUME TypeOK, Shape, Bought, Reliable, [Next]_vars, ~BuyLeg, ~RecordPosition
    PROVE  Bought' /\ bought' = bought /\ wk'.got = wk.got /\ (wk.got # {} => wk'.market = wk.market)
  <1> DEFINE Goal == /\ Bought' /\ bought' = bought /\ wk'.got = wk.got
                     /\ wk.got # {} => wk'.market = wk.market
  <1> SUFFICES Goal
    OBVIOUS
  <1>1. wk \in WorkerStates
    BY DEF TypeOK
  <1>2. ~Fault("crash") /\ ~Fault("save")
    BY DEF Reliable, Fault
  <1>3. wk' = wk /\ bought' = bought => Goal
    BY DEF Bought
  <1>4. ASSUME wk'.pc \notin {"buy", "record"}, wk.pc \notin {"buy", "record"},
               wk'.got \in {wk.got, {}}, bought' = bought
        PROVE  Goal
    BY <1>4 DEF Bought
  <1>5. IdleWorker.pc = "loop" /\ IdleWorker.got = {}
    BY DEF IdleWorker
  <1>6. ASSUME NEW s \in Strategies, NEW m \in Markets, Execute(s, m)
        PROVE  Goal
    <2>1. /\ wk'.pc = "buy" /\ wk'.side = SideOf(s) /\ wk'.legs = LegsOf(s) /\ wk'.got = wk.got
          /\ wk.got = {} /\ bought' = bought
      BY <1>1, <1>6 DEF Execute, Bought, WorkerStates
    <2>2. \/ SideOf(s) = "YES+NO" /\ LegsOf(s) = <<"YES", "NO">>
          \/ SideOf(s) # "YES+NO" /\ LegsOf(s) = <<"YES">>
      BY DEF SideOf, LegsOf
    <2> QED
      BY <2>1, <2>2 DEF Bought
  <1>7. ASSUME NEW i, AtRecord(i), NextRecord(i), bought' = bought
        PROVE  Goal
    <2>1. wk.pc = "monitor" /\ wk'.pc = "monitor" /\ wk'.got = wk.got
      BY <1>1, <1>7 DEF AtRecord, NextRecord, WorkerStates
    <2> QED
      BY <1>4, <1>7, <2>1
  <1>8. ASSUME SkipScan \/ MonitorNotDue \/ MonitorStart \/ MonitorEnd
        PROVE  Goal
    <2>1. /\ wk.pc \notin {"buy", "record"} /\ wk'.pc \notin {"buy", "record"}
          /\ wk'.got \in {wk.got, {}} /\ bought' = bought
      BY <1>1, <1>5, <1>8 DEF SkipScan, MonitorNotDue, MonitorStart, MonitorEnd, WorkerStates
    <2> QED
      BY <1>4, <2>1
  <1>9. ASSUME NEW i, \/ MonitorRetryClose(i) \/ MonitorResolved(i) \/ MonitorStale(i)
                      \/ MonitorTrading(i) \/ MonitorBlind(i) \/ MonitorSkips(i)
        PROVE  AtRecord(i) /\ NextRecord(i) /\ bought' = bought
    BY <1>9 DEF MonitorRetryClose, MonitorResolved, MonitorStale, MonitorTrading, MonitorBlind,
        MonitorSkips
  <1>10. ASSUME NEW c, ClosePosition(c)
         PROVE  wk' = wk /\ bought' = bought
    BY <1>10 DEF ClosePosition, CloseMark, CloseBooks, CloseUnavailable, SellLeg, CloseFinish,
        CloseSaveFails
  <1>11. Dashboard => wk' = wk /\ bought' = bought
    BY <1>10 DEF Dashboard, WebClose, SetPaused
  <1>12. World \/ UNCHANGED vars => wk' = wk /\ bought' = bought
    BY <1>2 DEF World, MarketEvent, Age, NextDay, CrashWorker, CrashWeb, vars
  <1>13. ~RecordFails
    BY <1>2 DEF RecordFails
  <1> HIDE DEF Goal
  <1>14. CASE Monitor
    BY <1>7, <1>8, <1>9, <1>14 DEF Monitor
  <1> QED
    BY <1>3, <1>6, <1>8, <1>10, <1>11, <1>12, <1>13, <1>14 DEF Next, Scan, Buy

\* One order of an execution.
LEMMA BuyLegStep ==
    ASSUME TypeOK, Shape, Bought, Reliable, BuyLeg
    PROVE  /\ Bought' /\ wk.market \in Markets /\ ledger' = ledger
           /\ \/ bought' = bought /\ wk'.got = wk.got /\ (wk.got # {} => wk'.market = wk.market)
              \/ \E leg \in Legs : /\ leg \notin wk.got /\ wk'.got = wk.got \cup {leg}
                                   /\ wk'.market = wk.market
                                   /\ bought' = [bought EXCEPT ![wk.market][leg] = @ + 1]
  <1> DEFINE leg == Head(wk.legs)
             m   == wk.market
  <1>1. /\ wk \in WorkerStates /\ wk.pc = "buy" /\ m \in Markets /\ ledger' = ledger
    BY DEF BuyLeg, TypeOK, Shape
  <1>2. \/ wk.side = "YES+NO" /\ wk.legs = <<"YES", "NO">> /\ wk.got = {}
        \/ wk.side = "YES+NO" /\ wk.legs = <<"NO">> /\ wk.got = {"YES"}
        \/ wk.side # "YES+NO" /\ wk.legs = <<"YES">> /\ wk.got = {}
    BY <1>1 DEF Bought
  <1>3. /\ leg \in Legs /\ leg \notin wk.got /\ wk.legs # << >>
        /\ \/ Len(wk.legs) = 1 /\ Tail(wk.legs) = << >> /\ wk.got \cup {leg} = BoughtLegs(wk.side)
           \/ /\ Len(wk.legs) = 2 /\ Tail(wk.legs) = <<"NO">>
              /\ wk.got \cup {leg} = {"YES"} /\ wk.side = "YES+NO"
    <2>1. CASE wk.side = "YES+NO" /\ wk.legs = <<"YES", "NO">> /\ wk.got = {}
      BY <2>1 DEF Legs
    <2>2. CASE wk.side = "YES+NO" /\ wk.legs = <<"NO">> /\ wk.got = {"YES"}
      <3>1. leg = "NO" /\ Tail(wk.legs) = << >> /\ Len(wk.legs) = 1 /\ wk.legs # << >>
        BY <2>2
      <3> QED
        BY <2>2, <3>1 DEF Legs, BoughtLegs
    <2>3. CASE wk.side # "YES+NO" /\ wk.legs = <<"YES">> /\ wk.got = {}
      <3>1. leg = "YES" /\ Tail(wk.legs) = << >> /\ Len(wk.legs) = 1 /\ wk.legs # << >>
        BY <2>3
      <3> QED
        BY <2>3, <3>1 DEF Legs, BoughtLegs
    <2> QED
      BY <1>2, <2>1, <2>2, <2>3
  <1>4. PICK a : /\ \/ a.res = "ack" /\ a.accepted
                    \/ a.res \in {"retry", "raise"} /\ ~a.accepted
                 /\ wk' = AfterBuy(a.res)
                 /\ bought' = IF a.accepted THEN [bought EXCEPT ![m][leg] = @ + 1] ELSE bought
    <2>1. PICK a \in Attempts(market[m] # "resolved", wk.try) :
              /\ wk' = AfterBuy(a.res)
              /\ bought' = IF a.accepted THEN [bought EXCEPT ![m][leg] = @ + 1] ELSE bought
      BY DEF BuyLeg
    <2>2. ~Fault("lost")
      BY DEF Reliable, Fault
    <2>3. \/ a.res = "ack" /\ a.accepted
          \/ a.res \in {"retry", "raise"} /\ ~a.accepted
      BY <2>1, <2>2, ReliableAttempt
    <2> QED
      BY <2>1, <2>3
  <1>5. CASE a.res = "ack"
    <2>1. /\ wk'.legs = Tail(wk.legs) /\ wk'.got = wk.got \cup {leg} /\ wk'.market = m
          /\ wk'.side = wk.side /\ wk'.pc = IF Len(wk.legs) = 1 THEN "record" ELSE "buy"
      BY <1>1, <1>4, <1>5 DEF AfterBuy, WorkerStates
    <2>2. bought' = [bought EXCEPT ![m][leg] = @ + 1]
      BY <1>4, <1>5
    <2>3. Bought'
      BY <1>3, <2>1 DEF Bought
    <2> QED
      BY <1>1, <1>3, <2>1, <2>2, <2>3
  <1>6. CASE a.res # "ack"
    <2>1. \/ /\ wk'.pc = "buy" /\ wk'.side = wk.side /\ wk'.legs = wk.legs /\ wk'.got = wk.got
             /\ wk'.market = wk.market
          \/ wk'.pc = "scanned" /\ wk.got = {} /\ wk'.got = {}
          \/ /\ wk'.pc = "record" /\ wk.got # {} /\ wk'.got = wk.got /\ wk'.legs = wk.legs
             /\ wk'.market = wk.market
      BY <1>1, <1>4, <1>6 DEF AfterBuy, IdleWorker, WorkerStates
    <2>2. bought' = bought
      BY <1>4, <1>6
    <2>3. Bought'
      BY <1>2, <1>3, <2>1 DEF Bought
    <2> QED
      BY <1>1, <2>1, <2>2, <2>3
  <1> QED
    BY <1>5, <1>6

LEMMA BuysStep ==
    ASSUME TypeOK, Shape, Bought, EveryBuyRecorded, Reliable, [Next]_vars
    PROVE  Bought' /\ EveryBuyRecorded'
  <1> DEFINE Running(w, m, leg) == IF w.market = m /\ leg \in w.got THEN 1 ELSE 0
  <1>1. /\ ledger \in Seq(Records) /\ wk \in WorkerStates
        /\ bought \in [Markets -> [Legs -> Nat]] /\ bought' \in [Markets -> [Legs -> Nat]]
    BY TypedStep DEF TypeOK
  <1>2. \A m \in Markets, leg \in Legs :
            bought[m][leg] = Cardinality(Holders(ledger, m, leg)) + Running(wk, m, leg)
    BY DEF EveryBuyRecorded, AccountedBuys, Holders
  <1>3. (\A m \in Markets, leg \in Legs :
            bought'[m][leg] = Cardinality(Holders(ledger', m, leg)) + Running(wk', m, leg))
        => EveryBuyRecorded'
    BY DEF EveryBuyRecorded, AccountedBuys, Holders
  <1>4. CASE ~BuyLeg /\ ~RecordPosition
    <2>1. Bought' /\ bought' = bought /\ wk'.got = wk.got /\ (wk.got # {} => wk'.market = wk.market)
      BY <1>4, BuySteps
    <2>2. \A m, leg : Running(wk', m, leg) = Running(wk, m, leg)
      BY <2>1
    <2>3. \A m, leg : Holders(ledger', m, leg) = Holders(ledger, m, leg)
      BY <1>4, HoldersStay
    <2> HIDE DEF Running
    <2> QED
      BY <1>2, <1>3, <2>1, <2>2, <2>3
  <1>5. CASE BuyLeg
    <2>1. Bought' /\ ledger' = ledger /\ wk.market \in Markets
      BY <1>5, BuyLegStep
    <2>2. CASE bought' = bought /\ wk'.got = wk.got /\ (wk.got # {} => wk'.market = wk.market)
      <3>1. \A m, leg : Running(wk', m, leg) = Running(wk, m, leg)
        BY <2>2
      <3> HIDE DEF Running
      <3> QED
        BY <1>2, <1>3, <2>1, <2>2, <3>1
    <2>3. ASSUME NEW leg \in Legs, leg \notin wk.got, wk'.got = wk.got \cup {leg},
                 wk'.market = wk.market, bought' = [bought EXCEPT ![wk.market][leg] = @ + 1]
          PROVE  EveryBuyRecorded'
      <3> SUFFICES ASSUME NEW m \in Markets, NEW l \in Legs
                   PROVE  bought'[m][l] = Cardinality(Holders(ledger', m, l)) + Running(wk', m, l)
        BY <1>3
      <3>1. bought[m][l] = Cardinality(Holders(ledger, m, l)) + Running(wk, m, l)
        BY <1>2
      <3>2. Cardinality(Holders(ledger, m, l)) \in Nat
        BY <1>1, HoldersFinite
      <3>3. CASE m = wk.market /\ l = leg
        <4>1. Running(wk, m, l) = 0 /\ Running(wk', m, l) = 1
          BY <2>3, <3>3
        <4>2. bought'[m][l] = bought[m][l] + 1
          BY <1>1, <2>3, <3>3
        <4> HIDE DEF Running
        <4> QED
          BY <2>1, <3>1, <3>2, <4>1, <4>2
      <3>4. CASE ~(m = wk.market /\ l = leg)
        <4>1. Running(wk', m, l) = Running(wk, m, l)
          BY <2>3, <3>4
        <4>2. bought'[m][l] = bought[m][l]
          BY <1>1, <2>3, <3>4
        <4> HIDE DEF Running
        <4> QED
          BY <2>1, <3>1, <4>1, <4>2
      <3> QED
        BY <3>3, <3>4
    <2> QED
      BY <1>5, <2>1, <2>2, <2>3, BuyLegStep
  <1>6. CASE RecordPosition
    <2> DEFINE r == IF wk.legs = << >> THEN new_position(wk.market, wk.side, "open")
                                       ELSE new_position(wk.market, "YES", "unhedged")
    <2>1. /\ ledger' = Append(ledger, r) /\ wk'.got = {} /\ wk'.pc = "scanned" /\ bought' = bought
          /\ wk.pc = "record"
      BY <1>6 DEF RecordPosition, IdleWorker
    <2>2. r \in Records
      <3>1. /\ wk \in WorkerStates /\ wk.market \in Markets /\ wk.side \in Sides
            /\ 0 \in 0..MaxDay /\ day \in 1..MaxDay
        BY <2>1, Bounds DEF TypeOK, Shape, WorkerStates
      <3> QED
        BY <3>1 DEF Records, new_position, Statuses, Sides
    <2>3. r.market = wk.market /\ BoughtLegs(r.side) = wk.got
      BY <2>1 DEF Bought, new_position, BoughtLegs
    <2> HIDE DEF r
    <2>4. Bought'
      BY <2>1 DEF Bought
    <2>5. ASSUME NEW m \in Markets, NEW leg \in Legs
          PROVE  bought'[m][leg] = Cardinality(Holders(ledger', m, leg)) + Running(wk', m, leg)
      <3>1. Cardinality(Holders(ledger', m, leg))
              = Cardinality(Holders(ledger, m, leg)) + Running(wk, m, leg)
        BY <1>1, <2>1, <2>2, <2>3, HoldersAppend
      <3>2. Running(wk', m, leg) = 0
        BY <2>1
      <3>3. bought'[m][leg] = bought[m][leg] /\ bought[m][leg] \in Nat
        BY <1>1, <2>1
      <3> HIDE DEF Running
      <3> QED
        BY <1>2, <3>1, <3>2, <3>3
    <2> QED
      BY <1>3, <2>4, <2>5
  <1> QED
    BY <1>4, <1>5, <1>6

-----------------------------------------------------------------------------
(* A single leg is sold once.                                              *)

\* A record that is not a pair: bought as a YES leg, or left with one.
Single(i) == ledger[i].side # "YES+NO"

Unsold(i) == \A leg \in Legs : sold[i].halves[leg] = 0

\* The worker alone closes records.  A single record it has yet to look at, or is selling, is
\* unsold; once sold it is no longer active, or is about to be written "closed".
OneSale ==
    LET w == cl["worker"] IN
    /\ wk.pc # "monitor" => w.pc = "idle"
    /\ w.pc # "idle" => w.pos \notin wk.todo
    /\ w.pc \in {"mark", "books"} => w.ok
    /\ w.pc = "sell" /\ Single(w.pos) => w.ok
    /\ \A i \in DOMAIN ledger : Single(i) =>
          \/ Unsold(i)
          \/ /\ SoldWithin(i)
             /\ i \notin wk.todo
             /\ ~(w.pc \in {"mark", "books", "sell"} /\ w.pos = i)
             /\ \/ ledger[i].status \notin ACTIVE_STATUSES
                \/ w.pc = "finish" /\ w.ok /\ w.pos = i

\* What a step does to the worker's loop and to its close, if the dashboard closes nothing.
SoleStep ==
    LET w == cl["worker"]
        v == cl'["worker"]
    IN
    \/ /\ v = w /\ wk'.todo \subseteq wk.todo
       /\ sold' = sold \/ sold' = Append(sold, NoSales)
       /\ wk.pc = "monitor" => wk'.pc = "monitor" \/ w.pc = "idle"
    \/ v = w /\ wk.pc = "scanned" /\ wk'.todo = ActiveRecords /\ ledger' = ledger /\ sold' = sold
    \/ \E i \in wk.todo :
          /\ w.pc = "idle" /\ wk'.pc = "monitor" /\ wk'.todo = wk.todo \ {i} /\ sold' = sold
          /\ v.pc \in {"mark", "books"} /\ v.ok /\ v.pos = i
    \/ /\ wk' = wk /\ sold' = sold /\ w.pc \in {"mark", "books"}
       /\ v.pc = "idle" \/ (v.pc \in {"books", "sell"} /\ v.pos = w.pos /\ (w.ok => v.ok))
    \/ SellLeg("worker")
    \/ CloseFinish("worker")

LEMMA SoleSteps ==
    ASSUME TypeOK, Shape, Reliable, WebThreads = {}, [Next]_vars
    PROVE  SoleStep
  <1> DEFINE w == cl["worker"]
             v == cl'["worker"]
  <1>1. /\ cl \in [Closers -> CloserStates] /\ "worker" \in Closers
        /\ w \in CloserStates /\ wk \in WorkerStates
    BY DEF TypeOK, Closers
  <1>2. ~Fault("crash") /\ ~Fault("save")
    BY DEF Reliable, Fault
  <1>3. IdleWorker.todo = {} /\ IdleCloser.pc = "idle"
    BY DEF IdleWorker, IdleCloser
  <1>4. ASSUME cl' = cl, wk'.todo \subseteq wk.todo, sold' = sold \/ sold' = Append(sold, NoSales),
               wk.pc = "monitor" => wk'.pc = "monitor" \/ w.pc = "idle"
        PROVE  SoleStep
    BY <1>4 DEF SoleStep
  <1>5. ASSUME wk' = wk, sold' = sold, cl' = cl
        PROVE  SoleStep
    BY <1>4, <1>5
  <1>6. CASE SkipScan \/ MonitorNotDue \/ RecordPosition \/ \E s, m : Execute(s, m)
    <2>1. /\ cl' = cl /\ wk'.todo \subseteq wk.todo /\ wk.pc # "monitor"
          /\ sold' = sold \/ sold' = Append(sold, NoSales)
      BY <1>1, <1>3, <1>6 DEF SkipScan, MonitorNotDue, RecordPosition, Execute, WorkerStates, IdleWorker
    <2> QED
      BY <1>4, <2>1
  <1>7. CASE BuyLeg
    <2>1. PICK res : wk' = AfterBuy(res)
      BY <1>7 DEF BuyLeg
    <2>2. wk'.todo \subseteq wk.todo
      BY <1>1, <2>1 DEF AfterBuy, IdleWorker, WorkerStates
    <2> QED
      BY <1>4, <1>7, <2>2 DEF BuyLeg
  <1>8. ASSUME NEW i, AtRecord(i), NextRecord(i), sold' = sold
        PROVE  /\ wk.pc = "monitor" /\ wk'.pc = "monitor" /\ wk'.todo = wk.todo \ {i}
               /\ w.pc = "idle" /\ i \in wk.todo
    BY <1>1, <1>8 DEF AtRecord, NextRecord, WorkerStates
  <1>9. ASSUME NEW i, NEW seen, AtRecord(i), NextRecord(i), sold' = sold,
               cl' = [cl EXCEPT !["worker"] = Closing(i, seen)]
        PROVE  SoleStep
    <2>1. v = Closing(i, seen)
      BY <1>1, <1>9
    <2>2. v.pc \in {"mark", "books"} /\ v.ok /\ v.pos = i
      BY <2>1 DEF Closing, IdleCloser
    <2> QED
      BY <1>8, <1>9, <2>2 DEF SoleStep
  <1>10. ASSUME NEW i, AtRecord(i), NextRecord(i), sold' = sold, cl' = cl \/ MaybeClose(i)
         PROVE  SoleStep
    <2>1. CASE cl' = cl
      BY <1>4, <1>8, <1>10, <2>1
    <2>2. CASE MaybeClose(i)
      BY <1>9, <1>10, <2>1, <2>2 DEF MaybeClose
    <2> QED
      BY <1>10, <2>1, <2>2
  <1>11. ASSUME NEW i, \/ MonitorRetryClose(i) \/ MonitorResolved(i) \/ MonitorStale(i)
                       \/ MonitorTrading(i) \/ MonitorBlind(i) \/ MonitorSkips(i)
         PROVE  SoleStep
    <2>1. CASE MonitorRetryClose(i)
      BY <1>9, <2>1 DEF MonitorRetryClose
    <2>2. CASE ~MonitorRetryClose(i)
      BY <1>10, <1>11, <2>2 DEF MonitorResolved, MonitorStale, MonitorTrading, MonitorBlind,
          MonitorSkips
    <2> QED
      BY <2>1, <2>2
  <1>12. CASE MonitorStart
    <2>1. wk'.todo = ActiveRecords
      BY <1>1, <1>12 DEF MonitorStart, WorkerStates
    <2> QED
      BY <1>12, <2>1 DEF MonitorStart, SoleStep
  <1>13. CASE MonitorEnd
    BY <1>3, <1>4, <1>13 DEF MonitorEnd
  <1>14. CASE ClosePosition("worker")
    <2>1. CASE CloseMark("worker") \/ CloseBooks("worker")
      <3>1. /\ wk' = wk /\ sold' = sold /\ w.pc \in {"mark", "books"}
            /\ v.pc \in {"books", "sell"} /\ v.pos = w.pos /\ (w.ok => v.ok)
        <4>1. w \in CloserStates /\ "worker" \in DOMAIN cl
          BY <1>1
        <4>2. CASE CloseMark("worker")
          BY <4>1, <4>2 DEF CloseMark, CloserStates
        <4>3. CASE CloseBooks("worker")
          BY <4>1, <4>3 DEF CloseBooks, CloserStates
        <4> QED
          BY <2>1, <4>2, <4>3
      <3> QED
        BY <3>1 DEF SoleStep
    <2>2. CASE CloseUnavailable("worker")
      <3>1. wk' = wk /\ sold' = sold /\ w.pc \in {"mark", "books"} /\ v.pc = "idle"
        BY <1>1, <1>3, <2>2 DEF CloseUnavailable
      <3> QED
        BY <3>1 DEF SoleStep
    <2>3. ~CloseSaveFails("worker")
      BY <1>2 DEF CloseSaveFails
    <2>4. CASE SellLeg("worker") \/ CloseFinish("worker")
      BY <2>4 DEF SoleStep
    <2> QED
      BY <1>14, <2>1, <2>2, <2>3, <2>4 DEF ClosePosition
  <1>15. CASE Dashboard \/ World \/ UNCHANGED vars
    <2>1. wk' = wk /\ sold' = sold /\ cl' = cl
      BY <1>2, <1>15 DEF Dashboard, SetPaused, World, MarketEvent, Age, NextDay, CrashWorker, vars
    <2> QED
      BY <1>5, <2>1
  <1>16. CASE Monitor
    BY <1>11, <1>12, <1>13, <1>16 DEF Monitor
  <1>17. ~RecordFails
    BY <1>2 DEF RecordFails
  <1> QED
    BY <1>6, <1>7, <1>14, <1>15, <1>16, <1>17 DEF Next, Scan, Buy

\* One order of the worker's close: only the acknowledged one of a single record sells.
LEMMA SoleSale ==
    ASSUME TypeOK, Shape, Acknowledged, OneSale, Reliable, SellLeg("worker")
    PROVE  LET i == cl["worker"].pos
               v == cl'["worker"]
           IN
           /\ i \in DOMAIN ledger /\ v.pos = i /\ v.pc \in {"sell", "finish"}
           /\ ledger' = ledger /\ wk' = wk
           /\ \A j \in DOMAIN ledger : j # i => sold'[j] = sold[j]
           /\ Single(i) =>
                 \/ sold'[i].halves = sold[i].halves /\ (v.pc = "sell" => v.ok)
                 \/ /\ sold'[i].halves = [sold[i].halves EXCEPT !["YES"] = Plus(@, 2)]
                    /\ v.pc = "finish" /\ v.ok
  <1> DEFINE w == cl["worker"]
             v == cl'["worker"]
             i == w.pos
             leg == Head(w.legs)
             size == contracts_per_leg(ledger[i].side)
             m == ledger[i].market
             can == held[m][leg] >= size /\ market[m] # "resolved"
  <1>1. /\ cl \in [Closers -> CloserStates] /\ "worker" \in Closers /\ w \in CloserStates
        /\ w.pc = "sell" /\ w.legs # << >> /\ i \in DOMAIN ledger
        /\ sold \in Seq(SaleStates) /\ Len(sold) = Len(ledger) /\ ledger \in Seq(Records)
    BY DEF TypeOK, Closers, Shape, SellLeg
  <1>2. PICK a \in Attempts(can, w.try) :
            /\ cl' = [cl EXCEPT !["worker"] = AfterSell("worker", a.res)]
            /\ sold' = [sold EXCEPT ![i] = WithSale(sold[i], leg, size, a)]
    BY DEF SellLeg
  <1>3. \/ a.res = "ack" /\ a.accepted
        \/ a.res \in {"retry", "raise"} /\ ~a.accepted
    <2>1. ~Fault("lost")
      BY DEF Reliable, Fault
    <2>2. can \in BOOLEAN
      OBVIOUS
    <2> QED
      BY <1>2, <2>1, <2>2, ReliableAttempt
  <1>4. v = AfterSell("worker", a.res)
    BY <1>1, <1>2
  <1>5. /\ v.pos = i /\ v.pc \in {"sell", "finish"}
        /\ a.res = "retry" => v.pc = "sell" /\ (w.ok => v.ok)
        /\ a.res # "retry" => v.pc = (IF Len(w.legs) = 1 THEN "finish" ELSE "sell")
        /\ a.res = "ack" => (w.ok => v.ok)
    BY <1>1, <1>4 DEF AfterSell, CloserStates
  <1> DEFINE s == WithSale(sold[i], leg, size, a)
  <1>6. s.halves = IF a.accepted THEN [sold[i].halves EXCEPT ![leg] = Plus(@, size)] ELSE sold[i].halves
    BY DEF WithSale
  <1> HIDE DEF s
  <1>7. sold' = [sold EXCEPT ![i] = s]
    BY <1>2 DEF s
  <1>8. sold'[i] = s /\ \A j \in DOMAIN ledger : j # i => sold'[j] = sold[j]
    BY <1>1, <1>7
  <1>9. ledger' = ledger /\ wk' = wk
    BY DEF SellLeg
  <1>10. ASSUME Single(i)
         PROVE  w.ok /\ Len(w.legs) = 1 /\ leg = "YES" /\ size = 2
    <2>1. w.ok /\ Leftover("worker")
      BY <1>1, <1>10 DEF OneSale, Acknowledged
    <2>2. w.legs = <<"YES">>
      BY <1>1, <1>10, <2>1 DEF Leftover, Single, tokens_to_sell
    <2>3. Len(w.legs) = 1 /\ leg = "YES"
      BY <2>2
    <2> QED
      BY <1>10, <2>1, <2>3 DEF Single, contracts_per_leg
  <1>11. ASSUME Single(i)
         PROVE  \/ sold'[i].halves = sold[i].halves /\ (v.pc = "sell" => v.ok)
                \/ /\ sold'[i].halves = [sold[i].halves EXCEPT !["YES"] = Plus(@, 2)]
                   /\ v.pc = "finish" /\ v.ok
    BY <1>3, <1>5, <1>6, <1>8, <1>10, <1>11
  <1> QED
    BY <1>1, <1>5, <1>8, <1>9, <1>11

\* The worker's close of a record it sold leaves it out of the active ones.
LEMMA SoleFinish ==
    ASSUME TypeOK, Shape, Marked, CloseFinish("worker"), cl["worker"].ok
    PROVE  LET i == cl["worker"].pos IN
           i \in DOMAIN ledger /\ ledger'[i].status \notin ACTIVE_STATUSES
  <1> DEFINE i == cl["worker"].pos
  <1>1. /\ i \in DOMAIN ledger /\ ledger \in Seq(Records) /\ ledger[i] \in Records
        /\ ledger[i].status \notin Unmarked
    BY DEF TypeOK, Closers, Shape, CloseFinish, Marked, Armed
  <1>2. PICK pnl : ledger' = finalize(i, "closed", pnl)
    BY DEF CloseFinish
  <1>3. CASE ledger[i].status = "closing"
    <2>1. ledger' = [ledger EXCEPT ![i] = [ledger[i] EXCEPT !.status = "closed", !.pnl = pnl]]
      BY <1>2, <1>3 DEF finalize, VALID_TRANSITIONS
    <2>2. ledger'[i].status = "closed"
      BY <1>1, <2>1 DEF Records
    <2> QED
      BY <1>1, <2>2 DEF ACTIVE_STATUSES
  <1>4. CASE ledger[i].status # "closing"
    <2>1. ledger[i].status \in {"closed", "resolved", "stale"}
      BY <1>1, <1>4 DEF Records, Statuses, Unmarked
    <2>2. ledger' = ledger
      BY <1>2, <2>1 DEF finalize, VALID_TRANSITIONS
    <2> QED
      BY <1>1, <2>1, <2>2 DEF ACTIVE_STATUSES
  <1> QED
    BY <1>3, <1>4

\* A record that is no longer active stays so.
LEMMA InactiveStays ==
    ASSUME TypeOK, Shape, [Next]_vars, NEW i \in DOMAIN ledger, ledger[i].status \notin ACTIVE_STATUSES
    PROVE  ledger'[i].status \notin ACTIVE_STATUSES
  <1>1. ledger \in Seq(Records) /\ ledger[i].status \in {"closed", "resolved", "stale"}
    <2>1. ledger \in Seq(Records) /\ ledger[i] \in Records
      BY DEF TypeOK
    <2> QED
      BY <2>1 DEF Records, Statuses, ACTIVE_STATUSES
  <1>2. CASE ledger' = ledger
    BY <1>2
  <1>3. ASSUME NEW j \in DOMAIN ledger, AdvancesAt(ledger', j)
        PROVE  ledger'[i].status \notin ACTIVE_STATUSES
    BY <1>1, <1>3 DEF AdvancesAt, VALID_TRANSITIONS, ACTIVE_STATUSES
  <1>4. CASE RecordPosition
    BY <1>1, <1>4 DEF RecordPosition
  <1> QED
    BY <1>2, <1>3, <1>4, LedgerStep

LEMMA OneSaleStep ==
    ASSUME TypeOK, Shape, Marked, Acknowledged, OneSale, Reliable, WebThreads = {}, [Next]_vars
    PROVE  OneSale'
  <1> DEFINE w == cl["worker"]
             v == cl'["worker"]
             Sells(c, i) == c.pc \in {"mark", "books", "sell"} /\ c.pos = i
             Done(c, i) == c.pc = "finish" /\ c.ok /\ c.pos = i
             Once(i) == /\ SoldWithin(i) /\ i \notin wk.todo /\ ~Sells(w, i)
                        /\ ledger[i].status \notin ACTIVE_STATUSES \/ Done(w, i)
  <1>1. /\ cl \in [Closers -> CloserStates] /\ "worker" \in Closers /\ w \in CloserStates
        /\ ledger \in Seq(Records) /\ ledger' \in Seq(Records)
        /\ sold \in Seq(SaleStates) /\ sold' \in Seq(SaleStates)
        /\ Len(sold) = Len(ledger) /\ Len(sold') = Len(ledger')
        /\ w.pc # "idle" => w.pos \in DOMAIN ledger
    BY TypedStep DEF TypeOK, Closers, Shape
  <1>2. \A i \in DOMAIN ledger :
            /\ i \in DOMAIN ledger' /\ ledger'[i].side = ledger[i].side
            /\ ledger[i].status \notin ACTIVE_STATUSES => ledger'[i].status \notin ACTIVE_STATUSES
    BY SideStays, InactiveStays
  <1>3. \A i \in DOMAIN ledger : Single(i) => Unsold(i) \/ Once(i)
    BY DEF OneSale
  <1>4. /\ wk.pc # "monitor" => w.pc = "idle"
        /\ w.pc # "idle" => w.pos \notin wk.todo
        /\ w.pc \in {"mark", "books"} => w.ok
        /\ w.pc = "sell" /\ Single(w.pos) => w.ok
    BY DEF OneSale
  <1> DEFINE Loop == /\ wk'.pc # "monitor" => v.pc = "idle"
                     /\ v.pc # "idle" => v.pos \notin wk'.todo
                     /\ v.pc \in {"mark", "books"} => v.ok
                     /\ v.pc = "sell" => v.pos \in DOMAIN ledger /\ (Single(v.pos) => v.ok)
  <1>5. ASSUME Loop, \A i \in DOMAIN ledger : Single(i) => Unsold(i)' \/ Once(i)'
        PROVE  OneSale'
    <2>1. v.pc = "sell" /\ ledger'[v.pos].side # "YES+NO" => v.ok
      BY <1>2, <1>5 DEF Single
    <2>2. ASSUME NEW i \in DOMAIN ledger', i \notin DOMAIN ledger
          PROVE  Unsold(i)'
      <3>1. sold' = Append(sold, NoSales) /\ i = Len(sold) + 1
        <4>1. Len(sold') # Len(sold)
          BY <1>1, <2>2
        <4>2. sold' = Append(sold, NoSales)
          BY <4>1, SaleSteps, SellEffect
        <4> QED
          BY <1>1, <2>2, <4>2
      <3>2. sold'[i] = NoSales
        BY <1>1, <3>1
      <3> QED
        BY <3>2 DEF NoSales, Unsold
    <2>3. \A i \in DOMAIN ledger : Single(i)' => Unsold(i)' \/ Once(i)'
      BY <1>2, <1>5 DEF Single
    <2> QED
      BY <1>5, <2>1, <2>2, <2>3 DEF OneSale, Single
  <1>6. ASSUME NEW i \in DOMAIN ledger, sold'[i] = sold[i]
        PROVE  /\ Unsold(i) => Unsold(i)'
               /\ SoldWithin(i) => SoldWithin(i)'
    BY <1>2, <1>6 DEF Unsold, SoldWithin
  <1>7. sold' = sold \/ sold' = Append(sold, NoSales) => \A i \in DOMAIN ledger : sold'[i] = sold[i]
    BY <1>1
  <1>8. ASSUME NEW i \in DOMAIN ledger, Once(i), sold'[i] = sold[i], i \notin wk'.todo,
               ~Sells(v, i), Done(w, i) => v = w \/ ledger'[i].status \notin ACTIVE_STATUSES
        PROVE  Once(i)'
    BY <1>2, <1>6, <1>8
  <1>9. CASE /\ v = w /\ wk'.todo \subseteq wk.todo
             /\ sold' = sold \/ sold' = Append(sold, NoSales)
             /\ wk.pc = "monitor" => wk'.pc = "monitor" \/ w.pc = "idle"
    <2>1. Loop
      BY <1>1, <1>4, <1>9
    <2>2. ASSUME NEW i \in DOMAIN ledger, Single(i)
          PROVE  Unsold(i)' \/ Once(i)'
      BY <1>3, <1>6, <1>7, <1>8, <1>9, <2>2
    <2> QED
      BY <1>5, <2>1, <2>2
  <1>10. CASE /\ v = w /\ wk.pc = "scanned" /\ wk'.todo = ActiveRecords
              /\ ledger' = ledger /\ sold' = sold
    <2>1. w.pc = "idle" /\ Loop
      BY <1>4, <1>10
    <2>2. ASSUME NEW i \in DOMAIN ledger, Single(i)
          PROVE  Unsold(i)' \/ Once(i)'
      <3>1. Once(i) => i \notin wk'.todo
        BY <1>10, <2>1 DEF ActiveRecords
      <3> QED
        BY <1>3, <1>6, <1>8, <1>10, <2>2, <3>1
    <2> QED
      BY <1>5, <2>1, <2>2
  <1>11. ASSUME NEW r \in wk.todo, w.pc = "idle", wk'.pc = "monitor", wk'.todo = wk.todo \ {r},
                sold' = sold, v.pc \in {"mark", "books"}, v.ok, v.pos = r
         PROVE  OneSale'
    <2>1. Loop
      BY <1>11
    <2>2. ASSUME NEW i \in DOMAIN ledger, Single(i)
          PROVE  Unsold(i)' \/ Once(i)'
      <3>1. Once(i) => ~Sells(v, i) /\ ~Done(w, i) /\ i \notin wk'.todo
        BY <1>11
      <3> QED
        BY <1>3, <1>6, <1>8, <1>11, <2>2, <3>1
    <2> QED
      BY <1>5, <2>1, <2>2
  <1>12. CASE /\ wk' = wk /\ sold' = sold /\ w.pc \in {"mark", "books"}
              /\ v.pc = "idle" \/ (v.pc \in {"books", "sell"} /\ v.pos = w.pos /\ (w.ok => v.ok))
    <2>1. Loop
      BY <1>1, <1>4, <1>12
    <2>2. ASSUME NEW i \in DOMAIN ledger, Single(i)
          PROVE  Unsold(i)' \/ Once(i)'
      <3>1. Once(i) => ~Sells(v, i) /\ ~Done(w, i) /\ i \notin wk'.todo
        BY <1>12
      <3> QED
        BY <1>3, <1>6, <1>8, <1>12, <2>2, <3>1
    <2> QED
      BY <1>5, <2>1, <2>2
  <1>13. CASE SellLeg("worker")
    <2>1. /\ w.pc = "sell" /\ w.pos \in DOMAIN ledger /\ v.pos = w.pos /\ v.pc \in {"sell", "finish"}
          /\ ledger' = ledger /\ wk' = wk
          /\ \A j \in DOMAIN ledger : j # w.pos => sold'[j] = sold[j]
      BY <1>13, SoleSale DEF SellLeg
    <2>2. Single(w.pos) =>
             \/ sold'[w.pos].halves = sold[w.pos].halves /\ (v.pc = "sell" => v.ok)
             \/ /\ sold'[w.pos].halves = [sold[w.pos].halves EXCEPT !["YES"] = Plus(@, 2)]
                /\ v.pc = "finish" /\ v.ok
      BY <1>13, SoleSale
    <2>3. Loop
      BY <1>4, <2>1, <2>2
    <2>4. ASSUME NEW i \in DOMAIN ledger, Single(i), i # w.pos
          PROVE  Unsold(i)' \/ Once(i)'
      <3>1. Once(i) => ~Sells(v, i) /\ ~Done(w, i) /\ i \notin wk'.todo
        BY <2>1, <2>4
      <3> QED
        BY <1>3, <1>6, <1>8, <2>1, <2>4, <3>1
    <2>5. ASSUME Single(w.pos)
          PROVE  Unsold(w.pos)' \/ Once(w.pos)'
      <3>1. Unsold(w.pos) /\ w.pos \notin wk.todo
        BY <1>3, <1>4, <2>1, <2>5
      <3>2. CASE sold'[w.pos].halves = sold[w.pos].halves
        BY <2>1, <3>1, <3>2 DEF Unsold
      <3>3. CASE /\ sold'[w.pos].halves = [sold[w.pos].halves EXCEPT !["YES"] = Plus(@, 2)]
                 /\ v.pc = "finish" /\ v.ok
        <4>1. sold[w.pos].halves \in [Legs -> Nat] /\ \A leg \in Legs : sold[w.pos].halves[leg] = 0
          <5>1. sold[w.pos] \in SaleStates
            BY <1>1, <2>1
          <5> QED
            BY <3>1, <5>1 DEF Unsold, SaleStates
        <4>2. \A leg \in Legs : sold'[w.pos].halves[leg] = IF leg = "YES" THEN 2 ELSE 0
          BY <3>3, <4>1 DEF Legs, Plus
        <4>3. BoughtLegs(ledger'[w.pos].side) = {"YES"}
          BY <2>1, <2>5 DEF Single, BoughtLegs
        <4>4. SoldWithin(w.pos)'
          BY <2>1, <4>2, <4>3 DEF SoldWithin
        <4> QED
          BY <2>1, <3>1, <3>3, <4>4
      <3> QED
        BY <2>2, <2>5, <3>2, <3>3
    <2>6. \A i \in DOMAIN ledger : Single(i) => Unsold(i)' \/ Once(i)'
      BY <2>1, <2>4, <2>5
    <2> QED
      BY <1>5, <2>3, <2>6
  <1>14. CASE CloseFinish("worker")
    <2>1. /\ w.pc = "finish" /\ v.pc = "idle" /\ wk' = wk /\ sold' = sold
      BY <1>1, <1>14 DEF CloseFinish, IdleCloser
    <2>2. Loop
      BY <2>1
    <2>3. ASSUME NEW i \in DOMAIN ledger, Single(i)
          PROVE  Unsold(i)' \/ Once(i)'
      <3>1. Once(i) => ~Sells(v, i) /\ i \notin wk'.todo
        BY <2>1
      <3>2. Done(w, i) => ledger'[i].status \notin ACTIVE_STATUSES
        BY <1>14, SoleFinish
      <3> QED
        BY <1>3, <1>6, <1>8, <2>1, <2>3, <3>1, <3>2
    <2> QED
      BY <1>5, <2>2, <2>3
  <1> QED
    BY <1>9, <1>10, <1>11, <1>12, <1>13, <1>14, SoleSteps DEF SoleStep

-----------------------------------------------------------------------------
(* Refinement: the ledger implements PolyLifecycle.                        *)

\* The abstract state.
StatusOf(L) == [i \in DOMAIN L |-> L[i].status]

LEMMA StatusOfAppend ==
    ASSUME NEW L \in Seq(Records), NEW r \in Records
    PROVE  StatusOf(Append(L, r)) = Append(StatusOf(L), r.status)
  <1> DEFINE M == Append(L, r)
  <1>1. /\ Len(L) \in Nat /\ DOMAIN L = 1..Len(L) /\ DOMAIN M = 1..(Len(L) + 1)
        /\ \A i \in DOMAIN L : M[i] = L[i]
        /\ M[Len(L) + 1] = r
    OBVIOUS
  <1> HIDE DEF M
  <1>2. \A i \in DOMAIN L : L[i] \in Records
    OBVIOUS
  <1>3. \A i \in DOMAIN L : L[i].status \in Statuses
    BY <1>2 DEF Records
  <1>4. r.status \in Statuses
    BY DEF Records
  <1> DEFINE A == StatusOf(L)
  <1>5. A \in [1..Len(L) -> Statuses]
    BY <1>1, <1>3 DEF StatusOf
  <1>6. \A i \in 1..Len(L) : A[i] = L[i].status
    BY <1>1 DEF StatusOf
  <1> HIDE DEF A
  <1>7. A \in Seq(Statuses) /\ Len(A) = Len(L)
    BY <1>1, <1>5
  <1> DEFINE B == Append(A, r.status)
  <1>8. /\ DOMAIN B = 1..(Len(L) + 1) /\ B[Len(L) + 1] = r.status
        /\ \A i \in 1..Len(L) : B[i] = A[i]
        /\ B \in Seq(Statuses)
    BY <1>1, <1>4, <1>7
  <1>9. B = [i \in DOMAIN B |-> B[i]]
    BY <1>8
  <1> HIDE DEF B
  <1>10. \A i \in DOMAIN M : M[i].status = B[i]
    BY <1>1, <1>6, <1>8
  <1>11. StatusOf(M) = B
    BY <1>1, <1>8, <1>9, <1>10 DEF StatusOf
  <1> QED
    BY <1>11 DEF M, B, A

\* The instance brings its own copy of Cardinality.
LEMMA SameCardinality == \A S : Lifecycle!Cardinality(S) = Cardinality(S)
  BY Zenon DEF Lifecycle!Cardinality, Cardinality

LEMMA LifecycleInit == Init => Lifecycle!Init
  BY DEF Init, Lifecycle!Init

\* What the executor writes is a record that is "open" or "unhedged".
LEMMA RecordIsNew ==
    ASSUME TypeOK, Shape, RecordPosition
    PROVE  \E r \in Records : ledger' = Append(ledger, r) /\ r.status \in {"open", "unhedged"}
  <1>1. /\ wk \in WorkerStates /\ wk.market \in Markets /\ wk.side \in Sides
        /\ 0 \in 0..MaxDay /\ day \in 1..MaxDay
    BY Bounds DEF RecordPosition, TypeOK, Shape, WorkerStates
  <1>2. \A side \in Sides, st \in {"open", "unhedged"} :
            /\ new_position(wk.market, side, st) \in Records
            /\ new_position(wk.market, side, st).status = st
    BY <1>1 DEF Records, new_position, Statuses
  <1>3. /\ "YES" \in Sides
        /\ \/ ledger' = Append(ledger, new_position(wk.market, wk.side, "open"))
           \/ ledger' = Append(ledger, new_position(wk.market, "YES", "unhedged"))
    BY DEF RecordPosition, Sides
  <1> QED
    BY <1>1, <1>2, <1>3

\* A step of the implementation is a step of the abstract specification or a stutter.
LEMMA LifecycleStep ==
    ASSUME TypeOK, Shape, SlotReserved, [Next]_vars
    PROVE  Lifecycle!Next \/ StatusOf(ledger') = StatusOf(ledger)
  <1>1. ledger \in Seq(Records) /\ \A i \in DOMAIN ledger : ledger[i] \in Records
    BY DEF TypeOK
  <1>2. CASE ledger' = ledger
    BY <1>2
  <1>3. ASSUME NEW i \in DOMAIN ledger, AdvancesAt(ledger', i)
        PROVE  Lifecycle!Next \/ StatusOf(ledger') = StatusOf(ledger)
    <2>1. /\ DOMAIN ledger' = DOMAIN ledger
          /\ \A j \in DOMAIN ledger : j # i => ledger'[j] = ledger[j]
          /\ ledger'[i].status \in {ledger[i].status} \cup VALID_TRANSITIONS[ledger[i].status]
      BY <1>1, <1>3 DEF AdvancesAt
    <2>2. StatusOf(ledger') = [StatusOf(ledger) EXCEPT ![i] = ledger'[i].status]
      BY <2>1 DEF StatusOf
    <2>3. CASE ledger'[i].status = ledger[i].status
      BY <2>1, <2>3 DEF StatusOf
    <2>4. CASE ledger'[i].status \in VALID_TRANSITIONS[ledger[i].status]
      <3>1. /\ i \in DOMAIN StatusOf(ledger) /\ StatusOf(ledger)[i] = ledger[i].status
        BY DEF StatusOf
      <3>2. Lifecycle!Move
        BY <2>2, <2>4, <3>1 DEF Lifecycle!Move, StatusOf, Lifecycle!VALID_TRANSITIONS, VALID_TRANSITIONS
      <3> QED
        BY <3>2 DEF Lifecycle!Next
    <2> QED
      BY <2>1, <2>3, <2>4
  <1>4. CASE RecordPosition
    <2>1. PICK r \in Records : /\ ledger' = Append(ledger, r)
                               /\ r.status \in {"open", "unhedged"}
      BY <1>4, RecordIsNew
    <2>2. StatusOf(ledger') = Append(StatusOf(ledger), r.status)
      BY <1>1, <2>1, StatusOfAppend
    <2>3. Lifecycle!ActiveRecords = ActiveRecords
      BY DEF Lifecycle!ActiveRecords, ActiveRecords, Lifecycle!ACTIVE_STATUSES, ACTIVE_STATUSES
    <2>4. Lifecycle!Cardinality(Lifecycle!ActiveRecords) < MaxPositions
      BY <1>4, <2>3, SameCardinality DEF RecordPosition, SlotReserved, open_count
    <2>5. Lifecycle!Add
      BY <2>1, <2>2, <2>4 DEF Lifecycle!Add, StatusOf
    <2> QED
      BY <2>5 DEF Lifecycle!Next
  <1> QED
    BY <1>2, <1>3, <1>4, LedgerStep

-----------------------------------------------------------------------------
(* The theorems.                                                           *)

LEMMA Inductive == Spec => []IInv
  <1>1. Init => IInv
    <2> SUFFICES ASSUME Init
                 PROVE  /\ PositionLimit /\ SlotReserved /\ MarkedBeforeSell /\ Marked
                        /\ Acknowledged /\ ClosedOnlyAfterAck
      BY TypedInit DEF IInv
    <2>1. /\ ledger = << >> /\ wk.seen = << >> /\ wk.pc = "loop"
          /\ \A c \in Closers : cl[c].pc = "idle"
      BY DEF Init, IdleWorker, IdleCloser
    <2>2. ActiveRecords = {}
      BY <2>1 DEF ActiveRecords
    <2>3. open_count = 0
      BY <2>2, FS_EmptySet DEF open_count
    <2>4. PositionLimit /\ SlotReserved
      BY <2>1, <2>3, Bounds DEF PositionLimit, open_count, SlotReserved
    <2>5. MarkedBeforeSell /\ Marked
      BY <2>1 DEF MarkedBeforeSell, Marked, Armed
    <2>6. Acknowledged /\ ClosedOnlyAfterAck
      BY <2>1 DEF Acknowledged, ClosedOnlyAfterAck
    <2> QED
      BY <2>4, <2>5, <2>6
  <1>2. IInv /\ [Next]_vars => IInv'
    BY TypedStep, LimitStep, MarksStep, AcknowledgedStep, ClosedStep DEF IInv
  <1> QED
    BY <1>1, <1>2, PTL DEF Spec

\* Every variable stays in its domain.
THEOREM TypeCorrect == Spec => []TypeOK
  BY Inductive, PTL DEF IInv

\* At most max_positions records are active, whatever the closers, the faults and
\* the restarts do while an execution is on its way to the ledger (risk.py check 6).
THEOREM LimitHolds == Spec => []PositionLimit
  BY Inductive, PTL DEF IInv

\* No SELL is sent for a record that is still "open" or "unhedged", by the worker or by
\* any number of dashboard threads, through retries from stale snapshots and crashes
\* (monitor.py, close_position).
THEOREM MarkHolds == Spec => []MarkedBeforeSell
  BY Inductive, PTL DEF IInv

\* A record reads "closed" only once a SELL of every leg it was bought with has been
\* acknowledged, by any number of closers and over any number of retries (monitor.py,
\* close_position).
THEOREM ClosedAcknowledged == Spec => []ClosedOnlyAfterAck
  BY Inductive, PTL DEF IInv

\* If no answer is lost, no process dies and the ledger can be written, every BUY that the
\* exchange accepted is on the ledger or about to be, whatever legs fail (executor.py).
THEOREM BuysRecorded == ASSUME Reliable PROVE Spec => []EveryBuyRecorded
  <1>1. Init => Bought /\ EveryBuyRecorded
    <2> SUFFICES ASSUME Init PROVE Bought /\ EveryBuyRecorded
      OBVIOUS
    <2>1. /\ wk.pc = "loop" /\ wk.got = {} /\ ledger = << >>
          /\ \A m \in Markets, leg \in Legs : bought[m][leg] = 0
      BY DEF Init, IdleWorker
    <2>2. \A m, leg : {i \in DOMAIN ledger : ledger[i].market = m
                                            /\ leg \in BoughtLegs(ledger[i].side)} = {}
      BY <2>1
    <2> QED
      BY <2>1, <2>2, FS_EmptySet DEF Bought, EveryBuyRecorded, AccountedBuys
  <1>2. IInv /\ Bought /\ EveryBuyRecorded /\ [Next]_vars => (Bought /\ EveryBuyRecorded)'
    BY BuysStep DEF IInv
  <1> QED
    BY Inductive, <1>1, <1>2, PTL DEF Spec

\* If, besides, nobody closes from the dashboard, a record that is not a pair is never sold beyond
\* what it bought, over any number of cycles and of orders dropped or refused (monitor.py).
THEOREM SinglesSoldOnce == ASSUME Reliable, WebThreads = {} PROVE Spec => []SingleNeverOversold
  <1>1. Init => OneSale
    BY DEF Init, OneSale, IdleWorker, IdleCloser, Closers
  <1>2. IInv /\ OneSale /\ [Next]_vars => OneSale'
    BY OneSaleStep DEF IInv
  <1>3. IInv /\ OneSale => SingleNeverOversold
    <2> SUFFICES ASSUME IInv, OneSale, NEW i \in DOMAIN ledger, Single(i)
                 PROVE  SoldWithin(i)
      BY DEF SingleNeverOversold, Single
    <2>1. Unsold(i) => SoldWithin(i)
      BY DEF Unsold, SoldWithin
    <2> QED
      BY <2>1 DEF OneSale
  <1> QED
    BY Inductive, <1>1, <1>2, <1>3, PTL DEF Spec

\* The ledger file, read by anyone at any time, behaves as PolyLifecycle says: it
\* only grows, statuses follow VALID_TRANSITIONS, and the limit holds (positions.py).
THEOREM ImplementsLifecycle == Spec => LifecycleSpec
  <1>1. Init => Lifecycle!Init
    BY LifecycleInit
  <1>2. IInv /\ [Next]_vars => [Lifecycle!Next]_(StatusOf(ledger))
    BY LifecycleStep DEF IInv
  <1> QED
    BY Inductive, <1>1, <1>2, PTL DEF Spec, LifecycleSpec, Lifecycle!Spec, StatusOf

-----------------------------------------------------------------------------
(* The ledger as a table.                                                  *)

\* What PolyPositions takes the ledger for: the table of PolyLedger, at all times.
LedgerTable == INSTANCE PolyLedger WITH Ids <- Nat \ {0}, recs <- StatusOf(ledger)

LedgerTableSpec == LedgerTable!Spec

\* Whatever the closers, the faults and the restarts do, a step changes at most one record, and
\* as a call of the ledger may: this is the table that the file is until two calls overlap
\* (FileIsTable, below).
THEOREM LedgerIsTable == Spec => LedgerTableSpec
  <1>1. Init => LedgerTable!Init
    BY DEF Init, LedgerTable!Init, LedgerTable!NoRecords, StatusOf
  <1>2. IInv /\ [Next]_vars => [LedgerTable!Next]_(StatusOf(ledger))
    <2> SUFFICES ASSUME IInv, [Next]_vars PROVE [LedgerTable!Next]_(StatusOf(ledger))
      OBVIOUS
    <2>1. TypeOK /\ Shape
      BY DEF IInv
    <2>2. CASE ledger' = ledger
      BY <2>2 DEF StatusOf
    <2>3. ASSUME NEW i \in DOMAIN ledger, AdvancesAt(ledger', i)
          PROVE  LedgerTable!Next \/ StatusOf(ledger') = StatusOf(ledger)
      <3> DEFINE before == ledger
                 after == ledger'
      <3>1. /\ before \in Seq(Records) /\ after \in Seq(Records) /\ Len(after) = Len(before)
            /\ i \in DOMAIN before
            /\ \A j \in DOMAIN before : j # i => after[j] = before[j]
            /\ after[i].status \in {before[i].status} \cup VALID_TRANSITIONS[before[i].status]
        BY <2>1, <2>3 DEF AdvancesAt, TypeOK
      <3> HIDE DEF before, after
      <3>2. /\ DOMAIN after = DOMAIN before /\ i \in Nat \ {0}
            /\ before[i] \in Records /\ after[i] \in Records
        BY <3>1
      <3>3. /\ DOMAIN ledger' = DOMAIN ledger
            /\ \A j \in DOMAIN ledger : j # i => ledger'[j] = ledger[j]
            /\ ledger'[i].status \in {ledger[i].status} \cup VALID_TRANSITIONS[ledger[i].status]
            /\ ledger[i].status \in Statuses /\ ledger'[i].status \in Statuses
            /\ i \in Nat \ {0}
        BY <3>1, <3>2 DEF Records, before, after
      <3>4. StatusOf(ledger') = [StatusOf(ledger) EXCEPT ![i] = ledger'[i].status]
        BY <3>3 DEF StatusOf
      <3>5. CASE ledger'[i].status = ledger[i].status
        BY <3>3, <3>5 DEF StatusOf
      <3>6. CASE ledger'[i].status \in VALID_TRANSITIONS[ledger[i].status]
        <4>1. i \in DOMAIN StatusOf(ledger) /\ StatusOf(ledger)[i] = ledger[i].status
          BY DEF StatusOf
        <4>2. LedgerTable!Move(i, ledger'[i].status)
          BY <3>4, <3>6, <4>1
             DEF LedgerTable!Move, LedgerTable!VALID_TRANSITIONS, VALID_TRANSITIONS, StatusOf
        <4> QED
          BY <3>3, <4>2 DEF LedgerTable!Next, LedgerTable!Statuses, Statuses
      <3> QED
        BY <3>3, <3>5, <3>6
    <2>4. CASE RecordPosition
      <3>1. PICK r \in Records : /\ ledger' = Append(ledger, r)
                                 /\ r.status \in {"open", "unhedged"}
        BY <2>1, <2>4, RecordIsNew
      <3> DEFINE id == Len(ledger) + 1
      <3>2. /\ DOMAIN ledger = 1..Len(ledger) /\ id \in Nat \ {0} /\ id \notin DOMAIN ledger
            /\ DOMAIN ledger' = DOMAIN ledger \cup {id}
            /\ \A j \in DOMAIN ledger : ledger'[j] = ledger[j]
            /\ ledger'[id] = r
        BY <2>1, <3>1 DEF TypeOK
      <3>3. \A j \in DOMAIN ledger' : ledger'[j].status = IF j = id THEN r.status
                                                          ELSE StatusOf(ledger)[j]
        BY <3>2 DEF StatusOf
      <3>4. StatusOf(ledger') = [j \in DOMAIN StatusOf(ledger) \cup {id} |->
                                    IF j = id THEN r.status ELSE StatusOf(ledger)[j]]
        BY <3>2, <3>3 DEF StatusOf
      <3>5. LedgerTable!Add(id, r.status)
        BY <3>1, <3>2, <3>4 DEF LedgerTable!Add, StatusOf
      <3> QED
        BY <3>1, <3>2, <3>5 DEF LedgerTable!Next, LedgerTable!Statuses
    <2> QED
      BY <2>1, <2>2, <2>3, <2>4, LedgerStep
  <1> QED
    BY Inductive, <1>1, <1>2, PTL DEF Spec, LedgerTableSpec, LedgerTable!Spec, StatusOf

-----------------------------------------------------------------------------
(* The ledger as a file.                                                   *)

Busy(p) == pr[p].pc # "idle"

FileShape ==
    /\ path \in Inodes \cup {NoInode} /\ tmp \in Inodes \cup {NoInode}
    /\ disk = [n \in Inodes |-> disk[n]] /\ pr = [p \in Procs |-> pr[p]]
    /\ \A p \in Procs : /\ pr[p].pc \in {"idle", "open", "dump", "replace"}
                        /\ pr[p] = [pc |-> pr[p].pc, raw |-> pr[p].raw,
                                    new |-> pr[p].new, file |-> pr[p].file]

\* At most one process is in a call.  The file <path> is whole and not the one that is written;
\* who writes has <path>.tmp open, and who renames has written all of it.
SoleWriter ==
    /\ \A p, q \in Procs : Busy(p) /\ Busy(q) => p = q
    /\ path # NoInode => path # tmp /\ disk[path].ok
    /\ \A p \in Procs :
          /\ pr[p].pc = "dump" => tmp # NoInode /\ pr[p].file = tmp /\ ~disk[tmp].ok
          /\ pr[p].pc # "dump" => pr[p].file = NoInode
          /\ pr[p].pc = "replace" => tmp # NoInode /\ disk[tmp] = Content(pr[p].raw)

FileInv == FileShape /\ (~overlapped => SoleWriter)

\* What a call makes of the table it has read: nothing, a record more, or a record moved.
OneChange(c) ==
    \/ c.raw = _load_raw /\ c.new = {}
    \/ \E id \in Ids, s \in Statuses :
          CanMove(_load_raw, id, s) /\ c.raw = [_load_raw EXCEPT ![id] = s] /\ c.new = {}
    \/ \E id \in Ids, s \in {"open", "unhedged"} :
          id \notin DOMAIN _load_raw /\ c.raw = Added(_load_raw, id, s) /\ c.new = {id}

\* The file has what was added, and a call that is under way is one change of it.
FileFaithful ==
    ~overlapped => /\ added \subseteq DOMAIN _load_raw
                   /\ \A p \in Procs : Busy(p) => OneChange(pr[p])

\* A call begins: nobody else is in one, or calls have overlapped.
LEMMA CallBegins ==
    ASSUME FileInv, NEW p \in Procs, NEW raw, NEW new, pr' = [pr EXCEPT ![p] = Saving(raw, new)],
           Overlaps(p), UNCHANGED <<path, tmp, disk>>
    PROVE  /\ FileInv'
           /\ ~overlapped' => ~overlapped /\ \A q \in Procs \ {p} : ~Busy(q) /\ pr'[q] = pr[q]
           /\ pr'[p] = Saving(raw, new)
  <1>1. /\ FileShape /\ FileShape' /\ pr'[p] = Saving(raw, new)
        /\ \A q \in Procs \ {p} : pr'[q] = pr[q]
    BY DEF FileInv, FileShape, Saving
  <1>2. ~overlapped' => ~overlapped /\ \A q \in Procs \ {p} : ~Busy(q)
    BY DEF Overlaps, Busy
  <1>3. ~overlapped' => SoleWriter'
    <2> SUFFICES ASSUME ~overlapped' PROVE SoleWriter'
      OBVIOUS
    <2>1. SoleWriter /\ \A q \in Procs \ {p} : ~Busy(q) /\ pr'[q] = pr[q]
      BY <1>1, <1>2 DEF FileInv
    <2>2. pr'[p].pc = "open" /\ pr'[p].file = NoInode
      BY <1>1 DEF Saving
    <2> QED
      BY <2>1, <2>2 DEF SoleWriter, Busy
  <1> QED
    BY <1>1, <1>2, <1>3 DEF FileInv

\* The one that is in a call, if calls have not overlapped.
LEMMA OthersIdle ==
    ASSUME FileInv, NEW p \in Procs, Busy(p), ~overlapped
    PROVE  SoleWriter /\ \A q \in Procs \ {p} : ~Busy(q) /\ pr[q].file = NoInode
  BY DEF FileInv, SoleWriter, Busy

LEMMA OpenStep ==
    ASSUME FileInv, NEW p \in Procs, SaveOpen(p)
    PROVE  /\ FileInv' /\ UNCHANGED <<overlapped, added>>
           /\ \A q \in Procs : Busy(q)' <=> Busy(q)
           /\ \A q \in Procs : pr'[q].raw = pr[q].raw /\ pr'[q].new = pr[q].new
           /\ ~overlapped => _load_raw' = _load_raw
  <1>1. PICK n \in Inodes :
           /\ IF tmp = NoInode THEN n \notin InUse ELSE n = tmp
           /\ tmp' = n
           /\ disk' = [disk EXCEPT ![n] = Torn]
           /\ pr' = [pr EXCEPT ![p] = [@ EXCEPT !.pc = "dump", !.file = n]]
    BY DEF SaveOpen
  <1>2. FileShape /\ pr[p].pc = "open" /\ UNCHANGED <<path, overlapped, added>> /\ Busy(p)
    BY DEF SaveOpen, FileInv, Busy
  <1>3. /\ pr'[p] = [pc |-> "dump", raw |-> pr[p].raw, new |-> pr[p].new, file |-> n]
        /\ \A q \in Procs \ {p} : pr'[q] = pr[q]
    <2>1. /\ pr'[p] = [pr[p] EXCEPT !.pc = "dump", !.file = n]
          /\ \A q \in Procs \ {p} : pr'[q] = pr[q]
      BY <1>1, <1>2 DEF FileShape
    <2>2. pr[p] = [pc |-> pr[p].pc, raw |-> pr[p].raw, new |-> pr[p].new, file |-> pr[p].file]
      BY <1>2 DEF FileShape
    <2> QED
      BY <2>1, <2>2
  <1>4. FileShape'
    BY <1>1, <1>2, <1>3 DEF FileShape
  <1>5. \A q \in Procs : /\ Busy(q)' <=> Busy(q)
                         /\ pr'[q].raw = pr[q].raw /\ pr'[q].new = pr[q].new
    BY <1>2, <1>3 DEF Busy
  <1>6. ASSUME ~overlapped PROVE SoleWriter' /\ _load_raw' = _load_raw
    <2>1. SoleWriter /\ \A q \in Procs \ {p} : ~Busy(q)
      BY <1>2, <1>6, OthersIdle
    <2>2. n # NoInode /\ (path # NoInode => n # path)
      BY <1>1, <2>1, FileAssumption DEF SoleWriter, InUse
    <2>3. disk'[n] = Torn /\ \A m \in Inodes \ {n} : disk'[m] = disk[m]
      BY <1>1, <1>2 DEF FileShape
    <2>4. path # NoInode => path \in Inodes \ {n}
      BY <1>2, <2>2 DEF FileShape
    <2>5. _load_raw' = _load_raw
      BY <1>2, <2>3, <2>4 DEF _load_raw
    <2>6. path' # NoInode => path' # tmp' /\ disk'[path'].ok
      BY <1>1, <1>2, <2>1, <2>2, <2>3, <2>4 DEF SoleWriter
    <2>7. ~disk'[n].ok
      BY <2>3 DEF Torn
    <2> QED
      BY <1>1, <1>3, <1>5, <2>1, <2>2, <2>5, <2>6, <2>7 DEF SoleWriter, Busy
  <1> QED
    BY <1>2, <1>4, <1>5, <1>6 DEF FileInv

LEMMA DumpStep ==
    ASSUME FileInv, NEW p \in Procs, SaveDump(p)
    PROVE  /\ FileInv' /\ UNCHANGED <<overlapped, added>>
           /\ \A q \in Procs : Busy(q)' <=> Busy(q)
           /\ \A q \in Procs : pr'[q].raw = pr[q].raw /\ pr'[q].new = pr[q].new
           /\ ~overlapped => _load_raw' = _load_raw
  <1> DEFINE n == pr[p].file
  <1>1. PICK c : /\ c = Content(pr[p].raw) \/ disk[n].ok
                 /\ disk' = Kept([disk EXCEPT ![n] = c])
    BY DEF SaveDump
  <1>2. /\ FileShape /\ pr[p].pc = "dump" /\ UNCHANGED <<path, tmp, overlapped, added>> /\ Busy(p)
        /\ pr' = [pr EXCEPT ![p] = [@ EXCEPT !.pc = "replace", !.file = NoInode]]
    BY DEF SaveDump, FileInv, Busy
  <1>3. /\ pr'[p] = [pc |-> "replace", raw |-> pr[p].raw, new |-> pr[p].new, file |-> NoInode]
        /\ \A q \in Procs \ {p} : pr'[q] = pr[q]
    <2>1. /\ pr'[p] = [pr[p] EXCEPT !.pc = "replace", !.file = NoInode]
          /\ \A q \in Procs \ {p} : pr'[q] = pr[q]
      BY <1>2 DEF FileShape
    <2>2. pr[p] = [pc |-> pr[p].pc, raw |-> pr[p].raw, new |-> pr[p].new, file |-> pr[p].file]
      BY <1>2 DEF FileShape
    <2> QED
      BY <2>1, <2>2
  <1>4. FileShape'
    BY <1>1, <1>2, <1>3 DEF FileShape, Kept
  <1>5. \A q \in Procs : /\ Busy(q)' <=> Busy(q)
                         /\ pr'[q].raw = pr[q].raw /\ pr'[q].new = pr[q].new
    BY <1>2, <1>3 DEF Busy
  <1>6. ASSUME ~overlapped PROVE SoleWriter' /\ _load_raw' = _load_raw
    <2>1. SoleWriter /\ \A q \in Procs \ {p} : ~Busy(q)
      BY <1>2, <1>6, OthersIdle
    <2>2. n = tmp /\ tmp # NoInode /\ c = Content(pr[p].raw) /\ tmp \in Inodes
      BY <1>1, <1>2, <2>1 DEF SoleWriter, FileShape
    <2>3. path' \in InUse' /\ tmp' \in InUse'
      BY DEF InUse
    <2>4. disk'[tmp] = Content(pr[p].raw)
      BY <1>1, <1>2, <2>2, <2>3 DEF Kept, FileShape
    <2>5. path # NoInode => path # tmp /\ disk'[path] = disk[path]
      BY <1>1, <1>2, <2>1, <2>2, <2>3 DEF Kept, FileShape, SoleWriter
    <2>6. _load_raw' = _load_raw
      BY <1>2, <2>5 DEF _load_raw
    <2> QED
      BY <1>2, <1>3, <1>5, <2>1, <2>2, <2>4, <2>5, <2>6 DEF SoleWriter, Busy
  <1> QED
    BY <1>2, <1>4, <1>5, <1>6 DEF FileInv

\* Calls end with what is on the disk as it is.
LEMMA CallsEnd ==
    ASSUME FileInv, disk' = disk \/ disk' = Kept(disk), UNCHANGED <<path, tmp, overlapped, added>>,
           pr' = [q \in Procs |-> pr'[q]], \A q \in Procs : pr'[q] = Idle \/ pr'[q] = pr[q]
    PROVE  /\ FileInv' /\ _load_raw' = _load_raw /\ UNCHANGED <<overlapped, added>>
           /\ \A q \in Procs : Busy(q)' => pr'[q] = pr[q] /\ Busy(q)
  <1>1. /\ Idle.pc = "idle" /\ Idle.file = NoInode
        /\ Idle = [pc |-> Idle.pc, raw |-> Idle.raw, new |-> Idle.new, file |-> Idle.file]
    BY DEF Idle
  <1>2. FileShape'
    BY <1>1 DEF FileInv, FileShape, Kept
  <1>3. \A n \in Inodes : n \in {path, tmp} => disk'[n] = disk[n]
    <2>1. path \in InUse' /\ tmp \in InUse'
      BY DEF InUse
    <2> QED
      BY <2>1 DEF Kept
  <1>4. _load_raw' = _load_raw
    BY <1>3 DEF _load_raw, FileInv, FileShape
  <1>5. \A q \in Procs : Busy(q)' => pr'[q] = pr[q] /\ Busy(q)
    BY <1>1 DEF Busy
  <1>6. ASSUME SoleWriter PROVE SoleWriter'
    <2>1. \A n \in Inodes : n \in {path', tmp'} => disk'[n] = disk[n]
      BY <1>3
    <2>2. path # NoInode => path \in Inodes
      BY DEF FileInv, FileShape
    <2>3. tmp # NoInode => tmp \in Inodes
      BY DEF FileInv, FileShape
    <2>4. path' # NoInode => path' # tmp' /\ disk'[path'].ok
      BY <1>6, <2>1, <2>2 DEF SoleWriter
    <2>5. \A p, q \in Procs : Busy(p)' /\ Busy(q)' => p = q
      BY <1>5, <1>6 DEF SoleWriter
    <2>6. ASSUME NEW p \in Procs
          PROVE  /\ pr'[p].pc = "dump" => tmp' # NoInode /\ pr'[p].file = tmp' /\ ~disk'[tmp'].ok
                 /\ pr'[p].pc # "dump" => pr'[p].file = NoInode
                 /\ pr'[p].pc = "replace" => tmp' # NoInode /\ disk'[tmp'] = Content(pr'[p].raw)
      <3>1. CASE pr'[p] = Idle
        BY <1>1, <3>1
      <3>2. CASE pr'[p] = pr[p]
        BY <1>6, <2>1, <2>3, <3>2 DEF SoleWriter
      <3> QED
        BY <3>1, <3>2
    <2> QED
      BY <2>4, <2>5, <2>6 DEF SoleWriter
  <1> QED
    BY <1>2, <1>4, <1>5, <1>6 DEF FileInv

LEMMA ReplaceStep ==
    ASSUME FileInv, NEW p \in Procs, SaveReplace(p)
    PROVE  /\ FileInv' /\ UNCHANGED overlapped /\ Busy(p) /\ pr'[p] = Idle
           /\ added' = added \cup pr[p].new
           /\ \A q \in Procs \ {p} : pr'[q] = pr[q]
           /\ ~overlapped => _load_raw' = pr[p].raw
  <1>1. /\ FileShape /\ pr[p].pc = "replace" /\ Busy(p) /\ tmp # NoInode
        /\ path' = tmp /\ tmp' = NoInode /\ added' = added \cup pr[p].new
        /\ pr' = [pr EXCEPT ![p] = Idle] /\ overlapped' = overlapped /\ disk' = Kept(disk)
    BY DEF SaveReplace, FileInv, Busy
  <1>2. pr'[p] = Idle /\ \A q \in Procs \ {p} : pr'[q] = pr[q]
    BY <1>1 DEF FileShape
  <1>3. /\ Idle.pc = "idle" /\ Idle.file = NoInode
        /\ Idle = [pc |-> Idle.pc, raw |-> Idle.raw, new |-> Idle.new, file |-> Idle.file]
    BY DEF Idle
  <1>4. FileShape'
    BY <1>1, <1>2, <1>3 DEF FileShape, Kept
  <1>5. ASSUME ~overlapped PROVE SoleWriter' /\ _load_raw' = pr[p].raw
    <2>1. SoleWriter /\ \A q \in Procs \ {p} : ~Busy(q) /\ pr[q].file = NoInode
      BY <1>1, <1>5, OthersIdle
    <2>2. tmp \in Inodes /\ disk[tmp] = Content(pr[p].raw)
      BY <1>1, <2>1 DEF SoleWriter, FileShape
    <2>3. path' \in InUse'
      BY DEF InUse
    <2>4. disk'[path'] = Content(pr[p].raw)
      BY <1>1, <2>2, <2>3 DEF Kept
    <2>5. _load_raw' = pr[p].raw /\ disk'[path'].ok
      BY <1>1, <2>4 DEF _load_raw, Content
    <2> QED
      BY <1>1, <1>2, <1>3, <2>1, <2>5 DEF SoleWriter, Busy
  <1> QED
    BY <1>1, <1>2, <1>4, <1>5 DEF FileInv

\* A call reads the file, and is one change of what it read.
LEMMA CallStep ==
    ASSUME FileInv, Call
    PROVE  /\ FileInv' /\ _load_raw' = _load_raw /\ added' = added
           /\ ~overlapped' => ~overlapped
           /\ ~overlapped' => \A q \in Procs : Busy(q)' =>
                 pr'[q] = pr[q] \/ "read" \in FileFaults \/ OneChange(pr'[q])
  <1> DEFINE Begun == /\ FileInv' /\ _load_raw' = _load_raw /\ added' = added
                      /\ ~overlapped' => ~overlapped
                      /\ ~overlapped' => \A q \in Procs : Busy(q)' =>
                            pr'[q] = pr[q] \/ "read" \in FileFaults \/ OneChange(pr'[q])
  <1>1. \A raw \in Loads : raw = _load_raw \/ "read" \in FileFaults
    BY DEF Loads, FileFault
  <1>2. Worker \in Procs
    BY DEF Procs
  <1>3. ASSUME NEW p \in Procs, NEW raw, NEW new, pr' = [pr EXCEPT ![p] = Saving(raw, new)], Overlaps(p),
               UNCHANGED <<path, tmp, disk, added>>, "read" \in FileFaults \/ OneChange(Saving(raw, new))
        PROVE  Begun
    <2>1. /\ FileInv'
          /\ ~overlapped' => ~overlapped /\ \A q \in Procs \ {p} : ~Busy(q) /\ pr'[q] = pr[q]
          /\ pr'[p] = Saving(raw, new)
      BY <1>3, CallBegins
    <2>2. _load_raw' = _load_raw
      BY <1>3 DEF _load_raw
    <2> QED
      BY <1>3, <2>1, <2>2
  <1>4. ASSUME NEW id \in Ids, NEW s \in {"open", "unhedged"}, CallAdd(id, s) PROVE Begun
    <2>1. PICK raw \in Loads : pr' = [pr EXCEPT ![Worker] = Saving(Added(raw, id, s), {id})]
      BY <1>4 DEF CallAdd
    <2>2. raw = _load_raw => OneChange(Saving(Added(raw, id, s), {id}))
      BY <1>4 DEF CallAdd, Fresh, Saving, OneChange
    <2> QED
      BY <1>1, <1>2, <1>3, <1>4, <2>1, <2>2 DEF CallAdd
  <1>5. ASSUME NEW p \in Procs, NEW id \in Ids, NEW s \in Statuses, CallTransition(p, id, s) PROVE Begun
    <2>1. PICK raw \in Loads : /\ CanMove(raw, id, s)
                               /\ pr' = [pr EXCEPT ![p] = Saving([raw EXCEPT ![id] = s], {})]
      BY <1>5 DEF CallTransition
    <2>2. raw = _load_raw => OneChange(Saving([raw EXCEPT ![id] = s], {}))
      BY <2>1 DEF Saving, OneChange
    <2> QED
      BY <1>1, <1>3, <1>5, <2>1, <2>2 DEF CallTransition
  <1>6. ASSUME NEW id \in Ids, CallUpdateFields(id) PROVE Begun
    <2>1. PICK raw \in Loads : pr' = [pr EXCEPT ![Worker] = Saving(raw, {})]
      BY <1>6 DEF CallUpdateFields
    <2>2. raw = _load_raw => OneChange(Saving(raw, {}))
      BY DEF Saving, OneChange
    <2> QED
      BY <1>1, <1>2, <1>3, <1>6, <2>1, <2>2 DEF CallUpdateFields
  <1>7. ASSUME NEW p \in Procs, NEW id \in Ids, NEW s \in Statuses, CallRejected(p, id, s) PROVE Begun
    <2>1. UNCHANGED <<path, tmp, disk, pr, added, overlapped>>
      BY <1>7 DEF CallRejected
    <2> QED
      BY <2>1 DEF FileInv, FileShape, SoleWriter, _load_raw, Busy
  <1> QED
    BY <1>4, <1>5, <1>6, <1>7 DEF Call

\* While calls do not overlap, the table stays and a call that goes on keeps its change of it,
\* or the only call renames its change over the table and is over.
LEMMA FileStep ==
    ASSUME FileInv, [NextFile]_vars_file
    PROVE  /\ FileInv'
           /\ ~overlapped' => ~overlapped
           /\ ~overlapped' =>
                \/ /\ _load_raw' = _load_raw /\ added' = added
                   /\ \A q \in Procs : Busy(q)' =>
                        \/ Busy(q) /\ pr'[q].raw = pr[q].raw /\ pr'[q].new = pr[q].new
                        \/ "read" \in FileFaults \/ OneChange(pr'[q])
                \/ \E p \in Procs : /\ Busy(p) /\ _load_raw' = pr[p].raw
                                    /\ added' = added \cup pr[p].new
                                    /\ \A q \in Procs : ~Busy(q)'
  <1> DEFINE Same == /\ _load_raw' = _load_raw /\ added' = added
                     /\ \A q \in Procs : Busy(q)' =>
                          \/ Busy(q) /\ pr'[q].raw = pr[q].raw /\ pr'[q].new = pr[q].new
                          \/ "read" \in FileFaults \/ OneChange(pr'[q])
             Renamed == \E p \in Procs : /\ Busy(p) /\ _load_raw' = pr[p].raw
                                         /\ added' = added \cup pr[p].new
                                         /\ \A q \in Procs : ~Busy(q)'
             Goal == /\ FileInv'
                     /\ ~overlapped' => ~overlapped
                     /\ ~overlapped' => Same \/ Renamed
  <1>1. CASE Call
    BY <1>1, CallStep DEF Busy
  <1>2. ASSUME NEW p \in Procs, SaveOpen(p) PROVE Goal
    <2>1. /\ FileInv' /\ UNCHANGED <<overlapped, added>> /\ (~overlapped => _load_raw' = _load_raw)
          /\ \A q \in Procs : /\ Busy(q)' <=> Busy(q)
                              /\ pr'[q].raw = pr[q].raw /\ pr'[q].new = pr[q].new
      BY <1>2, OpenStep
    <2> QED
      BY <2>1
  <1>3. ASSUME NEW p \in Procs, SaveDump(p) PROVE Goal
    <2>1. /\ FileInv' /\ UNCHANGED <<overlapped, added>> /\ (~overlapped => _load_raw' = _load_raw)
          /\ \A q \in Procs : /\ Busy(q)' <=> Busy(q)
                              /\ pr'[q].raw = pr[q].raw /\ pr'[q].new = pr[q].new
      BY <1>3, DumpStep
    <2> QED
      BY <2>1
  <1>4. ASSUME NEW p \in Procs, SaveReplace(p) PROVE Goal
    <2>1. /\ FileInv' /\ UNCHANGED overlapped /\ Busy(p) /\ pr'[p] = Idle
          /\ added' = added \cup pr[p].new
          /\ \A q \in Procs \ {p} : pr'[q] = pr[q]
          /\ ~overlapped => _load_raw' = pr[p].raw
      BY <1>4, ReplaceStep
    <2>2. ASSUME ~overlapped PROVE \A q \in Procs : ~Busy(q)'
      <3>1. \A q \in Procs \ {p} : ~Busy(q)
        BY <2>1, <2>2, OthersIdle
      <3> QED
        BY <2>1, <3>1 DEF Busy, Idle
    <2> QED
      BY <2>1, <2>2
  <1>5. ASSUME disk' = disk \/ disk' = Kept(disk), UNCHANGED <<path, tmp, overlapped, added>>,
               pr' = [q \in Procs |-> pr'[q]], \A q \in Procs : pr'[q] = Idle \/ pr'[q] = pr[q]
        PROVE  Goal
    BY <1>5, CallsEnd
  <1>6. pr = [q \in Procs |-> pr[q]]
    BY DEF FileInv, FileShape
  <1>7. ASSUME NEW p \in Procs, SaveNotFound(p) \/ SaveFails(p) PROVE Goal
    <2>1. /\ disk' = disk \/ disk' = Kept(disk)
          /\ UNCHANGED <<path, tmp, overlapped, added>> /\ pr' = [pr EXCEPT ![p] = Idle]
      BY <1>7 DEF SaveNotFound, SaveFails
    <2>2. pr' = [q \in Procs |-> pr'[q]] /\ \A q \in Procs : pr'[q] = Idle \/ pr'[q] = pr[q]
      BY <1>6, <2>1
    <2> QED
      BY <1>5, <2>1, <2>2
  <1>8. ASSUME NEW S, Crash(S) PROVE Goal
    <2>1. /\ disk' = Kept(disk) /\ UNCHANGED <<path, tmp, overlapped, added>>
          /\ pr' = [q \in Procs |-> IF q \in S THEN Idle ELSE pr[q]]
      BY <1>8 DEF Crash
    <2>2. pr' = [q \in Procs |-> pr'[q]] /\ \A q \in Procs : pr'[q] = Idle \/ pr'[q] = pr[q]
      BY <2>1
    <2> QED
      BY <1>5, <2>1, <2>2
  <1>9. CASE UNCHANGED vars_file
    <2>1. UNCHANGED <<path, tmp, disk, pr, added, overlapped>>
      BY <1>9 DEF vars_file
    <2> QED
      BY <1>5, <1>6, <2>1
  <1> QED
    BY <1>1, <1>2, <1>3, <1>4, <1>7, <1>8, <1>9 DEF NextFile, Save

LEMMA FaithfulStep ==
    ASSUME "read" \notin FileFaults, FileInv, FileFaithful, [NextFile]_vars_file
    PROVE  FileFaithful' /\ [overlapped' \/ Table!Next]_(_load_raw)
  <1> SUFFICES ASSUME ~overlapped'
               PROVE  /\ added' \subseteq DOMAIN _load_raw' /\ \A q \in Procs : Busy(q)' => OneChange(pr[q])'
                      /\ Table!Next \/ _load_raw' = _load_raw
    BY DEF FileFaithful
  <1>1. /\ added \subseteq DOMAIN _load_raw
        /\ \A p \in Procs : Busy(p) => OneChange(pr[p])
    BY FileStep DEF FileFaithful
  <1>2. CASE /\ _load_raw' = _load_raw /\ added' = added
             /\ \A q \in Procs : Busy(q)' =>
                  \/ Busy(q) /\ pr'[q].raw = pr[q].raw /\ pr'[q].new = pr[q].new
                  \/ OneChange(pr'[q])
    <2>1. ASSUME NEW q \in Procs, Busy(q)' PROVE OneChange(pr[q])'
      <3>1. CASE Busy(q) /\ pr'[q].raw = pr[q].raw /\ pr'[q].new = pr[q].new
        BY <1>1, <1>2, <3>1 DEF OneChange
      <3>2. CASE OneChange(pr'[q])
        BY <1>2, <3>2 DEF OneChange
      <3> QED
        BY <1>2, <2>1, <3>1, <3>2
    <2> QED
      BY <1>1, <1>2, <2>1
  <1>3. ASSUME NEW p \in Procs, Busy(p), _load_raw' = pr[p].raw, added' = added \cup pr[p].new,
               \A q \in Procs : ~Busy(q)'
        PROVE  added' \subseteq DOMAIN _load_raw' /\ (Table!Next \/ _load_raw' = _load_raw)
    <2> DEFINE c == pr[p]
    <2>1. CASE c.raw = _load_raw /\ c.new = {}
      BY <1>1, <1>3, <2>1
    <2>2. ASSUME NEW id \in Ids, NEW s \in Statuses, CanMove(_load_raw, id, s),
                 c.raw = [_load_raw EXCEPT ![id] = s], c.new = {}
          PROVE  added' \subseteq DOMAIN _load_raw' /\ Table!Next
      <3>1. Table!Move(id, s)
        BY <1>3, <2>2 DEF CanMove, Table!Move, VALID_TRANSITIONS, Table!VALID_TRANSITIONS
      <3> QED
        BY <1>1, <1>3, <2>2, <3>1 DEF Table!Next, Statuses, Table!Statuses
    <2>3. ASSUME NEW id \in Ids, NEW s \in {"open", "unhedged"}, id \notin DOMAIN _load_raw,
                 c.raw = Added(_load_raw, id, s), c.new = {id}
          PROVE  added' \subseteq DOMAIN _load_raw' /\ Table!Next
      <3>1. Table!Add(id, s) /\ DOMAIN _load_raw' = DOMAIN _load_raw \cup {id}
        BY <1>3, <2>3 DEF Added, Table!Add
      <3> QED
        BY <1>1, <1>3, <2>3, <3>1 DEF Table!Next, Table!Statuses
    <2>4. OneChange(c)
      BY <1>1, <1>3
    <2> QED
      BY <2>1, <2>2, <2>3, <2>4 DEF OneChange
  <1> QED
    BY <1>2, <1>3, FileStep

LEMMA FileInductive == SpecFile => []FileInv
  <1>1. InitFile => FileInv
    BY DEF InitFile, FileInv, FileShape, SoleWriter, Idle, Busy
  <1>2. FileInv /\ [NextFile]_vars_file => FileInv'
    BY FileStep
  <1> QED
    BY <1>1, <1>2, PTL DEF SpecFile

\* The file never holds half a list until two calls overlap, also if reads fail: what a
\* save that failed or a process that died has left is in <path>.tmp (positions.py, _save_raw).
THEOREM WholeAlone == SpecFile => [](~overlapped => NeverTorn)
  <1>1. FileInv => (~overlapped => NeverTorn)
    BY DEF FileInv, SoleWriter, NeverTorn
  <1> QED
    BY <1>1, FileInductive, PTL

\* If reads do not fail, nothing is torn and no record is lost until two calls overlap, for any
\* threads, records, failed saves and deaths (positions.py, "Not safe for concurrent ... use").
THEOREM SafeAlone == ASSUME "read" \notin FileFaults PROVE SpecFile => []SafeWithoutOverlap
  <1>1. InitFile => FileFaithful
    BY DEF InitFile, FileFaithful, Idle, Busy
  <1>2. FileInv /\ FileFaithful /\ [NextFile]_vars_file => FileFaithful'
    BY FaithfulStep
  <1>3. FileInv /\ FileFaithful => SafeWithoutOverlap
    BY DEF FileInv, FileFaithful, SoleWriter, NeverTorn, AddsSurvive, SafeWithoutOverlap
  <1> QED
    BY <1>1, <1>2, <1>3, FileInductive, PTL DEF SpecFile

\* If reads do not fail, the file is the table of PolyLedger until two calls overlap.
THEOREM FileIsTable == ASSUME "read" \notin FileFaults PROVE SpecFile => TableUntilOverlap
  <1>1. InitFile => FileFaithful /\ Table!Init
    BY DEF InitFile, FileFaithful, Idle, Busy, Table!Init, _load_raw, NoRecords, Table!NoRecords
  <1>2. FileInv /\ FileFaithful /\ [NextFile]_vars_file
            => FileFaithful' /\ [overlapped' \/ Table!Next]_(_load_raw)
    BY FaithfulStep
  <1> QED
    BY <1>1, <1>2, FileInductive, PTL DEF SpecFile, TableUntilOverlap
=============================================================================
