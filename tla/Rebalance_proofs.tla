--------------------------- MODULE Rebalance_proofs ---------------------------
(***************************************************************************)
(* Theorems about Rebalance.                                               *)
(***************************************************************************)
EXTENDS Rebalance, TLAPS

-----------------------------------------------------------------------------
(* The inductive invariant.                                                *)

\* A cycle starts early enough to end, and while the bridge is called the pair has
\* waited its cooldown: the call takes no time.
BridgeReady ==
    w.pc = "bridge" => /\ now + TimeoutSec <= MaxTime
                       /\ now - last[w.pair] >= CooldownSec

\* No withdrawal lies in the future, and the registry has every withdrawal the worker
\* knows of, but for the one whose deposit it waits for.
Registered ==
    \A i \in DOMAIN sent :
        /\ sent[i].at <= now
        /\ sent[i].known => \/ sent[i].at <= last[sent[i].pair]
                            \/ w.pc = "poll" /\ i = Len(sent) /\ sent[i].pair = w.pair

IInv == TypeOK /\ BridgeReady /\ Registered /\ CooldownHolds

-----------------------------------------------------------------------------
(* Lemmas on what the steps are built from.                                *)

\* The idle worker's locals have their types.
LEMMA IdleType == Idle \in Locals
  <1>1. 0 \in 0..MaxTime /\ [s \in Sources |-> 0] \in [Sources -> Scores]
    BY RebalanceAssumption
  <1>2. <<"hyperliquid", "polymarket">> \in Pairs
    BY DEF Pairs, Venues, VenueOrder
  <1> QED
    BY <1>1, <1>2 DEF Idle, Locals

\* Times the registry may hold are integers.
LEMMA RegistryInteger ==
    ASSUME TypeOK, NEW p \in Pairs
    PROVE  last[p] \in Int
  BY RebalanceAssumption DEF TypeOK, Never

\* One transfer of the history, and the clock.
LEMMA SentTypes ==
    ASSUME TypeOK, NEW i \in DOMAIN sent
    PROVE  /\ sent[i] \in Transfers
           /\ sent[i].pair \in Pairs
           /\ sent[i].amount \in Nat \ {0}
           /\ sent[i].at \in Nat
           /\ sent[i].known \in BOOLEAN
           /\ last[sent[i].pair] \in Int
           /\ i \in 1..Len(sent)
  <1>1. sent[i] \in Transfers /\ i \in 1..Len(sent)
    BY DEF TypeOK
  <1>2. QED
    BY <1>1, RegistryInteger DEF Transfers

\* What probe_all() returns is an amount for each venue.
LEMMA SnapshotTypes ==
    ASSUME TypeOK, NEW snap \in Snapshots
    PROVE  /\ snap \in [Venues -> Nat]
           /\ snap # free => Fault("probe")
  <1>1. CASE snap = free
    BY <1>1 DEF TypeOK
  <1>2. CASE snap # free
    <2>1. PICK D \in SUBSET Venues :
             Fault("probe") /\ snap = [v \in Venues |-> IF v \in D THEN 0 ELSE free[v]]
      BY <1>2 DEF Snapshots
    <2>2. \A v \in Venues : free[v] \in Nat
      BY DEF TypeOK
    <2> QED
      BY <2>1, <2>2
  <1> QED
    BY <1>1, <1>2

\* Every counted fault stays within the bound.
LEMMA FaultCounts ==
    ASSUME TypeOK, NEW k, Fault(k)
    PROVE  faults + 1 \in 0..MaxFaults
  BY RebalanceAssumption DEF TypeOK, Fault

\* Hyperliquid takes the withdrawal, whether the worker learns of it or not.
Sends ==
    /\ w.pc = "bridge"
    /\ Withdrawable
    /\ free' = [free EXCEPT ![w.pair[1]] = @ - w.amount]
    /\ \E k \in BOOLEAN :
          sent' = Append(sent, [ pair |-> w.pair, amount |-> w.amount, at |-> now,
                                 known |-> k, arrived |-> FALSE ])
    /\ UNCHANGED <<others, inflow, credited>>

\* A newly accepted withdrawal is a well-typed entry of the history.
LEMMA WithdrawTypes ==
    ASSUME TypeOK, Sends
    PROVE  /\ free' \in [Venues -> Nat]
           /\ sent' \in Seq(Transfers)
           /\ Len(sent') = Len(sent) + 1 /\ Len(sent') > 0
           /\ \A i \in DOMAIN sent : sent'[i] = sent[i]
           /\ sent'[Len(sent')].pair = w.pair
           /\ sent'[Len(sent')].amount = w.amount
           /\ sent'[Len(sent')].at = now
  <1>0. PICK k \in BOOLEAN :
           sent' = Append(sent, [ pair |-> w.pair, amount |-> w.amount, at |-> now,
                                  known |-> k, arrived |-> FALSE ])
    BY DEF Sends
  <1> DEFINE t == [ pair |-> w.pair, amount |-> w.amount, at |-> now, known |-> k,
                    arrived |-> FALSE ]
  <1>1. /\ w.pair \in Pairs /\ w.pair[1] \in Venues
        /\ w.amount \in Nat \ {0} /\ w.amount <= free[w.pair[1]]
        /\ now \in 0..MaxTime
    BY DEF TypeOK, Locals, Sends, Withdrawable, Pairs
  <1>2. free' \in [Venues -> Nat]
    <2>1. free[w.pair[1]] - w.amount \in Nat
      BY <1>1 DEF TypeOK
    <2> QED
      BY <1>1, <2>1 DEF TypeOK, Sends
  <1>3. t \in Transfers
    BY <1>1 DEF Transfers
  <1>4. sent' = Append(sent, t) /\ sent \in Seq(Transfers)
    BY <1>0 DEF TypeOK
  <1>5. /\ sent' \in Seq(Transfers)
        /\ Len(sent') = Len(sent) + 1 /\ Len(sent') > 0
        /\ \A i \in DOMAIN sent : sent'[i] = sent[i]
        /\ sent'[Len(sent')] = t
    BY <1>3, <1>4
  <1> QED
    BY <1>2, <1>5

\* Money that comes to a venue leaves the amounts natural numbers.
LEMMA ComesTypes ==
    ASSUME TypeOK, NEW v \in Venues, NEW amount \in Nat, Comes(v, amount)
    PROVE  free' \in [Venues -> Nat] /\ inflow' \in [Venues -> Nat]
  <1>1. free[v] + amount \in Nat /\ inflow[v] + amount \in Nat
    BY DEF TypeOK
  <1> QED
    BY <1>1 DEF TypeOK, Comes

-----------------------------------------------------------------------------
(* Type correctness.                                                       *)

\* The types after a step, from those of the variables it changes.
LEMMA TypesKept ==
    ASSUME TypeOK,
           free' \in [Venues -> Nat] \/ UNCHANGED free,
           UNCHANGED last,
           w' \in Locals \/ UNCHANGED w,
           w'.pc = "poll" => Len(sent') > 0 /\ sent'[Len(sent')].amount = w'.amount,
           UNCHANGED now,
           faults' \in 0..MaxFaults \/ UNCHANGED faults,
           others' \in 0..MaxOthers \/ UNCHANGED others,
           sent' \in Seq(Transfers) \/ UNCHANGED sent,
           UNCHANGED <<inflow, credited>>
    PROVE  TypeOK'
  <1>1. /\ free' \in [Venues -> Nat]
        /\ last' \in [Pairs -> {Never} \cup 0..MaxTime]
        /\ w' \in Locals
    BY DEF TypeOK
  <1>2. now' \in 0..MaxTime /\ faults' \in 0..MaxFaults /\ others' \in 0..MaxOthers
    BY DEF TypeOK
  <1>3. /\ sent' \in Seq(Transfers)
        /\ inflow' \in [Venues -> Nat]
        /\ credited' \in [Venues -> Nat]
    BY DEF TypeOK
  <1> QED
    BY <1>1, <1>2, <1>3, Zenon DEF TypeOK

\* Every step keeps the types; a cycle also leaves time for its wait.
LEMMA TypeStep ==
    ASSUME TypeOK, BridgeReady, [Next]_vars
    PROVE  TypeOK'
  <1> USE RebalanceAssumption
  <1>1. ASSUME NEW score \in [Sources -> Scores], Cycle(score)
        PROVE  TypeOK'
    <2>1. PICK snap \in Snapshots : \E p \in Best(evaluate(score, snap), score) :
             /\ w' = [pc |-> "bridge", pair |-> p, amount |-> move_usd(snap[p[1]]),
                      baseline |-> snap[p[2]], deadline |-> 0, score |-> score,
                      read |-> snap[p[2]] = free[p[2]]]
             /\ faults' = IF snap = free THEN faults ELSE faults + 1
      BY <1>1 DEF Cycle
    <2>2. PICK p \in Pairs :
             /\ w' = [pc |-> "bridge", pair |-> p, amount |-> move_usd(snap[p[1]]),
                      baseline |-> snap[p[2]], deadline |-> 0, score |-> score,
                      read |-> snap[p[2]] = free[p[2]]]
             /\ faults' = IF snap = free THEN faults ELSE faults + 1
      BY <2>1 DEF Best, evaluate
    <2>3. p[1] \in Venues /\ p[2] \in Venues
      BY DEF Pairs
    <2>4. snap[p[1]] \in Nat /\ snap[p[2]] \in Nat
      BY <2>3, SnapshotTypes
    <2>5. move_usd(snap[p[1]]) \in Nat
      BY <2>4 DEF move_usd
    <2>6. w' \in Locals
      BY <2>2, <2>4, <2>5 DEF Locals
    <2>7. faults' \in 0..MaxFaults
      BY <2>2, SnapshotTypes, FaultCounts DEF TypeOK
    <2> QED
      BY <1>1, <2>2, <2>6, <2>7 DEF Cycle, TypeOK, history
  <1>2. ASSUME NEW score \in [Sources -> Scores], CycleSkips(score)
        PROVE  TypeOK'
    <2>1. faults' \in 0..MaxFaults
      BY <1>2, SnapshotTypes, FaultCounts DEF CycleSkips, TypeOK
    <2> QED
      BY <1>2, <2>1 DEF CycleSkips, TypeOK, history
  <1>3. CASE BridgeFails
    <2>1. faults' \in 0..MaxFaults
      BY <1>3, FaultCounts DEF BridgeFails, TypeOK
    <2>2. w' \in Locals /\ w'.pc = "idle"
      BY <1>3, IdleType DEF BridgeFails, Idle
    <2> QED
      BY <1>3, <2>1, <2>2, SMTT(20) DEF BridgeFails, TypeOK, history
  <1>4. CASE BridgeSubmitted
    <2>1. Sends /\ w' = [w EXCEPT !.pc = "poll", !.deadline = now + TimeoutSec]
      BY <1>4 DEF BridgeSubmitted, Withdraw, Sends
    <2>2. now + TimeoutSec \in 0..MaxTime
      BY <2>1 DEF BridgeReady, TypeOK, Sends
    <2>3. w' \in Locals /\ w'.amount = w.amount
      BY <2>1, <2>2 DEF TypeOK, Locals
    <2>4. /\ free' \in [Venues -> Nat]
          /\ sent' \in Seq(Transfers)
          /\ Len(sent') > 0 /\ sent'[Len(sent')].amount = w.amount
          /\ UNCHANGED <<others, inflow, credited>>
      BY <2>1, WithdrawTypes DEF Sends
    <2>5. UNCHANGED <<last, now, faults>>
      BY <1>4 DEF BridgeSubmitted
    <2>6. w'.pc = "poll" => Len(sent') > 0 /\ sent'[Len(sent')].amount = w'.amount
      BY <2>3, <2>4
    <2> QED
      BY <2>3, <2>4, <2>5, <2>6, TypesKept
  <1>5. CASE BridgeAnswerLost
    <2>1. Sends /\ w' = Idle
      BY <1>5 DEF BridgeAnswerLost, Withdraw, Sends
    <2>2. faults' \in 0..MaxFaults
      BY <1>5, FaultCounts DEF BridgeAnswerLost
    <2>3. /\ free' \in [Venues -> Nat]
          /\ sent' \in Seq(Transfers)
          /\ Len(sent') > 0 /\ sent'[Len(sent')].amount = w.amount
          /\ UNCHANGED <<others, inflow, credited>>
      BY <2>1, WithdrawTypes DEF Sends
    <2>4. UNCHANGED <<last, now>> /\ w' \in Locals /\ w'.pc = "idle"
      BY <1>5, IdleType DEF BridgeAnswerLost, Idle
    <2>5. w'.pc # "poll"
      BY <2>4
    <2> QED
      BY <2>2, <2>3, <2>4, <2>5, TypesKept
  <1>6. CASE PollConfirms
    <2>1. last' \in [Pairs -> {Never} \cup 0..MaxTime]
      BY <1>6 DEF PollConfirms, Mark, TypeOK
    <2>2. credited' \in [Venues -> Nat]
      <3>1. w.pair[2] \in Venues /\ w.amount \in Nat
        BY DEF TypeOK, Locals, Pairs
      <3>2. credited[w.pair[2]] + w.amount \in Nat
        BY <3>1 DEF TypeOK
      <3> QED
        BY <1>6, <3>1, <3>2 DEF PollConfirms, TypeOK
    <2> QED
      BY <1>6, <2>1, <2>2, IdleType, SMTT(20) DEF PollConfirms, TypeOK, Idle
  <1>7. CASE PollTimesOut
    <2>1. last' \in [Pairs -> {Never} \cup 0..MaxTime]
      BY <1>7 DEF PollTimesOut, Mark, TypeOK
    <2> QED
      BY <1>7, <2>1, IdleType, SMTT(20) DEF PollTimesOut, TypeOK, Idle, history
  <1>8. CASE Sleep
    <2>1. now' \in 0..MaxTime
      <3>1. w \in Locals /\ now \in 0..MaxTime
        BY DEF TypeOK
      <3>2. w.deadline \in 0..MaxTime
        BY <3>1 DEF Locals
      <3> QED
        BY <1>8, <3>1, <3>2 DEF Sleep
    <2>2. faults' \in 0..MaxFaults
      <3>1. PICK seen \in Readings :
               faults' = IF seen = free[w.pair[2]] THEN faults ELSE faults + 1
        BY <1>8 DEF Sleep
      <3>2. seen # free[w.pair[2]] => Fault("probe")
        BY DEF Readings
      <3> QED
        BY <3>1, <3>2, FaultCounts DEF TypeOK
    <2> QED
      BY <1>8, <2>1, <2>2 DEF Sleep, TypeOK, history
  <1>9. CASE Clock
    BY <1>9 DEF Clock, TypeOK, history
  <1>10. CASE Crash
    <2>1. last' \in [Pairs -> {Never} \cup 0..MaxTime]
      BY <1>10 DEF Crash
    <2>2. sent' \in Seq(Transfers) /\ DOMAIN sent' = DOMAIN sent
      <3>1. \A i \in DOMAIN sent : [sent[i] EXCEPT !.known = FALSE] \in Transfers
        BY SentTypes DEF Transfers
      <3>2. DOMAIN sent = 1..Len(sent) /\ Len(sent) \in Nat
        BY DEF TypeOK
      <3>3. sent' \in [1..Len(sent) -> Transfers]
        BY <1>10, <3>1, <3>2 DEF Crash
      <3> QED
        BY <3>2, <3>3
    <2>3. faults' \in 0..MaxFaults
      BY <1>10, FaultCounts DEF Crash
    <2> QED
      BY <1>10, <2>1, <2>2, <2>3, IdleType DEF Crash, TypeOK, Idle
  <1>11. ASSUME NEW i \in DOMAIN sent, Arrive(i)
         PROVE  TypeOK'
    <2>1. sent[i].pair[2] \in Venues /\ sent[i].amount \in Nat
      BY SentTypes DEF Pairs
    <2>2. free' \in [Venues -> Nat] /\ inflow' \in [Venues -> Nat]
      BY <1>11, <2>1, ComesTypes DEF Arrive
    <2>3. [sent[i] EXCEPT !.arrived = TRUE] \in Transfers
      BY SentTypes DEF Transfers
    <2>4. sent' = [sent EXCEPT ![i] = [sent[i] EXCEPT !.arrived = TRUE]]
      BY <1>11 DEF Arrive
    <2>5. sent' \in Seq(Transfers) /\ Len(sent') = Len(sent) /\ DOMAIN sent' = DOMAIN sent
      BY <2>3, <2>4 DEF TypeOK
    <2>6. \A j \in DOMAIN sent : sent'[j].amount = sent[j].amount
      BY <2>3, <2>4, SentTypes DEF Transfers
    <2>7. w.pc = "poll" => Len(sent) > 0 /\ sent'[Len(sent)].amount = w.amount
      BY <2>6 DEF TypeOK
    <2> QED
      BY <1>11, <2>2, <2>5, <2>7 DEF Arrive, TypeOK
  <1>12. ASSUME NEW v \in Venues, NEW amount \in OtherAmounts, OthersBring(v, amount)
         PROVE  TypeOK'
    <2>1. amount \in Nat
      OBVIOUS
    <2>2. free' \in [Venues -> Nat] /\ inflow' \in [Venues -> Nat]
      BY <1>12, <2>1, ComesTypes DEF OthersBring
    <2> QED
      BY <1>12, <2>2 DEF OthersBring, TypeOK
  <1>13. ASSUME NEW v \in Venues, NEW amount \in OtherAmounts, OthersTake(v, amount)
         PROVE  TypeOK'
    <2>1. free[v] - amount \in Nat
      <3>1. amount \in Nat /\ free[v] \in Nat
        BY DEF TypeOK
      <3> QED
        BY <1>13, <3>1 DEF OthersTake
    <2>2. free' \in [Venues -> Nat] /\ others' \in 0..MaxOthers
      BY <1>13, <2>1 DEF OthersTake, TypeOK
    <2>3. UNCHANGED <<last, w, now, faults, sent, inflow, credited>>
      BY <1>13 DEF OthersTake, history
    <2>4. w'.pc = "poll" => Len(sent') > 0 /\ sent'[Len(sent')].amount = w'.amount
      BY <2>3 DEF TypeOK
    <2> QED
      BY <2>2, <2>3, <2>4, TypesKept
  <1>14. CASE UNCHANGED vars
    BY <1>14 DEF vars, history, TypeOK
  <1> QED
    BY <1>1, <1>2, <1>3, <1>4, <1>5, <1>6, <1>7, <1>8, <1>9, <1>10, <1>11, <1>12, <1>13, <1>14
       DEF Next, Worker

-----------------------------------------------------------------------------
(* The cooldown.                                                           *)

\* A newly accepted withdrawal, on a registry that does not change and an idle or
\* polling worker, keeps the cooldown and is registered or waited for.
LEMMA WithdrawSafe ==
    ASSUME IInv, Sends, last' = last, now' = now,
           sent'[Len(sent')].known => w'.pc = "poll" /\ w'.pair = w.pair
    PROVE  Registered' /\ CooldownHolds'
  <1> DEFINE n == Len(sent')
  <1> USE RebalanceAssumption
  <1>1. w.pc = "bridge" /\ w.pair \in Pairs /\ now \in Nat
        /\ now - last[w.pair] >= CooldownSec
    BY DEF IInv, TypeOK, Locals, BridgeReady, Sends
  <1>2. /\ n = Len(sent) + 1
        /\ Len(sent) \in Nat
        /\ DOMAIN sent = 1..Len(sent) /\ DOMAIN sent' = 1..n
        /\ \A i \in DOMAIN sent : sent'[i] = sent[i]
    BY WithdrawTypes DEF IInv, TypeOK
  <1>3. sent'[n].pair = w.pair /\ sent'[n].at = now
    BY WithdrawTypes DEF IInv
  <1>4. \A i \in DOMAIN sent :
           /\ sent[i].at <= now
           /\ sent[i].known => sent[i].at <= last[sent[i].pair]
    BY <1>1 DEF IInv, Registered
  <1>5. Registered'
    <2>1. SUFFICES ASSUME NEW i \in DOMAIN sent'
                   PROVE  /\ sent'[i].at <= now
                          /\ sent'[i].known => \/ sent'[i].at <= last[sent'[i].pair]
                                               \/ w'.pc = "poll" /\ i = n /\ sent'[i].pair = w'.pair
      BY DEF Registered
    <2>2. CASE i = n
      BY <2>2, <1>1, <1>3
    <2>3. CASE i \in DOMAIN sent
      BY <2>3, <1>2, <1>4
    <2> QED
      BY <2>1, <2>2, <2>3, <1>2
  <1>6. CooldownHolds'
    <2>1. SUFFICES ASSUME NEW i \in DOMAIN sent', NEW j \in DOMAIN sent',
                          i < j, sent'[i].pair = sent'[j].pair, sent'[i].known
                   PROVE  sent'[j].at - sent'[i].at >= CooldownSec
      BY DEF CooldownHolds
    <2>2. i \in DOMAIN sent
      BY <2>1, <1>2
    <2>3. CASE j = n
      <3>1. sent[i].pair = w.pair /\ sent[i].known /\ sent[i].at <= last[w.pair]
        BY <2>1, <2>2, <2>3, <1>2, <1>3, <1>4
      <3>2. last[w.pair] \in Int /\ sent[i].at \in Nat
        BY <1>1, <2>2, RegistryInteger, SentTypes DEF IInv
      <3> QED
        BY <2>2, <2>3, <3>1, <3>2, <1>1, <1>2, <1>3
    <2>4. CASE j \in DOMAIN sent
      BY <2>1, <2>2, <2>4, <1>2 DEF IInv, CooldownHolds
    <2> QED
      BY <2>3, <2>4, <1>2
  <1> QED
    BY <1>5, <1>6

\* The wait for a deposit ends: the registry now has the withdrawal.
LEMMA MarkSafe ==
    ASSUME IInv, w.pc = "poll", Mark(w.pair), now' = now, sent' = sent
    PROVE  Registered' /\ CooldownHolds'
  <1>1. w.pair \in Pairs /\ now \in Nat /\ last \in [Pairs -> {Never} \cup 0..MaxTime]
    BY RebalanceAssumption DEF IInv, TypeOK, Locals
  <1>2. /\ last'[w.pair] = now
        /\ \A p \in Pairs : p # w.pair => last'[p] = last[p]
    BY <1>1 DEF Mark
  <1>3. ASSUME NEW i \in DOMAIN sent, sent[i].known
        PROVE  sent[i].at <= last'[sent[i].pair]
    <2>1. sent[i].pair \in Pairs /\ sent[i].at <= now
      BY SentTypes DEF IInv, Registered
    <2>2. sent[i].at <= last[sent[i].pair] \/ sent[i].pair = w.pair
      BY <1>3 DEF IInv, Registered
    <2> QED
      BY <2>1, <2>2, <1>2
  <1>4. Registered'
    BY <1>3 DEF IInv, Registered
  <1>5. CooldownHolds'
    BY DEF IInv, CooldownHolds
  <1> QED
    BY <1>4, <1>5

\* Every step keeps the inductive invariant.
LEMMA Inductive ==
    ASSUME IInv, [Next]_vars
    PROVE  IInv'
  <1> USE RebalanceAssumption
  <1>0. TypeOK'
    BY TypeStep DEF IInv
  <1> SUFFICES BridgeReady' /\ Registered' /\ CooldownHolds'
    BY <1>0 DEF IInv
  <1>1. ASSUME NEW score \in [Sources -> Scores], Cycle(score)
        PROVE  BridgeReady' /\ Registered' /\ CooldownHolds'
    <2>1. UNCHANGED <<last, now, sent>> /\ w.pc = "idle"
      BY <1>1 DEF Cycle, history
    <2>2. BridgeReady'
      <3>1. PICK snap \in Snapshots : \E p \in Best(evaluate(score, snap), score) : w'.pair = p
        BY <1>1 DEF Cycle
      <3>2. now - last[w'.pair] >= CooldownSec
        BY <3>1 DEF Best, evaluate
      <3> QED
        BY <1>1, <2>1, <3>2 DEF Cycle, BridgeReady
    <2>3. Registered'
      BY <2>1 DEF IInv, Registered
    <2>4. CooldownHolds'
      BY <2>1 DEF IInv, CooldownHolds
    <2> QED
      BY <2>2, <2>3, <2>4
  <1>2. ASSUME NEW score \in [Sources -> Scores], CycleSkips(score)
        PROVE  BridgeReady' /\ Registered' /\ CooldownHolds'
    BY <1>2 DEF CycleSkips, history, IInv, BridgeReady, Registered, CooldownHolds
  <1>3. CASE BridgeFails
    BY <1>3 DEF BridgeFails, history, Idle, IInv, BridgeReady, Registered, CooldownHolds
  <1>4. CASE BridgeSubmitted
    <2>1. /\ Sends /\ last' = last /\ now' = now
          /\ w'.pc = "poll" /\ w'.pair = w.pair
      BY <1>4 DEF BridgeSubmitted, Withdraw, Sends, IInv, TypeOK, Locals
    <2>2. Registered' /\ CooldownHolds'
      BY <2>1, WithdrawSafe
    <2> QED
      BY <2>1, <2>2 DEF BridgeReady
  <1>5. CASE BridgeAnswerLost
    <2>1. Sends /\ last' = last /\ now' = now /\ w'.pc = "idle"
      BY <1>5 DEF BridgeAnswerLost, Withdraw, Sends, Idle
    <2>2. ~sent'[Len(sent')].known
      BY <1>5 DEF BridgeAnswerLost, Withdraw, IInv, TypeOK
    <2>3. Registered' /\ CooldownHolds'
      BY <2>1, <2>2, WithdrawSafe
    <2> QED
      BY <2>1, <2>3 DEF BridgeReady
  <1>6. CASE PollConfirms
    <2>1. Registered' /\ CooldownHolds'
      BY <1>6, MarkSafe DEF PollConfirms, history
    <2> QED
      BY <1>6, <2>1 DEF PollConfirms, BridgeReady, Idle
  <1>7. CASE PollTimesOut
    <2>1. Registered' /\ CooldownHolds'
      BY <1>7, MarkSafe DEF PollTimesOut, history
    <2> QED
      BY <1>7, <2>1 DEF PollTimesOut, BridgeReady, Idle
  <1>8. ASSUME now' = now + 1, w.pc # "bridge", UNCHANGED <<last, w, sent>>
        PROVE  BridgeReady' /\ Registered' /\ CooldownHolds'
    <2>1. Registered'
      <3>1. now \in Nat /\ \A i \in DOMAIN sent : sent[i].at \in Nat
        BY SentTypes DEF IInv, TypeOK
      <3> QED
        BY <1>8, <3>1 DEF IInv, Registered
    <2> QED
      BY <1>8, <2>1 DEF IInv, BridgeReady, CooldownHolds
  <1>9. CASE Sleep
    BY <1>8, <1>9 DEF Sleep, history
  <1>10. CASE Clock
    BY <1>8, <1>10 DEF Clock, history
  <1>11. CASE Crash
    <2>1. /\ now' = now /\ w' = Idle
          /\ DOMAIN sent' = DOMAIN sent
          /\ \A i \in DOMAIN sent : sent'[i].at = sent[i].at /\ sent'[i].known = FALSE
      BY <1>11, SentTypes DEF Crash, IInv, Transfers
    <2> QED
      BY <2>1 DEF IInv, BridgeReady, Registered, CooldownHolds, Idle
  <1>12. ASSUME NEW i \in DOMAIN sent, Arrive(i)
         PROVE  BridgeReady' /\ Registered' /\ CooldownHolds'
    <2>1. UNCHANGED <<last, w, now>>
      BY <1>12 DEF Arrive
    <2>2. /\ DOMAIN sent' = DOMAIN sent /\ Len(sent') = Len(sent)
          /\ \A j \in DOMAIN sent : /\ sent'[j].at = sent[j].at
                                    /\ sent'[j].pair = sent[j].pair
                                    /\ sent'[j].known = sent[j].known
      <3>1. sent \in Seq(Transfers) /\ sent[i] \in Transfers
        BY SentTypes DEF IInv, TypeOK
      <3>2. sent' = [sent EXCEPT ![i] = [sent[i] EXCEPT !.arrived = TRUE]]
        BY <1>12 DEF Arrive
      <3>3. [sent[i] EXCEPT !.arrived = TRUE] \in Transfers
        BY <3>1 DEF Transfers
      <3>4. DOMAIN sent' = DOMAIN sent /\ Len(sent') = Len(sent)
        BY <3>1, <3>2, <3>3
      <3>5. \A j \in DOMAIN sent : j # i => sent'[j] = sent[j]
        BY <3>1, <3>2
      <3>6. /\ sent'[i].at = sent[i].at
            /\ sent'[i].pair = sent[i].pair
            /\ sent'[i].known = sent[i].known
        BY <3>1, <3>2 DEF Transfers
      <3> QED
        BY <3>4, <3>5, <3>6
    <2>3. BridgeReady' /\ Registered'
      BY <2>1, <2>2 DEF IInv, BridgeReady, Registered
    <2>4. CooldownHolds'
      BY <2>2 DEF IInv, CooldownHolds
    <2> QED
      BY <2>3, <2>4
  <1>13. CASE \/ UNCHANGED vars
              \/ \E v \in Venues, amount \in OtherAmounts :
                    OthersBring(v, amount) \/ OthersTake(v, amount)
    <2>1. UNCHANGED <<last, w, now, sent>>
      BY <1>13 DEF vars, history, OthersBring, OthersTake
    <2> QED
      BY <2>1 DEF IInv, BridgeReady, Registered, CooldownHolds
  <1> QED
    BY <1>1, <1>2, <1>3, <1>4, <1>5, <1>6, <1>7, <1>9, <1>10, <1>11, <1>12, <1>13
       DEF Next, Worker

-----------------------------------------------------------------------------
(* Deposits that are counted.                                              *)

\* While the worker acts on a true baseline, what the destination holds more than it has
\* come since, and is confirmed by nobody yet.
Backed ==
    /\ ConfirmedBacked
    /\ (w.pc # "idle" /\ w.read) =>
          credited[w.pair[2]] * 98 + (free[w.pair[2]] - w.baseline) * 100
              <= inflow[w.pair[2]] * 100

\* The amounts of a venue, and the worker's destination.
LEMMA AmountTypes ==
    ASSUME TypeOK
    PROVE  /\ \A v \in Venues : free[v] \in Nat /\ inflow[v] \in Nat /\ credited[v] \in Nat
           /\ w.pair[2] \in Venues /\ w.baseline \in Nat /\ w.amount \in Nat
  BY DEF TypeOK, Locals, Pairs

\* Money that comes is one more thing for the worker to find, and counts as much.
LEMMA ComesBacked ==
    ASSUME TypeOK, Backed, NEW v \in Venues, NEW amount \in Nat, Comes(v, amount),
           UNCHANGED <<w, credited>>
    PROVE  Backed'
  <1>1. /\ free'[v] = free[v] + amount /\ inflow'[v] = inflow[v] + amount
        /\ \A u \in Venues : u # v => free'[u] = free[u] /\ inflow'[u] = inflow[u]
    BY DEF Comes, TypeOK
  <1>2. ConfirmedBacked'
    <2> SUFFICES ASSUME NEW u \in Venues
                 PROVE  credited[u] * 98 <= inflow'[u] * 100
      BY DEF ConfirmedBacked
    <2>1. credited[u] * 98 <= inflow[u] * 100 /\ inflow[u] \in Nat /\ credited[u] \in Nat
      BY AmountTypes DEF Backed, ConfirmedBacked
    <2> QED
      BY <1>1, <2>1
  <1>3. ASSUME w.pc # "idle", w.read
        PROVE  credited[w.pair[2]] * 98 + (free'[w.pair[2]] - w.baseline) * 100
                   <= inflow'[w.pair[2]] * 100
    <2> DEFINE d == w.pair[2]
    <2>1. /\ d \in Venues /\ free[d] \in Nat /\ inflow[d] \in Nat /\ credited[d] \in Nat
          /\ w.baseline \in Nat
      BY AmountTypes
    <2>2. credited[d] * 98 + (free[d] - w.baseline) * 100 <= inflow[d] * 100
      BY <1>3 DEF Backed
    <2> HIDE DEF d
    <2>3. credited[d] * 98 + (free'[d] - w.baseline) * 100 <= inflow'[d] * 100
      <3>1. CASE d = v
        BY <3>1, <1>1, <2>1, <2>2
      <3>2. CASE d # v
        BY <3>2, <1>1, <2>1, <2>2
      <3> QED
        BY <3>1, <3>2
    <2> QED
      BY <2>3 DEF d
  <1> QED
    BY <1>2, <1>3 DEF Backed

\* What the destination holds does not rise, and nothing is confirmed: all stays backed.
LEMMA NothingCounted ==
    ASSUME TypeOK, Backed, UNCHANGED <<inflow, credited>>,
           \/ w'.pc = "idle"
           \/ /\ w.pc # "idle"
              /\ w'.pair = w.pair /\ w'.baseline = w.baseline /\ w'.read = w.read
              /\ free'[w.pair[2]] \in Nat /\ free'[w.pair[2]] <= free[w.pair[2]]
    PROVE  Backed'
  <1>1. ConfirmedBacked'
    BY DEF Backed, ConfirmedBacked
  <1>2. ASSUME w'.pc # "idle", w'.read
        PROVE  credited[w.pair[2]] * 98 + (free'[w.pair[2]] - w.baseline) * 100
                   <= inflow[w.pair[2]] * 100
    <2> DEFINE d == w.pair[2]
    <2>1. /\ free[d] \in Nat /\ inflow[d] \in Nat /\ credited[d] \in Nat
          /\ w.baseline \in Nat
          /\ free'[d] \in Nat /\ free'[d] <= free[d]
      BY <1>2, AmountTypes
    <2>2. credited[d] * 98 + (free[d] - w.baseline) * 100 <= inflow[d] * 100
      BY <1>2 DEF Backed
    <2> HIDE DEF d
    <2>3. credited[d] * 98 + (free'[d] - w.baseline) * 100 <= inflow[d] * 100
      BY <2>1, <2>2
    <2> QED
      BY <2>3 DEF d
  <1>3. w'.pc # "idle" => w'.pair = w.pair /\ w'.baseline = w.baseline
    OBVIOUS
  <1> QED
    BY <1>1, <1>2, <1>3 DEF Backed

\* A wait ends with a confirmation: what the destination holds more than the baseline is
\* now confirmed, and the worker has nothing left to find.
LEMMA ConfirmBacked ==
    ASSUME TypeOK, Backed, PollConfirms
    PROVE  Backed'
  <1> DEFINE d == w.pair[2]
  <1>1. /\ w.pc = "poll" /\ w'.pc = "idle" /\ inflow' = inflow
        /\ Arrived(free[d], w.baseline, w.amount)
        /\ credited' = IF w.read THEN [credited EXCEPT ![d] = @ + w.amount] ELSE credited
    BY DEF PollConfirms, Idle
  <1>2. /\ d \in Venues /\ free[d] \in Nat /\ inflow[d] \in Nat /\ credited[d] \in Nat
        /\ w.baseline \in Nat /\ w.amount \in Nat
    BY AmountTypes
  <1>3. w.read => credited[d] * 98 + (free[d] - w.baseline) * 100 <= inflow[d] * 100
    BY <1>1 DEF Backed
  <1>4. (free[d] - w.baseline) * 100 >= w.amount * 98
    BY <1>1 DEF Arrived
  <1> HIDE DEF d
  <1>5. w.read => (credited[d] + w.amount) * 98 <= inflow[d] * 100
    BY <1>2, <1>3, <1>4
  <1>6. \A v \in Venues : credited'[v] * 98 <= inflow[v] * 100
    BY <1>1, <1>2, <1>5 DEF Backed, ConfirmedBacked, TypeOK
  <1> QED
    BY <1>1, <1>6 DEF Backed, ConfirmedBacked

\* Every step keeps each confirmation backed.
LEMMA BackedStep ==
    ASSUME TypeOK, Backed, [Next]_vars
    PROVE  Backed'
  <1> USE RebalanceAssumption
  <1>1. ASSUME NEW score \in [Sources -> Scores], Cycle(score)
        PROVE  Backed'
    <2>1. PICK snap \in Snapshots, p \in Pairs :
             w' = [pc |-> "bridge", pair |-> p, amount |-> move_usd(snap[p[1]]),
                   baseline |-> snap[p[2]], deadline |-> 0, score |-> score,
                   read |-> snap[p[2]] = free[p[2]]]
      BY <1>1 DEF Cycle, Best, evaluate
    <2>2. w'.read => free[p[2]] = w'.baseline
      BY <2>1
    <2>3. UNCHANGED <<free, inflow, credited>> /\ w'.pair = p
      BY <1>1, <2>1 DEF Cycle, history
    <2>4. /\ p[2] \in Venues
          /\ free[p[2]] \in Nat /\ inflow[p[2]] \in Nat /\ credited[p[2]] \in Nat
      BY AmountTypes DEF Pairs
    <2>5. credited[p[2]] * 98 <= inflow[p[2]] * 100
      BY <2>4 DEF Backed, ConfirmedBacked
    <2>6. w'.read => credited[p[2]] * 98 + (free[p[2]] - w'.baseline) * 100
                         <= inflow[p[2]] * 100
      BY <2>2, <2>4, <2>5
    <2>7. ConfirmedBacked'
      BY <2>3 DEF Backed, ConfirmedBacked
    <2> QED
      BY <2>3, <2>6, <2>7 DEF Backed
  <1>2. ASSUME NEW score \in [Sources -> Scores], CycleSkips(score)
        PROVE  Backed'
    BY <1>2 DEF CycleSkips, history, Backed, ConfirmedBacked
  <1>3. CASE BridgeFails \/ PollTimesOut \/ BridgeAnswerLost \/ Crash
    <2>1. UNCHANGED <<inflow, credited>> /\ w'.pc = "idle"
      BY <1>3 DEF BridgeFails, PollTimesOut, BridgeAnswerLost, Withdraw, Crash, history, Idle
    <2> QED
      BY <2>1, NothingCounted
  <1>4. CASE BridgeSubmitted
    <2>1. /\ w.pc = "bridge" /\ UNCHANGED <<inflow, credited>>
          /\ free' = [free EXCEPT ![w.pair[1]] = @ - w.amount]
          /\ w' = [w EXCEPT !.pc = "poll", !.deadline = now + TimeoutSec]
      BY <1>4 DEF BridgeSubmitted, Withdraw
    <2>2. w'.pair = w.pair /\ w'.baseline = w.baseline /\ w'.read = w.read
      BY <2>1 DEF TypeOK, Locals
    <2>3. w.pair[1] # w.pair[2]
      BY DEF TypeOK, Locals, Pairs
    <2>4. free'[w.pair[2]] = free[w.pair[2]] /\ free[w.pair[2]] \in Nat
      BY <2>1, <2>3, AmountTypes DEF TypeOK
    <2> QED
      BY <2>1, <2>2, <2>4, NothingCounted
  <1>5. CASE PollConfirms
    BY <1>5, ConfirmBacked
  <1>6. CASE Sleep \/ Clock \/ UNCHANGED vars
    <2>1. UNCHANGED <<free, w, inflow, credited>>
      BY <1>6 DEF Sleep, Clock, vars, history
    <2> QED
      BY <2>1 DEF Backed, ConfirmedBacked
  <1>7. ASSUME NEW i \in DOMAIN sent, Arrive(i)
        PROVE  Backed'
    <2>1. sent[i].pair[2] \in Venues /\ sent[i].amount \in Nat
      BY SentTypes DEF Pairs
    <2> QED
      BY <1>7, <2>1, ComesBacked DEF Arrive
  <1>8. ASSUME NEW v \in Venues, NEW amount \in OtherAmounts, OthersBring(v, amount)
        PROVE  Backed'
    <2>1. amount \in Nat
      OBVIOUS
    <2> QED
      BY <1>8, <2>1, ComesBacked DEF OthersBring
  <1>9. ASSUME NEW v \in Venues, NEW amount \in OtherAmounts, OthersTake(v, amount)
        PROVE  Backed'
    <2>1. UNCHANGED <<w, inflow, credited>>
      BY <1>9 DEF OthersTake, history
    <2>2. \A u \in Venues : free'[u] \in Nat /\ free'[u] <= free[u]
      <3>1. /\ \A u \in Venues : free[u] \in Nat
            /\ amount \in Nat /\ amount <= free[v]
            /\ free' = [free EXCEPT ![v] = free[v] - amount]
            /\ DOMAIN free = Venues
        BY <1>9, AmountTypes DEF OthersTake, TypeOK
      <3>2. \A u \in Venues : free'[u] = IF u = v THEN free[v] - amount ELSE free[u]
        BY <3>1
      <3> QED
        BY <3>1, <3>2
    <2>3. w.pair[2] \in Venues
      BY AmountTypes
    <2>4. CASE w.pc = "idle"
      BY <2>1, <2>4, NothingCounted
    <2>5. CASE w.pc # "idle"
      BY <2>1, <2>2, <2>3, <2>5, NothingCounted
    <2> QED
      BY <2>4, <2>5
  <1> QED
    BY <1>1, <1>2, <1>3, <1>4, <1>5, <1>6, <1>7, <1>8, <1>9 DEF Next, Worker

-----------------------------------------------------------------------------
(* The theorems.                                                           *)

\* The inductive invariant holds at the start.
LEMMA Initially == Init => IInv
  <1> SUFFICES ASSUME Init PROVE IInv
    OBVIOUS
  <1> USE RebalanceAssumption
  <1>1. TypeOK
    BY IdleType DEF Init, TypeOK, Idle
  <1> QED
    BY <1>1 DEF Init, IInv, BridgeReady, Registered, CooldownHolds, Idle

LEMMA Invariance == Spec => []IInv
  <1> QED
    BY Initially, Inductive, PTL DEF Spec

\* Types: every variable stays in its domain, whatever fails, and a transfer is waited
\* for only after it was sent.
THEOREM RebalanceTypes == Spec => []TypeOK
  <1>1. IInv => TypeOK
    BY DEF IInv
  <1> QED
    BY <1>1, Invariance, PTL

\* Two withdrawals for one pair of venues are a cooldown apart, however long the wait
\* for the first took, for every cooldown, timeout and choice of faults, if the worker
\* knows of the first.
THEOREM CooldownKept == Spec => []CooldownHolds
  <1>1. IInv => CooldownHolds
    BY DEF IInv
  <1> QED
    BY <1>1, Invariance, PTL

\* No money is counted twice: over baselines that could be read, the deposits confirmed at a
\* venue are, up to the tolerance, within all that ever came to it, whatever the amounts, the
\* order the money arrives in, what others bring and take in the meantime, and what fails.
THEOREM ConfirmationsBacked == Spec => []ConfirmedBacked
  <1>1. Init => Backed
    <2> SUFFICES ASSUME Init PROVE Backed
      OBVIOUS
    <2>1. w.pc = "idle" /\ \A v \in Venues : credited[v] = 0 /\ inflow[v] = 0
      BY DEF Init, Idle
    <2> QED
      BY <2>1 DEF Backed, ConfirmedBacked
  <1>2. Backed => ConfirmedBacked
    BY DEF Backed
  <1> QED
    BY <1>1, <1>2, BackedStep, RebalanceTypes, PTL DEF Spec

-----------------------------------------------------------------------------
(* The wait for a deposit.                                                 *)

Waiting == w.pc = "poll"

\* The time that a wait has left.
WaitLeft == w.deadline - now

WaitBounded == Waiting => WaitLeft \in 0..TimeoutSec

\* While the worker waits, each step of its own takes from the time that is left, and nothing that
\* happens elsewhere gives it any.
WaitShrinks ==
    [][Waiting /\ Waiting' => \/ Worker /\ WaitLeft' < WaitLeft
                              \/ ~Worker /\ WaitLeft' = WaitLeft]_vars

LEMMA WaitStep ==
    ASSUME IInv, WaitBounded, [Next]_vars
    PROVE  /\ WaitBounded'
           /\ Waiting /\ Waiting' => \/ UNCHANGED vars
                                     \/ Worker /\ WaitLeft' < WaitLeft
                                     \/ ~Worker /\ WaitLeft' = WaitLeft
  <1>1. /\ w \in Locals /\ now \in Nat /\ w.deadline \in Nat /\ TimeoutSec \in Nat \ {0}
    BY RebalanceAssumption DEF IInv, TypeOK, Locals
  <1>2. CASE BridgeSubmitted
    <2>1. w.pc = "bridge" /\ w'.deadline = now + TimeoutSec /\ now' = now
      BY <1>1, <1>2 DEF BridgeSubmitted, Withdraw, Locals
    <2>2. w'.deadline - now' = TimeoutSec
      BY <1>1, <2>1
    <2>3. ~Waiting
      BY <2>1 DEF Waiting
    <2> QED
      BY <1>1, <2>2, <2>3 DEF WaitBounded, WaitLeft
  <1>3. CASE Sleep
    <2>1. Waiting /\ now < w.deadline /\ now' = now + 1 /\ w' = w
      BY <1>3 DEF Sleep, Waiting
    <2>2. w'.deadline - now' = w.deadline - now - 1 /\ w.deadline - now \in 1..TimeoutSec
      BY <1>1, <2>1 DEF WaitBounded, WaitLeft
    <2>3. WaitLeft' < WaitLeft /\ WaitLeft' \in 0..TimeoutSec
      BY <1>1, <2>1, <2>2 DEF WaitLeft
    <2>4. Worker
      BY <1>3 DEF Worker
    <2> QED
      BY <2>3, <2>4 DEF WaitBounded
  <1>4. CASE \/ \E score \in [Sources -> Scores] : Cycle(score) \/ CycleSkips(score)
             \/ BridgeFails \/ BridgeAnswerLost \/ PollConfirms \/ PollTimesOut \/ Clock \/ Crash
    <2>1. ~Waiting \/ ~Waiting'
      BY <1>4, <1>1 DEF Cycle, CycleSkips, BridgeFails, BridgeAnswerLost, PollConfirms, PollTimesOut, Clock, Crash,
         Withdraw, Waiting, Idle
    <2>2. ~Waiting'
      BY <1>4, <1>1 DEF Cycle, CycleSkips, BridgeFails, BridgeAnswerLost, PollConfirms, PollTimesOut, Clock, Crash,
         Withdraw, Waiting, Idle
    <2> QED
      BY <2>1, <2>2 DEF WaitBounded
  <1>5. CASE \/ \E i \in DOMAIN sent : Arrive(i)
             \/ \E v \in Venues, amount \in OtherAmounts :
                   OthersBring(v, amount) \/ OthersTake(v, amount)
    <2>1. w' = w /\ now' = now
      BY <1>5 DEF Arrive, OthersBring, OthersTake
    <2>2. ~Worker \/ ~Waiting \/ ~Waiting'
      <3>1. Waiting /\ Worker => PollConfirms \/ PollTimesOut \/ Sleep
        BY DEF Worker, Cycle, CycleSkips, BridgeFails, BridgeSubmitted, BridgeAnswerLost, Withdraw, Waiting
      <3>2. ~Sleep
        BY <1>1, <2>1 DEF Sleep
      <3>3. PollConfirms \/ PollTimesOut => ~Waiting'
        BY DEF PollConfirms, PollTimesOut, Waiting, Idle
      <3> QED
        BY <3>1, <3>2, <3>3
    <2> QED
      BY <2>1, <2>2 DEF WaitBounded, WaitLeft, Waiting
  <1>6. CASE UNCHANGED vars
    BY <1>6 DEF vars, history, WaitBounded, WaitLeft, Waiting
  <1> QED
    BY <1>2, <1>3, <1>4, <1>5, <1>6 DEF Next, Worker

\* A deposit that does not arrive holds the worker for at most TimeoutSec sleeps, whatever it
\* reads and whatever comes in the meantime (deposit_acknowledger.py, poll_until_confirmed).
THEOREM WaitRunsOut == Spec => []WaitBounded /\ WaitShrinks
  <1>1. Init => WaitBounded
    BY DEF Init, WaitBounded, Waiting, Idle
  <1>2. IInv /\ WaitBounded /\ [Next]_vars =>
            /\ WaitBounded'
            /\ [Waiting /\ Waiting' => \/ Worker /\ WaitLeft' < WaitLeft
                                       \/ ~Worker /\ WaitLeft' = WaitLeft]_vars
    BY WaitStep
  <1> QED
    BY Invariance, <1>1, <1>2, PTL DEF Spec, WaitShrinks
=============================================================================
