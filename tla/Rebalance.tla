------------------------------- MODULE Rebalance -------------------------------
(***************************************************************************)
(* Moving capital between venues: run_rebalance_cycle, which the           *)
(* Polymarket worker calls once per scan that found opportunities          *)
(* (src/src/polymarket/__main__.py), with its trigger, bridge executor and *)
(* deposit acknowledger (src/src/capital), live (REBALANCE_DRY_RUN=false). *)
(*                                                                         *)
(* The worker is one thread: a step goes from one HTTP call or sleep to    *)
(* the next.  Money moves on its own: a withdrawal that was accepted       *)
(* arrives late or never, and what a venue holds rises and falls with      *)
(* trades, deposits and withdrawals of others.  The three balance probes   *)
(* of a cycle are one step.  Amounts are whole units of money.             *)
(***************************************************************************)
EXTENDS Integers, Sequences

CONSTANTS
    Funds,              \* what hyperliquid holds at the start
    OtherFunds,         \* what each other venue holds at the start
    Scores,             \* composite scores an opportunity may have
    ScoreGap,           \* REBALANCE_SCORE_GAP
    MinUsd,             \* REBALANCE_MIN_USD
    CooldownSec,        \* REBALANCE_COOLDOWN_SEC, in clock units
    TimeoutSec,         \* DEPOSIT_POLL_TIMEOUT_SEC, in clock units
    FaultKinds,         \* what may go wrong: see AllFaults
    OtherAmounts,       \* what others may bring to a venue, or take from it, at a time
    MaxTime,            \* bound: clock units; the last cycle starts early enough to end
    MaxTransfers,       \* bound: withdrawals of one behaviour
    MaxOthers,          \* bound: movements of money by others
    MaxFaults           \* bound: faults of one behaviour

(***************************************************************************)
(* "probe": a balance cannot be read; "rejected": the withdrawal is        *)
(* refused; "lost": it is accepted and the answer is lost; "crash": the    *)
(* worker dies and is restarted.                                           *)
(***************************************************************************)
AllFaults == {"probe", "rejected", "lost", "crash"}

ASSUME RebalanceAssumption ==
    /\ Funds \in Nat /\ OtherFunds \in Nat
    /\ Scores \subseteq Nat /\ 0 \in Scores
    /\ ScoreGap \in Nat \ {0} /\ MinUsd \in Nat \ {0}
    /\ CooldownSec \in Nat /\ TimeoutSec \in Nat \ {0}
    /\ FaultKinds \subseteq AllFaults
    /\ OtherAmounts \subseteq Nat \ {0}
    /\ MaxTime \in Nat /\ MaxTransfers \in Nat /\ MaxOthers \in Nat /\ MaxFaults \in Nat

VARIABLES
    free,          \* venue -> what it really holds
    last,          \* _LAST_REBALANCE: pair of venues -> time of its last rebalance
    w,             \* the worker: where it is in run_rebalance_cycle, and its locals
    now,           \* time.time()
    faults,        \* faults so far
    others,        \* movements of money by others so far
    sent,          \* history: the withdrawals that were accepted; "known" to the worker,
                   \* whose memory a crash wipes, or not
    inflow,        \* history: venue -> all money that ever came to it
    credited       \* history: venue -> the money reported there as a confirmed deposit,
                   \* over a baseline that could be read

history == <<sent, inflow, credited>>
vars == <<free, last, w, now, faults, others, history>>

\* In the order of the dict probe_all() returns.
VenueOrder == <<"hyperliquid", "coinbase", "polymarket">>
Venues == {VenueOrder[i] : i \in DOMAIN VenueOrder}

\* The sources an OpportunityScore can name.
Sources == {"polymarket", "funding_arb"}

Pairs == {p \in Venues \X Venues : p[1] # p[2]}

\* A pair that was never rebalanced.
Never == -CooldownSec

Fault(k) == k \in FaultKinds /\ faults < MaxFaults

-----------------------------------------------------------------------------
(* RebalanceTrigger: evaluate().                                           *)

\* Opportunities are looked up by venue name.
best_score_for_venue(v, score) == IF v \in Sources THEN score[v] ELSE 0

gap(p, score) == best_score_for_venue(p[2], score) - best_score_for_venue(p[1], score)

evaluate(score, snap) ==
    {p \in Pairs : /\ snap[p[1]] >= MinUsd
                   /\ now - last[p] >= CooldownSec
                   /\ gap(p, score) >= ScoreGap}

\* The position of a pair in the loops over the venues.
Rank(p) == CHOOSE n \in 1..9 : \E i, j \in 1..3 :
              VenueOrder[i] = p[1] /\ VenueOrder[j] = p[2] /\ n = 3 * (i - 1) + j

\* decisions[0] after the stable sort by gap: the one pair that comes first.
Best(decisions, score) ==
    {p \in decisions : \A q \in decisions :
        \/ gap(p, score) > gap(q, score)
        \/ gap(p, score) = gap(q, score) /\ Rank(p) <= Rank(q)}

move_usd(amount) == (amount * 4) \div 5

\* Mutant: what was there before is not subtracted.
Arrived_NoBaseline(current, baseline, expected) == current * 100 >= expected * 98

\* delta >= min_arrival, with the tolerance of 2%.
Arrived(current, baseline, expected) == (current - baseline) * 100 >= expected * 98

-----------------------------------------------------------------------------
(* State.                                                                  *)

Idle == [pc |-> "idle", pair |-> <<"hyperliquid", "polymarket">>, amount |-> 0,
         baseline |-> 0, deadline |-> 0, score |-> [s \in Sources |-> 0], read |-> TRUE]

Init ==
    /\ free = [v \in Venues |-> IF v = "hyperliquid" THEN Funds ELSE OtherFunds]
    /\ last = [p \in Pairs |-> Never]
    /\ w = Idle
    /\ now = 0
    /\ faults = 0
    /\ others = 0
    /\ sent = << >>
    /\ inflow = [v \in Venues |-> 0]
    /\ credited = [v \in Venues |-> 0]

\* What probe_all() may return: a venue that cannot be read holds 0.0.
Snapshots ==
    {free} \cup {[v \in Venues |-> IF v \in down THEN 0 ELSE free[v]] :
                    down \in {D \in SUBSET Venues : D # {} /\ Fault("probe")}}

\* mark_rebalance_complete().
Mark(p) == last' = [last EXCEPT ![p] = now]

-----------------------------------------------------------------------------
(* The worker.                                                             *)

\* A cycle on the scores of the opportunities just found: the decision with the
\* highest gap is acted on.  The scan found at least one Polymarket opportunity.
Cycle(score) ==
    /\ w.pc = "idle"
    /\ now + TimeoutSec <= MaxTime
    /\ Len(sent) < MaxTransfers
    /\ score["polymarket"] > 0
    /\ \E snap \in Snapshots :
          \E p \in Best(evaluate(score, snap), score) :
              /\ w' = [pc |-> "bridge", pair |-> p, amount |-> move_usd(snap[p[1]]),
                       baseline |-> snap[p[2]], deadline |-> 0, score |-> score,
                       read |-> snap[p[2]] = free[p[2]]]
              /\ faults' = IF snap = free THEN faults ELSE faults + 1
    /\ UNCHANGED <<free, last, now, others, history>>

\* A cycle that finds no pair to move capital between.
CycleSkips(score) ==
    /\ w.pc = "idle"
    /\ score["polymarket"] > 0
    /\ \E snap \in Snapshots :
          /\ evaluate(score, snap) = {}
          /\ faults' = IF snap = free THEN faults ELSE faults + 1
    /\ UNCHANGED <<free, last, w, now, others, history>>

\* The routes that withdraw; the others report failure and change nothing.
HlRoutes == {<<"hyperliquid", "polymarket">>, <<"hyperliquid", "coinbase">>}

Withdrawable == w.pair \in HlRoutes /\ 0 < w.amount /\ w.amount <= free[w.pair[1]]

\* The route is unsupported or manual, or hyperliquid refuses the withdrawal: no
\* cooldown starts.
BridgeFails ==
    /\ w.pc = "bridge"
    /\ \/ ~Withdrawable /\ UNCHANGED faults
       \/ Withdrawable /\ Fault("rejected") /\ faults' = faults + 1
    /\ w' = Idle
    /\ UNCHANGED <<free, last, now, others, history>>

\* Hyperliquid takes the withdrawal; the history notes whether the worker knows.
Withdraw(known) ==
    /\ w.pc = "bridge"
    /\ Withdrawable
    /\ free' = [free EXCEPT ![w.pair[1]] = @ - w.amount]
    /\ sent' = Append(sent, [ pair |-> w.pair, amount |-> w.amount, at |-> now,
                              known |-> known, arrived |-> FALSE ])
    /\ UNCHANGED <<others, inflow, credited>>

BridgeSubmitted ==
    /\ Withdraw(TRUE)
    /\ w' = [w EXCEPT !.pc = "poll", !.deadline = now + TimeoutSec]
    /\ UNCHANGED <<last, now, faults>>

\* The answer is lost: the exception is reported as a failure.
BridgeAnswerLost ==
    /\ Fault("lost")
    /\ Withdraw(FALSE)
    /\ faults' = faults + 1
    /\ w' = Idle
    /\ UNCHANGED <<last, now>>

\* What one reading of the destination's balance may give.
Readings == {free[w.pair[2]]} \cup (IF Fault("probe") THEN {0} ELSE {})

\* A poll sees the destination hold as much more than its baseline, whatever the money is;
\* the cooldown starts.
PollConfirms ==
    /\ w.pc = "poll"
    /\ now < w.deadline
    /\ Arrived(free[w.pair[2]], w.baseline, w.amount)
    /\ credited' = IF w.read THEN [credited EXCEPT ![w.pair[2]] = @ + w.amount] ELSE credited
    /\ Mark(w.pair)
    /\ w' = Idle
    /\ UNCHANGED <<free, now, faults, others, sent, inflow>>

\* Mutant: the cooldown only starts with a confirmed deposit.
PollTimesOut_NoMark ==
    /\ w.pc = "poll"
    /\ now >= w.deadline
    /\ w' = Idle
    /\ UNCHANGED <<free, last, now, faults, others, history>>

\* Not seen in time: the cooldown starts all the same.
PollTimesOut ==
    /\ w.pc = "poll"
    /\ now >= w.deadline
    /\ Mark(w.pair)
    /\ w' = Idle
    /\ UNCHANGED <<free, now, faults, others, history>>

\* Mutant: every attempt gets the whole time again.
Sleep_Renewed ==
    /\ w.pc = "poll"
    /\ ~Arrived(free[w.pair[2]], w.baseline, w.amount)
    /\ UNCHANGED vars

\* A poll that does not see it sleeps until the next.
Sleep ==
    /\ w.pc = "poll"
    /\ now < w.deadline
    /\ \E seen \in Readings :
          /\ ~Arrived(seen, w.baseline, w.amount)
          /\ faults' = IF seen = free[w.pair[2]] THEN faults ELSE faults + 1
    /\ now' = now + 1
    /\ UNCHANGED <<free, last, w, others, history>>

-----------------------------------------------------------------------------
(* The world.                                                              *)

\* Time between two cycles.
Clock ==
    /\ w.pc = "idle"
    /\ now < MaxTime
    /\ now' = now + 1
    /\ UNCHANGED <<free, last, w, faults, others, history>>

\* Money comes to a venue.
Comes(v, amount) ==
    /\ free' = [free EXCEPT ![v] = @ + amount]
    /\ inflow' = [inflow EXCEPT ![v] = @ + amount]

\* Money that was withdrawn reaches its destination.
Arrive(i) ==
    /\ ~sent[i].arrived
    /\ sent' = [sent EXCEPT ![i].arrived = TRUE]
    /\ Comes(sent[i].pair[2], sent[i].amount)
    /\ UNCHANGED <<last, w, now, faults, others, credited>>

\* What a venue holds free rises for another reason: a sale, also by the dashboard while
\* the worker waits, a deposit of the operator, a margin that is released.
OthersBring(v, amount) ==
    /\ others < MaxOthers /\ others' = others + 1
    /\ Comes(v, amount)
    /\ UNCHANGED <<last, w, now, faults, sent, credited>>

\* Or it falls: a purchase, a withdrawal of the operator, a margin that is taken.
OthersTake(v, amount) ==
    /\ others < MaxOthers /\ others' = others + 1
    /\ amount <= free[v]
    /\ free' = [free EXCEPT ![v] = @ - amount]
    /\ UNCHANGED <<last, w, now, faults, history>>

\* The worker is restarted: the cooldown registry was in its memory.
Crash ==
    /\ Fault("crash")
    /\ faults' = faults + 1
    /\ w' = Idle
    /\ last' = [p \in Pairs |-> Never]
    /\ sent' = [i \in DOMAIN sent |-> [sent[i] EXCEPT !.known = FALSE]]
    /\ UNCHANGED <<free, now, others, inflow, credited>>

-----------------------------------------------------------------------------
Worker ==
    \/ \E score \in [Sources -> Scores] : Cycle(score) \/ CycleSkips(score)
    \/ BridgeFails
    \/ BridgeSubmitted
    \/ BridgeAnswerLost
    \/ PollConfirms
    \/ PollTimesOut
    \/ Sleep

Next ==
    \/ Worker
    \/ Clock
    \/ Crash
    \/ \E i \in DOMAIN sent : Arrive(i)
    \/ \E v \in Venues, amount \in OtherAmounts : OthersBring(v, amount) \/ OthersTake(v, amount)

Spec == Init /\ [][Next]_vars

\* The wait for a deposit on Polymarket.
AwaitsPolymarket == w.pc = "poll" /\ w.pair[2] = "polymarket"

\* Its probe of the balance has a timeout, and its sleeps end.  Nothing is assumed of a call
\* of Coinbase's client, which is built without a timeout.
FairSpec == Spec /\ WF_vars(AwaitsPolymarket /\ Worker)

-----------------------------------------------------------------------------
(* Properties.                                                             *)

Locals == [ pc : {"idle", "bridge", "poll"}, pair : Pairs, amount : Nat, baseline : Nat,
            deadline : 0..MaxTime, score : [Sources -> Scores], read : BOOLEAN ]

Transfers == [ pair : Pairs, amount : Nat \ {0}, at : 0..MaxTime, known : BOOLEAN,
               arrived : BOOLEAN ]

\* Types: every variable stays in its domain, and a transfer is waited for only after
\* it was sent.
TypeOK ==
    /\ free \in [Venues -> Nat]
    /\ last \in [Pairs -> {Never} \cup 0..MaxTime]
    /\ w \in Locals
    /\ w.pc = "poll" => Len(sent) > 0 /\ sent[Len(sent)].amount = w.amount
    /\ now \in 0..MaxTime
    /\ faults \in 0..MaxFaults
    /\ others \in 0..MaxOthers
    /\ sent \in Seq(Transfers)
    /\ inflow \in [Venues -> Nat]
    /\ credited \in [Venues -> Nat]

\* Two withdrawals for one pair of venues are a cooldown apart ("Record cooldown
\* regardless of confirmation (bridge was already submitted)", the orchestrator),
\* however long the wait for the first one took, if the worker knows of the first:
\* its answer was not lost, and the worker was not restarted since.
CooldownHolds ==
    \A i, j \in DOMAIN sent :
        (i < j /\ sent[i].pair = sent[j].pair /\ sent[i].known)
            => sent[j].at - sent[i].at >= CooldownSec

\* No money is counted twice.  What a wait confirms need not be the transfer it waits for,
\* but it is money that came to the venue, and none that another wait has confirmed: over
\* baselines that could be read, the deposits confirmed at a venue are, up to the tolerance,
\* within all that ever came to it.
ConfirmedBacked ==
    \A v \in Venues : credited[v] * 98 <= inflow[v] * 100

\* The worker, which also monitors the open positions, is not held for ever by a deposit
\* on Polymarket that does not arrive.
WaitEnds == AwaitsPolymarket ~> w.pc = "idle"
=============================================================================
