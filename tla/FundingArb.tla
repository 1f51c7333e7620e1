------------------------------ MODULE FundingArb ------------------------------
(***************************************************************************)
(* funding_arb/: the carry trades on Hyperliquid and Coinbase, two legs    *)
(* each, entered by the monitor's thread (scan_once) and by any other      *)
(* process of Processes that calls enter_arb.  An entry is one unit per    *)
(* leg; prices and sizes are left out, an order of the two legs and what   *)
(* the venue answers about each are not.  The venues are external: an      *)
(* answer may differ from what was done, and what the program takes it     *)
(* for may differ from the answer.                                         *)
(***************************************************************************)
EXTENDS Integers, FiniteSets

CONSTANTS Assets,          \* ELIGIBLE_ASSETS
          Processes,       \* who enters trades; "monitor" is one of them
          HlDryRun,        \* HL_DRY_RUN
          BasisDryRun,     \* BASIS_DRY_RUN
          MinRate,         \* HL_MIN_FUNDING_RATE, in 0.01 % per hour
          MinAnnual,       \* MIN_BASIS_PCT, in 0.01 % per year
          RateLevels,      \* funding rates the market shows, in 0.01 % per hour
          BasisLevels,     \* basis the market shows, in 0.01 %
          MaxScans,        \* bound: scans of the monitor
          MaxCrashes       \* bound: restarts of any process

ASSUME FundingAssumption ==
    /\ "monitor" \in Processes /\ IsFiniteSet(Processes)
    /\ HlDryRun \in BOOLEAN /\ BasisDryRun \in BOOLEAN
    /\ MinRate \in Nat /\ MinAnnual \in Nat
    /\ RateLevels \subseteq Nat /\ BasisLevels \subseteq Int
    /\ MaxScans \in Nat /\ MaxCrashes \in Nat

VARIABLES spot,      \* Hyperliquid: units of spot bought, by asset
          perp,      \* Hyperliquid: units of perp sold short
          cb,        \* Coinbase: units of spot bought by basis trades
          window,    \* the last 15 minutes before a funding payment
          monitor,   \* scan_once: the actionable assets left with their rates, and its
                     \* seconds_to_next_funding() <= 900, read when the scan began
          job,       \* the entry each process is in
          alarms,    \* assets with a CRITICAL line in the log
          cut,       \* ghost: assets of which a process ended in the middle of an entry
          misread,   \* ghost: what the venues did for an asset, spot less perp, beyond what
                     \* the program took their answers for
          scans, crashes

vars_funding == <<spot, perp, cb, window, monitor, job, alarms, cut, misread, scans, crashes>>

Idle == [step |-> "idle"]
Asleep == [rates |-> <<>>, window |-> FALSE, scanning |-> FALSE]

(***************************************************************************)
(* Carry                                                                   *)
(***************************************************************************)

\* compare_carry: annualised funding (three periods a day) and basis (weekly).
FundingAnnual(rate) == rate * 3 * 365
BasisAnnual(basis) == basis * 52
\* Mutant: the size of the basis decides, whichever its sign.
CarryBySize(rate, basis) ==
    LET size == IF basis < 0 THEN -basis ELSE basis IN
    IF FundingAnnual(rate) >= BasisAnnual(size) /\ FundingAnnual(rate) > MinAnnual
    THEN "funding"
    ELSE IF BasisAnnual(size) > MinAnnual THEN "basis" ELSE "no_trade"

Carry(rate, basis) ==
    IF FundingAnnual(rate) >= BasisAnnual(basis) /\ FundingAnnual(rate) > MinAnnual
    THEN "funding"
    ELSE IF BasisAnnual(basis) > FundingAnnual(rate) /\ BasisAnnual(basis) > MinAnnual
         THEN "basis"
         ELSE "no_trade"

\* calculate_basis_vs_spot: 0 when neither Coinbase nor Hyperliquid has a spot price.
BasisSeen == BasisLevels \cup {0}

\* Both the current and the predicted rate are strong enough.
Actionable(rate, predicted) == rate >= MinRate /\ predicted * 10 >= MinRate * 7

(***************************************************************************)
(* Legs                                                                    *)
(***************************************************************************)

\* place_spot_long, place_perp_short: no price or no index, a dry run, a bare string, an
\* exception before or after the order reached the venue; or a body, and then ok whatever
\* its statuses say: a refusal, or an IOC order that found no counterpart, is a body too.
LegOutcomes(dry) ==
    [ok : BOOLEAN, filled : IF dry THEN {FALSE} ELSE BOOLEAN]

Unit(filled) == IF filled THEN 1 ELSE 0

\* What was done beyond what it was taken for: -1 is a refusal taken for a success, 1 an
\* order whose answer was lost.  A dry run is not taken for an order.
Beyond(dry, o) == IF dry THEN 0 ELSE Unit(o.filled) - Unit(o.ok)
Add(f, a, units) == [f EXCEPT ![a] = @ + units]

InArb(p, step, a, dry, ok) ==
    job' = [job EXCEPT ![p] = [step |-> step, asset |-> a, dry |-> dry, ok |-> ok]]
InBasis(p, step, a, basis) ==
    job' = [job EXCEPT ![p] = [step |-> step, asset |-> a, basis |-> basis]]
Done(p) == job' = [job EXCEPT ![p] = Idle]

StartArb(p, a, dry) == InArb(p, "spot", a, dry, FALSE)
StartBasis(p, a, basis) == InBasis(p, "basis_perp", a, basis)

\* enter_arb: the spot leg, and then the perp leg whatever became of the first.
ArbSpotLeg(p) ==
    /\ job[p].step = "spot"
    /\ \E o \in LegOutcomes(job[p].dry) :
        /\ spot' = Add(spot, job[p].asset, Unit(o.filled))
        /\ misread' = Add(misread, job[p].asset, Beyond(job[p].dry, o))
        /\ InArb(p, "perp", job[p].asset, job[p].dry, o.ok)
    /\ UNCHANGED <<perp, cb, window, monitor, alarms, cut, scans, crashes>>

\* Mutant: only the perp leg's failure is reported.
ArbPerpLegReportsPerp(p) ==
    /\ job[p].step = "perp"
    /\ \E o \in LegOutcomes(job[p].dry) :
        /\ perp' = Add(perp, job[p].asset, Unit(o.filled))
        /\ misread' = Add(misread, job[p].asset, -Beyond(job[p].dry, o))
        /\ alarms' = IF job[p].ok /\ ~o.ok THEN alarms \cup {job[p].asset} ELSE alarms
        /\ Done(p)
    /\ UNCHANGED <<spot, cb, window, monitor, cut, scans, crashes>>

\* A CRITICAL line, and no more, when one leg of the two is said to have failed.
ArbPerpLeg(p) ==
    /\ job[p].step = "perp"
    /\ \E o \in LegOutcomes(job[p].dry) :
        /\ perp' = Add(perp, job[p].asset, Unit(o.filled))
        /\ misread' = Add(misread, job[p].asset, -Beyond(job[p].dry, o))
        /\ alarms' = IF o.ok # job[p].ok THEN alarms \cup {job[p].asset} ELSE alarms
        /\ Done(p)
    /\ UNCHANGED <<spot, cb, window, monitor, cut, scans, crashes>>

\* open_basis_trade: the perp leg first; in backwardation it is the only one.
BasisPerpLeg(p) ==
    /\ job[p].step = "basis_perp"
    /\ \E o \in LegOutcomes(FALSE) :
        /\ perp' = Add(perp, job[p].asset, Unit(o.filled))
        /\ misread' = Add(misread, job[p].asset, -Beyond(FALSE, o))
        /\ IF o.ok /\ job[p].basis > 0
           THEN InBasis(p, "coinbase", job[p].asset, job[p].basis) ELSE Done(p)
    /\ UNCHANGED <<spot, cb, window, monitor, alarms, cut, scans, crashes>>

\* execute_spot_market_buy: an exception of any kind, an answer lost after the fill too,
\* leads to the unwinding of the perp leg.
BasisCoinbaseLeg(p) ==
    /\ job[p].step = "coinbase"
    /\ \E o \in LegOutcomes(FALSE) :
        /\ cb' = Add(cb, job[p].asset, Unit(o.filled))
        /\ misread' = Add(misread, job[p].asset, Beyond(FALSE, o))
        /\ alarms' = IF o.ok THEN alarms ELSE alarms \cup {job[p].asset}
        /\ IF o.ok THEN Done(p) ELSE InBasis(p, "unwind", job[p].asset, job[p].basis)
    /\ UNCHANGED <<spot, perp, window, monitor, cut, scans, crashes>>

\* Mutant: the unwinding buy is not reduce-only.
BasisUnwindBuys(p) ==
    /\ job[p].step = "unwind"
    /\ \E closed \in BOOLEAN :
        perp' = IF closed THEN [perp EXCEPT ![job[p].asset] = @ - 1] ELSE perp
    /\ Done(p)
    /\ UNCHANGED <<spot, cb, window, monitor, alarms, cut, misread, scans, crashes>>

\* _close_perp_short: a reduce-only buy whose answer is not looked at; it closes a short of
\* the asset, not necessarily this entry's.
BasisUnwind(p) ==
    /\ job[p].step = "unwind"
    /\ \E closed \in BOOLEAN :
        perp' = IF closed /\ perp[job[p].asset] > 0
              THEN [perp EXCEPT ![job[p].asset] = @ - 1] ELSE perp
    /\ Done(p)
    /\ UNCHANGED <<spot, cb, window, monitor, alarms, cut, misread, scans, crashes>>

EntryStep(p) ==
    \/ ArbSpotLeg(p)
    \/ ArbPerpLeg(p)
    \/ BasisPerpLeg(p)
    \/ BasisCoinbaseLeg(p)
    \/ BasisUnwind(p)

(***************************************************************************)
(* Monitor                                                                 *)
(***************************************************************************)

\* The rates and the time to the next funding are read once for the whole scan.
BeginScan ==
    /\ ~monitor.scanning /\ scans < MaxScans
    /\ \E rates \in [Assets -> RateLevels], predicted \in [Assets -> RateLevels] :
        monitor' = [rates |-> [a \in {b \in Assets : Actionable(rates[b], predicted[b])} |-> rates[a]],
                    window |-> window, scanning |-> TRUE]
    /\ scans' = scans + 1
    /\ UNCHANGED <<spot, perp, cb, window, job, alarms, cut, misread, crashes>>

WithoutAsset(rates, a) == [b \in DOMAIN rates \ {a} |-> rates[b]]

\* One asset of the scan, the best rate first; it enters only if the scan began inside the
\* window, and as often as it is asked: no open position is remembered.
ScanAsset ==
    /\ monitor.scanning /\ job["monitor"] = Idle
    /\ \E a \in DOMAIN monitor.rates, basis \in BasisSeen :
        /\ \A b \in DOMAIN monitor.rates : monitor.rates[b] <= monitor.rates[a]
        /\ monitor' = [monitor EXCEPT !.rates = WithoutAsset(monitor.rates, a)]
        /\ LET carry == Carry(monitor.rates[a], basis) IN
           \/ /\ monitor.window /\ carry = "funding"
              /\ StartArb("monitor", a, HlDryRun)
           \/ /\ monitor.window /\ carry = "basis" /\ ~BasisDryRun
              /\ StartBasis("monitor", a, basis)
           \/ /\ ~monitor.window \/ carry = "no_trade" \/ (carry = "basis" /\ BasisDryRun)
              /\ UNCHANGED job
    /\ UNCHANGED <<spot, perp, cb, window, alarms, cut, misread, scans, crashes>>

EndScan ==
    /\ monitor.scanning /\ DOMAIN monitor.rates = {} /\ job["monitor"] = Idle
    /\ monitor' = Asleep
    /\ UNCHANGED <<spot, perp, cb, window, job, alarms, cut, misread, scans, crashes>>

\* The hour goes on, in the middle of a scan too.
WindowMoves ==
    /\ window' = ~window
    /\ UNCHANGED <<spot, perp, cb, monitor, job, alarms, cut, misread, scans, crashes>>

\* The process ends: an entry it was in is left as it is, and nobody takes it up again.
ForgetEntry(p) ==
    /\ crashes < MaxCrashes /\ crashes' = crashes + 1
    /\ cut' = IF job[p] = Idle THEN cut ELSE cut \cup {job[p].asset}
    /\ Done(p)

MonitorRestarts ==
    /\ ForgetEntry("monitor")
    /\ monitor' = Asleep
    /\ UNCHANGED <<spot, perp, cb, window, alarms, misread, scans>>

InitFunding ==
    /\ spot = [a \in Assets |-> 0] /\ perp = spot /\ cb = spot /\ misread = spot
    /\ window \in BOOLEAN
    /\ monitor = Asleep
    /\ job = [p \in Processes |-> Idle]
    /\ alarms = {} /\ cut = {}
    /\ scans = 0 /\ crashes = 0

MonitorStep == BeginScan \/ ScanAsset \/ EndScan \/ EntryStep("monitor")

NextFunding == MonitorStep \/ WindowMoves \/ MonitorRestarts

(***************************************************************************)
(* Properties                                                              *)
(***************************************************************************)

Entering(a) == \E p \in Processes : job[p] # Idle /\ job[p].asset = a
Exposure(a) == spot[a] + cb[a] - perp[a]

\* An asset without a CRITICAL line in the log, with no entry of it under way and none cut
\* in two by the end of its process, is exposed by exactly the answers the program misread:
\* a refusal in a body taken for success, an order filled whose answer was lost.  Each such
\* answer is a one-sided position nobody was told of; no sequence of answers read rightly,
\* unwindings and entries of two processes in the same asset leaves one, or hides one.
UnreportedIsMisread ==
    \A a \in Assets : ~Entering(a) => a \in alarms \cup cut \/ Exposure(a) = misread[a]

\* Backwardation (a negative basis) would open a perp leg alone, and a short where the log
\* says long: the comparison of the two carries never picks it.
NoBackwardation ==
    \A p \in Processes : job[p].step \in {"basis_perp", "coinbase", "unwind"} => job[p].basis > 0
=============================================================================
