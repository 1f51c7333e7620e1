----------------------------- MODULE SignalBounds -----------------------------
(***************************************************************************)
(* The parameters of the Polymarket signal scorer, their bounds, and the   *)
(* threads that work on them: the scanner's process, and the requests and  *)
(* the hourly loop of the API process.  Values are in thousandths.         *)
(***************************************************************************)
EXTENDS Integers, FiniteSets, Functions

CONSTANTS Params,         \* the rules' parameters
          Defaults,       \* _DEFAULT_PARAMS
          Lo, Hi,         \* _MULTIPLIER_BOUNDS and _BONUS_BOUNDS, by parameter
          RequestThreads  \* request threads of the API process

Valid(ps) == \A p \in Params : Lo[p] <= ps[p] /\ ps[p] <= Hi[p]

ASSUME ParamsAssumption ==
    /\ Lo \in [Params -> Nat] /\ Hi \in [Params -> Nat]
    /\ \A p \in Params : Lo[p] <= Hi[p]
    /\ Defaults \in [Params -> Nat] /\ Valid(Defaults)
    /\ {"scanner", "loop"} \cap RequestThreads = {}

Processes == {"api", "worker"}
ProcessOf(t) == IF t = "scanner" THEN "worker" ELSE "api"

Idle == [op |-> "idle"]

Least(a, b) == IF a <= b THEN a ELSE b
Greatest(a, b) == IF a >= b THEN a ELSE b
=============================================================================
