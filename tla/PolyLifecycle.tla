---------------------------- MODULE PolyLifecycle ----------------------------
(***************************************************************************)
(* What the Polymarket positions ledger promises its readers               *)
(* (src/src/polymarket/positions.py): a list of records that only grows,   *)
(* whose statuses only move along the edges of VALID_TRANSITIONS, and of   *)
(* which at most MaxPositions are active at any time (check 6 of           *)
(* src/src/polymarket/risk.py).  Nothing is said here of orders, markets,  *)
(* processes or files: PolyPositions implements this specification.        *)
(***************************************************************************)
EXTENDS PolyStatus, Naturals, Sequences, FiniteSets

CONSTANT MaxPositions          \* config.max_positions

VARIABLE status                \* the status of each record, oldest first

ActiveRecords == {i \in DOMAIN status : status[i] \in ACTIVE_STATUSES}

Init == status = << >>

\* A new record is active from the start, and needs a free position.
Add ==
    /\ Cardinality(ActiveRecords) < MaxPositions
    /\ \E s \in {"open", "unhedged"} : status' = Append(status, s)

Move ==
    \E i \in DOMAIN status : \E s \in VALID_TRANSITIONS[status[i]] :
        status' = [status EXCEPT ![i] = s]

Next == Add \/ Move

Spec == Init /\ [][Next]_status
=============================================================================
