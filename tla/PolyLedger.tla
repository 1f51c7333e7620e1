------------------------------ MODULE PolyLedger ------------------------------
(***************************************************************************)
(* What a caller of PositionsLedger (src/src/polymarket/positions.py) may  *)
(* take one call for: an atomic change of a table of records.  add() puts  *)
(* a record in, transition() moves one along VALID_TRANSITIONS, nothing    *)
(* takes one out.  PolyPositions treats the ledger this way; PolyLedgerFile *)
(* says when the file implements it.                                       *)
(***************************************************************************)
EXTENDS PolyStatus

CONSTANT Ids               \* record ids

VARIABLE recs              \* the table: id -> status

NoRecords == [id \in {} |-> "open"]

Init == recs = NoRecords

Add(id, s) ==
    /\ id \notin DOMAIN recs
    /\ s \in {"open", "unhedged"}
    /\ recs' = [i \in DOMAIN recs \cup {id} |-> IF i = id THEN s ELSE recs[i]]

Move(id, s) ==
    /\ id \in DOMAIN recs
    /\ s \in VALID_TRANSITIONS[recs[id]]
    /\ recs' = [recs EXCEPT ![id] = s]

Next == \E id \in Ids, s \in Statuses : Add(id, s) \/ Move(id, s)

Spec == Init /\ [][Next]_recs
=============================================================================
