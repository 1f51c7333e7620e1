------------------------------ MODULE PolyStatus ------------------------------
(***************************************************************************)
(* The status machine of a Polymarket position record, as the table at the *)
(* top of src/src/polymarket/positions.py gives it.                        *)
(***************************************************************************)

Statuses == {"open", "unhedged", "closing", "closed", "resolved", "stale"}

\* Records that still hold a position slot.
ACTIVE_STATUSES == {"open", "unhedged", "closing"}

\* Records whose P&L is realized.
FINAL_STATUSES == {"closed", "resolved"}

\* Mutant: a closing record can only be closed again.
VALID_TRANSITIONS_NeverClosed ==
    [ open     |-> {"closing", "resolved", "stale"},
      closing  |-> {"closing"},
      unhedged |-> {"closing", "closed"},
      closed   |-> {},
      resolved |-> {},
      stale    |-> {} ]

VALID_TRANSITIONS ==
    [ open     |-> {"closing", "resolved", "stale"},
      closing  |-> {"closed", "closing"},
      unhedged |-> {"closing", "closed"},
      closed   |-> {},
      resolved |-> {},
      stale    |-> {} ]

\* Statuses nothing leads out of.
TERMINAL == {s \in Statuses : VALID_TRANSITIONS[s] = {}}
=============================================================================
