----------------------------- MODULE MCSignalParams -----------------------------
(* Instance of SignalParams: one multiplier next to its upper bound and one bonus, values in  *)
(* thousandths: a tenth more of either is cut at the bound.                                   *)
EXTENDS SignalParams

CONSTANTS multiplier, bonus

MCParams == {multiplier, bonus}
MCDefaults == [p \in MCParams |-> IF p = multiplier THEN 1400 ELSE 140]
MCLo == [p \in MCParams |-> IF p = multiplier THEN 500 ELSE 0]
MCHi == [p \in MCParams |-> IF p = multiplier THEN 1500 ELSE 150]
=============================================================================
