----------------------------- MODULE MCAiProposals -----------------------------
(* Instance of AiProposals: one multiplier next to its upper bound, in thousandths; the model *)
(* answers with the bound or with more.                                                       *)
EXTENDS AiProposals

CONSTANT multiplier

MCDefaults == [p \in Params |-> 1400]
MCLo == [p \in Params |-> 500]
MCHi == [p \in Params |-> 1500]
=============================================================================
