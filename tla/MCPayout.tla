------------------------------- MODULE MCPayout -------------------------------
(* Values of Payout's constants for TLC. *)
EXTENDS Payout

MCRequired == [h \in Hotkey |-> 1]
=============================================================================
