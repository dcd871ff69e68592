------------------------------- MODULE MCReign -------------------------------
(* Values of Reign's constants for TLC. *)
EXTENDS Reign

MCNoStartBlock == [v \in {} |-> 0]
\* Version 2 is a score-compatible bump that began at block 2.
MCStartAt2 == [v \in {2} |-> 2]
=============================================================================
