------------------------------ MODULE MCAdmission ------------------------------
(* Values of Admission's constants for TLC. *)
EXTENDS Admission

\* Hotkey 2 publishes a codec and hotkey 1, first in string order, a copy of it.
MCCopyOf == [h \in Hotkey |-> IF h = 1 THEN 2 ELSE None]
=============================================================================
