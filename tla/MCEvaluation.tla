------------------------------ MODULE MCEvaluation ------------------------------
(* Values of Evaluation's constants for TLC. *)
EXTENDS Evaluation

\* A working incumbent that fits the card, and any working challenger, or a broken one.
MCLine == {<<c, d>> : c \in {k \in Codec : k.sound /\ k.vram = "fits"},
                      d \in {k \in Codec : k.sound \/ k.vram = "fits"}}
=============================================================================
