---------------------------- MODULE MCWeightSetting ----------------------------
(* Values of WeightSetting's constants for TLC. *)
EXTENDS WeightSetting

\* One host: a validator, or a reign worker and a setter on the same file.
MCOneHost == {[p \in Process |-> IF p = "first" THEN "validator" ELSE "none"],
              [p \in Process |-> IF p = "first" THEN "reign" ELSE "setter"]}
MCOneFile == [p \in Process |-> 1]
\* Two validators, each with its file.
MCTwoHosts == {[p \in Process |-> "validator"]}
MCTwoFiles == [p \in Process |-> p]
\* A position that depends on the seed and on the window.
MCBurnPosition ==
    [s \in Seed \cup {0} |-> [w \in 0..MaxBlock |-> (s + w) % BURN_WINDOW_TEMPOS]]
=============================================================================
