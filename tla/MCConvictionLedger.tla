-------------------------- MODULE MCConvictionLedger --------------------------
(* Values of ConvictionLedger's constants for TLC. *)
EXTENDS ConvictionLedger

\* Emissions whose sums are different for different sets of samples.
MCEmission == [b \in 0..MaxBlock |-> [h \in Hotkey |-> h * 2 ^ b]]

MCOwed ==
    LET Sum[b \in 0..MaxBlock] ==
            IF b <= Start THEN [h \in Hotkey |-> 0]
            ELSE IF (b - Start) % Tempo = 0
            THEN [h \in Hotkey |-> Sum[b - 1][h] + MCEmission[b][h]] ELSE Sum[b - 1]
    IN  Sum

\* A validator and the weight setter on one file.
MCOneFile == [p \in Process |-> 1]
=============================================================================
