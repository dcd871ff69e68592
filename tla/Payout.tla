-------------------------------- MODULE Payout --------------------------------
(***************************************************************************)
(* Who is paid at a weight-setting: the conviction report of the winners   *)
(* (validator/service.py, core/conviction.py), the choice of payees and    *)
(* the split of the pot (core/weights.py).  The metagraph is fetched       *)
(* before a round is evaluated, which may take long; the locks are read    *)
(* one winner at a time afterwards, and a read may fail.  Stake and locks  *)
(* move on chain between any two steps.  The blocks at which the gate and  *)
(* the lock rule begin are past.                                           *)
(***************************************************************************)
EXTENDS Naturals, Sequences

CONSTANTS
    Hotkey,         \* hotkeys
    Burn,           \* the hotkey at burn_uid
    Alpha,          \* amounts of alpha: 0..MaxAlpha for a bound MaxAlpha
    Required,       \* required_conviction of each hotkey's earnings
    Unit,           \* the pot, and the scale of every fraction
    BaseShare,      \* WINNER_BASE_SHARE, as a fraction of Unit
    Multiplier,     \* WINNER_IMPROVEMENT_MULTIPLIER
    Improvement,    \* improvements a ladder entry may carry, fractions of Unit
    MaxHistory      \* bound on the ladder's length

ASSUME PayoutAssumption ==
    /\ Burn \in Hotkey
    /\ Alpha \subseteq Nat /\ 0 \in Alpha
    /\ Required \in [Hotkey -> Nat]
    /\ Unit \in Nat \ {0} /\ BaseShare \in 1..Unit /\ Multiplier \in Nat
    /\ Improvement \subseteq 0..Unit
    /\ MaxHistory \in Nat

VARIABLES
    history,    \* winner_history: hotkey and improvement, newest winner first
    stake,      \* stake[h]: alpha staked to h, on chain
    locked,     \* locked[h]: the part of it that is locked
    metagraph,  \* the hotkeys and stakes fetched before the evaluation
    phase,      \* how far the round is
    at,         \* the report's place in the ladder
    report,     \* report[h]: compliant, gated, or absent
    pot_left,   \* what the winners the report passed leave of the pot
    paid_any,   \* the report has found a compliant winner
    weights,    \* weights[h]: what of the pot h is paid, before normalisation
    burned,     \* the tempo was a burn tempo, scheduled or forced
    covered     \* for the properties: locks that covered Required since the fetch

onchain == <<stake, locked>>
walk == <<at, report, pot_left, paid_any>>
vars == <<history, onchain, metagraph, phase, walk, weights, burned, covered>>

Rung == [hotkey : Hotkey, improvement : Improvement]

\* A hotkey holds one rung.
Ladder == {l \in UNION {[1..n -> Rung] : n \in 0..MaxHistory} :
              \A i, j \in DOMAIN l : l[i].hotkey = l[j].hotkey => i = j}

Smaller(a, b) == IF a <= b THEN a ELSE b
Less(a, b) == IF a <= b THEN 0 ELSE a - b

winner_share(entry, is_top_payee) ==
    (IF is_top_payee THEN BaseShare ELSE 0) + Multiplier * entry.improvement

\* Payment is for registered hotkeys, and not for the burn sink.
Payable(h) == h \in metagraph.hotkeys /\ h # Burn

\* Mutant: the report does not pass over the burn sink (PR #176).
Reportable_Burn(h) == h \in metagraph.hotkeys

\* The report, which is another piece of code, has to pass over the same hotkeys.
Reportable(h) == h \in metagraph.hotkeys \ {Burn}

-----------------------------------------------------------------------------
(* The round.                                                              *)

Covered == {h \in Hotkey : locked[h] >= Required[h]}

\* chain.metagraph(), then the evaluation.
Fetch ==
    /\ phase \in {"idle", "set"}
    /\ \E hotkeys \in {H \in SUBSET Hotkey : Burn \in H} :
          metagraph' = [hotkeys |-> hotkeys, staked |-> stake]
    /\ covered' = Covered
    /\ phase' = "reporting"
    /\ at' = 1 /\ report' = [h \in Hotkey |-> "absent"]
    /\ pot_left' = Unit /\ paid_any' = FALSE
    /\ weights' = [h \in Hotkey |-> 0] /\ burned' = FALSE
    /\ UNCHANGED <<history, onchain>>

Reporting == phase = "reporting" /\ at <= Len(history) /\ (paid_any => pot_left > 0)

Skip ==
    /\ Reporting /\ ~Reportable(history[at].hotkey)
    /\ at' = at + 1
    /\ UNCHANGED <<history, onchain, metagraph, phase, report, pot_left, paid_any,
                   weights, burned, covered>>

\* Mutant: a read that failed counts as no lock at all (issue #175).
Measured_Zero(h, read) == IF read THEN locked[h] ELSE 0

\* conviction_report's measured alpha: the lock, or the staked rule if the read of
\* this winner's lock failed.
Measured(h, read) == IF read THEN locked[h] ELSE metagraph.staked[h]

\* Mutant: the report charges a winner more than is left of the pot.
Spent_Uncapped(entry) == winner_share(entry, ~paid_any)

Spent(entry) == Smaller(winner_share(entry, ~paid_any), pot_left)

\* One winner's line of the report.
Assess ==
    /\ Reporting /\ Reportable(history[at].hotkey)
    /\ \E read \in BOOLEAN :
          LET entry == history[at]
              compliant == Measured(entry.hotkey, read) >= Required[entry.hotkey]
          IN  /\ report' = [report EXCEPT
                    ![entry.hotkey] = IF compliant THEN "compliant" ELSE "gated"]
              /\ pot_left' = IF compliant THEN pot_left - Spent(entry) ELSE pot_left
              /\ paid_any' = (paid_any \/ compliant)
    /\ at' = at + 1
    /\ UNCHANGED <<history, onchain, metagraph, phase, weights, burned, covered>>

gated_hotkeys == {h \in Hotkey : report[h] = "gated"}

\* Mutant: the walk ends at a gated winner, so its share burns (before #170).
select_payees_Break ==
    {i \in DOMAIN history : /\ Payable(history[i].hotkey)
                            /\ \A j \in 1..i : history[j].hotkey \notin gated_hotkeys}

\* The payees, as rungs of the ladder.
select_payees ==
    {i \in DOMAIN history : Payable(history[i].hotkey) /\ history[i].hotkey \notin gated_hotkeys}

share(payees, i) == winner_share(history[i], \A j \in payees : i <= j)

\* What of the pot is left below each rung.
remaining(payees) ==
    LET left[i \in 0..Len(history)] ==
            IF i = 0 THEN Unit
            ELSE IF i \in payees THEN Less(left[i - 1], share(payees, i)) ELSE left[i - 1]
    IN  left

\* Mutant: no remainder cap.
allocate_pot_Uncapped(payees) == [i \in payees |-> share(payees, i)]

\* Each payee takes its share of what those above it leave.  (Shares that do not fill
\* the pot are then scaled up to it, which keeps their proportions.)
allocate_pot(payees) == [i \in payees |-> Smaller(share(payees, i), remaining(payees)[i - 1])]

compute_weights(burn) ==
    LET payees == select_payees
        paid == allocate_pot(payees)
    IN  IF burn \/ payees = {}
        THEN [h \in Hotkey |-> IF h = Burn THEN Unit ELSE 0]
        ELSE [h \in Hotkey |->
                IF \E i \in payees : history[i].hotkey = h
                THEN paid[CHOOSE i \in payees : history[i].hotkey = h] ELSE 0]

\* decide_weights and set_weights, once the report has stopped.
SetWeights ==
    /\ phase = "reporting" /\ ~Reporting
    /\ burned' \in BOOLEAN
    /\ weights' = compute_weights(burned')
    /\ phase' = "set"
    /\ UNCHANGED <<history, onchain, metagraph, walk, covered>>

-----------------------------------------------------------------------------
(* The chain.                                                              *)

\* A miner stakes, unstakes, locks, or lets a lock decay: locks stay staked.
Move(h) ==
    /\ \E s \in Alpha, l \in Alpha :
          /\ l <= s
          /\ stake' = [stake EXCEPT ![h] = s]
          /\ locked' = [locked EXCEPT ![h] = l]
    /\ covered' = covered \ {g \in Hotkey : locked'[g] < Required[g]}
    /\ UNCHANGED <<history, metagraph, phase, walk, weights, burned>>

Init ==
    /\ history \in Ladder
    /\ stake = [h \in Hotkey |-> 0] /\ locked = [h \in Hotkey |-> 0]
    /\ metagraph = [hotkeys |-> {}, staked |-> stake]
    /\ phase = "idle"
    /\ at = 1 /\ report = [h \in Hotkey |-> "absent"]
    /\ pot_left = Unit /\ paid_any = FALSE
    /\ weights = [h \in Hotkey |-> 0] /\ burned = FALSE
    /\ covered = Covered

Next == Fetch \/ Skip \/ Assess \/ SetWeights \/ \E h \in Hotkey : Move(h)

Spec == Init /\ [][Next]_vars

-----------------------------------------------------------------------------

TypeOK ==
    /\ history \in Ladder
    /\ stake \in [Hotkey -> Alpha] /\ locked \in [Hotkey -> Alpha]
    /\ metagraph \in [hotkeys : SUBSET Hotkey, staked : [Hotkey -> Alpha]]
    /\ phase \in {"idle", "reporting", "set"}
    /\ at \in 1..(Len(history) + 1)
    /\ report \in [Hotkey -> {"absent", "compliant", "gated"}]
    /\ pot_left \in 0..Unit /\ paid_any \in BOOLEAN
    /\ weights \in [Hotkey -> 0..Unit] /\ burned \in BOOLEAN
    /\ covered \in SUBSET Hotkey

\* Nobody is paid without a check: the report may stop early because payment stops at
\* the same rung, whatever reads fail and whoever is gated in between.
PaidWereChecked ==
    phase = "set" => \A h \in Hotkey \ {Burn} :
        weights[h] > 0 => report[h] = "compliant"

\* A winner whose lock has covered its requirement since the metagraph was fetched is
\* never gated, even when its lock cannot be read.
CoveredIsNeverGated == \A h \in covered : report[h] # "gated"

\* Outside burn tempos the pot burns only if every payable winner was found wanting.
BurnsOnlyIfNoneQualifies ==
    phase = "set" /\ ~burned /\ weights[Burn] > 0 =>
        \A i \in DOMAIN history :
            Payable(history[i].hotkey) => report[history[i].hotkey] = "gated"

\* What the ladder is paid down to each rung.
paid_down_to[i \in 0..Len(history)] ==
    IF i = 0 THEN 0 ELSE paid_down_to[i - 1] + weights[history[i].hotkey]

\* The pot is spent once, from the top: whoever is paid leaves no compliant winner above
\* it short of the share its improvement earns (the base share of the top comes on top).
PaidFromTheTop ==
    phase = "set" /\ ~burned =>
        /\ paid_down_to[Len(history)] <= Unit
        /\ \A i, j \in DOMAIN history :
              /\ i < j /\ weights[history[j].hotkey] > 0
              /\ report[history[i].hotkey] = "compliant"
              => weights[history[i].hotkey] >= winner_share(history[i], FALSE)

=============================================================================
