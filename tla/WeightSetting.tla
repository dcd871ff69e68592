----------------------------- MODULE WeightSetting -----------------------------
(***************************************************************************)
(* How weights get on chain: core/burn_schedule.py, weight_setter/         *)
(* service.py (decide_weights, run) and the second half of a validator's   *)
(* cycle (validator/service.py, run_once), with the version-key gate, the  *)
(* owner's burn override and the rate limit.                               *)
(*                                                                         *)
(* A "validator" evaluates, saves and sets weights in one process; in the  *)
(* split deployment a "reign" worker evaluates and saves, and a "setter"   *)
(* reads its file and sets weights.  What a cycle reads from the chain it  *)
(* reads at its start: an evaluation may last many tempos.  How the pot is *)
(* divided is module Payout's; here weights burn or pay the winner.        *)
(***************************************************************************)
EXTENDS Naturals, FiniteSets

CONSTANTS
    None,
    Process,      \* processes
    Deployment,   \* functions from Process to "validator", "reign", "setter", "none"
    File,         \* state files
    FileOf,       \* FileOf[p]: the file of process p
    Seed,         \* what the outputs of a challenge round may hash to; 0: none yet
    BurnPosition, \* BurnPosition[s][w]: the hash of seed and window, modulo the window
    BURN_WINDOW_TEMPOS,
    BURN_ENABLED,
    WindowAnchor, \* --window-anchor, by default WINDOW_ANCHOR_BLOCK
    Tempo,        \* blocks per tempo
    RateLimit,    \* weights_rate_limit of the chain
    MaxBlock,     \* bound on the chain height
    MaxVersion    \* bound on the version keys

ASSUME WeightSettingAssumption ==
    /\ Deployment \subseteq [Process -> {"validator", "reign", "setter", "none"}]
    /\ FileOf \in [Process -> File]
    /\ Seed \subseteq Nat \ {0} /\ None \notin Nat
    /\ BURN_WINDOW_TEMPOS \in Nat \ {0} /\ BURN_ENABLED \in BOOLEAN
    /\ Tempo \in Nat \ {0} /\ RateLimit \in Nat
    /\ WindowAnchor \in Nat /\ MaxBlock \in Nat \ {0} /\ MaxVersion \in Nat \ {0}
    /\ \A s \in Seed \cup {0}, w \in 0..MaxBlock : BurnPosition[s][w] \in 0..(BURN_WINDOW_TEMPOS - 1)

VARIABLES
    kind,            \* kind[p]: which program p runs
    block,           \* chain height
    weights_version, \* the subnet's hyperparameter
    override,        \* whether the owner's commitment says force_burn
    onchain,         \* onchain[p]: the weights p's hotkey has on chain
    remaining,       \* remaining[p]: blocks until set_weights is accepted again
    key,             \* key[p]: __version_key__ of the release p runs
    file,            \* file[f]: window_anchor_block and last_round_outputs
    phase,           \* phase[p]: how far p's cycle is
    cycle,           \* cycle[p]: what the cycle read or decided
    decided          \* history: decided[p], the scheduled tempos p decided in one window

chain == <<block, weights_version, override, onchain, remaining>>
vars == <<kind, chain, key, file, phase, cycle, decided>>

Setting == {p \in Process : kind[p] \in {"validator", "setter"}}
Weights == {"burn", "winner"}
StateFile == [anchor : Nat \cup {None}, outputs : Seed \cup {None}]
Cycle == [block : Nat, force_burn : BOOLEAN, anchor : Nat,
          outputs : Seed \cup {None}, version : Nat, burn : BOOLEAN]
EmptyCycle == [block |-> 0, force_burn |-> FALSE, anchor |-> 0,
               outputs |-> None, version |-> 0, burn |-> FALSE]

-----------------------------------------------------------------------------
(* The burn schedule.                                                      *)

derive_burn_seed(outputs) == IF outputs = None THEN 0 ELSE outputs

tempo_index(b, anchor) == (IF b > anchor THEN b - anchor ELSE 0) \div Tempo

window_index(b, anchor) == tempo_index(b, anchor) \div BURN_WINDOW_TEMPOS

\* Mutant: the window is counted in tempos, so every tempo draws a position.
is_burn_tempo_PerTempo(b, seed, anchor) ==
    LET idx == tempo_index(b, anchor)
    IN  idx % BURN_WINDOW_TEMPOS = BurnPosition[seed][idx]

is_burn_tempo(b, seed, anchor) ==
    tempo_index(b, anchor) % BURN_WINDOW_TEMPOS = BurnPosition[seed][window_index(b, anchor)]

\* Mutant: the schedule alone decides.
burns_ScheduleOnly(c) ==
    BURN_ENABLED /\ is_burn_tempo(c.block, derive_burn_seed(c.outputs), c.anchor)

\* decide_weights: the override can only force a burn, never suppress one.
burns(c) ==
    \/ c.force_burn
    \/ BURN_ENABLED /\ is_burn_tempo(c.block, derive_burn_seed(c.outputs), c.anchor)

\* compute_weights, with a ladder that pays somebody.
compute_weights(c) == IF c.burn THEN "burn" ELSE "winner"

\* Mutant: an anchor that was never saved stays unset.
window_anchor_Unset(f) == file[f].anchor

\* args.window_anchor or block: an anchor of 0 is false, and the block is taken.
window_anchor(f) ==
    IF file[f].anchor # None THEN file[f].anchor
    ELSE IF WindowAnchor # 0 THEN WindowAnchor ELSE block

-----------------------------------------------------------------------------
(* A cycle.                                                                *)

\* Mutant: a process scores and sets weights whatever the chain's version.
VersionMatches_Ignored(p) == TRUE

\* assert_weights_version_matches: on a mismatch the cycle is skipped.
VersionMatches(p) == key[p] = weights_version

\* The reads at the start of a cycle.  A setter goes on without the override when it
\* cannot read the commitments; a validator's cycle fails.
Start(p, read) ==
    /\ phase[p] = "idle" /\ kind[p] # "none" /\ VersionMatches(p)
    /\ ~read => kind[p] = "setter"
    /\ cycle' = [cycle EXCEPT ![p] =
            [block |-> block, force_burn |-> read /\ override,
             anchor |-> window_anchor(FileOf[p]), outputs |-> file[FileOf[p]].outputs,
             version |-> weights_version, burn |-> FALSE]]
    /\ phase' = [phase EXCEPT ![p] = IF kind[p] = "setter" THEN "evaluated" ELSE "started"]
    /\ UNCHANGED <<kind, chain, key, file, decided>>

\* _evaluate_round: a round with challengers may leave new outputs.
Evaluate(p) ==
    /\ phase[p] = "started"
    /\ \E outputs \in Seed \cup {cycle[p].outputs} :
          cycle' = [cycle EXCEPT ![p].outputs = outputs]
    /\ phase' = [phase EXCEPT ![p] = "evaluated"]
    /\ UNCHANGED <<kind, chain, key, file, decided>>

\* What a cycle knows does not outlive it.
Idle(p) ==
    /\ phase' = [phase EXCEPT ![p] = "idle"]
    /\ cycle' = [cycle EXCEPT ![p] = EmptyCycle]

Saved(p) ==
    [file EXCEPT ![FileOf[p]] = [anchor |-> cycle[p].anchor, outputs |-> cycle[p].outputs]]

\* run_reign_only ends with the save.
SaveReign(p) ==
    /\ phase[p] = "evaluated" /\ kind[p] = "reign"
    /\ file' = Saved(p)
    /\ Idle(p)
    /\ UNCHANGED <<kind, chain, key, decided>>

\* History: the tempos decided under one schedule, and whether they burn.
Decision(p) ==
    LET c == cycle[p]
        now == [schedule |-> <<c.outputs, c.anchor, window_index(c.block, c.anchor)>>,
                tempos |-> {<<tempo_index(c.block, c.anchor), burns(c)>>}]
    IN  IF c.force_burn THEN decided[p]
        ELSE IF decided[p] = None \/ decided[p].schedule # now.schedule THEN now
        ELSE [now EXCEPT !.tempos = @ \cup decided[p].tempos]

\* decide_weights; a validator saves before it submits, a setter never saves.
Decide(p) ==
    /\ phase[p] = "evaluated" /\ p \in Setting
    /\ cycle' = [cycle EXCEPT ![p].burn = burns(cycle[p])]
    /\ file' = IF kind[p] = "validator" THEN Saved(p) ELSE file
    /\ decided' = [decided EXCEPT ![p] = Decision(p)]
    /\ phase' = [phase EXCEPT ![p] = "decided"]
    /\ UNCHANGED <<kind, chain, key>>

\* The chain takes weights of its version, or of a later one (external).
Accepts(p) == key[p] >= weights_version

Accepted(p) ==
    /\ phase[p] = "decided" /\ remaining[p] = 0 /\ Accepts(p)
    /\ onchain' = [onchain EXCEPT ![p] = compute_weights(cycle[p])]
    /\ remaining' = [remaining EXCEPT ![p] = RateLimit]
    /\ Idle(p)
    /\ UNCHANGED <<kind, block, weights_version, override, key, file, decided>>

\* Rate limited, refused by the chain, or an exception or restart anywhere: the next
\* cycle starts from the file.
End(p) ==
    /\ phase[p] # "idle"
    /\ Idle(p)
    /\ UNCHANGED <<kind, chain, key, file, decided>>

\* The auto-updater restarts p on the next release, or rolls back to the one before.
Release(p) ==
    /\ kind[p] # "none"
    /\ \E k \in {key[p] + 1, key[p] - 1} \cap 1..MaxVersion : key' = [key EXCEPT ![p] = k]
    /\ Idle(p)
    /\ UNCHANGED <<kind, chain, file, decided>>

-----------------------------------------------------------------------------
(* The chain.  Time goes on at the bound of the height.                    *)

Tick ==
    /\ block < MaxBlock \/ \E p \in Process : remaining[p] > 0
    /\ block' = IF block < MaxBlock THEN block + 1 ELSE block
    /\ remaining' = [p \in Process |-> IF remaining[p] > 0 THEN remaining[p] - 1 ELSE 0]
    /\ UNCHANGED <<kind, weights_version, override, onchain, key, file, phase, cycle, decided>>

\* The owner publishes force_burn or takes it back.
Override ==
    /\ override' = ~override
    /\ UNCHANGED <<kind, block, weights_version, onchain, remaining, key, file, phase, cycle,
                   decided>>

\* The owner sets the subnet's weights_version to another release, later or earlier.
SetVersion ==
    /\ \E v \in 1..MaxVersion \ {weights_version} : weights_version' = v
    /\ UNCHANGED <<kind, block, override, onchain, remaining, key, file, phase, cycle, decided>>

Init ==
    /\ kind \in Deployment
    /\ block = 1 /\ weights_version = 1 /\ override = FALSE
    /\ onchain = [p \in Process |-> None] /\ remaining = [p \in Process |-> 0]
    /\ key = [p \in Process |-> 1]
    /\ file = [f \in File |-> [anchor |-> None, outputs |-> None]]
    /\ phase = [p \in Process |-> "idle"] /\ cycle = [p \in Process |-> EmptyCycle]
    /\ decided = [p \in Process |-> None]

Step(p) == Start(p, TRUE) \/ Start(p, FALSE) \/ Evaluate(p) \/ SaveReign(p) \/ Decide(p)
           \/ Accepted(p)

Next == Tick \/ Override \/ SetVersion \/ \E p \in Process : Step(p) \/ End(p) \/ Release(p)

Spec == Init /\ [][Next]_vars

-----------------------------------------------------------------------------
(* Properties.                                                             *)

\* The variables have their types.
TypeOK ==
    /\ kind \in Deployment
    /\ block \in 1..MaxBlock /\ weights_version \in 1..MaxVersion
    /\ override \in BOOLEAN
    /\ onchain \in [Process -> Weights \cup {None}]
    /\ remaining \in [Process -> 0..RateLimit] /\ key \in [Process -> 1..MaxVersion]
    /\ file \in [File -> StateFile]
    /\ phase \in [Process -> {"idle", "started", "evaluated", "decided"}]
    /\ cycle \in [Process -> Cycle]

\* As long as seed and anchor stay what they are, one tempo of a window burns, whichever
\* of its blocks the cycles fall on: never two, and one when every tempo had a cycle
\* (burn_schedule.py:4).
OneBurnPerWindow ==
    \A p \in Setting : decided[p] # None =>
        LET burning == {t[1] : t \in {u \in decided[p].tempos : u[2]}}
            paying == {t[1] : t \in {u \in decided[p].tempos : ~u[2]}}
        IN  /\ Cardinality(burning) <= 1 /\ burning \cap paying = {}
            /\ Cardinality(burning \cup paying) = BURN_WINDOW_TEMPOS => burning # {}

\* Fail closed, whatever releases, rollbacks and changes of the hyperparameter fall into
\* a cycle: weights are taken only from a cycle that passed the gate under the release
\* that sets them, and only while the chain asks for none later.  (The gate is at the
\* start of a cycle: a chain that goes back to an earlier version in mid cycle takes them.)
FailClosed ==
    [][\A p \in Process : Accepted(p) =>
          cycle[p].version = key[p] /\ cycle[p].version >= weights_version]_vars

\* The owner's override reaches the chain: while it stands, every process that sets
\* weights burns at last, unless it runs another version than the chain asks for.
OverrideTakesEffect ==
    \A p \in Process :
        p \in Setting /\ override
        ~> ~override \/ onchain[p] = "burn" \/ key[p] # weights_version

\* The steps of a cycle that is not cut short.
RunsOn(p) == Start(p, TRUE) \/ Evaluate(p) \/ SaveReign(p) \/ Decide(p) \/ Accepted(p)
             \/ (phase[p] = "decided" /\ End(p))

\* Cycles run on, blocks are made, and weights are accepted again and again; failed
\* reads, exceptions and releases stop at some point.
FairSpec ==
    /\ Spec
    /\ <>[][/\ key' = key
             /\ \A p \in Process : ~Start(p, FALSE) /\ (End(p) => phase[p] = "decided")]_vars
    /\ \A p \in Process : WF_vars(RunsOn(p)) /\ SF_vars(Accepted(p))
    /\ WF_vars(Tick)

\* The burn windows of all validators are in step (core/constants.py:251): two that decide
\* for the same block with the same seed decide the same.
BurnTogether ==
    \A p, q \in Setting :
        /\ phase[p] = "decided" /\ phase[q] = "decided"
        /\ cycle[p].block = cycle[q].block /\ cycle[p].outputs = cycle[q].outputs
        /\ ~cycle[p].force_burn /\ ~cycle[q].force_burn
        => cycle[p].burn = cycle[q].burn

=============================================================================
