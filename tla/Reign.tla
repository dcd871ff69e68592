-------------------------------- MODULE Reign --------------------------------
(***************************************************************************)
(* The king-of-the-hill round: validator/service.py (run_once,             *)
(* _evaluate_round), reign_worker/service.py (run_round) and the parts of  *)
(* core/state.py that decide what survives from one round to the next.     *)
(*                                                                         *)
(* A round loads the state file, prechecks what is on chain, compacts the  *)
(* ladder, evaluates the incumbent and the challengers, runs the gauntlet  *)
(* in commit order, publishes a new crown and saves the file.  An exception*)
(* or a restart anywhere before the save drops the memory of the round, so *)
(* the memory and the file are separate variables.  A round reads the      *)
(* chain once, so miners and blocks move between rounds.                   *)
(***************************************************************************)
EXTENDS WinnerLadder

CONSTANTS
    Hotkey,       \* hotkeys, naturals in their string order
    Recommitting, \* bound: hotkeys that return to the commit phase, or leave
    Unfetchable,  \* bound: hotkeys whose download may fail once the repository answered
    Artifact,     \* pinned repo@revision values, naturals in their string order
    Ratio,        \* the ratios an evaluation may measure
    Baseline,     \* the ratios zstd may reach on a round's streams
    MaxBlock,     \* bound on the chain height
    MaxVersion,   \* bound on SCORING_VERSION
    StartBlock    \* SCORING_VERSION_START_BLOCKS, on a subset of the versions

ASSUME ReignAssumption ==
    /\ Hotkey \subseteq Nat /\ Recommitting \subseteq Hotkey
    /\ Unfetchable \subseteq Hotkey
    /\ Artifact \subseteq Nat
    /\ Ratio \subseteq Nat \ {0}
    /\ Baseline \subseteq Nat
    /\ MaxBlock \in Nat \ {0}
    /\ MaxVersion \in Nat \ {0}
    /\ DOMAIN StartBlock \subseteq 1..MaxVersion
    /\ \A v \in DOMAIN StartBlock : StartBlock[v] \in Nat

VARIABLES
    block,              \* chain height
    slot,               \* slot[h]: the artifact h has revealed on chain, or None
    version,            \* SCORING_VERSION of the code that is running
    disk,               \* validator_state.json
    commitments,        \* in memory: what precheck recorded per key
    scores,             \* in memory: the last score of each key
    winner_history,     \* in memory: the ladder, newest winner first
    excluded_hotkeys,   \* in memory: the one-shot losers
    last_round_outputs, \* in memory: the hotkey whose outputs seed the burn
    phase,              \* how far the round is
    retained,           \* local: hotkeys whose ladder entries survive the round
    challengers,        \* local: keys evaluated as challengers
    pending,            \* local: valid challengers the gauntlet has not reached
    current_ratio,      \* local: the ratio the next challenger must beat
    baseline_ratio,     \* local: the zstd ratio of this round's streams
    champion_before,    \* local: the crown holder when evaluation starts
    published           \* the last champion handed to set_commitment

chain == <<block, slot>>
memory == <<commitments, scores, winner_history, excluded_hotkeys,
            last_round_outputs>>
locals == <<retained, challengers, pending, current_ratio, baseline_ratio,
            champion_before>>
vars == <<chain, version, disk, memory, phase, locals, published>>

-----------------------------------------------------------------------------

Key == Hotkey \X Artifact
\* unreachable: the repository could not be asked for; unfetched: it answered, but the
\* download failed, which is recorded as a disqualification.
Status == {"valid", "unreachable", "unfetched", "invalid"}
Verdict == Status \cup {"gone"}     \* gone: the 404 streak reached its limit

Commitment == [block : Nat, status : Status]
Score == [ratio : Ratio \cup {None}, commit_block : Nat,
          evaluated_at : Nat, version : Nat]
\* An entry's ratio is None, that of an invalid score, only if a second commitment
\* of the hotkey was scored under the entry's key.
Entry == [hotkey : Hotkey, artifact : Artifact, ratio : Ratio \cup {None},
          commit_block : Nat, improvement : Nat]
State == [commitments : [Key -> Commitment \cup {None}],
          scores : [Key -> Score \cup {None}],
          winner_history : Seq(Entry), excluded_hotkeys : SUBSET Hotkey,
          last_round_outputs : Hotkey \cup {None}]

\* Python's None is no CommitmentState and no ScoreState.
ASSUME NoneIsNoRecord == None \notin Commitment /\ None \notin Score

HasStatus(k, s) == commitments[k] # None /\ commitments[k].status = s
EntryKey(e) == <<e.hotkey, e.artifact>>

\* ScoreState.as_winner: the improvement is the field's default.
as_winner(k, score) ==
    [hotkey |-> k[1], artifact |-> k[2], ratio |-> score.ratio,
     commit_block |-> score.commit_block, improvement |-> 0]

\* Mutant: only valid commitments keep a ladder entry (the outage of issue #135).
retained_hotkeys_ValidOnly(known, excluded) ==
    {h \in Hotkey : h \notin excluded /\
        \E a \in Artifact : known[<<h, a>>] # None /\ known[<<h, a>>].status = "valid"}

\* retained_hotkeys: an unreachable repository does not cost the crown.
retained_hotkeys(known, excluded) ==
    {h \in Hotkey : h \notin excluded /\
        \E a \in Artifact : /\ known[<<h, a>>] # None
                            /\ known[<<h, a>>].status \in {"valid", "unreachable"}}

-----------------------------------------------------------------------------
(* load_state: what a release with another scoring version still trusts.   *)

\* _compatible_transition_start: every bump since v is listed as compatible.
CompatibleSince(v) == v < version /\ (v + 1)..version \subseteq DOMAIN StartBlock

score_is_comparable(score) ==
    \/ score.version = version
    \/ /\ CompatibleSince(score.version)
       /\ \A v \in (score.version + 1)..version :
             score.evaluated_at < StartBlock[v]

StaleKeys == {k \in Key : /\ disk.scores[k] # None
                          /\ ~score_is_comparable(disk.scores[k])}

LoadedScores == [k \in Key |-> IF k \in StaleKeys THEN None ELSE disk.scores[k]]

\* Mutant: a surface wipe drops scores and forgets the exclusions.
LoadedExclusions_Kept == disk.excluded_hotkeys

LoadedExclusions ==
    IF \E k \in StaleKeys : ~CompatibleSince(disk.scores[k].version)
    THEN {} ELSE disk.excluded_hotkeys

-----------------------------------------------------------------------------
(* The round.                                                              *)

\* Mutant: the vacant crown may go to a one-shot loser.
Recoverable_Losers(known, scored, excluded) ==
    {k \in Key : /\ scored[k] # None
                 /\ scored[k].ratio # None
                 /\ known[k] # None
                 /\ known[k].status = "valid"}

\* _recover_vacant_crown: the best scored, valid, non-excluded codec, if any.
Recoverable(known, scored, excluded) ==
    {k \in Key : /\ scored[k] # None
                 /\ scored[k].ratio # None
                 /\ k[1] \notin excluded
                 /\ known[k] # None
                 /\ known[k].status = "valid"}

RecoveredFirst(k, l, scored) ==
    \/ RankBefore(scored[k], scored[l])
    \/ /\ ~RankBefore(scored[l], scored[k])
       /\ CommitBefore(k[1], k[2], l[1], l[2])

RecoverVacantCrown(known, scored, excluded) ==
    LET candidates == Recoverable(known, scored, excluded)
        best == CHOOSE k \in candidates :
                    \A l \in candidates \ {k} : RecoveredFirst(k, l, scored)
    IN  IF candidates = {} THEN <<>>
        ELSE promote_winner(<<>>, as_winner(best, scored[best]), Hotkey, None)

\* Precheck looks at the key a hotkey has on chain, unless the hotkey is out.
Checked == {k \in Key : slot[k[1]] = k[2] /\ k[1] \notin LoadedExclusions}
FirstSeen == {k \in Checked : disk.commitments[k] = None}

\* A 404 is final only after earlier prechecks that could not reach the codec.
PossibleVerdicts ==
    {verdict \in [Checked -> Verdict] :
        \A k \in Checked :
            /\ verdict[k] = "gone" =>
                  k \notin FirstSeen /\ disk.commitments[k].status = "unreachable"
            /\ verdict[k] = "unfetched" => k[1] \in Unfetchable}

\* The tie-break blocks: that of the commit phase the reveal opens, if one was
\* recorded, else the one known of the key, else the current one.
PossibleBlocks ==
    {seen \in [Checked -> 1..block] :
        \A k \in Checked \ FirstSeen :
            k[1] \notin Recommitting => seen[k] = disk.commitments[k].block}

Prechecked(verdict, seen) ==
    [k \in Key |->
        IF k \notin Checked THEN disk.commitments[k]
        ELSE [block |-> seen[k],
              status |-> IF verdict[k] = "gone" THEN "invalid" ELSE verdict[k]]]

ExcludedBy(verdict) ==
    LoadedExclusions \cup {h \in Hotkey : \E k \in Checked : k[1] = h /\ verdict[k] = "gone"}

\* Mutant: a recovery fills any vacant rung, not only a vacant crown.
LadderBeforeRound_Refilled(known, excluded) ==
    compact_history(compact_history(disk.winner_history, retained_hotkeys(known, excluded))
                        \o RecoverVacantCrown(known, LoadedScores, excluded),
                    Hotkey)

LadderBeforeRound(known, excluded) ==
    LET kept == compact_history(disk.winner_history, retained_hotkeys(known, excluded))
    IN  IF kept # <<>> THEN kept
        ELSE RecoverVacantCrown(known, LoadedScores, excluded)

Challenging(known, excluded) ==
    {k \in Key : /\ known[k] # None
                 /\ known[k].status = "valid"
                 /\ LoadedScores[k] = None
                 /\ k[1] \notin excluded}

\* run_once up to the selection of challengers.  Precheck's verdicts and the blocks
\* commit_phase_seen holds for the reveals are inputs.
StartRound ==
    /\ phase = "idle"
    /\ \E verdict \in PossibleVerdicts, seen \in PossibleBlocks :
          LET known == Prechecked(verdict, seen)
              excluded == ExcludedBy(verdict)
              ladder == LadderBeforeRound(known, excluded)
              challenging == Challenging(known, excluded)
          IN /\ commitments' = known
             /\ scores' = LoadedScores
             /\ excluded_hotkeys' = excluded
             /\ winner_history' = ladder
             /\ retained' = retained_hotkeys(known, excluded)
             /\ challengers' = challenging
             /\ champion_before' = IF challenging = {} \/ ladder = <<>> THEN None
                                   ELSE ladder[1].hotkey
             /\ phase' = IF challenging = {} THEN "done" ELSE "selected"
    /\ UNCHANGED <<chain, version, disk, last_round_outputs, pending,
                   current_ratio, baseline_ratio, published>>

\* find_winner_commitment: the incumbent is evaluated iff its codec is valid.
IncumbentEvaluated ==
    winner_history # <<>> /\ HasStatus(EntryKey(winner_history[1]), "valid")

Evaluated ==
    {k[1] : k \in challengers} \cup
    (IF IncumbentEvaluated THEN {winner_history[1].hotkey} ELSE {})

\* run_round writes a hotkey's score under its first valid commitment: keys the
\* file already had come in key order, a key first seen this round comes last.
FirstValid(h) ==
    LET valid == {k \in Key : k[1] = h /\ HasStatus(k, "valid")}
        old == {k \in valid : disk.commitments[k] # None}
        pool == IF old = {} THEN valid ELSE old
    IN  CHOOSE k \in pool : \A l \in pool : k[2] <= l[2]

ScoredWith(outcome) ==
    [k \in Key |->
        IF k[1] \in Evaluated /\ k = FirstValid(k[1])
        THEN [ratio |-> outcome[k[1]], commit_block |-> commitments[k].block,
              evaluated_at |-> block, version |-> version]
        ELSE scores[k]]

\* The keys whose score run_round looks up: those challengers that came out
\* valid, and the incumbent when it did.
LookedUp(outcome) ==
    {k \in challengers : outcome[k[1]] # None} \cup
    (IF IncumbentEvaluated /\ outcome[winner_history[1].hotkey] # None
     THEN {EntryKey(winner_history[1])} ELSE {})

\* Mutant: the refreshed entry keeps as_winner's default (issue #180).
RefreshedHistory_Erasing(outcome) ==
    LET k == EntryKey(winner_history[1])
    IN  IF ~IncumbentEvaluated THEN winner_history
        ELSE IF outcome[k[1]] = None THEN Tail(winner_history)
        ELSE [winner_history EXCEPT ![1] = as_winner(k, ScoredWith(outcome)[k])]

\* The incumbent's entry after its re-evaluation: refreshed keeping the
\* improvement it earned, or popped if it failed.
RefreshedHistory(outcome) ==
    LET incumbent == winner_history[1]
        k == EntryKey(incumbent)
    IN  IF ~IncumbentEvaluated THEN winner_history
        ELSE IF outcome[incumbent.hotkey] = None THEN Tail(winner_history)
        ELSE [winner_history EXCEPT ![1] =
                [as_winner(k, ScoredWith(outcome)[k]) EXCEPT
                    !.improvement = incumbent.improvement]]

\* Mutant: a failed incumbent still sets the bar, with its recorded ratio.
RatioToBeat_OfFailed(outcome) ==
    IF winner_history = <<>> THEN None
    ELSE IF IncumbentEvaluated /\ outcome[winner_history[1].hotkey] # None
    THEN outcome[winner_history[1].hotkey]
    ELSE winner_history[1].ratio

\* Mutant: an incumbent that cannot be evaluated sets no bar (issue #135).
RatioToBeat_OfEvaluated(outcome) ==
    IF winner_history # <<>> /\ IncumbentEvaluated
    THEN outcome[winner_history[1].hotkey] ELSE None

\* What the first challenger must beat: nothing when the crown is vacant or the
\* incumbent just failed, its last ratio when it could not be evaluated.
RatioToBeat(outcome) ==
    IF winner_history = <<>> THEN None
    ELSE IF IncumbentEvaluated THEN outcome[winner_history[1].hotkey]
    ELSE winner_history[1].ratio

\* Mutant: a round that crowns nobody leaves the burn seed as it was.
SeedAfter_Unchanged(outcome) == last_round_outputs

\* The burn seed if no challenger is crowned: an evaluated incumbent's outputs.
SeedAfter(outcome) ==
    IF IncumbentEvaluated /\ outcome[winner_history[1].hotkey] # None
    THEN winner_history[1].hotkey ELSE last_round_outputs

\* run_round up to the gauntlet.  None is an invalid outcome.
Evaluate ==
    /\ phase = "selected"
    /\ \E outcome \in [Evaluated -> Ratio \cup {None}], baseline \in Baseline :
        /\ \A k \in LookedUp(outcome) : ScoredWith(outcome)[k] # None
        /\ scores' = ScoredWith(outcome)
        /\ winner_history' = RefreshedHistory(outcome)
        /\ current_ratio' = RatioToBeat(outcome)
        /\ last_round_outputs' = SeedAfter(outcome)
        /\ excluded_hotkeys' = excluded_hotkeys \cup
              {k[1] : k \in {c \in challengers : outcome[c[1]] = None}}
        /\ pending' = {k \in challengers : outcome[k[1]] # None}
        /\ baseline_ratio' = baseline
    /\ phase' = "gauntlet"
    /\ UNCHANGED <<chain, version, disk, commitments, retained, challengers,
                   champion_before, published>>

\* state.scores[c.key] raises KeyError: a valid outcome was stored under another
\* commitment of the same hotkey.
EvaluateRaises ==
    /\ phase = "selected"
    /\ \E outcome \in [Evaluated -> Ratio \cup {None}] :
          \E k \in LookedUp(outcome) : ScoredWith(outcome)[k] = None
    /\ phase' = "raised"
    /\ UNCHANGED <<chain, version, disk, memory, locals, published>>

\* Mutant: the gauntlet runs best ratio first (before issue #136).
IsNext_BestFirst(c) ==
    \A d \in pending \ {c} :
        \/ RankBefore(scores[c], scores[d])
        \/ ~RankBefore(scores[d], scores[c]) /\ c[1] < d[1]

\* The gauntlet: challengers in commit order, each against the current crown.
IsNext(c) ==
    \A d \in pending \ {c} :
        CommitBefore(scores[c].commit_block, c[1], scores[d].commit_block, d[1])

\* Mutant: the bar is not raised to the challenger that was just crowned.
Promote_StaleBar(c) ==
    /\ phase = "gauntlet" /\ c \in pending /\ IsNext(c)
    /\ should_promote(scores[c].ratio, current_ratio)
    /\ scores[c].ratio < baseline_ratio
    /\ winner_history' = promote_winner(winner_history, as_winner(c, scores[c]),
                                        retained, current_ratio)
    /\ last_round_outputs' = c[1]
    /\ pending' = pending \ {c}
    /\ UNCHANGED <<chain, version, disk, commitments, scores, excluded_hotkeys,
                   phase, retained, challengers, baseline_ratio, current_ratio,
                   champion_before, published>>

Promote(c) ==
    /\ phase = "gauntlet" /\ c \in pending /\ IsNext(c)
    /\ should_promote(scores[c].ratio, current_ratio)
    /\ scores[c].ratio < baseline_ratio
    /\ winner_history' = promote_winner(winner_history, as_winner(c, scores[c]),
                                        retained, current_ratio)
    /\ current_ratio' = scores[c].ratio
    /\ last_round_outputs' = c[1]
    /\ pending' = pending \ {c}
    /\ UNCHANGED <<chain, version, disk, commitments, scores, excluded_hotkeys,
                   phase, retained, challengers, baseline_ratio,
                   champion_before, published>>

Reject(c) ==
    /\ phase = "gauntlet" /\ c \in pending /\ IsNext(c)
    /\ ~(/\ should_promote(scores[c].ratio, current_ratio)
         /\ scores[c].ratio < baseline_ratio)
    /\ excluded_hotkeys' = excluded_hotkeys \cup {c[1]}
    /\ pending' = pending \ {c}
    /\ UNCHANGED <<chain, version, disk, commitments, scores, winner_history,
                   last_round_outputs, phase, retained, challengers,
                   current_ratio, baseline_ratio, champion_before, published>>

\* _evaluate_round after run_round: publish the champion if the crown changed.
Publish ==
    /\ phase = "gauntlet" /\ pending = {}
    /\ published' = IF winner_history # <<>> /\ winner_history[1].hotkey # champion_before
                    THEN winner_history[1].hotkey ELSE published
    /\ phase' = "done"
    /\ UNCHANGED <<chain, version, disk, memory, locals>>

ForgetRound ==
    /\ phase' = "idle"
    /\ retained' = {} /\ challengers' = {} /\ pending' = {}
    /\ current_ratio' = None /\ baseline_ratio' = None /\ champion_before' = None

\* Mutant: the file is written only when the ladder changed.
Save_OnNewLadder ==
    /\ phase = "done"
    /\ disk' = IF winner_history = disk.winner_history THEN disk
               ELSE [commitments |-> commitments, scores |-> scores,
                     winner_history |-> winner_history,
                     excluded_hotkeys |-> excluded_hotkeys,
                     last_round_outputs |-> last_round_outputs]
    /\ ForgetRound
    /\ UNCHANGED <<chain, version, memory, published>>

Save ==
    /\ phase = "done"
    /\ disk' = [commitments |-> commitments, scores |-> scores,
                winner_history |-> winner_history,
                excluded_hotkeys |-> excluded_hotkeys,
                last_round_outputs |-> last_round_outputs]
    /\ ForgetRound
    /\ UNCHANGED <<chain, version, memory, published>>

\* The memory of a round that ends without a save is the file's again: the next
\* round reads the file, whatever this one computed.
DropMemory ==
    /\ ForgetRound
    /\ commitments' = disk.commitments /\ scores' = disk.scores
    /\ winner_history' = disk.winner_history
    /\ excluded_hotkeys' = disk.excluded_hotkeys
    /\ last_round_outputs' = disk.last_round_outputs

\* main catches the exception of a failed round and tries again later.
Abort ==
    /\ phase # "idle"
    /\ DropMemory
    /\ UNCHANGED <<chain, version, disk, published>>

\* poll_commit_phase loads the file and saves it back between rounds.
Poll ==
    /\ phase = "idle"
    /\ disk' = [disk EXCEPT !.scores = LoadedScores,
                            !.excluded_hotkeys = LoadedExclusions]
    /\ scores' = LoadedScores /\ excluded_hotkeys' = LoadedExclusions
    /\ UNCHANGED <<chain, version, commitments, winner_history,
                   last_round_outputs, phase, locals, published>>

\* run_auto_validator.sh restarts the process on another release, newer or,
\* after a rollback, older.
Release ==
    /\ version' \in {version + 1, version - 1} \cap 1..MaxVersion
    /\ DropMemory
    /\ UNCHANGED <<chain, disk, published>>

-----------------------------------------------------------------------------
(* The chain.                                                              *)

\* The one commitment slot of a hotkey takes a reveal or, for None, the digest of a
\* commit phase, which hides what it held; a hotkey that leaves empties it.
Post(h, a) ==
    /\ phase = "idle"
    /\ slot[h] # a /\ (a = None => h \in Recommitting)
    /\ slot' = [slot EXCEPT ![h] = a]
    /\ UNCHANGED <<block, version, disk, memory, phase, locals, published>>

Tick ==
    /\ phase = "idle"
    /\ block < MaxBlock
    /\ block' = block + 1
    /\ UNCHANGED <<slot, version, disk, memory, phase, locals, published>>

EmptyState == [commitments |-> [k \in Key |-> None], scores |-> [k \in Key |-> None],
               winner_history |-> <<>>, excluded_hotkeys |-> {},
               last_round_outputs |-> None]

Init ==
    /\ block = 1 /\ version = 1
    /\ slot = [h \in Hotkey |-> None]
    /\ disk = EmptyState
    /\ commitments = EmptyState.commitments /\ scores = EmptyState.scores
    /\ winner_history = <<>> /\ excluded_hotkeys = {} /\ last_round_outputs = None
    /\ phase = "idle"
    /\ retained = {} /\ challengers = {} /\ pending = {}
    /\ current_ratio = None /\ baseline_ratio = None /\ champion_before = None
    /\ published = None

Round == StartRound \/ Evaluate \/ EvaluateRaises \/ Publish \/ Save
         \/ \E c \in Key : Promote(c) \/ Reject(c)

Next == Round \/ Abort \/ Poll \/ Release \/ Tick
        \/ \E h \in Hotkey, a \in Artifact \cup {None} : Post(h, a)

Spec == Init /\ [][Next]_vars

-----------------------------------------------------------------------------
(* Invariants.                                                             *)

\* The variables have their types.
TypeOK ==
    /\ block \in 1..MaxBlock /\ version \in 1..MaxVersion
    /\ slot \in [Hotkey -> Artifact \cup {None}]
    /\ disk \in State
    /\ commitments \in [Key -> Commitment \cup {None}]
    /\ scores \in [Key -> Score \cup {None}]
    /\ winner_history \in Seq(Entry)
    /\ excluded_hotkeys \in SUBSET Hotkey
    /\ last_round_outputs \in Hotkey \cup {None}
    /\ phase \in {"idle", "selected", "raised", "gauntlet", "done"}
    /\ retained \in SUBSET Hotkey
    /\ challengers \in SUBSET Key /\ pending \in SUBSET Key
    /\ current_ratio \in Ratio \cup {None}
    /\ baseline_ratio \in Baseline \cup {None}
    /\ champion_before \in Hotkey \cup {None}
    /\ published \in Hotkey \cup {None}

\* A hotkey holds one rung, and the ladder keeps at most HistoryDepth of them,
\* whatever a hotkey commits to and however promotions and recoveries follow.
LadderWellFormed ==
    \A history \in {winner_history, disk.winner_history} :
        /\ Len(history) <= HistoryDepth
        /\ \A i, j \in DOMAIN history :
              history[i].hotkey = history[j].hotkey => i = j

\* One shot: no hotkey with a rung in the saved ladder is among the losers,
\* although exclusion (precheck, a failed outcome, a lost challenge) and
\* promotion are decided in different places of a round.
LadderNotExcluded ==
    \A i \in DOMAIN disk.winner_history :
        disk.winner_history[i].hotkey \notin disk.excluded_hotkeys

\* Throughout the gauntlet the bar is the ratio of the entry that wears the
\* crown at that moment, re-measured or last recorded.
BarIsTheCrowns ==
    phase = "gauntlet" /\ current_ratio # None =>
        winner_history # <<>> /\ winner_history[1].ratio = current_ratio

\* An improvement, which is what a winner is paid for, is either zero (a vacant
\* crown) or at least the margin: the bar it beat and the ratio it is measured
\* against are the same number.
ImprovementEarned ==
    \A i \in DOMAIN disk.winner_history :
        \/ disk.winner_history[i].improvement = 0
        \/ disk.winner_history[i].improvement >= Margin

\* A challenger that beats zstd loses only to the incumbent or to a codec that was
\* committed before its own, never to a later one.
LosesOnlyToEarlier ==
    phase = "done" => \A k \in challengers :
        /\ scores[k] # None /\ scores[k].ratio # None
        /\ scores[k].ratio < baseline_ratio /\ k[1] \in excluded_hotkeys
        => \E l \in Key :
            /\ scores[l] # None /\ scores[l].ratio # None
            /\ ~should_promote(scores[k].ratio, scores[l].ratio)
            /\ \/ l[1] = champion_before
               \/ /\ l \in challengers
                  /\ CommitBefore(scores[l].commit_block, l[1],
                                  scores[k].commit_block, k[1])

\* The burn is seeded by the outputs of the standing winner whenever it stands by
\* this round's evaluation, as re-crowned incumbent or as challenger.
SeedIsTheChampions ==
    phase = "done" /\ challengers # {} /\ winner_history # <<>> =>
        LET champion == winner_history[1]
        IN  \/ champion.hotkey \in {k[1] : k \in challengers}
            \/ champion.hotkey = champion_before /\ IncumbentEvaluated
            => last_round_outputs = champion.hotkey

-----------------------------------------------------------------------------
(* What a saved round may do to the one before it.                         *)

\* The crown stays with its holder, or goes to an entry that beats its ratio of this
\* round by the margin.
KeptOrBeaten(old) ==
    /\ disk'.winner_history # <<>>
    /\ \/ disk'.winner_history[1].hotkey = old.hotkey
       \/ should_promote(disk'.winner_history[1].ratio, disk'.scores[EntryKey(old)].ratio)

\* Its codec stands: precheck found it so, and no evaluation found it broken.
Stands(old, statuses) ==
    /\ disk'.commitments[EntryKey(old)].status \in statuses
    /\ disk'.scores[EntryKey(old)] # None
    /\ disk'.scores[EntryKey(old)].ratio # None

\* A champion whose codec is valid or unreachable, and not found broken, passes the
\* crown only to an entry that beats it by the margin (state.py:98): as long as no
\* release drops its score, no outage, crash, lost round or exclusion costs it the crown.
CrownLostOnlyToMargin ==
    [][disk.winner_history # <<>> =>
        LET old == disk.winner_history[1]
        IN  Stands(old, {"valid", "unreachable"}) => KeptOrBeaten(old)]_disk

\* Across releases a champion that is not out passes the crown only to the margin, and
\* it is put out only when the release dropped its score: then it is judged as a
\* challenger of itself (state.py:120), loses, and wears the crown one more round.
OnlyADroppedScoreUnseats ==
    [][disk.winner_history # <<>> =>
        LET old == disk.winner_history[1]
            k == EntryKey(old)
        IN  Stands(old, {"valid", "unreachable"}) /\ old.hotkey \notin disk.excluded_hotkeys =>
                /\ KeptOrBeaten(old)
                /\ old.hotkey \in disk'.excluded_hotkeys =>
                      disk.scores[k] = None \/ k \in StaleKeys]_disk

\* A rung that survives keeps the improvement it was crowned with.
ImprovementNeverErased ==
    [][\A i \in DOMAIN disk.winner_history, j \in DOMAIN disk'.winner_history :
        EntryKey(disk.winner_history[i]) = EntryKey(disk'.winner_history[j]) =>
            disk.winner_history[i].improvement = disk'.winner_history[j].improvement]_disk

\* Of the entries crowned in one round, each committed before the next and is beaten
\* by it by the whole margin: a later commit cannot take the round with a tweak.
EarlierCommitProtected ==
    [][LET Fresh(e) == /\ disk.scores[EntryKey(e)] = None
                       /\ disk'.scores[EntryKey(e)] # None
       IN  \A i, j \in DOMAIN disk'.winner_history :
            LET later == disk'.winner_history[i]
                earlier == disk'.winner_history[j]
            IN  i < j /\ Fresh(later) /\ Fresh(earlier) =>
                    /\ CommitBefore(earlier.commit_block, earlier.hotkey,
                                    later.commit_block, later.hotkey)
                    /\ should_promote(later.ratio, earlier.ratio)]_disk

\* A release that changes what a ratio means lets everyone compete again: a hotkey
\* that lost its score to it is not left excluded, unless its codec is out.
SurfaceWipeReadmits ==
    [][\A k \in Key :
        /\ disk.scores[k] # None /\ disk'.scores[k] = None
        /\ ~CompatibleSince(disk.scores[k].version)
        /\ k[1] \in disk'.excluded_hotkeys
        => disk'.commitments[k].status = "invalid"]_disk

\* The saved file as the competition's state.
Promise == INSTANCE OneShot WITH
    Player <- Hotkey, Depth <- HistoryDepth,
    ladder <- [i \in DOMAIN disk.winner_history |-> disk.winner_history[i].hotkey],
    tried <- {k[1] : k \in {l \in Key : disk.scores[l] # None}},
    out <- disk.excluded_hotkeys

\* Every save is one step of OneShot, and nothing else changes what it sees: rounds
\* that raise, are cut short or are repeated neither give a second shot nor take one.
KeepsThePromise == Promise!Spec

-----------------------------------------------------------------------------
(* Progress.  A round's steps are one thread that runs on; releases stop    *)
(* coming and rounds stop being cut short at some point (the save of a     *)
(* round that changed nothing looks like an Abort); and every codec is     *)
(* found valid by precheck again and again.                                *)

\* A round that begins here would check the codec of h.
CanBeChecked(h) == phase = "idle" /\ slot[h] # None /\ <<h, slot[h]>> \in Checked

\* A round that begins, the only step that leaves "idle", and its precheck of h.
FindsValid(h) ==
    /\ CanBeChecked(h) /\ phase' # "idle"
    /\ commitments'[<<h, slot[h]>>].status = "valid"

FairSpec ==
    /\ Spec
    /\ <>[][~Release /\ (Abort => Save)]_vars
    /\ WF_vars(Round)
    /\ \A h \in Hotkey : []<>CanBeChecked(h) => []<><<FindsValid(h)>>_vars

\* Every codec revealed, and not withdrawn, is judged at last: the saved state holds
\* its score, or its hotkey is out.
EveryRevealIsJudged ==
    \A h \in Hotkey, a \in Artifact :
        slot[h] = a ~> \/ slot[h] # a
                       \/ disk.scores[<<h, a>>] # None
                       \/ h \in disk.excluded_hotkeys

=============================================================================
