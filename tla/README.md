# A verification of glyph-subnet

Glyph is a Bittensor subnet on which miners race lossless text codecs. A validator
measures every new codec against the reigning one, keeps a ladder of past winners,
pays the ladder from an emission pot and burns the pot in some tempos. This directory
holds TLA+ models of that program, the TLC runs that check them on small instances and
theorems about them checked by TLAPS.

Source paths are relative to the repository root; the Python packages are in `src/`.

## 1. The system

| component | where | state | operations |
| --- | --- | --- | --- |
| king-of-the-hill round | `validator/service.py`, `reign_worker/service.py` | the in-memory `ValidatorState` and the locals of a round | `run_once`, `run_reign_only`, `_evaluate_round`, `run_round`, `_recover_vacant_crown` |
| winner ladder | `core/weights.py` | `winner_history` | `compact_history`, `promote_winner`, `should_promote` |
| payment | `core/weights.py`, `validator/service.py`, `core/conviction.py` | report, pot left, weights | `_conviction_report_for_winners`, `select_payees`, `allocate_pot`, `compute_weights` |
| conviction ledger | `core/conviction.py` | `earned`, `last_block` | `ledger_grid`, `ledger_catchup`, `_update_conviction_ledger` |
| state file | `core/state.py` | `validator_state.json` | `load_state`, `_invalidate_stale_scores`, `save_state` |
| precheck | `validation/precheck.py`, `_apply_precheck` | verdict, recheck block, 404 streak and hash per commitment, owner per hash | `precheck_codec`, `_apply_precheck` |
| commit-reveal | `core/commitments.py`, `miner/commit.py` | one slot per hotkey on chain, `commit_phase_seen` | commit, reveal, `poll_commit_phase`, `prune_commit_phase_seen` |
| burn schedule | `core/burn_schedule.py` | `window_anchor_block`, `last_round_outputs` | `derive_burn_seed`, `is_burn_tempo` |
| weight setting | `weight_setter/service.py`, `run_once` | none of its own | version gate, rate limit, `decide_weights`, `set_weights` |
| chain client | `chain/` | connections | metagraph, emissions, locks, commitments, archive fall-back |
| evaluation | `eval/evaluator.py`, `eval/scoring.py`, `eval/runner*.py` | containers, networks, stream results | `paired_eval`, the Docker, local and Chutes runners, `score_codec` |
| live benchmark | `eval/live_bench.py` | snapshot store, prefetch thread | prefetch, prune, `latest` |
| metrics | `core/wandb_logger.py` | failure counter | `log`, restart |
| auto-updater | `scripts/run_auto_validator.sh` | backups, running release | update, roll back |

**How they interact.** A full validator is one process: a loop of rounds with polls of the
commitments between them, all through one JSON file that is loaded at the start of a round
or poll and saved at its end. In a split deployment the reign worker runs the same round
without payment and saves the file, and the weight setter, another process, only reads it.
Miners act on the chain at any time. The auto-updater restarts the process on another
release at any time. The chain is read once at the start of a round (height, commitments,
metagraph); evaluation takes hours; tempo, locks and emissions are read after it.

**What is hard.** A round that fails anywhere loses everything since the load, with
chain effects (the published champion) already out. A repository host that is down must
not cost a champion the crown, whereas a codec that is broken must lose it. Several
challengers meet one crown in an order that decides who is paid. A release may change
what a ratio means while ratios are on file. The report that gates winners and the
payment are two walks of one ladder. Data read before an evaluation is used hours after
it. `PROJECT.json` lists these hazards one by one, at their lines.

**What makes each part correct.** *Round:* the crown passes only to a codec that beats
it by the margin, or to anyone once it is vacant; the order of commits decides between
challengers; nobody on the ladder is among the losers; everybody gets exactly one shot.
*Ladder:* a hotkey holds one rung, and what it is paid for was earned. *Payment:* only
checked winners are paid, once, from the top. *Ledger:* each grid block counts exactly
once, whatever fails. *State file:* what a release invalidates is competed for again.
*Precheck:* an outage is not a disqualification; the earliest committer owns a hash.
*Commit-reveal:* the tie-break is the block of the digest. *Burn:* one tempo in each
window. *Weights:* they reach the hotkeys they were computed for. *Evaluation:* a
failure of the infrastructure is not one of the codec, and nothing is left running.

## 2. The modules

| module | models | used by |
| --- | --- | --- |
| `WinnerLadder` | the ladder's operators (pure) | `Reign`, `LadderProofs` |
| `OneShot` | what the competition promises, abstractly | `Reign` |
| `Reign` | the round, its state file, releases, miners | `MCReign`, `ReignProofs` |
| `Admission` | commit-reveal, polls and precheck | `MCAdmission`, `AdmissionProofs` |
| `Sandbox` | one phase of one stream in a container or subprocess | `Evaluation` |
| `Evaluation` | the codecs and streams of a round, over `Sandbox` | `MCEvaluation`, `EvaluationProofs` |
| `LiveBench` | the prefetch thread, the snapshot store and its reader | `LiveBenchProofs` |
| `ConvictionLedger` | the processes of a deployment that advance the ledger | `MCConvictionLedger`, `LedgerProofs` |
| `Payout` | the report and the payment at a weight-setting | `MCPayout`, `PayoutProofs` |
| `WeightSetting` | burn schedule, version gate, override, submission | `MCWeightSetting`, `WeightProofs` |
| `LadderProofs`, `ReignProofs`, `LedgerProofs`, `EvaluationProofs` (also of `Sandbox`), `LiveBenchProofs`, `WeightProofs`, `AdmissionProofs`, `PayoutProofs` | theorems | |

The modules meet at narrow interfaces. `Admission` produces the verdict and the tie-break
block of each commitment, which `Reign` takes as inputs; `Evaluation` produces the
valid-or-invalid of each codec, another input of `Reign`; `Reign` and `ConvictionLedger`
produce the ladder and the requirements `Payout` takes; `Payout` decides who is paid in
the tempos in which `WeightSetting` does not burn; `LiveBench` decides whether a round of
`Evaluation` has its live stream. Where a module takes an input it allows every value the
other can produce, so each stands on its own.

### OneShot, WinnerLadder and Reign

The memory of a round (`commitments`, `scores`, `winner_history`, `excluded_hotkeys`,
`last_round_outputs`) and the file (`disk`) are separate variables, so an exception or
a restart (`Abort`, `Release`) at any step of the round drops the former. The steps of
a round are `StartRound` (load, precheck, compaction, recovery, choice of challengers),
`Evaluate` (`run_round` up to the gauntlet), one `Promote` or `Reject` per challenger,
`Publish` and `Save`; `EvaluateRaises` is the `KeyError` of a hotkey with two keys.
Between rounds there are `Poll` (load and save of the file), `Post` (a
miner's slot takes a reveal or a digest, or is emptied) and `Tick`. Miners and blocks
move only between rounds because a round reads the chain once.

`OneShot` knows three things: who stands on the ladder, who has had a shot, who is out.
Its only step says that shots are taken by those that had none, that each ends on top of
the ladder or out (all the winners stand there, unless they fill it), that of those
already there some stay, below and in their order, and that one who had fallen off comes
back only alone, when nobody stays. `KeepsThePromise` is that the saved file of `Reign`
implements it: `ladder` is the hotkeys of `disk.winner_history`, `tried` those with a
score on file, `out` is `disk.excluded_hotkeys`; every `Save` is a `Round` and every
other step, those of lost rounds included, a stutter. It does not hold across a release
that drops scores, which is meant to give a second shot; the run has one release.

Abstractions:

- Precheck gives each commitment on chain a verdict: valid, unreachable, invalid,
  unfetched (the repository answered and the download of the manifest then failed, which
  the code records as it does a disqualification), or gone, the end of a 404 streak. Any
  verdict may follow any other, except that "gone" needs an unreachable check before it
  (`GoneWasUnreachable` of `Admission` is the reason). `Unfetchable` bounds whose download
  may fail.
- The tie-break block of a commitment is any block up to now if its hotkey may have
  published a digest (`Recommitting`) or on first sight, and stays put otherwise
  (`TieBreakIsTheDigests` of `Admission`).
- Ratios are integers and the margin is compared exactly
  (`ratio * Unit <= current * (Unit - Margin)`); float rounding is not modelled.
  `Ratio` and `Baseline` are chosen around the margin. `Reign_live` and `Reign_recommit`
  have 196, 198 and 199: 196 beats 198 by more than 1 %, 198 is better than 199 by less.
  `Reign_three` and `Reign_release` have 98 and 99 only, of which one beats the other.
- `StartBlock` says from which block a compatible version holds, as
  `SCORING_VERSION_START_BLOCKS` does.
- `local_path`, offline demo, improvement back-fill of old files and log output are out.

### Admission

`Commit`, `Reveal` and `MinerStops` are `miner/commit.py`; the digest is final before the
reveal, hence in an earlier block. `Begin` is the start of a poll or a round: the file
is loaded and the height read; the commitments are read later (`Poll`, `Precheck`), and
miners move in between. `Precheck` is `_apply_precheck` for all revealed codecs at once,
under any answer of the repository host to each: up, 404, down, or serving the manifest
and then failing the download, which raises and loses the round (`Raises`, `Abort`).
`Save` ends the round with the codecs `run_round` excluded, any of the valid ones. Each
hotkey has one codec; `CopyOf` says whose artifact it re-hosts, and `quality` what is
wrong with it: nothing, something only the scan or the size cap sees, or the manifest.

### Sandbox and Evaluation

`Sandbox` is one call of `compress` or `decompress`: the GPU memory check, then the plain
life cycle (`docker run --rm`) or, for a codec with an image, the networked one command by
command: network, detached container, warm-up, seal, input, exec, removal, network removal;
or the local subprocess. Each command may fail, or time out and be carried out later by the
daemon, so that a container comes up after its run gave up on it (`stray`). The commands
that clean up (`docker kill`, `rm -f`, `network rm`) ignore their exit code in the code, so
a refusal leaves the container running or the network in place. Writing the input and
reading the output may fail as files do, which aborts the round, and so may
`_prepare_stream`, which is outside the handlers. The watchdog thread triggers and kills in
two steps. A codec is described by three facts: whether it works within the time and memory
it declares, whether it names an image, and what memory it declares: none, what fits the
card with headroom and reserve, or more. For the last the check is capped at the card's
total less the reserve, so it may pass with less free than declared; where the totals cannot
be read, or none is declared, there is no check. `Evaluation` runs the codecs of a round,
the incumbent first, through the streams, two sandboxes each, with the handlers of
`evaluate_artifact`, the gates of `score_codec`, and an aborted round that is begun again on
the same host.

Assumed of the environment: a container left running holds its card's memory; an image
is pinned by digest (precheck refuses others), so a codec behaves alike in all its runs;
the ready probe and the daemon answer eventually, where the code puts no time limit on
them.

### LiveBench

The thread fetches, renames its `.part` file, lists the store, and unlinks one snapshot
after the other; the main thread lists and reads in two steps and starts the next fetch
when the round is over. A crash leaves `.part` files. A snapshot is named by the height
at which its fetch began. Each counts one unit of the cap; the cap must hold two, and
holds about 250 (1 GiB and about 4 MiB), which is `LiveBenchAssumption`.

### ConvictionLedger

Each process begins a round (loads its file, reads the height), evaluates, reads the
tempo, applies one grid sample after the other and finishes; a sample may fail, the
round may be aborted, the chain may change its tempo. Several processes may load one
file, one of them saves it (`Writer`; the weight setter does not save). A save is two
steps, as `write_text` is: `Truncate` empties the file, `Write` fills it; who loads it in
between, or after a process has stopped in between, gets an exception (`whole`). The
amount per hotkey of the sample at block b is the constant `Emission[b]`; `Owed` is its
sum over the grid, and an assumption ties the two. The live node serves blocks of at most
age `Pruning`; the code asks it by the age at the round's start (`Horizon`). In the other
modules a save is one step.

### Payout

The metagraph is fetched, the evaluation passes, the report walks the ladder with one
lock read per winner, any of which may fail, and the weights are computed. Stake and
locks move between any two steps; a lock is part of the stake. The ladder is any list
of distinct hotkeys with improvements, the hotkey at `burn_uid` among them, chosen at
the start: the code that changes it is `Reign`. `Required` is what the ledger makes each
winner's requirement. The activation blocks of the gate and the lock rule are past.
Weights are parts of `Unit` before the last scaling, which keeps their proportions.

### WeightSetting

A process is a validator, a reign worker or a weight setter; the last two share a file.
`Start` is the version gate and the reads at the start of a cycle (height, override,
file); `Evaluate` the round, which may leave new outputs and with them a new seed;
`Decide` the decision and a validator's save; `Accepted` and `End` the submission, under
the rate limit and the chain's own version check. At any time a process may be restarted on
the next release or rolled back to the one before, and the owner may set the subnet's
version to a later or an earlier one, and change the override. The
hash that draws a window's burn position is the constant function `BurnPosition`.

## 3. The runs

Bounds are `MaxBlock`, `MaxVersion`, `Recommitting`, `Unfetchable`, `MaxHistory`,
`Retention` and the sizes of the constant sets. The number of rounds, failures, restarts and
polls is not bounded.

| run | what it shows |
| --- | --- |
| `Reign_three` | three hotkeys: types; nobody on the saved ladder is excluded; the bar is the crown's ratio; the burn seed is the champion's; improvements survive refreshes; the file implements `OneShot` |
| `Reign_recommit` | one hotkey with two codecs: still one rung, improvements still zero or at least the margin |
| `Reign_release` | releases and rollbacks: dropped scores come with dropped exclusions; a champion that is not out passes the crown only to the margin, and it is put out only after a release dropped its score |
| `Reign_live` | two hotkeys at two heights, gains below and above the margin: an earlier commit is protected from a later tweak; a challenger loses only to the incumbent or an earlier commit; the crown is lost only to the margin, whatever is unreachable or aborted; every codec that stays revealed is judged at last |
| `Admission_pass` | a codec and its copy: never valid under two hotkeys; a copy gets the artifact only if the original's digest was not on file before its reveal; the tie-break block is the first saved one; who is excluded by precheck was unreachable before |
| `Evaluation_round` | an incumbent and a challenger: the scored streams alone decide; a sound codec fails only to a docker command, to a container that came up after the memory check, or to memory that was not checked, or only up to the cap; the input meets no network; only a time-out or a refused clean-up leaves anything behind |
| `Live_snapshots` | what a round picked it can read; the newest snapshot is never lost |
| `Ledger_follow` | reign worker and weight setter: ledgers are exact while the tempo is kept, never shrink, and catch up with every grid block unless the tempo changed or the file was left cut in two |
| `Payout_ladder` | the report and the payment agree: paid hotkeys were checked, a covered winner is never gated, the pot burns only if nobody qualifies, and is spent once, from the top |
| `Weights_host` | one burn tempo per window on whatever blocks the cycles fall; through releases, rollbacks and versions set up or back, weights only from a cycle of the release that sets them, and none below the chain's version; the override reaches the chain |
| `Admission_scan`, `Weights_anchor` | end in a counterexample, see below |

Why these bounds are enough to be worth running. *Reign:* two hotkeys already have every
order of commit, promotion, failure and outage between an incumbent and a challenger, and
commit blocks equal to or different from another's; with two heights the later commit may
come from the hotkey that is first in string order. Three are needed for two challengers
under one incumbent and, with a depth of 2, for a rung to be pushed off. Two versions have
all cases of a bump: current, compatible, incompatible (a rollback has no compatible
transition). *Admission:* four heights, with an interval of 2, a streak of 2 and a digest
age of 1, have a full and a cheap check on either side of an outage, a streak that is cut
and one that is complete, a digest in time and one too old. The copier comes first in string
order, so that ties would go its way. *Evaluation:* the state that lasts from round to round
is the stray container and network; two codecs suffice for one to leave them and the other
to meet them. The incumbent works and fits the card; the challenger may be any working
codec, or a broken one that fits. *LiveBench:* a cap of two snapshots and six heights have a
thread that prunes two at once while the reader holds the third. *Ledger:* three grid points
for tempo 2, other grids for tempo 3, emissions whose sums tell every set of samples apart.
*Payout:* a ladder of three rungs has a payee, one that exhausts the pot and one below it;
improvements 0, 1 and 6 % give a share below the base share, above it, and above the whole
pot (115 %); amounts of alpha are 0 and 1 and every requirement is 1, since only being above
or below it matters. *WeightSetting:* tempos of two blocks and windows of two tempos give
two blocks per tempo; a position that depends on seed and window makes the burn tempo move.
Four heights are the first window and the first block of the second; the theorem has all
windows.

**Fairness.** A loop that runs is weakly fair in each of its steps; failures and
restarts are not fair and are allowed at any time, but must stop at some point, since an
unending crash loop makes no progress in any program; an outside event that is retried
for ever is strongly fair. In detail:

- `Reign_live`: `WF(Round)`; restarts stop and rounds stop being cut short; precheck, if it
  checks a revealed codec again and again, finds it valid again and again (strong fairness
  of `FindsValid`; without it the miner has no claim to be judged). The end of a round that
  changes nothing has the same effect as an abort, hence the form of the condition. One
  artifact, so a hotkey that commits twice is outside the claim: it can make every round
  raise (`EvaluateRaises`).
- `Ledger_follow`: every process runs its loop; rounds stop being cut short; a sample that
  is available again and again is at last had (`SF(Apply)`: reads fail, not for ever).
- `Weights_host`: cycles run on (`WF(RunsOn)`), blocks are made; releases, failed reads of
  the commitments and lost cycles stop; the chain, which rate-limits, takes weights at last
  (`SF(Accepted)`).

Three properties carry an exception that is the program's: `LedgerCatchesUp` (a file cut
in two is never repaired: every later load raises), `OriginalOwns` (the earlier commit is
protected only once its digest is on file), `FullGpuCondemnsNobody` (what is excepted is
in section 5).

### Where the program departs from what it says of itself

Two runs end in a counterexample, each to a statement of a comment.

- `Admission_scan`, `ValidPassedFullCheck` - a codec that the scan or the size cap rejects
  leaves a hash behind; until the next full recheck only its manifest is looked at, and it
  is valid (`validator/service.py:372-385`). `validation/precheck.py:3` says that precheck
  validates exfiltration paths before the artifact is executed.
- `Weights_anchor`, `BurnTogether` - the default window anchor 0 is false in
  `args.window_anchor or block` (`validator/service.py:952`), so each validator anchors its
  windows where it first ran and two of them burn in different tempos.
  `core/constants.py:250` says the origin must be the same on every validator.

## 4. What is proved

Every invariant, every action property and the refinement that a passing run checks is
also a theorem of TLAPS: the run shows it on a small instance, the theorem for every value
of the constants. What a theorem assumes of the constants is what the modules state by
name, as weak as the code justifies, and TLC evaluates for the instances of the runs:
`LadderAssumption`, `ReignAssumption`, `AdmissionAssumption`, `LineAssumption`,
`LiveBenchAssumption`, `LedgerAssumption`, `OwedAssumption`, `PayoutAssumption`,
`WeightSettingAssumption`, and `NoneIsNoRecord` (Python's `None` is no record), which TLA+
needs to be told. Where a theorem needs more, its statement says so.

Each component has one proof of the same form: an inductive invariant `IInv`, `Init => IInv`,
one lemma per action for the step, and the property as a consequence of `IInv` or of a step
from a state in which it holds. What follows is what the invariants add, and why they must.

### The ladder and the round (`LadderProofs`, `ReignProofs`)

`LadderProofs` has the facts of `compact_history`, for every list: the result is a
subsequence of distinct eligible hotkeys of bounded length that keeps its head if the head
is eligible (`CompactHistory`, `CompactOrder`, `CompactHead`), and it cuts off only from the
end (`CompactCutsOff`).
Both rest on least elements of sets of naturals, by well-foundedness, not on recursion.

The round is proved in layers. Each adds an invariant to those below it and names the
conditions from which it holds.

1. `IInv`, for any releases and any commitments: `TypeOK`; the saved and the current ladder
   are well built (type, depth, distinct hotkeys, improvements zero or at least the margin);
   a selected challenger has a valid commitment and no score yet; one in the gauntlet has a
   score with a ratio. Without the last two the entry of a promoted challenger is not an
   entry at all. Gives `TypeCorrectness`, `LadderIsWellFormed`, `ImprovementsAreEarned`; the
   arithmetic is that who satisfies `should_promote` has an improvement of at least the
   margin after rounding down.
2. `OneCommitment` (a hotkey has one key), any releases and rollbacks: `BarFollowsTheCrown`;
   with `DroppedAreReadmitted` (whoever is still out in spite of a score that the load dropped
   was found gone by precheck) `WipesReadmit`; and `CrownsSurviveReleases`. The last needs
   `CrownHeld` and `Reigning` (the champion on file wears the crown until the evaluation, and
   afterwards with its last ratio unless beaten by the margin), and `JudgedAnew` (it is
   challenged by itself only if the load dropped its score); they need that the ratio of
   an entry is that of its score. This is false of a codec below the champion whose score a
   release dropped: it is judged again as a challenger, and its entry keeps the ratio of
   before. `FileStands` and `RoundStands` say what is left: such a codec is out, under the
   newest score on file, so that a release that readmits it drops that score too
   (`OutStaysOut`, from the versions on one file being all compatible, `OneFamily`).
3. `OneVersion` (no release changes what a ratio means), any commitments: `NothingDropped`
   (a score on file is never lost, whoever stands has one, a challenger had none), then
   `SameImprovement` for `ImprovementsStay`, and `NewcomersFirst` for `EarlierCommitsAreSafe`:
   the winners of the round stand above the others, the later commit over the earlier, each
   ahead by the margin, and whoever still waits committed after all of them.
4. `OneVersion` and `OneCommitment`: `Apart` (who stands is not out and stands by its last
   score, who waits is neither) for `WinnersAreNoLosers`; `SeedFollows` for
   `SeedFollowsTheCrown`; `CrownIsLostOnlyToMargin`, which is `CrownsSurviveReleases`
   without its condition, because the champion on file is never out; `FairlyBeaten` and
   `BarIsEarlier` (the bar is the incumbent's or that of a challenger that committed before
   all who wait) for `LosersLostToEarlier`.
5. The refinement, `RoundsKeepThePromise`, under both conditions. `Contest` says at each
   phase what the round in memory has already done to the players on file: who has won so far
   stands on top of the ladder in memory, the others stood on the file's ladder in this order
   or one of them has come back alone. It is kept by each `Promote` because the ladder is
   lowered by one rung and cut off at its end, and at `Save` it is `OneShot!Round`. Only `Save`
   changes the file for `OneShot` (`PollWritesNothing`), so all other steps, those of lost
   rounds included, are stutters.

Why the conditions. With two keys a valid outcome can be stored under the
hotkey's other key: TLC finds counterexamples to `BarIsTheCrowns`, `LadderNotExcluded`,
`SeedIsTheChampions` and `KeepsThePromise` for two hotkeys with two artifacts; to
`LosesOnlyToEarlier` and `CrownLostOnlyToMargin` it found none in ten minutes each, and there
the condition is what the proof uses. Across a release that drops scores the champion becomes
a challenger of itself and is excluded under the crown, an incumbent that cannot be evaluated
sets a bar nobody's score has any more, and an entry is crowned anew with another improvement:
with two versions TLC finds a counterexample to every property that is proved under
`OneVersion`. The second shot is meant.

### The other components

- **Admission.** `WellKept` holds of the file and of the copy a round works on: whoever is
  valid owns its artifact, duplicates are of something owned, an opened digest is no longer
  looked for, a streak is marked, nothing about a copy was recorded at a height from before
  the original's reveal, and the first saved block of a digest stays. `RoundKeeps` relates the
  copy to the file between precheck and save, which is what the action properties
  compare: `OneOwnerIsValid`, `OriginalsOwn`, `TieBreaksStay`, and `GoneIsNoSurprise` for a
  streak limit of two or more (the code has twelve; with one the first 404 would exclude).
- **Sandbox and Evaluation.** `Stages` says what exists at each statement of the runner,
  `Sealed` that input and network do not meet and will not when the daemon creates the
  container late, `LateOnlyForCause` whose fault a leftover is, `Faultless` and
  `CardIsFree` what a working codec may fail of. `Progress` and `SandboxOfTheTurn` tie results
  and sandbox to the codec whose turn it is, for line-ups of any length. Gives
  `InputIsSealed`, `CleanUp`, `ScoredStreamsDecide`, `WorkingCodecsPass`.
- **LiveBench.** There is one thread; a list of doomed snapshots spares one that is newer than
  all on it; since the reader picked, at most one newer snapshot was saved and the picked one
  is on no list. Gives `PickedIsReadable` and `NewestIsKept` for every cap of two or more; with
  a cap of one the picked snapshot could be pruned.
- **ConvictionLedger.** `TotalsArePermanent` from `WriterAhead`: the ledger in the memory of
  the one process that saves a file has at least what the file has, since nobody else writes
  it in between, and a file that is cut in two is not loaded. `EarningsAreExact` from
  `GridKept`: while the tempo is kept each process steps by it, and a sample takes a ledger
  from one grid point to the next, by division facts about `ledger_grid`. Once the tempo has
  changed, samples lie on another grid.
- **Payout.** Two walks down one ladder are compared, the report's, one winner at a time while
  the chain moves, and the payment's, the recursive function `remaining`. `Walked` says that
  the first has come as far as the second would with the winners found compliant so far. That
  a walk depends only on the rungs it has passed, and that a pot once empty stays empty, is
  shown by induction over the rungs; the library's induction theorem cannot be
  instantiated, so `Induct` derives it, for a set of naturals, from the well-foundedness of
  `Nat`. `CoversAll` (who covered its requirement all the time did when the metagraph was
  fetched) makes `CoveredIsNeverGated` inductive. Gives `PaymentIsChecked`, `LocksAreEnough`,
  `BurnsForWant`, `PotIsSpentOnce`, for any ladder and any shares.
- **WeightSetting.** `CycleOfTheVersion` (a cycle began under the release that still runs
  it, since a restart on another ends it), with the chain's own check, for
  `WeightsFailClosed`; `DecidedBySchedule` (what is noted of a window lies in it and burns
  as its schedule says) for `BurnsOncePerWindow`, which assumes `BURN_ENABLED`, as
  `core/constants.py` has it.

### What is only model-checked

- Liveness: `EveryRevealIsJudged`, `LedgerCatchesUp`, `OverrideTakesEffect`. `ENABLED` and
  proofs from fairness are out of the prover's reach.
- That the properties of the two counterexample runs fail, of course.

## 5. What was met and has no run

Behaviour that a reader of the code, or of a comment, may not expect. The models have
these steps; a run for each would only ask whether the step exists.

*Round.* When the incumbent fails its re-evaluation, the first challenger that beats zstd
takes the crown over the standby, even when it is worse (`docs/reign-and-burn.md:17` has the
standby promoted back, the comment at `reign_worker/service.py:154` says what the code
does). A champion whose score a release dropped is a challenger of itself, cannot beat
itself and is excluded while it wears the crown (`validator/service.py:984`). The next round
drops it from the ladder, so `CrownLostOnlyToMargin` fails across such a release, and a
comment (`core/state.py:121`, "the reigning incumbent is unaffected either way") does not
hold; `OnlyADroppedScoreUnseats` is what does. After such a release an unreachable incumbent
sets the bar with its ratio under the old rules (`reign_worker/service.py:141`). A crown
that moves by compaction or recovery is never published (`validator/service.py:1027`).

*Admission.* When the original's digest was missed by the polls and the copier's was not,
the copier owns the artifact, although a comment (`validator/service.py:957`) has the copier
lose. The height is read before the commitments, so a digest can be recorded with an earlier
height than its own. When the repository answers and the download of the manifest then
fails, `repo_unreachable` stays unset (`validation/precheck.py:454`): a champion is then
neither valid nor unreachable and loses the crown, which it may win back by recovery but
without its improvement, although a comment (`core/state.py:99`) says a champion never loses
it to an outage. `CrownLostOnlyToMargin` is about outages of the repository itself. An
opened digest that stays on file after a lost round competes from its first block; one that
is left on chain is stamped anew after each pruning. A failed download of one codec loses
the round for all. The 404 streak counts saved rounds only.

*Evaluation.* Any docker command that fails costs a challenger its one shot (`command`), and
so do a container of an earlier phase that comes up, or takes memory, after the check
(`late`: a timed-out `docker run`, a refused removal), a check that had nothing to compare with (`unchecked`) and one that
was capped (`capped`): `InsufficientGpuMemoryError` was made to avoid them. A container left
running makes every later round of codecs that declare memory abort; nothing removes it.
If `rm -f` times out, the network is not removed and the round aborts; if it is refused, the
round goes on and container and network stay. An entrypoint that
exits with 0 after the watchdog has triggered is accepted.

*LiveBench.* A fetch that hangs blocks all later ones for the life of the process; partial
files of crashed fetches are never removed.

*Ledger.* The grid is anchored at a constant but stepped by the tempo the chain reports at
each catch-up, so validators that catch up on either side of a tempo change sample different
blocks, where `core/conviction.py:74` says identical ones. `NothingIsForgotten` compares
with what was last saved whole; that a crash in mid save leaves a cut file, which no process
takes for an empty one but none repairs either, is the model's `whole = FALSE` and the
exception of `LedgerCatchesUp`.

*Payment and weights.* The version gate is at the start of a cycle that takes hours: if the
owner sets the version back meanwhile, the weights are submitted with the later key and the
chain takes them, where `README.md:145` says that the validator never sets weights while the
two differ (`FailClosed` is the part that holds). The staked rule that replaces a failed
lock read uses stakes from before the evaluation, so it can gate a winner whose lock, made
since, covers its requirement (`validator/service.py:740` says never; `CoveredIsNeverGated`
is the part that holds). The burn is decided for the height before the evaluation and may
land in a later tempo; validators at different heights or with different outputs have
different seeds; a seed that changes inside a window may give it no burn tempo or two, which
is why `OneBurnPerWindow` is about one seed. The weight setter goes by the schedule if it
cannot read the override. Weights go to uids of a metagraph fetched before the evaluation.

## 6. What is not modelled

See `components` in `PROJECT.json`. Left out for good: what the AST scan of precheck looks
for, the arithmetic of scoring and the corpora, `glyph_eval_runner` (it measures inside the
container), parsing of artifacts and of commitment payloads, the substrate calls, the
Chutes service and its deployment, the metrics logger, one-shot tools, logging and
configuration: pure functions of their input or pure I/O, without state between calls.
Of the auto-updater only its effect is modelled, a restart on another release. The one-time
back-fill of improvements in old state files and the offline demo are not modelled either.

## 7. Plan

Left to prove, in the order of its worth:

1. The properties under `OneVersion` for releases that keep all scores, instead of none at
   all: `NothingDropped` and `Apart` from `OneFamily` with every bump listed as compatible.
2. `LosersLostToEarlier` without `OneCommitment`, if it holds.
