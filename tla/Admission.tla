------------------------------- MODULE Admission -------------------------------
(***************************************************************************)
(* How a codec enters the competition: the two transactions of             *)
(* miner/commit.py, the polls between rounds (validator/service.py,        *)
(* poll_commit_phase), and the precheck of a round (_apply_precheck with   *)
(* validation/precheck.py), which decides what is valid, which block it    *)
(* competes from, and who owns an artifact that was published twice.       *)
(*                                                                         *)
(* The validator reads the height first and the commitments later, and it  *)
(* works on a copy of the state file that it saves at the end, so miners   *)
(* and blocks move in between.  Each hotkey has one codec and one salt,    *)
(* hence one digest; the codec's content may be a copy of another's.       *)
(***************************************************************************)
EXTENDS Naturals, FiniteSets

CONSTANTS
    None,
    Hotkey,       \* hotkeys, naturals in their string order
    CopyOf,       \* CopyOf[h]: the hotkey whose artifact h re-hosts, or None
    Quality,      \* "good", "flawed" (only the full check sees it) or "broken"
    MaxBlock,     \* bound on the chain height
    FullInterval, \* PRECHECK_FULL_RECHECK_INTERVAL_BLOCKS
    StreakLimit,  \* REPO_NOT_FOUND_EXCLUDE_STREAK
    MaxAge        \* COMMIT_PHASE_MAX_AGE_BLOCKS

ASSUME AdmissionAssumption ==
    /\ Hotkey \subseteq Nat /\ None \notin Nat
    /\ CopyOf \in [Hotkey -> Hotkey \cup {None}]
    /\ \A h \in Hotkey : CopyOf[h] # None => CopyOf[CopyOf[h]] = None
    /\ Quality \subseteq {"good", "flawed", "broken"}
    /\ MaxBlock \in Nat \ {0} /\ FullInterval \in Nat /\ MaxAge \in Nat
    /\ StreakLimit \in Nat \ {0}

VARIABLES
    block,          \* chain height
    slot,           \* slot[h]: what h has on chain: nothing, its digest or its reveal
    miner,          \* miner[h]: where h's commit tool is
    quality,        \* quality[o]: what is wrong with o's original artifact
    disk,           \* validator_state.json
    state,          \* the copy a round or a poll works on
    phase,          \* what the validator is doing
    read_block,     \* the height it read last (block, in the code)
    read_at_reveal, \* history: read_block when an original's reveal landed, or None
    first_saved     \* history: the first block the file held for h's digest, or None

chain == <<block, slot, miner, quality>>
history == <<read_at_reveal, first_saved>>
vars == <<chain, disk, state, phase, read_block, history>>

Original == {h \in Hotkey : CopyOf[h] = None}
\* The artifact hash: a byte-for-byte copy hashes like its original.
Content(h) == IF CopyOf[h] = None THEN h ELSE CopyOf[h]

Status == {"valid", "errors", "duplicate"}
CommitmentState ==
    [block : Nat, hashed : BOOLEAN, status : Status, unreachable : BOOLEAN,
     full_at : Nat, streak : Nat]
ASSUME NoneIsNoRecord == None \notin CommitmentState

ValidatorState ==
    [commitments : [Hotkey -> CommitmentState \cup {None}],
     owner : [Original -> Hotkey \cup {None}],
     seen : [Hotkey -> Nat \cup {None}], excluded : SUBSET Hotkey]

Revealed == {h \in Hotkey : slot[h] = "reveal"}
Committing == {h \in Hotkey : slot[h] = "digest"}
Valid(s) == {h \in Hotkey : s.commitments[h] # None /\ s.commitments[h].status = "valid"}

-----------------------------------------------------------------------------
(* The miner.                                                              *)

\* main refuses a slot that holds anything, and nobody can copy what is not revealed.
Commit(h) ==
    /\ miner[h] = "start" /\ slot[h] = "empty"
    /\ CopyOf[h] # None => slot[CopyOf[h]] = "reveal"
    /\ slot' = [slot EXCEPT ![h] = "digest"]
    /\ miner' = [miner EXCEPT ![h] = "committed"]
    /\ UNCHANGED <<block, quality, disk, state, phase, read_block, history>>

\* The digest was finalized, so the reveal lands in a later block.
Reveal(h) ==
    /\ miner[h] = "later"
    /\ slot' = [slot EXCEPT ![h] = "reveal"]
    /\ miner' = [miner EXCEPT ![h] = "done"]
    /\ read_at_reveal' = [o \in Original |-> IF o = h THEN read_block ELSE read_at_reveal[o]]
    /\ UNCHANGED <<block, quality, disk, state, phase, read_block, first_saved>>

\* The tool stops between its transactions: a second run finds the slot taken.
MinerStops(h) ==
    /\ miner[h] \in {"committed", "later"}
    /\ miner' = [miner EXCEPT ![h] = "done"]
    /\ UNCHANGED <<block, slot, quality, disk, state, phase, read_block, history>>

Tick ==
    /\ block < MaxBlock
    /\ block' = block + 1
    /\ miner' = [h \in Hotkey |-> IF miner[h] = "committed" THEN "later" ELSE miner[h]]
    /\ UNCHANGED <<slot, quality, disk, state, phase, read_block, history>>

-----------------------------------------------------------------------------
(* Commit-phase digests.                                                   *)

\* setdefault: the first block a digest was seen at stays.
Recorded(seen) ==
    [h \in Hotkey |-> IF h \in Committing /\ seen[h] = None THEN read_block ELSE seen[h]]

\* Mutant: the map loses the hotkeys whose digest is too old.
Pruned_Deleted(seen) ==
    [h \in {g \in Hotkey : seen[g] = None \/ read_block <= seen[g] + MaxAge} |-> seen[h]]

\* prune_commit_phase_seen.
Pruned(seen) ==
    [h \in Hotkey |-> IF seen[h] # None /\ read_block > seen[h] + MaxAge
                      THEN None ELSE seen[h]]

\* History: the digests the file holds from now on.
NoteSaved(seen) ==
    first_saved' = [h \in Hotkey |-> IF first_saved[h] = None THEN seen[h] ELSE first_saved[h]]

\* A poll, between rounds, or a round loads the file and reads the height.
Begin(kind) ==
    /\ phase = "idle"
    /\ phase' = kind
    /\ read_block' = block
    /\ UNCHANGED <<chain, disk, state, history>>

\* poll_commit_phase, from the reading of the commitments on.
Poll ==
    /\ phase = "poll"
    /\ disk' = [disk EXCEPT !.seen = Pruned(Recorded(disk.seen))]
    /\ state' = disk'
    /\ phase' = "idle"
    /\ NoteSaved(disk'.seen)
    /\ UNCHANGED <<chain, read_block, read_at_reveal>>

-----------------------------------------------------------------------------
(* Precheck.  An answer is what HuggingFace does for one repository: it     *)
(* serves it, says it is gone (404), fails altogether, or knows the        *)
(* revision and then fails to deliver the files.                           *)

Answer == {"up", "gone", "down", "cut"}

\* Whether the files are downloaded: the first time, until there is a hash, and again
\* after an interval.
full_check(old) ==
    old # None /\ old.hashed => read_block >= old.full_at + FullInterval

\* artifact_security_errors and the cap on an artifact's size, whatever they hold
\* against a codec: found when the files are downloaded, not in the manifest.
FullCheckPasses(h) == quality[Content(h)] = "good"

\* precheck_artifact_dir: a manifest that loads and files that hash leave a hash,
\* whether or not there were errors.
precheck_artifact_dir(h) ==
    [ok |-> FullCheckPasses(h), hashed |-> quality[Content(h)] # "broken",
     not_found |-> FALSE, unreachable |-> FALSE]

\* precheck_codec; Raises has no result.
precheck_codec(h, answer, download) ==
    LET failed == [ok |-> FALSE, hashed |-> FALSE,
                   not_found |-> answer = "gone",
                   unreachable |-> answer \in {"gone", "down"}]
    IN  IF answer # "up" THEN failed
        ELSE IF download THEN precheck_artifact_dir(h)
        ELSE [failed EXCEPT !.ok = quality[Content(h)] # "broken"]

Checked(excluded) == {h \in Revealed : h \notin excluded}

\* snapshot_download lets its exception through: nobody's precheck is finished.
Raises(answer) ==
    \E h \in Checked(disk.excluded) :
        answer[h] = "cut" /\ full_check(disk.commitments[h])

\* The tie-break block: of the digest this reveal opens, else the recorded one.
commit_block(old, digest_block) ==
    IF digest_block # None THEN digest_block
    ELSE IF old # None THEN old.block ELSE read_block

\* Mutant: only an answer that finds the repository ends the streak.
Streak_Sticky(old, result) ==
    LET prior == IF old = None THEN 0 ELSE old.streak
    IN  IF result.not_found THEN prior + 1 ELSE IF result.ok THEN 0 ELSE prior

\* Consecutive 404s.
Streak(old, result) ==
    LET prior == IF old = None THEN 0 ELSE old.streak
    IN  IF result.not_found THEN prior + 1 ELSE 0

\* The new record of one codec, before duplicates are looked at.
Entry(old, result, full, digest_block) ==
    [block |-> commit_block(old, digest_block),
     hashed |-> result.hashed \/ (old # None /\ old.hashed),
     status |-> IF result.ok THEN "valid" ELSE "errors",
     unreachable |-> result.unreachable /\ Streak(old, result) < StreakLimit,
     full_at |-> IF full THEN read_block ELSE old.full_at,
     streak |-> Streak(old, result)]

Candidates(entries, o) ==
    {h \in DOMAIN entries : Content(h) = o /\ entries[h].hashed /\ entries[h].status = "valid"}

\* Mutant: a copy takes an artifact over when its owner fails one precheck.
Owner_NotSticky(owner, entries, o) ==
    LET candidates == Candidates(entries, o)
        First(h) == \A g \in candidates \ {h} :
                        \/ entries[h].block < entries[g].block
                        \/ entries[h].block = entries[g].block /\ h < g
    IN  IF candidates = {} \/ owner[o] \in candidates THEN owner[o]
        ELSE CHOOSE h \in candidates : First(h)

\* Mutant: the first hotkey in string order (issue #58).
Owner_ByName(owner, entries, o) ==
    LET candidates == Candidates(entries, o)
    IN  IF owner[o] # None \/ candidates = {} THEN owner[o]
        ELSE CHOOSE h \in candidates : \A g \in candidates : h <= g

\* duplicate_hash_owner: sticky, else the earliest block, then the hotkey.
Owner(owner, entries, o) ==
    LET candidates == Candidates(entries, o)
        First(h) == \A g \in candidates \ {h} :
                        \/ entries[h].block < entries[g].block
                        \/ entries[h].block = entries[g].block /\ h < g
    IN  IF owner[o] # None \/ candidates = {} THEN owner[o]
        ELSE CHOOSE h \in candidates : First(h)

\* _evaluate_round up to the precheck, and _apply_precheck.
Prechecked(answer) ==
    LET digests == Pruned(Recorded(disk.seen))
        checked == Checked(disk.excluded)
        full(h) == full_check(disk.commitments[h])
        entries == [h \in checked |->
            Entry(disk.commitments[h], precheck_codec(h, answer[h], full(h)),
                  full(h), digests[h])]
        owner == [o \in Original |-> Owner(disk.owner, entries, o)]
    IN  [commitments |-> [h \in Hotkey |->
            IF h \notin checked THEN disk.commitments[h]
            ELSE IF h \in Candidates(entries, Content(h)) /\ owner[Content(h)] # h
            THEN [entries[h] EXCEPT !.status = "duplicate"] ELSE entries[h]],
         owner |-> owner,
         seen |-> [h \in Hotkey |-> IF h \in checked THEN None ELSE digests[h]],
         excluded |-> disk.excluded \cup {h \in checked : entries[h].streak >= StreakLimit}]

Precheck ==
    /\ phase = "round"
    /\ \E answer \in [Checked(disk.excluded) -> Answer] :
        /\ ~Raises(answer)
        /\ state' = Prechecked(answer)
    /\ phase' = "checked"
    /\ UNCHANGED <<chain, disk, read_block, history>>

\* The evaluation ends and the round is saved; losers is whom run_round (module
\* Reign) excluded among the codecs it evaluated.
Save ==
    /\ phase = "checked"
    /\ \E losers \in SUBSET (Valid(state) \ state.excluded) :
          disk' = [state EXCEPT !.excluded = @ \cup losers]
    /\ state' = disk'
    /\ phase' = "idle"
    /\ NoteSaved(disk'.seen)
    /\ UNCHANGED <<chain, read_block, read_at_reveal>>

\* Mutant: the digests that were opened are gone although the round was lost.
Forgotten_Saved == [disk EXCEPT !.seen = state.seen]

\* What is left of a round that does not end with a save: the file.
Forgotten == disk

\* An exception or a restart before the save; a precheck that raises is one.
Abort ==
    /\ \/ phase \in {"poll", "checked"}
       \/ phase = "round" /\ \E answer \in [Checked(disk.excluded) -> Answer] : Raises(answer)
    /\ disk' = Forgotten
    /\ state' = disk'
    /\ phase' = "idle"
    /\ UNCHANGED <<chain, read_block, history>>

EmptyState == [commitments |-> [h \in Hotkey |-> None], owner |-> [o \in Original |-> None],
               seen |-> [h \in Hotkey |-> None], excluded |-> {}]

Init ==
    /\ block = 1 /\ slot = [h \in Hotkey |-> "empty"]
    /\ miner = [h \in Hotkey |-> "start"] /\ quality \in [Original -> Quality]
    /\ disk = EmptyState /\ state = EmptyState
    /\ phase = "idle" /\ read_block = 0
    /\ read_at_reveal = [o \in Original |-> None]
    /\ first_saved = [h \in Hotkey |-> None]

Validator == Begin("poll") \/ Begin("round") \/ Poll \/ Precheck \/ Save \/ Abort
Next == Validator \/ Tick \/ \E h \in Hotkey : Commit(h) \/ Reveal(h) \/ MinerStops(h)

Spec == Init /\ [][Next]_vars

-----------------------------------------------------------------------------
(* Properties of the saved file.                                           *)

\* The variables have their types.
TypeOK ==
    /\ block \in 1..MaxBlock /\ slot \in [Hotkey -> {"empty", "digest", "reveal"}]
    /\ miner \in [Hotkey -> {"start", "committed", "later", "done"}]
    /\ quality \in [Original -> Quality]
    /\ disk \in ValidatorState /\ state \in ValidatorState
    /\ phase \in {"idle", "poll", "round", "checked"} /\ read_block \in 0..MaxBlock
    /\ read_at_reveal \in [Original -> Nat \cup {None}]
    /\ first_saved \in [Hotkey -> Nat \cup {None}]

\* However codecs come back from outages, one-shot losses and failed rounds, an
\* artifact is never valid under two hotkeys.
OneValidPerContent ==
    \A g, h \in Valid(disk) : Content(g) = Content(h) => g = h

\* A copy is made owner of an artifact over an original that passed the same precheck
\* only if the original's digest had not been recorded at a height read before the
\* reveal (miner/commit.py:103: who learns of a codec from its reveal "cannot land an
\* earlier commit").
OriginalOwns ==
    [][\A c \in Hotkey \ Original :
        LET o == CopyOf[c]
        IN  disk.owner[o] = None /\ disk'.owner[o] = c /\ disk'.commitments[o] # None
            /\ o \notin disk.excluded /\ disk'.commitments[o].status = "duplicate"
            => disk'.commitments[o].block >= read_at_reveal[o]]_disk

\* A codec's tie-break block never moves: when it is first saved it is the block at
\* which the file first held its digest, unless that was too old when the round read
\* the height, however many rounds were lost and polls ran in between.
TieBreakIsTheDigests ==
    [][\A h \in Hotkey : disk'.commitments[h] # None =>
        LET saved == disk'.commitments[h].block
        IN  IF disk.commitments[h] # None THEN saved = disk.commitments[h].block
            ELSE first_saved[h] # None /\ read_block <= first_saved[h] + MaxAge
                 => saved = first_saved[h]]_disk

\* Precheck excludes a codec only if the round saved before had already failed to
\* reach it: a codec that answered, whatever it answered, starts a new count, also
\* when rounds were lost in between (module Reign's PossibleVerdicts relies on it).
GoneWasUnreachable ==
    [][\A h \in disk'.excluded \ (disk.excluded \cup Valid(disk')) :
        disk.commitments[h] # None /\ disk.commitments[h].unreachable]_disk

-----------------------------------------------------------------------------
(* What the repository says and the code does not do.                      *)

\* No codec is valid that the checks on its files would refuse (precheck.py:3-5).
ValidPassedFullCheck == \A h \in Valid(disk) : FullCheckPasses(h)

=============================================================================
