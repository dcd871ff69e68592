---------------------------- MODULE AdmissionProofs ----------------------------
(***************************************************************************)
(* Proofs about Admission, for every set of hotkeys and copies, every      *)
(* answer of the repository host and every interleaving of miners, polls   *)
(* and rounds.  Two states of the validator are in play, the saved file    *)
(* and the copy a round works on; what holds of both is WellKept, and      *)
(* RoundKeeps relates the second to the first between precheck and save.   *)
(***************************************************************************)
EXTENDS Admission, WellFoundedInduction, TLAPS

\* The owner of an artifact is the only hotkey it is valid under.
ValidAreOwners(s) == \A h \in Valid(s) : s.owner[Content(h)] = h

\* There are duplicates only of what has an owner.
DuplicatesAreOwned(s) ==
    \A h \in Hotkey : s.commitments[h] # None /\ s.commitments[h].status = "duplicate"
                      => s.owner[Content(h)] # None

\* A record was opened on chain, and its digest is no longer looked for.
Opened(s) ==
    \A h \in Hotkey :
        /\ s.commitments[h] # None => slot[h] = "reveal" /\ s.seen[h] = None
        /\ s.seen[h] # None => slot[h] # "empty"

\* Who is counted as gone and not excluded yet is marked unreachable.
Counted(s) ==
    \A h \in Hotkey :
        s.commitments[h] # None =>
            /\ s.commitments[h].streak >= StreakLimit => h \in s.excluded
            /\ s.commitments[h].streak > 0 /\ s.commitments[h].streak < StreakLimit
               => s.commitments[h].unreachable

\* Nothing about a copy was recorded at a height read before its original was revealed.
CopiesCameLater(s) ==
    \A c \in Hotkey \ Original :
        /\ s.seen[c] # None => s.seen[c] >= read_at_reveal[CopyOf[c]]
        /\ s.commitments[c] # None => s.commitments[c].block >= read_at_reveal[CopyOf[c]]

\* Until a digest is opened, the block it was first saved with stays, or is too old.
FirstKept(s) ==
    \A h \in Hotkey :
        first_saved[h] # None /\ s.commitments[h] = None =>
            s.seen[h] = first_saved[h] \/ read_block > first_saved[h] + MaxAge

WellKept(s) ==
    /\ ValidAreOwners(s) /\ DuplicatesAreOwned(s) /\ Opened(s)
    /\ Counted(s) /\ CopiesCameLater(s) /\ FirstKept(s)

\* The order in which a codec and its copy appear on chain.
OriginalsFirst ==
    \A h \in Hotkey :
        /\ miner[h] \in {"committed", "later"} => slot[h] = "digest"
        /\ h \notin Original /\ slot[h] # "empty" => slot[CopyOf[h]] = "reveal"

\* The history of reveals.
RevealsNoted ==
    \A o \in Original :
        /\ slot[o] = "reveal" => read_at_reveal[o] # None
        /\ read_at_reveal[o] # None => read_at_reveal[o] <= read_block

\* What a round's copy s says of a hotkey, against the file: the tie-break block, who is
\* gone, and the copy that becomes an owner.
TieBreakKept(s, h) ==
    s.commitments[h] # None =>
        IF disk.commitments[h] # None
        THEN s.commitments[h].block = disk.commitments[h].block
        ELSE first_saved[h] # None /\ read_block <= first_saved[h] + MaxAge
             => s.commitments[h].block = first_saved[h]

GoneNoticed(s, h) ==
    StreakLimit >= 2 /\ h \in s.excluded \ disk.excluded =>
        disk.commitments[h] # None /\ disk.commitments[h].unreachable

CopyWins(s, c) ==
    LET o == CopyOf[c]
    IN  disk.owner[o] = None /\ s.owner[o] = c /\ s.commitments[o] # None
        /\ o \notin disk.excluded /\ s.commitments[o].status = "duplicate"
        => s.commitments[o].block >= read_at_reveal[o]

RoundKeeps(s) ==
    /\ \A h \in Hotkey : TieBreakKept(s, h) /\ GoneNoticed(s, h)
    /\ \A c \in Hotkey \ Original : CopyWins(s, c)

IInv ==
    /\ TypeOK /\ read_block <= block
    /\ WellKept(disk) /\ WellKept(state)
    /\ OriginalsFirst /\ RevealsNoted
    /\ phase = "checked" => RoundKeeps(state)

-----------------------------------------------------------------------------
(* Operators.                                                              *)

\* Artifacts are named by their originals.
LEMMA ContentTypes ==
  ASSUME NEW h \in Hotkey
  PROVE  /\ Content(h) \in Original
         /\ h \in Original => Content(h) = h /\ CopyOf[h] = None
         /\ h \notin Original => Content(h) = CopyOf[h] /\ CopyOf[h] \in Original
  BY AdmissionAssumption DEF Content, Original

\* Every set of naturals that is not empty has a least one.
LEMMA Least ==
  ASSUME NEW S \in SUBSET Nat, S # {}
  PROVE  \E n \in S : \A m \in S : n <= m
  <1>. DEFINE R == {x \in Nat \X Nat : x[1] < x[2]}
  <1>1. IsWellFoundedOn(R, Nat)
    BY NatLessThanWellFounded, Zenon DEF OpToRel
  <1>2. PICK n \in S : \A m \in S : ~(<<m, n>> \in R)
    <2>. HIDE DEF R
    <2>. QED
      BY <1>1, WFMin
  <1>3. \A m \in S : ~(m < n)
    BY <1>2
  <1>. QED
    BY <1>3

\* One of several codecs is the first by block and hotkey.
LEMMA OneIsFirst ==
  ASSUME NEW T \in SUBSET Nat, T # {}, NEW b, \A h \in T : b[h] \in Nat
  PROVE  \E h \in T : \A g \in T \ {h} : b[h] < b[g] \/ (b[h] = b[g] /\ h < g)
  <1>. DEFINE B == {b[h] : h \in T}
  <1>1. PICK m \in B : \A n \in B : m <= n
    <2>1. B \in SUBSET Nat /\ B # {}
      OBVIOUS
    <2>. QED
      BY <2>1, Least
  <1>. DEFINE U == {h \in T : b[h] = m}
  <1>2. PICK u \in U : \A v \in U : u <= v
    <2>1. U \in SUBSET Nat /\ U # {}
      BY <1>1
    <2>. QED
      BY <2>1, Least
  <1>3. ASSUME NEW g \in T \ {u}
        PROVE  b[u] < b[g] \/ (b[u] = b[g] /\ u < g)
    <2>1. b[u] = m /\ m <= b[g] /\ m \in Nat /\ b[g] \in Nat /\ u \in Nat /\ g \in Nat
      BY <1>1
    <2>2. b[g] = m => u <= g
      BY <1>2
    <2>. QED
      BY <2>1, <2>2
  <1>. QED
    BY <1>3

\* A digest map after a look at the chain: the digests that were there stay until they
\* are too old, and only what is committing is added.
LEMMA DigestFacts ==
  ASSUME TypeOK, NEW seen \in [Hotkey -> Nat \cup {None}], NEW h \in Hotkey
  PROVE  LET d == Pruned(Recorded(seen))
         IN  /\ d \in [Hotkey -> Nat \cup {None}]
             /\ d[h] # None => d[h] = seen[h] \/ (d[h] = read_block /\ slot[h] = "digest")
             /\ seen[h] # None => d[h] = seen[h] \/ read_block > seen[h] + MaxAge
  <1>. DEFINE r == Recorded(seen)
              d == Pruned(r)
  <1>1. read_block \in Nat
    BY AdmissionAssumption DEF TypeOK
  <1>2. r \in [Hotkey -> Nat \cup {None}]
    BY <1>1 DEF Recorded
  <1>3. /\ seen[h] # None => r[h] = seen[h]
        /\ r[h] # None => r[h] = seen[h] \/ (r[h] = read_block /\ slot[h] = "digest")
    BY DEF Recorded, Committing
  <1>. HIDE DEF r
  <1>4. d \in [Hotkey -> Nat \cup {None}]
    BY <1>2 DEF Pruned
  <1>5. d[h] = r[h] \/ (d[h] = None /\ r[h] # None /\ read_block > r[h] + MaxAge)
    BY <1>2 DEF Pruned
  <1>. HIDE DEF d
  <1>6. /\ d \in [Hotkey -> Nat \cup {None}]
        /\ d[h] # None => d[h] = seen[h] \/ (d[h] = read_block /\ slot[h] = "digest")
        /\ seen[h] # None => d[h] = seen[h] \/ read_block > seen[h] + MaxAge
    BY <1>3, <1>4, <1>5
  <1>. QED
    BY <1>6 DEF d, r

-----------------------------------------------------------------------------
(* A precheck.                                                             *)

\* The parts of Prechecked.
Digests == Pruned(Recorded(disk.seen))

Entries(answer) ==
    [h \in Checked(disk.excluded) |->
        Entry(disk.commitments[h], precheck_codec(h, answer[h], full_check(disk.commitments[h])),
              full_check(disk.commitments[h]), Digests[h])]

Owners(answer) == [o \in Original |-> Owner(disk.owner, Entries(answer), o)]

IsDuplicate(h, answer) ==
    h \in Candidates(Entries(answer), Content(h)) /\ Owners(answer)[Content(h)] # h

Outcome(h, answer) ==
    IF h \notin Checked(disk.excluded) THEN disk.commitments[h]
    ELSE IF IsDuplicate(h, answer)
    THEN [Entries(answer)[h] EXCEPT !.status = "duplicate"] ELSE Entries(answer)[h]

LEMMA PrecheckedParts ==
  ASSUME NEW answer
  PROVE  /\ Prechecked(answer).owner = Owners(answer)
         /\ Prechecked(answer).commitments = [h \in Hotkey |-> Outcome(h, answer)]
         /\ Prechecked(answer).seen =
              [h \in Hotkey |-> IF h \in Checked(disk.excluded) THEN None ELSE Digests[h]]
         /\ Prechecked(answer).excluded =
              disk.excluded \cup {h \in Checked(disk.excluded) :
                                    Entries(answer)[h].streak >= StreakLimit}
         /\ Prechecked(answer) =
              [commitments |-> Prechecked(answer).commitments,
               owner |-> Prechecked(answer).owner, seen |-> Prechecked(answer).seen,
               excluded |-> Prechecked(answer).excluded]
  BY DEF Prechecked, Entries, Owners, IsDuplicate, Outcome, Digests

\* The record of one codec after its precheck.
EntryOf(h, e) ==
    /\ e \in CommitmentState /\ e.status \in {"valid", "errors"}
    /\ e.status = "valid" => e.hashed
    /\ e.streak > 0 /\ e.streak < StreakLimit => e.unreachable
    /\ e.streak # 0 => \/ e.streak = 1
                       \/ /\ disk.commitments[h] # None
                          /\ disk.commitments[h].streak > 0
                          /\ e.streak = disk.commitments[h].streak + 1
    /\ e.block = IF Digests[h] # None THEN Digests[h]
                 ELSE IF disk.commitments[h] # None THEN disk.commitments[h].block
                 ELSE read_block

LEMMA StateTypes ==
  ASSUME TypeOK, NEW s \in {disk, state}
  PROVE  /\ s \in ValidatorState
         /\ s.commitments \in [Hotkey -> CommitmentState \cup {None}]
         /\ s.owner \in [Original -> Hotkey \cup {None}]
         /\ s.seen \in [Hotkey -> Nat \cup {None}] /\ s.excluded \in SUBSET Hotkey
  BY DEF TypeOK, ValidatorState

\* A codec that is not downloaded has a hash, and one that is and passes gets one.
LEMMA ResultFacts ==
  ASSUME TypeOK, NEW h \in Hotkey, NEW a \in Answer, NEW old \in CommitmentState \cup {None}
  PROVE  LET r == precheck_codec(h, a, full_check(old))
         IN  /\ r.ok \in BOOLEAN /\ r.hashed \in BOOLEAN
             /\ r.not_found \in BOOLEAN /\ r.unreachable \in BOOLEAN
             /\ r.ok => r.hashed \/ (old # None /\ old.hashed)
             /\ r.not_found => r.unreachable
             /\ ~full_check(old) => old # None
  <1>. DEFINE r == precheck_codec(h, a, full_check(old))
  <1>1. /\ r.ok \in BOOLEAN /\ r.hashed \in BOOLEAN
        /\ r.not_found \in BOOLEAN /\ r.unreachable \in BOOLEAN
    <2>. DEFINE failed == [ok |-> FALSE, hashed |-> FALSE, not_found |-> a = "gone",
                           unreachable |-> a \in {"gone", "down"}]
                manifest == [failed EXCEPT !.ok = quality[Content(h)] # "broken"]
                files == precheck_artifact_dir(h)
                Result == [ok : BOOLEAN, hashed : BOOLEAN, not_found : BOOLEAN,
                           unreachable : BOOLEAN]
    <2>1. r \in {failed, manifest, files}
      BY DEF precheck_codec
    <2>2. \A x, y, z, w \in BOOLEAN :
              [ok |-> x, hashed |-> y, not_found |-> z, unreachable |-> w] \in Result
      OBVIOUS
    <2>a. (a = "gone") \in BOOLEAN
      OBVIOUS
    <2>b. (a \in {"gone", "down"}) \in BOOLEAN
      OBVIOUS
    <2>c. (quality[Content(h)] # "broken") \in BOOLEAN
      OBVIOUS
    <2>d. (quality[Content(h)] = "good") \in BOOLEAN
      OBVIOUS
    <2>3. /\ FALSE \in BOOLEAN /\ (a = "gone") \in BOOLEAN
          /\ (a \in {"gone", "down"}) \in BOOLEAN /\ (quality[Content(h)] # "broken") \in BOOLEAN
          /\ (quality[Content(h)] = "good") \in BOOLEAN
      BY <2>a, <2>b, <2>c, <2>d, Zenon
    <2>4. failed \in Result
      BY <2>2, <2>3, Zenon
    <2>5. manifest \in Result
      <3>1. \A x, y \in Result : [x EXCEPT !.ok = y.ok] \in Result
        OBVIOUS
      <3>2. [ok |-> quality[Content(h)] # "broken", hashed |-> FALSE,
             not_found |-> FALSE, unreachable |-> FALSE] \in Result
        BY <2>2, <2>3, Zenon
      <3>. DEFINE y == [ok |-> quality[Content(h)] # "broken", hashed |-> FALSE,
                        not_found |-> FALSE, unreachable |-> FALSE]
      <3>3. y.ok = (quality[Content(h)] # "broken")
        OBVIOUS
      <3>. HIDE DEF y, failed, Result
      <3>. QED
        BY <2>4, <3>1, <3>2, <3>3 DEF y
    <2>6. files \in Result
      BY <2>2, <2>3, Zenon DEF precheck_artifact_dir, FullCheckPasses
    <2>. HIDE DEF r, failed, manifest, files
    <2>. QED
      BY <2>1, <2>4, <2>5, <2>6
  <1>2. r.not_found => r.unreachable
    BY DEF precheck_codec, precheck_artifact_dir
  <1>3. ~full_check(old) => old # None /\ old.hashed
    BY DEF full_check
  <1>4. full_check(old) /\ r.ok => r.hashed
    BY DEF precheck_codec, precheck_artifact_dir, FullCheckPasses
  <1>. QED
    BY <1>1, <1>2, <1>3, <1>4

LEMMA EntryFacts ==
  ASSUME TypeOK, NEW answer \in [Checked(disk.excluded) -> Answer],
         NEW h \in Checked(disk.excluded)
  PROVE  EntryOf(h, Entries(answer)[h])
  <1>. DEFINE old == disk.commitments[h]
              full == full_check(old)
              r == precheck_codec(h, answer[h], full)
              e == Entry(old, r, full, Digests[h])
  <1>1. h \in Hotkey
    BY DEF Checked, Revealed
  <1>2. old \in CommitmentState \cup {None} /\ None \notin Nat
    BY <1>1, StateTypes, AdmissionAssumption
  <1>3. /\ r.ok \in BOOLEAN /\ r.hashed \in BOOLEAN
        /\ r.not_found \in BOOLEAN /\ r.unreachable \in BOOLEAN
        /\ r.ok => r.hashed \/ (old # None /\ old.hashed)
        /\ r.not_found => r.unreachable
        /\ ~full => old # None
    <2>1. answer[h] \in Answer
      OBVIOUS
    <2>. QED
      BY <1>1, <1>2, <2>1, ResultFacts
  <1>4. Digests[h] \in Nat \cup {None} /\ read_block \in Nat
    <2>1. read_block \in Nat
      BY AdmissionAssumption DEF TypeOK
    <2>2. disk.seen \in [Hotkey -> Nat \cup {None}]
      BY StateTypes
    <2>. QED
      BY <1>1, <2>1, <2>2, DigestFacts DEF Digests
  <1>5. Entries(answer)[h] = e
    BY DEF Entries
  <1>. HIDE DEF r, full
  <1>6. old # None => /\ old.block \in Nat /\ old.hashed \in BOOLEAN /\ old.full_at \in Nat
                      /\ old.streak \in Nat
    BY <1>2 DEF CommitmentState
  <1>. HIDE DEF old
  <1>7. Streak(old, r) \in Nat
    BY <1>6 DEF Streak
  <1>8. /\ e.block \in Nat /\ e.hashed \in BOOLEAN /\ e.status \in {"valid", "errors"}
        /\ e.full_at \in Nat /\ e.streak \in Nat /\ e.unreachable \in BOOLEAN
    <2>1. e.block \in Nat /\ e.full_at \in Nat /\ e.streak \in Nat
      BY <1>3, <1>4, <1>6, <1>7 DEF Entry, commit_block
    <2>2. e.hashed \in BOOLEAN /\ e.unreachable \in BOOLEAN
      BY <1>3, <1>6, Zenon DEF Entry
    <2>3. e.status \in {"valid", "errors"}
      BY DEF Entry
    <2>. QED
      BY <2>1, <2>2, <2>3
  <1>9. e \in CommitmentState
    BY <1>8 DEF Entry, CommitmentState, Status
  <1>10. e.status = "valid" => e.hashed
    BY <1>3 DEF Entry
  <1>11. e.streak > 0 /\ e.streak < StreakLimit => e.unreachable
    <2>1. e.streak = Streak(old, r) /\ e.unreachable = (r.unreachable /\ Streak(old, r) < StreakLimit)
      BY DEF Entry
    <2>2. Streak(old, r) > 0 => r.not_found
      BY <1>7 DEF Streak
    <2>. QED
      BY <2>1, <2>2, <1>3
  <1>12. e.streak # 0 => \/ e.streak = 1
                         \/ old # None /\ old.streak > 0 /\ e.streak = old.streak + 1
    BY <1>6 DEF Entry, Streak
  <1>13. e.block = IF Digests[h] # None THEN Digests[h]
                   ELSE IF old # None THEN old.block ELSE read_block
    BY DEF Entry, commit_block
  <1>. QED
    BY <1>5, <1>8, <1>9, <1>10, <1>11, <1>12, <1>13 DEF EntryOf, old

\* duplicate_hash_owner: an owner stays, and a new one is first among the candidates.
LEMMA OwnerFacts ==
  ASSUME TypeOK, NEW answer \in [Checked(disk.excluded) -> Answer], NEW o \in Original
  PROVE  LET candidates == Candidates(Entries(answer), o)
         IN  /\ Owners(answer)[o] \in Hotkey \cup {None}
             /\ disk.owner[o] # None => Owners(answer)[o] = disk.owner[o]
             /\ candidates # {} => Owners(answer)[o] # None
             /\ disk.owner[o] = None /\ Owners(answer)[o] # None =>
                  /\ Owners(answer)[o] \in candidates
                  /\ \A g \in candidates :
                        Entries(answer)[Owners(answer)[o]].block <= Entries(answer)[g].block
  <1>. DEFINE e == Entries(answer)
              T == Candidates(e, o)
              First(h) == \A g \in T \ {h} :
                             \/ e[h].block < e[g].block
                             \/ e[h].block = e[g].block /\ h < g
  <1>1. Owners(answer)[o] = IF disk.owner[o] # None \/ T = {} THEN disk.owner[o]
                            ELSE CHOOSE h \in T : First(h)
    BY DEF Owners, Owner
  <1>2. T \subseteq Checked(disk.excluded)
    BY DEF Candidates, Entries
  <1>3. T \subseteq Hotkey
    BY <1>2 DEF Checked, Revealed
  <1>4. \A h \in T : e[h].block \in Nat
    BY <1>2, EntryFacts DEF EntryOf, CommitmentState
  <1>. HIDE DEF e, T
  <1>5. T # {} => \E h \in T : First(h)
    <2>. DEFINE b == [h \in T |-> e[h].block]
    <2>1. SUFFICES ASSUME T # {} PROVE \E h \in T : First(h)
      OBVIOUS
    <2>2. T \in SUBSET Nat /\ \A h \in T : b[h] \in Nat
      BY <1>3, <1>4, AdmissionAssumption
    <2>. HIDE DEF b
    <2>3. PICK h \in T : \A g \in T \ {h} : b[h] < b[g] \/ (b[h] = b[g] /\ h < g)
      BY <2>1, <2>2, OneIsFirst
    <2>4. First(h)
      BY <2>3 DEF b
    <2>. QED
      BY <2>4
  <1>6. T # {} /\ disk.owner[o] = None =>
            /\ Owners(answer)[o] \in T
            /\ First(Owners(answer)[o])
    BY <1>1, <1>5
  <1>7. disk.owner[o] \in Hotkey \cup {None}
    BY StateTypes
  <1>8. Owners(answer)[o] \in T /\ First(Owners(answer)[o]) =>
            \A g \in T : e[Owners(answer)[o]].block <= e[g].block
    <2>. DEFINE w == Owners(answer)[o]
    <2>1. SUFFICES ASSUME w \in T, First(w), NEW g \in T PROVE e[w].block <= e[g].block
      OBVIOUS
    <2>. HIDE DEF w
    <2>2. e[w].block \in Nat /\ e[g].block \in Nat
      BY <2>1, <1>4
    <2>. QED
      BY <2>1, <2>2
  <1>9. None \notin Hotkey
    BY AdmissionAssumption
  <1>10. /\ Owners(answer)[o] \in Hotkey \cup {None}
         /\ disk.owner[o] # None => Owners(answer)[o] = disk.owner[o]
         /\ T # {} => Owners(answer)[o] # None
         /\ disk.owner[o] = None /\ Owners(answer)[o] # None =>
              /\ Owners(answer)[o] \in T
              /\ \A g \in T : e[Owners(answer)[o]].block <= e[g].block
    <2>. HIDE DEF First
    <2>. QED
      BY <1>1, <1>3, <1>6, <1>7, <1>8, <1>9
  <1>. QED
    BY <1>10 DEF e, T

\* What a round's copy says of one hotkey after the precheck.
LEMMA OutcomeFacts ==
  ASSUME TypeOK, NEW answer \in [Checked(disk.excluded) -> Answer], NEW h \in Hotkey
  PROVE  LET s == Prechecked(answer)
             e == Entries(answer)[h]
         IN  /\ h \notin Checked(disk.excluded) =>
                  /\ s.commitments[h] = disk.commitments[h] /\ s.seen[h] = Digests[h]
                  /\ h \in s.excluded <=> h \in disk.excluded
             /\ h \in Checked(disk.excluded) =>
                  /\ EntryOf(h, e) /\ slot[h] = "reveal" /\ h \notin disk.excluded
                  /\ s.commitments[h] \in CommitmentState /\ s.seen[h] = None
                  /\ s.commitments[h].block = e.block /\ s.commitments[h].streak = e.streak
                  /\ s.commitments[h].unreachable = e.unreachable
                  /\ IsDuplicate(h, answer) <=> s.commitments[h].status = "duplicate"
                  /\ ~IsDuplicate(h, answer) => s.commitments[h] = e
                  /\ h \in s.excluded <=> e.streak >= StreakLimit
  <1>. DEFINE e == Entries(answer)[h]
              c == Prechecked(answer).commitments[h]
              dup == [e EXCEPT !.status = "duplicate"]
  <1>0. h \in Checked(disk.excluded) => slot[h] = "reveal" /\ h \notin disk.excluded
    BY DEF Checked, Revealed
  <1>1. CASE h \notin Checked(disk.excluded)
    BY <1>1, PrecheckedParts DEF Outcome
  <1>2. CASE h \in Checked(disk.excluded)
    <2>a. Prechecked(answer).commitments = [g \in Hotkey |-> Outcome(g, answer)]
      BY PrecheckedParts, Zenon
    <2>0. c = Outcome(h, answer)
      BY <2>a, Zenon
    <2>1. c = IF IsDuplicate(h, answer) THEN dup ELSE e
      BY <1>2, <2>0, Zenon DEF Outcome
    <2>2. EntryOf(h, e)
      BY <1>2, EntryFacts
    <2>3. e \in CommitmentState /\ e.status # "duplicate"
      BY <2>2 DEF EntryOf
    <2>4. /\ Prechecked(answer).seen[h] = None
          /\ h \in Prechecked(answer).excluded <=> e.streak >= StreakLimit
      BY <1>0, <1>2, PrecheckedParts
    <2>. HIDE DEF e
    <2>5. /\ dup \in CommitmentState /\ dup.status = "duplicate" /\ dup.block = e.block
          /\ dup.streak = e.streak /\ dup.unreachable = e.unreachable
      BY <2>3 DEF CommitmentState, Status
    <2>. HIDE DEF dup, c
    <2>6. /\ c \in CommitmentState /\ c.block = e.block /\ c.streak = e.streak
          /\ c.unreachable = e.unreachable
          /\ IsDuplicate(h, answer) <=> c.status = "duplicate"
          /\ ~IsDuplicate(h, answer) => c = e
      BY <2>1, <2>3, <2>5
    <2>. QED
      BY <1>0, <1>2, <2>2, <2>4, <2>6 DEF e, c
  <1>. QED
    BY <1>1, <1>2

LEMMA PrecheckTypes ==
  ASSUME TypeOK, NEW answer \in [Checked(disk.excluded) -> Answer]
  PROVE  Prechecked(answer) \in ValidatorState
  <1>. DEFINE s == Prechecked(answer)
  <1>1. s.commitments \in [Hotkey -> CommitmentState \cup {None}]
    <2>1. \A h \in Hotkey : s.commitments[h] \in CommitmentState \cup {None}
      BY OutcomeFacts, StateTypes
    <2>2. s.commitments = [g \in Hotkey |-> Outcome(g, answer)]
      BY PrecheckedParts, Zenon
    <2>3. s.commitments = [g \in Hotkey |-> s.commitments[g]]
      BY <2>2
    <2>. HIDE DEF s
    <2>. QED
      BY <2>1, <2>3
  <1>2. s.owner \in [Original -> Hotkey \cup {None}]
    <2>1. s.owner = Owners(answer)
      BY PrecheckedParts
    <2>2. \A o \in Original : Owners(answer)[o] \in Hotkey \cup {None}
      BY OwnerFacts
    <2>. QED
      BY <2>1, <2>2 DEF Owners
  <1>3. s.seen \in [Hotkey -> Nat \cup {None}]
    <2>1. disk.seen \in [Hotkey -> Nat \cup {None}]
      BY StateTypes
    <2>2. \A h \in Hotkey : Digests[h] \in Nat \cup {None}
      BY <2>1, DigestFacts DEF Digests
    <2>3. \A h \in Hotkey : s.seen[h] \in Nat \cup {None}
      BY <2>2, OutcomeFacts
    <2>. QED
      BY <2>3, PrecheckedParts
  <1>4. s.excluded \in SUBSET Hotkey
    BY PrecheckedParts, StateTypes DEF Checked, Revealed
  <1>5. s = [commitments |-> s.commitments, owner |-> s.owner, seen |-> s.seen,
             excluded |-> s.excluded]
    BY PrecheckedParts
  <1>. HIDE DEF s
  <1>. QED
    BY <1>1, <1>2, <1>3, <1>4, <1>5 DEF ValidatorState, s

\* An owner is no duplicate, and who is valid is the owner.
LEMMA PrecheckOwners ==
  ASSUME TypeOK, ValidAreOwners(disk), DuplicatesAreOwned(disk),
         NEW answer \in [Checked(disk.excluded) -> Answer]
  PROVE  ValidAreOwners(Prechecked(answer)) /\ DuplicatesAreOwned(Prechecked(answer))
  <1>. DEFINE s == Prechecked(answer)
  <1>1. s.owner = Owners(answer)
    BY PrecheckedParts
  <1>2. ASSUME NEW h \in Hotkey, h \notin Checked(disk.excluded), s.commitments[h] # None
        PROVE  /\ s.commitments[h].status = "valid" => s.owner[Content(h)] = h
               /\ s.commitments[h].status = "duplicate" => s.owner[Content(h)] # None
    <2>1. s.commitments[h] = disk.commitments[h]
      BY <1>2, OutcomeFacts
    <2>2. /\ disk.commitments[h].status = "valid" => disk.owner[Content(h)] = h
          /\ disk.commitments[h].status = "duplicate" => disk.owner[Content(h)] # None
      BY <1>2, <2>1 DEF ValidAreOwners, DuplicatesAreOwned, Valid
    <2>3. h # None
      BY AdmissionAssumption
    <2>4. disk.owner[Content(h)] # None => s.owner[Content(h)] = disk.owner[Content(h)]
      BY <1>1, ContentTypes, OwnerFacts
    <2>. QED
      BY <2>1, <2>2, <2>3, <2>4
  <1>3. ASSUME NEW h \in Checked(disk.excluded)
        PROVE  /\ s.commitments[h].status = "valid" => s.owner[Content(h)] = h
               /\ s.commitments[h].status = "duplicate" => s.owner[Content(h)] # None
    <2>0. h \in Hotkey
      BY DEF Checked, Revealed
    <2>1. /\ EntryOf(h, Entries(answer)[h])
          /\ IsDuplicate(h, answer) <=> s.commitments[h].status = "duplicate"
          /\ ~IsDuplicate(h, answer) => s.commitments[h] = Entries(answer)[h]
      BY <1>3, <2>0, OutcomeFacts
    <2>2. ASSUME s.commitments[h].status = "duplicate"
          PROVE  s.owner[Content(h)] # None
      BY <1>1, <2>0, <2>1, <2>2, ContentTypes, OwnerFacts DEF IsDuplicate
    <2>3. ASSUME s.commitments[h].status = "valid"
          PROVE  s.owner[Content(h)] = h
      <3>1. ~IsDuplicate(h, answer) /\ Entries(answer)[h].status = "valid"
        BY <2>1, <2>3
      <3>2. Entries(answer)[h].hashed
        BY <2>1, <3>1 DEF EntryOf
      <3>3. h \in Candidates(Entries(answer), Content(h))
        BY <1>3, <3>1, <3>2 DEF Candidates, Entries
      <3>. QED
        BY <1>1, <3>1, <3>3 DEF IsDuplicate
    <2>. QED
      BY <2>2, <2>3
  <1>. HIDE DEF s
  <1>4. \A h \in Hotkey : s.commitments[h] # None =>
               /\ s.commitments[h].status = "valid" => s.owner[Content(h)] = h
               /\ s.commitments[h].status = "duplicate" => s.owner[Content(h)] # None
    BY <1>2, <1>3
  <1>. QED
    BY <1>4 DEF ValidAreOwners, DuplicatesAreOwned, Valid, s

\* What a precheck finds in the digest map, for a record that is new and one that is not.
LEMMA DigestsOf ==
  ASSUME IInv, NEW h \in Hotkey
  PROVE  /\ Digests[h] \in Nat \cup {None} /\ read_block \in Nat
         /\ disk.commitments[h] # None => Digests[h] = None
         /\ Digests[h] # None => slot[h] # "empty"
         /\ h \notin Original /\ slot[h] # "empty" =>
              /\ read_at_reveal[CopyOf[h]] \in Nat
              /\ read_at_reveal[CopyOf[h]] <= read_block
              /\ Digests[h] # None => Digests[h] >= read_at_reveal[CopyOf[h]]
         /\ first_saved[h] # None /\ disk.commitments[h] = None =>
              Digests[h] = first_saved[h] \/ read_block > first_saved[h] + MaxAge
  <1>1. read_block \in Nat /\ MaxAge \in Nat /\ None \notin Nat
    BY AdmissionAssumption DEF IInv, TypeOK
  <1>2. disk.seen \in [Hotkey -> Nat \cup {None}]
    BY StateTypes DEF IInv
  <1>3. /\ Digests[h] \in Nat \cup {None}
        /\ Digests[h] # None =>
              Digests[h] = disk.seen[h] \/ (Digests[h] = read_block /\ slot[h] = "digest")
        /\ disk.seen[h] # None =>
              Digests[h] = disk.seen[h] \/ read_block > disk.seen[h] + MaxAge
    BY <1>2, DigestFacts DEF Digests, IInv
  <1>4. /\ disk.commitments[h] # None => slot[h] = "reveal" /\ disk.seen[h] = None
        /\ disk.seen[h] # None => slot[h] # "empty"
    BY DEF IInv, WellKept, Opened
  <1>5. h \notin Original /\ slot[h] # "empty" =>
          /\ read_at_reveal[CopyOf[h]] \in Nat
          /\ read_at_reveal[CopyOf[h]] <= read_block
    BY ContentTypes DEF IInv, TypeOK, OriginalsFirst, RevealsNoted
  <1>6. h \notin Original /\ disk.seen[h] # None => disk.seen[h] >= read_at_reveal[CopyOf[h]]
    BY DEF IInv, WellKept, CopiesCameLater
  <1>7. first_saved[h] # None /\ disk.commitments[h] = None =>
          disk.seen[h] = first_saved[h] \/ read_block > first_saved[h] + MaxAge
    BY DEF IInv, WellKept, FirstKept
  <1>. QED
    BY <1>1, <1>3, <1>4, <1>5, <1>6, <1>7

LEMMA PrecheckWellKept ==
  ASSUME IInv, NEW answer \in [Checked(disk.excluded) -> Answer]
  PROVE  WellKept(Prechecked(answer))
  <1>. DEFINE s == Prechecked(answer)
  <1>1. ValidAreOwners(s) /\ DuplicatesAreOwned(s)
    BY PrecheckOwners DEF IInv, WellKept
  <1>2. ASSUME NEW h \in Hotkey
        PROVE  /\ s.commitments[h] # None => slot[h] = "reveal" /\ s.seen[h] = None
               /\ s.seen[h] # None => slot[h] # "empty"
    BY OutcomeFacts, DigestsOf DEF IInv, WellKept, Opened
  <1>3. ASSUME NEW h \in Hotkey, s.commitments[h] # None
        PROVE  /\ s.commitments[h].streak >= StreakLimit => h \in s.excluded
               /\ s.commitments[h].streak > 0 /\ s.commitments[h].streak < StreakLimit
                  => s.commitments[h].unreachable
    <2>1. CASE h \in Checked(disk.excluded)
      BY <2>1, OutcomeFacts DEF IInv, EntryOf
    <2>2. CASE h \notin Checked(disk.excluded)
      BY <1>3, <2>2, OutcomeFacts DEF IInv, WellKept, Counted
    <2>. QED
      BY <2>1, <2>2
  <1>4. ASSUME NEW c \in Hotkey \ Original
        PROVE  /\ s.seen[c] # None => s.seen[c] >= read_at_reveal[CopyOf[c]]
               /\ s.commitments[c] # None => s.commitments[c].block >= read_at_reveal[CopyOf[c]]
    <2>1. disk.commitments[c] # None => disk.commitments[c].block >= read_at_reveal[CopyOf[c]]
      BY DEF IInv, WellKept, CopiesCameLater
    <2>2. CASE c \in Checked(disk.excluded)
      <3>1. /\ s.seen[c] = None /\ slot[c] = "reveal"
            /\ s.commitments[c].block = IF Digests[c] # None THEN Digests[c]
                                        ELSE IF disk.commitments[c] # None
                                        THEN disk.commitments[c].block ELSE read_block
        BY <2>2, OutcomeFacts DEF IInv, EntryOf
      <3>. QED
        BY <2>1, <3>1, DigestsOf
    <2>3. CASE c \notin Checked(disk.excluded)
      <3>1. s.commitments[c] = disk.commitments[c] /\ s.seen[c] = Digests[c]
        BY <2>3, OutcomeFacts DEF IInv
      <3>. QED
        BY <2>1, <3>1, DigestsOf
    <2>. QED
      BY <2>2, <2>3
  <1>5. ASSUME NEW h \in Hotkey, first_saved[h] # None, s.commitments[h] = None
        PROVE  s.seen[h] = first_saved[h] \/ read_block > first_saved[h] + MaxAge
    <2>1. h \notin Checked(disk.excluded)
      BY <1>5, OutcomeFacts, NoneIsNoRecord DEF IInv
    <2>2. s.commitments[h] = disk.commitments[h] /\ s.seen[h] = Digests[h]
      BY <2>1, OutcomeFacts DEF IInv
    <2>. QED
      BY <1>5, <2>2, DigestsOf
  <1>. HIDE DEF s
  <1>6. Opened(s) /\ Counted(s) /\ CopiesCameLater(s) /\ FirstKept(s)
    BY <1>2, <1>3, <1>4, <1>5 DEF Opened, Counted, CopiesCameLater, FirstKept
  <1>. QED
    BY <1>1, <1>6 DEF WellKept, s

\* The copy a round works on keeps its tie-break blocks, notices who is gone, and makes a
\* copy an owner only over an original whose digest was not there in time.
LEMMA PrecheckKeeps ==
  ASSUME IInv, NEW answer \in [Checked(disk.excluded) -> Answer]
  PROVE  RoundKeeps(Prechecked(answer))
  <1>. DEFINE s == Prechecked(answer)
  <1>0. disk.commitments \in [Hotkey -> CommitmentState \cup {None}] /\ TypeOK
    BY StateTypes DEF IInv
  <1>1. ASSUME NEW h \in Hotkey
        PROVE  TieBreakKept(s, h)
    <2>1. CASE h \in Checked(disk.excluded)
      <3>1. /\ s.commitments[h].block = IF Digests[h] # None THEN Digests[h]
                                        ELSE IF disk.commitments[h] # None
                                        THEN disk.commitments[h].block ELSE read_block
        BY <1>0, <2>1, OutcomeFacts DEF EntryOf
      <3>2. first_saved[h] \in Nat \cup {None} /\ MaxAge \in Nat /\ None \notin Nat
        BY <1>0, AdmissionAssumption DEF TypeOK
      <3>. HIDE DEF s
      <3>. QED
        BY <3>1, <3>2, DigestsOf DEF TieBreakKept
    <2>2. CASE h \notin Checked(disk.excluded)
      <3>1. s.commitments[h] = disk.commitments[h]
        BY <1>0, <2>2, OutcomeFacts
      <3>. HIDE DEF s
      <3>. QED
        BY <3>1 DEF TieBreakKept
    <2>. QED
      BY <2>1, <2>2
  <1>2. ASSUME NEW h \in Hotkey
        PROVE  GoneNoticed(s, h)
    <2>1. SUFFICES ASSUME StreakLimit >= 2, h \in s.excluded, h \notin disk.excluded
                   PROVE  disk.commitments[h] # None /\ disk.commitments[h].unreachable
      BY DEF GoneNoticed
    <2>. DEFINE e == Entries(answer)[h]
    <2>2. EntryOf(h, e) /\ e.streak >= StreakLimit
      BY <1>0, <2>1, OutcomeFacts
    <2>. HIDE DEF e
    <2>3. e.streak \in Nat /\ StreakLimit \in Nat
      BY <2>2, AdmissionAssumption DEF EntryOf, CommitmentState
    <2>4. /\ disk.commitments[h] # None /\ disk.commitments[h].streak > 0
          /\ e.streak = disk.commitments[h].streak + 1
      BY <2>1, <2>2, <2>3 DEF EntryOf
    <2>5. disk.commitments[h].streak \in Nat
      BY <1>0, <2>4 DEF CommitmentState
    <2>6. ~(disk.commitments[h].streak >= StreakLimit)
      BY <2>1, <2>4 DEF IInv, WellKept, Counted
    <2>. QED
      BY <2>3, <2>4, <2>5, <2>6 DEF IInv, WellKept, Counted
  <1>3. ASSUME NEW c \in Hotkey \ Original
        PROVE  CopyWins(s, c)
    <2>. DEFINE o == CopyOf[c]
                e == Entries(answer)
    <2>1. SUFFICES ASSUME disk.owner[o] = None, s.owner[o] = c, s.commitments[o] # None,
                          o \notin disk.excluded, s.commitments[o].status = "duplicate"
                   PROVE  s.commitments[o].block >= read_at_reveal[o]
      BY DEF CopyWins
    <2>2. o \in Original /\ o \in Hotkey /\ Content(o) = o /\ c # None
      BY ContentTypes, AdmissionAssumption DEF Original
    <2>3. Owners(answer)[o] = c
      BY <2>1, PrecheckedParts
    <2>4. o \in Checked(disk.excluded)
      <3>1. SUFFICES ASSUME o \notin Checked(disk.excluded) PROVE FALSE
        OBVIOUS
      <3>2. s.commitments[o] = disk.commitments[o]
        BY <1>0, <2>2, <3>1, OutcomeFacts
      <3>. QED
        BY <2>1, <2>2, <3>2 DEF IInv, WellKept, DuplicatesAreOwned
    <2>5. IsDuplicate(o, answer) /\ s.commitments[o].block = e[o].block /\ slot[o] = "reveal"
      BY <1>0, <2>1, <2>2, <2>4, OutcomeFacts
    <2>6. o \in Candidates(e, o)
      BY <2>2, <2>5 DEF IsDuplicate
    <2>7. c \in Candidates(e, o) /\ e[c].block <= e[o].block
      BY <1>0, <2>1, <2>2, <2>3, <2>6, OwnerFacts
    <2>8. c \in Checked(disk.excluded)
      BY <2>7 DEF Candidates, Entries
    <2>9. e[c].block >= read_at_reveal[o]
      <3>1. /\ slot[c] = "reveal"
            /\ e[c].block = IF Digests[c] # None THEN Digests[c]
                            ELSE IF disk.commitments[c] # None
                            THEN disk.commitments[c].block ELSE read_block
        BY <1>0, <2>8, OutcomeFacts DEF EntryOf
      <3>2. disk.commitments[c] # None => disk.commitments[c].block >= read_at_reveal[o]
        BY DEF IInv, WellKept, CopiesCameLater
      <3>. HIDE DEF e
      <3>. QED
        BY <3>1, <3>2, DigestsOf
    <2>10. e[c].block \in Nat /\ e[o].block \in Nat
      BY <1>0, <2>4, <2>8, EntryFacts DEF EntryOf, CommitmentState
    <2>11. read_at_reveal[o] \in Nat
      BY <1>0, <2>2, <2>5 DEF IInv, TypeOK, RevealsNoted
    <2>. HIDE DEF e, s
    <2>. QED
      BY <2>5, <2>7, <2>9, <2>10, <2>11
  <1>. HIDE DEF s
  <1>. QED
    BY <1>1, <1>2, <1>3 DEF RoundKeeps, s

-----------------------------------------------------------------------------
(* Steps.                                                                  *)

LEMMA AdmissionInit == Init => IInv
  <1>. SUFFICES ASSUME Init PROVE IInv
    OBVIOUS
  <1>. USE AdmissionAssumption
  <1>1. EmptyState \in ValidatorState
    BY DEF EmptyState, ValidatorState
  <1>2. TypeOK
    BY <1>1 DEF Init, TypeOK
  <1>3. WellKept(EmptyState)
    BY DEF Init, EmptyState, WellKept, ValidAreOwners, Valid, DuplicatesAreOwned, Opened,
           Counted, CopiesCameLater, FirstKept
  <1>4. OriginalsFirst
    BY DEF Init, OriginalsFirst
  <1>5. RevealsNoted
    BY DEF Init, RevealsNoted, Original
  <1>6. read_block <= block /\ phase # "checked" /\ disk = EmptyState /\ state = EmptyState
    BY DEF Init
  <1>. QED
    BY <1>2, <1>3, <1>4, <1>5, <1>6 DEF IInv

\* Slots only fill up, and a reveal is noted before it can be seen.
ChainGrows ==
    /\ \A h \in Hotkey : /\ slot[h] = "reveal" => slot'[h] = "reveal"
                         /\ slot[h] # "empty" => slot'[h] # "empty"
    /\ \A o \in Original : slot[o] = "reveal" => read_at_reveal'[o] = read_at_reveal[o]

LEMMA ChainWellKept ==
  ASSUME NEW s, WellKept(s), OriginalsFirst, ChainGrows,
         UNCHANGED <<first_saved, read_block>>
  PROVE  WellKept(s)'
  <1>1. ValidAreOwners(s)' /\ DuplicatesAreOwned(s)' /\ Counted(s)'
    BY DEF WellKept, ValidAreOwners, Valid, DuplicatesAreOwned, Counted
  <1>2. Opened(s)'
    BY DEF WellKept, Opened, ChainGrows
  <1>3. CopiesCameLater(s)'
    <2>1. \A c \in Hotkey \ Original :
             s.seen[c] # None \/ s.commitments[c] # None =>
                read_at_reveal'[CopyOf[c]] = read_at_reveal[CopyOf[c]]
      BY ContentTypes DEF WellKept, Opened, OriginalsFirst, ChainGrows
    <2>. QED
      BY <2>1 DEF WellKept, CopiesCameLater
  <1>4. FirstKept(s)'
    BY DEF WellKept, FirstKept
  <1>. QED
    BY <1>1, <1>2, <1>3, <1>4 DEF WellKept

\* What the chain and the miners do leaves what was recorded true.
LEMMA ChainMoves ==
  ASSUME IInv, ChainGrows, UNCHANGED <<disk, state, phase, first_saved, read_block>>
  PROVE  WellKept(disk)' /\ WellKept(state)' /\ (phase' = "checked" => RoundKeeps(state)')
  <1>1. WellKept(disk)' /\ WellKept(state)'
    BY ChainWellKept DEF IInv
  <1>2. ASSUME phase = "checked"
        PROVE  RoundKeeps(state)'
    <2>1. \A h \in Hotkey : TieBreakKept(state, h)' /\ GoneNoticed(state, h)'
      BY <1>2 DEF IInv, RoundKeeps, TieBreakKept, GoneNoticed
    <2>2. ASSUME NEW c \in Hotkey \ Original
          PROVE  CopyWins(state, c)'
      <3>1. CopyOf[c] \in Original /\ CopyOf[c] \in Hotkey /\ CopyWins(state, c)
        BY <1>2, ContentTypes DEF IInv, RoundKeeps, Original
      <3>2. state.commitments[CopyOf[c]] # None =>
               read_at_reveal'[CopyOf[c]] = read_at_reveal[CopyOf[c]]
        BY <3>1 DEF IInv, WellKept, Opened, ChainGrows
      <3>. QED
        BY <3>1, <3>2 DEF CopyWins
    <2>. QED
      BY <2>1, <2>2 DEF RoundKeeps
  <1>. QED
    BY <1>1, <1>2

\* The miner's transactions and the chain.
LEMMA MinersKeepIInv ==
  ASSUME IInv, \/ Tick
               \/ \E h \in Hotkey : Commit(h) \/ Reveal(h) \/ MinerStops(h)
  PROVE  IInv'
  <1>. USE AdmissionAssumption
  <1>1. CASE Tick
    <2>1. /\ block' \in 1..MaxBlock /\ read_block <= block'
          /\ miner' \in [Hotkey -> {"start", "committed", "later", "done"}]
          /\ \A h \in Hotkey : miner'[h] \in {"committed", "later"} =>
                                  miner[h] \in {"committed", "later"}
          /\ UNCHANGED <<slot, quality, disk, state, phase, read_block, history>>
      BY <1>1 DEF Tick, IInv, TypeOK
    <2>2. ChainGrows
      BY <2>1 DEF ChainGrows, history
    <2>3. OriginalsFirst' /\ RevealsNoted'
      BY <2>1 DEF history, IInv, OriginalsFirst, RevealsNoted
    <2>. QED
      BY <2>1, <2>2, <2>3, ChainMoves DEF history, IInv, TypeOK
  <1>2. ASSUME NEW h \in Hotkey, Commit(h)
        PROVE  IInv'
    <2>1. /\ slot[h] = "empty" /\ slot' = [slot EXCEPT ![h] = "digest"]
          /\ miner' = [miner EXCEPT ![h] = "committed"]
          /\ h \notin Original => slot[CopyOf[h]] = "reveal"
          /\ UNCHANGED <<block, quality, disk, state, phase, read_block, history>>
      BY <1>2 DEF Commit, Original
    <2>2. /\ slot' \in [Hotkey -> {"empty", "digest", "reveal"}]
          /\ miner' \in [Hotkey -> {"start", "committed", "later", "done"}]
          /\ \A g \in Hotkey : slot'[g] = "reveal" <=> slot[g] = "reveal"
      BY <2>1 DEF IInv, TypeOK
    <2>3. ChainGrows
      BY <2>1, <2>2 DEF ChainGrows, history, IInv, TypeOK
    <2>4. OriginalsFirst'
      BY <2>1, <2>2, ContentTypes DEF IInv, OriginalsFirst, TypeOK, Original
    <2>5. RevealsNoted'
      BY <2>1, <2>2 DEF history, IInv, RevealsNoted, Original
    <2>. QED
      BY <2>1, <2>2, <2>3, <2>4, <2>5, ChainMoves DEF history, IInv, TypeOK
  <1>3. ASSUME NEW h \in Hotkey, Reveal(h)
        PROVE  IInv'
    <2>1. /\ miner[h] = "later" /\ slot' = [slot EXCEPT ![h] = "reveal"]
          /\ miner' = [miner EXCEPT ![h] = "done"]
          /\ read_at_reveal' = [o \in Original |-> IF o = h THEN read_block
                                                    ELSE read_at_reveal[o]]
          /\ UNCHANGED <<block, quality, disk, state, phase, read_block, first_saved>>
      BY <1>3 DEF Reveal
    <2>2. /\ slot' \in [Hotkey -> {"empty", "digest", "reveal"}]
          /\ miner' \in [Hotkey -> {"start", "committed", "later", "done"}]
          /\ slot[h] = "digest"
          /\ \A g \in Hotkey : g # h => slot'[g] = slot[g] /\ miner'[g] = miner[g]
          /\ slot'[h] = "reveal" /\ miner'[h] = "done"
      BY <2>1 DEF IInv, TypeOK, OriginalsFirst
    <2>3. read_block \in Nat
      BY DEF IInv, TypeOK
    <2>4. read_at_reveal' \in [Original -> Nat \cup {None}]
      BY <2>1, <2>3 DEF IInv, TypeOK
    <2>5. ChainGrows
      BY <2>1, <2>2 DEF ChainGrows
    <2>6. OriginalsFirst'
      <3>1. ASSUME NEW g \in Hotkey, miner'[g] \in {"committed", "later"}
            PROVE  slot'[g] = "digest"
        <4>1. g # h
          BY <2>2, <3>1
        <4>. QED
          BY <2>2, <3>1, <4>1 DEF IInv, OriginalsFirst
      <3>2. ASSUME NEW g \in Hotkey, g \notin Original, slot'[g] # "empty"
            PROVE  slot'[CopyOf[g]] = "reveal"
        <4>1. slot[g] # "empty"
          BY <2>2, <3>2
        <4>2. slot[CopyOf[g]] = "reveal" /\ CopyOf[g] \in Hotkey
          BY <3>2, <4>1, ContentTypes DEF IInv, OriginalsFirst, Original
        <4>. QED
          BY <2>2, <4>2
      <3>. QED
        BY <3>1, <3>2 DEF OriginalsFirst
    <2>7. RevealsNoted'
      <3>1. \A o \in Original : o # h => /\ read_at_reveal'[o] = read_at_reveal[o]
                                          /\ slot'[o] = slot[o]
        BY <2>1, <2>2 DEF Original
      <3>2. h \in Original => read_at_reveal'[h] = read_block
        BY <2>1
      <3>. QED
        BY <2>1, <2>3, <3>1, <3>2 DEF IInv, RevealsNoted
    <2>. QED
      BY <2>1, <2>2, <2>4, <2>5, <2>6, <2>7, ChainMoves DEF IInv, TypeOK
  <1>4. ASSUME NEW h \in Hotkey, MinerStops(h)
        PROVE  IInv'
    <2>1. /\ miner' = [miner EXCEPT ![h] = "done"]
          /\ UNCHANGED <<block, slot, quality, disk, state, phase, read_block, history>>
      BY <1>4 DEF MinerStops
    <2>2. /\ miner' \in [Hotkey -> {"start", "committed", "later", "done"}]
          /\ \A g \in Hotkey : miner'[g] \in {"committed", "later"} =>
                                  miner[g] \in {"committed", "later"}
      BY <2>1 DEF IInv, TypeOK
    <2>3. ChainGrows
      BY <2>1 DEF ChainGrows, history
    <2>4. OriginalsFirst' /\ RevealsNoted'
      BY <2>1, <2>2 DEF history, IInv, OriginalsFirst, RevealsNoted
    <2>. QED
      BY <2>1, <2>2, <2>3, <2>4, ChainMoves DEF history, IInv, TypeOK
  <1>. QED
    BY <1>1, <1>2, <1>3, <1>4

\* What a validator read before it read the height again is still true.
LEMMA BeginKeeps ==
  ASSUME IInv, NEW kind \in {"poll", "round"}, Begin(kind)
  PROVE  IInv'
  <1>. USE AdmissionAssumption
  <1>1. /\ phase' = kind /\ read_block' = block
        /\ UNCHANGED <<block, slot, miner, quality, disk, state, read_at_reveal, first_saved>>
    BY DEF Begin, chain, history
  <1>2. block \in 1..MaxBlock /\ read_block \in Nat /\ read_block <= block
    BY DEF IInv, TypeOK
  <1>3. TypeOK' /\ read_block' <= block'
    BY <1>1, <1>2 DEF IInv, TypeOK
  <1>4. ASSUME NEW s, WellKept(s)
        PROVE  WellKept(s)'
    <2>1. FirstKept(s)'
      <3>1. first_saved \in [Hotkey -> Nat \cup {None}] /\ MaxAge \in Nat
        BY DEF IInv, TypeOK
      <3>2. ASSUME NEW h \in Hotkey, first_saved[h] # None, s.commitments[h] = None
            PROVE  s.seen[h] = first_saved[h] \/ block > first_saved[h] + MaxAge
        <4>1. s.seen[h] = first_saved[h] \/ read_block > first_saved[h] + MaxAge
          BY <1>4, <3>2 DEF WellKept, FirstKept
        <4>2. first_saved[h] \in Nat /\ block \in Nat
          BY <1>2, <3>1, <3>2
        <4>. QED
          BY <1>2, <3>1, <4>1, <4>2
      <3>. QED
        BY <1>1, <3>2 DEF FirstKept
    <2>. QED
      BY <1>1, <1>4, <2>1 DEF WellKept, ValidAreOwners, Valid, DuplicatesAreOwned, Opened,
                              Counted, CopiesCameLater
  <1>5. OriginalsFirst' /\ RevealsNoted'
    BY <1>1, <1>2 DEF IInv, TypeOK, OriginalsFirst, RevealsNoted
  <1>. QED
    BY <1>1, <1>3, <1>4, <1>5 DEF IInv

\* What is saved becomes the file and the copy; the first blocks of its digests are noted.
LEMMA SavedKeeps ==
  ASSUME IInv, NEW s \in ValidatorState, WellKept(s), disk' = s, state' = s,
         phase' = "idle", NoteSaved(s.seen),
         UNCHANGED <<block, slot, miner, quality, read_block, read_at_reveal>>
  PROVE  IInv'
  <1>1. first_saved' = [h \in Hotkey |-> IF first_saved[h] = None THEN s.seen[h]
                                         ELSE first_saved[h]]
    BY DEF NoteSaved
  <1>2. s.seen \in [Hotkey -> Nat \cup {None}]
    BY DEF ValidatorState
  <1>3. first_saved' \in [Hotkey -> Nat \cup {None}]
    BY <1>1, <1>2 DEF IInv, TypeOK
  <1>4. TypeOK' /\ read_block' <= block'
    BY <1>3 DEF IInv, TypeOK
  <1>5. FirstKept(s)'
    BY <1>1 DEF WellKept, FirstKept
  <1>6. WellKept(s)'
    BY <1>5 DEF WellKept, ValidAreOwners, Valid, DuplicatesAreOwned, Opened, Counted,
                CopiesCameLater
  <1>7. WellKept(disk)' /\ WellKept(state)'
    BY <1>6
  <1>8. OriginalsFirst' /\ RevealsNoted'
    BY DEF IInv, OriginalsFirst, RevealsNoted
  <1>. QED
    BY <1>4, <1>7, <1>8 DEF IInv

LEMMA PollKeeps ==
  ASSUME IInv, Poll
  PROVE  IInv'
  <1>. DEFINE s == [disk EXCEPT !.seen = Digests]
  <1>1. /\ disk' = s /\ state' = s /\ phase' = "idle" /\ NoteSaved(disk'.seen)
        /\ UNCHANGED <<block, slot, miner, quality, read_block, read_at_reveal>>
    BY DEF Poll, chain, Digests
  <1>2. Digests \in [Hotkey -> Nat \cup {None}] /\ disk \in ValidatorState
    <2>1. disk.seen \in [Hotkey -> Nat \cup {None}] /\ disk \in ValidatorState
      BY StateTypes DEF IInv
    <2>2. \A h \in Hotkey : Digests[h] \in Nat \cup {None}
      BY DigestsOf
    <2>. QED
      BY <2>1, <2>2 DEF Digests, Pruned
  <1>3. /\ s \in ValidatorState /\ s.seen = Digests /\ s.commitments = disk.commitments
        /\ s.owner = disk.owner /\ s.excluded = disk.excluded
    BY <1>2 DEF ValidatorState
  <1>. HIDE DEF s
  <1>4. ValidAreOwners(s) /\ DuplicatesAreOwned(s) /\ Counted(s)
    BY <1>3 DEF IInv, WellKept, ValidAreOwners, Valid, DuplicatesAreOwned, Counted
  <1>5. Opened(s)
    BY <1>3, DigestsOf DEF IInv, WellKept, Opened
  <1>6. CopiesCameLater(s)
    BY <1>3, DigestsOf DEF IInv, WellKept, CopiesCameLater
  <1>7. FirstKept(s)
    BY <1>3, DigestsOf DEF IInv, WellKept, FirstKept
  <1>8. WellKept(s) /\ NoteSaved(s.seen)
    BY <1>1, <1>4, <1>5, <1>6, <1>7 DEF WellKept
  <1>. QED
    BY <1>1, <1>3, <1>8, SavedKeeps

LEMMA PrecheckStep ==
  ASSUME IInv, Precheck
  PROVE  IInv'
  <1>1. PICK answer \in [Checked(disk.excluded) -> Answer] : state' = Prechecked(answer)
    BY DEF Precheck
  <1>2. /\ phase' = "checked"
        /\ UNCHANGED <<block, slot, miner, quality, disk, read_block, read_at_reveal,
                       first_saved>>
    BY DEF Precheck, chain, history
  <1>. DEFINE s == Prechecked(answer)
  <1>3. s \in ValidatorState /\ WellKept(s) /\ RoundKeeps(s)
    BY PrecheckTypes, PrecheckWellKept, PrecheckKeeps DEF IInv
  <1>. HIDE DEF s
  <1>4. state' = s
    BY <1>1 DEF s
  <1>5. TypeOK'
    BY <1>2, <1>3, <1>4 DEF IInv, TypeOK
  <1>6. ASSUME NEW t, WellKept(t)
        PROVE  WellKept(t)'
    BY <1>2, <1>6 DEF WellKept, ValidAreOwners, Valid, DuplicatesAreOwned, Opened, Counted,
                      CopiesCameLater, FirstKept
  <1>7. WellKept(disk)' /\ WellKept(state)'
    BY <1>2, <1>3, <1>4, <1>6 DEF IInv
  <1>8. ASSUME NEW t, RoundKeeps(t)
        PROVE  RoundKeeps(t)'
    BY <1>2, <1>8 DEF RoundKeeps, TieBreakKept, GoneNoticed, CopyWins
  <1>9. RoundKeeps(state)'
    BY <1>3, <1>4, <1>8
  <1>. QED
    BY <1>2, <1>5, <1>7, <1>9 DEF IInv, OriginalsFirst, RevealsNoted

\* What a save writes: the round's copy, with the losers of the round excluded.
LEMMA SaveKeeps ==
  ASSUME IInv, Save
  PROVE  IInv'
  <1>1. PICK losers \in SUBSET (Valid(state) \ state.excluded) :
               disk' = [state EXCEPT !.excluded = @ \cup losers]
    BY DEF Save
  <1>. DEFINE s == [state EXCEPT !.excluded = @ \cup losers]
  <1>2. /\ disk' = s /\ state' = s /\ phase' = "idle" /\ NoteSaved(disk'.seen)
        /\ UNCHANGED <<block, slot, miner, quality, read_block, read_at_reveal>>
    BY <1>1 DEF Save, chain
  <1>3. /\ s \in ValidatorState /\ s.seen = state.seen /\ s.commitments = state.commitments
        /\ s.owner = state.owner /\ state.excluded \subseteq s.excluded
    <2>1. state \in ValidatorState /\ losers \subseteq Hotkey
      BY DEF IInv, TypeOK, Valid
    <2>. QED
      BY <2>1 DEF ValidatorState
  <1>. HIDE DEF s
  <1>4. WellKept(s)
    BY <1>3 DEF IInv, WellKept, ValidAreOwners, Valid, DuplicatesAreOwned, Opened, Counted,
                CopiesCameLater, FirstKept
  <1>. QED
    BY <1>2, <1>3, <1>4, SavedKeeps

LEMMA AbortKeeps ==
  ASSUME IInv, Abort
  PROVE  IInv'
  <1>1. /\ disk' = disk /\ state' = disk /\ phase' = "idle"
        /\ UNCHANGED <<block, slot, miner, quality, read_block, read_at_reveal, first_saved>>
    BY DEF Abort, Forgotten, chain, history
  <1>2. TypeOK'
    BY <1>1 DEF IInv, TypeOK
  <1>3. WellKept(disk)' /\ WellKept(state)'
    BY <1>1 DEF IInv, WellKept, ValidAreOwners, Valid, DuplicatesAreOwned, Opened, Counted,
                CopiesCameLater, FirstKept
  <1>. QED
    BY <1>1, <1>2, <1>3 DEF IInv, OriginalsFirst, RevealsNoted

LEMMA AdmissionNext == IInv /\ [Next]_vars => IInv'
  <1>. SUFFICES ASSUME IInv, [Next]_vars PROVE IInv'
    OBVIOUS
  <1>1. CASE Tick \/ \E h \in Hotkey : Commit(h) \/ Reveal(h) \/ MinerStops(h)
    BY <1>1, MinersKeepIInv
  <1>2. CASE Begin("poll") \/ Begin("round")
    BY <1>2, BeginKeeps
  <1>3. CASE Poll
    BY <1>3, PollKeeps
  <1>4. CASE Precheck
    BY <1>4, PrecheckStep
  <1>5. CASE Save
    BY <1>5, SaveKeeps
  <1>6. CASE Abort
    BY <1>6, AbortKeeps
  <1>7. CASE UNCHANGED vars
    BY <1>7 DEF vars, chain, history, IInv, TypeOK, WellKept, ValidAreOwners, Valid,
                DuplicatesAreOwned, Opened, Counted, CopiesCameLater, FirstKept,
                OriginalsFirst, RevealsNoted, RoundKeeps, TieBreakKept, GoneNoticed, CopyWins
  <1>. QED
    BY <1>1, <1>2, <1>3, <1>4, <1>5, <1>6, <1>7 DEF Next, Validator

-----------------------------------------------------------------------------
(* Theorems.                                                               *)

\* The inductive invariant holds in every reachable state.
LEMMA AdmissionInvariance == Spec => []IInv
  BY AdmissionInit, AdmissionNext, PTL DEF Spec

\* Every variable of the admission keeps its type, for any hotkeys, copies and answers.
THEOREM TypeCorrectness == Spec => []TypeOK
  <1>1. IInv => TypeOK
    BY DEF IInv
  <1>. QED
    BY <1>1, AdmissionInvariance, PTL

\* An artifact is never valid under two hotkeys (_apply_precheck, duplicate_hash_owner),
\* however many copies there are, whatever fails and whoever is excluded.
THEOREM OneOwnerIsValid == Spec => []OneValidPerContent
  <1>1. IInv => OneValidPerContent
    BY DEF IInv, WellKept, ValidAreOwners, OneValidPerContent
  <1>. QED
    BY <1>1, AdmissionInvariance, PTL

\* Only a save changes the records of the file, to what the round's copy says.
LEMMA FileChanges ==
  ASSUME IInv, [Next]_vars
  PROVE  \/ disk'.commitments = disk.commitments /\ disk'.owner = disk.owner
            /\ disk'.excluded = disk.excluded
         \/ /\ phase = "checked" /\ RoundKeeps(state)
            /\ disk'.commitments = state.commitments /\ disk'.owner = state.owner
            /\ state.excluded \subseteq disk'.excluded
            /\ disk'.excluded \ state.excluded \subseteq Valid(disk')
  <1>1. CASE Save
    <2>1. PICK losers \in SUBSET (Valid(state) \ state.excluded) :
                 disk' = [state EXCEPT !.excluded = @ \cup losers]
      BY <1>1 DEF Save
    <2>2. phase = "checked" /\ RoundKeeps(state) /\ state \in ValidatorState
      BY <1>1 DEF Save, IInv, TypeOK
    <2>3. /\ disk'.commitments = state.commitments /\ disk'.owner = state.owner
          /\ disk'.excluded = state.excluded \cup losers
      BY <2>1, <2>2 DEF ValidatorState
    <2>4. Valid(disk') = Valid(state)
      BY <2>3 DEF Valid
    <2>. QED
      BY <2>2, <2>3, <2>4
  <1>2. CASE Poll
    <2>1. disk \in ValidatorState
      BY DEF IInv, TypeOK
    <2>. QED
      BY <1>2, <2>1 DEF Poll, ValidatorState
  <1>3. CASE UNCHANGED disk
    BY <1>3
  <1>4. Save \/ Poll \/ UNCHANGED disk
    BY DEF Next, Validator, Begin, Precheck, Abort, Forgotten, Tick, Commit, Reveal,
           MinerStops, vars
  <1>. QED
    BY <1>1, <1>2, <1>3, <1>4

\* The tie-break block of a codec is the block its digest was first saved with, and never
\* moves (commit_block, prune_commit_phase_seen), whatever is lost in between.
THEOREM TieBreaksStay == Spec => TieBreakIsTheDigests
  <1>. DEFINE A == \A h \in Hotkey : disk'.commitments[h] # None =>
        LET saved == disk'.commitments[h].block
        IN  IF disk.commitments[h] # None THEN saved = disk.commitments[h].block
            ELSE first_saved[h] # None /\ read_block <= first_saved[h] + MaxAge
                 => saved = first_saved[h]
  <1>1. IInv /\ [Next]_vars => [A]_disk
    BY FileChanges DEF RoundKeeps, TieBreakKept
  <1>. QED
    BY <1>1, AdmissionInvariance, PTL DEF Spec, TieBreakIsTheDigests

\* Precheck excludes only whom the saved round before could not reach either (the streak of
\* 404s), for every limit of two or more; constants.py has twelve.
THEOREM GoneIsNoSurprise ==
  ASSUME StreakLimit >= 2
  PROVE  Spec => GoneWasUnreachable
  <1>. DEFINE A == \A h \in disk'.excluded \ (disk.excluded \cup Valid(disk')) :
        disk.commitments[h] # None /\ disk.commitments[h].unreachable
  <1>1. IInv /\ [Next]_vars => [A]_disk
    <2>1. SUFFICES ASSUME IInv, [Next]_vars,
                          NEW h \in disk'.excluded \ (disk.excluded \cup Valid(disk'))
                   PROVE  disk.commitments[h] # None /\ disk.commitments[h].unreachable
      OBVIOUS
    <2>2. phase = "checked" /\ RoundKeeps(state) /\ h \in state.excluded \ disk.excluded
      BY <2>1, FileChanges
    <2>3. h \in Hotkey
      BY <2>1, <2>2, StateTypes DEF IInv
    <2>. QED
      BY <2>2, <2>3 DEF RoundKeeps, GoneNoticed
  <1>. QED
    BY <1>1, AdmissionInvariance, PTL DEF Spec, GoneWasUnreachable

\* A copy becomes the owner of an artifact whose original passed the same precheck only if
\* the original's digest was not recorded in time (duplicate_hash_owner, miner/commit.py).
THEOREM OriginalsOwn == Spec => OriginalOwns
  <1>. DEFINE A == \A c \in Hotkey \ Original :
        LET o == CopyOf[c]
        IN  disk.owner[o] = None /\ disk'.owner[o] = c /\ disk'.commitments[o] # None
            /\ o \notin disk.excluded /\ disk'.commitments[o].status = "duplicate"
            => disk'.commitments[o].block >= read_at_reveal[o]
  <1>1. IInv /\ [Next]_vars => [A]_disk
    <2>1. SUFFICES ASSUME IInv, [Next]_vars, NEW c \in Hotkey \ Original,
                          disk.owner[CopyOf[c]] = None, disk'.owner[CopyOf[c]] = c,
                          disk'.commitments[CopyOf[c]] # None,
                          CopyOf[c] \notin disk.excluded,
                          disk'.commitments[CopyOf[c]].status = "duplicate"
                   PROVE  disk'.commitments[CopyOf[c]].block >= read_at_reveal[CopyOf[c]]
      OBVIOUS
    <2>2. c # None
      BY AdmissionAssumption
    <2>3. /\ RoundKeeps(state) /\ disk'.commitments = state.commitments
          /\ disk'.owner = state.owner
      BY <2>1, <2>2, FileChanges
    <2>. QED
      BY <2>1, <2>3 DEF RoundKeeps, CopyWins
  <1>. QED
    BY <1>1, AdmissionInvariance, PTL DEF Spec, OriginalOwns

=============================================================================
