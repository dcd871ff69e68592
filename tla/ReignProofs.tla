----------------------------- MODULE ReignProofs -----------------------------
(***************************************************************************)
(* Theorems about the round of Reign, for every set of hotkeys, artifacts  *)
(* and ratios, every margin and depth of the ladder, and any number of     *)
(* rounds, crashes and releases.                                           *)
(***************************************************************************)
EXTENDS Reign, LadderProofs

Earned(e) == e.improvement = 0 \/ e.improvement >= Margin

\* What every ladder the round builds is, in memory and in the file.
WellBuilt(history) ==
    /\ history \in Seq(Entry)
    /\ Len(history) <= HistoryDepth
    /\ \A i, j \in DOMAIN history : history[i].hotkey = history[j].hotkey => i = j
    /\ \A i \in DOMAIN history : Earned(history[i])

\* A challenger has a valid commitment and, until it is evaluated, no score.
ChallengersFresh ==
    phase = "selected" => \A k \in challengers : HasStatus(k, "valid") /\ scores[k] = None

\* A challenger waiting in the gauntlet has a valid score.
PendingScored ==
    phase = "gauntlet" => \A k \in pending : scores[k] \in Score /\ scores[k].ratio \in Ratio

\* The inductive invariant.
IInv ==
    /\ TypeOK
    /\ WellBuilt(winner_history)
    /\ WellBuilt(disk.winner_history)
    /\ ChallengersFresh
    /\ PendingScored

-----------------------------------------------------------------------------
(* The ladder.                                                             *)

LEMMA CompactWellBuilt ==
    ASSUME NEW history \in Seq(Entry), NEW eligible,
           \A i \in DOMAIN history : Earned(history[i])
    PROVE  WellBuilt(compact_history(history, eligible))
BY CompactHistory DEF WellBuilt

\* A codec that wins by the margin is stamped with at least the margin.
LEMMA ImprovementIsEarned ==
    ASSUME NEW ratio \in Ratio, NEW current \in Ratio \cup {None},
           should_promote(ratio, current)
    PROVE  /\ ImprovementOver(current, ratio) \in Nat
           /\ \/ ImprovementOver(current, ratio) = 0
              \/ ImprovementOver(current, ratio) >= Margin
<1>1. CASE current = None \/ current <= ratio
  BY <1>1 DEF ImprovementOver
<1>2. CASE ~(current = None \/ current <= ratio)
  <2>1. /\ current \in Nat \ {0} /\ ratio \in Nat \ {0}
        /\ Unit \in Nat \ {0} /\ Margin \in 0..Unit
    BY <1>2, ReignAssumption, LadderAssumption
  <2>2. current - ratio \in Nat
    BY <1>2, <2>1
  <2>. DEFINE gain == (current - ratio) * Unit
  <2>3. gain \in Nat
    BY <2>1, <2>2
  <2>4. current * Margin <= gain
    <3>1. ratio * Unit <= current * (Unit - Margin)
      BY <1>2 DEF should_promote
    <3>2. current * (Unit - Margin) = current * Unit - current * Margin
      BY <2>1
    <3>3. gain = current * Unit - ratio * Unit
      BY <2>1
    <3>. QED
      BY <2>1, <3>1, <3>2, <3>3
  <2>5. gain \div current \in Nat /\ gain \div current >= Margin
    <3>. HIDE DEF gain
    <3>. DEFINE q == gain \div current
    <3>1. q \in Nat /\ gain < current * (q + 1)
      BY <2>1, <2>3
    <3>. HIDE DEF q
    <3>2. current * Margin < current * (q + 1)
      BY <2>1, <2>3, <2>4, <3>1
    <3>3. Margin < q + 1
      BY <2>1, <3>1, <3>2
    <3>. QED
      BY <2>1, <3>1, <3>3 DEF q
  <2>6. ImprovementOver(current, ratio) = gain \div current
    BY <1>2 DEF ImprovementOver
  <2>. QED
    BY <2>5, <2>6
<1>. QED
  BY <1>1, <1>2

LEMMA PromoteWellBuilt ==
    ASSUME NEW history \in Seq(Entry), \A i \in DOMAIN history : Earned(history[i]),
           NEW winner \in Entry, winner.ratio \in Ratio, NEW eligible,
           NEW current \in Ratio \cup {None}, should_promote(winner.ratio, current)
    PROVE  LET promoted == promote_winner(history, winner, eligible, current)
           IN  /\ WellBuilt(promoted)
               /\ promoted # <<>>
               /\ promoted[1].ratio = winner.ratio
               /\ promoted[1].hotkey = winner.hotkey
<1>. DEFINE crowned == [winner EXCEPT
                           !.improvement = ImprovementOver(current, winner.ratio)]
            longer == <<crowned>> \o history
<1>1. crowned \in Entry /\ Earned(crowned)
      /\ crowned.ratio = winner.ratio /\ crowned.hotkey = winner.hotkey
  <2>1. /\ ImprovementOver(current, winner.ratio) \in Nat
        /\ \/ ImprovementOver(current, winner.ratio) = 0
           \/ ImprovementOver(current, winner.ratio) >= Margin
    BY ImprovementIsEarned
  <2>. QED
    BY <2>1 DEF Entry, Earned
<1>. HIDE DEF crowned
<1>2. longer \in Seq(Entry) /\ longer # <<>> /\ longer[1] = crowned
  BY <1>1
<1>3. \A i \in DOMAIN longer : Earned(longer[i])
  <2>1. \A i \in DOMAIN longer : i = 1 \/ (i - 1 \in DOMAIN history /\ longer[i] = history[i - 1])
    BY <1>1
  <2>. QED
    BY <1>1, <1>2, <2>1
<1>4. promote_winner(history, winner, eligible, current)
        = compact_history(longer, eligible \cup {winner.hotkey})
  BY DEF promote_winner, crowned
<1>. HIDE DEF longer
<1>5. WellBuilt(compact_history(longer, eligible \cup {winner.hotkey}))
  BY <1>2, <1>3, CompactWellBuilt
<1>6. /\ compact_history(longer, eligible \cup {winner.hotkey}) # <<>>
      /\ compact_history(longer, eligible \cup {winner.hotkey})[1] = crowned
  BY <1>1, <1>2, CompactHead
<1>. QED
  BY <1>1, <1>4, <1>5, <1>6

-----------------------------------------------------------------------------
(* Loading the file and prechecking.                                       *)

LEMMA KeyParts ==
    ASSUME NEW k \in Key
    PROVE  /\ k = <<k[1], k[2]>>
           /\ k[1] \in Hotkey /\ k[2] \in Artifact
           /\ k[1] \in Nat /\ k[2] \in Nat
<1>1. k = <<k[1], k[2]>> /\ k[1] \in Hotkey /\ k[2] \in Artifact
  BY DEF Key
<1>2. Hotkey \subseteq Nat /\ Artifact \subseteq Nat
  BY ReignAssumption
<1>. QED
  BY <1>1, <1>2

LEMMA LoadedTypes ==
    ASSUME TypeOK
    PROVE  /\ LoadedScores \in [Key -> Score \cup {None}]
           /\ LoadedExclusions \in SUBSET Hotkey
<1>1. disk \in State
  BY DEF TypeOK
<1>. QED
  BY <1>1 DEF LoadedScores, LoadedExclusions, State

\* Among candidates with a ratio, one comes first in the recovery's order.
LEMMA RecoveredFirstExists ==
    ASSUME NEW scored \in [Key -> Score \cup {None}],
           NEW candidates \in SUBSET Key, candidates # {},
           \A k \in candidates : scored[k] # None /\ scored[k].ratio # None
    PROVE  \E best \in candidates :
               \A l \in candidates \ {best} : RecoveredFirst(best, l, scored)
<1>. DEFINE r(k) == scored[k].ratio
            b(k) == scored[k].commit_block
<1>1. \A k \in candidates : /\ r(k) \in Nat /\ b(k) \in Nat
                            /\ k[1] \in Nat /\ k[2] \in Nat /\ k = <<k[1], k[2]>>
  <2>. SUFFICES ASSUME NEW k \in candidates
                PROVE  /\ r(k) \in Nat /\ b(k) \in Nat
                       /\ k[1] \in Nat /\ k[2] \in Nat /\ k = <<k[1], k[2]>>
    OBVIOUS
  <2>1. k[1] \in Nat /\ k[2] \in Nat /\ k = <<k[1], k[2]>>
    BY KeyParts
  <2>2. scored[k] \in Score /\ scored[k].ratio \in Ratio
    BY DEF Score
  <2>. QED
    BY <2>1, <2>2, ReignAssumption DEF Score
<1>. HIDE DEF r, b
<1>2. PICK k1 \in candidates : \A l \in candidates : r(k1) <= r(l)
  <2>1. PICK m \in {r(k) : k \in candidates} : \A n \in {r(k) : k \in candidates} : m <= n
    <3>1. {r(k) : k \in candidates} \in SUBSET Nat /\ {r(k) : k \in candidates} # {}
      BY <1>1
    <3>. QED
      BY <3>1, LeastNatural
  <2>. QED
    BY <2>1
<1>. DEFINE C1 == {k \in candidates : r(k) = r(k1)}
<1>3. PICK k2 \in C1 : \A l \in C1 : b(k2) <= b(l)
  <2>1. {b(k) : k \in C1} \in SUBSET Nat /\ {b(k) : k \in C1} # {}
    BY <1>1, <1>2
  <2>2. PICK m \in {b(k) : k \in C1} : \A n \in {b(k) : k \in C1} : m <= n
    BY <2>1, LeastNatural
  <2>. QED
    BY <2>2
<1>. DEFINE C2 == {k \in C1 : b(k) = b(k2)}
<1>4. PICK k3 \in C2 : \A l \in C2 : k3[1] <= l[1]
  <2>1. {k[1] : k \in C2} \in SUBSET Nat /\ {k[1] : k \in C2} # {}
    BY <1>1, <1>3
  <2>2. PICK m \in {k[1] : k \in C2} : \A n \in {k[1] : k \in C2} : m <= n
    BY <2>1, LeastNatural
  <2>. QED
    BY <2>2
<1>. DEFINE C3 == {k \in C2 : k[1] = k3[1]}
<1>5. PICK best \in C3 : \A l \in C3 : best[2] <= l[2]
  <2>1. {k[2] : k \in C3} \in SUBSET Nat /\ {k[2] : k \in C3} # {}
    BY <1>1, <1>4
  <2>2. PICK m \in {k[2] : k \in C3} : \A n \in {k[2] : k \in C3} : m <= n
    BY <2>1, LeastNatural
  <2>. QED
    BY <2>2
<1>6. ASSUME NEW l \in candidates \ {best}
      PROVE  RecoveredFirst(best, l, scored)
  <2>1. /\ r(best) <= r(l)
        /\ r(best) = r(l) => b(best) <= b(l)
        /\ r(best) = r(l) /\ b(best) = b(l) => best[1] <= l[1]
        /\ r(best) = r(l) /\ b(best) = b(l) /\ best[1] = l[1] => best[2] <= l[2]
    BY <1>2, <1>3, <1>4, <1>5
  <2>2. ~(best[1] = l[1] /\ best[2] = l[2])
    BY <1>1, <1>6
  <2>3. /\ r(best) \in Nat /\ r(l) \in Nat /\ b(best) \in Nat /\ b(l) \in Nat
        /\ best[1] \in Nat /\ best[2] \in Nat /\ l[1] \in Nat /\ l[2] \in Nat
    BY <1>1
  <2>4. \/ r(best) < r(l)
        \/ r(best) = r(l) /\ b(best) < b(l)
        \/ /\ r(best) = r(l) /\ b(best) = b(l)
           /\ \/ best[1] < l[1]
              \/ best[1] = l[1] /\ best[2] < l[2]
    BY <2>1, <2>2, <2>3
  <2>. QED
    BY <2>3, <2>4 DEF RecoveredFirst, RankBefore, CommitBefore, r, b
<1>. QED
  BY <1>5, <1>6

LEMMA RecoveredWellBuilt ==
    ASSUME NEW known, NEW scored \in [Key -> Score \cup {None}], NEW excluded
    PROVE  WellBuilt(RecoverVacantCrown(known, scored, excluded))
<1>. DEFINE candidates == Recoverable(known, scored, excluded)
            best == CHOOSE k \in candidates :
                        \A l \in candidates \ {k} : RecoveredFirst(k, l, scored)
<1>1. CASE candidates = {}
  <2>1. RecoverVacantCrown(known, scored, excluded) = <<>>
    BY <1>1 DEF RecoverVacantCrown
  <2>. QED
    BY <2>1, LadderAssumption DEF WellBuilt
<1>2. CASE candidates # {}
  <2>1. candidates \in SUBSET Key
        /\ \A k \in candidates : scored[k] # None /\ scored[k].ratio # None
    BY DEF Recoverable
  <2>2. best \in candidates
    <3>. HIDE DEF candidates
    <3>. QED
      BY <1>2, <2>1, RecoveredFirstExists
  <2>3. best \in Key /\ scored[best] \in Score /\ scored[best].ratio \in Ratio
    BY <2>1, <2>2 DEF Score
  <2>4. as_winner(best, scored[best]) \in Entry
        /\ as_winner(best, scored[best]).ratio = scored[best].ratio
    BY <2>3 DEF as_winner, Entry, Key, Score
  <2>5. RecoverVacantCrown(known, scored, excluded)
          = promote_winner(<<>>, as_winner(best, scored[best]), Hotkey, None)
    BY <1>2 DEF RecoverVacantCrown
  <2>. HIDE DEF best, candidates
  <2>6. <<>> \in Seq(Entry) /\ DOMAIN <<>> = {}
    OBVIOUS
  <2>7. should_promote(as_winner(best, scored[best]).ratio, None)
    BY DEF should_promote
  <2>. QED
    BY <2>3, <2>4, <2>5, <2>6, <2>7, PromoteWellBuilt
<1>. QED
  BY <1>1, <1>2

LEMMA PrecheckedType ==
    ASSUME TypeOK, NEW verdict \in PossibleVerdicts, NEW seen \in PossibleBlocks
    PROVE  Prechecked(verdict, seen) \in [Key -> Commitment \cup {None}]
<1>1. ASSUME NEW k \in Key
      PROVE  Prechecked(verdict, seen)[k] \in Commitment \cup {None}
  <2>1. disk.commitments[k] \in Commitment \cup {None}
    BY DEF TypeOK, State
  <2>2. CASE k \notin Checked
    BY <2>1, <2>2 DEF Prechecked
  <2>3. CASE k \in Checked
    <3>1. verdict[k] \in Verdict
      BY <2>3 DEF PossibleVerdicts
    <3>2. (IF verdict[k] = "gone" THEN "invalid" ELSE verdict[k]) \in Status
      BY <3>1 DEF Verdict, Status
    <3>3. seen[k] \in Nat
      BY <2>3 DEF PossibleBlocks, TypeOK
    <3>. QED
      BY <2>3, <3>2, <3>3 DEF Prechecked, Commitment
  <2>. QED
    BY <2>2, <2>3
<1>. QED
  BY <1>1 DEF Prechecked

LEMMA LadderBeforeRoundWellBuilt ==
    ASSUME IInv, NEW known, NEW excluded
    PROVE  WellBuilt(LadderBeforeRound(known, excluded))
<1>1. WellBuilt(RecoverVacantCrown(known, LoadedScores, excluded))
  BY LoadedTypes, RecoveredWellBuilt DEF IInv
<1>2. WellBuilt(compact_history(disk.winner_history, retained_hotkeys(known, excluded)))
  BY CompactWellBuilt DEF IInv, WellBuilt
<1>. QED
  BY <1>1, <1>2 DEF LadderBeforeRound

-----------------------------------------------------------------------------
(* The evaluation.                                                         *)

\* A hotkey that is evaluated has a valid commitment to be scored under.
LEMMA FirstValidIsValid ==
    ASSUME IInv, phase = "selected", NEW h \in Evaluated
    PROVE  /\ FirstValid(h) \in Key /\ FirstValid(h)[1] = h
           /\ HasStatus(FirstValid(h), "valid")
<1>. DEFINE valid == {k \in Key : k[1] = h /\ HasStatus(k, "valid")}
            old == {k \in valid : disk.commitments[k] # None}
            pool == IF old = {} THEN valid ELSE old
<1>1. valid # {}
  <2>1. CASE \E k \in challengers : h = k[1]
    BY <2>1 DEF IInv, TypeOK, ChallengersFresh
  <2>2. CASE IncumbentEvaluated /\ h = winner_history[1].hotkey
    <3>1. winner_history[1] \in Entry
      BY <2>2 DEF IInv, TypeOK, IncumbentEvaluated
    <3>2. EntryKey(winner_history[1]) \in Key /\ EntryKey(winner_history[1])[1] = h
      BY <2>2, <3>1 DEF EntryKey, Entry, Key
    <3>. QED
      BY <2>2, <3>2 DEF IncumbentEvaluated
  <2>. QED
    BY <2>1, <2>2 DEF Evaluated
<1>2. pool # {} /\ pool \subseteq valid
  BY <1>1
<1>3. \E k \in pool : \A l \in pool : k[2] <= l[2]
  <2>1. {k[2] : k \in pool} \in SUBSET Nat /\ {k[2] : k \in pool} # {}
    <3>1. pool \subseteq Key
      BY <1>2
    <3>2. \A k \in pool : k[2] \in Nat
      BY <3>1, KeyParts
    <3>. HIDE DEF pool
    <3>. QED
      BY <3>2, <1>2
  <2>. HIDE DEF pool
  <2>2. PICK m \in {k[2] : k \in pool} : \A n \in {k[2] : k \in pool} : m <= n
    BY <2>1, LeastNatural
  <2>. QED
    BY <2>2
<1>4. FirstValid(h) = CHOOSE k \in pool : \A l \in pool : k[2] <= l[2]
  BY DEF FirstValid
<1>5. FirstValid(h) \in pool
  <2>. HIDE DEF pool
  <2>. QED
    BY <1>3, <1>4
<1>. QED
  BY <1>2, <1>5

LEMMA ScoredWithType ==
    ASSUME IInv, phase = "selected",
           NEW outcome \in [Evaluated -> Ratio \cup {None}]
    PROVE  ScoredWith(outcome) \in [Key -> Score \cup {None}]
<1>1. ASSUME NEW k \in Key
      PROVE  ScoredWith(outcome)[k] \in Score \cup {None}
  <2>1. CASE k[1] \in Evaluated /\ k = FirstValid(k[1])
    <3>1. HasStatus(k, "valid")
      BY <2>1, FirstValidIsValid
    <3>2. commitments[k].block \in Nat
      BY <3>1 DEF HasStatus, IInv, TypeOK, Commitment
    <3>3. block \in Nat /\ version \in Nat
      BY DEF IInv, TypeOK
    <3>. QED
      BY <2>1, <3>2, <3>3 DEF ScoredWith, Score
  <2>2. CASE ~(k[1] \in Evaluated /\ k = FirstValid(k[1]))
    BY <2>2 DEF ScoredWith, IInv, TypeOK
  <2>. QED
    BY <2>1, <2>2
<1>. QED
  BY <1>1 DEF ScoredWith

\* A challenger that came out valid has the ratio it was measured with.
LEMMA ValidChallengerScored ==
    ASSUME IInv, phase = "selected",
           NEW outcome \in [Evaluated -> Ratio \cup {None}],
           NEW k \in challengers, outcome[k[1]] # None,
           ScoredWith(outcome)[k] # None
    PROVE  ScoredWith(outcome)[k] \in Score /\ ScoredWith(outcome)[k].ratio \in Ratio
<1>1. k \in Key /\ scores[k] = None /\ k[1] \in Evaluated
  BY DEF IInv, TypeOK, ChallengersFresh, Evaluated
<1>2. ScoredWith(outcome)[k] \in Score
  BY <1>1, ScoredWithType
<1>3. ScoredWith(outcome)[k].ratio = outcome[k[1]]
  BY <1>1 DEF ScoredWith
<1>. QED
  BY <1>1, <1>2, <1>3

\* Re-evaluation refreshes or pops the head, and leaves the ladder well built.
LEMMA RefreshedWellBuilt ==
    ASSUME IInv, phase = "selected",
           NEW outcome \in [Evaluated -> Ratio \cup {None}],
           \A k \in LookedUp(outcome) : ScoredWith(outcome)[k] # None
    PROVE  WellBuilt(RefreshedHistory(outcome))
<1>. DEFINE incumbent == winner_history[1]
            k == EntryKey(incumbent)
            refreshed == [as_winner(k, ScoredWith(outcome)[k]) EXCEPT
                             !.improvement = incumbent.improvement]
<1>1. CASE ~IncumbentEvaluated
  BY <1>1 DEF RefreshedHistory, IInv
<1>2. CASE IncumbentEvaluated
  <2>1. winner_history \in Seq(Entry) /\ winner_history # <<>> /\ incumbent \in Entry
    BY <1>2 DEF IncumbentEvaluated, IInv, TypeOK
  <2>2. CASE outcome[incumbent.hotkey] = None
    <3>1. RefreshedHistory(outcome) = Tail(winner_history)
      BY <1>2, <2>2 DEF RefreshedHistory
    <3>2. \A i \in DOMAIN Tail(winner_history) :
             i + 1 \in DOMAIN winner_history /\ Tail(winner_history)[i] = winner_history[i + 1]
      BY <2>1
    <3>3. Tail(winner_history) \in Seq(Entry) /\ Len(Tail(winner_history)) <= HistoryDepth
      BY <2>1, LadderAssumption DEF IInv, WellBuilt
    <3>4. \A i \in DOMAIN Tail(winner_history) : i \in Nat
      BY <2>1
    <3>. QED
      BY <3>1, <3>2, <3>3, <3>4 DEF IInv, WellBuilt
  <2>3. CASE outcome[incumbent.hotkey] # None
    <3>1. k \in Key /\ k[1] = incumbent.hotkey /\ k[2] = incumbent.artifact
      BY <2>1 DEF EntryKey, Entry, Key
    <3>2. ScoredWith(outcome)[k] \in Score
      <4>1. ScoredWith(outcome)[k] # None
        BY <1>2, <2>3 DEF LookedUp
      <4>. QED
        BY <3>1, <4>1, ScoredWithType
    <3>3. refreshed \in Entry /\ refreshed.hotkey = incumbent.hotkey
          /\ refreshed.improvement = incumbent.improvement
      BY <2>1, <3>1, <3>2 DEF as_winner, Entry, Score
    <3>4. RefreshedHistory(outcome) = [winner_history EXCEPT ![1] = refreshed]
      BY <1>2, <2>3 DEF RefreshedHistory
    <3>. HIDE DEF refreshed
    <3>5. /\ RefreshedHistory(outcome) \in Seq(Entry)
          /\ Len(RefreshedHistory(outcome)) = Len(winner_history)
          /\ DOMAIN RefreshedHistory(outcome) = DOMAIN winner_history
          /\ \A i \in DOMAIN winner_history :
                RefreshedHistory(outcome)[i] = IF i = 1 THEN refreshed ELSE winner_history[i]
      BY <2>1, <3>3, <3>4
    <3>6. \A i \in DOMAIN winner_history :
             /\ RefreshedHistory(outcome)[i].hotkey = winner_history[i].hotkey
             /\ RefreshedHistory(outcome)[i].improvement = winner_history[i].improvement
      BY <3>3, <3>5
    <3>. QED
      BY <3>5, <3>6 DEF IInv, WellBuilt, Earned
  <2>. QED
    BY <2>2, <2>3
<1>. QED
  BY <1>1, <1>2

-----------------------------------------------------------------------------
(* The invariant is inductive.                                             *)

LEMMA InitInv == Init => IInv
<1>. SUFFICES ASSUME Init PROVE IInv
  OBVIOUS
<1>. USE DEF Init, EmptyState
<1>1. WellBuilt(<<>>)
  BY LadderAssumption DEF WellBuilt
<1>2. WellBuilt(winner_history) /\ WellBuilt(disk.winner_history)
  BY <1>1
<1>3. disk \in State
  BY DEF State
<1>4. TypeOK
  BY <1>3, ReignAssumption DEF TypeOK, State
<1>. QED
  BY <1>2, <1>4 DEF IInv, ChallengersFresh, PendingScored

LEMMA StartRoundInv == IInv /\ StartRound => IInv'
<1>. SUFFICES ASSUME IInv, StartRound PROVE IInv'
  OBVIOUS
<1>1. PICK verdict \in PossibleVerdicts, seen \in PossibleBlocks :
          LET known == Prechecked(verdict, seen)
              excluded == ExcludedBy(verdict)
              ladder == LadderBeforeRound(known, excluded)
              challenging == Challenging(known, excluded)
          IN /\ commitments' = known
             /\ scores' = LoadedScores
             /\ excluded_hotkeys' = excluded
             /\ winner_history' = ladder
             /\ retained' = retained_hotkeys(known, excluded)
             /\ challengers' = challenging
             /\ champion_before' = IF challenging = {} \/ ladder = <<>> THEN None
                                   ELSE ladder[1].hotkey
             /\ phase' = IF challenging = {} THEN "done" ELSE "selected"
  BY DEF StartRound
<1>. DEFINE known == Prechecked(verdict, seen)
            excluded == ExcludedBy(verdict)
            ladder == LadderBeforeRound(known, excluded)
            challenging == Challenging(known, excluded)
<1>2. UNCHANGED <<chain, version, disk, last_round_outputs, pending,
                  current_ratio, baseline_ratio, published>>
  BY DEF StartRound
<1>3. known \in [Key -> Commitment \cup {None}]
  BY PrecheckedType DEF IInv
<1>4. LoadedScores \in [Key -> Score \cup {None}] /\ LoadedExclusions \in SUBSET Hotkey
  BY LoadedTypes DEF IInv
<1>5. excluded \in SUBSET Hotkey
  BY <1>4 DEF ExcludedBy
<1>6. WellBuilt(ladder)
  BY LadderBeforeRoundWellBuilt
<1>7. /\ challenging \in SUBSET Key
      /\ \A k \in challenging : known[k] # None /\ known[k].status = "valid"
                                /\ LoadedScores[k] = None
  BY DEF Challenging
<1>8. retained_hotkeys(known, excluded) \in SUBSET Hotkey
  BY DEF retained_hotkeys
<1>. HIDE DEF known, excluded, ladder, challenging
<1>9. /\ commitments' = known /\ scores' = LoadedScores /\ excluded_hotkeys' = excluded
      /\ winner_history' = ladder /\ retained' = retained_hotkeys(known, excluded)
      /\ challengers' = challenging
      /\ champion_before' = IF challenging = {} \/ ladder = <<>> THEN None
                            ELSE ladder[1].hotkey
      /\ phase' = IF challenging = {} THEN "done" ELSE "selected"
  BY <1>1 DEF known, excluded, ladder, challenging
<1>10. champion_before' \in Hotkey \cup {None}
  <2>1. ladder # <<>> => ladder[1] \in Entry
    BY <1>6 DEF WellBuilt
  <2>. QED
    BY <1>9, <2>1 DEF Entry
<1>11. TypeOK'
  BY <1>2, <1>3, <1>4, <1>5, <1>6, <1>7, <1>8, <1>9, <1>10
     DEF IInv, TypeOK, WellBuilt, chain
<1>12. WellBuilt(winner_history') /\ WellBuilt(disk'.winner_history)
  BY <1>2, <1>6, <1>9 DEF IInv
<1>13. ChallengersFresh'
  BY <1>7, <1>9 DEF ChallengersFresh, HasStatus
<1>14. PendingScored'
  BY <1>9 DEF PendingScored
<1>. QED
  BY <1>11, <1>12, <1>13, <1>14 DEF IInv, WellBuilt

LEMMA EvaluateInv == IInv /\ Evaluate => IInv'
<1>. SUFFICES ASSUME IInv, Evaluate PROVE IInv'
  OBVIOUS
<1>1. phase = "selected" /\ phase' = "gauntlet"
      /\ UNCHANGED <<chain, version, disk, commitments, retained, challengers,
                     champion_before, published>>
  BY DEF Evaluate
<1>2. PICK outcome \in [Evaluated -> Ratio \cup {None}], baseline \in Baseline :
        /\ \A k \in LookedUp(outcome) : ScoredWith(outcome)[k] # None
        /\ scores' = ScoredWith(outcome)
        /\ winner_history' = RefreshedHistory(outcome)
        /\ current_ratio' = RatioToBeat(outcome)
        /\ last_round_outputs' = SeedAfter(outcome)
        /\ excluded_hotkeys' = excluded_hotkeys \cup
              {k[1] : k \in {c \in challengers : outcome[c[1]] = None}}
        /\ pending' = {k \in challengers : outcome[k[1]] # None}
        /\ baseline_ratio' = baseline
  BY DEF Evaluate
<1>3. scores' \in [Key -> Score \cup {None}]
  BY <1>1, <1>2, ScoredWithType
<1>4. WellBuilt(winner_history')
  BY <1>1, <1>2, RefreshedWellBuilt
<1>5. winner_history # <<>> => winner_history[1] \in Entry
  BY DEF IInv, WellBuilt
<1>6. current_ratio' \in Ratio \cup {None}
  <2>1. CASE winner_history = <<>>
    BY <1>2, <2>1 DEF RatioToBeat
  <2>2. CASE winner_history # <<>> /\ IncumbentEvaluated
    <3>1. winner_history[1].hotkey \in Evaluated
      BY <2>2 DEF Evaluated
    <3>. QED
      BY <1>2, <2>2, <3>1 DEF RatioToBeat
  <2>3. CASE winner_history # <<>> /\ ~IncumbentEvaluated
    BY <1>2, <1>5, <2>3 DEF RatioToBeat, Entry
  <2>. QED
    BY <2>1, <2>2, <2>3
<1>7. last_round_outputs' \in Hotkey \cup {None}
  BY <1>2, <1>5 DEF SeedAfter, IncumbentEvaluated, Entry, IInv, TypeOK
<1>8. excluded_hotkeys' \in SUBSET Hotkey
  <2>1. \A k \in challengers : k[1] \in Hotkey
    BY KeyParts DEF IInv, TypeOK
  <2>. QED
    BY <1>2, <2>1 DEF IInv, TypeOK
<1>9. TypeOK'
  BY <1>1, <1>2, <1>3, <1>4, <1>6, <1>7, <1>8 DEF IInv, TypeOK, WellBuilt, chain
<1>10. PendingScored'
  <2>1. ASSUME NEW k \in pending'
        PROVE  scores'[k] \in Score /\ scores'[k].ratio \in Ratio
    <3>1. k \in challengers /\ outcome[k[1]] # None
      BY <1>2
    <3>2. ScoredWith(outcome)[k] # None
      BY <1>2, <3>1 DEF LookedUp
    <3>. QED
      BY <1>1, <1>2, <3>1, <3>2, ValidChallengerScored
  <2>. QED
    BY <2>1 DEF PendingScored
<1>11. ChallengersFresh'
  BY <1>1 DEF ChallengersFresh
<1>. QED
  BY <1>1, <1>4, <1>9, <1>10, <1>11 DEF IInv, WellBuilt

LEMMA PromoteInv == ASSUME NEW c \in Key PROVE IInv /\ Promote(c) => IInv'
<1>. SUFFICES ASSUME IInv, Promote(c) PROVE IInv'
  OBVIOUS
<1>. DEFINE winner == as_winner(c, scores[c])
<1>1. /\ phase = "gauntlet" /\ c \in pending
      /\ should_promote(scores[c].ratio, current_ratio)
      /\ winner_history' = promote_winner(winner_history, winner, retained, current_ratio)
      /\ current_ratio' = scores[c].ratio
      /\ last_round_outputs' = c[1]
      /\ pending' = pending \ {c}
      /\ UNCHANGED <<chain, version, disk, commitments, scores, excluded_hotkeys,
                     phase, retained, challengers, baseline_ratio,
                     champion_before, published>>
  BY DEF Promote
<1>2. scores[c] \in Score /\ scores[c].ratio \in Ratio
  BY <1>1 DEF IInv, PendingScored
<1>3. c[1] \in Hotkey /\ c[2] \in Artifact
  BY KeyParts
<1>4. winner \in Entry /\ winner.ratio = scores[c].ratio
  BY <1>2, <1>3 DEF as_winner, Entry, Score
<1>. HIDE DEF winner
<1>5. WellBuilt(winner_history')
  <2>1. winner_history \in Seq(Entry) /\ \A i \in DOMAIN winner_history : Earned(winner_history[i])
    BY DEF IInv, WellBuilt
  <2>2. current_ratio \in Ratio \cup {None}
    BY DEF IInv, TypeOK
  <2>. QED
    BY <1>1, <1>2, <1>4, <2>1, <2>2, PromoteWellBuilt
<1>6. TypeOK'
  BY <1>1, <1>2, <1>3, <1>5 DEF IInv, TypeOK, WellBuilt, chain
<1>7. PendingScored' /\ ChallengersFresh'
  BY <1>1 DEF IInv, PendingScored, ChallengersFresh
<1>. QED
  BY <1>1, <1>5, <1>6, <1>7 DEF IInv, WellBuilt

LEMMA RejectInv == ASSUME NEW c \in Key PROVE IInv /\ Reject(c) => IInv'
<1>. SUFFICES ASSUME IInv, Reject(c) PROVE IInv'
  OBVIOUS
<1>1. c[1] \in Hotkey
  BY KeyParts
<1>2. TypeOK'
  BY <1>1 DEF IInv, TypeOK, Reject, chain
<1>3. PendingScored' /\ ChallengersFresh'
  BY DEF IInv, PendingScored, ChallengersFresh, Reject
<1>. QED
  BY <1>2, <1>3 DEF IInv, WellBuilt, Reject

LEMMA SaveInv == IInv /\ Save => IInv'
<1>. SUFFICES ASSUME IInv, Save PROVE IInv'
  OBVIOUS
<1>1. /\ disk' = [commitments |-> commitments, scores |-> scores,
                  winner_history |-> winner_history,
                  excluded_hotkeys |-> excluded_hotkeys,
                  last_round_outputs |-> last_round_outputs]
      /\ phase' = "idle"
      /\ retained' = {} /\ challengers' = {} /\ pending' = {}
      /\ current_ratio' = None /\ baseline_ratio' = None /\ champion_before' = None
      /\ UNCHANGED <<chain, version, memory, published>>
  BY DEF Save, ForgetRound
<1>2. disk' \in State /\ disk'.winner_history = winner_history
  BY <1>1 DEF IInv, TypeOK, State
<1>3. TypeOK'
  BY <1>1, <1>2 DEF IInv, TypeOK, memory, chain
<1>4. PendingScored' /\ ChallengersFresh'
  BY <1>1 DEF PendingScored, ChallengersFresh
<1>. QED
  BY <1>1, <1>2, <1>3, <1>4 DEF IInv, WellBuilt, memory

LEMMA DropMemoryInv ==
    IInv /\ DropMemory /\ version' \in 1..MaxVersion /\ UNCHANGED <<chain, disk, published>>
        => IInv'
<1>. SUFFICES ASSUME IInv, DropMemory, version' \in 1..MaxVersion,
                     UNCHANGED <<chain, disk, published>>
              PROVE  IInv'
  OBVIOUS
<1>1. TypeOK'
  BY DEF IInv, TypeOK, DropMemory, ForgetRound, State, chain
<1>2. PendingScored' /\ ChallengersFresh'
  BY DEF PendingScored, ChallengersFresh, DropMemory, ForgetRound
<1>. QED
  BY <1>1, <1>2 DEF IInv, WellBuilt, DropMemory

LEMMA PollInv == IInv /\ Poll => IInv'
<1>. SUFFICES ASSUME IInv, Poll PROVE IInv'
  OBVIOUS
<1>1. LoadedScores \in [Key -> Score \cup {None}] /\ LoadedExclusions \in SUBSET Hotkey
  BY LoadedTypes DEF IInv
<1>2. /\ phase = "idle"
      /\ disk' = [disk EXCEPT !.scores = LoadedScores,
                              !.excluded_hotkeys = LoadedExclusions]
      /\ scores' = LoadedScores /\ excluded_hotkeys' = LoadedExclusions
      /\ UNCHANGED <<chain, version, commitments, winner_history,
                     last_round_outputs, phase, locals, published>>
  BY DEF Poll
<1>3. disk' \in State /\ disk'.winner_history = disk.winner_history
  BY <1>1, <1>2 DEF IInv, TypeOK, State
<1>4. TypeOK'
  BY <1>1, <1>2, <1>3 DEF IInv, TypeOK, locals, chain
<1>5. PendingScored' /\ ChallengersFresh'
  BY <1>2 DEF PendingScored, ChallengersFresh
<1>. QED
  BY <1>2, <1>3, <1>4, <1>5 DEF IInv, WellBuilt

LEMMA NextInv == IInv /\ [Next]_vars => IInv'
<1>. SUFFICES ASSUME IInv, [Next]_vars PROVE IInv'
  OBVIOUS
<1>1. CASE StartRound
  BY <1>1, StartRoundInv
<1>2. CASE Evaluate
  BY <1>2, EvaluateInv
<1>3. CASE EvaluateRaises
  BY <1>3 DEF EvaluateRaises, IInv, TypeOK, WellBuilt, PendingScored, ChallengersFresh,
              memory, locals, chain
<1>4. CASE Publish
  <2>1. published' \in Hotkey \cup {None}
    <3>1. winner_history # <<>> => winner_history[1] \in Entry
      BY DEF IInv, WellBuilt
    <3>. QED
      BY <1>4, <3>1 DEF Publish, IInv, TypeOK, Entry
  <2>. QED
    BY <1>4, <2>1 DEF Publish, IInv, TypeOK, WellBuilt, PendingScored, ChallengersFresh,
                      memory, locals, chain
<1>5. CASE Save
  BY <1>5, SaveInv
<1>6. ASSUME NEW c \in Key, Promote(c) \/ Reject(c)
      PROVE  IInv'
  BY <1>6, PromoteInv, RejectInv
<1>7. CASE Abort
  BY <1>7, DropMemoryInv DEF Abort, IInv, TypeOK
<1>8. CASE Poll
  BY <1>8, PollInv
<1>9. CASE Release
  BY <1>9, DropMemoryInv DEF Release
<1>10. CASE Tick
  <2>1. block' \in 1..MaxBlock
    BY <1>10, ReignAssumption DEF Tick, IInv, TypeOK
  <2>. QED
    BY <1>10, <2>1 DEF Tick, IInv, TypeOK, WellBuilt, PendingScored, ChallengersFresh,
                       HasStatus, memory, locals
<1>11. ASSUME NEW h \in Hotkey, NEW a \in Artifact \cup {None}, Post(h, a)
       PROVE  IInv'
  BY <1>11 DEF Post, IInv, TypeOK, WellBuilt, PendingScored, ChallengersFresh,
               HasStatus, memory, locals
<1>12. CASE UNCHANGED vars
  BY <1>12 DEF vars, IInv, TypeOK, WellBuilt, PendingScored, ChallengersFresh,
               HasStatus, memory, locals, chain
<1>. QED
  BY <1>1, <1>2, <1>3, <1>4, <1>5, <1>6, <1>7, <1>8, <1>9, <1>10, <1>11, <1>12
     DEF Next, Round

-----------------------------------------------------------------------------
(* Theorems.                                                               *)

\* The inductive invariant holds in every state of the validator.
THEOREM Invariance == Spec => []IInv
<1>1. Init => IInv
  BY InitInv
<1>2. IInv /\ [Next]_vars => IInv'
  BY NextInv
<1>. QED
  BY <1>1, <1>2, PTL DEF Spec

\* Every variable of the validator keeps its type, through crashes, restarts on
\* other releases and hotkeys that commit more than once.
THEOREM TypeCorrectness == Spec => []TypeOK
<1>1. IInv => TypeOK
  BY DEF IInv
<1>. QED
  BY <1>1, Invariance, PTL

\* No ladder, in memory or in the file, gives a hotkey two rungs or grows beyond
\* WINNER_HISTORY_DEPTH (compact_history, weights.py:69).
THEOREM LadderIsWellFormed == Spec => []LadderWellFormed
<1>1. IInv => LadderWellFormed
  BY DEF IInv, WellBuilt, LadderWellFormed
<1>. QED
  BY <1>1, Invariance, PTL

\* Every improvement in the file, which is what emission is paid for, is zero or
\* at least the margin (promote_winner, weights.py:96, with should_promote, 120).
THEOREM ImprovementsAreEarned == Spec => []ImprovementEarned
<1>1. IInv => ImprovementEarned
  BY DEF IInv, WellBuilt, Earned, ImprovementEarned
<1>. QED
  BY <1>1, Invariance, PTL

-----------------------------------------------------------------------------
(* A hotkey that commits once.                                             *)

\* Only one artifact is ever committed to, so a hotkey has one key.
OneCommitment == \E a : Artifact = {a}

\* A hotkey's score is then recorded under the key it was evaluated for.
LEMMA FirstValidIsTheOne ==
    ASSUME OneCommitment, IInv, phase = "selected", NEW k \in Key, k[1] \in Evaluated
    PROVE  FirstValid(k[1]) = k
<1>1. FirstValid(k[1]) \in Key /\ FirstValid(k[1])[1] = k[1]
  BY FirstValidIsValid
<1>2. FirstValid(k[1])[2] = k[2]
  BY <1>1, KeyParts DEF OneCommitment
<1>. QED
  BY <1>1, <1>2, KeyParts

LEMMA BarInit == Init => BarIsTheCrowns
BY DEF Init, BarIsTheCrowns

LEMMA BarEvaluate ==
    ASSUME OneCommitment PROVE IInv /\ Evaluate => BarIsTheCrowns'
<1>. SUFFICES ASSUME IInv, Evaluate PROVE BarIsTheCrowns'
  OBVIOUS
<1>1. PICK outcome \in [Evaluated -> Ratio \cup {None}] :
        /\ winner_history' = RefreshedHistory(outcome)
        /\ current_ratio' = RatioToBeat(outcome)
  BY DEF Evaluate
<1>2. phase = "selected"
  BY DEF Evaluate
<1>. SUFFICES ASSUME current_ratio' # None
              PROVE  winner_history' # <<>> /\ winner_history'[1].ratio = current_ratio'
  BY DEF BarIsTheCrowns
<1>3. winner_history # <<>>
  BY <1>1 DEF RatioToBeat
<1>4. winner_history \in Seq(Entry) /\ winner_history[1] \in Entry
  BY <1>3 DEF IInv, WellBuilt
<1>5. CASE ~IncumbentEvaluated
  BY <1>1, <1>3, <1>5 DEF RatioToBeat, RefreshedHistory
<1>6. CASE IncumbentEvaluated
  <2>. DEFINE k == EntryKey(winner_history[1])
  <2>1. current_ratio' = outcome[winner_history[1].hotkey]
    BY <1>1, <1>3, <1>6 DEF RatioToBeat
  <2>2. k \in Key /\ k[1] = winner_history[1].hotkey /\ k[1] \in Evaluated
    BY <1>4, <1>6 DEF EntryKey, Entry, Key, Evaluated
  <2>3. ScoredWith(outcome)[k].ratio = outcome[k[1]]
    BY <2>2, <1>2, FirstValidIsTheOne DEF ScoredWith
  <2>. DEFINE refreshed == [as_winner(k, ScoredWith(outcome)[k]) EXCEPT
                               !.improvement = winner_history[1].improvement]
  <2>4. winner_history' = [winner_history EXCEPT ![1] = refreshed]
    BY <1>1, <1>6, <2>1 DEF RefreshedHistory
  <2>5. refreshed.ratio = outcome[k[1]]
    BY <2>3 DEF as_winner
  <2>. HIDE DEF refreshed
  <2>6. winner_history' # <<>> /\ winner_history'[1] = refreshed
    BY <1>3, <1>4, <2>4
  <2>. QED
    BY <2>1, <2>2, <2>5, <2>6
<1>. QED
  BY <1>5, <1>6

LEMMA BarPromote ==
    ASSUME NEW c \in Key PROVE IInv /\ Promote(c) => BarIsTheCrowns'
<1>. SUFFICES ASSUME IInv, Promote(c) PROVE BarIsTheCrowns'
  OBVIOUS
<1>. DEFINE winner == as_winner(c, scores[c])
<1>1. /\ phase = "gauntlet" /\ c \in pending
      /\ should_promote(scores[c].ratio, current_ratio)
      /\ winner_history' = promote_winner(winner_history, winner, retained, current_ratio)
      /\ current_ratio' = scores[c].ratio
  BY DEF Promote
<1>2. scores[c] \in Score /\ scores[c].ratio \in Ratio
  BY <1>1 DEF IInv, PendingScored
<1>3. winner \in Entry /\ winner.ratio = scores[c].ratio
  BY <1>2, KeyParts DEF as_winner, Entry, Score
<1>. HIDE DEF winner
<1>4. winner_history \in Seq(Entry) /\ \A i \in DOMAIN winner_history : Earned(winner_history[i])
  BY DEF IInv, WellBuilt
<1>5. current_ratio \in Ratio \cup {None}
  BY DEF IInv, TypeOK
<1>6. winner_history' # <<>> /\ winner_history'[1].ratio = winner.ratio
  BY <1>1, <1>2, <1>3, <1>4, <1>5, PromoteWellBuilt
<1>. QED
  BY <1>1, <1>3, <1>6 DEF BarIsTheCrowns

LEMMA BarNext ==
    ASSUME OneCommitment
    PROVE  IInv /\ BarIsTheCrowns /\ [Next]_vars => BarIsTheCrowns'
<1>. SUFFICES ASSUME IInv, BarIsTheCrowns, [Next]_vars PROVE BarIsTheCrowns'
  OBVIOUS
<1>1. CASE StartRound
  BY <1>1 DEF StartRound, BarIsTheCrowns
<1>2. CASE Evaluate
  BY <1>2, BarEvaluate
<1>3. CASE EvaluateRaises
  BY <1>3 DEF EvaluateRaises, BarIsTheCrowns
<1>4. CASE Publish
  BY <1>4 DEF Publish, BarIsTheCrowns
<1>5. CASE Save
  BY <1>5 DEF Save, ForgetRound, BarIsTheCrowns
<1>6. ASSUME NEW c \in Key, Promote(c)
      PROVE  BarIsTheCrowns'
  BY <1>6, BarPromote
<1>7. ASSUME NEW c \in Key, Reject(c)
      PROVE  BarIsTheCrowns'
  BY <1>7 DEF Reject, BarIsTheCrowns
<1>8. CASE Abort \/ Release
  BY <1>8 DEF Abort, Release, DropMemory, ForgetRound, BarIsTheCrowns
<1>9. CASE Poll
  BY <1>9 DEF Poll, BarIsTheCrowns
<1>10. CASE Tick
  BY <1>10 DEF Tick, BarIsTheCrowns
<1>11. ASSUME NEW h \in Hotkey, NEW a \in Artifact \cup {None}, Post(h, a)
       PROVE  BarIsTheCrowns'
  BY <1>11 DEF Post, BarIsTheCrowns
<1>12. CASE UNCHANGED vars
  BY <1>12 DEF vars, memory, locals, BarIsTheCrowns
<1>. QED
  BY <1>1, <1>2, <1>3, <1>4, <1>5, <1>6, <1>7, <1>8, <1>9, <1>10, <1>11, <1>12
     DEF Next, Round

\* The ratio a challenger must beat is always the crown's own: the sequential
\* gauntlet of run_round raises the bar with every promotion and vacates it with a
\* failed incumbent (reign_worker/service.py:133-214), when a hotkey commits once.
THEOREM BarFollowsTheCrown ==
    ASSUME OneCommitment PROVE Spec => []BarIsTheCrowns
<1>1. Init => BarIsTheCrowns
  BY BarInit
<1>2. IInv /\ BarIsTheCrowns /\ [Next]_vars => BarIsTheCrowns'
  BY BarNext
<1>. QED
  BY <1>1, <1>2, Invariance, PTL DEF Spec

-----------------------------------------------------------------------------
(* The effect of the two steps with inputs, and what they write.           *)

LEMMA StartRoundEffect ==
    ASSUME StartRound
    PROVE  \E verdict \in PossibleVerdicts, seen \in PossibleBlocks :
               /\ commitments' = Prechecked(verdict, seen)
               /\ scores' = LoadedScores
               /\ excluded_hotkeys' = ExcludedBy(verdict)
               /\ winner_history' = LadderBeforeRound(commitments', excluded_hotkeys')
               /\ retained' = retained_hotkeys(commitments', excluded_hotkeys')
               /\ challengers' = Challenging(commitments', excluded_hotkeys')
               /\ champion_before' =
                     IF challengers' = {} \/ winner_history' = <<>> THEN None
                     ELSE winner_history'[1].hotkey
               /\ phase' = IF challengers' = {} THEN "done" ELSE "selected"
               /\ UNCHANGED <<chain, version, disk, last_round_outputs, pending,
                              current_ratio, baseline_ratio, published>>
BY DEF StartRound

LEMMA EvaluateEffect ==
    ASSUME Evaluate
    PROVE  \E outcome \in [Evaluated -> Ratio \cup {None}] :
               /\ phase = "selected" /\ phase' = "gauntlet"
               /\ \A k \in LookedUp(outcome) : ScoredWith(outcome)[k] # None
               /\ scores' = ScoredWith(outcome)
               /\ winner_history' = RefreshedHistory(outcome)
               /\ current_ratio' = RatioToBeat(outcome)
               /\ last_round_outputs' = SeedAfter(outcome)
               /\ excluded_hotkeys' = excluded_hotkeys \cup
                     {k[1] : k \in {c \in challengers : outcome[c[1]] = None}}
               /\ pending' = {k \in challengers : outcome[k[1]] # None}
               /\ UNCHANGED <<chain, version, disk, commitments, retained,
                              challengers, champion_before, published>>
BY DEF Evaluate

\* The key a codec was evaluated for has a score afterwards, the others keep theirs.
LEMMA ScoredWithEffect ==
    ASSUME IInv, phase = "selected",
           NEW outcome \in [Evaluated -> Ratio \cup {None}], NEW k \in Key
    PROVE  /\ k[1] \in Evaluated /\ k = FirstValid(k[1]) =>
                 /\ ScoredWith(outcome)[k] # None
                 /\ ScoredWith(outcome)[k].ratio = outcome[k[1]]
                 /\ ScoredWith(outcome)[k].version = version
                 /\ ScoredWith(outcome)[k].commit_block = commitments[k].block
           /\ ~(k[1] \in Evaluated /\ k = FirstValid(k[1])) =>
                 ScoredWith(outcome)[k] = scores[k]
<1>1. CASE k[1] \in Evaluated /\ k = FirstValid(k[1])
  <2>1. ScoredWith(outcome)[k] =
            [ratio |-> outcome[k[1]], commit_block |-> commitments[k].block,
             evaluated_at |-> block, version |-> version]
    BY <1>1 DEF ScoredWith
  <2>2. commitments[k].block \in Nat
    <3>1. HasStatus(k, "valid")
      BY <1>1, FirstValidIsValid
    <3>. QED
      BY <3>1 DEF HasStatus, IInv, TypeOK, Commitment
  <2>3. ScoredWith(outcome)[k] \in Score
    BY <1>1, <2>1, <2>2 DEF Score, IInv, TypeOK
  <2>. QED
    BY <1>1, <2>1, <2>3, NoneIsNoRecord
<1>2. CASE ~(k[1] \in Evaluated /\ k = FirstValid(k[1]))
  BY <1>2 DEF ScoredWith
<1>. QED
  BY <1>1, <1>2

-----------------------------------------------------------------------------
(* What a release that changes the meaning of a ratio takes with it.       *)

\* Two keys of one hotkey are the same key.
LEMMA OneKey ==
    ASSUME OneCommitment, NEW k \in Key, NEW l \in Key, k[1] = l[1]
    PROVE  k = l
BY KeyParts DEF OneCommitment

\* The score of k was dropped by the load, for good.
Dropped(k) ==
    /\ disk.scores[k] # None /\ scores[k] = None
    /\ ~CompatibleSince(disk.scores[k].version)

\* Who is out in spite of a dropped score is out because precheck found it gone.
DroppedAreReadmitted ==
    phase \in {"selected", "gauntlet", "done"} =>
        \A k \in Key : Dropped(k) /\ k[1] \in excluded_hotkeys =>
            commitments[k].status = "invalid"

LEMMA WipeEmpties ==
    ASSUME NEW k \in Key, disk.scores[k] # None, LoadedScores[k] = None,
           ~CompatibleSince(disk.scores[k].version)
    PROVE  LoadedExclusions = {}
<1>1. k \in StaleKeys
  BY DEF LoadedScores
<1>. QED
  BY <1>1 DEF LoadedExclusions

LEMMA WipeStartRound ==
    ASSUME OneCommitment PROVE IInv /\ StartRound => DroppedAreReadmitted'
<1>. SUFFICES ASSUME IInv, StartRound, NEW k \in Key,
                     Dropped(k)', k[1] \in excluded_hotkeys'
              PROVE  commitments'[k].status = "invalid"
  BY DEF DroppedAreReadmitted
<1>1. PICK verdict \in PossibleVerdicts, seen \in PossibleBlocks :
          /\ commitments' = Prechecked(verdict, seen)
          /\ scores' = LoadedScores
          /\ excluded_hotkeys' = ExcludedBy(verdict)
          /\ UNCHANGED <<version, disk>>
  BY StartRoundEffect
<1>2. LoadedExclusions = {}
  BY <1>1, WipeEmpties DEF Dropped, CompatibleSince
<1>3. PICK l \in Checked : l[1] = k[1] /\ verdict[l] = "gone"
  BY <1>1, <1>2 DEF ExcludedBy
<1>4. l = k
  BY <1>3, OneKey DEF Checked
<1>. QED
  BY <1>1, <1>3, <1>4 DEF Prechecked

LEMMA WipeEvaluate ==
    ASSUME OneCommitment
    PROVE  IInv /\ DroppedAreReadmitted /\ Evaluate => DroppedAreReadmitted'
<1>. SUFFICES ASSUME IInv, DroppedAreReadmitted, Evaluate, NEW k \in Key,
                     Dropped(k)', k[1] \in excluded_hotkeys'
              PROVE  commitments'[k].status = "invalid"
  BY DEF DroppedAreReadmitted
<1>1. PICK outcome \in [Evaluated -> Ratio \cup {None}] :
          /\ phase = "selected"
          /\ scores' = ScoredWith(outcome)
          /\ excluded_hotkeys' = excluded_hotkeys \cup
                {c[1] : c \in {d \in challengers : outcome[d[1]] = None}}
          /\ UNCHANGED <<version, disk, commitments>>
  BY EvaluateEffect
<1>2. k[1] \notin Evaluated /\ scores[k] = None
  <2>1. k[1] \in Evaluated => k = FirstValid(k[1])
    BY <1>1, FirstValidIsTheOne
  <2>. QED
    BY <1>1, <2>1, ScoredWithEffect DEF Dropped
<1>3. k[1] \in excluded_hotkeys
  BY <1>1, <1>2 DEF Evaluated
<1>4. Dropped(k)
  BY <1>1, <1>2 DEF Dropped, CompatibleSince
<1>. QED
  BY <1>1, <1>3, <1>4 DEF DroppedAreReadmitted

LEMMA WipeReject ==
    ASSUME OneCommitment, NEW c \in Key
    PROVE  IInv /\ DroppedAreReadmitted /\ Reject(c) => DroppedAreReadmitted'
<1>. SUFFICES ASSUME IInv, DroppedAreReadmitted, Reject(c), NEW k \in Key,
                     Dropped(k)', k[1] \in excluded_hotkeys'
              PROVE  commitments'[k].status = "invalid"
  BY DEF DroppedAreReadmitted
<1>1. /\ phase = "gauntlet" /\ c \in pending
      /\ excluded_hotkeys' = excluded_hotkeys \cup {c[1]}
      /\ UNCHANGED <<version, disk, commitments, scores>>
  BY DEF Reject
<1>2. scores[c] # None
  BY <1>1, NoneIsNoRecord DEF IInv, PendingScored
<1>3. Dropped(k)
  BY <1>1 DEF Dropped, CompatibleSince
<1>4. k[1] # c[1]
  BY <1>2, <1>3, OneKey DEF Dropped
<1>. QED
  BY <1>1, <1>3, <1>4 DEF DroppedAreReadmitted

LEMMA WipeNext ==
    ASSUME OneCommitment
    PROVE  IInv /\ DroppedAreReadmitted /\ [Next]_vars => DroppedAreReadmitted'
<1>. SUFFICES ASSUME IInv, DroppedAreReadmitted, [Next]_vars
              PROVE  DroppedAreReadmitted'
  OBVIOUS
<1>. USE DEF DroppedAreReadmitted, Dropped, CompatibleSince
<1>1. CASE StartRound
  BY <1>1, WipeStartRound
<1>2. CASE Evaluate
  BY <1>2, WipeEvaluate
<1>3. CASE EvaluateRaises
  BY <1>3 DEF EvaluateRaises
<1>4. CASE Publish
  BY <1>4 DEF Publish, memory
<1>5. CASE Save \/ Abort \/ Release
  BY <1>5 DEF Save, Abort, Release, DropMemory, ForgetRound
<1>6. ASSUME NEW c \in Key, Promote(c)
      PROVE  DroppedAreReadmitted'
  BY <1>6 DEF Promote
<1>7. ASSUME NEW c \in Key, Reject(c)
      PROVE  DroppedAreReadmitted'
  BY <1>7, WipeReject
<1>8. CASE Poll
  BY <1>8 DEF Poll
<1>9. CASE Tick
  BY <1>9 DEF Tick
<1>10. ASSUME NEW h \in Hotkey, NEW a \in Artifact \cup {None}, Post(h, a)
       PROVE  DroppedAreReadmitted'
  BY <1>10 DEF Post
<1>11. CASE UNCHANGED vars
  BY <1>11 DEF vars, memory
<1>. QED
  BY <1>1, <1>2, <1>3, <1>4, <1>5, <1>6, <1>7, <1>8, <1>9, <1>10, <1>11 DEF Next, Round

\* The file is written by the save of a round and by a poll, and by nothing else.
LEMMA OnlySaveAndPollWrite ==
    ASSUME [Next]_vars, disk' # disk
    PROVE  Save \/ Poll
<1>. USE DEF memory
<1>1. CASE StartRound \/ Evaluate \/ EvaluateRaises \/ Publish
  BY <1>1 DEF StartRound, Evaluate, EvaluateRaises, Publish
<1>2. CASE \E c \in Key : Promote(c) \/ Reject(c)
  BY <1>2 DEF Promote, Reject
<1>3. CASE Abort \/ Release \/ Tick
  BY <1>3 DEF Abort, Release, Tick
<1>4. CASE \E h \in Hotkey, a \in Artifact \cup {None} : Post(h, a)
  BY <1>4 DEF Post
<1>5. CASE UNCHANGED vars
  BY <1>5 DEF vars
<1>. QED
  BY <1>1, <1>2, <1>3, <1>4, <1>5 DEF Next, Round

\* After a release that changes what a ratio means, a hotkey that lost its score to it
\* is out only if precheck found its codec gone (_invalidate_stale_scores,
\* core/state.py, with the exclusions of a round), for every number of releases and
\* rollbacks, when a hotkey commits once.
THEOREM WipesReadmit ==
    ASSUME OneCommitment PROVE Spec => SurfaceWipeReadmits
<1>. DEFINE Readmits ==
        \A k \in Key :
            /\ disk.scores[k] # None /\ disk'.scores[k] = None
            /\ ~CompatibleSince(disk.scores[k].version)
            /\ k[1] \in disk'.excluded_hotkeys
            => disk'.commitments[k].status = "invalid"
<1>1. Init => DroppedAreReadmitted
  BY DEF Init, DroppedAreReadmitted
<1>2. IInv /\ DroppedAreReadmitted /\ [Next]_vars => DroppedAreReadmitted'
  BY WipeNext
<1>3. ASSUME IInv, DroppedAreReadmitted, [Next]_vars
      PROVE  [Readmits]_disk
  <2>. SUFFICES ASSUME disk' # disk PROVE Readmits
    OBVIOUS
  <2>1. CASE Save
    <3>1. /\ phase = "done"
          /\ disk'.scores = scores /\ disk'.commitments = commitments
          /\ disk'.excluded_hotkeys = excluded_hotkeys
      BY <2>1 DEF Save
    <3>. QED
      BY <1>3, <3>1 DEF DroppedAreReadmitted, Dropped
  <2>2. CASE Poll
    <3>1. disk \in State
      BY <1>3 DEF IInv, TypeOK
    <3>2. disk'.scores = LoadedScores /\ disk'.excluded_hotkeys = LoadedExclusions
      BY <2>2, <3>1 DEF Poll, State
    <3>. QED
      BY <3>2, WipeEmpties
  <2>. QED
    BY <1>3, <2>1, <2>2, OnlySaveAndPollWrite
<1>. QED
  BY <1>1, <1>2, <1>3, Invariance, PTL DEF Spec, SurfaceWipeReadmits

-----------------------------------------------------------------------------
(* What the ladder may become: by the start of a round, by the             *)
(* re-evaluation of the incumbent, by a promotion.                         *)

LEMMA WinnerKey ==
    ASSUME NEW k \in Key, NEW score
    PROVE  EntryKey(as_winner(k, score)) = k
BY KeyParts DEF EntryKey, as_winner

\* A recovered crown is the only rung.
LEMMA RecoveredIsAlone ==
    ASSUME NEW known, NEW scored \in [Key -> Score \cup {None}], NEW excluded
    PROVE  LET ladder == RecoverVacantCrown(known, scored, excluded)
           IN  ladder # <<>> =>
                   \E best \in Recoverable(known, scored, excluded) :
                       DOMAIN ladder = {1} /\ ladder[1] = as_winner(best, scored[best])
<1>. DEFINE candidates == Recoverable(known, scored, excluded)
            ladder == RecoverVacantCrown(known, scored, excluded)
            best == CHOOSE k \in candidates :
                        \A l \in candidates \ {k} : RecoveredFirst(k, l, scored)
            winner == as_winner(best, scored[best])
<1>. SUFFICES ASSUME ladder # <<>>
              PROVE  best \in candidates /\ DOMAIN ladder = {1} /\ ladder[1] = winner
  OBVIOUS
<1>1. candidates # {} /\ ladder = promote_winner(<<>>, winner, Hotkey, None)
  BY DEF RecoverVacantCrown
<1>2. candidates \in SUBSET Key
      /\ \A k \in candidates : scored[k] # None /\ scored[k].ratio # None
  BY DEF Recoverable
<1>3. best \in candidates
  <2>. HIDE DEF candidates
  <2>. QED
    BY <1>1, <1>2, RecoveredFirstExists
<1>4. best \in Key /\ scored[best] \in Score
  BY <1>2, <1>3
<1>5. winner \in Entry /\ winner.improvement = 0
  BY <1>4, KeyParts DEF as_winner, Entry, Score
<1>. HIDE DEF best, candidates, ladder, winner
<1>6. ladder = compact_history(<<winner>>, Hotkey \cup {winner.hotkey})
  <2>1. [winner EXCEPT !.improvement = ImprovementOver(None, winner.ratio)] = winner
    BY <1>5 DEF ImprovementOver, Entry
  <2>2. <<winner>> \o <<>> = <<winner>>
    BY <1>5
  <2>. QED
    BY <1>1, <2>1, <2>2 DEF promote_winner
<1>7. <<winner>> \in Seq(Entry) /\ <<winner>> # <<>> /\ <<winner>>[1] = winner
      /\ DOMAIN <<winner>> = {1}
  BY <1>5
<1>8. ladder # <<>> /\ ladder[1] = winner
  BY <1>6, <1>7, CompactHead
<1>9. /\ ladder \in Seq(Entry)
      /\ \A n \in DOMAIN ladder : ladder[n] = winner
      /\ \A n, k \in DOMAIN ladder : ladder[n].hotkey = ladder[k].hotkey => n = k
  <2>. DEFINE one == <<winner>>
              eligible == Hotkey \cup {winner.hotkey}
  <2>1. \A i \in DOMAIN one : one[i] = winner
    BY <1>7
  <2>2. one \in Seq(Entry) /\ ladder = compact_history(one, eligible)
    BY <1>6, <1>7
  <2>. HIDE DEF one, eligible
  <2>. QED
    BY <2>1, <2>2, CompactHistory
<1>10. 1 \in DOMAIN ladder
  BY <1>8, <1>9
<1>. QED
  BY <1>3, <1>8, <1>9, <1>10

LEMMA LadderBeforeRoundFrom ==
    ASSUME IInv, NEW known, NEW excluded
    PROVE  LET ladder == LadderBeforeRound(known, excluded)
               kept == retained_hotkeys(known, excluded)
           IN  \/ ladder # <<>> /\ ladder = compact_history(disk.winner_history, kept)
               \/ /\ \A i \in DOMAIN disk.winner_history :
                        disk.winner_history[i].hotkey \notin kept
                  /\ ladder # <<>> =>
                        \E best \in Recoverable(known, LoadedScores, excluded) :
                            /\ DOMAIN ladder = {1}
                            /\ ladder[1] = as_winner(best, LoadedScores[best])
<1>. DEFINE kept == retained_hotkeys(known, excluded)
<1>1. CASE compact_history(disk.winner_history, kept) # <<>>
  BY <1>1 DEF LadderBeforeRound
<1>2. CASE compact_history(disk.winner_history, kept) = <<>>
  <2>1. LadderBeforeRound(known, excluded)
          = RecoverVacantCrown(known, LoadedScores, excluded)
    BY <1>2 DEF LadderBeforeRound
  <2>2. \A i \in DOMAIN disk.winner_history : disk.winner_history[i].hotkey \notin kept
    <3>. HIDE DEF kept
    <3>. QED
      BY <1>2, CompactKeepsSome DEF IInv, WellBuilt
  <2>. QED
    BY <2>1, <2>2, LoadedTypes, RecoveredIsAlone DEF IInv
<1>. QED
  BY <1>1, <1>2

LEMMA RefreshedFrom ==
    ASSUME IInv, phase = "selected",
           NEW outcome \in [Evaluated -> Ratio \cup {None}]
    PROVE  LET ladder == RefreshedHistory(outcome)
               incumbent == winner_history[1]
               score == ScoredWith(outcome)[EntryKey(incumbent)]
           IN  \/ ~IncumbentEvaluated /\ ladder = winner_history
               \/ /\ IncumbentEvaluated /\ outcome[incumbent.hotkey] = None
                  /\ \A i \in DOMAIN ladder :
                        /\ i + 1 \in DOMAIN winner_history /\ i + 1 # 1
                        /\ ladder[i] = winner_history[i + 1]
               \/ /\ IncumbentEvaluated /\ outcome[incumbent.hotkey] # None
                  /\ DOMAIN ladder = DOMAIN winner_history /\ ladder # <<>>
                  /\ EntryKey(ladder[1]) = EntryKey(incumbent)
                  /\ ladder[1].hotkey = incumbent.hotkey
                  /\ ladder[1].ratio = score.ratio
                  /\ ladder[1].improvement = incumbent.improvement
                  /\ \A i \in DOMAIN winner_history :
                        i # 1 => ladder[i] = winner_history[i]
<1>. DEFINE incumbent == winner_history[1]
            k == EntryKey(incumbent)
            ladder == RefreshedHistory(outcome)
            refreshed == [as_winner(k, ScoredWith(outcome)[k]) EXCEPT
                             !.improvement = incumbent.improvement]
<1>1. CASE ~IncumbentEvaluated
  BY <1>1 DEF RefreshedHistory
<1>2. CASE IncumbentEvaluated
  <2>1. winner_history \in Seq(Entry) /\ winner_history # <<>>
    BY <1>2 DEF IncumbentEvaluated, IInv, TypeOK
  <2>2. CASE outcome[incumbent.hotkey] = None
    <3>1. ladder = Tail(winner_history)
      BY <1>2, <2>2 DEF RefreshedHistory
    <3>2. \A i \in DOMAIN Tail(winner_history) :
             /\ i + 1 \in DOMAIN winner_history /\ i + 1 # 1
             /\ Tail(winner_history)[i] = winner_history[i + 1]
      BY <2>1
    <3>. QED
      BY <1>2, <2>2, <3>1, <3>2
  <2>3. CASE outcome[incumbent.hotkey] # None
    <3>1. ladder = [winner_history EXCEPT ![1] = refreshed]
      BY <1>2, <2>3 DEF RefreshedHistory
    <3>2. /\ refreshed.hotkey = incumbent.hotkey
          /\ refreshed.artifact = incumbent.artifact
          /\ refreshed.ratio = ScoredWith(outcome)[k].ratio
          /\ refreshed.improvement = incumbent.improvement
      BY DEF as_winner, EntryKey
    <3>. HIDE DEF refreshed
    <3>3. /\ DOMAIN ladder = DOMAIN winner_history /\ ladder # <<>>
          /\ ladder[1] = refreshed
          /\ \A i \in DOMAIN winner_history : i # 1 => ladder[i] = winner_history[i]
      <4>1. 1 \in DOMAIN winner_history
        BY <2>1
      <4>. QED
        BY <3>1, <4>1
    <3>4. EntryKey(ladder[1]) = EntryKey(incumbent)
      BY <3>2, <3>3 DEF EntryKey
    <3>. HIDE DEF ladder
    <3>5. ladder[1].ratio = ScoredWith(outcome)[EntryKey(incumbent)].ratio
      BY <3>2, <3>3
    <3>. QED
      BY <1>2, <2>3, <3>2, <3>3, <3>4, <3>5 DEF ladder
  <2>. QED
    BY <2>2, <2>3
<1>. QED
  BY <1>1, <1>2

LEMMA PromotedFrom ==
    ASSUME IInv, NEW c \in Key, Promote(c)
    PROVE  /\ winner_history' # <<>> /\ 1 \in DOMAIN winner_history'
           /\ EntryKey(winner_history'[1]) = c
           /\ winner_history'[1].hotkey = c[1]
           /\ winner_history'[1].ratio = scores[c].ratio
           /\ winner_history'[1].commit_block = scores[c].commit_block
           /\ \A i \in DOMAIN winner_history' : i # 1 =>
                 \E j \in DOMAIN winner_history : winner_history'[i] = winner_history[j]
           /\ \A i, j \in DOMAIN winner_history' : i # 1 /\ i < j =>
                 \E m, n \in DOMAIN winner_history :
                     /\ m < n
                     /\ winner_history'[i] = winner_history[m]
                     /\ winner_history'[j] = winner_history[n]
<1>. DEFINE winner == as_winner(c, scores[c])
            crowned == [winner EXCEPT
                           !.improvement = ImprovementOver(current_ratio, winner.ratio)]
            longer == <<crowned>> \o winner_history
            eligible == retained \cup {winner.hotkey}
<1>1. /\ c \in pending /\ phase = "gauntlet"
      /\ should_promote(scores[c].ratio, current_ratio)
      /\ winner_history' = promote_winner(winner_history, winner, retained, current_ratio)
  BY DEF Promote
<1>2. scores[c] \in Score /\ scores[c].ratio \in Ratio /\ current_ratio \in Ratio \cup {None}
  BY <1>1 DEF IInv, PendingScored, TypeOK
<1>3. winner \in Entry /\ winner.ratio = scores[c].ratio /\ winner.hotkey = c[1]
  BY <1>2, KeyParts DEF as_winner, Entry, Score
<1>4. crowned \in Entry
      /\ crowned.ratio = scores[c].ratio /\ crowned.hotkey = c[1]
      /\ crowned.artifact = c[2] /\ crowned.commit_block = scores[c].commit_block
  <2>1. ImprovementOver(current_ratio, winner.ratio) \in Nat
    BY <1>1, <1>2, <1>3, ImprovementIsEarned
  <2>2. winner.artifact = c[2] /\ winner.commit_block = scores[c].commit_block
    BY DEF as_winner
  <2>. HIDE DEF winner
  <2>. QED
    BY <1>3, <2>1, <2>2 DEF Entry
<1>5. winner_history \in Seq(Entry)
  BY DEF IInv, TypeOK
<1>6. winner_history' = compact_history(longer, eligible)
  BY <1>1 DEF promote_winner
<1>. HIDE DEF winner, crowned
<1>7. /\ longer \in Seq(Entry) /\ longer # <<>> /\ longer[1] = crowned
      /\ \A i \in DOMAIN longer : i \in Nat
      /\ \A i \in DOMAIN longer :
            i # 1 => i - 1 \in DOMAIN winner_history /\ longer[i] = winner_history[i - 1]
  BY <1>4, <1>5
<1>8. crowned.hotkey \in eligible
  BY <1>3, <1>4
<1>. HIDE DEF longer, eligible
<1>9. winner_history' # <<>> /\ winner_history'[1] = crowned
  BY <1>6, <1>7, <1>8, CompactHead
<1>10. /\ winner_history' \in Seq(Entry)
       /\ \A n \in DOMAIN winner_history' :
             \E i \in DOMAIN longer : winner_history'[n] = longer[i]
       /\ \A n, k \in DOMAIN winner_history' :
             winner_history'[n].hotkey = winner_history'[k].hotkey => n = k
  BY <1>6, <1>7, CompactHistory
<1>11. 1 \in DOMAIN winner_history' /\ \A n \in DOMAIN winner_history' : n \in Nat /\ n >= 1
  BY <1>9, <1>10
<1>12. \A n \in DOMAIN winner_history' : n # 1 => winner_history'[n] # crowned
  BY <1>9, <1>10, <1>11
<1>13. ASSUME NEW i \in DOMAIN winner_history', i # 1
       PROVE  \E j \in DOMAIN winner_history : winner_history'[i] = winner_history[j]
  <2>1. PICK m \in DOMAIN longer : winner_history'[i] = longer[m]
    BY <1>10
  <2>2. m # 1
    BY <1>7, <1>12, <1>13, <2>1
  <2>. QED
    BY <1>7, <2>1, <2>2
<1>14. ASSUME NEW i \in DOMAIN winner_history', NEW j \in DOMAIN winner_history',
              i # 1, i < j
       PROVE  \E m, n \in DOMAIN winner_history :
                  /\ m < n
                  /\ winner_history'[i] = winner_history[m]
                  /\ winner_history'[j] = winner_history[n]
  <2>1. PICK m \in DOMAIN longer, n \in DOMAIN longer :
            m < n /\ winner_history'[i] = longer[m] /\ winner_history'[j] = longer[n]
    BY <1>6, <1>7, <1>14, CompactOrder
  <2>2. i # 1 /\ j # 1
    BY <1>11, <1>14
  <2>3. m # 1 /\ n # 1
    BY <1>7, <1>12, <2>1, <2>2
  <2>4. m - 1 < n - 1
    BY <1>7, <2>1
  <2>. QED
    BY <1>7, <2>1, <2>3, <2>4
<1>15. EntryKey(crowned) = c
  BY <1>4, KeyParts DEF EntryKey
<1>. QED
  BY <1>4, <1>9, <1>11, <1>13, <1>14, <1>15

-----------------------------------------------------------------------------
(* While the scoring version stays.                                        *)

\* No release changes what a ratio means.
OneVersion == MaxVersion = 1

Scored(history, scored) == \A i \in DOMAIN history : scored[EntryKey(history[i])] # None

\* The state of a score only ever goes from none to some; who is on a ladder has one,
\* and who is challenging had none on file.
NothingDropped ==
    /\ \A k \in Key : disk.scores[k] # None => disk.scores[k].version = 1
    /\ \A k \in Key : scores[k] # None => scores[k].version = 1
    /\ \A k \in Key : disk.scores[k] # None => scores[k] # None
    /\ Scored(disk.winner_history, disk.scores)
    /\ Scored(winner_history, scores)
    /\ \A k \in challengers : disk.scores[k] = None
    /\ pending \subseteq challengers
    /\ phase # "gauntlet" => pending = {}
    /\ phase = "idle" => /\ commitments = disk.commitments /\ scores = disk.scores
                         /\ winner_history = disk.winner_history
                         /\ excluded_hotkeys = disk.excluded_hotkeys

LEMMA LadderKeys ==
    ASSUME NEW history \in Seq(Entry), NEW i \in DOMAIN history
    PROVE  history[i] \in Entry /\ EntryKey(history[i]) \in Key
<1>1. history[i] \in Entry
  OBVIOUS
<1>. QED
  BY <1>1 DEF EntryKey, Entry, Key

\* Nothing is stale, so a load changes nothing.
LEMMA OneVersionLoads ==
    ASSUME OneVersion, TypeOK, NothingDropped
    PROVE  LoadedScores = disk.scores /\ LoadedExclusions = disk.excluded_hotkeys
<1>1. version = 1
  BY DEF OneVersion, TypeOK
<1>2. StaleKeys = {}
  BY <1>1 DEF StaleKeys, score_is_comparable, NothingDropped
<1>3. disk.scores \in [Key -> Score \cup {None}]
  BY DEF TypeOK, State
<1>. QED
  BY <1>2, <1>3 DEF LoadedScores, LoadedExclusions

LEMMA StartRoundLeavesIdle == StartRound => phase' \in {"selected", "done"}
BY DEF StartRound

LEMMA DroppedStartRound ==
    ASSUME OneVersion PROVE IInv /\ NothingDropped /\ StartRound => NothingDropped'
<1>. SUFFICES ASSUME IInv, NothingDropped, StartRound PROVE NothingDropped'
  OBVIOUS
<1>. DEFINE known == commitments'
            excluded == excluded_hotkeys'
            ladder == winner_history'
<1>1. /\ scores' = LoadedScores
      /\ ladder = LadderBeforeRound(known, excluded)
      /\ challengers' = Challenging(known, excluded)
      /\ UNCHANGED <<disk, pending>>
      /\ phase' # "gauntlet" /\ phase = "idle"
  <2>1. phase = "idle"
    BY DEF StartRound
  <2>. QED
    BY <2>1, StartRoundEffect
<1>2. scores' = disk.scores
  BY <1>1, OneVersionLoads DEF IInv
<1>3. Scored(winner_history', scores')
  <2>. SUFFICES ASSUME NEW n \in DOMAIN ladder PROVE scores'[EntryKey(ladder[n])] # None
    BY DEF Scored
  <2>. HIDE DEF known, excluded, ladder
  <2>1. CASE ladder = compact_history(disk.winner_history, retained_hotkeys(known, excluded))
    <3>1. \E i \in DOMAIN disk.winner_history : ladder[n] = disk.winner_history[i]
      BY <2>1, CompactHistory DEF IInv, WellBuilt
    <3>. QED
      BY <3>1, <1>2 DEF NothingDropped, Scored
  <2>2. CASE ladder # <<>> => \E best \in Recoverable(known, LoadedScores, excluded) :
                 DOMAIN ladder = {1} /\ ladder[1] = as_winner(best, LoadedScores[best])
    <3>1. CASE ladder = <<>>
      <4>1. DOMAIN <<>> = {}
        OBVIOUS
      <4>. QED
        BY <3>1, <4>1
    <3>2. CASE ladder # <<>>
      <4>1. PICK best \in Recoverable(known, LoadedScores, excluded) :
                 DOMAIN ladder = {1} /\ ladder[1] = as_winner(best, LoadedScores[best])
        BY <2>2, <3>2
      <4>2. best \in Key /\ LoadedScores[best] # None
        BY DEF Recoverable
      <4>. QED
        BY <4>1, <4>2, <1>1, WinnerKey
    <3>. QED
      BY <3>1, <3>2
  <2>. QED
    BY <1>1, <2>1, <2>2, LadderBeforeRoundFrom DEF ladder, known, excluded
<1>4. \A k \in challengers' : disk'.scores[k] = None
  BY <1>1, <1>2 DEF Challenging
<1>5. pending' = {}
  BY <1>1 DEF NothingDropped
<1>. QED
  BY <1>1, <1>2, <1>3, <1>4, <1>5, StartRoundLeavesIdle DEF NothingDropped

LEMMA DroppedEvaluate ==
    ASSUME OneVersion PROVE IInv /\ NothingDropped /\ Evaluate => NothingDropped'
<1>. SUFFICES ASSUME IInv, NothingDropped, Evaluate PROVE NothingDropped'
  OBVIOUS
<1>1. PICK outcome \in [Evaluated -> Ratio \cup {None}] :
          /\ phase = "selected" /\ phase' = "gauntlet"
          /\ \A k \in LookedUp(outcome) : ScoredWith(outcome)[k] # None
          /\ scores' = ScoredWith(outcome)
          /\ winner_history' = RefreshedHistory(outcome)
          /\ pending' = {k \in challengers : outcome[k[1]] # None}
          /\ UNCHANGED <<disk, challengers>>
  BY EvaluateEffect
<1>2. version = 1
  BY DEF IInv, TypeOK, OneVersion
<1>3. ASSUME NEW k \in Key
      PROVE  /\ scores[k] # None => scores'[k] # None
             /\ scores'[k] # None => scores'[k].version = 1
  BY <1>1, <1>2, ScoredWithEffect DEF NothingDropped
<1>4. Scored(winner_history', scores')
  <2>1. \A i \in DOMAIN winner_history : scores'[EntryKey(winner_history[i])] # None
    <3>1. \A i \in DOMAIN winner_history : EntryKey(winner_history[i]) \in Key
      BY LadderKeys DEF IInv, TypeOK
    <3>. QED
      BY <3>1, <1>3 DEF NothingDropped, Scored
  <2>2. \A i \in DOMAIN winner_history' :
            \E j \in DOMAIN winner_history :
                EntryKey(winner_history'[i]) = EntryKey(winner_history[j])
    BY <1>1, RefreshedFrom
  <2>. QED
    BY <2>1, <2>2 DEF Scored
<1>. QED
  BY <1>1, <1>3, <1>4 DEF NothingDropped

LEMMA DroppedPromote ==
    ASSUME NEW c \in Key PROVE IInv /\ NothingDropped /\ Promote(c) => NothingDropped'
<1>. SUFFICES ASSUME IInv, NothingDropped, Promote(c) PROVE NothingDropped'
  OBVIOUS
<1>1. /\ phase = "gauntlet" /\ c \in pending /\ pending' = pending \ {c}
      /\ UNCHANGED <<disk, scores, phase, challengers>>
  BY DEF Promote
<1>2. scores[c] # None
  BY <1>1, NoneIsNoRecord DEF IInv, PendingScored
<1>3. Scored(winner_history', scores')
  BY <1>1, <1>2, PromotedFrom DEF Scored, NothingDropped
<1>. QED
  BY <1>1, <1>3 DEF NothingDropped

LEMMA DroppedNext ==
    ASSUME OneVersion PROVE IInv /\ NothingDropped /\ [Next]_vars => NothingDropped'
<1>. SUFFICES ASSUME IInv, NothingDropped, [Next]_vars PROVE NothingDropped'
  OBVIOUS
<1>1. CASE StartRound
  BY <1>1, DroppedStartRound
<1>2. CASE Evaluate
  BY <1>2, DroppedEvaluate
<1>3. CASE EvaluateRaises
  BY <1>3 DEF EvaluateRaises, NothingDropped, memory, locals
<1>4. CASE Publish
  BY <1>4 DEF Publish, NothingDropped, memory, locals
<1>5. CASE Save
  BY <1>5 DEF Save, ForgetRound, NothingDropped, memory
<1>6. ASSUME NEW c \in Key, Promote(c)
      PROVE  NothingDropped'
  BY <1>6, DroppedPromote
<1>7. ASSUME NEW c \in Key, Reject(c)
      PROVE  NothingDropped'
  BY <1>7 DEF Reject, NothingDropped
<1>8. CASE Abort \/ Release
  BY <1>8 DEF Abort, Release, DropMemory, ForgetRound, NothingDropped
<1>9. CASE Poll
  <2>1. disk \in State
    BY DEF IInv, TypeOK
  <2>2. /\ disk'.scores = disk.scores /\ scores' = disk.scores
        /\ disk'.winner_history = disk.winner_history
        /\ disk'.commitments = disk.commitments
        /\ disk'.excluded_hotkeys = disk.excluded_hotkeys
        /\ excluded_hotkeys' = disk.excluded_hotkeys
        /\ UNCHANGED <<commitments, winner_history, challengers, pending, phase>>
    BY <1>9, <2>1, OneVersionLoads DEF Poll, State, locals, IInv
  <2>3. phase = "idle"
    BY <1>9 DEF Poll
  <2>. QED
    BY <2>2, <2>3, <1>9 DEF NothingDropped
<1>10. CASE Tick
  BY <1>10 DEF Tick, NothingDropped, memory, locals
<1>11. ASSUME NEW h \in Hotkey, NEW a \in Artifact \cup {None}, Post(h, a)
       PROVE  NothingDropped'
  BY <1>11 DEF Post, NothingDropped, memory, locals
<1>12. CASE UNCHANGED vars
  BY <1>12 DEF vars, NothingDropped, memory, locals
<1>. QED
  BY <1>1, <1>2, <1>3, <1>4, <1>5, <1>6, <1>7, <1>8, <1>9, <1>10, <1>11, <1>12
     DEF Next, Round

\* A rung that is on file and in memory has one improvement.
SameImprovement ==
    \A i \in DOMAIN disk.winner_history, j \in DOMAIN winner_history :
        EntryKey(disk.winner_history[i]) = EntryKey(winner_history[j]) =>
            disk.winner_history[i].improvement = winner_history[j].improvement

\* In a well-built ladder a key stands on one rung.
LEMMA OneRung ==
    ASSUME NEW history, WellBuilt(history),
           NEW i \in DOMAIN history, NEW j \in DOMAIN history,
           EntryKey(history[i]) = EntryKey(history[j])
    PROVE  i = j
<1>1. history[i].hotkey = history[j].hotkey
  BY DEF EntryKey
<1>. QED
  BY <1>1 DEF WellBuilt

LEMMA ImprovementStartRound == IInv /\ StartRound => SameImprovement'
<1>. SUFFICES ASSUME IInv, StartRound,
                     NEW i \in DOMAIN disk.winner_history, NEW j \in DOMAIN winner_history',
                     EntryKey(disk.winner_history[i]) = EntryKey(winner_history'[j])
              PROVE  disk.winner_history[i].improvement = winner_history'[j].improvement
  <2>1. StartRound => disk' = disk
    BY DEF StartRound
  <2>. QED
    BY <2>1 DEF SameImprovement
<1>. DEFINE known == commitments'
            excluded == excluded_hotkeys'
            ladder == winner_history'
            kept == retained_hotkeys(known, excluded)
<1>1. ladder = LadderBeforeRound(known, excluded)
  BY StartRoundEffect
<1>2. disk.winner_history \in Seq(Entry) /\ WellBuilt(disk.winner_history)
  BY DEF IInv, WellBuilt
<1>. HIDE DEF known, excluded, ladder, kept
<1>3. CASE ladder = compact_history(disk.winner_history, kept)
  <2>1. PICK m \in DOMAIN disk.winner_history : ladder[j] = disk.winner_history[m]
    BY <1>2, <1>3, CompactHistory DEF ladder
  <2>2. i = m
    BY <1>2, <2>1, OneRung DEF ladder
  <2>. QED
    BY <2>1, <2>2 DEF ladder
<1>4. ASSUME \A m \in DOMAIN disk.winner_history : disk.winner_history[m].hotkey \notin kept,
             NEW best \in Recoverable(known, LoadedScores, excluded),
             DOMAIN ladder = {1}, ladder[1] = as_winner(best, LoadedScores[best])
      PROVE  FALSE
  <2>1. best \in Key /\ j = 1
    BY <1>4 DEF Recoverable, ladder
  <2>2. EntryKey(disk.winner_history[i]) = best
    BY <1>4, <2>1, WinnerKey DEF ladder
  <2>3. disk.winner_history[i].hotkey = best[1]
    BY <2>2 DEF EntryKey
  <2>4. best[1] \in kept
    BY <2>1, KeyParts DEF Recoverable, retained_hotkeys, kept
  <2>. QED
    BY <1>4, <2>3, <2>4
<1>5. CASE ladder = <<>>
  <2>1. DOMAIN <<>> = {}
    OBVIOUS
  <2>. QED
    BY <1>5, <2>1 DEF ladder
<1>. QED
  BY <1>1, <1>3, <1>4, <1>5, LadderBeforeRoundFrom DEF kept

LEMMA ImprovementEvaluate == IInv /\ SameImprovement /\ Evaluate => SameImprovement'
<1>. SUFFICES ASSUME IInv, SameImprovement, Evaluate PROVE SameImprovement'
  OBVIOUS
<1>1. PICK outcome \in [Evaluated -> Ratio \cup {None}] :
          /\ phase = "selected"
          /\ winner_history' = RefreshedHistory(outcome)
          /\ UNCHANGED disk
  BY EvaluateEffect
<1>2. \A j \in DOMAIN winner_history' :
          \E m \in DOMAIN winner_history :
              /\ EntryKey(winner_history'[j]) = EntryKey(winner_history[m])
              /\ winner_history'[j].improvement = winner_history[m].improvement
  BY <1>1, RefreshedFrom
<1>. QED
  BY <1>1, <1>2 DEF SameImprovement

LEMMA ImprovementPromote ==
    ASSUME NEW c \in Key
    PROVE  IInv /\ NothingDropped /\ SameImprovement /\ Promote(c) => SameImprovement'
<1>. SUFFICES ASSUME IInv, NothingDropped, SameImprovement, Promote(c)
              PROVE  SameImprovement'
  OBVIOUS
<1>1. c \in pending /\ UNCHANGED disk
  BY DEF Promote
<1>2. disk.scores[c] = None
  BY <1>1 DEF NothingDropped
<1>3. \A i \in DOMAIN disk.winner_history : EntryKey(disk.winner_history[i]) # c
  BY <1>2 DEF NothingDropped, Scored
<1>. QED
  BY <1>1, <1>3, PromotedFrom DEF SameImprovement

LEMMA ImprovementNext ==
    IInv /\ NothingDropped /\ SameImprovement /\ [Next]_vars => SameImprovement'
<1>. SUFFICES ASSUME IInv, NothingDropped, SameImprovement, [Next]_vars
              PROVE  SameImprovement'
  OBVIOUS
<1>1. CASE StartRound
  BY <1>1, ImprovementStartRound
<1>2. CASE Evaluate
  BY <1>2, ImprovementEvaluate
<1>3. CASE EvaluateRaises \/ Publish
  BY <1>3 DEF EvaluateRaises, Publish, SameImprovement, memory
<1>4. CASE Save \/ Abort \/ Release
  <2>1. disk'.winner_history = winner_history' /\ WellBuilt(winner_history')
    <3>1. CASE Save
      BY <3>1 DEF Save, memory, IInv
    <3>2. CASE Abort \/ Release
      BY <3>2 DEF Abort, Release, DropMemory, IInv
    <3>. QED
      BY <1>4, <3>1, <3>2
  <2>. QED
    BY <2>1, OneRung DEF SameImprovement
<1>5. ASSUME NEW c \in Key, Promote(c)
      PROVE  SameImprovement'
  BY <1>5, ImprovementPromote
<1>6. ASSUME NEW c \in Key, Reject(c)
      PROVE  SameImprovement'
  BY <1>6 DEF Reject, SameImprovement
<1>7. CASE Poll
  <2>1. disk'.winner_history = disk.winner_history /\ UNCHANGED winner_history
    BY <1>7 DEF Poll, IInv, TypeOK, State
  <2>. QED
    BY <2>1 DEF SameImprovement
<1>8. CASE Tick
  BY <1>8 DEF Tick, SameImprovement, memory
<1>9. ASSUME NEW h \in Hotkey, NEW a \in Artifact \cup {None}, Post(h, a)
      PROVE  SameImprovement'
  BY <1>9 DEF Post, SameImprovement, memory
<1>10. CASE UNCHANGED vars
  BY <1>10 DEF vars, SameImprovement, memory
<1>. QED
  BY <1>1, <1>2, <1>3, <1>4, <1>5, <1>6, <1>7, <1>8, <1>9, <1>10 DEF Next, Round

-----------------------------------------------------------------------------
(* Who was crowned in this round.                                          *)

\* The entry was not on the ladder that is on file.
Newcomer(e) == disk.scores[EntryKey(e)] = None

CommittedBefore(e, f) == CommitBefore(e.commit_block, e.hotkey, f.commit_block, f.hotkey)

\* The winners of this round stand above the others, the later commit over the
\* earlier, each ahead by the margin; the last of them sets the bar, and whoever
\* waits committed after all of them.
NewcomersFirst ==
    /\ phase = "selected" => \A i \in DOMAIN winner_history : ~Newcomer(winner_history[i])
    /\ \A i, j \in DOMAIN winner_history :
          i < j /\ Newcomer(winner_history[i]) /\ Newcomer(winner_history[j]) =>
              /\ CommittedBefore(winner_history[j], winner_history[i])
              /\ should_promote(winner_history[i].ratio, winner_history[j].ratio)
    /\ phase = "gauntlet" => \A i \in DOMAIN winner_history : Newcomer(winner_history[i]) =>
          /\ Newcomer(winner_history[1])
          /\ winner_history[1].ratio \in Ratio /\ current_ratio = winner_history[1].ratio
          /\ \A d \in pending : CommitBefore(winner_history[i].commit_block,
                                             winner_history[i].hotkey,
                                             scores[d].commit_block, d[1])

\* Beating by the margin is transitive.
LEMMA MarginsAddUp ==
    ASSUME NEW a \in Ratio, NEW b \in Ratio, NEW c \in Ratio \cup {None},
           should_promote(a, b), should_promote(b, c)
    PROVE  should_promote(a, c)
<1>1. a \in Nat /\ b \in Nat /\ Unit \in Nat /\ Margin \in Nat /\ Margin <= Unit
  BY ReignAssumption, LadderAssumption
<1>2. a * Unit <= b * (Unit - Margin)
  <2>1. b # None
    BY <1>1, LadderAssumption
  <2>. QED
    BY <2>1 DEF should_promote
<1>3. CASE c # None
  <2>1. b * Unit <= c * (Unit - Margin)
    BY <1>3 DEF should_promote
  <2>2. b * (Unit - Margin) <= b * Unit
    <3>1. b * (Unit - Margin) = b * Unit - b * Margin
      BY <1>1
    <3>2. b * Unit \in Nat /\ b * Margin \in Nat
      BY <1>1
    <3>. QED
      BY <3>1, <3>2
  <2>3. c \in Nat
    BY <1>3, ReignAssumption
  <2>. DEFINE x == a * Unit
              y == b * (Unit - Margin)
              z == b * Unit
              w == c * (Unit - Margin)
  <2>4. x \in Int /\ y \in Int /\ z \in Int /\ w \in Int
    BY <1>1, <2>3
  <2>5. x <= y /\ y <= z /\ z <= w
    BY <1>2, <2>1, <2>2
  <2>. HIDE DEF x, y, z, w
  <2>6. x <= w
    BY <2>4, <2>5
  <2>. QED
    BY <2>6 DEF should_promote, x, w
<1>4. CASE c = None
  BY <1>4 DEF should_promote
<1>. QED
  BY <1>3, <1>4

LEMMA FreshStartRound ==
    ASSUME OneVersion
    PROVE  IInv /\ NothingDropped /\ NothingDropped' /\ StartRound => NewcomersFirst'
<1>. SUFFICES ASSUME IInv, NothingDropped, NothingDropped', StartRound PROVE NewcomersFirst'
  OBVIOUS
<1>1. scores' = LoadedScores /\ UNCHANGED disk
  BY StartRoundEffect
<1>2. scores' = disk'.scores
  BY <1>1, OneVersionLoads DEF IInv
<1>3. \A i \in DOMAIN winner_history' : disk'.scores[EntryKey(winner_history'[i])] # None
  BY <1>2 DEF NothingDropped, Scored
<1>. QED
  BY <1>3 DEF NewcomersFirst, Newcomer

LEMMA FreshEvaluate ==
    IInv /\ NothingDropped /\ NewcomersFirst /\ Evaluate => NewcomersFirst'
<1>. SUFFICES ASSUME IInv, NothingDropped, NewcomersFirst, Evaluate PROVE NewcomersFirst'
  OBVIOUS
<1>1. PICK outcome \in [Evaluated -> Ratio \cup {None}] :
          /\ phase = "selected"
          /\ winner_history' = RefreshedHistory(outcome)
          /\ UNCHANGED disk
  BY EvaluateEffect
<1>2. \A i \in DOMAIN winner_history' :
          \E m \in DOMAIN winner_history :
              EntryKey(winner_history'[i]) = EntryKey(winner_history[m])
  BY <1>1, RefreshedFrom
<1>3. \A i \in DOMAIN winner_history' : disk'.scores[EntryKey(winner_history'[i])] # None
  BY <1>1, <1>2 DEF NewcomersFirst, Newcomer
<1>. QED
  BY <1>3 DEF NewcomersFirst, Newcomer

LEMMA FreshPromote ==
    ASSUME NEW c \in Key
    PROVE  IInv /\ NothingDropped /\ NewcomersFirst /\ Promote(c) => NewcomersFirst'
<1>. SUFFICES ASSUME IInv, NothingDropped, NewcomersFirst, Promote(c) PROVE NewcomersFirst'
  OBVIOUS
<1>. DEFINE old == winner_history
            new == winner_history'
<1>1. /\ phase = "gauntlet" /\ c \in pending /\ IsNext(c)
      /\ should_promote(scores[c].ratio, current_ratio)
      /\ current_ratio' = scores[c].ratio /\ pending' = pending \ {c}
      /\ UNCHANGED <<disk, scores, phase>>
  BY DEF Promote
<1>2. /\ new # <<>> /\ 1 \in DOMAIN new
      /\ EntryKey(new[1]) = c /\ new[1].hotkey = c[1]
      /\ new[1].ratio = scores[c].ratio /\ new[1].commit_block = scores[c].commit_block
      /\ \A i \in DOMAIN new : i # 1 => \E j \in DOMAIN old : new[i] = old[j]
      /\ \A i, j \in DOMAIN new : i # 1 /\ i < j =>
            \E m, n \in DOMAIN old : m < n /\ new[i] = old[m] /\ new[j] = old[n]
  BY PromotedFrom
<1>3. Newcomer(new[1])
  BY <1>1, <1>2 DEF NothingDropped, Newcomer
<1>4. scores[c].ratio \in Ratio
  BY <1>1 DEF IInv, PendingScored
<1>5. old \in Seq(Entry) /\ DOMAIN old \subseteq Nat \ {0}
  BY DEF IInv, TypeOK
<1>6. ASSUME NEW m \in DOMAIN old, Newcomer(old[m])
      PROVE  /\ CommittedBefore(old[m], new[1])
             /\ should_promote(new[1].ratio, old[m].ratio)
             /\ \A d \in pending : CommitBefore(old[m].commit_block, old[m].hotkey,
                                                scores[d].commit_block, d[1])
  <2>1. /\ Newcomer(old[1]) /\ old[1].ratio \in Ratio /\ current_ratio = old[1].ratio
        /\ \A d \in pending : CommitBefore(old[m].commit_block, old[m].hotkey,
                                           scores[d].commit_block, d[1])
    BY <1>1, <1>6 DEF NewcomersFirst
  <2>2. CommittedBefore(old[m], new[1])
    BY <1>1, <1>2, <2>1 DEF CommittedBefore
  <2>3. should_promote(new[1].ratio, old[1].ratio)
    BY <1>1, <1>2, <2>1
  <2>4. CASE m = 1
    BY <2>1, <2>2, <2>3, <2>4
  <2>5. CASE m # 1
    <3>1. 1 \in DOMAIN old /\ 1 < m
      BY <1>5, <2>5
    <3>2. should_promote(old[1].ratio, old[m].ratio)
      BY <1>6, <2>1, <3>1 DEF NewcomersFirst
    <3>3. old[m].ratio \in Ratio \cup {None}
      BY <1>5, LadderKeys DEF Entry
    <3>4. should_promote(new[1].ratio, old[m].ratio)
      BY <1>2, <1>4, <2>1, <2>3, <3>2, <3>3, MarginsAddUp
    <3>. QED
      BY <2>1, <2>2, <3>4
  <2>. QED
    BY <2>4, <2>5
<1>7. new \in Seq(Entry) /\ DOMAIN new \subseteq Nat \ {0}
  <2>1. TypeOK'
    BY PromoteInv DEF IInv
  <2>. QED
    BY <2>1 DEF TypeOK
<1>. HIDE DEF old, new
<1>8. ASSUME NEW i \in DOMAIN new, NEW j \in DOMAIN new, i < j,
             Newcomer(new[i]), Newcomer(new[j])
      PROVE  CommittedBefore(new[j], new[i]) /\ should_promote(new[i].ratio, new[j].ratio)
  <2>1. j # 1
    BY <1>7, <1>8
  <2>2. CASE i = 1
    <3>1. PICK m \in DOMAIN old : new[j] = old[m]
      BY <1>2, <2>1
    <3>. QED
      BY <1>6, <1>8, <2>2, <3>1
  <2>3. CASE i # 1
    <3>1. PICK m \in DOMAIN old, n \in DOMAIN old :
              m < n /\ new[i] = old[m] /\ new[j] = old[n]
      BY <1>2, <1>8, <2>3
    <3>. QED
      BY <1>8, <3>1 DEF NewcomersFirst, old
  <2>. QED
    BY <2>2, <2>3
<1>9. ASSUME NEW i \in DOMAIN new, Newcomer(new[i]), NEW d \in pending \ {c}
      PROVE  CommitBefore(new[i].commit_block, new[i].hotkey, scores[d].commit_block, d[1])
  <2>1. CASE i = 1
    BY <1>1, <1>2, <2>1 DEF IsNext
  <2>2. CASE i # 1
    <3>1. PICK m \in DOMAIN old : new[i] = old[m]
      BY <1>2, <2>2
    <3>. QED
      BY <1>6, <1>9, <3>1
  <2>. QED
    BY <2>1, <2>2
<1>. QED
  BY <1>1, <1>2, <1>3, <1>4, <1>8, <1>9 DEF NewcomersFirst, Newcomer, new

LEMMA FreshNext ==
    ASSUME OneVersion
    PROVE  IInv /\ NothingDropped /\ NothingDropped' /\ NewcomersFirst /\ [Next]_vars => NewcomersFirst'
<1>. SUFFICES ASSUME IInv, NothingDropped, NothingDropped', NewcomersFirst, [Next]_vars
              PROVE  NewcomersFirst'
  OBVIOUS
<1>. USE DEF CommittedBefore
<1>1. CASE StartRound
  BY <1>1, FreshStartRound
<1>2. CASE Evaluate
  BY <1>2, FreshEvaluate
<1>3. CASE EvaluateRaises \/ Publish
  BY <1>3 DEF EvaluateRaises, Publish, NewcomersFirst, Newcomer, memory, locals
<1>4. CASE Save \/ Abort \/ Release \/ Poll
  <2>1. phase' = "idle"
    BY <1>4 DEF Save, Abort, Release, Poll, DropMemory, ForgetRound
  <2>2. \A i \in DOMAIN winner_history' : disk'.scores[EntryKey(winner_history'[i])] # None
    BY <2>1 DEF NothingDropped, Scored
  <2>. QED
    BY <2>1, <2>2 DEF NewcomersFirst, Newcomer
<1>5. ASSUME NEW c \in Key, Promote(c)
      PROVE  NewcomersFirst'
  BY <1>5, FreshPromote
<1>6. ASSUME NEW c \in Key, Reject(c)
      PROVE  NewcomersFirst'
  BY <1>6 DEF Reject, NewcomersFirst, Newcomer
<1>7. CASE Tick
  BY <1>7 DEF Tick, NewcomersFirst, Newcomer, memory, locals
<1>8. ASSUME NEW h \in Hotkey, NEW a \in Artifact \cup {None}, Post(h, a)
      PROVE  NewcomersFirst'
  BY <1>8 DEF Post, NewcomersFirst, Newcomer, memory, locals
<1>9. CASE UNCHANGED vars
  BY <1>9 DEF vars, NewcomersFirst, Newcomer, memory, locals
<1>. QED
  BY <1>1, <1>2, <1>3, <1>4, <1>5, <1>6, <1>7, <1>8, <1>9 DEF Next, Round

\* Nothing that is scored is forgotten while the scoring version stays, and the winners
\* of a round stand in the order in which they won.
LEMMA OneVersionInvariance ==
    ASSUME OneVersion
    PROVE  Spec => [](IInv /\ NothingDropped /\ SameImprovement /\ NewcomersFirst)
<1>1. Init => NothingDropped /\ SameImprovement /\ NewcomersFirst
  BY DEF Init, EmptyState, NothingDropped, Scored, SameImprovement, NewcomersFirst
<1>2. IInv /\ NothingDropped /\ [Next]_vars => NothingDropped'
  BY DroppedNext
<1>3. IInv /\ NothingDropped /\ SameImprovement /\ [Next]_vars => SameImprovement'
  BY ImprovementNext
<1>4. IInv /\ NothingDropped /\ NothingDropped' /\ NewcomersFirst /\ [Next]_vars => NewcomersFirst'
  BY FreshNext
<1>. QED
  BY <1>1, <1>2, <1>3, <1>4, Invariance, PTL DEF Spec

\* A poll writes back what it read.
LEMMA PollWritesNothing ==
    ASSUME OneVersion, IInv, NothingDropped, Poll
    PROVE  disk' = disk
<1>1. disk' = [disk EXCEPT !.scores = disk.scores,
                           !.excluded_hotkeys = disk.excluded_hotkeys]
  BY OneVersionLoads DEF Poll, IInv
<1>2. disk \in State
  BY DEF IInv, TypeOK
<1>. QED
  BY <1>1, <1>2 DEF State

\* The improvement a winner was crowned with, which sets what it is paid and what it
\* must lock, is never rewritten while its rung is on file: neither by a re-evaluation
\* (reign_worker/service.py:146) nor by compaction, recovery, a poll or a lost round,
\* for any number of commitments per hotkey, while the scoring version stays.
THEOREM ImprovementsStay ==
    ASSUME OneVersion PROVE Spec => ImprovementNeverErased
<1>. DEFINE Stays ==
        \A i \in DOMAIN disk.winner_history, j \in DOMAIN disk'.winner_history :
            EntryKey(disk.winner_history[i]) = EntryKey(disk'.winner_history[j]) =>
                disk.winner_history[i].improvement = disk'.winner_history[j].improvement
<1>1. IInv /\ NothingDropped /\ SameImprovement /\ [Next]_vars => [Stays]_disk
  <2>. SUFFICES ASSUME IInv, NothingDropped, SameImprovement, [Next]_vars, disk' # disk
                PROVE  Stays
    OBVIOUS
  <2>1. Save
    BY OnlySaveAndPollWrite, PollWritesNothing
  <2>2. disk'.winner_history = winner_history
    BY <2>1 DEF Save
  <2>. QED
    BY <2>2 DEF SameImprovement
<1>. QED
  BY <1>1, OneVersionInvariance, PTL DEF Spec, ImprovementNeverErased

\* Of the codecs crowned in one round the later commit stands over the earlier and beats
\* it by the whole margin, so nobody takes a round by a tweak of what was committed
\* before (run_round's gauntlet in commit order, reign_worker/service.py:176), while
\* the scoring version stays.
THEOREM EarlierCommitsAreSafe ==
    ASSUME OneVersion PROVE Spec => EarlierCommitProtected
<1>. DEFINE Protected ==
                LET Fresh(e) == /\ disk.scores[EntryKey(e)] = None
                                /\ disk'.scores[EntryKey(e)] # None
                IN  \A i, j \in DOMAIN disk'.winner_history :
                        LET later == disk'.winner_history[i]
                            earlier == disk'.winner_history[j]
                        IN  i < j /\ Fresh(later) /\ Fresh(earlier) =>
                                /\ CommitBefore(earlier.commit_block, earlier.hotkey,
                                                later.commit_block, later.hotkey)
                                /\ should_promote(later.ratio, earlier.ratio)
<1>1. IInv /\ NothingDropped /\ NewcomersFirst /\ [Next]_vars => [Protected]_disk
  <2>. SUFFICES ASSUME IInv, NothingDropped, NewcomersFirst, [Next]_vars, disk' # disk
                PROVE  Protected
    OBVIOUS
  <2>1. Save
    BY OnlySaveAndPollWrite, PollWritesNothing
  <2>2. disk'.winner_history = winner_history
    BY <2>1 DEF Save
  <2>. QED
    BY <2>2 DEF NewcomersFirst, Newcomer, CommittedBefore
<1>. QED
  BY <1>1, OneVersionInvariance, PTL DEF Spec, EarlierCommitProtected

-----------------------------------------------------------------------------
(* One version and one commitment per hotkey: who stands and who is out.   *)

\* Whoever stands is not out, is known to precheck, and stands by its last score.
Standing(history, known, scored, excluded) ==
    \A i \in DOMAIN history :
        /\ history[i].hotkey \notin excluded
        /\ known[EntryKey(history[i])] # None
        /\ history[i].ratio = scored[EntryKey(history[i])].ratio

\* The file and the memory keep winners and losers apart, and whoever still competes
\* is neither.
Apart ==
    /\ Standing(disk.winner_history, disk.commitments, disk.scores, disk.excluded_hotkeys)
    /\ Standing(winner_history, commitments, scores, excluded_hotkeys)
    /\ \A k \in challengers : HasStatus(k, "valid")
    /\ phase = "selected" => \A k \in challengers : k[1] \notin excluded_hotkeys
    /\ phase = "gauntlet" => \A k \in pending :
          /\ k[1] \notin excluded_hotkeys
          /\ \A i \in DOMAIN winner_history : EntryKey(winner_history[i]) # k

\* Precheck forgets nobody.
LEMMA PrecheckedKnows ==
    ASSUME TypeOK, NEW verdict \in PossibleVerdicts, NEW seen \in PossibleBlocks,
           NEW k \in Key, disk.commitments[k] # None
    PROVE  Prechecked(verdict, seen)[k] # None
<1>1. CASE k \notin Checked
  BY <1>1 DEF Prechecked
<1>2. CASE k \in Checked
  <2>1. verdict[k] \in Verdict /\ seen[k] \in Nat
    BY <1>2 DEF PossibleVerdicts, PossibleBlocks, TypeOK
  <2>2. (IF verdict[k] = "gone" THEN "invalid" ELSE verdict[k]) \in Status
    BY <2>1 DEF Verdict, Status
  <2>3. Prechecked(verdict, seen)[k] \in Commitment
    BY <1>2, <2>1, <2>2 DEF Prechecked, Commitment
  <2>. QED
    BY <2>3, NoneIsNoRecord
<1>. QED
  BY <1>1, <1>2

LEMMA ApartStartRound ==
    ASSUME OneVersion
    PROVE  IInv /\ NothingDropped /\ Apart /\ StartRound => Apart'
<1>. SUFFICES ASSUME IInv, NothingDropped, Apart, StartRound PROVE Apart'
  OBVIOUS
<1>. DEFINE known == commitments'
            excluded == excluded_hotkeys'
            ladder == winner_history'
            kept == retained_hotkeys(known, excluded)
<1>1. PICK verdict \in PossibleVerdicts, seen \in PossibleBlocks :
          /\ known = Prechecked(verdict, seen)
          /\ scores' = LoadedScores
          /\ ladder = LadderBeforeRound(known, excluded)
          /\ challengers' = Challenging(known, excluded)
          /\ UNCHANGED <<disk, pending>>
  BY StartRoundEffect
<1>2. LoadedScores = disk.scores
  BY OneVersionLoads DEF IInv
<1>3. phase' # "gauntlet"
  BY StartRoundLeavesIdle
<1>4. disk.winner_history \in Seq(Entry)
  BY DEF IInv, WellBuilt
<1>5. \A k \in Key : disk.commitments[k] # None => known[k] # None
  BY <1>1, PrecheckedKnows DEF IInv
<1>. HIDE DEF known, excluded, ladder, kept
<1>6. Standing(ladder, known, scores', excluded)
  <2>1. CASE ladder = compact_history(disk.winner_history, kept)
    <3>. SUFFICES ASSUME NEW n \in DOMAIN ladder
                  PROVE  /\ ladder[n].hotkey \notin excluded
                         /\ known[EntryKey(ladder[n])] # None
                         /\ ladder[n].ratio = scores'[EntryKey(ladder[n])].ratio
      BY DEF Standing
    <3>1. ladder[n].hotkey \in kept
          /\ \E i \in DOMAIN disk.winner_history : ladder[n] = disk.winner_history[i]
      BY <1>4, <2>1, CompactHistory
    <3>2. PICK i \in DOMAIN disk.winner_history : ladder[n] = disk.winner_history[i]
      BY <3>1
    <3>3. EntryKey(ladder[n]) \in Key
      BY <1>4, <3>2, LadderKeys
    <3>. QED
      BY <1>1, <1>2, <1>5, <3>1, <3>2, <3>3 DEF kept, retained_hotkeys, Apart, Standing
  <2>2. ASSUME NEW best \in Recoverable(known, LoadedScores, excluded),
               DOMAIN ladder = {1}, ladder[1] = as_winner(best, LoadedScores[best])
        PROVE  Standing(ladder, known, scores', excluded)
    <3>1. /\ best \in Key /\ known[best] # None /\ best[1] \notin excluded
      BY DEF Recoverable
    <3>2. EntryKey(ladder[1]) = best
      BY <2>2, <3>1, WinnerKey
    <3>3. ladder[1].hotkey = best[1] /\ ladder[1].ratio = LoadedScores[best].ratio
      BY <2>2 DEF as_winner
    <3>. QED
      BY <1>1, <2>2, <3>1, <3>2, <3>3 DEF Standing
  <2>3. CASE ladder = <<>>
    <3>1. DOMAIN <<>> = {}
      OBVIOUS
    <3>. QED
      BY <2>3, <3>1 DEF Standing
  <2>. QED
    BY <1>1, <2>1, <2>2, <2>3, LadderBeforeRoundFrom DEF kept
<1>7. \A k \in challengers' : known[k] # None /\ known[k].status = "valid"
                              /\ k[1] \notin excluded
  BY <1>1 DEF Challenging
<1>. QED
  BY <1>1, <1>3, <1>6, <1>7 DEF Apart, HasStatus, known, excluded, ladder

\* Who is on the ladder at the evaluation is not among the challengers.
LEMMA LadderDoesNotChallenge ==
    ASSUME OneCommitment, IInv, NothingDropped, phase = "selected",
           NEW i \in DOMAIN winner_history, NEW k \in challengers
    PROVE  winner_history[i].hotkey # k[1]
<1>1. k \in Key /\ scores[k] = None
  BY DEF IInv, TypeOK, ChallengersFresh
<1>2. EntryKey(winner_history[i]) \in Key /\ scores[EntryKey(winner_history[i])] # None
  BY LadderKeys DEF IInv, TypeOK, NothingDropped, Scored
<1>3. EntryKey(winner_history[i])[1] = winner_history[i].hotkey
  BY DEF EntryKey
<1>. QED
  BY <1>1, <1>2, <1>3, OneKey

LEMMA ApartEvaluate ==
    ASSUME OneCommitment
    PROVE  IInv /\ NothingDropped /\ Apart /\ Evaluate => Apart'
<1>. SUFFICES ASSUME IInv, NothingDropped, Apart, Evaluate PROVE Apart'
  OBVIOUS
<1>. DEFINE old == winner_history
            new == winner_history'
<1>1. PICK outcome \in [Evaluated -> Ratio \cup {None}] :
          /\ phase = "selected" /\ phase' = "gauntlet"
          /\ scores' = ScoredWith(outcome)
          /\ new = RefreshedHistory(outcome)
          /\ excluded_hotkeys' = excluded_hotkeys \cup
                {k[1] : k \in {c \in challengers : outcome[c[1]] = None}}
          /\ pending' = {k \in challengers : outcome[k[1]] # None}
          /\ UNCHANGED <<disk, commitments, challengers>>
  BY EvaluateEffect
<1>2. ASSUME NEW i \in DOMAIN old
      PROVE  /\ EntryKey(old[i]) \in Key /\ EntryKey(old[i])[1] = old[i].hotkey
             /\ old[i].hotkey \notin excluded_hotkeys'
             /\ commitments[EntryKey(old[i])] # None
             /\ ~(i = 1 /\ IncumbentEvaluated) =>
                   old[i].ratio = scores'[EntryKey(old[i])].ratio
  <2>1. EntryKey(old[i]) \in Key /\ EntryKey(old[i])[1] = old[i].hotkey
    BY LadderKeys DEF IInv, TypeOK, EntryKey
  <2>2. \A k \in challengers : old[i].hotkey # k[1]
    BY <1>1, LadderDoesNotChallenge
  <2>3. /\ old[i].hotkey \notin excluded_hotkeys /\ commitments[EntryKey(old[i])] # None
        /\ old[i].ratio = scores[EntryKey(old[i])].ratio
    BY DEF Apart, Standing
  <2>4. ASSUME ~(i = 1 /\ IncumbentEvaluated)
        PROVE  old[i].ratio = scores'[EntryKey(old[i])].ratio
    <3>1. IncumbentEvaluated => old[i].hotkey # old[1].hotkey
      <4>1. IncumbentEvaluated => 1 \in DOMAIN old
        BY DEF IncumbentEvaluated, IInv, TypeOK
      <4>. QED
        BY <2>4, <4>1 DEF IInv, WellBuilt
    <3>2. old[i].hotkey \notin Evaluated
      BY <2>2, <3>1 DEF Evaluated
    <3>3. ScoredWith(outcome)[EntryKey(old[i])] = scores[EntryKey(old[i])]
      BY <1>1, <2>1, <3>2, ScoredWithEffect
    <3>. QED
      BY <1>1, <2>3, <3>3
  <2>. QED
    BY <1>1, <2>1, <2>2, <2>3, <2>4
<1>3. \A i \in DOMAIN new :
          \E j \in DOMAIN old : EntryKey(new[i]) = EntryKey(old[j])
  BY <1>1, RefreshedFrom
<1>4. \A i \in DOMAIN new : new[i].ratio = scores'[EntryKey(new[i])].ratio
  <2>1. CASE ~IncumbentEvaluated /\ new = old
    BY <1>2, <2>1
  <2>2. CASE \A i \in DOMAIN new : i + 1 \in DOMAIN old /\ i + 1 # 1 /\ new[i] = old[i + 1]
    BY <1>2, <2>2
  <2>3. CASE /\ DOMAIN new = DOMAIN old
             /\ EntryKey(new[1]) = EntryKey(old[1])
             /\ new[1].ratio = ScoredWith(outcome)[EntryKey(old[1])].ratio
             /\ \A i \in DOMAIN old : i # 1 => new[i] = old[i]
    BY <1>1, <1>2, <2>3
  <2>. QED
    BY <1>1, <2>1, <2>2, <2>3, RefreshedFrom
<1>5. \A i \in DOMAIN new :
          /\ new[i].hotkey \notin excluded_hotkeys'
          /\ commitments'[EntryKey(new[i])] # None
  <2>. SUFFICES ASSUME NEW i \in DOMAIN new
                PROVE  /\ new[i].hotkey \notin excluded_hotkeys'
                       /\ commitments'[EntryKey(new[i])] # None
    OBVIOUS
  <2>1. PICK j \in DOMAIN old : EntryKey(new[i]) = EntryKey(old[j])
    BY <1>3
  <2>2. new[i].hotkey = old[j].hotkey
    BY <2>1 DEF EntryKey
  <2>. QED
    BY <1>1, <1>2, <2>1, <2>2
<1>6. ASSUME NEW k \in pending'
      PROVE  /\ k[1] \notin excluded_hotkeys'
             /\ \A i \in DOMAIN new : EntryKey(new[i]) # k
  <2>1. k \in challengers /\ outcome[k[1]] # None
    BY <1>1
  <2>2. k[1] \notin excluded_hotkeys'
    BY <1>1, <2>1 DEF Apart
  <2>3. \A i \in DOMAIN old : EntryKey(old[i]) # k
    BY <1>1, <1>2, <2>1, LadderDoesNotChallenge
  <2>. QED
    BY <1>3, <2>2, <2>3
<1>7. Standing(new, commitments', scores', excluded_hotkeys')
  BY <1>4, <1>5 DEF Standing
<1>. HIDE DEF new, old
<1>. QED
  BY <1>1, <1>6, <1>7 DEF Apart, HasStatus, new

LEMMA ApartPromote ==
    ASSUME NEW c \in Key
    PROVE  IInv /\ NothingDropped /\ Apart /\ Promote(c) => Apart'
<1>. SUFFICES ASSUME IInv, NothingDropped, Apart, Promote(c) PROVE Apart'
  OBVIOUS
<1>1. /\ phase = "gauntlet" /\ c \in pending /\ pending' = pending \ {c}
      /\ UNCHANGED <<disk, commitments, scores, excluded_hotkeys, phase, challengers>>
  BY DEF Promote
<1>2. c[1] \notin excluded_hotkeys /\ commitments[c] # None
  BY <1>1 DEF Apart, NothingDropped, HasStatus
<1>3. ASSUME NEW i \in DOMAIN winner_history'
      PROVE  /\ winner_history'[i].hotkey \notin excluded_hotkeys
             /\ commitments[EntryKey(winner_history'[i])] # None
             /\ winner_history'[i].ratio = scores[EntryKey(winner_history'[i])].ratio
             /\ \A k \in pending \ {c} : EntryKey(winner_history'[i]) # k
  <2>1. CASE i = 1
    BY <1>2, <2>1, PromotedFrom
  <2>2. CASE i # 1
    <3>1. PICK j \in DOMAIN winner_history : winner_history'[i] = winner_history[j]
      BY <2>2, PromotedFrom
    <3>. QED
      BY <1>1, <3>1 DEF Apart, Standing
  <2>. QED
    BY <2>1, <2>2
<1>. QED
  BY <1>1, <1>3 DEF Apart, Standing, HasStatus

LEMMA ApartReject ==
    ASSUME OneCommitment, NEW c \in Key
    PROVE  IInv /\ NothingDropped /\ Apart /\ Reject(c) => Apart'
<1>. SUFFICES ASSUME IInv, NothingDropped, Apart, Reject(c) PROVE Apart'
  OBVIOUS
<1>1. /\ phase = "gauntlet" /\ c \in pending /\ pending' = pending \ {c}
      /\ excluded_hotkeys' = excluded_hotkeys \cup {c[1]}
      /\ UNCHANGED <<disk, commitments, scores, winner_history, phase, challengers>>
  BY DEF Reject
<1>2. \A i \in DOMAIN winner_history : winner_history[i].hotkey # c[1]
  <2>. SUFFICES ASSUME NEW i \in DOMAIN winner_history
                PROVE  winner_history[i].hotkey # c[1]
    OBVIOUS
  <2>1. EntryKey(winner_history[i]) \in Key
        /\ EntryKey(winner_history[i])[1] = winner_history[i].hotkey
    BY LadderKeys DEF IInv, TypeOK, EntryKey
  <2>2. EntryKey(winner_history[i]) # c
    BY <1>1 DEF Apart
  <2>. QED
    BY <2>1, <2>2, OneKey
<1>3. \A k \in pending \ {c} : k[1] # c[1]
  <2>1. pending \subseteq Key
    BY DEF IInv, TypeOK
  <2>. QED
    BY <2>1, OneKey
<1>. QED
  BY <1>1, <1>2, <1>3 DEF Apart, Standing, HasStatus

LEMMA ApartNext ==
    ASSUME OneVersion, OneCommitment
    PROVE  IInv /\ NothingDropped /\ Apart /\ [Next]_vars => Apart'
<1>. SUFFICES ASSUME IInv, NothingDropped, Apart, [Next]_vars PROVE Apart'
  OBVIOUS
<1>. USE DEF HasStatus
<1>1. CASE StartRound
  BY <1>1, ApartStartRound
<1>2. CASE Evaluate
  BY <1>2, ApartEvaluate
<1>3. CASE EvaluateRaises \/ Publish
  BY <1>3 DEF EvaluateRaises, Publish, Apart, memory, locals
<1>4. CASE Save
  BY <1>4 DEF Save, ForgetRound, Apart, memory
<1>5. CASE Abort \/ Release
  BY <1>5 DEF Abort, Release, DropMemory, ForgetRound, Apart
<1>6. ASSUME NEW c \in Key, Promote(c)
      PROVE  Apart'
  BY <1>6, ApartPromote
<1>7. ASSUME NEW c \in Key, Reject(c)
      PROVE  Apart'
  BY <1>7, ApartReject
<1>8. CASE Poll
  <2>1. disk' = disk
    BY <1>8, PollWritesNothing
  <2>2. /\ phase = "idle" /\ scores' = disk.scores /\ excluded_hotkeys' = disk.excluded_hotkeys
        /\ UNCHANGED <<commitments, winner_history, phase, locals>>
    BY <1>8, OneVersionLoads DEF Poll, IInv
  <2>3. scores' = scores /\ excluded_hotkeys' = excluded_hotkeys
    BY <2>2 DEF NothingDropped
  <2>. QED
    BY <2>1, <2>2, <2>3 DEF Apart, locals
<1>9. CASE Tick
  BY <1>9 DEF Tick, Apart, memory, locals
<1>10. ASSUME NEW h \in Hotkey, NEW a \in Artifact \cup {None}, Post(h, a)
       PROVE  Apart'
  BY <1>10 DEF Post, Apart, memory, locals
<1>11. CASE UNCHANGED vars
  BY <1>11 DEF vars, Apart, memory, locals
<1>. QED
  BY <1>1, <1>2, <1>3, <1>4, <1>5, <1>6, <1>7, <1>8, <1>9, <1>10, <1>11 DEF Next, Round

LEMMA ApartInvariance ==
    ASSUME OneVersion, OneCommitment PROVE Spec => []Apart
<1>1. Init => Apart
  BY DEF Init, EmptyState, Apart, Standing
<1>2. IInv /\ NothingDropped /\ Apart /\ [Next]_vars => Apart'
  BY ApartNext
<1>. QED
  BY <1>1, <1>2, OneVersionInvariance, PTL DEF Spec

\* One shot: nobody on the saved ladder is among the losers, although precheck, a failed
\* evaluation, a lost challenge, promotion, compaction and recovery decide about it in
\* different places (core/weights.py:69, reign_worker/service.py:176), while the scoring
\* version stays and a hotkey commits once.
THEOREM WinnersAreNoLosers ==
    ASSUME OneVersion, OneCommitment PROVE Spec => []LadderNotExcluded
<1>1. Apart => LadderNotExcluded
  BY DEF Apart, Standing, LadderNotExcluded
<1>. QED
  BY <1>1, ApartInvariance, PTL

-----------------------------------------------------------------------------
(* Releases: which ratio an entry of the ladder has.                       *)

\* The bumps from one version to another are all listed as compatible.
Listed(old, new) == (old + 1)..new \subseteq DOMAIN StartBlock

OneFamily(scored) ==
    \A k, l \in Key : scored[k] # None /\ scored[l] # None =>
        Listed(scored[k].version, scored[l].version)

Newest(k, scored) ==
    scored[k] # None
    /\ \A l \in Key : scored[l] # None => scored[l].version <= scored[k].version

\* The ratio of the entry is that of its key's score, unless a release dropped it.
StandsBy(e, scored) == scored[EntryKey(e)] # None => e.ratio = scored[EntryKey(e)].ratio

\* A codec on the ladder whose score was dropped is judged again as a challenger, and
\* its entry keeps the ratio of before; it is out then, under a score that any
\* release that readmits it drops too.
FileRung(e) ==
    /\ disk.commitments[EntryKey(e)] # None
    /\ \/ StandsBy(e, disk.scores)
       \/ e.hotkey \in disk.excluded_hotkeys /\ Newest(EntryKey(e), disk.scores)

FileStands ==
    /\ OneFamily(disk.scores)
    /\ \A i \in DOMAIN disk.winner_history : FileRung(disk.winner_history[i])

\* In this round the codec was judged again: it is out, or waits.
Rejudged(e) ==
    /\ phase # "selected"
    /\ scores[EntryKey(e)] # None /\ scores[EntryKey(e)].version = version
    /\ \/ e.hotkey \in excluded_hotkeys
       \/ phase = "gauntlet" /\ EntryKey(e) \in pending

RoundRung(e) == commitments[EntryKey(e)] # None /\ (StandsBy(e, scores) \/ Rejudged(e))

RoundStands ==
    phase \in {"selected", "gauntlet", "done"} =>
        /\ \A k \in Key : scores[k] # None =>
              scores[k].version <= version /\ Listed(scores[k].version, version)
        /\ phase = "gauntlet" => \A k \in pending : commitments[k] # None
        /\ \A i \in DOMAIN winner_history : RoundRung(winner_history[i])

LEMMA ScoreVersions ==
    ASSUME NEW scored \in [Key -> Score \cup {None}], NEW k \in Key, scored[k] # None
    PROVE  scored[k] \in Score /\ scored[k].version \in Nat
BY DEF Score

\* What a load keeps may be compared under the version that runs.
LEMMA LoadedIsListed ==
    ASSUME TypeOK, NEW k \in Key, LoadedScores[k] # None
    PROVE  /\ LoadedScores[k] = disk.scores[k]
           /\ LoadedScores[k].version <= version
           /\ Listed(LoadedScores[k].version, version)
<1>1. /\ LoadedScores[k] = disk.scores[k] /\ disk.scores[k] # None
      /\ score_is_comparable(disk.scores[k])
  BY DEF LoadedScores, StaleKeys
<1>2. disk.scores[k].version \in Nat /\ version \in Nat
  <2>1. disk.scores \in [Key -> Score \cup {None}] /\ version \in Nat
    BY ReignAssumption DEF TypeOK, State
  <2>. QED
    BY <1>1, <2>1, ScoreVersions
<1>3. CASE disk.scores[k].version = version
  BY <1>1, <1>2, <1>3 DEF Listed
<1>4. CASE CompatibleSince(disk.scores[k].version)
  BY <1>1, <1>2, <1>4 DEF CompatibleSince, Listed
<1>. QED
  BY <1>1, <1>3, <1>4 DEF score_is_comparable

\* A load that keeps the newest score of a file drops none that readmits anyone.
LEMMA OutStaysOut ==
    ASSUME TypeOK, OneFamily(disk.scores), NEW k \in Key, Newest(k, disk.scores),
           LoadedScores[k] # None
    PROVE  LoadedExclusions = disk.excluded_hotkeys
<1>. SUFFICES ASSUME NEW m \in StaleKeys PROVE CompatibleSince(disk.scores[m].version)
  BY DEF LoadedExclusions
<1>. DEFINE new == disk.scores[k].version
            old == disk.scores[m].version
<1>1. m \in Key /\ disk.scores[m] # None /\ disk.scores[k] # None /\ old # version
  BY DEF StaleKeys, score_is_comparable, Newest
<1>2. disk.scores \in [Key -> Score \cup {None}] /\ version \in Nat
  BY ReignAssumption DEF TypeOK, State
<1>3. new \in Nat /\ old \in Nat
  BY <1>1, <1>2, ScoreVersions
<1>4. old <= new /\ Listed(old, new)
  BY <1>1 DEF Newest, OneFamily
<1>5. new <= version /\ Listed(new, version)
  BY LoadedIsListed
<1>. HIDE DEF new, old
<1>6. old < version
  BY <1>1, <1>2, <1>3, <1>4, <1>5
<1>7. ASSUME NEW v \in (old + 1)..version PROVE v \in DOMAIN StartBlock
  <2>1. v \in (old + 1)..new \/ v \in (new + 1)..version
    BY <1>2, <1>3, <1>7
  <2>. QED
    BY <1>4, <1>5, <2>1 DEF Listed
<1>. QED
  BY <1>6, <1>7 DEF CompatibleSince, old

LEMMA StandsStartRound ==
    IInv /\ FileStands /\ StartRound => RoundStands'
<1>. SUFFICES ASSUME IInv, FileStands, StartRound PROVE RoundStands'
  OBVIOUS
<1>. DEFINE known == commitments'
            excluded == excluded_hotkeys'
            ladder == winner_history'
            kept == retained_hotkeys(known, excluded)
<1>1. PICK verdict \in PossibleVerdicts, seen \in PossibleBlocks :
          /\ known = Prechecked(verdict, seen)
          /\ scores' = LoadedScores
          /\ excluded = ExcludedBy(verdict)
          /\ ladder = LadderBeforeRound(known, excluded)
          /\ UNCHANGED <<version, disk>>
  BY StartRoundEffect
<1>2. phase' # "gauntlet"
  BY StartRoundLeavesIdle
<1>3. disk.winner_history \in Seq(Entry) /\ TypeOK
  BY DEF IInv, WellBuilt
<1>4. \A k \in Key : disk.commitments[k] # None => known[k] # None
  BY <1>1, <1>3, PrecheckedKnows
<1>5. LoadedExclusions \subseteq excluded
  BY <1>1 DEF ExcludedBy
<1>. HIDE DEF known, excluded, ladder, kept
<1>6. ASSUME NEW n \in DOMAIN ladder
      PROVE  known[EntryKey(ladder[n])] # None /\ StandsBy(ladder[n], scores')
  <2>1. CASE ladder = compact_history(disk.winner_history, kept)
    <3>1. ladder[n].hotkey \in kept
          /\ \E i \in DOMAIN disk.winner_history : ladder[n] = disk.winner_history[i]
      BY <1>3, <1>6, <2>1, CompactHistory
    <3>2. PICK i \in DOMAIN disk.winner_history : ladder[n] = disk.winner_history[i]
      BY <3>1
    <3>. DEFINE e == disk.winner_history[i]
                k == EntryKey(e)
    <3>3. k \in Key /\ FileRung(e)
      BY <1>3, LadderKeys DEF FileStands
    <3>4. e.hotkey \notin excluded
      BY <3>1, <3>2 DEF kept, retained_hotkeys
    <3>5. ASSUME LoadedScores[k] # None PROVE e.ratio = LoadedScores[k].ratio
      <4>1. LoadedScores[k] = disk.scores[k] /\ disk.scores[k] # None
        BY <1>3, <3>3, <3>5, LoadedIsListed
      <4>2. ~(e.hotkey \in disk.excluded_hotkeys /\ Newest(k, disk.scores))
        BY <1>3, <1>5, <3>3, <3>4, <3>5, OutStaysOut DEF FileStands
      <4>. QED
        BY <3>3, <4>1, <4>2 DEF FileRung, StandsBy
    <3>. QED
      BY <1>1, <1>4, <3>2, <3>3, <3>5 DEF FileRung, StandsBy
  <2>2. ASSUME NEW best \in Recoverable(known, LoadedScores, excluded),
               DOMAIN ladder = {1}, ladder[1] = as_winner(best, LoadedScores[best])
        PROVE  known[EntryKey(ladder[n])] # None /\ StandsBy(ladder[n], scores')
    <3>1. best \in Key /\ known[best] # None
      BY DEF Recoverable
    <3>2. n = 1 /\ EntryKey(ladder[1]) = best
      BY <1>6, <2>2, <3>1, WinnerKey
    <3>3. ladder[1].ratio = LoadedScores[best].ratio
      BY <2>2 DEF as_winner
    <3>. QED
      BY <1>1, <3>1, <3>2, <3>3 DEF StandsBy
  <2>3. ladder # <<>>
    BY <1>6
  <2>. QED
    BY <1>1, <2>1, <2>2, <2>3, LadderBeforeRoundFrom DEF kept
<1>7. \A k \in Key : scores'[k] # None =>
          scores'[k].version <= version' /\ Listed(scores'[k].version, version')
  BY <1>1, <1>3, LoadedIsListed
<1>. QED
  BY <1>2, <1>6, <1>7 DEF RoundStands, RoundRung, known, ladder

LEMMA StandsEvaluate ==
    ASSUME OneCommitment
    PROVE  IInv /\ RoundStands /\ Evaluate => RoundStands'
<1>. SUFFICES ASSUME IInv, RoundStands, Evaluate PROVE RoundStands'
  OBVIOUS
<1>. DEFINE old == winner_history
            new == winner_history'
<1>1. PICK outcome \in [Evaluated -> Ratio \cup {None}] :
          /\ phase = "selected" /\ phase' = "gauntlet"
          /\ scores' = ScoredWith(outcome)
          /\ new = RefreshedHistory(outcome)
          /\ excluded_hotkeys' = excluded_hotkeys \cup
                {k[1] : k \in {c \in challengers : outcome[c[1]] = None}}
          /\ pending' = {k \in challengers : outcome[k[1]] # None}
          /\ UNCHANGED <<version, commitments, challengers>>
  BY EvaluateEffect
<1>2. \A k \in challengers : k \in Key /\ commitments[k] # None
  BY <1>1 DEF IInv, TypeOK, ChallengersFresh, HasStatus
<1>3. \A k \in Key : scores'[k] # None =>
          scores'[k].version <= version' /\ Listed(scores'[k].version, version')
  <2>1. version \in Nat /\ Listed(version, version)
    BY ReignAssumption DEF IInv, TypeOK, Listed
  <2>. QED
    BY <1>1, <2>1, ScoredWithEffect DEF RoundStands
<1>4. ASSUME NEW e, NEW i \in DOMAIN old, e = old[i], ~(i = 1 /\ IncumbentEvaluated)
      PROVE  RoundRung(e)'
  <2>. DEFINE k == EntryKey(e)
  <2>1. k \in Key /\ k[1] = e.hotkey
    BY <1>4, LadderKeys DEF IInv, TypeOK, EntryKey
  <2>2. commitments[k] # None /\ StandsBy(e, scores)
    BY <1>1, <1>4 DEF RoundStands, RoundRung, Rejudged
  <2>3. CASE \E c \in challengers : c[1] = k[1]
    <3>1. k \in challengers
      BY <1>2, <2>1, <2>3, OneKey
    <3>2. k[1] \in Evaluated
      BY <3>1 DEF Evaluated
    <3>3. scores'[k] # None /\ scores'[k].version = version'
      BY <1>1, <2>1, <3>2, FirstValidIsTheOne, ScoredWithEffect
    <3>4. k[1] \in excluded_hotkeys' \/ k \in pending'
      BY <1>1, <3>1
    <3>. QED
      BY <1>1, <2>1, <2>2, <3>3, <3>4 DEF RoundRung, Rejudged
  <2>4. CASE ~\E c \in challengers : c[1] = k[1]
    <3>1. IncumbentEvaluated => e.hotkey # old[1].hotkey
      <4>1. IncumbentEvaluated => 1 \in DOMAIN old
        BY DEF IncumbentEvaluated, IInv, TypeOK
      <4>. QED
        BY <1>4, <4>1 DEF IInv, WellBuilt
    <3>2. k[1] \notin Evaluated
      BY <2>1, <2>4, <3>1 DEF Evaluated
    <3>3. scores'[k] = scores[k]
      BY <1>1, <2>1, <3>2, ScoredWithEffect
    <3>. QED
      BY <1>1, <2>2, <3>3 DEF RoundRung, StandsBy
  <2>. QED
    BY <2>3, <2>4
<1>5. ASSUME NEW e, NEW i \in DOMAIN new, e = new[i] PROVE RoundRung(e)'
  <2>1. CASE ~IncumbentEvaluated /\ new = old
    BY <1>4, <1>5, <2>1
  <2>2. CASE \A j \in DOMAIN new : j + 1 \in DOMAIN old /\ j + 1 # 1 /\ new[j] = old[j + 1]
    BY <1>4, <1>5, <2>2
  <2>3. CASE /\ IncumbentEvaluated
             /\ DOMAIN new = DOMAIN old
             /\ EntryKey(new[1]) = EntryKey(old[1])
             /\ new[1].ratio = ScoredWith(outcome)[EntryKey(old[1])].ratio
             /\ \A j \in DOMAIN old : j # 1 => new[j] = old[j]
    <3>1. CASE i # 1
      BY <1>4, <1>5, <2>3, <3>1
    <3>2. CASE i = 1
      <4>1. commitments[EntryKey(new[1])] # None
        BY <2>3 DEF IncumbentEvaluated, HasStatus
      <4>2. e.ratio = scores'[EntryKey(e)].ratio /\ commitments'[EntryKey(e)] # None
        BY <1>1, <1>5, <2>3, <3>2, <4>1
      <4>. QED
        BY <4>2 DEF RoundRung, StandsBy
    <3>. QED
      BY <3>1, <3>2
  <2>. QED
    BY <1>1, <2>1, <2>2, <2>3, RefreshedFrom
<1>6. \A k \in pending' : commitments'[k] # None
  BY <1>1, <1>2
<1>. HIDE DEF new, old
<1>7. \A i \in DOMAIN new : RoundRung(winner_history[i])'
  BY <1>5 DEF RoundRung, StandsBy, Rejudged, new
<1>. QED
  BY <1>1, <1>3, <1>6, <1>7 DEF RoundStands, new

LEMMA StandsPromote ==
    ASSUME NEW c \in Key
    PROVE  IInv /\ RoundStands /\ Promote(c) => RoundStands'
<1>. SUFFICES ASSUME IInv, RoundStands, Promote(c) PROVE RoundStands'
  OBVIOUS
<1>. DEFINE new == winner_history'
<1>1. /\ phase = "gauntlet" /\ c \in pending /\ pending' = pending \ {c}
      /\ UNCHANGED <<version, commitments, scores, excluded_hotkeys, phase>>
  BY DEF Promote
<1>2. /\ 1 \in DOMAIN new /\ EntryKey(new[1]) = c
      /\ new[1].ratio = scores[c].ratio /\ new[1].hotkey = c[1]
      /\ \A i \in DOMAIN new : i # 1 =>
            \E j \in DOMAIN winner_history : new[i] = winner_history[j]
  BY PromotedFrom
<1>3. WellBuilt(new)
  BY PromoteInv DEF IInv
<1>4. ASSUME NEW e, e = new[1] PROVE RoundRung(e)'
  <2>1. EntryKey(e) = c /\ e.ratio = scores[c].ratio /\ commitments[c] # None
    BY <1>1, <1>2, <1>4 DEF RoundStands
  <2>. QED
    BY <1>1, <2>1 DEF RoundRung, StandsBy
<1>5. ASSUME NEW e, NEW i \in DOMAIN new, e = new[i], i # 1 PROVE RoundRung(e)'
  <2>1. PICK j \in DOMAIN winner_history : e = winner_history[j]
    BY <1>2, <1>5
  <2>2. RoundRung(e)
    BY <1>1, <2>1 DEF RoundStands
  <2>3. EntryKey(e) # c
    <3>1. e.hotkey # new[1].hotkey
      BY <1>2, <1>3, <1>5 DEF WellBuilt
    <3>. QED
      BY <1>2, <3>1 DEF EntryKey
  <2>. QED
    BY <1>1, <2>2, <2>3 DEF RoundRung, StandsBy, Rejudged
<1>6. \A i \in DOMAIN new : RoundRung(winner_history[i])'
  BY <1>4, <1>5 DEF RoundRung, StandsBy, Rejudged
<1>. HIDE DEF new
<1>. QED
  BY <1>1, <1>6 DEF RoundStands, new

LEMMA StandsReject ==
    ASSUME NEW c \in Key
    PROVE  IInv /\ RoundStands /\ Reject(c) => RoundStands'
<1>. SUFFICES ASSUME IInv, RoundStands, Reject(c) PROVE RoundStands'
  OBVIOUS
<1>1. /\ phase = "gauntlet" /\ pending' = pending \ {c}
      /\ excluded_hotkeys' = excluded_hotkeys \cup {c[1]}
      /\ UNCHANGED <<version, commitments, scores, winner_history, phase>>
  BY DEF Reject
<1>2. ASSUME NEW i \in DOMAIN winner_history PROVE RoundRung(winner_history[i])'
  <2>1. RoundRung(winner_history[i])
    BY <1>1 DEF RoundStands
  <2>2. EntryKey(winner_history[i]) = c => winner_history[i].hotkey = c[1]
    BY DEF EntryKey
  <2>. QED
    BY <1>1, <2>1, <2>2 DEF RoundRung, StandsBy, Rejudged
<1>. QED
  BY <1>1, <1>2 DEF RoundStands

\* A save writes what the round has come to.
LEMMA StandsSave ==
    IInv /\ RoundStands /\ Save => FileStands'
<1>. SUFFICES ASSUME IInv, RoundStands, Save PROVE FileStands'
  OBVIOUS
<1>1. /\ phase = "done"
      /\ disk'.commitments = commitments /\ disk'.scores = scores
      /\ disk'.winner_history = winner_history
      /\ disk'.excluded_hotkeys = excluded_hotkeys
  BY DEF Save
<1>2. scores \in [Key -> Score \cup {None}] /\ version \in Nat
  BY ReignAssumption DEF IInv, TypeOK
<1>3. \A k \in Key : scores[k] # None =>
          /\ scores[k].version \in Nat /\ scores[k].version <= version
          /\ Listed(scores[k].version, version)
  BY <1>1, <1>2, ScoreVersions DEF RoundStands
<1>4. OneFamily(scores)
  <2>. SUFFICES ASSUME NEW k \in Key, NEW l \in Key, scores[k] # None, scores[l] # None,
                       NEW v \in (scores[k].version + 1)..scores[l].version
                PROVE  v \in DOMAIN StartBlock
    BY DEF OneFamily, Listed
  <2>1. v \in (scores[k].version + 1)..version
    BY <1>2, <1>3
  <2>. QED
    BY <1>3, <2>1 DEF Listed
<1>5. ASSUME NEW e, NEW i \in DOMAIN winner_history, e = winner_history[i]
      PROVE  FileRung(e)'
  <2>1. RoundRung(e)
    BY <1>1, <1>5 DEF RoundStands
  <2>2. ASSUME Rejudged(e)
        PROVE  e.hotkey \in excluded_hotkeys /\ Newest(EntryKey(e), scores)
    BY <1>1, <1>3, <2>2 DEF Rejudged, Newest
  <2>. QED
    BY <1>1, <2>1, <2>2 DEF RoundRung, FileRung, StandsBy, Newest
<1>6. \A i \in DOMAIN winner_history : FileRung(disk.winner_history[i])'
  BY <1>1, <1>5 DEF FileRung, StandsBy, Newest
<1>. QED
  BY <1>1, <1>4, <1>6 DEF FileStands, OneFamily

\* A poll writes what a load leaves.
LEMMA StandsPoll ==
    IInv /\ FileStands /\ Poll => FileStands'
<1>. SUFFICES ASSUME IInv, FileStands, Poll PROVE FileStands'
  OBVIOUS
<1>1. TypeOK /\ disk \in State
  BY DEF IInv, TypeOK
<1>2. /\ disk'.commitments = disk.commitments /\ disk'.scores = LoadedScores
      /\ disk'.winner_history = disk.winner_history
      /\ disk'.excluded_hotkeys = LoadedExclusions
  BY <1>1 DEF Poll, State
<1>3. \A k \in Key : LoadedScores[k] # None => LoadedScores[k] = disk.scores[k]
  BY <1>1, LoadedIsListed
<1>4. OneFamily(LoadedScores)
  BY <1>3 DEF FileStands, OneFamily
<1>5. ASSUME NEW i \in DOMAIN disk.winner_history
      PROVE  FileRung(disk.winner_history[i])'
  <2>. DEFINE e == disk.winner_history[i]
              k == EntryKey(e)
  <2>1. k \in Key /\ FileRung(e)
    BY LadderKeys DEF FileStands, IInv, WellBuilt
  <2>. HIDE DEF k, e
  <2>2. CASE LoadedScores[k] = None
    BY <1>2, <2>1, <2>2 DEF FileRung, StandsBy, k, e
  <2>3. CASE LoadedScores[k] # None
    <3>1. LoadedScores[k] = disk.scores[k]
      BY <1>3, <2>1, <2>3
    <3>2. CASE StandsBy(e, disk.scores)
      BY <1>2, <2>1, <3>1, <3>2 DEF FileRung, StandsBy, k, e
    <3>3. CASE e.hotkey \in disk.excluded_hotkeys /\ Newest(k, disk.scores)
      <4>1. LoadedExclusions = disk.excluded_hotkeys
        BY <1>1, <2>1, <2>3, <3>3, OutStaysOut DEF FileStands
      <4>2. Newest(k, LoadedScores)
        BY <1>3, <2>1, <2>3, <3>1, <3>3 DEF Newest
      <4>. QED
        BY <1>2, <2>1, <3>3, <4>1, <4>2 DEF FileRung, Newest, k, e
    <3>. QED
      BY <2>1, <3>2, <3>3 DEF FileRung, k
  <2>. QED
    BY <2>2, <2>3
<1>. QED
  BY <1>2, <1>4, <1>5 DEF FileStands, OneFamily

LEMMA StandsNext ==
    ASSUME OneCommitment
    PROVE  IInv /\ FileStands /\ RoundStands /\ [Next]_vars => FileStands' /\ RoundStands'
<1>. SUFFICES ASSUME IInv, FileStands, RoundStands, [Next]_vars
              PROVE  FileStands' /\ RoundStands'
  OBVIOUS
<1>1. FileStands'
  <2>1. CASE disk' = disk
    BY <2>1 DEF FileStands, FileRung, StandsBy, OneFamily, Newest
  <2>2. CASE disk' # disk
    BY <2>2, OnlySaveAndPollWrite, StandsSave, StandsPoll
  <2>. QED
    BY <2>1, <2>2
<1>2. CASE StartRound
  BY <1>1, <1>2, StandsStartRound
<1>3. CASE Evaluate
  BY <1>1, <1>3, StandsEvaluate
<1>4. CASE EvaluateRaises
  BY <1>1, <1>4 DEF EvaluateRaises, RoundStands
<1>5. CASE Publish
  BY <1>1, <1>5 DEF Publish, memory, locals, RoundStands, RoundRung, StandsBy, Rejudged
<1>6. CASE Save \/ Abort \/ Release \/ Poll
  <2>1. phase' = "idle"
    BY <1>6 DEF Save, Abort, Release, Poll, DropMemory, ForgetRound
  <2>. QED
    BY <1>1, <2>1 DEF RoundStands
<1>7. ASSUME NEW c \in Key, Promote(c) PROVE RoundStands'
  BY <1>7, StandsPromote
<1>8. ASSUME NEW c \in Key, Reject(c) PROVE RoundStands'
  BY <1>8, StandsReject
<1>9. CASE Tick
  BY <1>1, <1>9 DEF Tick, memory, locals, RoundStands, RoundRung, StandsBy, Rejudged
<1>10. ASSUME NEW h \in Hotkey, NEW a \in Artifact \cup {None}, Post(h, a)
       PROVE  RoundStands'
  BY <1>10 DEF Post, memory, locals, RoundStands, RoundRung, StandsBy, Rejudged
<1>11. CASE UNCHANGED vars
  BY <1>1, <1>11 DEF vars, chain, memory, locals, RoundStands, RoundRung, StandsBy, Rejudged
<1>. QED
  BY <1>1, <1>2, <1>3, <1>4, <1>5, <1>6, <1>7, <1>8, <1>9, <1>10, <1>11 DEF Next, Round

LEMMA StandsInvariance ==
    ASSUME OneCommitment PROVE Spec => [](FileStands /\ RoundStands)
<1>1. Init => FileStands /\ RoundStands
  BY DEF Init, EmptyState, FileStands, OneFamily, RoundStands
<1>2. IInv /\ FileStands /\ RoundStands /\ [Next]_vars => FileStands' /\ RoundStands'
  BY StandsNext
<1>. QED
  BY <1>1, <1>2, Invariance, PTL DEF Spec

-----------------------------------------------------------------------------
(* The crown.                                                              *)

\* A champion that the file does not call out and nobody found broken wears the crown until the
\* evaluation, and afterwards, with its last ratio, unless somebody beat it by the
\* margin.
CrownHeld ==
    LET old == disk.winner_history[1]
        k == EntryKey(old)
    IN  /\ disk.winner_history # <<>>
        /\ old.hotkey \notin disk.excluded_hotkeys
        /\ commitments[k].status \in {"valid", "unreachable"}
        => /\ phase = "selected" => winner_history # <<>> /\ winner_history[1] = old
           /\ phase \in {"gauntlet", "done"} /\ scores[k] # None /\ scores[k].ratio # None =>
                 /\ winner_history # <<>>
                 /\ \/ /\ winner_history[1].hotkey = old.hotkey
                       /\ winner_history[1].ratio = scores[k].ratio
                    \/ should_promote(winner_history[1].ratio, scores[k].ratio)
                 /\ phase = "gauntlet" => current_ratio # None

\* Whose ratio a challenger must beat is champion_before.
Reigning ==
    phase = "selected" /\ winner_history # <<>> => champion_before = winner_history[1].hotkey

\* A challenger has no score that the release trusts, and a champion that precheck lets
\* stand is put out in the round only as a challenger.
JudgedAnew ==
    LET old == disk.winner_history[1]
        k == EntryKey(old)
    IN  /\ phase \in {"selected", "gauntlet", "done"} =>
              \A c \in challengers : LoadedScores[c] = None
        /\ phase = "gauntlet" => pending \subseteq challengers
        /\ /\ phase \in {"selected", "gauntlet", "done"}
           /\ disk.winner_history # <<>> /\ old.hotkey \notin disk.excluded_hotkeys
           /\ commitments[k].status \in {"valid", "unreachable"}
           /\ old.hotkey \in excluded_hotkeys
           => k \in challengers

\* Precheck puts out only whom it finds gone.
LEMMA StandsAtStart ==
    ASSUME OneCommitment, NEW verdict \in PossibleVerdicts, NEW seen \in PossibleBlocks,
           NEW k \in Key, k[1] \notin disk.excluded_hotkeys,
           Prechecked(verdict, seen)[k].status \in {"valid", "unreachable"}
    PROVE  k[1] \notin ExcludedBy(verdict)
<1>1. k[1] \notin LoadedExclusions
  BY DEF LoadedExclusions
<1>2. ASSUME NEW c \in Checked, c[1] = k[1], verdict[c] = "gone"
      PROVE  FALSE
  <2>1. c = k
    BY <1>2, OneKey DEF Checked
  <2>2. Prechecked(verdict, seen)[k].status = "invalid"
    BY <1>2, <2>1 DEF Prechecked
  <2>. QED
    BY <2>2
<1>. QED
  BY <1>1, <1>2 DEF ExcludedBy

LEMMA CrownStartRound ==
    ASSUME OneCommitment
    PROVE  IInv /\ FileStands /\ RoundStands' /\ StartRound => CrownHeld' /\ Reigning'
<1>. SUFFICES ASSUME IInv, FileStands, RoundStands', StartRound
              PROVE  CrownHeld' /\ Reigning'
  OBVIOUS
<1>. DEFINE known == commitments'
            excluded == excluded_hotkeys'
            ladder == winner_history'
            kept == retained_hotkeys(known, excluded)
            old == disk.winner_history[1]
            k == EntryKey(old)
<1>1. PICK verdict \in PossibleVerdicts, seen \in PossibleBlocks :
          /\ known = Prechecked(verdict, seen)
          /\ excluded = ExcludedBy(verdict)
          /\ ladder = LadderBeforeRound(known, excluded)
          /\ champion_before' = IF challengers' = {} \/ ladder = <<>> THEN None
                                ELSE ladder[1].hotkey
          /\ phase' = IF challengers' = {} THEN "done" ELSE "selected"
          /\ UNCHANGED disk
  BY StartRoundEffect
<1>2. Reigning'
  BY <1>1 DEF Reigning
<1>3. ASSUME disk.winner_history # <<>>, old.hotkey \notin disk.excluded_hotkeys,
             known[k].status \in {"valid", "unreachable"}
      PROVE  ladder # <<>> /\ ladder[1] = old /\ old.hotkey \notin excluded
  <2>1. disk.winner_history \in Seq(Entry) /\ 1 \in DOMAIN disk.winner_history
    BY <1>3 DEF IInv, WellBuilt
  <2>2. old \in Entry /\ k \in Key /\ k = <<old.hotkey, old.artifact>>
    BY <2>1, LadderKeys DEF EntryKey
  <2>7. old.hotkey \notin excluded
    <3>1. k[1] \notin disk.excluded_hotkeys
      BY <1>3, <2>2
    <3>2. k[1] \notin ExcludedBy(verdict)
      <4>1. Prechecked(verdict, seen)[k].status \in {"valid", "unreachable"}
        BY <1>1, <1>3
      <4>. HIDE DEF k
      <4>. QED
        BY <2>2, <3>1, <4>1, StandsAtStart
    <3>. QED
      BY <1>1, <2>2, <3>2
  <2>3. known[k] # None
    <3>1. disk.commitments[k] # None
      BY <2>1 DEF FileStands, FileRung
    <3>. QED
      BY <1>1, <2>2, <3>1, PrecheckedKnows DEF IInv
  <2>4. old.hotkey \in kept
    <3>1. old.hotkey \in Hotkey /\ old.artifact \in Artifact
      BY <2>2 DEF Entry
    <3>. HIDE DEF known, excluded, old
    <3>. QED
      BY <1>3, <2>2, <2>3, <2>7, <3>1 DEF retained_hotkeys
  <2>5. /\ compact_history(disk.winner_history, kept) # <<>>
        /\ compact_history(disk.winner_history, kept)[1] = old
    <3>. HIDE DEF kept
    <3>. QED
      BY <1>3, <2>1, <2>4, CompactHead
  <2>6. ladder = compact_history(disk.winner_history, kept)
    BY <1>1, <2>5 DEF LadderBeforeRound
  <2>. QED
    BY <2>5, <2>6, <2>7
<1>4. ASSUME disk.winner_history # <<>>, old.hotkey \notin disk.excluded_hotkeys,
             known[k].status \in {"valid", "unreachable"},
             phase' = "done", scores'[k] # None
      PROVE  ladder[1].ratio = scores'[k].ratio
  <2>1. /\ ladder # <<>> /\ ladder[1] = old /\ 1 \in DOMAIN ladder
        /\ old.hotkey \notin excluded
    BY <1>3, <1>4, StartRoundInv DEF IInv, WellBuilt
  <2>2. RoundRung(winner_history[1])'
    BY <1>4, <2>1 DEF RoundStands
  <2>. QED
    BY <1>4, <2>1, <2>2 DEF RoundRung, StandsBy, Rejudged
<1>. QED
  BY <1>1, <1>2, <1>3, <1>4 DEF CrownHeld

LEMMA CrownEvaluate ==
    ASSUME OneCommitment
    PROVE  IInv /\ RoundStands /\ CrownHeld /\ Evaluate => CrownHeld'
<1>. SUFFICES ASSUME IInv, RoundStands, CrownHeld, Evaluate PROVE CrownHeld'
  OBVIOUS
<1>. DEFINE old == disk.winner_history[1]
            k == EntryKey(old)
            new == winner_history'
<1>1. PICK outcome \in [Evaluated -> Ratio \cup {None}] :
          /\ phase = "selected" /\ phase' = "gauntlet"
          /\ scores' = ScoredWith(outcome)
          /\ new = RefreshedHistory(outcome)
          /\ current_ratio' = RatioToBeat(outcome)
          /\ excluded_hotkeys' = excluded_hotkeys \cup
                {c[1] : c \in {d \in challengers : outcome[d[1]] = None}}
          /\ UNCHANGED <<disk, commitments>>
  BY EvaluateEffect
<1>. SUFFICES ASSUME disk.winner_history # <<>>, old.hotkey \notin disk.excluded_hotkeys,
                     commitments[k].status \in {"valid", "unreachable"},
                     scores'[k] # None, scores'[k].ratio # None
              PROVE  /\ new # <<>> /\ new[1].hotkey = old.hotkey
                     /\ new[1].ratio = scores'[k].ratio
                     /\ current_ratio' # None
  BY <1>1 DEF CrownHeld
<1>2. winner_history # <<>> /\ winner_history[1] = old
  BY <1>1 DEF CrownHeld
<1>3. 1 \in DOMAIN winner_history /\ k \in Key /\ k[1] = old.hotkey
  BY <1>2, LadderKeys DEF IInv, TypeOK, EntryKey
<1>4. CASE ~IncumbentEvaluated
  <2>1. new = winner_history /\ current_ratio' = old.ratio
    BY <1>1, <1>2, <1>4 DEF RefreshedHistory, RatioToBeat
  <2>2. k[1] \notin Evaluated
    <3>1. \A c \in challengers : c \in Key /\ HasStatus(c, "valid")
      BY <1>1 DEF IInv, TypeOK, ChallengersFresh
    <3>2. k \notin challengers
      BY <1>2, <1>4, <3>1 DEF IncumbentEvaluated
    <3>3. \A c \in challengers : c[1] # k[1]
      BY <1>3, <3>1, <3>2, OneKey
    <3>. QED
      BY <1>4, <3>3 DEF Evaluated
  <2>3. scores'[k] = scores[k]
    BY <1>1, <1>3, <2>2, ScoredWithEffect
  <2>4. old.ratio = scores[k].ratio
    BY <1>1, <1>2, <1>3, <2>3 DEF RoundStands, RoundRung, StandsBy, Rejudged
  <2>. QED
    BY <1>2, <2>1, <2>3, <2>4
<1>5. CASE IncumbentEvaluated
  <2>1. k[1] \in Evaluated
    BY <1>2, <1>3, <1>5 DEF Evaluated
  <2>2. scores'[k].ratio = outcome[k[1]]
    BY <1>1, <1>3, <2>1, FirstValidIsTheOne, ScoredWithEffect
  <2>3. outcome[old.hotkey] # None /\ current_ratio' = outcome[old.hotkey]
    BY <1>1, <1>2, <1>3, <1>5, <2>2 DEF RatioToBeat
  <2>4. new # <<>> /\ new[1].hotkey = old.hotkey /\ new[1].ratio = scores'[k].ratio
    BY <1>1, <1>2, <1>5, <2>3, RefreshedFrom
  <2>. QED
    BY <2>3, <2>4
<1>. QED
  BY <1>4, <1>5

LEMMA CrownPromote ==
    ASSUME NEW c \in Key
    PROVE  IInv /\ BarIsTheCrowns /\ CrownHeld /\ Promote(c) => CrownHeld'
<1>. SUFFICES ASSUME IInv, BarIsTheCrowns, CrownHeld, Promote(c) PROVE CrownHeld'
  OBVIOUS
<1>. DEFINE old == disk.winner_history[1]
            k == EntryKey(old)
            head == winner_history[1]
<1>1. /\ phase = "gauntlet" /\ c \in pending
      /\ should_promote(scores[c].ratio, current_ratio)
      /\ current_ratio' = scores[c].ratio
      /\ UNCHANGED <<disk, commitments, scores, excluded_hotkeys, phase>>
  BY DEF Promote
<1>2. scores[c].ratio \in Ratio /\ scores[c].ratio # None
  <2>1. scores[c].ratio \in Ratio
    BY <1>1 DEF IInv, PendingScored
  <2>. QED
    BY <2>1, ReignAssumption, LadderAssumption
<1>3. winner_history' # <<>> /\ winner_history'[1].ratio = scores[c].ratio
  BY PromotedFrom
<1>. SUFFICES ASSUME disk.winner_history # <<>>, old.hotkey \notin disk.excluded_hotkeys,
                     commitments[k].status \in {"valid", "unreachable"},
                     scores[k] # None, scores[k].ratio # None
              PROVE  should_promote(scores[c].ratio, scores[k].ratio)
  BY <1>1, <1>2, <1>3 DEF CrownHeld
<1>4. /\ winner_history # <<>> /\ current_ratio # None
      /\ head.ratio = scores[k].ratio \/ should_promote(head.ratio, scores[k].ratio)
  BY <1>1 DEF CrownHeld
<1>5. current_ratio = head.ratio /\ current_ratio \in Ratio
  BY <1>1, <1>4 DEF BarIsTheCrowns, IInv, TypeOK
<1>6. 1 \in DOMAIN disk.winner_history /\ k \in Key
  BY LadderKeys DEF IInv, WellBuilt
<1>7. CASE head.ratio = scores[k].ratio
  BY <1>1, <1>5, <1>7
<1>8. CASE should_promote(head.ratio, scores[k].ratio)
  <2>1. scores[k].ratio \in Ratio
    <3>1. scores[k] \in Score
      BY <1>6 DEF IInv, TypeOK
    <3>. QED
      BY <3>1 DEF Score
  <2>. HIDE DEF head, k
  <2>. QED
    BY <1>1, <1>2, <1>5, <1>8, <2>1, MarginsAddUp
<1>. QED
  BY <1>4, <1>7, <1>8

LEMMA CrownNext ==
    ASSUME OneCommitment
    PROVE  IInv /\ FileStands /\ RoundStands /\ RoundStands' /\ BarIsTheCrowns
               /\ CrownHeld /\ Reigning /\ [Next]_vars => CrownHeld' /\ Reigning'
<1>. SUFFICES ASSUME IInv, FileStands, RoundStands, RoundStands', BarIsTheCrowns,
                     CrownHeld, Reigning, [Next]_vars
              PROVE  CrownHeld' /\ Reigning'
  OBVIOUS
<1>1. CASE StartRound
  BY <1>1, CrownStartRound
<1>2. CASE Evaluate
  BY <1>2, CrownEvaluate, EvaluateEffect DEF Reigning
<1>3. CASE EvaluateRaises
  BY <1>3 DEF EvaluateRaises, CrownHeld, Reigning
<1>4. CASE Publish
  BY <1>4 DEF Publish, CrownHeld, Reigning, memory, locals
<1>5. CASE Save \/ Abort \/ Release \/ Poll
  <2>1. phase' = "idle"
    BY <1>5 DEF Save, Abort, Release, Poll, DropMemory, ForgetRound
  <2>. QED
    BY <2>1 DEF CrownHeld, Reigning
<1>6. ASSUME NEW c \in Key, Promote(c)
      PROVE  CrownHeld' /\ Reigning'
  <2>1. Reigning'
    BY <1>6 DEF Promote, Reigning
  <2>. QED
    BY <1>6, <2>1, CrownPromote
<1>7. ASSUME NEW c \in Key, Reject(c)
      PROVE  CrownHeld' /\ Reigning'
  BY <1>7 DEF Reject, CrownHeld, Reigning
<1>8. CASE Tick
  BY <1>8 DEF Tick, CrownHeld, Reigning, memory, locals
<1>9. ASSUME NEW h \in Hotkey, NEW a \in Artifact \cup {None}, Post(h, a)
      PROVE  CrownHeld' /\ Reigning'
  BY <1>9 DEF Post, CrownHeld, Reigning, memory, locals
<1>10. CASE UNCHANGED vars
  BY <1>10 DEF vars, CrownHeld, Reigning, memory, locals
<1>. QED
  BY <1>1, <1>2, <1>3, <1>4, <1>5, <1>6, <1>7, <1>8, <1>9, <1>10 DEF Next, Round

LEMMA CrownInvariance ==
    ASSUME OneCommitment PROVE Spec => [](CrownHeld /\ Reigning)
<1>1. Init => CrownHeld /\ Reigning
  BY DEF Init, EmptyState, CrownHeld, Reigning
<1>2. IInv /\ FileStands /\ RoundStands /\ RoundStands' /\ BarIsTheCrowns
          /\ CrownHeld /\ Reigning /\ [Next]_vars => CrownHeld' /\ Reigning'
  BY CrownNext
<1>. QED
  BY <1>1, <1>2, Invariance, StandsInvariance, BarFollowsTheCrown, PTL DEF Spec

LEMMA JudgedNext ==
    ASSUME OneCommitment
    PROVE  IInv /\ JudgedAnew /\ [Next]_vars => JudgedAnew'
<1>. SUFFICES ASSUME IInv, JudgedAnew, [Next]_vars PROVE JudgedAnew'
  OBVIOUS
<1>. DEFINE old == disk.winner_history[1]
            k == EntryKey(old)
<1>0. disk.winner_history # <<>> => k \in Key /\ k[1] = old.hotkey
  <2>. SUFFICES ASSUME disk.winner_history # <<>> PROVE k \in Key /\ k[1] = old.hotkey
    OBVIOUS
  <2>1. 1 \in DOMAIN disk.winner_history
    BY DEF IInv, WellBuilt
  <2>. QED
    BY <2>1, LadderKeys DEF EntryKey, IInv, WellBuilt
<1>1. CASE StartRound
  <2>1. PICK verdict \in PossibleVerdicts, seen \in PossibleBlocks :
            /\ commitments' = Prechecked(verdict, seen)
            /\ excluded_hotkeys' = ExcludedBy(verdict)
            /\ challengers' = Challenging(commitments', excluded_hotkeys')
            /\ phase' = IF challengers' = {} THEN "done" ELSE "selected"
            /\ UNCHANGED <<disk, version>>
    BY <1>1, StartRoundEffect
  <2>2. LoadedScores' = LoadedScores
    BY <2>1 DEF LoadedScores, StaleKeys, score_is_comparable, CompatibleSince
  <2>3. \A c \in challengers' : LoadedScores[c] = None
    BY <2>1 DEF Challenging
  <2>4. ASSUME disk.winner_history # <<>>, old.hotkey \notin disk.excluded_hotkeys,
               commitments'[k].status \in {"valid", "unreachable"}
        PROVE  old.hotkey \notin excluded_hotkeys'
    <3>1. Prechecked(verdict, seen)[k].status \in {"valid", "unreachable"}
      BY <2>1, <2>4
    <3>. HIDE DEF k
    <3>. QED
      BY <1>0, <2>1, <2>4, <3>1, StandsAtStart
  <2>5. phase' # "gauntlet"
    BY <2>1
  <2>. QED
    BY <2>1, <2>2, <2>3, <2>4, <2>5 DEF JudgedAnew
<1>2. CASE Evaluate
  <2>1. PICK outcome \in [Evaluated -> Ratio \cup {None}] :
            /\ phase = "selected" /\ phase' = "gauntlet"
            /\ excluded_hotkeys' = excluded_hotkeys \cup
                  {c[1] : c \in {d \in challengers : outcome[d[1]] = None}}
            /\ pending' = {c \in challengers : outcome[c[1]] # None}
            /\ UNCHANGED <<disk, version, commitments, challengers>>
    BY <1>2, EvaluateEffect
  <2>2. LoadedScores' = LoadedScores
    BY <2>1 DEF LoadedScores, StaleKeys, score_is_comparable, CompatibleSince
  <2>3. ASSUME disk.winner_history # <<>>, NEW c \in challengers, c[1] = old.hotkey
        PROVE  k \in challengers
    <3>1. c \in Key
      BY <2>3 DEF IInv, TypeOK
    <3>. QED
      BY <1>0, <2>3, <3>1, OneKey
  <2>. QED
    BY <2>1, <2>2, <2>3 DEF JudgedAnew
<1>3. ASSUME NEW c \in Key, Reject(c)
      PROVE  JudgedAnew'
  <2>1. /\ phase = "gauntlet" /\ c \in pending /\ pending' = pending \ {c}
        /\ excluded_hotkeys' = excluded_hotkeys \cup {c[1]}
        /\ UNCHANGED <<disk, version, commitments, challengers, phase>>
    BY <1>3 DEF Reject
  <2>2. LoadedScores' = LoadedScores
    BY <2>1 DEF LoadedScores, StaleKeys, score_is_comparable, CompatibleSince
  <2>3. disk.winner_history # <<>> /\ c[1] = old.hotkey => k \in challengers
    BY <1>0, <2>1, OneKey DEF JudgedAnew
  <2>. QED
    BY <2>1, <2>2, <2>3 DEF JudgedAnew
<1>4. ASSUME NEW c \in Key, Promote(c)
      PROVE  JudgedAnew'
  <2>1. /\ phase = "gauntlet" /\ pending' \subseteq pending
        /\ UNCHANGED <<disk, version, commitments, challengers, phase, excluded_hotkeys>>
    BY <1>4 DEF Promote
  <2>2. LoadedScores' = LoadedScores
    BY <2>1 DEF LoadedScores, StaleKeys, score_is_comparable, CompatibleSince
  <2>. QED
    BY <2>1, <2>2 DEF JudgedAnew
<1>5. CASE Publish
  <2>1. /\ phase = "gauntlet" /\ phase' = "done"
        /\ UNCHANGED <<disk, version, commitments, challengers, excluded_hotkeys>>
    BY <1>5 DEF Publish, memory, locals
  <2>2. LoadedScores' = LoadedScores
    BY <2>1 DEF LoadedScores, StaleKeys, score_is_comparable, CompatibleSince
  <2>. QED
    BY <2>1, <2>2 DEF JudgedAnew
<1>6. CASE Save \/ Abort \/ Release \/ Poll \/ EvaluateRaises \/ Tick
           \/ \E h \in Hotkey, a \in Artifact \cup {None} : Post(h, a)
  <2>1. phase' \in {"idle", "raised"}
    BY <1>6 DEF Save, Abort, Release, Poll, EvaluateRaises, Tick, Post, DropMemory,
                ForgetRound
  <2>. QED
    BY <2>1 DEF JudgedAnew
<1>7. CASE UNCHANGED vars
  <2>1. UNCHANGED <<disk, version, commitments, challengers, excluded_hotkeys, pending,
                    phase>>
    BY <1>7 DEF vars, memory, locals
  <2>2. LoadedScores' = LoadedScores
    BY <2>1 DEF LoadedScores, StaleKeys, score_is_comparable, CompatibleSince
  <2>. QED
    BY <2>1, <2>2 DEF JudgedAnew
<1>. QED
  BY <1>1, <1>2, <1>3, <1>4, <1>5, <1>6, <1>7 DEF Next, Round

\* Across any number of releases and rollbacks a champion the file does not call out
\* passes the crown only to an entry that beats it by the margin, and is put out only
\* when the running release had dropped its score (the challenger filter of
\* state.py:120), when a hotkey commits once.
THEOREM CrownsSurviveReleases ==
    ASSUME OneCommitment PROVE Spec => OnlyADroppedScoreUnseats
<1>. DEFINE Passes ==
        disk.winner_history # <<>> =>
            LET old == disk.winner_history[1]
                k == EntryKey(old)
            IN  Stands(old, {"valid", "unreachable"})
                    /\ old.hotkey \notin disk.excluded_hotkeys =>
                    /\ KeptOrBeaten(old)
                    /\ old.hotkey \in disk'.excluded_hotkeys =>
                          disk.scores[k] = None \/ k \in StaleKeys
<1>1. Init => JudgedAnew
  BY DEF Init, EmptyState, JudgedAnew
<1>2. IInv /\ JudgedAnew /\ [Next]_vars => JudgedAnew'
  BY JudgedNext
<1>3. IInv /\ CrownHeld /\ JudgedAnew /\ [Next]_vars => [Passes]_disk
  <2>. SUFFICES ASSUME IInv, CrownHeld, JudgedAnew, [Next]_vars, disk' # disk PROVE Passes
    OBVIOUS
  <2>. DEFINE old == disk.winner_history[1]
              k == EntryKey(old)
  <2>1. CASE Save
    <3>1. /\ phase = "done"
          /\ disk'.winner_history = winner_history /\ disk'.scores = scores
          /\ disk'.commitments = commitments /\ disk'.excluded_hotkeys = excluded_hotkeys
      BY <2>1 DEF Save
    <3>. SUFFICES ASSUME disk.winner_history # <<>>, Stands(old, {"valid", "unreachable"}),
                         old.hotkey \notin disk.excluded_hotkeys
                  PROVE  /\ KeptOrBeaten(old)
                         /\ old.hotkey \in disk'.excluded_hotkeys =>
                               disk.scores[k] = None \/ k \in StaleKeys
      OBVIOUS
    <3>2. KeptOrBeaten(old)
      BY <3>1 DEF CrownHeld, Stands, KeptOrBeaten
    <3>3. ASSUME old.hotkey \in excluded_hotkeys
          PROVE  disk.scores[k] = None \/ k \in StaleKeys
      <4>1. k \in challengers /\ LoadedScores[k] = None
        BY <3>1, <3>3 DEF JudgedAnew, Stands
      <4>2. k \in Key
        BY <4>1 DEF IInv, TypeOK
      <4>. QED
        BY <4>1, <4>2 DEF LoadedScores
    <3>. QED
      BY <3>1, <3>2, <3>3
  <2>2. CASE Poll
    <3>1. disk \in State
      BY DEF IInv, TypeOK
    <3>2. /\ disk'.winner_history = disk.winner_history
          /\ disk'.excluded_hotkeys = LoadedExclusions
      BY <2>2, <3>1 DEF Poll, State
    <3>3. LoadedExclusions \subseteq disk.excluded_hotkeys
      BY DEF LoadedExclusions
    <3>. QED
      BY <3>2, <3>3 DEF KeptOrBeaten
  <2>. QED
    BY <2>1, <2>2, OnlySaveAndPollWrite
<1>. QED
  BY <1>1, <1>2, <1>3, Invariance, CrownInvariance, PTL
     DEF Spec, OnlyADroppedScoreUnseats

\* While the scoring version stays, a champion whose codec is valid or merely unreachable
\* and was not found broken passes the crown only to an entry that beats it by the
\* margin, when a hotkey commits once: no outage of the repository, crash, lost round,
\* exclusion or order of challengers takes it away (retained_hotkeys and the frozen bar
\* of issue #135, reign_worker/service.py:134).
THEOREM CrownIsLostOnlyToMargin ==
    ASSUME OneVersion, OneCommitment PROVE Spec => CrownLostOnlyToMargin
<1>. DEFINE Passes ==
        disk.winner_history # <<>> =>
            LET old == disk.winner_history[1]
            IN  Stands(old, {"valid", "unreachable"}) => KeptOrBeaten(old)
            Spared ==
        disk.winner_history # <<>> =>
            LET old == disk.winner_history[1]
                k == EntryKey(old)
            IN  Stands(old, {"valid", "unreachable"})
                    /\ old.hotkey \notin disk.excluded_hotkeys =>
                    /\ KeptOrBeaten(old)
                    /\ old.hotkey \in disk'.excluded_hotkeys =>
                          disk.scores[k] = None \/ k \in StaleKeys
<1>1. IInv /\ LadderNotExcluded /\ [Spared]_disk => [Passes]_disk
  <2>. SUFFICES ASSUME IInv, LadderNotExcluded, [Spared]_disk, disk' # disk,
                       disk.winner_history # <<>>
                PROVE  Passes
    OBVIOUS
  <2>1. 1 \in DOMAIN disk.winner_history
    BY DEF IInv, WellBuilt
  <2>2. disk.winner_history[1].hotkey \notin disk.excluded_hotkeys
    BY <2>1 DEF LadderNotExcluded
  <2>. QED
    BY <2>2
<1>. QED
  BY <1>1, Invariance, WinnersAreNoLosers, CrownsSurviveReleases, PTL
     DEF CrownLostOnlyToMargin, OnlyADroppedScoreUnseats

-----------------------------------------------------------------------------
(* The burn seed, and why a challenger loses.                              *)

\* What SeedIsTheChampions says at the end of a round holds throughout its gauntlet.
SeedFollows ==
    /\ phase \in {"gauntlet", "done"} /\ challengers # {} /\ winner_history # <<>>
    /\ \/ winner_history[1].hotkey \in {k[1] : k \in challengers}
       \/ winner_history[1].hotkey = champion_before /\ IncumbentEvaluated
    => last_round_outputs = winner_history[1].hotkey

LEMMA SeedEvaluate ==
    ASSUME OneCommitment
    PROVE  IInv /\ NothingDropped /\ Apart /\ Reigning /\ Evaluate => SeedFollows'
<1>. SUFFICES ASSUME IInv, NothingDropped, Apart, Reigning, Evaluate,
                     winner_history' # <<>>,
                     \/ winner_history'[1].hotkey \in {k[1] : k \in challengers}
                     \/ /\ winner_history'[1].hotkey = champion_before
                        /\ IncumbentEvaluated'
              PROVE  last_round_outputs' = winner_history'[1].hotkey
  BY EvaluateEffect DEF SeedFollows
<1>. DEFINE old == winner_history
            new == winner_history'
<1>1. PICK outcome \in [Evaluated -> Ratio \cup {None}] :
          /\ phase = "selected"
          /\ new = RefreshedHistory(outcome)
          /\ last_round_outputs' = SeedAfter(outcome)
          /\ UNCHANGED <<commitments, challengers>>
  BY EvaluateEffect
<1>2. old \in Seq(Entry) /\ WellBuilt(old) /\ new \in Seq(Entry) /\ 1 \in DOMAIN new
  <2>1. IInv'
    BY EvaluateInv
  <2>. QED
    BY <2>1 DEF IInv, WellBuilt
<1>3. CASE ~IncumbentEvaluated
  <2>1. new = old
    BY <1>1, <1>3 DEF RefreshedHistory
  <2>2. ~IncumbentEvaluated'
    BY <1>1, <1>3, <2>1 DEF IncumbentEvaluated, HasStatus
  <2>3. \A k \in challengers : old[1].hotkey # k[1]
    BY <1>1, <1>2, <2>1, LadderDoesNotChallenge
  <2>. QED
    BY <2>1, <2>2, <2>3
<1>4. CASE IncumbentEvaluated /\ outcome[old[1].hotkey] = None
  <2>1. 1 + 1 \in DOMAIN old /\ 1 \in DOMAIN old /\ new[1] = old[1 + 1]
    BY <1>1, <1>2, <1>4, RefreshedFrom
  <2>2. old[1 + 1].hotkey # old[1].hotkey
    BY <1>2, <2>1 DEF WellBuilt
  <2>3. \A k \in challengers : old[1 + 1].hotkey # k[1]
    BY <1>1, <2>1, LadderDoesNotChallenge
  <2>4. champion_before = old[1].hotkey
    BY <1>1, <2>1 DEF Reigning
  <2>. QED
    BY <2>1, <2>2, <2>3, <2>4
<1>5. CASE IncumbentEvaluated /\ outcome[old[1].hotkey] # None
  <2>1. new[1].hotkey = old[1].hotkey
    BY <1>1, <1>5, RefreshedFrom
  <2>. QED
    BY <1>1, <1>5, <2>1 DEF SeedAfter
<1>. QED
  BY <1>3, <1>4, <1>5

LEMMA SeedNext ==
    ASSUME OneCommitment
    PROVE  IInv /\ NothingDropped /\ Apart /\ Reigning /\ SeedFollows /\ [Next]_vars
               => SeedFollows'
<1>. SUFFICES ASSUME IInv, NothingDropped, Apart, Reigning, SeedFollows, [Next]_vars
              PROVE  SeedFollows'
  OBVIOUS
<1>. USE DEF IncumbentEvaluated, HasStatus
<1>1. CASE StartRound
  <2>1. phase' = IF challengers' = {} THEN "done" ELSE "selected"
    BY <1>1, StartRoundEffect
  <2>. QED
    BY <2>1 DEF SeedFollows
<1>2. CASE Evaluate
  BY <1>2, SeedEvaluate
<1>3. CASE EvaluateRaises
  BY <1>3 DEF EvaluateRaises, SeedFollows
<1>4. CASE Publish
  BY <1>4 DEF Publish, SeedFollows, memory, locals
<1>5. CASE Save \/ Abort \/ Release \/ Poll
  <2>1. phase' = "idle"
    BY <1>5 DEF Save, Abort, Release, Poll, DropMemory, ForgetRound
  <2>. QED
    BY <2>1 DEF SeedFollows
<1>6. ASSUME NEW c \in Key, Promote(c)
      PROVE  SeedFollows'
  <2>1. last_round_outputs' = c[1]
    BY <1>6 DEF Promote
  <2>. QED
    BY <1>6, <2>1, PromotedFrom DEF SeedFollows
<1>7. ASSUME NEW c \in Key, Reject(c)
      PROVE  SeedFollows'
  BY <1>7 DEF Reject, SeedFollows
<1>8. CASE Tick
  BY <1>8 DEF Tick, SeedFollows, memory, locals
<1>9. ASSUME NEW h \in Hotkey, NEW a \in Artifact \cup {None}, Post(h, a)
      PROVE  SeedFollows'
  BY <1>9 DEF Post, SeedFollows, memory, locals
<1>10. CASE UNCHANGED vars
  BY <1>10 DEF vars, SeedFollows, memory, locals
<1>. QED
  BY <1>1, <1>2, <1>3, <1>4, <1>5, <1>6, <1>7, <1>8, <1>9, <1>10 DEF Next, Round

\* The burn is seeded by the outputs of the standing winner whenever it stands by this
\* round's evaluation (last_round_outputs, reign_worker/service.py:157 and 216), while
\* the scoring version stays and a hotkey commits once.
THEOREM SeedFollowsTheCrown ==
    ASSUME OneVersion, OneCommitment PROVE Spec => []SeedIsTheChampions
<1>1. Init => SeedFollows
  BY DEF Init, SeedFollows
<1>2. IInv /\ NothingDropped /\ Apart /\ Reigning /\ SeedFollows /\ [Next]_vars => SeedFollows'
  BY SeedNext
<1>3. SeedFollows => SeedIsTheChampions
  BY DEF SeedFollows, SeedIsTheChampions
<1>. QED
  BY <1>1, <1>2, <1>3, OneVersionInvariance, ApartInvariance, CrownInvariance, PTL DEF Spec

\* A challenger is out although it beats zstd.
BeatenOut(k) ==
    /\ scores[k] # None /\ scores[k].ratio # None
    /\ scores[k].ratio < baseline_ratio /\ k[1] \in excluded_hotkeys

\* It did not beat the incumbent, or not a codec that was committed before its own.
BeatenFairly(k) ==
    \E l \in Key :
        /\ scores[l] # None /\ scores[l].ratio # None
        /\ ~should_promote(scores[k].ratio, scores[l].ratio)
        /\ \/ l[1] = champion_before
           \/ /\ l \in challengers
              /\ CommitBefore(scores[l].commit_block, l[1], scores[k].commit_block, k[1])

\* The bar is that of the incumbent or of a challenger that committed before all
\* those who wait.
BarIsEarlier ==
    phase = "gauntlet" /\ current_ratio # None =>
        \E l \in Key :
            /\ scores[l] # None /\ scores[l].ratio = current_ratio
            /\ \/ l[1] = champion_before
               \/ /\ l \in challengers
                  /\ \A d \in pending : CommitBefore(scores[l].commit_block, l[1],
                                                     scores[d].commit_block, d[1])

FairlyBeaten ==
    /\ phase \in {"gauntlet", "done"} =>
          \A k \in challengers \ pending : BeatenOut(k) => BeatenFairly(k)
    /\ BarIsEarlier

LEMMA LosesEvaluate ==
    ASSUME OneCommitment
    PROVE  IInv /\ NothingDropped' /\ Apart' /\ Reigning /\ Evaluate => FairlyBeaten'
<1>. SUFFICES ASSUME IInv, NothingDropped', Apart', Reigning, Evaluate PROVE FairlyBeaten'
  OBVIOUS
<1>1. PICK outcome \in [Evaluated -> Ratio \cup {None}] :
          /\ phase = "selected" /\ phase' = "gauntlet"
          /\ scores' = ScoredWith(outcome)
          /\ winner_history' = RefreshedHistory(outcome)
          /\ current_ratio' = RatioToBeat(outcome)
          /\ pending' = {k \in challengers : outcome[k[1]] # None}
          /\ UNCHANGED <<challengers, champion_before>>
  BY EvaluateEffect
<1>2. \A k \in Key : k[1] \in Evaluated =>
          scores'[k] # None /\ scores'[k].ratio = outcome[k[1]]
  BY <1>1, FirstValidIsTheOne, ScoredWithEffect
<1>3. ASSUME NEW k \in challengers' \ pending', BeatenOut(k)'
      PROVE  FALSE
  <2>1. k \in Key /\ k[1] \in Evaluated /\ outcome[k[1]] = None
    BY <1>1, <1>3 DEF IInv, TypeOK, Evaluated
  <2>. QED
    BY <1>2, <1>3, <2>1 DEF BeatenOut
<1>4. ASSUME current_ratio' # None
      PROVE  \E l \in Key : /\ scores'[l] # None /\ scores'[l].ratio = current_ratio'
                            /\ l[1] = champion_before'
  <2>. DEFINE head == winner_history[1]
  <2>1. winner_history # <<>>
    BY <1>1, <1>4 DEF RatioToBeat
  <2>2. 1 \in DOMAIN winner_history /\ EntryKey(head) \in Key
        /\ EntryKey(head)[1] = head.hotkey /\ head.hotkey = champion_before'
    BY <1>1, <2>1, LadderKeys DEF IInv, TypeOK, EntryKey, Reigning
  <2>3. CASE IncumbentEvaluated
    <3>1. current_ratio' = outcome[head.hotkey] /\ head.hotkey \in Evaluated
      BY <1>1, <2>1, <2>3 DEF RatioToBeat, Evaluated
    <3>. QED
      BY <1>2, <2>2, <3>1
  <2>4. CASE ~IncumbentEvaluated
    <3>1. winner_history' = winner_history /\ current_ratio' = head.ratio
      BY <1>1, <2>1, <2>4 DEF RatioToBeat, RefreshedHistory
    <3>2. scores'[EntryKey(head)] # None /\ head.ratio = scores'[EntryKey(head)].ratio
      BY <2>2, <3>1 DEF NothingDropped, Scored, Apart, Standing
    <3>. QED
      BY <2>2, <3>1, <3>2
  <2>. QED
    BY <2>3, <2>4
<1>. QED
  BY <1>1, <1>3, <1>4 DEF FairlyBeaten, BarIsEarlier

LEMMA LosesPromote ==
    ASSUME NEW c \in Key
    PROVE  IInv /\ NothingDropped /\ Apart /\ FairlyBeaten /\ Promote(c) => FairlyBeaten'
<1>. SUFFICES ASSUME IInv, NothingDropped, Apart, FairlyBeaten, Promote(c)
              PROVE  FairlyBeaten'
  OBVIOUS
<1>1. /\ phase = "gauntlet" /\ c \in pending /\ IsNext(c)
      /\ current_ratio' = scores[c].ratio /\ pending' = pending \ {c}
      /\ UNCHANGED <<scores, excluded_hotkeys, phase, challengers, baseline_ratio,
                     champion_before>>
  BY DEF Promote
<1>2. c \in challengers /\ c[1] \notin excluded_hotkeys /\ scores[c] # None
  BY <1>1, NoneIsNoRecord DEF Apart, NothingDropped, IInv, PendingScored
<1>3. ASSUME NEW k \in challengers \ pending', BeatenOut(k)
      PROVE  BeatenFairly(k)
  <2>1. k # c
    BY <1>2, <1>3 DEF BeatenOut
  <2>. QED
    BY <1>1, <1>3, <2>1 DEF FairlyBeaten
<1>4. BarIsEarlier'
  BY <1>1, <1>2 DEF BarIsEarlier, IsNext
<1>. QED
  BY <1>1, <1>3, <1>4 DEF FairlyBeaten, BeatenOut, BeatenFairly

LEMMA LosesReject ==
    ASSUME OneCommitment, NEW c \in Key
    PROVE  IInv /\ NothingDropped /\ FairlyBeaten /\ Reject(c) => FairlyBeaten'
<1>. SUFFICES ASSUME IInv, NothingDropped, FairlyBeaten, Reject(c) PROVE FairlyBeaten'
  OBVIOUS
<1>1. /\ phase = "gauntlet" /\ c \in pending /\ pending' = pending \ {c}
      /\ ~(/\ should_promote(scores[c].ratio, current_ratio)
           /\ scores[c].ratio < baseline_ratio)
      /\ excluded_hotkeys' = excluded_hotkeys \cup {c[1]}
      /\ UNCHANGED <<scores, phase, challengers, baseline_ratio, current_ratio,
                     champion_before>>
  BY DEF Reject
<1>2. challengers \subseteq Key
  BY DEF IInv, TypeOK
<1>3. ASSUME NEW k \in challengers \ pending', BeatenOut(k)'
      PROVE  BeatenFairly(k)
  <2>1. CASE k = c
    <3>1. ~should_promote(scores[c].ratio, current_ratio)
      BY <1>1, <1>3, <2>1 DEF BeatenOut
    <3>2. current_ratio # None
      BY <3>1 DEF should_promote
    <3>3. PICK l \in Key :
              /\ scores[l] # None /\ scores[l].ratio = current_ratio
              /\ \/ l[1] = champion_before
                 \/ /\ l \in challengers
                    /\ \A d \in pending : CommitBefore(scores[l].commit_block, l[1],
                                                       scores[d].commit_block, d[1])
      BY <1>1, <3>2 DEF FairlyBeaten, BarIsEarlier
    <3>. QED
      BY <1>1, <2>1, <3>1, <3>2, <3>3 DEF BeatenFairly
  <2>2. CASE k # c
    <3>1. k[1] # c[1]
      BY <1>2, <1>3, <2>2, OneKey
    <3>. QED
      BY <1>1, <1>3, <2>2, <3>1 DEF FairlyBeaten, BeatenOut
  <2>. QED
    BY <2>1, <2>2
<1>4. BarIsEarlier'
  BY <1>1 DEF FairlyBeaten, BarIsEarlier
<1>. QED
  BY <1>1, <1>3, <1>4 DEF FairlyBeaten, BeatenFairly

LEMMA LosesNext ==
    ASSUME OneCommitment
    PROVE  IInv /\ NothingDropped /\ NothingDropped' /\ Apart /\ Apart' /\ Reigning
               /\ FairlyBeaten /\ [Next]_vars => FairlyBeaten'
<1>. SUFFICES ASSUME IInv, NothingDropped, NothingDropped', Apart, Apart', Reigning,
                     FairlyBeaten, [Next]_vars
              PROVE  FairlyBeaten'
  OBVIOUS
<1>. USE DEF BeatenOut, BeatenFairly, BarIsEarlier
<1>1. CASE StartRound
  <2>1. phase' = IF challengers' = {} THEN "done" ELSE "selected"
    BY <1>1, StartRoundEffect
  <2>. QED
    BY <2>1 DEF FairlyBeaten
<1>2. CASE Evaluate
  BY <1>2, LosesEvaluate
<1>3. CASE EvaluateRaises
  BY <1>3 DEF EvaluateRaises, FairlyBeaten
<1>4. CASE Publish
  BY <1>4 DEF Publish, FairlyBeaten, memory, locals
<1>5. CASE Save \/ Abort \/ Release \/ Poll
  <2>1. phase' = "idle"
    BY <1>5 DEF Save, Abort, Release, Poll, DropMemory, ForgetRound
  <2>. QED
    BY <2>1 DEF FairlyBeaten
<1>6. ASSUME NEW c \in Key, Promote(c)
      PROVE  FairlyBeaten'
  BY <1>6, LosesPromote
<1>7. ASSUME NEW c \in Key, Reject(c)
      PROVE  FairlyBeaten'
  BY <1>7, LosesReject
<1>8. CASE Tick
  BY <1>8 DEF Tick, FairlyBeaten, memory, locals
<1>9. ASSUME NEW h \in Hotkey, NEW a \in Artifact \cup {None}, Post(h, a)
      PROVE  FairlyBeaten'
  BY <1>9 DEF Post, FairlyBeaten, memory, locals
<1>10. CASE UNCHANGED vars
  BY <1>10 DEF vars, FairlyBeaten, memory, locals
<1>. QED
  BY <1>1, <1>2, <1>3, <1>4, <1>5, <1>6, <1>7, <1>8, <1>9, <1>10 DEF Next, Round

\* A challenger that beats zstd loses only to the incumbent or to a codec committed
\* before its own (the gauntlet in commit order, reign_worker/service.py:176), for any
\* number of challengers, while the scoring version stays and a hotkey commits once.
THEOREM LosersLostToEarlier ==
    ASSUME OneVersion, OneCommitment PROVE Spec => []LosesOnlyToEarlier
<1>1. Init => FairlyBeaten
  BY DEF Init, FairlyBeaten, BarIsEarlier
<1>2. IInv /\ NothingDropped /\ NothingDropped' /\ Apart /\ Apart' /\ Reigning
          /\ FairlyBeaten /\ [Next]_vars => FairlyBeaten'
  BY LosesNext
<1>3. NothingDropped /\ FairlyBeaten => LosesOnlyToEarlier
  BY DEF NothingDropped, FairlyBeaten, BeatenOut, BeatenFairly, LosesOnlyToEarlier
<1>. QED
  BY <1>1, <1>2, <1>3, OneVersionInvariance, ApartInvariance, CrownInvariance, PTL DEF Spec


-----------------------------------------------------------------------------
(* The saved file implements OneShot.                                      *)

\* The hotkeys that have a score.
Tried(scored) == {k[1] : k \in {l \in Key : scored[l] # None}}

\* The given rungs of a new ladder stood in the old one, in the same order.
Stay(old, new, rungs) ==
    /\ \A i \in rungs : new[i].hotkey \in Hotkeys(old)
    /\ \A i, j \in rungs : i < j =>
          \E m, n \in DOMAIN old :
              /\ m < n
              /\ new[i].hotkey = old[m].hotkey
              /\ new[j].hotkey = old[n].hotkey

\* One that was scored before stands alone on the given rungs.
Recovered(old, tried, new, rungs) ==
    \E i \in rungs : rungs = {i} /\ new[i].hotkey \in tried \ Hotkeys(old)

Top(new, winners) == {i \in DOMAIN new : new[i].hotkey \in winners}

\* The winners stand over the others, all of them unless they fill the ladder.
Over(winners, new) ==
    /\ \A i \in Top(new, winners), j \in DOMAIN new \ Top(new, winners) : i < j
    /\ winners \subseteq Hotkeys(new) \/ Top(new, winners) = 1..HistoryDepth

Below(winners, old, tried, new) ==
    LET below == DOMAIN new \ Top(new, winners)
    IN  Stay(old, new, below) \/ Recovered(old, tried, new, below)

\* The challengers that have won so far: judged and not out.
Won == IF phase = "selected" THEN {}
       ELSE {k[1] : k \in challengers \ pending} \ excluded_hotkeys

\* What the round in memory has done to the file's players up to now.
Contest ==
    /\ disk.excluded_hotkeys \subseteq excluded_hotkeys
    /\ \A k \in challengers : k[1] \notin disk.excluded_hotkeys
    /\ \A k \in Key : scores[k] # None /\ disk.scores[k] = None => k \in challengers
    /\ phase \in {"gauntlet", "done"} => \A k \in challengers : scores[k] # None
    /\ phase \in {"selected", "gauntlet"} =>
          /\ Hotkeys(winner_history) \subseteq retained
          /\ \A k \in challengers : k[1] \in retained
    /\ phase \in {"selected", "gauntlet", "done"} =>
          /\ Over(Won, winner_history)
          /\ Below(Won, disk.winner_history, Tried(disk.scores), winner_history)

LEMMA FitsTheDepth ==
    ASSUME NEW history, WellBuilt(history)
    PROVE  DOMAIN history \subseteq 1..HistoryDepth
<1>1. /\ DOMAIN history = 1..Len(history) /\ Len(history) \in Nat
      /\ Len(history) <= HistoryDepth
  BY DEF WellBuilt
<1>. QED
  BY <1>1, LadderAssumption

\* Before anyone has won, all of a ladder is below.
LEMMA NobodyOnTop ==
    ASSUME NEW new
    PROVE  Top(new, {}) = {} /\ Over({}, new) /\ DOMAIN new \ Top(new, {}) = DOMAIN new
BY DEF Top, Over

LEMMA ContestStartRound ==
    ASSUME OneVersion
    PROVE  IInv /\ NothingDropped /\ Apart /\ StartRound => Contest'
<1>. SUFFICES ASSUME IInv, NothingDropped, Apart, StartRound PROVE Contest'
  OBVIOUS
<1>. DEFINE known == commitments'
            excluded == excluded_hotkeys'
            ladder == winner_history'
            old == disk.winner_history
            kept == retained_hotkeys(known, excluded)
<1>1. PICK verdict \in PossibleVerdicts, seen \in PossibleBlocks :
          /\ known = Prechecked(verdict, seen)
          /\ scores' = LoadedScores
          /\ excluded = ExcludedBy(verdict)
          /\ ladder = LadderBeforeRound(known, excluded)
          /\ retained' = kept
          /\ challengers' = Challenging(known, excluded)
          /\ phase' = IF challengers' = {} THEN "done" ELSE "selected"
          /\ UNCHANGED <<disk, pending>>
  BY StartRoundEffect
<1>2. LoadedScores = disk.scores /\ LoadedExclusions = disk.excluded_hotkeys
  BY OneVersionLoads DEF IInv
<1>3. disk.excluded_hotkeys \subseteq excluded
  BY <1>1, <1>2 DEF ExcludedBy
<1>4. old \in Seq(Entry)
  BY DEF IInv, WellBuilt
<1>. HIDE DEF known, excluded, ladder, old, kept
<1>5. \A k \in challengers' : k \in Key /\ k[1] \notin excluded /\ k[1] \in kept
  <2>. SUFFICES ASSUME NEW k \in challengers'
                PROVE  k \in Key /\ k[1] \notin excluded /\ k[1] \in kept
    OBVIOUS
  <2>1. k \in Key /\ known[k] # None /\ known[k].status = "valid" /\ k[1] \notin excluded
    BY <1>1 DEF Challenging
  <2>. QED
    BY <2>1, KeyParts DEF kept, retained_hotkeys
<1>6. Won' = {}
  BY <1>1 DEF Won
<1>7. Hotkeys(ladder) \subseteq kept /\ Below({}, old, Tried(disk.scores), ladder)
  <2>1. CASE ladder = compact_history(old, kept)
    <3>1. /\ \A n \in DOMAIN ladder : ladder[n].hotkey \in kept
          /\ \A n \in DOMAIN ladder : \E i \in DOMAIN old : ladder[n] = old[i]
      BY <1>4, <2>1, CompactHistory
    <3>2. \A i, j \in DOMAIN ladder : i < j =>
             \E m, n \in DOMAIN old : m < n /\ ladder[i] = old[m] /\ ladder[j] = old[n]
      BY <1>4, <2>1, CompactOrder
    <3>3. Stay(old, ladder, DOMAIN ladder)
      <4>1. \A i, j \in DOMAIN ladder : i < j =>
               \E m, n \in DOMAIN old :
                   m < n /\ ladder[i].hotkey = old[m].hotkey /\ ladder[j].hotkey = old[n].hotkey
        BY <3>2
      <4>2. \A i \in DOMAIN ladder : ladder[i].hotkey \in Hotkeys(old)
        BY <3>1 DEF Hotkeys
      <4>. QED
        BY <4>1, <4>2 DEF Stay
    <3>. QED
      BY <3>1, <3>3, NobodyOnTop DEF Below, Hotkeys
  <2>2. ASSUME NEW best \in Recoverable(known, LoadedScores, excluded),
               DOMAIN ladder = {1}, ladder[1] = as_winner(best, LoadedScores[best]),
               \A i \in DOMAIN old : old[i].hotkey \notin kept
        PROVE  Hotkeys(ladder) \subseteq kept /\ Below({}, old, Tried(disk.scores), ladder)
    <3>1. /\ best \in Key /\ disk.scores[best] # None /\ best[1] \notin excluded
          /\ known[best] # None /\ known[best].status = "valid"
      BY <1>2 DEF Recoverable
    <3>2. best[1] \in kept
      BY <3>1, KeyParts DEF kept, retained_hotkeys
    <3>3. ladder[1].hotkey = best[1]
      BY <2>2 DEF as_winner
    <3>4. best[1] \in Tried(disk.scores) \ Hotkeys(old)
      BY <2>2, <3>1, <3>2 DEF Tried, Hotkeys
    <3>5. Recovered(old, Tried(disk.scores), ladder, DOMAIN ladder)
      BY <2>2, <3>3, <3>4 DEF Recovered
    <3>. QED
      BY <2>2, <3>2, <3>3, <3>5, NobodyOnTop DEF Below, Hotkeys
  <2>3. CASE ladder = <<>>
    <3>1. DOMAIN ladder = {}
      BY <2>3
    <3>. QED
      BY <3>1, NobodyOnTop DEF Below, Stay, Hotkeys
  <2>. QED
    BY <1>1, <2>1, <2>2, <2>3, LadderBeforeRoundFrom DEF kept, old
<1>8. /\ phase' = "done" => challengers' = {}
      /\ phase' # "gauntlet"
      /\ \A k \in Key : scores'[k] # None => disk.scores[k] # None
  BY <1>1, <1>2
<1>9. Over({}, ladder)
  BY NobodyOnTop
<1>. QED
  BY <1>1, <1>3, <1>5, <1>6, <1>7, <1>8, <1>9
     DEF Contest, known, excluded, ladder, old

\* Replacing entries by entries of the same hotkeys, or dropping the first one, leaves
\* those below where they were relative to the old ladder.
LEMMA BelowRefreshed ==
    ASSUME NEW old, NEW tried, NEW history \in Seq(Entry), NEW new,
           Below({}, old, tried, history),
           \/ DOMAIN new = DOMAIN history
              /\ \A i \in DOMAIN new : new[i].hotkey = history[i].hotkey
           \/ \A i \in DOMAIN new : /\ i \in Nat /\ i + 1 \in DOMAIN history /\ i + 1 # 1
                                    /\ new[i].hotkey = history[i + 1].hotkey
    PROVE  Below({}, old, tried, new) /\ Hotkeys(new) \subseteq Hotkeys(history)
<1>. DEFINE below == DOMAIN new
<1>1. Stay(old, history, DOMAIN history) \/ Recovered(old, tried, history, DOMAIN history)
  BY NobodyOnTop DEF Below
<1>. SUFFICES /\ Stay(old, new, DOMAIN new) \/ Recovered(old, tried, new, DOMAIN new)
              /\ Hotkeys(new) \subseteq Hotkeys(history)
  BY NobodyOnTop DEF Below
<1>2. CASE DOMAIN new = DOMAIN history
           /\ \A i \in DOMAIN new : new[i].hotkey = history[i].hotkey
  <2>1. Hotkeys(new) \subseteq Hotkeys(history)
    BY <1>2 DEF Hotkeys
  <2>2. CASE Stay(old, history, DOMAIN history)
    BY <1>2, <2>1, <2>2 DEF Stay
  <2>3. CASE Recovered(old, tried, history, DOMAIN history)
    BY <1>2, <2>1, <2>3 DEF Recovered
  <2>. QED
    BY <1>1, <2>1, <2>2, <2>3
<1>3. CASE \A i \in DOMAIN new : /\ i \in Nat /\ i + 1 \in DOMAIN history /\ i + 1 # 1
                                 /\ new[i].hotkey = history[i + 1].hotkey
  <2>1. Hotkeys(new) \subseteq Hotkeys(history)
    BY <1>3 DEF Hotkeys
  <2>2. CASE Stay(old, history, DOMAIN history)
    <3>1. ASSUME NEW i \in DOMAIN new, NEW j \in DOMAIN new, i < j
          PROVE  \E m, n \in DOMAIN old : /\ m < n
                     /\ new[i].hotkey = old[m].hotkey /\ new[j].hotkey = old[n].hotkey
      <4>1. i + 1 \in DOMAIN history /\ j + 1 \in DOMAIN history /\ i + 1 < j + 1
        BY <1>3, <3>1
      <4>2. \E m, n \in DOMAIN old : /\ m < n
                /\ history[i + 1].hotkey = old[m].hotkey /\ history[j + 1].hotkey = old[n].hotkey
        BY <2>2, <4>1 DEF Stay
      <4>. QED
        BY <1>3, <4>2
    <3>2. \A i \in DOMAIN new : new[i].hotkey \in Hotkeys(old)
      BY <1>3, <2>2 DEF Stay
    <3>. QED
      BY <2>1, <3>1, <3>2 DEF Stay
  <2>3. CASE Recovered(old, tried, history, DOMAIN history)
    <3>1. PICK k \in DOMAIN history : DOMAIN history = {k}
      BY <2>3 DEF Recovered
    <3>2. k = 1
      <4>1. DOMAIN history = 1..Len(history) /\ Len(history) \in Nat
        OBVIOUS
      <4>2. 1 \in DOMAIN history
        BY <3>1, <4>1
      <4>. QED
        BY <3>1, <4>2
    <3>3. DOMAIN new = {}
      BY <1>3, <3>1, <3>2
    <3>. QED
      BY <2>1, <3>3 DEF Stay
  <2>. QED
    BY <1>1, <2>2, <2>3
<1>. QED
  BY <1>2, <1>3

LEMMA ContestEvaluate ==
    ASSUME OneVersion, OneCommitment
    PROVE  IInv /\ NothingDropped /\ Apart /\ Contest /\ Evaluate => Contest'
<1>. SUFFICES ASSUME IInv, NothingDropped, Apart, Contest, Evaluate PROVE Contest'
  OBVIOUS
<1>. DEFINE tried == Tried(disk.scores)
<1>1. PICK outcome \in [Evaluated -> Ratio \cup {None}] :
          /\ phase = "selected" /\ phase' = "gauntlet"
          /\ scores' = ScoredWith(outcome)
          /\ winner_history' = RefreshedHistory(outcome)
          /\ excluded_hotkeys' = excluded_hotkeys \cup
                {c[1] : c \in {d \in challengers : outcome[d[1]] = None}}
          /\ pending' = {k \in challengers : outcome[k[1]] # None}
          /\ UNCHANGED <<disk, retained, challengers>>
  BY EvaluateEffect
<1>2. winner_history \in Seq(Entry) /\ challengers \subseteq Key
  BY DEF IInv, TypeOK
<1>3. Won' = {}
  <2>1. \A k \in challengers : k \notin pending' => k[1] \in excluded_hotkeys'
    BY <1>1
  <2>. QED
    BY <1>1, <2>1 DEF Won
<1>4. Below({}, disk.winner_history, tried, winner_history)
      /\ Hotkeys(winner_history) \subseteq retained
  BY <1>1 DEF Contest, Won
<1>5. /\ Below({}, disk.winner_history, tried, winner_history')
      /\ Hotkeys(winner_history') \subseteq Hotkeys(winner_history)
  <2>1. \/ DOMAIN winner_history' = DOMAIN winner_history
           /\ \A i \in DOMAIN winner_history' :
                 winner_history'[i].hotkey = winner_history[i].hotkey
        \/ \A i \in DOMAIN winner_history' :
                 /\ i \in Nat /\ i + 1 \in DOMAIN winner_history /\ i + 1 # 1
                 /\ winner_history'[i].hotkey = winner_history[i + 1].hotkey
    <3>1. winner_history' \in Seq(Entry)
      <4>1. IInv'
        BY <1>1, NextInv DEF Next, Round
      <4>. QED
        BY <4>1 DEF IInv, TypeOK
    <3>2. \A i \in DOMAIN winner_history' : i \in Nat
      BY <3>1
    <3>. QED
      BY <1>1, <3>2, RefreshedFrom
  <2>. HIDE DEF tried
  <2>. QED
    BY <1>2, <1>4, <2>1, BelowRefreshed
<1>6. \A k \in challengers : scores'[k] # None
  <2>. SUFFICES ASSUME NEW k \in challengers PROVE scores'[k] # None
    OBVIOUS
  <2>1. k \in Key /\ k[1] \in Evaluated
    BY <1>2 DEF Evaluated
  <2>. QED
    BY <1>1, <2>1, FirstValidIsTheOne, ScoredWithEffect
<1>7. ASSUME NEW k \in Key, scores'[k] # None, disk.scores[k] = None
      PROVE  k \in challengers
  <2>1. CASE scores[k] # None
    BY <1>7, <2>1 DEF Contest
  <2>2. CASE scores[k] = None
    <3>1. k[1] \in Evaluated
      BY <1>1, <1>7, <2>2, ScoredWithEffect
    <3>2. CASE \E c \in challengers : c[1] = k[1]
      BY <1>2, <3>2, OneKey
    <3>3. CASE IncumbentEvaluated /\ winner_history[1].hotkey = k[1]
      <4>1. 1 \in DOMAIN winner_history
        BY <1>2, <3>3 DEF IncumbentEvaluated
      <4>2. EntryKey(winner_history[1]) \in Key /\ EntryKey(winner_history[1])[1] = k[1]
        BY <1>2, <3>3, <4>1, LadderKeys DEF EntryKey
      <4>3. EntryKey(winner_history[1]) = k
        BY <4>2, OneKey
      <4>. QED
        BY <2>2, <4>1, <4>3 DEF NothingDropped, Scored
    <3>. QED
      BY <3>1, <3>2, <3>3 DEF Evaluated
  <2>. QED
    BY <2>1, <2>2
<1>. QED
  BY <1>1, <1>3, <1>4, <1>5, <1>6, <1>7, NobodyOnTop DEF Contest

\* Every rung of a ladder is one lower in the next, as far as the ladder reaches.
Lowered(history, new) ==
    /\ \A i \in DOMAIN new : i # 1 =>
          i - 1 \in DOMAIN history /\ new[i].hotkey = history[i - 1].hotkey
    /\ \A i \in DOMAIN history : i < HistoryDepth =>
          i + 1 \in DOMAIN new /\ new[i + 1].hotkey = history[i].hotkey

\* A promotion puts the winner on top of those that fit under it.
LEMMA PromotedOnTop ==
    ASSUME IInv, NEW c \in Key, Promote(c),
           \A i \in DOMAIN winner_history : /\ winner_history[i].hotkey \in retained
                                            /\ winner_history[i].hotkey # c[1]
    PROVE  /\ 1 \in DOMAIN winner_history' /\ winner_history'[1].hotkey = c[1]
           /\ Lowered(winner_history, winner_history')
<1>. DEFINE winner == as_winner(c, scores[c])
            crowned == [winner EXCEPT
                           !.improvement = ImprovementOver(current_ratio, winner.ratio)]
            longer == <<crowned>> \o winner_history
            eligible == retained \cup {winner.hotkey}
<1>1. /\ c \in pending /\ phase = "gauntlet"
      /\ winner_history' = promote_winner(winner_history, winner, retained, current_ratio)
  BY DEF Promote
<1>2. winner.hotkey = c[1] /\ crowned.hotkey = c[1]
  BY DEF as_winner
<1>3. winner_history \in Seq(Entry)
  BY DEF IInv, TypeOK
<1>4. winner_history' = compact_history(longer, eligible)
  BY <1>1 DEF promote_winner
<1>. HIDE DEF winner, crowned
<1>5. /\ longer \in Seq(Entry \cup {crowned}) /\ longer[1] = crowned
      /\ 1 \in DOMAIN longer
      /\ \A i \in DOMAIN longer : i \in Nat /\ i >= 1
      /\ \A i \in DOMAIN longer :
            i # 1 => i - 1 \in DOMAIN winner_history /\ longer[i] = winner_history[i - 1]
      /\ \A i \in DOMAIN winner_history :
            i \in Nat /\ i + 1 \in DOMAIN longer /\ longer[i + 1] = winner_history[i]
  BY <1>3
<1>. HIDE DEF longer
<1>6. \A i \in DOMAIN longer : longer[i].hotkey \in eligible
  BY <1>2, <1>5
<1>7. ASSUME NEW i \in DOMAIN longer, NEW j \in DOMAIN longer,
             longer[i].hotkey = longer[j].hotkey
      PROVE  i = j
  <2>1. CASE i = 1 \/ j = 1
    <3>1. longer[1].hotkey = c[1]
      BY <1>2, <1>5
    <3>2. \A m \in DOMAIN longer : m # 1 => longer[m].hotkey # c[1]
      BY <1>5
    <3>. QED
      BY <1>7, <2>1, <3>1, <3>2
  <2>2. CASE i # 1 /\ j # 1
    <3>1. winner_history[i - 1].hotkey = winner_history[j - 1].hotkey
          /\ i - 1 \in DOMAIN winner_history /\ j - 1 \in DOMAIN winner_history
      BY <1>5, <1>7, <2>2
    <3>2. i - 1 = j - 1
      BY <3>1 DEF IInv, WellBuilt
    <3>3. i \in Nat /\ j \in Nat
      BY <1>5
    <3>. QED
      BY <3>2, <3>3
  <2>. QED
    BY <2>1, <2>2
<1>. HIDE DEF eligible
<1>8. /\ DOMAIN winner_history' = {i \in DOMAIN longer : i <= HistoryDepth}
      /\ \A i \in DOMAIN winner_history' : winner_history'[i] = longer[i]
  <2>1. longer \in Seq(Entry \cup {crowned})
    BY <1>5
  <2>2. \A i, j \in DOMAIN longer : longer[i].hotkey = longer[j].hotkey => i = j
    BY <1>7
  <2>3. LET compacted == compact_history(longer, eligible)
        IN  /\ DOMAIN compacted = {i \in DOMAIN longer : i <= HistoryDepth}
            /\ \A i \in DOMAIN compacted : compacted[i] = longer[i]
    <3>. DEFINE E == Entry \cup {crowned}
    <3>. HIDE DEF E
    <3>1. longer \in Seq(E)
      BY <2>1 DEF E
    <3>. QED
      BY <1>6, <2>2, <3>1, CompactCutsOff
  <2>. QED
    BY <1>4, <2>3
<1>9. 1 \in DOMAIN winner_history'
  BY <1>5, <1>8, LadderAssumption
<1>10. Lowered(winner_history, winner_history')
  <2>1. \A i \in DOMAIN winner_history : i < HistoryDepth => i + 1 <= HistoryDepth
    <3>. HIDE DEF Lowered
    <3>1. \A i \in DOMAIN winner_history : i \in Nat
      BY <1>5
    <3>. QED
      BY <3>1, LadderAssumption
  <2>2. \A i \in DOMAIN winner_history : i < HistoryDepth =>
            /\ i + 1 \in DOMAIN winner_history'
            /\ winner_history'[i + 1] = winner_history[i]
    BY <1>5, <1>8, <2>1
  <2>3. \A i \in DOMAIN winner_history' : i # 1 =>
            /\ i - 1 \in DOMAIN winner_history
            /\ winner_history'[i] = winner_history[i - 1]
    BY <1>5, <1>8
  <2>. QED
    BY <2>2, <2>3 DEF Lowered
<1>. QED
  BY <1>2, <1>5, <1>8, <1>9, <1>10

\* With one more winner on top of the ladder, the winners stand over the others and
\* those below in their order still.
LEMMA OneMoreOnTop ==
    ASSUME NEW h, NEW winners, NEW old, NEW tried,
           NEW history \in Seq(Entry), NEW new \in Seq(Entry),
           DOMAIN history \subseteq 1..HistoryDepth, DOMAIN new \subseteq 1..HistoryDepth,
           \A i \in DOMAIN history : history[i].hotkey # h,
           1 \in DOMAIN new, new[1].hotkey = h,
           Lowered(history, new),
           Over(winners, history), Below(winners, old, tried, history)
    PROVE  Over(winners \cup {h}, new) /\ Below(winners \cup {h}, old, tried, new)
<1>. DEFINE top == Top(history, winners)
            newTop == Top(new, winners \cup {h})
            below == DOMAIN history \ top
            newBelow == DOMAIN new \ newTop
<1>1. /\ HistoryDepth \in Nat /\ HistoryDepth >= 1
      /\ \A i \in DOMAIN history : i \in Nat /\ i >= 1
      /\ \A i \in DOMAIN new : i \in Nat /\ i >= 1 /\ i <= HistoryDepth
  <2>1. HistoryDepth \in Nat /\ HistoryDepth >= 1
    BY LadderAssumption
  <2>2. \A i \in 1..HistoryDepth : i \in Nat /\ i >= 1 /\ i <= HistoryDepth
    BY <2>1
  <2>. QED
    BY <2>1, <2>2
<1>2. ASSUME NEW i \in DOMAIN new, i # 1
      PROVE  /\ i - 1 \in DOMAIN history /\ new[i].hotkey = history[i - 1].hotkey
             /\ i \in newTop <=> i - 1 \in top
             /\ i \in newBelow <=> i - 1 \in below
  <2>2. i - 1 \in DOMAIN history /\ new[i].hotkey = history[i - 1].hotkey
    BY <1>2 DEF Lowered
  <2>3. i \in newTop <=> i - 1 \in top
    BY <2>2 DEF Top
  <2>. QED
    BY <2>2, <2>3
<1>3. 1 \in newTop /\ 1 \notin newBelow
  BY DEF Top
<1>4. top \subseteq DOMAIN history /\ newTop \subseteq DOMAIN new
  BY DEF Top
<1>5. \A i \in top, j \in below : i < j
  BY DEF Over
<1>6. winners \subseteq Hotkeys(history) \/ top = 1..HistoryDepth
  BY DEF Over
<1>7. Stay(old, history, below) \/ Recovered(old, tried, history, below)
  BY DEF Below
<1>. HIDE DEF top, newTop, below
<1>8. ASSUME NEW i \in newTop, NEW j \in newBelow
      PROVE  i < j
  <2>1. j # 1 /\ j \in DOMAIN new /\ i \in DOMAIN new
    BY <1>3, <1>4
  <2>2. CASE i = 1
    BY <1>1, <2>1, <2>2
  <2>3. CASE i # 1
    <3>1. i - 1 \in top /\ j - 1 \in below
      BY <1>2, <2>1, <2>3
    <3>2. i - 1 < j - 1
      BY <1>5, <3>1
    <3>. QED
      BY <1>1, <2>1, <3>2
  <2>. QED
    BY <2>2, <2>3
<1>9. winners \cup {h} \subseteq Hotkeys(new) \/ newTop = 1..HistoryDepth
  <2>1. CASE HistoryDepth \in DOMAIN history /\ HistoryDepth \in top
    <3>1. \A i \in DOMAIN history : i \in top
      <4>. SUFFICES ASSUME NEW i \in DOMAIN history, i \in below PROVE FALSE
        BY DEF below
      <4>1. HistoryDepth < i
        BY <1>5, <2>1
      <4>. QED
        BY <1>1, <4>1
    <3>2. DOMAIN history = 1..HistoryDepth
      <4>1. DOMAIN history = 1..Len(history) /\ Len(history) \in Nat
        OBVIOUS
      <4>2. Len(history) >= HistoryDepth
        BY <2>1, <4>1
      <4>3. Len(history) = HistoryDepth
        <5>1. Len(history) \in DOMAIN history
          BY <1>1, <4>1, <4>2
        <5>2. Len(history) \in 1..HistoryDepth
          BY <5>1
        <5>3. Len(history) <= HistoryDepth
          BY <1>1, <5>2
        <5>4. Len(history) \in Int /\ HistoryDepth \in Int
          BY <1>1, <4>1
        <5>. QED
          BY <4>2, <5>3, <5>4
      <4>. QED
        BY <4>1, <4>3
    <3>3. ASSUME NEW i \in 1..HistoryDepth
          PROVE  i \in newTop
      <4>1. CASE i = 1
        BY <1>3, <4>1
      <4>2. CASE i # 1
        <5>1. i - 1 \in 1..HistoryDepth /\ i - 1 < HistoryDepth /\ (i - 1) + 1 = i
          BY <1>1, <4>2
        <5>2. i - 1 \in DOMAIN history
          BY <3>2, <5>1
        <5>3. i \in DOMAIN new
          BY <5>1, <5>2 DEF Lowered
        <5>. QED
          BY <1>2, <3>1, <4>2, <5>2, <5>3
      <4>. QED
        BY <4>1, <4>2
    <3>. QED
      BY <1>4, <3>3
  <2>2. CASE ~(HistoryDepth \in DOMAIN history /\ HistoryDepth \in top)
    <3>1. winners \subseteq Hotkeys(history)
      <4>1. HistoryDepth \in 1..HistoryDepth
        BY <1>1
      <4>. QED
        BY <1>4, <1>6, <2>2, <4>1
    <3>2. ASSUME NEW w \in winners
          PROVE  w \in Hotkeys(new)
      <4>1. PICK i \in DOMAIN history : history[i].hotkey = w
        BY <3>1, <3>2 DEF Hotkeys
      <4>2. i \in top
        BY <4>1 DEF top, Top
      <4>3. i # HistoryDepth /\ i \in Nat /\ i # 0 /\ i \in 1..HistoryDepth
        <5>1. i \in 1..HistoryDepth
          BY <4>1
        <5>. QED
          BY <1>1, <2>2, <4>1, <4>2, <5>1
      <4>4. i < HistoryDepth
        BY <1>1, <4>3
      <4>5. i + 1 \in DOMAIN new /\ new[i + 1].hotkey = w
        BY <4>1, <4>4 DEF Lowered
      <4>. QED
        BY <4>5 DEF Hotkeys
    <3>3. h \in Hotkeys(new)
      BY DEF Hotkeys
    <3>. QED
      BY <3>2, <3>3
  <2>. QED
    BY <2>1, <2>2
<1>10. Stay(old, new, newBelow) \/ Recovered(old, tried, new, newBelow)
  <2>1. \A i \in newBelow : /\ i \in DOMAIN new /\ i # 1 /\ i \in Nat
                            /\ i - 1 \in below /\ new[i].hotkey = history[i - 1].hotkey
    BY <1>1, <1>2, <1>3
  <2>. HIDE DEF newBelow
  <2>2. CASE Stay(old, history, below)
    <3>1. \A i \in newBelow : new[i].hotkey \in Hotkeys(old)
      BY <2>1, <2>2 DEF Stay
    <3>2. ASSUME NEW i \in newBelow, NEW j \in newBelow, i < j
          PROVE  \E m, n \in DOMAIN old : /\ m < n
                     /\ new[i].hotkey = old[m].hotkey /\ new[j].hotkey = old[n].hotkey
      <4>1. i - 1 \in below /\ j - 1 \in below /\ i - 1 < j - 1
        BY <2>1, <3>2
      <4>2. \E m, n \in DOMAIN old : /\ m < n
                /\ history[i - 1].hotkey = old[m].hotkey
                /\ history[j - 1].hotkey = old[n].hotkey
        BY <2>2, <4>1 DEF Stay
      <4>. QED
        BY <2>1, <4>2
    <3>. QED
      BY <3>1, <3>2 DEF Stay
  <2>3. CASE Recovered(old, tried, history, below)
    <3>1. PICK k \in below : below = {k} /\ history[k].hotkey \in tried \ Hotkeys(old)
      BY <2>3 DEF Recovered
    <3>2. CASE newBelow = {}
      BY <3>2 DEF Stay
    <3>3. CASE newBelow # {}
      <4>1. PICK i : i \in newBelow
        BY <3>3
      <4>2. \A j \in newBelow : j - 1 = k /\ j \in Nat
        BY <2>1, <3>1
      <4>3. i \in Nat /\ i - 1 = k
        BY <4>1, <4>2
      <4>4. \A j \in newBelow : j = i
        BY <4>2, <4>3
      <4>5. newBelow = {i} /\ new[i].hotkey = history[k].hotkey
        BY <2>1, <4>1, <4>3, <4>4
      <4>. QED
        BY <3>1, <4>5 DEF Recovered
    <3>. QED
      BY <3>2, <3>3
  <2>. QED
    BY <1>7, <2>2, <2>3
<1>. QED
  BY <1>8, <1>9, <1>10 DEF Over, Below, newTop

LEMMA ContestPromote ==
    ASSUME OneCommitment, NEW c \in Key
    PROVE  IInv /\ NothingDropped /\ Apart /\ Contest /\ Promote(c) => Contest'
<1>. SUFFICES ASSUME IInv, NothingDropped, Apart, Contest, Promote(c) PROVE Contest'
  OBVIOUS
<1>. DEFINE old == disk.winner_history
            tried == Tried(disk.scores)
<1>1. /\ phase = "gauntlet" /\ c \in pending /\ pending' = pending \ {c}
      /\ UNCHANGED <<disk, commitments, scores, excluded_hotkeys, phase, retained, challengers>>
  BY DEF Promote
<1>2. c \in challengers /\ c[1] \in retained /\ c[1] \notin excluded_hotkeys
  BY <1>1 DEF NothingDropped, Contest, Apart
<1>3. Won' = Won \cup {c[1]}
  BY <1>1, <1>2 DEF Won
<1>4. Over(Won, winner_history) /\ Below(Won, old, tried, winner_history)
  BY <1>1 DEF Contest
<1>5. ASSUME NEW i \in DOMAIN winner_history
      PROVE  winner_history[i].hotkey \in retained /\ winner_history[i].hotkey # c[1]
  <2>1. winner_history[i].hotkey \in retained
    BY <1>1 DEF Contest, Hotkeys
  <2>2. EntryKey(winner_history[i]) \in Key
        /\ EntryKey(winner_history[i])[1] = winner_history[i].hotkey
    BY LadderKeys DEF IInv, TypeOK, EntryKey
  <2>3. EntryKey(winner_history[i]) # c
    BY <1>1 DEF Apart
  <2>. QED
    BY <2>1, <2>2, <2>3, OneKey
<1>6. /\ 1 \in DOMAIN winner_history' /\ winner_history'[1].hotkey = c[1]
      /\ Lowered(winner_history, winner_history')
  BY <1>5, PromotedOnTop
<1>7. /\ winner_history \in Seq(Entry) /\ winner_history' \in Seq(Entry)
      /\ DOMAIN winner_history \subseteq 1..HistoryDepth
      /\ DOMAIN winner_history' \subseteq 1..HistoryDepth
  <2>1. WellBuilt(winner_history) /\ WellBuilt(winner_history')
    <3>1. IInv'
      BY NextInv DEF Next, Round
    <3>. QED
      BY <3>1 DEF IInv
  <2>. QED
    BY <2>1, FitsTheDepth DEF WellBuilt
<1>8. /\ Over(Won \cup {c[1]}, winner_history')
      /\ Below(Won \cup {c[1]}, old, tried, winner_history')
  <2>. HIDE DEF old, tried
  <2>. QED
    BY <1>4, <1>5, <1>6, <1>7, OneMoreOnTop
<1>9. Hotkeys(winner_history') \subseteq retained
  <2>. SUFFICES ASSUME NEW i \in DOMAIN winner_history'
                PROVE  winner_history'[i].hotkey \in retained
    BY DEF Hotkeys
  <2>1. CASE i = 1
    BY <1>2, <1>6, <2>1
  <2>2. CASE i # 1
    BY <1>5, <1>6, <2>2 DEF Lowered
  <2>. QED
    BY <2>1, <2>2
<1>. QED
  BY <1>1, <1>3, <1>8, <1>9 DEF Contest

LEMMA ContestReject ==
    ASSUME OneCommitment, NEW c \in Key
    PROVE  IInv /\ Contest /\ Reject(c) => Contest'
<1>. SUFFICES ASSUME IInv, Contest, Reject(c) PROVE Contest'
  OBVIOUS
<1>1. /\ phase = "gauntlet" /\ c \in pending /\ pending' = pending \ {c}
      /\ excluded_hotkeys' = excluded_hotkeys \cup {c[1]}
      /\ UNCHANGED <<disk, scores, winner_history, phase, retained, challengers>>
  BY DEF Reject
<1>2. Won' = Won
  <2>1. challengers \subseteq Key
    BY DEF IInv, TypeOK
  <2>2. \A k \in challengers : k[1] = c[1] => k = c
    BY <2>1, OneKey
  <2>. QED
    BY <1>1, <2>2 DEF Won
<1>. QED
  BY <1>1, <1>2 DEF Contest

LEMMA ContestNext ==
    ASSUME OneVersion, OneCommitment
    PROVE  IInv /\ NothingDropped /\ Apart /\ Contest /\ [Next]_vars => Contest'
<1>. SUFFICES ASSUME IInv, NothingDropped, Apart, Contest, [Next]_vars PROVE Contest'
  OBVIOUS
<1>1. CASE StartRound
  BY <1>1, ContestStartRound
<1>2. CASE Evaluate
  BY <1>2, ContestEvaluate
<1>3. CASE EvaluateRaises
  BY <1>3 DEF EvaluateRaises, Contest, Won, memory, locals
<1>4. CASE Publish
  BY <1>4 DEF Publish, Contest, Won, memory, locals
<1>5. CASE Save
  BY <1>5 DEF Save, ForgetRound, Contest, memory
<1>6. CASE Abort \/ Release
  BY <1>6 DEF Abort, Release, DropMemory, ForgetRound, Contest
<1>7. ASSUME NEW c \in Key, Promote(c)
      PROVE  Contest'
  BY <1>7, ContestPromote
<1>8. ASSUME NEW c \in Key, Reject(c)
      PROVE  Contest'
  BY <1>8, ContestReject
<1>9. CASE Poll
  <2>1. disk' = disk
    BY <1>9, PollWritesNothing
  <2>2. /\ phase = "idle" /\ scores' = disk.scores /\ excluded_hotkeys' = disk.excluded_hotkeys
        /\ UNCHANGED <<commitments, winner_history, phase, locals>>
    BY <1>9, OneVersionLoads DEF Poll, IInv
  <2>. QED
    BY <2>1, <2>2 DEF Contest, locals
<1>10. CASE Tick
  BY <1>10 DEF Tick, Contest, Won, memory, locals
<1>11. ASSUME NEW h \in Hotkey, NEW a \in Artifact \cup {None}, Post(h, a)
       PROVE  Contest'
  BY <1>11 DEF Post, Contest, Won, memory, locals
<1>12. CASE UNCHANGED vars
  BY <1>12 DEF vars, Contest, Won, memory, locals
<1>. QED
  BY <1>1, <1>2, <1>3, <1>4, <1>5, <1>6, <1>7, <1>8, <1>9, <1>10, <1>11, <1>12 DEF Next, Round

LEMMA ContestInvariance ==
    ASSUME OneVersion, OneCommitment PROVE Spec => []Contest
<1>1. Init => Contest
  BY DEF Init, EmptyState, Contest
<1>2. IInv /\ NothingDropped /\ Apart /\ Contest /\ [Next]_vars => Contest'
  BY ContestNext
<1>. QED
  BY <1>1, <1>2, Invariance, OneVersionInvariance, ApartInvariance, PTL DEF Spec

\* What the file shows of the contest: who stands, who has been tried, who is out.
LEMMA SaveIsARound ==
    ASSUME OneCommitment, IInv, NothingDropped, Apart, Contest, Save
    PROVE  Promise!Round
<1>. DEFINE old == disk.winner_history
            new == winner_history
            taken == Tried(scores) \ Tried(disk.scores)
            crowned == taken \ excluded_hotkeys
<1>1. /\ phase = "done"
      /\ disk'.scores = scores /\ disk'.winner_history = winner_history
      /\ disk'.excluded_hotkeys = excluded_hotkeys
  BY DEF Save
<1>2. challengers \subseteq Key /\ pending = {}
  BY <1>1 DEF IInv, TypeOK, NothingDropped
<1>3. Tried(disk.scores) \subseteq Tried(scores) /\ disk.excluded_hotkeys \subseteq excluded_hotkeys
  BY DEF NothingDropped, Contest, Tried
<1>4. Tried(scores) \subseteq Hotkey /\ excluded_hotkeys \subseteq Hotkey
  BY KeyParts DEF Tried, IInv, TypeOK
<1>5. taken = {k[1] : k \in challengers}
  <2>1. ASSUME NEW h \in taken
        PROVE  \E k \in challengers : h = k[1]
    <3>1. PICK k \in Key : scores[k] # None /\ h = k[1]
      BY DEF Tried
    <3>2. disk.scores[k] = None
      BY <3>1 DEF Tried
    <3>. QED
      BY <3>1, <3>2 DEF Contest
  <2>2. ASSUME NEW k \in challengers
        PROVE  k[1] \in taken
    <3>1. scores[k] # None /\ disk.scores[k] = None
      BY <1>1 DEF Contest, NothingDropped
    <3>2. k[1] \notin Tried(disk.scores)
      BY <1>2, <3>1, OneKey DEF Tried
    <3>. QED
      BY <1>2, <3>1, <3>2 DEF Tried
  <2>. QED
    BY <2>1, <2>2
<1>6. taken \cap disk.excluded_hotkeys = {}
  BY <1>5 DEF Contest
<1>7. Won = crowned
  BY <1>1, <1>2, <1>5 DEF Won
<1>8. Over(crowned, new) /\ Below(crowned, old, Tried(disk.scores), new)
  BY <1>1, <1>7 DEF Contest
<1>9. /\ DOMAIN new \subseteq 1..HistoryDepth
      /\ \A i, j \in DOMAIN new : new[i].hotkey = new[j].hotkey => i = j
      /\ \A i \in DOMAIN new : new[i].hotkey \notin excluded_hotkeys
  BY FitsTheDepth DEF IInv, WellBuilt, Apart, Standing
<1>. DEFINE ladder == [i \in DOMAIN old |-> old[i].hotkey]
            next == [i \in DOMAIN new |-> new[i].hotkey]
            below == DOMAIN new \ Top(new, crowned)
<1>10. /\ Promise!Standing = Hotkeys(old)
       /\ (Promise!Standing)' = Hotkeys(new)
  <2>1. Promise!Standing = {ladder[i] : i \in DOMAIN ladder}
    BY DEF Promise!Standing
  <2>2. (Promise!Standing)' = {next[i] : i \in DOMAIN next}
    BY <1>1 DEF Promise!Standing
  <2>. QED
    BY <2>1, <2>2 DEF Hotkeys
<1>11. Promise!StillStanding(below) \/ Promise!ComesBack(below)
  <2>1. CASE Stay(old, new, below)
    BY <1>1, <1>10, <2>1 DEF Promise!StillStanding, Stay, Top
  <2>2. CASE Recovered(old, Tried(disk.scores), new, below)
    BY <1>1, <1>10, <2>2 DEF Promise!ComesBack, Recovered, Tried, Top
  <2>. QED
    BY <1>8, <2>1, <2>2 DEF Below
<1>12. Promise!Crown((Tried(disk'.scores) \ Tried(disk.scores)) \ disk'.excluded_hotkeys)
  <2>. DEFINE winners == (Tried(disk'.scores) \ Tried(disk.scores)) \ disk'.excluded_hotkeys
              saved == [i \in DOMAIN disk'.winner_history |-> disk'.winner_history[i].hotkey]
              top == {i \in DOMAIN saved : saved[i] \in winners}
  <2>. HIDE DEF crowned
  <2>1. winners = crowned
    BY <1>1 DEF crowned
  <2>. HIDE DEF winners
  <2>2. top = Top(new, crowned) /\ DOMAIN saved \ top = below
    BY <1>1, <2>1 DEF Top
  <2>3. \A i \in top, j \in DOMAIN saved \ top : i < j
    BY <1>8, <2>2 DEF Over
  <2>4. winners \subseteq (Promise!Standing)' \/ top = 1..HistoryDepth
    BY <1>8, <1>10, <2>1, <2>2 DEF Over
  <2>5. Promise!StillStanding(DOMAIN saved \ top) \/ Promise!ComesBack(DOMAIN saved \ top)
    BY <1>11, <2>2 DEF Promise!StillStanding, Promise!ComesBack
  <2>. QED
    BY <2>3, <2>4, <2>5 DEF Promise!Crown, winners
<1>13. (Promise!Ordered)'
  <2>1. Hotkeys(new) \cap excluded_hotkeys = {}
    BY <1>9 DEF Hotkeys
  <2>. QED
    BY <1>1, <1>9, <1>10, <2>1 DEF Promise!Ordered
<1>14. /\ Tried(disk.scores) \subseteq Tried(disk'.scores)
       /\ disk.excluded_hotkeys \subseteq disk'.excluded_hotkeys
       /\ Tried(disk'.scores) \subseteq Hotkey /\ disk'.excluded_hotkeys \subseteq Hotkey
       /\ (Tried(disk'.scores) \ Tried(disk.scores)) \cap disk.excluded_hotkeys = {}
  BY <1>1, <1>3, <1>4, <1>6
<1>. QED
  BY <1>12, <1>13, <1>14 DEF Promise!Round, Tried

\* The file implements OneShot: every save, with all that a round did before it, is one
\* round of the contest, in which newcomers take their one shot, the winners stand on top
\* in front of those who stay, and the losers are out; no poll, lost round or restart
\* shows (run_once, validator/service.py, with save_state), while the scoring version
\* stays and a hotkey commits once.
THEOREM RoundsKeepThePromise ==
    ASSUME OneVersion, OneCommitment PROVE Spec => KeepsThePromise
<1>1. Init => Promise!Init
  BY DEF Init, EmptyState, Promise!Init
<1>2. IInv /\ NothingDropped /\ Apart /\ Contest /\ [Next]_vars
          => [Promise!Round]_(Promise!contest)
  <2>. SUFFICES ASSUME IInv, NothingDropped, Apart, Contest, [Next]_vars
                PROVE  Promise!Round \/ UNCHANGED Promise!contest
    OBVIOUS
  <2>1. CASE disk' = disk
    BY <2>1 DEF Promise!contest
  <2>2. CASE disk' # disk
    <3>1. Save
      BY <2>2, OnlySaveAndPollWrite, PollWritesNothing
    <3>. QED
      BY <3>1, SaveIsARound
  <2>. QED
    BY <2>1, <2>2
<1>. QED
  BY <1>1, <1>2, Invariance, OneVersionInvariance, ApartInvariance, ContestInvariance, PTL
     DEF Spec, KeepsThePromise, Promise!Spec
=============================================================================
