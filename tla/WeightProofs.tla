------------------------------ MODULE WeightProofs ------------------------------
(***************************************************************************)
(* Proofs about WeightSetting, for every deployment, schedule, rate limit  *)
(* and bound.                                                              *)
(***************************************************************************)
EXTENDS WeightSetting, FiniteSetTheorems, TLAPS

\* A cycle belongs to the release that runs it: a release or a rollback ends the cycle.
CycleOfTheVersion ==
    \A p \in Process : phase[p] # "idle" => cycle[p].version = key[p]

\* What a cycle has read of the height is a height the chain had.
CycleOfAHeight == \A p \in Process : cycle[p].block \in 0..MaxBlock

\* The burning tempo of a window, by the schedule that outputs seed.
scheduled(outputs, window, tempo) ==
    BURN_ENABLED /\ tempo % BURN_WINDOW_TEMPOS = BurnPosition[derive_burn_seed(outputs)][window]

\* All that is noted under one schedule lies in its window and burns as it says.
Noted(d) ==
    \E outputs \in Seed \cup {None}, anchor \in Nat, window \in 0..MaxBlock :
        /\ d.schedule = <<outputs, anchor, window>>
        /\ \A t \in d.tempos :
              /\ t[1] \in Nat /\ t[1] \div BURN_WINDOW_TEMPOS = window
              /\ t[2] <=> scheduled(outputs, window, t[1])

DecidedBySchedule ==
    /\ DOMAIN decided = Process
    /\ \A p \in Process : decided[p] # None => Noted(decided[p])

IInv ==
    /\ TypeOK
    /\ CycleOfTheVersion
    /\ CycleOfAHeight
    /\ DecidedBySchedule

-----------------------------------------------------------------------------
(* The schedule.                                                           *)

LEMMA Division ==
  ASSUME NEW a \in Nat, NEW b \in Nat \ {0}
  PROVE  /\ a \div b \in Nat /\ a % b \in 0..(b - 1)
         /\ a = b * (a \div b) + (a % b)
         /\ a \div b <= a
  OBVIOUS

\* The tempos of a window are as many as BURN_WINDOW_TEMPOS says.
LEMMA WindowIsAnInterval ==
  ASSUME NEW t \in Nat, NEW w \in Nat, t \div BURN_WINDOW_TEMPOS = w
  PROVE  /\ t \in (BURN_WINDOW_TEMPOS * w)..(BURN_WINDOW_TEMPOS * w + BURN_WINDOW_TEMPOS - 1)
         /\ t = BURN_WINDOW_TEMPOS * w + (t % BURN_WINDOW_TEMPOS)
  <1>1. BURN_WINDOW_TEMPOS \in Nat \ {0}
    BY WeightSettingAssumption
  <1>2. /\ t % BURN_WINDOW_TEMPOS \in 0..(BURN_WINDOW_TEMPOS - 1)
        /\ t = BURN_WINDOW_TEMPOS * w + (t % BURN_WINDOW_TEMPOS)
    BY <1>1, Division
  <1>3. BURN_WINDOW_TEMPOS * w \in Nat
    BY <1>1
  <1>. DEFINE first == BURN_WINDOW_TEMPOS * w
              rest == t % BURN_WINDOW_TEMPOS
  <1>. HIDE DEF first, rest
  <1>4. first \in Nat /\ rest \in 0..(BURN_WINDOW_TEMPOS - 1) /\ t = first + rest
    BY <1>2, <1>3 DEF first, rest
  <1>5. t \in first..(first + BURN_WINDOW_TEMPOS - 1)
    BY <1>1, <1>4
  <1>. QED
    BY <1>2, <1>5 DEF first

\* A window index is a height at most.
LEMMA IndexBounds ==
  ASSUME NEW b \in 0..MaxBlock, NEW anchor \in Nat
  PROVE  /\ tempo_index(b, anchor) \in Nat
         /\ window_index(b, anchor) \in 0..MaxBlock
         /\ tempo_index(b, anchor) \div BURN_WINDOW_TEMPOS = window_index(b, anchor)
  <1>1. Tempo \in Nat \ {0} /\ BURN_WINDOW_TEMPOS \in Nat \ {0} /\ MaxBlock \in Nat
    BY WeightSettingAssumption
  <1>. DEFINE d == IF b > anchor THEN b - anchor ELSE 0
  <1>2. d \in Nat /\ d <= MaxBlock
    BY <1>1
  <1>. HIDE DEF d
  <1>3. d \div Tempo \in Nat /\ d \div Tempo <= d
    BY <1>1, <1>2, Division
  <1>. DEFINE i == d \div Tempo
  <1>. HIDE DEF i
  <1>4. i \in Nat /\ i <= MaxBlock
    BY <1>1, <1>2, <1>3 DEF i
  <1>5. i \div BURN_WINDOW_TEMPOS \in Nat /\ i \div BURN_WINDOW_TEMPOS <= i
    BY <1>1, <1>4, Division
  <1>6. i \div BURN_WINDOW_TEMPOS \in 0..MaxBlock
    BY <1>1, <1>4, <1>5
  <1>7. tempo_index(b, anchor) = i
    BY DEF tempo_index, i, d
  <1>8. window_index(b, anchor) = i \div BURN_WINDOW_TEMPOS
    BY <1>7 DEF window_index
  <1>. QED
    BY <1>4, <1>6, <1>7, <1>8

\* What is noted under one schedule says what OneBurnPerWindow says, if the schedule is on.
LEMMA NotedBurnsOnce ==
  ASSUME NEW d, Noted(d), BURN_ENABLED
  PROVE  LET burning == {t[1] : t \in {u \in d.tempos : u[2]}}
             paying == {t[1] : t \in {u \in d.tempos : ~u[2]}}
         IN  /\ Cardinality(burning) <= 1 /\ burning \cap paying = {}
             /\ Cardinality(burning \cup paying) = BURN_WINDOW_TEMPOS => burning # {}
  <1>. DEFINE burning == {t[1] : t \in {u \in d.tempos : u[2]}}
              paying == {t[1] : t \in {u \in d.tempos : ~u[2]}}
  <1>1. PICK outputs \in Seed \cup {None}, window \in 0..MaxBlock :
           \A t \in d.tempos :
              /\ t[1] \in Nat /\ t[1] \div BURN_WINDOW_TEMPOS = window
              /\ t[2] <=> scheduled(outputs, window, t[1])
    BY DEF Noted
  <1>. DEFINE position == BurnPosition[derive_burn_seed(outputs)][window]
              first == BURN_WINDOW_TEMPOS * window
              at == first + position
  <1>2. /\ window \in Nat /\ position \in 0..(BURN_WINDOW_TEMPOS - 1)
        /\ BURN_WINDOW_TEMPOS \in Nat \ {0}
    BY WeightSettingAssumption DEF derive_burn_seed
  <1>3. first \in Nat
    BY <1>2
  <1>4. ASSUME NEW t \in burning
        PROVE  t = at
    <2>1. /\ t \in Nat /\ t \div BURN_WINDOW_TEMPOS = window
          /\ t % BURN_WINDOW_TEMPOS = position
      BY <1>1 DEF scheduled
    <2>. QED
      BY <1>2, <2>1, WindowIsAnInterval
  <1>5. \A t \in burning \cup paying : t \in first..(first + BURN_WINDOW_TEMPOS - 1)
    BY <1>1, <1>2, WindowIsAnInterval
  <1>6. ASSUME NEW t \in paying
        PROVE  t # at
    <2>1. /\ t \in Nat /\ t \div BURN_WINDOW_TEMPOS = window
          /\ t % BURN_WINDOW_TEMPOS # position
      BY <1>1 DEF scheduled
    <2>2. t = first + (t % BURN_WINDOW_TEMPOS) /\ t % BURN_WINDOW_TEMPOS \in Nat
      BY <1>2, <2>1, WindowIsAnInterval
    <2>. HIDE DEF first, position
    <2>. QED
      BY <1>2, <1>3, <2>1, <2>2
  <1>7. at \in first..(first + BURN_WINDOW_TEMPOS - 1)
    <2>. HIDE DEF first, position
    <2>. QED
      BY <1>2, <1>3
  <1>. HIDE DEF burning, paying, at
  <1>8. Cardinality(burning) <= 1
    <2>1. burning \in SUBSET {at}
      BY <1>4
    <2>2. IsFiniteSet({at}) /\ Cardinality({at}) = 1
      BY FS_Singleton
    <2>. QED
      BY <2>1, <2>2, FS_Subset
  <1>9. burning \cap paying = {}
    BY <1>4, <1>6
  <1>10. ASSUME Cardinality(burning \cup paying) = BURN_WINDOW_TEMPOS
         PROVE  burning # {}
    <2>. HIDE DEF first
    <2>. DEFINE all == first..(first + BURN_WINDOW_TEMPOS - 1)
    <2>1. IsFiniteSet(all) /\ Cardinality(all) = BURN_WINDOW_TEMPOS
      <3>. DEFINE last == first + BURN_WINDOW_TEMPOS - 1
      <3>1. last \in Int /\ first \in Int /\ ~(first > last) /\ last - first + 1 = BURN_WINDOW_TEMPOS
        BY <1>2, <1>3
      <3>. HIDE DEF last
      <3>2. IsFiniteSet(first..last) /\ Cardinality(first..last) = BURN_WINDOW_TEMPOS
        BY <3>1, FS_Interval
      <3>. QED
        BY <3>2 DEF last
    <2>2. burning \cup paying \in SUBSET all
      BY <1>5
    <2>. HIDE DEF all
    <2>3. burning \cup paying = all
      BY <1>10, <2>1, <2>2, FS_Subset
    <2>4. at \in all
      BY <1>7 DEF all
    <2>. QED
      BY <1>6, <2>3, <2>4
  <1>. QED
    BY <1>8, <1>9, <1>10 DEF burning, paying

-----------------------------------------------------------------------------
(* Steps.                                                                  *)

LEMMA WeightInit == Init => IInv
  <1>. SUFFICES ASSUME Init PROVE IInv
    OBVIOUS
  <1>. USE WeightSettingAssumption
  <1>1. EmptyCycle \in Cycle /\ EmptyCycle.block = 0
    BY DEF EmptyCycle, Cycle
  <1>2. [anchor |-> None, outputs |-> None] \in StateFile
    BY DEF StateFile
  <1>3. 1 \in 1..MaxBlock /\ 1 \in 1..MaxVersion /\ 0 \in 0..RateLimit
    OBVIOUS
  <1>4. TypeOK
    <2>1. block \in 1..MaxBlock /\ weights_version \in 1..MaxVersion
      BY <1>3, Zenon DEF Init
    <2>2. remaining \in [Process -> 0..RateLimit] /\ key \in [Process -> 1..MaxVersion]
      BY <1>3, Zenon DEF Init
    <2>3. /\ file \in [File -> StateFile]
          /\ cycle \in [Process -> Cycle]
      BY <1>1, <1>2, Zenon DEF Init
    <2>4. /\ kind \in Deployment /\ override \in BOOLEAN
          /\ onchain \in [Process -> Weights \cup {None}]
          /\ phase \in [Process -> {"idle", "started", "evaluated", "decided"}]
      BY DEF Init
    <2>. QED
      BY <2>1, <2>2, <2>3, <2>4, Zenon DEF TypeOK
  <1>. QED
    BY <1>1, <1>4 DEF Init, IInv, CycleOfTheVersion, CycleOfAHeight, DecidedBySchedule

\* What the state of a process and its file look like.
LEMMA ProcessTypes ==
  ASSUME IInv, NEW p \in Process
  PROVE  /\ cycle[p] \in Cycle /\ cycle[p].block \in 0..MaxBlock /\ cycle[p].anchor \in Nat
         /\ cycle[p].outputs \in Seed \cup {None} /\ cycle[p].version \in Nat
         /\ FileOf[p] \in File /\ file[FileOf[p]] \in StateFile
         /\ key[p] \in 1..MaxVersion /\ weights_version \in Nat
  BY WeightSettingAssumption DEF IInv, TypeOK, CycleOfAHeight, Cycle

LEMMA SavedType ==
  ASSUME IInv, NEW p \in Process
  PROVE  Saved(p) \in [File -> StateFile]
  <1>1. [anchor |-> cycle[p].anchor, outputs |-> cycle[p].outputs] \in StateFile
    BY ProcessTypes DEF StateFile
  <1>. QED
    BY <1>1 DEF Saved, IInv, TypeOK

\* A cycle that ends leaves the others and the rest of the state as they are.
LEMMA IdleInv ==
  ASSUME IInv, NEW p \in Process, Idle(p),
         UNCHANGED <<kind, block, weights_version, override, decided>>,
         onchain' \in [Process -> Weights \cup {None}],
         remaining' \in [Process -> 0..RateLimit],
         file' \in [File -> StateFile],
         key' \in [Process -> 1..MaxVersion],
         \A q \in Process : q # p => key'[q] = key[q]
  PROVE  IInv'
  <1>1. EmptyCycle \in Cycle /\ EmptyCycle.block \in 0..MaxBlock
    BY WeightSettingAssumption DEF EmptyCycle, Cycle
  <1>2. TypeOK'
    BY <1>1 DEF IInv, TypeOK, Idle
  <1>3. CycleOfTheVersion'
    BY DEF IInv, TypeOK, Idle, CycleOfTheVersion
  <1>4. CycleOfAHeight'
    BY <1>1 DEF IInv, TypeOK, Idle, CycleOfAHeight
  <1>. QED
    BY <1>2, <1>3, <1>4 DEF IInv, DecidedBySchedule

LEMMA StartInv ==
  ASSUME IInv, NEW p \in Process, NEW read \in BOOLEAN, Start(p, read)
  PROVE  IInv'
  <1>. DEFINE c == [block |-> block, force_burn |-> read /\ override,
                    anchor |-> window_anchor(FileOf[p]), outputs |-> file[FileOf[p]].outputs,
                    version |-> weights_version, burn |-> FALSE]
  <1>1. window_anchor(FileOf[p]) \in Nat /\ file[FileOf[p]].outputs \in Seed \cup {None}
    BY ProcessTypes, WeightSettingAssumption DEF window_anchor, StateFile, IInv, TypeOK
  <1>2. block \in 0..MaxBlock /\ block \in Nat /\ weights_version \in Nat /\ override \in BOOLEAN
    BY WeightSettingAssumption DEF IInv, TypeOK
  <1>3. /\ c \in Cycle /\ c.block \in 0..MaxBlock /\ c.version = weights_version
    BY <1>1, <1>2 DEF Cycle
  <1>4. /\ cycle' = [cycle EXCEPT ![p] = c] /\ key[p] = weights_version
        /\ phase' = [phase EXCEPT ![p] = IF kind[p] = "setter" THEN "evaluated" ELSE "started"]
        /\ UNCHANGED <<kind, block, weights_version, override, onchain, remaining, key, file,
                       decided>>
    BY DEF Start, VersionMatches, chain
  <1>. HIDE DEF c
  <1>5. TypeOK'
    BY <1>3, <1>4 DEF IInv, TypeOK
  <1>6. CycleOfTheVersion'
    BY <1>2, <1>3, <1>4 DEF IInv, TypeOK, CycleOfTheVersion
  <1>7. CycleOfAHeight'
    BY <1>3, <1>4 DEF IInv, TypeOK, CycleOfAHeight
  <1>. QED
    BY <1>4, <1>5, <1>6, <1>7 DEF IInv, DecidedBySchedule

LEMMA EvaluateInv ==
  ASSUME IInv, NEW p \in Process, Evaluate(p)
  PROVE  IInv'
  <1>1. PICK outputs \in Seed \cup {cycle[p].outputs} :
           cycle' = [cycle EXCEPT ![p].outputs = outputs]
    BY DEF Evaluate
  <1>2. /\ phase[p] = "started" /\ phase' = [phase EXCEPT ![p] = "evaluated"]
        /\ UNCHANGED <<kind, block, weights_version, override, onchain, remaining, key, file,
                       decided>>
    BY DEF Evaluate, chain
  <1>. DEFINE c == [cycle[p] EXCEPT !.outputs = outputs]
  <1>3. /\ c \in Cycle /\ c.block = cycle[p].block /\ c.version = cycle[p].version
    BY ProcessTypes DEF Cycle
  <1>4. cycle' = [cycle EXCEPT ![p] = c]
    BY <1>1
  <1>. HIDE DEF c
  <1>5. TypeOK'
    BY <1>2, <1>3, <1>4 DEF IInv, TypeOK
  <1>6. CycleOfTheVersion'
    BY <1>2, <1>3, <1>4 DEF IInv, TypeOK, CycleOfTheVersion
  <1>7. CycleOfAHeight'
    BY <1>3, <1>4 DEF IInv, TypeOK, CycleOfAHeight
  <1>. QED
    BY <1>2, <1>5, <1>6, <1>7 DEF IInv, DecidedBySchedule

\* What a decision adds is in step with the schedule it was made under.
LEMMA DecisionNoted ==
  ASSUME IInv, NEW p \in Process, Decision(p) # None
  PROVE  Noted(Decision(p))
  <1>. DEFINE c == cycle[p]
              i == tempo_index(c.block, c.anchor)
              w == window_index(c.block, c.anchor)
              now == [schedule |-> <<c.outputs, c.anchor, w>>, tempos |-> {<<i, burns(c)>>}]
  <1>1. /\ c.outputs \in Seed \cup {None} /\ c.anchor \in Nat /\ c.block \in 0..MaxBlock
        /\ i \in Nat /\ w \in 0..MaxBlock /\ i \div BURN_WINDOW_TEMPOS = w
    BY ProcessTypes, IndexBounds
  <1>2. ~c.force_burn => (burns(c) <=> scheduled(c.outputs, w, i))
    BY DEF burns, scheduled, is_burn_tempo
  <1>3. decided[p] # None => Noted(decided[p])
    BY DEF IInv, DecidedBySchedule
  <1>4. Decision(p) = IF c.force_burn THEN decided[p]
                      ELSE IF decided[p] = None \/ decided[p].schedule # now.schedule THEN now
                      ELSE [now EXCEPT !.tempos = @ \cup decided[p].tempos]
    BY DEF Decision
  <1>5. CASE c.force_burn
    BY <1>3, <1>4, <1>5
  <1>6. ASSUME NEW old, ~c.force_burn,
               \A t \in old : /\ t[1] \in Nat /\ t[1] \div BURN_WINDOW_TEMPOS = w
                              /\ t[2] <=> scheduled(c.outputs, w, t[1]),
               NEW d, d.schedule = <<c.outputs, c.anchor, w>>,
               d.tempos = {<<i, burns(c)>>} \cup old
        PROVE  Noted(d)
    <2>. HIDE DEF c, i, w
    <2>1. <<i, burns(c)>>[1] = i /\ (<<i, burns(c)>>[2] <=> burns(c))
      BY Zenon
    <2>2. \A t \in d.tempos : /\ t[1] \in Nat /\ t[1] \div BURN_WINDOW_TEMPOS = w
                             /\ t[2] <=> scheduled(c.outputs, w, t[1])
      BY <1>1, <1>2, <1>6, <2>1
    <2>. QED
      BY <1>1, <1>6, <2>2 DEF Noted
  <1>7. CASE ~c.force_burn /\ (decided[p] = None \/ decided[p].schedule # now.schedule)
    <2>1. Decision(p) = now /\ now.schedule = <<c.outputs, c.anchor, w>>
          /\ now.tempos = {<<i, burns(c)>>} \cup {}
      BY <1>4, <1>7
    <2>. HIDE DEF now, c, i, w
    <2>. QED
      BY <1>6, <1>7, <2>1
  <1>8. CASE ~c.force_burn /\ decided[p] # None /\ decided[p].schedule = now.schedule
    <2>1. PICK outputs \in Seed \cup {None}, anchor \in Nat, window \in 0..MaxBlock :
             /\ decided[p].schedule = <<outputs, anchor, window>>
             /\ \A t \in decided[p].tempos :
                   /\ t[1] \in Nat /\ t[1] \div BURN_WINDOW_TEMPOS = window
                   /\ t[2] <=> scheduled(outputs, window, t[1])
      BY <1>3, <1>8 DEF Noted
    <2>2. outputs = c.outputs /\ window = w
      BY <1>8, <2>1
    <2>3. /\ Decision(p).schedule = <<c.outputs, c.anchor, w>>
          /\ Decision(p).tempos = {<<i, burns(c)>>} \cup decided[p].tempos
      BY <1>4, <1>8
    <2>. HIDE DEF now, c, i, w
    <2>. QED
      BY <1>6, <1>8, <2>1, <2>2, <2>3
  <1>. QED
    BY <1>5, <1>7, <1>8

LEMMA DecideInv ==
  ASSUME IInv, NEW p \in Process, Decide(p)
  PROVE  IInv'
  <1>1. /\ phase[p] = "evaluated" /\ phase' = [phase EXCEPT ![p] = "decided"]
        /\ cycle' = [cycle EXCEPT ![p].burn = burns(cycle[p])]
        /\ file' = Saved(p) \/ file' = file
        /\ decided' = [decided EXCEPT ![p] = Decision(p)]
        /\ UNCHANGED <<kind, block, weights_version, override, onchain, remaining, key>>
    BY DEF Decide, chain
  <1>2. burns(cycle[p]) \in BOOLEAN
    BY ProcessTypes DEF burns, Cycle
  <1>. DEFINE c == [cycle[p] EXCEPT !.burn = burns(cycle[p])]
  <1>3. /\ c \in Cycle /\ c.block = cycle[p].block /\ c.version = cycle[p].version
    BY <1>2, ProcessTypes DEF Cycle
  <1>4. cycle' = [cycle EXCEPT ![p] = c]
    BY <1>1
  <1>. HIDE DEF c
  <1>5. TypeOK'
    BY <1>1, <1>3, <1>4, SavedType DEF IInv, TypeOK
  <1>6. CycleOfTheVersion'
    BY <1>1, <1>3, <1>4 DEF IInv, TypeOK, CycleOfTheVersion
  <1>7. CycleOfAHeight'
    BY <1>3, <1>4 DEF IInv, TypeOK, CycleOfAHeight
  <1>8. DecidedBySchedule'
    BY <1>1, DecisionNoted DEF IInv, DecidedBySchedule
  <1>. QED
    BY <1>5, <1>6, <1>7, <1>8 DEF IInv

LEMMA WeightNext ==
  ASSUME IInv, [Next]_vars
  PROVE  IInv'
  <1>1. ASSUME NEW p \in Process, Start(p, TRUE) \/ Start(p, FALSE)
        PROVE  IInv'
    BY <1>1, StartInv
  <1>2. ASSUME NEW p \in Process, Evaluate(p)
        PROVE  IInv'
    BY <1>2, EvaluateInv
  <1>3. ASSUME NEW p \in Process, SaveReign(p)
        PROVE  IInv'
    BY <1>3, IdleInv, SavedType DEF SaveReign, chain, IInv, TypeOK
  <1>4. ASSUME NEW p \in Process, Decide(p)
        PROVE  IInv'
    BY <1>4, DecideInv
  <1>5. ASSUME NEW p \in Process, Accepted(p)
        PROVE  IInv'
    <2>1. compute_weights(cycle[p]) \in Weights
      BY DEF compute_weights, Weights
    <2>2. /\ onchain' \in [Process -> Weights \cup {None}]
          /\ remaining' \in [Process -> 0..RateLimit]
          /\ UNCHANGED <<kind, block, weights_version, override, key, file, decided>>
          /\ Idle(p)
      BY <1>5, <2>1, WeightSettingAssumption DEF Accepted, IInv, TypeOK
    <2>. QED
      BY <2>2, IdleInv DEF IInv, TypeOK
  <1>6. ASSUME NEW p \in Process, End(p)
        PROVE  IInv'
    BY <1>6, IdleInv DEF End, chain, IInv, TypeOK
  <1>7. ASSUME NEW p \in Process, Release(p)
        PROVE  IInv'
    <2>1. PICK k \in 1..MaxVersion : key' = [key EXCEPT ![p] = k]
      BY <1>7 DEF Release
    <2>2. /\ key' \in [Process -> 1..MaxVersion]
          /\ \A q \in Process : q # p => key'[q] = key[q]
      BY <2>1 DEF IInv, TypeOK
    <2>. QED
      BY <1>7, <2>2, IdleInv DEF Release, chain, IInv, TypeOK
  <1>8. CASE Tick
    <2>1. /\ block' \in 1..MaxBlock /\ remaining' \in [Process -> 0..RateLimit]
          /\ UNCHANGED <<kind, weights_version, override, onchain, key, file, phase, cycle,
                         decided>>
      BY <1>8, WeightSettingAssumption DEF Tick, IInv, TypeOK
    <2>. QED
      BY <2>1 DEF IInv, TypeOK, CycleOfTheVersion, CycleOfAHeight, DecidedBySchedule
  <1>9. CASE Override
    <2>1. override' \in BOOLEAN
      BY <1>9, Zenon DEF Override
    <2>2. UNCHANGED <<kind, block, weights_version, onchain, remaining, key, file, phase, cycle,
                      decided>>
      BY <1>9, Zenon DEF Override
    <2>. QED
      BY <2>1, <2>2 DEF IInv, TypeOK, CycleOfTheVersion, CycleOfAHeight, DecidedBySchedule
  <1>11. CASE SetVersion
    BY <1>11 DEF SetVersion, IInv, TypeOK, CycleOfTheVersion, CycleOfAHeight,
                 DecidedBySchedule
  <1>10. CASE UNCHANGED vars
    BY <1>10 DEF vars, chain, IInv, TypeOK, CycleOfTheVersion, CycleOfAHeight,
                 DecidedBySchedule
  <1>. QED
    BY <1>1, <1>2, <1>3, <1>4, <1>5, <1>6, <1>7, <1>8, <1>9, <1>10, <1>11 DEF Next, Step

-----------------------------------------------------------------------------
(* Theorems.                                                               *)

LEMMA WeightInvariance == Spec => []IInv
  BY WeightInit, WeightNext, PTL DEF Spec

\* Every variable of weight setting keeps its type, for every deployment and schedule.
THEOREM TypeCorrectness == Spec => []TypeOK
  <1>1. IInv => TypeOK
    BY DEF IInv
  <1>. QED
    BY <1>1, WeightInvariance, PTL

\* Under one seed and one anchor a window has one burning tempo, and no tempo both burns
\* and pays (burn_schedule.py), for every length of a window and every schedule, as long
\* as the schedule is on, as it is in core/constants.py.
THEOREM BurnsOncePerWindow ==
  ASSUME BURN_ENABLED
  PROVE  Spec => []OneBurnPerWindow
  <1>1. IInv => OneBurnPerWindow
    BY NotedBurnsOnce DEF IInv, DecidedBySchedule, OneBurnPerWindow, Setting
  <1>. QED
    BY <1>1, WeightInvariance, PTL

\* The version gate fails closed (assert_weights_version_matches): whatever is released,
\* rolled back or set on chain meanwhile, weights are taken only from a cycle that passed
\* the gate under the release that sets them, while the chain asks for none later.
THEOREM WeightsFailClosed == Spec => FailClosed
  <1>1. ASSUME IInv, NEW p \in Process, Accepted(p)
        PROVE  cycle[p].version = key[p] /\ cycle[p].version >= weights_version
    <2>1. key[p] >= weights_version /\ phase[p] = "decided"
      BY <1>1 DEF Accepted, Accepts
    <2>2. cycle[p].version = key[p]
      BY <1>1, <2>1 DEF IInv, CycleOfTheVersion
    <2>. QED
      BY <2>1, <2>2
  <1>2. IInv => [\A p \in Process : Accepted(p) =>
                    cycle[p].version = key[p] /\ cycle[p].version >= weights_version]_vars
    BY <1>1
  <1>. QED
    BY <1>2, WeightInvariance, PTL DEF Spec, FailClosed
=============================================================================
