---------------------------- MODULE LedgerProofs ----------------------------
(***************************************************************************)
(* Theorems about ConvictionLedger, for any processes, files, emissions    *)
(* and grid: the types, that totals only grow, and, while the chain keeps  *)
(* its tempo, that a ledger is exactly what the grid blocks add up to.     *)
(***************************************************************************)
EXTENDS ConvictionLedger, TLAPS

LEMMA DivisionBounds ==
    ASSUME NEW x \in Nat, NEW t \in Nat \ {0}
    PROVE  /\ x \div t \in Nat
           /\ (x \div t) * t \in Nat
           /\ (x \div t) * t <= x
           /\ x < (x \div t) * t + t
  OBVIOUS

LEMMA DivisionOfMultiple ==
    ASSUME NEW k \in Nat, NEW t \in Nat \ {0}
    PROVE  (k * t) \div t = k
  OBVIOUS

LEMMA Distribute ==
    ASSUME NEW k \in Nat, NEW t \in Nat
    PROVE  (k + 1) * t = k * t + t
  OBVIOUS

-----------------------------------------------------------------------------
(* The grid.                                                               *)

LEMMA FirstOfGridIsNext ==
    ASSUME NEW last_block \in Nat, NEW t \in Nat \ {0}
    PROVE  /\ FirstOfGrid(last_block, t) \in Nat
           /\ FirstOfGrid(last_block, t) > last_block
  <1> DEFINE start == IF last_block > Start THEN last_block ELSE Start
             x == start - Start
  <1>1. start \in Nat /\ x \in Nat /\ start >= last_block /\ Start \in Nat
    BY LedgerAssumption
  <1>2. /\ x \div t \in Nat /\ (x \div t) * t \in Nat /\ x < (x \div t) * t + t
    BY <1>1, DivisionBounds
  <1>3. (x \div t + 1) * t = (x \div t) * t + t
    BY <1>2, Distribute
  <1>4. FirstOfGrid(last_block, t) = Start + (x \div t + 1) * t
    BY DEF FirstOfGrid
  <1> HIDE DEF x, start
  <1>5. x = start - Start
    BY DEF x
  <1> QED
    BY <1>1, <1>2, <1>3, <1>4, <1>5

\* One turn of the grid from one of its points, or from nothing.
LEMMA FirstOfGridOnGrid ==
    ASSUME NEW k \in Nat, NEW last_block \in Nat,
           \/ last_block = Start + k * Tempo
           \/ k = 0 /\ last_block = 0
    PROVE  FirstOfGrid(last_block, Tempo) = Start + (k + 1) * Tempo
  <1> DEFINE start == IF last_block > Start THEN last_block ELSE Start
  <1>1. Tempo \in Nat \ {0} /\ Start \in Nat \ {0} /\ k * Tempo \in Nat
    BY LedgerAssumption
  <1>2. start - Start = k * Tempo
    <2>1. CASE last_block = Start + k * Tempo
      BY <1>1, <2>1
    <2>2. CASE k = 0 /\ last_block = 0
      BY <1>1, <2>2
    <2> QED
      BY <2>1, <2>2
  <1>3. (k * Tempo) \div Tempo = k
    BY <1>1, DivisionOfMultiple
  <1> QED
    BY <1>2, <1>3 DEF FirstOfGrid

-----------------------------------------------------------------------------
(* Types.                                                                  *)

LEMMA EmptyIsLedger == Empty \in Ledger
  BY DEF Empty, Ledger, NoEarnings

LEMMA SampleBounds ==
    ASSUME TypeOK, NEW p \in Process, Due(p)
    PROVE  /\ NextSample(p) \in 0..MaxBlock
           /\ NextSample(p) > ledger[p].last_block
  <1>1. ledger[p].last_block \in Nat /\ step[p] \in Nat \ {0}
    BY LedgerAssumption DEF TypeOK, Ledger
  <1>2. NextSample(p) \in Nat /\ NextSample(p) > ledger[p].last_block
    BY <1>1, FirstOfGridIsNext DEF NextSample
  <1>3. target[p] \in 0..block /\ block \in 0..MaxBlock /\ MaxBlock \in Nat
    BY LedgerAssumption DEF TypeOK
  <1> QED
    BY <1>2, <1>3 DEF Due

Added(p) ==
    [earned |-> [h \in Hotkey |-> ledger[p].earned[h] + Emission[NextSample(p)][h]],
     last_block |-> NextSample(p)]

\* A sample only adds.
LEMMA AddedGrows ==
    ASSUME TypeOK, NEW p \in Process, Due(p)
    PROVE  Added(p) \in Ledger /\ Grown(ledger[p], Added(p))
  <1>1. ledger[p] \in Ledger
    BY DEF TypeOK
  <1>2. NextSample(p) \in 0..MaxBlock /\ NextSample(p) > ledger[p].last_block
    BY SampleBounds
  <1>3. Emission[NextSample(p)] \in [Hotkey -> Nat]
    BY <1>2, LedgerAssumption
  <1>4. NextSample(p) \in Nat /\ ledger[p].last_block \in Nat
        /\ ledger[p].earned \in [Hotkey -> Nat]
    BY <1>1, <1>2, LedgerAssumption DEF Ledger
  <1> HIDE DEF NextSample
  <1> QED
    BY <1>2, <1>3, <1>4 DEF Added, Ledger, Grown

LEMMA TypeInit == Init => TypeOK
  BY LedgerAssumption, EmptyIsLedger DEF Init, TypeOK

LEMMA TypeStep == TypeOK /\ [Next]_vars => TypeOK'
  <1> SUFFICES ASSUME TypeOK, [Next]_vars PROVE TypeOK'
    OBVIOUS
  <1> USE DEF TypeOK
  <1>0. MaxBlock \in Nat /\ FileOf \in [Process -> File] /\ Tempo \in Tempos
    BY LedgerAssumption
  <1>1. CASE Tick
    BY <1>0, <1>1 DEF Tick
  <1>2. CASE ChangeTempo
    BY <1>2 DEF ChangeTempo
  <1>3. ASSUME NEW p \in Process, RoundStep(p) PROVE TypeOK'
    <2>1. CASE Begin(p)
      BY <1>0, <2>1 DEF Begin
    <2>2. CASE Evaluated(p)
      BY <2>2 DEF Evaluated
    <2>3. CASE SampleFails(p)
      BY <2>3 DEF SampleFails
    <2>4. CASE CaughtUp(p)
      BY <2>4 DEF CaughtUp
    <2>5. CASE Finish(p)
      BY <1>0, <2>5, EmptyIsLedger DEF Finish, ForgetRound
    <2>6. CASE Truncate(p)
      BY <1>0, <2>6 DEF Truncate
    <2>7. CASE Write(p)
      BY <1>0, <2>7, EmptyIsLedger DEF Write, ForgetRound
    <2> QED
      BY <1>3, <2>1, <2>2, <2>3, <2>4, <2>5, <2>6, <2>7 DEF RoundStep
  <1>4. ASSUME NEW p \in Process, Apply(p) PROVE TypeOK'
    <2>1. Added(p) \in Ledger
      BY <1>4, AddedGrows DEF Apply
    <2>2. ledger' = [ledger EXCEPT ![p] = Added(p)]
      BY <1>4 DEF Apply, Added
    <2> QED
      BY <1>4, <2>1, <2>2 DEF Apply
  <1>5. ASSUME NEW p \in Process, Abort(p) PROVE TypeOK'
    BY <1>0, <1>5, EmptyIsLedger DEF Abort, ForgetRound
  <1>6. CASE UNCHANGED vars
    BY <1>6 DEF vars
  <1> QED
    BY <1>1, <1>2, <1>3, <1>4, <1>5, <1>6 DEF Next

\* The variables have their types in every reachable state, and no round looks
\* ahead of the chain.
THEOREM TypeCorrectness == Spec => []TypeOK
  BY TypeInit, TypeStep, PTL DEF Spec

-----------------------------------------------------------------------------
(* Totals only grow.                                                       *)

\* A writer's memory is never behind its file: it was loaded from it, samples only
\* add, and nobody else writes the file in between.
WriterAhead ==
    \A p \in Writer : phase[p] # "idle" => Grown(disk[FileOf[p]], ledger[p])

\* Only a writer is ever about to write.
OnlyWritersSave == \A p \in Process : phase[p] = "saving" => p \in Writer

GInv == TypeOK /\ WriterAhead /\ OnlyWritersSave

LEMMA GrownReflexive ==
    ASSUME NEW l \in Ledger PROVE Grown(l, l)
  BY DEF Ledger, Grown

LEMMA GrownTransitive ==
    ASSUME NEW l \in Ledger, NEW m \in Ledger, NEW n \in Ledger,
           Grown(l, m), Grown(m, n)
    PROVE  Grown(l, n)
  BY DEF Ledger, Grown

LEMMA GInvInit == Init => GInv
  BY TypeInit, LedgerAssumption DEF Init, GInv, WriterAhead, OnlyWritersSave

LEMMA OnlyWritersSaveStep == TypeOK /\ OnlyWritersSave /\ [Next]_vars => OnlyWritersSave'
  BY DEF TypeOK, OnlyWritersSave, Next, RoundStep, Tick, ChangeTempo, Begin, Evaluated,
         SampleFails, CaughtUp, Apply, Truncate, Write, Finish, Abort, ForgetRound, vars

LEMMA GInvStep == GInv /\ [Next]_vars => GInv'
  <1> SUFFICES ASSUME GInv, [Next]_vars PROVE WriterAhead'
    BY TypeStep, OnlyWritersSaveStep DEF GInv
  <1>0. /\ TypeOK /\ WriterAhead /\ OnlyWritersSave
        /\ Writer \subseteq Process
        /\ FileOf \in [Process -> File]
        /\ \A p, q \in Writer : FileOf[p] = FileOf[q] => p = q
        /\ disk \in [File -> Ledger] /\ ledger \in [Process -> Ledger]
        /\ phase \in [Process -> {"idle", "evaluating", "catching", "done", "saving"}]
    BY LedgerAssumption DEF GInv, TypeOK
  <1>1. CASE Tick
    BY <1>0, <1>1 DEF Tick, WriterAhead
  <1>2. CASE ChangeTempo
    BY <1>0, <1>2 DEF ChangeTempo, WriterAhead
  <1>3. ASSUME NEW p \in Process, Begin(p) PROVE WriterAhead'
    <2> SUFFICES ASSUME NEW q \in Writer, phase'[q] # "idle"
                 PROVE  Grown(disk'[FileOf[q]], ledger'[q])
      BY DEF WriterAhead
    <2>1. CASE q = p
      <3>1. disk[FileOf[p]] \in Ledger
        BY <1>0
      <3> QED
        BY <1>0, <1>3, <2>1, <3>1, GrownReflexive DEF Begin
    <2>2. CASE q # p
      BY <1>0, <1>3, <2>2 DEF Begin, WriterAhead
    <2> QED
      BY <2>1, <2>2
  <1>4. ASSUME NEW p \in Process, Evaluated(p) \/ SampleFails(p) \/ CaughtUp(p) \/ Truncate(p)
        PROVE  WriterAhead'
    <2>1. phase[p] # "idle" /\ UNCHANGED <<disk, ledger>>
          /\ \A q \in Process \ {p} : phase'[q] = phase[q]
      BY <1>0, <1>4 DEF Evaluated, SampleFails, CaughtUp, Truncate
    <2> QED
      BY <1>0, <2>1 DEF WriterAhead
  <1>5. ASSUME NEW p \in Process, Apply(p) PROVE WriterAhead'
    <2>1. Added(p) \in Ledger /\ Grown(ledger[p], Added(p))
      BY <1>0, <1>5, AddedGrows DEF Apply
    <2>2. /\ ledger' = [ledger EXCEPT ![p] = Added(p)]
          /\ disk' = disk /\ phase' = phase /\ phase[p] # "idle"
      BY <1>5 DEF Apply, Added
    <2> SUFFICES ASSUME NEW q \in Writer, phase[q] # "idle"
                 PROVE  Grown(disk[FileOf[q]], ledger'[q])
      BY <2>2 DEF WriterAhead
    <2>3. q \in Process /\ disk[FileOf[q]] \in Ledger /\ ledger[q] \in Ledger
          /\ Grown(disk[FileOf[q]], ledger[q])
      BY <1>0 DEF WriterAhead
    <2>4. CASE q = p
      <3>1. ledger'[q] = Added(p)
        BY <1>0, <2>2, <2>4
      <3> QED
        BY <2>1, <2>3, <2>4, <3>1, GrownTransitive
    <2>5. CASE q # p
      BY <1>0, <2>2, <2>3, <2>5
    <2> QED
      BY <2>4, <2>5
  <1>6. ASSUME NEW p \in Process, Write(p) PROVE WriterAhead'
    <2> SUFFICES ASSUME NEW q \in Writer, phase'[q] # "idle"
                 PROVE  Grown(disk'[FileOf[q]], ledger'[q])
      BY DEF WriterAhead
    <2>1. q # p /\ phase[q] # "idle" /\ ledger'[q] = ledger[q]
      BY <1>0, <1>6 DEF Write, ForgetRound
    <2>2. disk'[FileOf[q]] = disk[FileOf[q]]
      <3>1. p \in Writer
        BY <1>0, <1>6 DEF OnlyWritersSave, Write
      <3> QED
        BY <1>0, <1>6, <2>1, <3>1 DEF Write
    <2> QED
      BY <1>0, <2>1, <2>2 DEF WriterAhead
  <1>7. ASSUME NEW p \in Process, Finish(p) \/ Abort(p) PROVE WriterAhead'
    BY <1>0, <1>7 DEF Finish, Abort, ForgetRound, WriterAhead
  <1>8. CASE UNCHANGED vars
    BY <1>0, <1>8 DEF vars, WriterAhead
  <1> QED
    BY <1>1, <1>2, <1>3, <1>4, <1>5, <1>6, <1>7, <1>8 DEF Next, RoundStep

\* Only Write changes what a file holds, and only to a writer's memory.
LEMMA SavesGrow ==
    ASSUME GInv, [Next]_vars
    PROVE  [\A f \in File : Grown(disk[f], disk'[f])]_disk
  <1> SUFFICES ASSUME disk' # disk PROVE \A f \in File : Grown(disk[f], disk'[f])
    OBVIOUS
  <1>1. PICK p \in Process : Write(p)
    BY DEF Next, RoundStep, Tick, ChangeTempo, Begin, Evaluated, SampleFails, CaughtUp,
           Truncate, Finish, Apply, Abort, vars
  <1>2. p \in Writer /\ disk' = [disk EXCEPT ![FileOf[p]] = ledger[p]]
    BY <1>1 DEF Write, GInv, OnlyWritersSave
  <1>3. Grown(disk[FileOf[p]], ledger[p])
    BY <1>1, <1>2 DEF GInv, WriterAhead, Write
  <1>4. disk \in [File -> Ledger]
    BY DEF GInv, TypeOK
  <1> SUFFICES ASSUME NEW f \in File PROVE Grown(disk[f], disk'[f])
    OBVIOUS
  <1>5. CASE f = FileOf[p]
    BY <1>2, <1>3, <1>4, <1>5
  <1>6. CASE f # FileOf[p]
    BY <1>2, <1>4, <1>6, GrownReflexive
  <1> QED
    BY <1>5, <1>6

\* No save takes earnings away or moves the ledger back, whatever fails, whenever the
\* rounds are cut short and however the tempo changes.
THEOREM TotalsArePermanent == Spec => NothingIsForgotten
  <1>1. Init => GInv
    BY GInvInit
  <1>2. GInv /\ [Next]_vars => GInv'
    BY GInvStep
  <1>3. GInv /\ [Next]_vars => [\A f \in File : Grown(disk[f], disk'[f])]_disk
    BY SavesGrow
  <1> QED
    BY <1>1, <1>2, <1>3, PTL DEF Spec, NothingIsForgotten

-----------------------------------------------------------------------------
(* Exactness, while the chain keeps its tempo.                             *)

\* No process has read another tempo than the one the chain has kept.
GridKept == steady => tempo = Tempo /\ \A p \in Process : step[p] = Tempo

EInv == TypeOK /\ GridKept /\ EarnedIsExact

LEMMA GridKeptStep == TypeOK /\ GridKept /\ [Next]_vars => GridKept'
  <1> SUFFICES ASSUME TypeOK, GridKept, [Next]_vars PROVE GridKept'
    OBVIOUS
  <1>0. step \in [Process -> Tempos]
    BY DEF TypeOK
  <1>1. CASE ChangeTempo
    BY <1>1 DEF ChangeTempo, GridKept
  <1>2. ASSUME NEW p \in Process, Evaluated(p) PROVE GridKept'
    BY <1>0, <1>2 DEF Evaluated, GridKept
  <1>3. ASSUME NEW p \in Process, Write(p) \/ Finish(p) \/ Abort(p) PROVE GridKept'
    BY <1>0, <1>3 DEF Write, Finish, Abort, ForgetRound, GridKept
  <1>4. CASE UNCHANGED <<tempo, step, steady>>
    BY <1>4 DEF GridKept
  <1> QED
    BY <1>1, <1>2, <1>3, <1>4
    DEF Next, RoundStep, Tick, Begin, SampleFails, CaughtUp, Truncate, Apply, vars

\* A multiple of a positive number is at least its factor.
LEMMA FactorBound ==
    ASSUME NEW k \in Nat, NEW t \in Nat \ {0}
    PROVE  k <= k * t
  <1>1. PICK u \in Nat : t = u + 1
    <2>1. t - 1 \in Nat /\ t = (t - 1) + 1
      OBVIOUS
    <2> QED
      BY <2>1
  <1>2. k * t = u * k + k /\ u * k \in Nat
    BY <1>1
  <1> QED
    BY <1>2

\* A sample takes an exact ledger to the next grid block.
LEMMA AddedIsExact ==
    ASSUME EInv, steady, NEW p \in Process, Due(p)
    PROVE  Exact(Added(p))
  <1>0. /\ TypeOK /\ Exact(ledger[p]) /\ ledger[p] \in Ledger
        /\ Tempo \in Nat \ {0} /\ Start \in Nat \ {0} /\ MaxBlock \in Nat
        /\ step[p] = Tempo
    BY LedgerAssumption DEF EInv, EarnedIsExact, TypeOK, GridKept
  <1> DEFINE l == ledger[p]
  <1>1. PICK k \in 0..MaxBlock :
            /\ l.earned = Owed[Start + k * Tempo]
            /\ l.last_block = Start + k * Tempo \/ (k = 0 /\ l.last_block = 0)
    <2>1. CASE l = Empty
      <3>1. l.earned = [h \in Hotkey |-> 0] /\ l.last_block = 0
        BY <2>1 DEF Empty, NoEarnings
      <3>2. Start + 0 * Tempo = Start /\ 0 \in 0..MaxBlock
        BY <1>0
      <3>3. l.earned = Owed[Start + 0 * Tempo]
        BY <3>1, <3>2, OwedAssumption
      <3> QED
        BY <3>1, <3>2, <3>3
    <2>2. CASE l.last_block \in Grid /\ l.earned = Owed[l.last_block]
      BY <1>0, <2>2 DEF Grid
    <2> QED
      BY <1>0, <2>1, <2>2 DEF Exact
  <1> DEFINE b == Start + (k + 1) * Tempo
  <1>2. l.last_block \in Nat /\ l.earned \in [Hotkey -> Nat]
    BY <1>0 DEF Ledger
  <1>3. NextSample(p) = b
    <2>1. k \in Nat /\ (l.last_block = Start + k * Tempo \/ (k = 0 /\ l.last_block = 0))
      BY <1>0, <1>1
    <2> HIDE DEF l
    <2>2. FirstOfGrid(l.last_block, Tempo) = b
      BY <1>2, <2>1, FirstOfGridOnGrid
    <2> QED
      BY <1>0, <2>2 DEF NextSample, l
  <1>4. b \in 0..MaxBlock
    BY <1>0, <1>3, SampleBounds
  <1>5. (k + 1) <= (k + 1) * Tempo /\ (k + 1) * Tempo \in Nat
    BY <1>0, FactorBound
  <1>6. k + 1 \in 1..MaxBlock
    BY <1>0, <1>4, <1>5
  <1>7. b \in Grid
    BY <1>4, <1>6 DEF Grid
  <1>8. Owed[b] = [h \in Hotkey |-> Owed[Start + k * Tempo][h] + Emission[b][h]]
    <2>1. Start + (k + 1) * Tempo <= MaxBlock
      BY <1>0, <1>4
    <2> QED
      BY <2>1, OwedAssumption, Zenon
  <1>9. Added(p).earned = Owed[b] /\ Added(p).last_block = b
    BY <1>1, <1>3, <1>8 DEF Added
  <1> QED
    BY <1>7, <1>9 DEF Exact

LEMMA EInvInit == Init => EInv
  BY TypeInit DEF Init, EInv, EarnedIsExact, Exact, GridKept

LEMMA EInvStep == EInv /\ [Next]_vars => EInv'
  <1> SUFFICES ASSUME EInv, [Next]_vars, steady'
               PROVE  EarnedIsExact'
    BY TypeStep, GridKeptStep DEF EInv, EarnedIsExact
  <1>a. steady
    BY DEF Next, RoundStep, Tick, ChangeTempo, Begin, Evaluated, SampleFails, CaughtUp,
           Apply, Truncate, Write, Finish, Abort, vars, EInv, TypeOK
  <1>0. /\ TypeOK
        /\ \A f \in File : Exact(disk[f])
        /\ \A q \in Process : Exact(ledger[q])
        /\ FileOf \in [Process -> File] /\ disk \in [File -> Ledger]
        /\ ledger \in [Process -> Ledger]
    BY <1>a, LedgerAssumption DEF EInv, EarnedIsExact, TypeOK
  <1>1. Exact(Empty)
    BY DEF Exact
  <1>2. CASE UNCHANGED <<disk, ledger>>
    BY <1>0, <1>2 DEF EarnedIsExact
  <1>3. ASSUME NEW p \in Process, Begin(p) PROVE EarnedIsExact'
    BY <1>0, <1>3 DEF Begin, EarnedIsExact
  <1>4. ASSUME NEW p \in Process, Apply(p) PROVE EarnedIsExact'
    <2>1. Exact(Added(p))
      BY <1>4, <1>a, AddedIsExact DEF Apply
    <2>2. ledger' = [ledger EXCEPT ![p] = Added(p)] /\ disk' = disk
      BY <1>4 DEF Apply, Added
    <2> QED
      BY <1>0, <2>1, <2>2 DEF EarnedIsExact
  <1>5. ASSUME NEW p \in Process, Write(p) PROVE EarnedIsExact'
    BY <1>0, <1>1, <1>5 DEF Write, ForgetRound, EarnedIsExact
  <1>6. ASSUME NEW p \in Process, Finish(p) \/ Abort(p) PROVE EarnedIsExact'
    BY <1>0, <1>1, <1>6 DEF Finish, Abort, ForgetRound, EarnedIsExact
  <1> QED
    BY <1>2, <1>3, <1>4, <1>5, <1>6
    DEF Next, RoundStep, Tick, ChangeTempo, Evaluated, SampleFails, CaughtUp, Truncate,
        vars

\* While the chain keeps its tempo, every ledger, saved or in memory, is exactly the
\* sum of the emissions of the grid blocks up to its last one: no sample is lost,
\* repeated or applied by half, whatever fails and wherever rounds end.
THEOREM EarningsAreExact == Spec => []EarnedIsExact
  <1>1. Init => EInv
    BY EInvInit
  <1>2. EInv /\ [Next]_vars => EInv'
    BY EInvStep
  <1>3. EInv => EarnedIsExact
    BY DEF EInv
  <1> QED
    BY <1>1, <1>2, <1>3, PTL DEF Spec

=============================================================================
