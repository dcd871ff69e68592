---------------------------- MODULE LiveBenchProofs ----------------------------
(***************************************************************************)
(* Proofs about LiveBench, for every retention cap of two snapshots or     *)
(* more and every height of the chain.                                     *)
(*                                                                         *)
(* Both properties rest on there being one thread at most, and on what its *)
(* list of doomed snapshots says while it is worked off: a snapshot that   *)
(* is kept is newer than all of them, and a picked one is not among them.  *)
(***************************************************************************)
EXTENDS LiveBench, FiniteSetTheorems, WellFoundedInduction, TLAPS

\* One fetch at a time, of a height that the chain had.
OneThread ==
    /\ \A t, u \in threads : t = u
    /\ \A t \in threads : t.block <= block

\* What a list of doomed snapshots spares: one that is newer than all of them.
NewestSpared ==
    \A t \in threads : t.at = "unlink" =>
        \E c \in complete \ t.doomed : \A b \in t.doomed : b < c

\* Since the round picked a snapshot at most one newer one was saved, none of them if
\* the thread has yet to do it, and the picked one is on no list.
PickedIsRecent ==
    phase = "read" /\ picked # None =>
        /\ picked \in complete
        /\ \A c, d \in complete : c > picked /\ d > picked => c = d
        /\ \A t \in threads :
              /\ t.at \in {"fetch", "rename"} => \A c \in complete : c <= picked
              /\ t.at = "unlink" => picked \notin t.doomed

IInv ==
    /\ TypeOK
    /\ OneThread
    /\ NewestSpared
    /\ PickedIsRecent

-----------------------------------------------------------------------------
(* The snapshots that pruning removes.                                     *)

\* A non-empty finite set of heights has a greatest one.
LEMMA Greatest ==
  ASSUME NEW n \in Nat, NEW S \in SUBSET (0..n), S # {}
  PROVE  \E m \in S : \A c \in S : c <= m
  <1>. DEFINE above(b) == {c \in S : c >= b}
              all == {above(b) : b \in S}
              R == StrictSubsetOrdering(Nat)
  <1>1. IsFiniteSet(S) /\ S \subseteq Nat
    <2>1. IsFiniteSet(0..n) /\ 0..n \subseteq Nat
      BY FS_Interval
    <2>. QED
      BY <2>1, FS_Subset
  <1>2. all \subseteq FiniteSubsetsOf(Nat) /\ all # {}
    <2>1. \A b \in S : above(b) \in SUBSET Nat /\ IsFiniteSet(above(b))
      <3>. TAKE b \in S
      <3>1. above(b) \in SUBSET S
        OBVIOUS
      <3>. QED
        BY <1>1, <3>1, FS_Subset
    <2>. QED
      BY <2>1 DEF FiniteSubsetsOf
  <1>3. \E x \in all : \A y \in all : ~(<<y, x>> \in R)
    <2>. HIDE DEF all, R
    <2>1. IsWellFoundedOn(R, FiniteSubsetsOf(Nat))
      BY FS_StrictSubsetOrderingWellFounded DEF R
    <2>. QED
      BY <1>2, <2>1, WFMin
  <1>4. PICK m \in S : \A b \in S : ~(<<above(b), above(m)>> \in R)
    BY <1>3
  <1>5. ASSUME NEW c \in S, ~(c <= m)
        PROVE  FALSE
    <2>0. c \in Nat /\ m \in Nat /\ c > m
      BY <1>1, <1>5
    <2>1. /\ above(c) \subseteq above(m) /\ m \in above(m) /\ m \notin above(c)
          /\ above(c) \subseteq Nat /\ above(m) \subseteq Nat
      <3>1. \A d \in above(c) : d \in Nat /\ d \in S /\ d >= m
        BY <1>1, <2>0
      <3>2. m \in above(m) /\ m \notin above(c)
        BY <2>0
      <3>. QED
        BY <1>1, <3>1, <3>2
    <2>2. <<above(c), above(m)>> \in R
      BY <2>1 DEF StrictSubsetOrdering
    <2>. QED
      BY <1>4, <2>2
  <1>. QED
    BY <1>5

\* A snapshot with at most one newer one is not doomed: the cap holds two.
LEMMA TopTwoStay ==
  ASSUME NEW n \in Nat, NEW S \in SUBSET (0..n), NEW b \in S,
         \A c, d \in S : c > b /\ d > b => c = d
  PROVE  b \notin Doomed(S)
  <1>. DEFINE T == {c \in S : c >= b}
  <1>1. S \subseteq Nat
    OBVIOUS
  <1>2. PICK x : \A c \in S : c > b => c = x
    OBVIOUS
  <1>3. T \in SUBSET ({b} \cup {x})
    <2>1. ASSUME NEW c \in S, c >= b
          PROVE  c \in {b} \cup {x}
      <3>1. c = b \/ c > b
        BY <1>1, <2>1
      <3>. QED
        BY <1>2, <3>1
    <2>. QED
      BY <2>1
  <1>4. IsFiniteSet({b}) /\ Cardinality({b}) = 1
    BY FS_Singleton
  <1>5. IsFiniteSet({b} \cup {x}) /\ Cardinality({b} \cup {x}) <= 2
    BY <1>4, FS_AddElement
  <1>6. IsFiniteSet(T) /\ Cardinality(T) <= Cardinality({b} \cup {x})
    BY <1>3, <1>5, FS_Subset
  <1>7. Cardinality(T) \in Nat /\ Cardinality({b} \cup {x}) \in Nat
    BY <1>5, <1>6, FS_CardinalityType
  <1>8. ~(Cardinality(T) > Retention)
    BY <1>5, <1>6, <1>7, LiveBenchAssumption
  <1>. QED
    BY <1>8 DEF Doomed

\* Of a list that dooms anything, the newest snapshot is spared.
LEMMA DoomedSparesNewest ==
  ASSUME NEW n \in Nat, NEW S \in SUBSET (0..n), Doomed(S) # {}
  PROVE  \E c \in S \ Doomed(S) : \A b \in Doomed(S) : b < c
  <1>1. Doomed(S) \subseteq S
    BY DEF Doomed
  <1>2. PICK m \in S : \A c \in S : c <= m
    BY <1>1, Greatest
  <1>3. S \subseteq Nat
    OBVIOUS
  <1>4. m \notin Doomed(S)
    <2>1. \A c, d \in S : c > m /\ d > m => c = d
      BY <1>2, <1>3
    <2>. QED
      BY <2>1, TopTwoStay
  <1>5. ASSUME NEW b \in Doomed(S)
        PROVE  b < m
    <2>1. b \in S /\ b <= m /\ b # m
      BY <1>1, <1>2, <1>4
    <2>. QED
      BY <1>3, <2>1
  <1>. QED
    BY <1>4, <1>5

-----------------------------------------------------------------------------
(* Steps.                                                                  *)

LEMMA LiveInit == Init => IInv
  BY LiveBenchAssumption
  DEF Init, IInv, TypeOK, OneThread, NewestSpared, PickedIsRecent

\* What a thread's step leaves of the threads: the thread itself as it is then, or none.
LEMMA OneLeft ==
  ASSUME IInv, NEW t \in threads, NEW u \in Thread, u.block <= block
  PROVE  /\ Dies(t) => threads' = {}
         /\ Goes(t, u) => threads' = {u}
  <1>1. threads = {t}
    BY DEF IInv, OneThread
  <1>. QED
    BY <1>1 DEF Dies, Goes

LEMMA ThreadType ==
  ASSUME IInv, NEW t \in threads
  PROVE  /\ t \in Thread /\ t.block \in Nat /\ t.block <= block /\ t.doomed \in SUBSET Nat
         /\ block \in Nat /\ complete \subseteq 0..block /\ complete \subseteq Nat
         /\ t.block \in 0..block
  BY LiveBenchAssumption DEF IInv, TypeOK, OneThread, Thread

LEMMA FetchInv ==
  ASSUME IInv, NEW t \in threads, Fetch(t)
  PROVE  IInv'
  <1>1. /\ t \in Thread /\ t.block \in 0..block /\ t.block <= block /\ t.at = "fetch"
        /\ UNCHANGED <<block, complete, phase, picked, live>>
        /\ part' \subseteq part \cup {t.block}
    BY ThreadType DEF Fetch, main
  <1>. DEFINE u == [t EXCEPT !.at = "rename"]
  <1>2. u \in Thread /\ u.block = t.block /\ u.at = "rename"
    BY <1>1 DEF Thread
  <1>3. threads' = {} \/ threads' = {u}
    <2>1. Dies(t) \/ Goes(t, u)
      BY DEF Fetch
    <2>. HIDE DEF u
    <2>. QED
      BY <1>1, <1>2, <2>1, OneLeft
  <1>. HIDE DEF u
  <1>4. TypeOK'
    BY <1>1, <1>2, <1>3 DEF IInv, TypeOK
  <1>5. OneThread'
    BY <1>1, <1>2, <1>3 DEF OneThread
  <1>6. NewestSpared'
    BY <1>2, <1>3 DEF NewestSpared
  <1>7. PickedIsRecent'
    BY <1>1, <1>2, <1>3 DEF IInv, PickedIsRecent
  <1>. QED
    BY <1>4, <1>5, <1>6, <1>7 DEF IInv

LEMMA RenameInv ==
  ASSUME IInv, NEW t \in threads, Rename(t)
  PROVE  IInv'
  <1>1. /\ t \in Thread /\ t.block \in 0..block /\ t.block <= block /\ t.at = "rename"
        /\ UNCHANGED <<block, phase, picked, live>>
        /\ part' = part \ {t.block} /\ complete' = complete \cup {t.block}
    BY ThreadType DEF Rename, main
  <1>. DEFINE u == [t EXCEPT !.at = "prune"]
  <1>2. u \in Thread /\ u.block = t.block /\ u.at = "prune"
    BY <1>1 DEF Thread
  <1>3. threads' = {u}
    <2>1. Goes(t, u)
      BY DEF Rename
    <2>. HIDE DEF u
    <2>. QED
      BY <1>1, <1>2, <2>1, OneLeft
  <1>. HIDE DEF u
  <1>4. TypeOK'
    BY <1>1, <1>2, <1>3 DEF IInv, TypeOK
  <1>5. OneThread'
    BY <1>1, <1>2, <1>3 DEF OneThread
  <1>6. NewestSpared'
    BY <1>2, <1>3 DEF NewestSpared
  <1>7. PickedIsRecent'
    <2>. SUFFICES ASSUME phase = "read", picked # None
                  PROVE  /\ picked \in complete'
                         /\ \A c, d \in complete' : c > picked /\ d > picked => c = d
      BY <1>1, <1>2, <1>3 DEF PickedIsRecent
    <2>1. picked \in complete /\ \A c \in complete : c <= picked
      BY <1>1 DEF IInv, PickedIsRecent
    <2>2. complete \subseteq Nat
      BY ThreadType
    <2>3. \A c \in complete' : c > picked => c = t.block
      BY <1>1, <2>1, <2>2
    <2>. QED
      BY <1>1, <2>1, <2>3
  <1>. QED
    BY <1>4, <1>5, <1>6, <1>7 DEF IInv

LEMMA ListInv ==
  ASSUME IInv, NEW t \in threads, List(t)
  PROVE  IInv'
  <1>1. /\ t \in Thread /\ t.block \in 0..block /\ t.block <= block /\ t.at = "prune"
        /\ UNCHANGED <<block, complete, part, phase, picked, live>>
        /\ complete \in SUBSET (0..block) /\ block \in Nat
    BY ThreadType DEF List, main
  <1>. DEFINE u == [t EXCEPT !.at = "unlink", !.doomed = Doomed(complete)]
  <1>2. Doomed(complete) \in SUBSET Nat
    <2>1. Doomed(complete) \subseteq complete
      BY DEF Doomed
    <2>. QED
      BY <2>1, ThreadType
  <1>3. u \in Thread /\ u.block = t.block /\ u.at = "unlink" /\ u.doomed = Doomed(complete)
    BY <1>1, <1>2 DEF Thread
  <1>4. threads' = {} \/ (Doomed(complete) # {} /\ threads' = {u})
    <2>1. Dies(t) \/ (Doomed(complete) # {} /\ Goes(t, u))
      BY DEF List
    <2>. HIDE DEF u
    <2>. QED
      BY <1>1, <1>3, <2>1, OneLeft
  <1>. HIDE DEF u
  <1>5. TypeOK'
    BY <1>1, <1>3, <1>4 DEF IInv, TypeOK
  <1>6. OneThread'
    BY <1>1, <1>3, <1>4 DEF OneThread
  <1>7. NewestSpared'
    <2>1. Doomed(complete) # {} =>
             \E c \in complete \ Doomed(complete) : \A b \in Doomed(complete) : b < c
      BY <1>1, DoomedSparesNewest
    <2>. QED
      BY <1>1, <1>3, <1>4, <2>1 DEF NewestSpared
  <1>8. PickedIsRecent'
    <2>. SUFFICES ASSUME phase = "read", picked # None
                  PROVE  /\ picked \in complete
                         /\ \A c, d \in complete : c > picked /\ d > picked => c = d
                         /\ picked \notin Doomed(complete)
      BY <1>1, <1>3, <1>4 DEF PickedIsRecent
    <2>1. /\ picked \in complete
          /\ \A c, d \in complete : c > picked /\ d > picked => c = d
      BY DEF IInv, PickedIsRecent
    <2>. QED
      BY <1>1, <2>1, TopTwoStay
  <1>. QED
    BY <1>5, <1>6, <1>7, <1>8 DEF IInv

LEMMA UnlinkInv ==
  ASSUME IInv, NEW t \in threads, Unlink(t)
  PROVE  IInv' /\ \A b \in complete : \E c \in complete' : c >= b
  <1>1. PICK b \in t.doomed :
           /\ complete' = complete \ {b}
           /\ IF t.doomed = {b} \/ b \notin complete THEN Dies(t)
              ELSE Goes(t, [t EXCEPT !.doomed = t.doomed \ {b}])
    BY DEF Unlink
  <1>2. /\ t \in Thread /\ t.block \in 0..block /\ t.block <= block /\ t.at = "unlink"
        /\ UNCHANGED <<block, part, phase, picked, live>>
        /\ complete \subseteq Nat /\ t.doomed \in SUBSET Nat
    BY ThreadType DEF Unlink, main
  <1>. DEFINE u == [t EXCEPT !.doomed = t.doomed \ {b}]
  <1>3. u \in Thread /\ u.block = t.block /\ u.at = "unlink" /\ u.doomed = t.doomed \ {b}
    BY <1>2 DEF Thread
  <1>4. threads' = {} \/ threads' = {u}
    <2>1. Dies(t) \/ Goes(t, u)
      BY <1>1
    <2>. HIDE DEF u
    <2>. QED
      BY <1>2, <1>3, <2>1, OneLeft
  <1>. HIDE DEF u
  <1>5. PICK newest \in complete \ t.doomed : \A d \in t.doomed : d < newest
    BY <1>2 DEF IInv, NewestSpared
  <1>6. TypeOK'
    BY <1>1, <1>2, <1>3, <1>4 DEF IInv, TypeOK
  <1>7. OneThread'
    BY <1>2, <1>3, <1>4 DEF OneThread
  <1>8. NewestSpared'
    <2>1. newest \in complete' \ (t.doomed \ {b}) /\ \A d \in t.doomed \ {b} : d < newest
      BY <1>1, <1>5
    <2>. QED
      BY <1>3, <1>4, <2>1 DEF NewestSpared
  <1>9. PickedIsRecent'
    <2>. SUFFICES ASSUME phase = "read", picked # None
                  PROVE  /\ picked \in complete'
                         /\ \A c, d \in complete' : c > picked /\ d > picked => c = d
                         /\ picked \notin t.doomed
      BY <1>2, <1>3, <1>4 DEF PickedIsRecent
    <2>. QED
      BY <1>1, <1>2 DEF IInv, PickedIsRecent
  <1>10. \A a \in complete : \E c \in complete' : c >= a
    <2>. TAKE a \in complete
    <2>1. CASE a = b
      <3>1. newest \in complete' /\ newest >= a
        BY <1>1, <1>2, <1>5, <2>1
      <3>. QED
        BY <3>1
    <2>2. CASE a # b
      <3>1. a \in complete' /\ a >= a
        BY <1>1, <1>2, <2>2
      <3>. QED
        BY <3>1
    <2>. QED
      BY <2>1, <2>2
  <1>. QED
    BY <1>6, <1>7, <1>8, <1>9, <1>10 DEF IInv

LEMMA LatestInv ==
  ASSUME IInv, Latest
  PROVE  IInv'
  <1>1. /\ complete \in SUBSET (0..block) /\ block \in Nat
        /\ UNCHANGED <<block, complete, part, threads, live>> /\ phase' = "read"
    BY LiveBenchAssumption DEF IInv, TypeOK, Latest
  <1>2. picked' = None \/ (picked' \in complete /\ \A c \in complete : c <= picked')
    <2>1. CASE complete = {}
      BY <2>1 DEF Latest
    <2>2. CASE complete # {}
      <3>1. \E b \in complete : \A c \in complete : c <= b
        BY <1>1, <2>2, Greatest
      <3>2. picked' = CHOOSE b \in complete : \A c \in complete : c <= b
        BY <2>2 DEF Latest
      <3>. QED
        BY <3>1, <3>2
    <2>. QED
      BY <2>1, <2>2
  <1>3. TypeOK'
    BY <1>1, <1>2 DEF IInv, TypeOK
  <1>4. OneThread' /\ NewestSpared'
    BY <1>1 DEF IInv, OneThread, NewestSpared
  <1>5. PickedIsRecent'
    <2>. SUFFICES ASSUME picked' # None
                  PROVE  PickedIsRecent'
      BY DEF PickedIsRecent
    <2>1. picked' \in complete /\ \A c \in complete : c <= picked'
      BY <1>2
    <2>2. \A c \in complete : c \in Nat /\ ~(c > picked')
      BY <1>1, <2>1
    <2>3. ASSUME NEW t \in threads, t.at = "unlink"
          PROVE  picked' \notin t.doomed
      <3>1. PICK c \in complete \ t.doomed : \A b \in t.doomed : b < c
        BY <2>3 DEF IInv, NewestSpared
      <3>2. ~(picked' < c)
        BY <2>1, <2>2
      <3>. QED
        BY <3>1, <3>2
    <2>. QED
      BY <1>1, <2>1, <2>2, <2>3 DEF PickedIsRecent
  <1>. QED
    BY <1>3, <1>4, <1>5 DEF IInv

LEMMA StartPrefetchInv ==
  ASSUME IInv, StartPrefetch
  PROVE  IInv'
  <1>1. /\ UNCHANGED <<block, complete, part>> /\ phase' = "idle"
        /\ picked' = None /\ live' = None
        /\ block \in Nat
    BY LiveBenchAssumption DEF StartPrefetch, IInv, TypeOK
  <1>2. NewThread \in Thread /\ NewThread.block = block /\ NewThread.at = "fetch"
    BY <1>1 DEF NewThread, Thread
  <1>3. threads' = threads \/ threads' = {NewThread}
    BY DEF StartPrefetch, LivePrefetcher_start
  <1>4. TypeOK'
    BY <1>1, <1>2, <1>3 DEF IInv, TypeOK
  <1>5. OneThread'
    BY <1>1, <1>2, <1>3 DEF IInv, OneThread
  <1>6. NewestSpared'
    BY <1>1, <1>2, <1>3 DEF IInv, NewestSpared
  <1>7. PickedIsRecent'
    BY <1>1 DEF PickedIsRecent
  <1>. QED
    BY <1>4, <1>5, <1>6, <1>7 DEF IInv

LEMMA LiveNext ==
  ASSUME IInv, [Next]_vars
  PROVE  IInv'
  <1>1. CASE \E t \in threads : Fetch(t) \/ Rename(t) \/ List(t) \/ Unlink(t)
    BY <1>1, FetchInv, RenameInv, ListInv, UnlinkInv
  <1>2. CASE Latest
    BY <1>2, LatestInv
  <1>3. CASE ReadSnapshot
    BY <1>3 DEF ReadSnapshot, IInv, TypeOK, OneThread, NewestSpared, PickedIsRecent
  <1>4. CASE StartPrefetch
    BY <1>4, StartPrefetchInv
  <1>5. CASE Crash
    BY <1>5 DEF Crash, IInv, TypeOK, OneThread, NewestSpared, PickedIsRecent
  <1>6. CASE Tick
    <2>1. /\ block \in Nat /\ block' = block + 1 /\ block' \in 0..MaxBlock
          /\ 0..block \subseteq 0..block'
          /\ UNCHANGED <<complete, part, threads, phase, picked, live>>
      BY <1>6, LiveBenchAssumption DEF Tick, main, IInv, TypeOK
    <2>2. TypeOK'
      BY <2>1 DEF IInv, TypeOK
    <2>3. OneThread'
      BY <2>1 DEF IInv, TypeOK, Thread, OneThread
    <2>. QED
      BY <2>1, <2>2, <2>3 DEF IInv, NewestSpared, PickedIsRecent
  <1>7. CASE UNCHANGED vars
    BY <1>7 DEF vars, main, IInv, TypeOK, OneThread, NewestSpared, PickedIsRecent
  <1>. QED
    BY <1>1, <1>2, <1>3, <1>4, <1>5, <1>6, <1>7 DEF Next

-----------------------------------------------------------------------------
(* Theorems.                                                               *)

LEMMA LiveInvariance == Spec => []IInv
  BY LiveInit, LiveNext, PTL DEF Spec

\* Every variable of the live benchmark keeps its type, for every cap and every height.
THEOREM TypeCorrectness == Spec => []TypeOK
  <1>1. IInv => TypeOK
    BY DEF IInv
  <1>. QED
    BY <1>1, LiveInvariance, PTL

\* The snapshot that store.latest() answered is there when the round reads it
\* (_append_live_benchmark_stream), whatever the prefetch does in between.
THEOREM PickedIsReadable == Spec => []PickedStaysReadable
  <1>1. IInv => PickedStaysReadable
    BY DEF IInv, PickedIsRecent, PickedStaysReadable
  <1>. QED
    BY <1>1, LiveInvariance, PTL

\* No step leaves the directory with nothing as new as what it had
\* (LiveSnapshotStore._prune), for every cap of two snapshots or more.
THEOREM NewestIsKept == Spec => NewestNeverLost
  <1>1. ASSUME IInv, [Next]_vars
        PROVE  [\A b \in complete : \E c \in complete' : c >= b]_complete
    <2>1. complete \subseteq Nat
      <3>1. complete \subseteq 0..block /\ block \in 0..MaxBlock
        BY <1>1 DEF IInv, TypeOK
      <3>. QED
        BY <3>1
    <2>2. CASE \E t \in threads : Unlink(t)
      BY <1>1, <2>2, UnlinkInv
    <2>3. CASE \E t \in threads : Rename(t)
      <3>1. complete \subseteq complete'
        BY <2>3 DEF Rename
      <3>. QED
        BY <2>1, <3>1
    <2>4. CASE UNCHANGED complete
      BY <2>4
    <2>. QED
      BY <1>1, <2>2, <2>3, <2>4
      DEF Next, Latest, ReadSnapshot, StartPrefetch, Crash, Tick, Fetch, List, vars
  <1>. QED
    BY <1>1, LiveInvariance, PTL DEF Spec, NewestNeverLost
=============================================================================
