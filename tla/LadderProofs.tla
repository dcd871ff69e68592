----------------------------- MODULE LadderProofs -----------------------------
(***************************************************************************)
(* What the list operations of WinnerLadder compute, for every ladder.     *)
(***************************************************************************)
EXTENDS WinnerLadder, FiniteSetTheorems, WellFoundedInduction, TLAPS

\* A non-empty set of natural numbers has a least element.
LEMMA LeastNatural ==
    ASSUME NEW S \in SUBSET Nat, S # {}
    PROVE  \E m \in S : \A n \in S : m <= n
<1>. DEFINE below == {1..n : n \in S}
            R == StrictSubsetOrdering(Nat)
<1>1. below \subseteq FiniteSubsetsOf(Nat) /\ below # {}
  <2>1. \A n \in S : 1..n \in SUBSET Nat /\ IsFiniteSet(1..n)
    BY FS_Interval
  <2>. QED
    BY <2>1 DEF FiniteSubsetsOf
<1>2. \E x \in below : \A y \in below : ~(<<y, x>> \in R)
  <2>. HIDE DEF below, R
  <2>1. IsWellFoundedOn(R, FiniteSubsetsOf(Nat))
    BY FS_StrictSubsetOrderingWellFounded DEF R
  <2>. QED
    BY <1>1, <2>1, WFMin
<1>3. PICK m \in S : \A n \in S : ~(<<1..n, 1..m>> \in R)
  BY <1>2
<1>4. ASSUME NEW n \in S, ~(m <= n)
      PROVE  FALSE
  <2>1. 1..n \subseteq 1..m /\ m \in 1..m /\ m \notin 1..n
    BY <1>4
  <2>2. <<1..n, 1..m>> \in R
    BY <2>1 DEF StrictSubsetOrdering
  <2>. QED
    BY <1>3, <2>2
<1>. QED
  BY <1>4

\* Every set of positions has the n-th smallest one that Nth names.
LEMMA NthSmallest ==
    ASSUME NEW m \in Nat, NEW S \in SUBSET (1..m), NEW n \in 1..Cardinality(S)
    PROVE  /\ Nth(S, n) \in S
           /\ Cardinality({j \in S : j <= Nth(S, n)}) = n
<1>. DEFINE upto(i) == {j \in S : j <= i}
            reach == {i \in 0..m : Cardinality(upto(i)) >= n}
<1>1. IsFiniteSet(1..m)
  BY FS_Interval
<1>2. IsFiniteSet(S) /\ Cardinality(S) \in Nat
  BY <1>1, FS_Subset, FS_CardinalityType
<1>3. \A i \in 0..m : IsFiniteSet(upto(i)) /\ Cardinality(upto(i)) \in Nat
  BY <1>2, FS_Subset, FS_CardinalityType
<1>4. upto(m) = S
  <2>1. \A j \in S : j <= m
    OBVIOUS
  <2>. QED
    BY <2>1
<1>5. reach \in SUBSET Nat /\ reach # {}
  <2>1. m \in reach
    BY <1>2, <1>4
  <2>. QED
    BY <2>1
<1>6. PICK i \in 0..m : /\ Cardinality(upto(i)) >= n
                        /\ \A k \in 0..m : Cardinality(upto(k)) >= n => i <= k
  <2>1. PICK i \in reach : \A k \in reach : i <= k
    BY <1>5, LeastNatural
  <2>. QED
    BY <2>1
<1>7. Cardinality(upto(0)) = 0
  <2>1. \A j \in S : ~(j <= 0)
    OBVIOUS
  <2>2. upto(0) = {}
    BY <2>1
  <2>. QED
    BY <2>2, FS_EmptySet
<1>8. i - 1 \in 0..m /\ i \in Nat /\ n \in Nat /\ Cardinality(upto(i)) \in Nat
  <2>. HIDE DEF upto
  <2>1. n \in Nat /\ 1 <= n
    BY <1>2
  <2>2. i # 0
    BY <2>1, <1>6, <1>7
  <2>. QED
    BY <2>1, <2>2, <1>3
<1>9. Cardinality(upto(i - 1)) \in Nat /\ Cardinality(upto(i - 1)) < n
  <2>. HIDE DEF upto
  <2>. QED
    BY <1>3, <1>6, <1>8
<1>10. CASE i \in S
  <2>1. upto(i) = upto(i - 1) \cup {i} /\ i \notin upto(i - 1)
    <3>1. \A j \in S : j \in Nat
      OBVIOUS
    <3>2. \A j \in S : j <= i <=> j <= i - 1 \/ j = i
      BY <3>1, <1>8
    <3>3. ~(i <= i - 1)
      BY <1>8
    <3>. QED
      BY <3>2, <3>3, <1>10
  <2>2. Cardinality(upto(i)) = Cardinality(upto(i - 1)) + 1
    <3>. HIDE DEF upto
    <3>. QED
      BY <2>1, <1>3, <1>8, FS_AddElement
  <2>3. Cardinality(upto(i)) = n
    <3>. HIDE DEF upto
    <3>. QED
      BY <2>2, <1>6, <1>8, <1>9
  <2>. QED
    BY <2>3, <1>10 DEF Nth
<1>11. CASE i \notin S
  <2>1. upto(i) = upto(i - 1)
    <3>1. \A j \in S : j \in Nat
      OBVIOUS
    <3>2. \A j \in S : j <= i <=> j <= i - 1
      BY <3>1, <1>8, <1>11
    <3>. QED
      BY <3>2
  <2>. QED
    BY <2>1, <1>6, <1>8, <1>9
<1>. QED
  BY <1>10, <1>11

\* compact_history returns a list of its argument's entries, of eligible hotkeys
\* only, no hotkey twice, and not longer than the depth.
LEMMA CompactHistory ==
    ASSUME NEW E, NEW history \in Seq(E), NEW eligible
    PROVE  LET compacted == compact_history(history, eligible)
           IN  /\ compacted \in Seq(E)
               /\ Len(compacted) <= HistoryDepth
               /\ \A n \in DOMAIN compacted :
                     /\ compacted[n].hotkey \in eligible
                     /\ \E i \in DOMAIN history : compacted[n] = history[i]
               /\ \A n, k \in DOMAIN compacted :
                     compacted[n].hotkey = compacted[k].hotkey => n = k
<1>. DEFINE kept == Kept(history, eligible)
            size == IF Cardinality(kept) <= HistoryDepth
                    THEN Cardinality(kept) ELSE HistoryDepth
            compacted == [n \in 1..size |-> history[Nth(kept, n)]]
<1>1. Len(history) \in Nat /\ DOMAIN history = 1..Len(history)
  OBVIOUS
<1>2. kept \in SUBSET (1..Len(history))
  BY <1>1 DEF Kept
<1>3. IsFiniteSet(kept) /\ Cardinality(kept) \in Nat
  <2>1. IsFiniteSet(1..Len(history))
    BY <1>1, FS_Interval
  <2>. QED
    BY <2>1, <1>2, FS_Subset, FS_CardinalityType
<1>4. size \in Nat /\ size <= HistoryDepth /\ 1..size \subseteq 1..Cardinality(kept)
  BY <1>3, LadderAssumption
<1>5. \A n \in 1..size : /\ Nth(kept, n) \in kept
                         /\ Cardinality({j \in kept : j <= Nth(kept, n)}) = n
  BY <1>1, <1>2, <1>4, NthSmallest
<1>6. \A n \in 1..size : compacted[n] = history[Nth(kept, n)]
  OBVIOUS
<1>7. compacted \in Seq(E) /\ Len(compacted) = size /\ DOMAIN compacted = 1..size
  <2>1. \A n \in 1..size : history[Nth(kept, n)] \in E
    <3>1. \A j \in kept : history[j] \in E
      BY <1>1, <1>2
    <3>. QED
      BY <3>1, <1>5
  <2>2. compacted \in [1..size -> E]
    BY <2>1
  <2>. HIDE DEF compacted, size
  <2>. QED
    BY <2>2, <1>4
<1>8. \A n \in 1..size : /\ compacted[n].hotkey \in eligible
                         /\ \E i \in DOMAIN history : compacted[n] = history[i]
  BY <1>1, <1>2, <1>5, <1>6 DEF Kept
<1>9. ASSUME NEW n \in 1..size, NEW k \in 1..size,
             compacted[n].hotkey = compacted[k].hotkey
      PROVE  n = k
  <2>1. history[Nth(kept, n)].hotkey = history[Nth(kept, k)].hotkey
    BY <1>6, <1>9
  <2>2. Nth(kept, n) = Nth(kept, k)
    <3>1. Nth(kept, n) \in kept /\ Nth(kept, k) \in kept
      BY <1>5
    <3>. QED
      BY <2>1, <3>1, <1>1, <1>2 DEF Kept
  <2>. QED
    BY <2>2, <1>5
<1>10. compact_history(history, eligible) = compacted
  BY DEF compact_history
<1>. HIDE DEF compacted, size, kept
<1>. QED
  BY <1>4, <1>7, <1>8, <1>9, <1>10

\* Compaction keeps the head of a list whose first hotkey is eligible.
LEMMA CompactHead ==
    ASSUME NEW E, NEW history \in Seq(E), history # <<>>,
           NEW eligible, history[1].hotkey \in eligible
    PROVE  LET compacted == compact_history(history, eligible)
           IN  compacted # <<>> /\ compacted[1] = history[1]
<1>. DEFINE kept == Kept(history, eligible)
            size == IF Cardinality(kept) <= HistoryDepth
                    THEN Cardinality(kept) ELSE HistoryDepth
            first == Nth(kept, 1)
            upto == {j \in kept : j <= first}
<1>1. Len(history) \in Nat /\ DOMAIN history = 1..Len(history) /\ 1 \in DOMAIN history
  OBVIOUS
<1>2. kept \in SUBSET (1..Len(history)) /\ 1 \in kept
  BY <1>1 DEF Kept
<1>3. IsFiniteSet(kept) /\ Cardinality(kept) \in Nat /\ Cardinality(kept) >= 1
  <2>1. IsFiniteSet(1..Len(history))
    BY <1>1, FS_Interval
  <2>2. IsFiniteSet(kept) /\ Cardinality(kept) \in Nat
    BY <2>1, <1>2, FS_Subset, FS_CardinalityType
  <2>3. Cardinality(kept) # 0
    BY <2>2, <1>2, FS_EmptySet
  <2>. QED
    BY <2>2, <2>3
<1>4. first \in kept /\ Cardinality(upto) = 1
  <2>1. 1 \in 1..Cardinality(kept)
    BY <1>3
  <2>. HIDE DEF kept
  <2>. QED
    BY <2>1, <1>1, <1>2, NthSmallest
<1>5. first = 1
  <2>1. IsFiniteSet(upto)
    BY <1>3, FS_Subset
  <2>2. PICK x : upto = {x}
    BY <2>1, <1>4, FS_Singleton
  <2>3. first \in upto /\ 1 \in upto
    BY <1>2, <1>4
  <2>. QED
    BY <2>2, <2>3
<1>6. size \in Nat /\ size >= 1
  BY <1>3, LadderAssumption
<1>7. compact_history(history, eligible) = [n \in 1..size |-> history[Nth(kept, n)]]
  BY DEF compact_history
<1>8. /\ 1 \in DOMAIN compact_history(history, eligible)
      /\ compact_history(history, eligible)[1] = history[first]
  <2>. HIDE DEF kept, size
  <2>. QED
    BY <1>6, <1>7
<1>. QED
  BY <1>5, <1>8

\* Compaction keeps the order: entries of the result stand in its argument in the
\* order in which they stand in the result.
LEMMA CompactOrder ==
    ASSUME NEW E, NEW history \in Seq(E), NEW eligible,
           NEW n \in DOMAIN compact_history(history, eligible),
           NEW k \in DOMAIN compact_history(history, eligible), n < k
    PROVE  \E i, j \in DOMAIN history :
               /\ i < j
               /\ compact_history(history, eligible)[n] = history[i]
               /\ compact_history(history, eligible)[k] = history[j]
<1>. DEFINE kept == Kept(history, eligible)
            size == IF Cardinality(kept) <= HistoryDepth
                    THEN Cardinality(kept) ELSE HistoryDepth
            upto(i) == {j \in kept : j <= i}
<1>1. Len(history) \in Nat /\ DOMAIN history = 1..Len(history)
  OBVIOUS
<1>2. kept \in SUBSET (1..Len(history))
  BY <1>1 DEF Kept
<1>3. IsFiniteSet(kept) /\ Cardinality(kept) \in Nat
  <2>1. IsFiniteSet(1..Len(history))
    BY <1>1, FS_Interval
  <2>. QED
    BY <2>1, <1>2, FS_Subset, FS_CardinalityType
<1>4. compact_history(history, eligible) = [i \in 1..size |-> history[Nth(kept, i)]]
  BY DEF compact_history
<1>5. size \in Nat /\ 1..size \subseteq 1..Cardinality(kept)
  BY <1>3, LadderAssumption
<1>6. /\ n \in 1..size /\ k \in 1..size /\ n \in Nat /\ k \in Nat
      /\ compact_history(history, eligible)[n] = history[Nth(kept, n)]
      /\ compact_history(history, eligible)[k] = history[Nth(kept, k)]
  <2>. HIDE DEF size, kept
  <2>1. n \in 1..size /\ k \in 1..size
    BY <1>4
  <2>. QED
    BY <2>1, <1>4, <1>5
<1>7. /\ Nth(kept, n) \in kept /\ Cardinality(upto(Nth(kept, n))) = n
      /\ Nth(kept, k) \in kept /\ Cardinality(upto(Nth(kept, k))) = k
  <2>1. n \in 1..Cardinality(kept) /\ k \in 1..Cardinality(kept)
    BY <1>5, <1>6
  <2>. HIDE DEF kept
  <2>. QED
    BY <2>1, <1>1, <1>2, NthSmallest
<1>8. Nth(kept, n) \in 1..Len(history) /\ Nth(kept, k) \in 1..Len(history)
  BY <1>2, <1>7
<1>. HIDE DEF kept, size
<1>9. ASSUME Nth(kept, k) <= Nth(kept, n)
      PROVE  FALSE
  <2>1. \A j \in kept : j \in Nat
    BY <1>1, <1>2
  <2>2. upto(Nth(kept, k)) \subseteq upto(Nth(kept, n))
    BY <2>1, <1>8, <1>9
  <2>3. IsFiniteSet(upto(Nth(kept, n)))
    BY <1>3, FS_Subset
  <2>4. Cardinality(upto(Nth(kept, k))) <= Cardinality(upto(Nth(kept, n)))
    BY <2>2, <2>3, FS_Subset
  <2>. QED
    BY <2>4, <1>6, <1>7
<1>10. Nth(kept, n) < Nth(kept, k)
  BY <1>8, <1>9
<1>. QED
  BY <1>1, <1>6, <1>8, <1>10

\* Compaction keeps somebody if anybody is eligible.
LEMMA CompactKeepsSome ==
    ASSUME NEW E, NEW history \in Seq(E), NEW eligible,
           NEW i \in DOMAIN history, history[i].hotkey \in eligible
    PROVE  compact_history(history, eligible) # <<>>
<1>. DEFINE kept == Kept(history, eligible)
            size == IF Cardinality(kept) <= HistoryDepth
                    THEN Cardinality(kept) ELSE HistoryDepth
            eligibles == {j \in DOMAIN history : history[j].hotkey \in eligible}
<1>1. Len(history) \in Nat /\ DOMAIN history = 1..Len(history)
  OBVIOUS
<1>2. PICK m \in eligibles : \A j \in eligibles : m <= j
  <2>1. eligibles \in SUBSET Nat /\ eligibles # {}
    BY <1>1
  <2>. QED
    BY <2>1, LeastNatural
<1>3. m \in kept
  <2>1. \A j \in 1..(m - 1) : j \in DOMAIN history /\ ~(m <= j)
    BY <1>1, <1>2
  <2>. QED
    BY <2>1, <1>2 DEF Kept
<1>4. IsFiniteSet(kept) /\ Cardinality(kept) \in Nat
  <2>1. IsFiniteSet(1..Len(history))
    BY <1>1, FS_Interval
  <2>2. kept \subseteq 1..Len(history)
    BY <1>1 DEF Kept
  <2>. QED
    BY <2>1, <2>2, FS_Subset, FS_CardinalityType
<1>5. Cardinality(kept) # 0
  BY <1>3, <1>4, FS_EmptySet
<1>6. size \in Nat /\ 1 \in 1..size
  BY <1>4, <1>5, LadderAssumption
<1>7. compact_history(history, eligible) = [n \in 1..size |-> history[Nth(kept, n)]]
  BY DEF compact_history
<1>8. DOMAIN compact_history(history, eligible) = 1..size
  <2>. HIDE DEF kept, size
  <2>. QED
    BY <1>7
<1>9. DOMAIN <<>> = {}
  OBVIOUS
<1>. QED
  BY <1>6, <1>8, <1>9

\* Of a list of distinct hotkeys, all eligible, compaction cuts off what is too deep
\* and nothing else.
LEMMA CompactCutsOff ==
    ASSUME NEW E, NEW history \in Seq(E), NEW eligible,
           \A i \in DOMAIN history : history[i].hotkey \in eligible,
           \A i, j \in DOMAIN history : history[i].hotkey = history[j].hotkey => i = j
    PROVE  LET compacted == compact_history(history, eligible)
           IN  /\ DOMAIN compacted = {i \in DOMAIN history : i <= HistoryDepth}
               /\ \A i \in DOMAIN compacted : compacted[i] = history[i]
<1>. DEFINE kept == Kept(history, eligible)
            length == Len(history)
            size == IF Cardinality(kept) <= HistoryDepth
                    THEN Cardinality(kept) ELSE HistoryDepth
<1>1. length \in Nat /\ DOMAIN history = 1..length
  OBVIOUS
<1>2. kept = 1..length
  <2>1. ASSUME NEW i \in 1..length, NEW j \in 1..(i - 1)
        PROVE  j \in 1..length /\ j # i
    BY <1>1
  <2>2. \A i \in 1..length : i \in kept
    BY <1>1, <2>1 DEF Kept
  <2>. QED
    BY <1>1, <2>2 DEF Kept
<1>3. Cardinality(kept) = length
  BY <1>1, <1>2, FS_Interval
<1>4. ASSUME NEW n \in 1..length
      PROVE  Nth(kept, n) = n
  <2>. DEFINE nth == Nth(kept, n)
              upto == {j \in kept : j <= nth}
  <2>1. nth \in kept /\ Cardinality(upto) = n
    <3>1. kept \in SUBSET (1..length) /\ n \in 1..Cardinality(kept)
      BY <1>2, <1>3
    <3>. HIDE DEF kept, length
    <3>. QED
      BY <1>1, <3>1, NthSmallest
  <2>2. upto = 1..nth
    <3>. HIDE DEF kept, nth
    <3>. QED
      BY <1>1, <1>2, <2>1
  <2>3. Cardinality(1..nth) = nth
    <3>1. nth \in Nat /\ 1 <= nth
      <4>. HIDE DEF kept, nth
      <4>. QED
        BY <1>1, <1>2, <2>1
    <3>. HIDE DEF nth
    <3>. QED
      BY <3>1, FS_Interval
  <2>. QED
    BY <2>1, <2>2, <2>3
<1>5. compact_history(history, eligible) = [n \in 1..size |-> history[Nth(kept, n)]]
  BY DEF compact_history
<1>6. size \in Nat /\ size = IF length <= HistoryDepth THEN length ELSE HistoryDepth
  BY <1>1, <1>3, LadderAssumption
<1>. HIDE DEF kept, size, length
<1>7. 1..size = {i \in 1..length : i <= HistoryDepth}
  BY <1>1, <1>6, LadderAssumption
<1>. QED
  BY <1>1, <1>4, <1>5, <1>7

=============================================================================
