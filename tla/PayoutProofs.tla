------------------------------ MODULE PayoutProofs ------------------------------
(***************************************************************************)
(* Proofs about Payout, for every ladder, every requirement, any shares    *)
(* and any movement of stake and locks.  Two walks down the ladder are     *)
(* compared: the report's, one step at a time while the chain moves, and   *)
(* the payment's, the function remaining.  Walked says that the first has  *)
(* come as far as the second would with the compliant winners so far.      *)
(***************************************************************************)
EXTENDS Payout, WellFoundedInduction, TLAPS

\* The rungs the report found compliant.
Compliant == {i \in DOMAIN history : report[history[i].hotkey] = "compliant"}

\* How far the report has come.
Walked ==
    phase # "idle" =>
        /\ \A i \in DOMAIN history :
              /\ i >= at => report[history[i].hotkey] = "absent"
              /\ i < at /\ ~Payable(history[i].hotkey) => report[history[i].hotkey] = "absent"
              /\ i < at /\ Payable(history[i].hotkey) =>
                    report[history[i].hotkey] \in {"compliant", "gated"}
        /\ pot_left = remaining(Compliant)[at - 1]
        /\ paid_any <=> Compliant # {}

\* The report stops when the ladder or the pot ends, and the weights follow from it.
Decided ==
    phase = "set" =>
        /\ at > Len(history) \/ (paid_any /\ pot_left = 0)
        /\ weights = compute_weights(burned)

\* Who covered its requirement all the time covers it now, and did when the metagraph
\* was fetched.
CoversAll ==
    /\ \A h \in Hotkey : locked[h] <= stake[h]
    /\ \A h \in covered : locked[h] >= Required[h] /\ metagraph.staked[h] >= Required[h]

IInv == TypeOK /\ Walked /\ Decided /\ CoversAll /\ CoveredIsNeverGated

-----------------------------------------------------------------------------
(* Walks down a ladder.                                                    *)

\* Induction on the naturals, over a set of them.
LEMMA Induct ==
  ASSUME NEW S, 0 \in S, \A n \in Nat : n \in S => n + 1 \in S
  PROVE  \A n \in Nat : n \in S
  <1>. DEFINE R == {x \in Nat \X Nat : x[1] < x[2]}
              B == Nat \ S
  <1>1. IsWellFoundedOn(R, Nat)
    BY NatLessThanWellFounded, Zenon DEF OpToRel
  <1>2. SUFFICES ASSUME B # {} PROVE FALSE
    OBVIOUS
  <1>3. PICK n \in B : \A m \in B : ~(<<m, n>> \in R)
    <2>. HIDE DEF R
    <2>. QED
      BY <1>1, <1>2, WFMin
  <1>4. n \in Nat /\ n # 0 /\ n - 1 \in Nat
    BY <1>3
  <1>5. <<n - 1, n>> \in R
    BY <1>4
  <1>6. n - 1 \in S
    BY <1>3, <1>4, <1>5
  <1>. QED
    BY <1>3, <1>4, <1>6

\* A walk that adds one step to the next exists.
LEMMA WalkExists ==
  ASSUME NEW N \in Nat, NEW a \in Nat, NEW g \in [(1..N) \X Nat -> Nat]
  PROVE  \E f \in [0..N -> Nat] : f[0] = a /\ \A i \in 1..N : f[i] = g[<<i, f[i - 1]>>]
  <1>. DEFINE Walk(f, n) == /\ f \in [0..n -> Nat] /\ f[0] = a
                            /\ \A i \in 1..n : f[i] = g[<<i, f[i - 1]>>]
              S == {n \in Nat : n <= N => \E f : Walk(f, n)}
  <1>1. 0 \in S
    <2>1. Walk([i \in 0..0 |-> a], 0)
      OBVIOUS
    <2>. QED
      BY <2>1
  <1>2. ASSUME NEW n \in Nat, n \in S
        PROVE  n + 1 \in S
    <2>1. SUFFICES ASSUME n + 1 <= N PROVE \E f : Walk(f, n + 1)
      OBVIOUS
    <2>2. PICK f : Walk(f, n)
      BY <1>2, <2>1
    <2>. DEFINE next == [i \in 0..(n + 1) |-> IF i = n + 1 THEN g[<<n + 1, f[n]>>] ELSE f[i]]
    <2>3. f[n] \in Nat /\ <<n + 1, f[n]>> \in (1..N) \X Nat
      BY <2>1, <2>2
    <2>4. g[<<n + 1, f[n]>>] \in Nat
      BY <2>3
    <2>5. next \in [0..(n + 1) -> Nat] /\ next[0] = a
      BY <2>2, <2>4
    <2>6. ASSUME NEW i \in 1..(n + 1)
          PROVE  next[i] = g[<<i, next[i - 1]>>]
      <3>1. i - 1 \in 0..n /\ next[i - 1] = f[i - 1]
        OBVIOUS
      <3>2. CASE i = n + 1
        <4>1. i - 1 = n /\ next[i] = g[<<n + 1, f[n]>>]
          BY <3>2
        <4>. QED
          BY <3>1, <3>2, <4>1
      <3>3. CASE i # n + 1
        <4>1. i \in 1..n /\ next[i] = f[i]
          BY <3>3
        <4>. QED
          BY <2>2, <3>1, <4>1
      <3>. QED
        BY <3>2, <3>3
    <2>. QED
      BY <2>5, <2>6
  <1>. HIDE DEF Walk
  <1>3. N \in S
    <2>. HIDE DEF S
    <2>. QED
      BY <1>1, <1>2, Induct
  <1>4. PICK f : Walk(f, N)
    BY <1>3
  <1>. QED
    BY <1>4 DEF Walk

\* The ladder and what its rungs are.
LEMMA LadderTypes ==
  ASSUME history \in Ladder
  PROVE  /\ Len(history) \in Nat /\ DOMAIN history = 1..Len(history)
         /\ \A i \in DOMAIN history : history[i] \in Rung /\ history[i].hotkey \in Hotkey
         /\ \A i, j \in DOMAIN history : history[i].hotkey = history[j].hotkey => i = j
  <1>1. PICK n \in 0..MaxHistory : history \in [1..n -> Rung]
    BY DEF Ladder
  <1>2. n \in Nat
    BY PayoutAssumption
  <1>3. history \in Seq(Rung)
    BY <1>1, <1>2
  <1>4. Len(history) \in Nat /\ DOMAIN history = 1..Len(history)
    BY <1>3
  <1>. QED
    BY <1>1, <1>4 DEF Ladder, Rung

LEMMA ShareTypes ==
  ASSUME history \in Ladder, NEW i \in DOMAIN history, NEW top \in BOOLEAN
  PROVE  /\ winner_share(history[i], top) \in Nat
         /\ winner_share(history[i], FALSE) \in Nat
         /\ winner_share(history[i], top) >= winner_share(history[i], FALSE)
         /\ winner_share(history[i], TRUE) > 0
  <1>1. history[i].improvement \in Nat
    <2>1. history[i] \in Rung
      BY LadderTypes
    <2>2. Improvement \subseteq Nat
      BY PayoutAssumption
    <2>. QED
      BY <2>1, <2>2 DEF Rung
  <1>. DEFINE m == Multiplier * history[i].improvement
  <1>2. m \in Nat
    BY <1>1, PayoutAssumption
  <1>3. BaseShare \in Nat /\ BaseShare > 0
    BY PayoutAssumption
  <1>4. \/ winner_share(history[i], top) = winner_share(history[i], TRUE)
        \/ winner_share(history[i], top) = winner_share(history[i], FALSE)
    BY Zenon
  <1>5. /\ winner_share(history[i], FALSE) = 0 + m
        /\ winner_share(history[i], TRUE) = BaseShare + m
    BY DEF winner_share
  <1>. HIDE DEF m
  <1>. DEFINE w == winner_share(history[i], top)
              t == winner_share(history[i], TRUE)
              f == winner_share(history[i], FALSE)
  <1>6. w = t \/ w = f
    BY <1>4
  <1>7. f = 0 + m /\ t = BaseShare + m
    BY <1>5
  <1>. HIDE DEF w, t, f
  <1>8. w \in Nat /\ f \in Nat /\ w >= f /\ t > 0
    BY <1>2, <1>3, <1>6, <1>7
  <1>. QED
    BY <1>8 DEF w, t, f

\* share is a share.
LEMMA ShareIsShare ==
  ASSUME history \in Ladder, NEW p, NEW i \in DOMAIN history
  PROVE  /\ share(p, i) \in Nat /\ share(p, i) >= winner_share(history[i], FALSE)
         /\ (\A j \in p : i <= j) => share(p, i) = winner_share(history[i], TRUE)
         /\ ~(\A j \in p : i <= j) => share(p, i) = winner_share(history[i], FALSE)
  <1>1. (\A j \in p : i <= j) \in BOOLEAN
    BY Zenon
  <1>2. CASE \A j \in p : i <= j
    <2>1. share(p, i) = winner_share(history[i], TRUE)
      BY <1>2 DEF share, winner_share
    <2>. QED
      BY <1>2, <2>1, ShareTypes
  <1>3. CASE ~(\A j \in p : i <= j)
    <2>1. share(p, i) = winner_share(history[i], FALSE)
      BY <1>3 DEF share, winner_share
    <2>. QED
      BY <1>3, <2>1, ShareTypes
  <1>. QED
    BY <1>2, <1>3

\* remaining is what its recursion says.
LEMMA RemainingFacts ==
  ASSUME history \in Ladder, NEW p \in SUBSET DOMAIN history
  PROVE  /\ remaining(p) \in [0..Len(history) -> Nat] /\ remaining(p)[0] = Unit
         /\ \A i \in DOMAIN history :
               remaining(p)[i] = IF i \in p THEN Less(remaining(p)[i - 1], share(p, i))
                                 ELSE remaining(p)[i - 1]
  <1>. DEFINE N == Len(history)
              g == [x \in (1..N) \X Nat |-> IF x[1] \in p THEN Less(x[2], share(p, x[1])) ELSE x[2]]
              Rec(f) == f = [i \in 0..N |->
                               IF i = 0 THEN Unit
                               ELSE IF i \in p THEN Less(f[i - 1], share(p, i)) ELSE f[i - 1]]
  <1>1. N \in Nat /\ DOMAIN history = 1..N /\ Unit \in Nat
    BY LadderTypes, PayoutAssumption
  <1>2. \A i \in 1..N : share(p, i) \in Nat
    BY <1>1, ShareIsShare
  <1>3. g \in [(1..N) \X Nat -> Nat]
    BY <1>2 DEF Less
  <1>4. PICK f \in [0..N -> Nat] : f[0] = Unit /\ \A i \in 1..N : f[i] = g[<<i, f[i - 1]>>]
    <2>. HIDE DEF g, N
    <2>. QED
      BY <1>1, <1>3, WalkExists
  <1>5. ASSUME NEW i \in 1..N
        PROVE  f[i] = IF i \in p THEN Less(f[i - 1], share(p, i)) ELSE f[i - 1]
    <2>1. <<i, f[i - 1]>> \in (1..N) \X Nat
      BY <1>1
    <2>. QED
      BY <1>4, <2>1
  <1>6. Rec(f)
    <2>1. f = [i \in 0..N |-> f[i]]
      BY <1>4
    <2>2. \A i \in 0..N : f[i] = IF i = 0 THEN Unit
                                 ELSE IF i \in p THEN Less(f[i - 1], share(p, i)) ELSE f[i - 1]
      BY <1>1, <1>4, <1>5
    <2>. QED
      BY <2>1, <2>2
  <1>7. remaining(p) = CHOOSE r : Rec(r)
    BY DEF remaining
  <1>8. Rec(remaining(p))
    <2>. HIDE DEF Rec
    <2>. QED
      BY <1>6, <1>7, Zenon
  <1>. DEFINE r == remaining(p)
  <1>9. /\ r = [i \in 0..N |-> r[i]] /\ r[0] = Unit
        /\ \A i \in 1..N : r[i] = IF i \in p THEN Less(r[i - 1], share(p, i)) ELSE r[i - 1]
    <2>. HIDE DEF r
    <2>1. r = [i \in 0..N |-> IF i = 0 THEN Unit
                              ELSE IF i \in p THEN Less(r[i - 1], share(p, i)) ELSE r[i - 1]]
      BY <1>8 DEF r
    <2>. HIDE DEF N
    <2>. QED
      BY <1>1, <2>1
  <1>10. \A i \in 0..N : r[i] \in Nat
    <2>. DEFINE S == {n \in Nat : n <= N => r[n] \in Nat}
    <2>. HIDE DEF r, N
    <2>1. 0 \in S
      BY <1>1, <1>9
    <2>2. ASSUME NEW n \in Nat, n \in S
          PROVE  n + 1 \in S
      <3>1. SUFFICES ASSUME n + 1 <= N PROVE r[n + 1] \in Nat
        OBVIOUS
      <3>2. n + 1 \in 1..N /\ (n + 1) - 1 = n /\ r[n] \in Nat
        BY <1>1, <2>2, <3>1
      <3>3. share(p, n + 1) \in Nat
        BY <1>2, <3>2
      <3>4. r[n + 1] = IF n + 1 \in p THEN Less(r[n], share(p, n + 1)) ELSE r[n]
        BY <1>9, <3>2
      <3>. QED
        BY <3>2, <3>3, <3>4 DEF Less
    <2>3. \A n \in Nat : n \in S
      <3>. HIDE DEF S
      <3>. QED
        BY <2>1, <2>2, Induct
    <2>. QED
      BY <1>1, <2>3
  <1>. HIDE DEF r
  <1>11. r \in [0..N -> Nat]
    BY <1>9, <1>10
  <1>. QED
    BY <1>1, <1>9, <1>11 DEF r

\* What is left at a rung depends on the payees above it.
LEMMA RemainingAgrees ==
  ASSUME history \in Ladder, NEW p \in SUBSET DOMAIN history, NEW q \in SUBSET DOMAIN history,
         NEW n \in 0..Len(history), \A i \in 1..n : i \in p <=> i \in q
  PROVE  remaining(p)[n] = remaining(q)[n]
  <1>. DEFINE N == Len(history)
              rp == remaining(p)
              rq == remaining(q)
              S == {k \in Nat : k <= n => rp[k] = rq[k]}
  <1>1. N \in Nat /\ DOMAIN history = 1..N
    BY LadderTypes
  <1>2. /\ rp[0] = Unit /\ rq[0] = Unit
        /\ \A i \in 1..N : rp[i] = IF i \in p THEN Less(rp[i - 1], share(p, i)) ELSE rp[i - 1]
        /\ \A i \in 1..N : rq[i] = IF i \in q THEN Less(rq[i - 1], share(q, i)) ELSE rq[i - 1]
    BY <1>1, RemainingFacts
  <1>3. ASSUME NEW i \in 1..n
        PROVE  share(p, i) = share(q, i)
    <2>1. (\A j \in p : i <= j) <=> (\A j \in q : i <= j)
      <3>1. \A j \in p \cup q : j \in 1..N
        BY <1>1
      <3>2. \A j \in 1..N : i > j => j \in 1..n
        BY <1>1
      <3>. HIDE DEF N
      <3>3. \A j \in 1..N : i <= j \/ i > j
        BY <1>1
      <3>. QED
        BY <3>1, <3>2, <3>3, <1>1
    <2>2. i \in DOMAIN history
      BY <1>1
    <2>. QED
      BY <2>1, <2>2, ShareIsShare
  <1>. HIDE DEF rp, rq, N
  <1>4. 0 \in S
    BY <1>2
  <1>5. ASSUME NEW k \in Nat, k \in S
        PROVE  k + 1 \in S
    <2>1. SUFFICES ASSUME k + 1 <= n PROVE rp[k + 1] = rq[k + 1]
      OBVIOUS
    <2>2. /\ k + 1 \in 1..n /\ k + 1 \in 1..N /\ (k + 1) - 1 = k /\ rp[k] = rq[k]
      BY <1>1, <1>5, <2>1 DEF N
    <2>3. (k + 1 \in p <=> k + 1 \in q) /\ share(p, k + 1) = share(q, k + 1)
      BY <1>3, <2>2
    <2>. QED
      BY <1>2, <2>2, <2>3
  <1>6. \A k \in Nat : k \in S
    <2>. HIDE DEF S
    <2>. QED
      BY <1>4, <1>5, Induct
  <1>7. n \in Nat
    BY <1>1 DEF N
  <1>. QED
    BY <1>6, <1>7 DEF rp, rq

\* What is left never grows on the way down.
LEMMA RemainingFalls ==
  ASSUME history \in Ladder, NEW p \in SUBSET DOMAIN history,
         NEW m \in 0..Len(history), NEW n \in 0..Len(history), m <= n
  PROVE  /\ remaining(p)[n] \in Nat /\ remaining(p)[m] \in Nat
         /\ remaining(p)[n] <= remaining(p)[m]
  <1>. DEFINE N == Len(history)
              r == remaining(p)
              S == {k \in Nat : m + k <= N => r[m + k] <= r[m]}
  <1>1. N \in Nat /\ DOMAIN history = 1..N
    BY LadderTypes
  <1>2. /\ r \in [0..N -> Nat]
        /\ \A i \in 1..N : r[i] = IF i \in p THEN Less(r[i - 1], share(p, i)) ELSE r[i - 1]
    BY <1>1, RemainingFacts
  <1>3. \A i \in 1..N : share(p, i) \in Nat
    BY <1>1, ShareIsShare
  <1>. HIDE DEF r
  <1>4. m \in Nat /\ n \in Nat /\ n - m \in Nat /\ r[m] \in Nat /\ r[n] \in Nat
    BY <1>1, <1>2
  <1>. HIDE DEF N
  <1>5. 0 \in S
    BY <1>4
  <1>6. ASSUME NEW k \in Nat, k \in S
        PROVE  k + 1 \in S
    <2>1. SUFFICES ASSUME m + (k + 1) <= N PROVE r[m + (k + 1)] <= r[m]
      BY <1>4
    <2>. DEFINE i == m + (k + 1)
    <2>2. i \in 1..N /\ i - 1 = m + k /\ m + k \in 0..N /\ r[m + k] <= r[m]
      BY <1>1, <1>4, <1>6, <2>1
    <2>3. r[i - 1] \in Nat /\ share(p, i) \in Nat /\ r[i - 1] <= r[m]
      BY <1>2, <1>3, <2>2
    <2>4. r[i] = IF i \in p THEN Less(r[i - 1], share(p, i)) ELSE r[i - 1]
      BY <1>2, <2>2
    <2>. HIDE DEF i
    <2>5. r[i] <= r[m]
      BY <1>4, <2>3, <2>4 DEF Less
    <2>. QED
      BY <2>5 DEF i
  <1>7. \A k \in Nat : k \in S
    <2>. HIDE DEF S
    <2>. QED
      BY <1>5, <1>6, Induct
  <1>8. m + (n - m) = n /\ n <= N
    BY <1>1, <1>4 DEF N
  <1>9. r[n] <= r[m]
    BY <1>4, <1>7, <1>8
  <1>. QED
    BY <1>4, <1>9 DEF r

-----------------------------------------------------------------------------
(* The payment.                                                            *)

\* What a payee gets: its share of what is left above it, part of the pot.
LEMMA PaidFacts ==
  ASSUME history \in Ladder, NEW p \in SUBSET DOMAIN history, NEW i \in p
  PROVE  /\ allocate_pot(p)[i] = Smaller(share(p, i), remaining(p)[i - 1])
         /\ allocate_pot(p)[i] \in 0..Unit
         /\ remaining(p)[i - 1] \in Nat /\ remaining(p)[i] \in Nat
         /\ remaining(p)[i] = remaining(p)[i - 1] - allocate_pot(p)[i]
         /\ remaining(p)[i] > 0 => allocate_pot(p)[i] = share(p, i)
  <1>. DEFINE N == Len(history)
              r == remaining(p)
  <1>1. N \in Nat /\ i \in 1..N /\ i \in DOMAIN history
    BY LadderTypes
  <1>2. share(p, i) \in Nat
    BY <1>1, ShareIsShare
  <1>3. r[0] = Unit /\ r[i] = Less(r[i - 1], share(p, i))
    BY <1>1, RemainingFacts
  <1>4. r[i - 1] \in Nat /\ r[i - 1] <= r[0]
    <2>1. 0 \in 0..Len(history) /\ i - 1 \in 0..Len(history) /\ 0 <= i - 1
      BY <1>1
    <2>. QED
      BY <2>1, RemainingFalls
  <1>5. allocate_pot(p)[i] = Smaller(share(p, i), r[i - 1])
    BY DEF allocate_pot
  <1>. DEFINE a == allocate_pot(p)[i]
              sh == share(p, i)
              b == r[i - 1]
              c == r[i]
  <1>6. a = Smaller(sh, b) /\ c = Less(b, sh) /\ sh \in Nat /\ b \in Nat /\ b <= Unit
    BY <1>2, <1>3, <1>4, <1>5
  <1>. HIDE DEF a, sh, b, c
  <1>7. a \in 0..Unit /\ c \in Nat /\ c = b - a /\ (c > 0 => a = sh)
    BY <1>6, PayoutAssumption DEF Smaller, Less
  <1>. QED
    BY <1>6, <1>7 DEF a, sh, b, c

LEMMA PayeesAreRungs ==
  /\ select_payees \in SUBSET DOMAIN history
  /\ \A i \in select_payees : history[i].hotkey # Burn
  BY DEF select_payees, Payable

\* What compute_weights pays.
LEMMA ComputedFacts ==
  ASSUME TypeOK, NEW burn \in BOOLEAN
  PROVE  /\ compute_weights(burn) \in [Hotkey -> 0..Unit]
         /\ burn \/ select_payees = {} =>
               \A h \in Hotkey : compute_weights(burn)[h] = IF h = Burn THEN Unit ELSE 0
         /\ ~burn /\ select_payees # {} =>
               /\ \A i \in select_payees :
                     compute_weights(burn)[history[i].hotkey] = allocate_pot(select_payees)[i]
               /\ \A h \in Hotkey : (\A i \in select_payees : history[i].hotkey # h) =>
                     compute_weights(burn)[h] = 0
  <1>. DEFINE P == select_payees
              w == compute_weights(burn)
  <1>1. history \in Ladder
    BY DEF TypeOK
  <1>2. P \in SUBSET DOMAIN history
    BY PayeesAreRungs
  <1>3. Unit \in Nat
    BY PayoutAssumption
  <1>4. CASE burn \/ P = {}
    <2>1. w = [h \in Hotkey |-> IF h = Burn THEN Unit ELSE 0]
      BY <1>4, Zenon DEF compute_weights
    <2>. HIDE DEF w
    <2>2. w \in [Hotkey -> 0..Unit] /\ \A h \in Hotkey : w[h] = IF h = Burn THEN Unit ELSE 0
      BY <1>3, <2>1
    <2>. QED
      BY <1>4, <2>2 DEF w
  <1>5. CASE ~(burn \/ P = {})
    <2>. DEFINE a == allocate_pot(P)
    <2>1. w = [h \in Hotkey |->
                IF \E i \in P : history[i].hotkey = h
                THEN a[CHOOSE i \in P : history[i].hotkey = h] ELSE 0]
      BY <1>5, Zenon DEF compute_weights
    <2>2. \A i \in P : a[i] \in 0..Unit
      BY <1>1, <1>2, PaidFacts
    <2>. HIDE DEF w, a, P
    <2>3. ASSUME NEW i \in P
          PROVE  history[i].hotkey \in Hotkey /\ w[history[i].hotkey] = a[i]
      <3>. DEFINE h == history[i].hotkey
      <3>1. h \in Hotkey
        BY <1>1, <1>2, LadderTypes
      <3>2. (CHOOSE k \in P : history[k].hotkey = h) = i
        <4>1. \A k \in P : history[k].hotkey = h => k = i
          BY <1>1, <1>2, LadderTypes
        <4>. QED
          BY <4>1
      <3>. QED
        BY <2>1, <3>1, <3>2
    <2>4. \A h \in Hotkey : (\A i \in P : history[i].hotkey # h) => w[h] = 0
      BY <2>1
    <2>5. w \in [Hotkey -> 0..Unit]
      <3>1. \A h \in Hotkey : w[h] \in 0..Unit
        <4>1. 0 \in 0..Unit
          BY <1>3
        <4>2. ASSUME NEW h \in Hotkey
              PROVE  w[h] \in 0..Unit
          <5>1. CASE \A i \in P : history[i].hotkey # h
            BY <2>4, <4>1, <5>1
          <5>2. CASE \E i \in P : history[i].hotkey = h
            <6>1. PICK i \in P : history[i].hotkey = h
              BY <5>2
            <6>2. w[h] = a[i] /\ a[i] \in 0..Unit
              BY <2>2, <2>3, <6>1
            <6>. QED
              BY <6>2
          <5>. QED
            BY <5>1, <5>2
        <4>. QED
          BY <4>2
      <3>. QED
        BY <2>1, <3>1
    <2>. QED
      BY <1>5, <2>3, <2>4, <2>5 DEF w, a, P
  <1>. QED
    BY <1>4, <1>5

\* Once the report has stopped, who is paid was found compliant.
LEMMA PaidAreCompliant ==
  ASSUME TypeOK, Walked, Decided
  PROVE  PaidWereChecked
  <1>. DEFINE P == select_payees
              r == remaining(P)
              rc == remaining(Compliant)
  <1>1. SUFFICES ASSUME phase = "set", NEW h \in Hotkey \ {Burn}, weights[h] > 0
                 PROVE  report[h] = "compliant"
    BY DEF PaidWereChecked
  <1>2. /\ history \in Ladder /\ burned \in BOOLEAN /\ at \in 1..(Len(history) + 1)
        /\ weights = compute_weights(burned) /\ Len(history) \in Nat
        /\ DOMAIN history = 1..Len(history)
    BY <1>1, LadderTypes DEF TypeOK, Decided
  <1>3. ~burned /\ P # {} /\ ~(\A i \in P : history[i].hotkey # h)
    BY <1>1, <1>2, ComputedFacts
  <1>4. PICK i \in P : history[i].hotkey = h
    BY <1>3
  <1>5. weights[h] = allocate_pot(P)[i]
    BY <1>2, <1>3, <1>4, ComputedFacts
  <1>6. P \in SUBSET DOMAIN history /\ Compliant \in SUBSET DOMAIN history
    BY PayeesAreRungs DEF Compliant
  <1>7. i \in 1..Len(history) /\ Payable(h) /\ report[h] # "gated"
    BY <1>2, <1>4, <1>6, LadderTypes DEF select_payees, gated_hotkeys
  <1>8. CASE i < at
    BY <1>1, <1>2, <1>4, <1>7, <1>8 DEF Walked
  <1>9. CASE i >= at
    <2>1. at <= Len(history)
      BY <1>2, <1>7, <1>9
    <2>2. pot_left = 0
      BY <1>1, <1>2, <2>1 DEF Decided
    <2>3. \A k \in 1..(at - 1) : k \in P <=> k \in Compliant
      <3>1. SUFFICES ASSUME NEW k \in 1..(at - 1) PROVE k \in P <=> k \in Compliant
        OBVIOUS
      <3>2. k \in DOMAIN history /\ k < at
        BY <1>2, <3>1
      <3>3. history[k].hotkey \in Hotkey
        BY <1>2, <3>2, LadderTypes
      <3>4. /\ ~Payable(history[k].hotkey) => report[history[k].hotkey] = "absent"
            /\ Payable(history[k].hotkey) =>
                  report[history[k].hotkey] \in {"compliant", "gated"}
        BY <1>1, <3>2 DEF Walked
      <3>. QED
        BY <3>2, <3>3, <3>4 DEF Compliant, select_payees, gated_hotkeys
    <2>4. at - 1 \in 0..Len(history) /\ i - 1 \in 0..Len(history) /\ at - 1 <= i - 1
      BY <1>2, <1>7, <1>9
    <2>5. rc[at - 1] = 0
      BY <1>1, <2>2 DEF Walked
    <2>6. r[at - 1] = rc[at - 1]
      BY <1>2, <1>6, <2>3, <2>4, RemainingAgrees
    <2>7. r[i - 1] \in Nat /\ r[i - 1] <= r[at - 1]
      BY <1>2, <1>6, <2>4, RemainingFalls
    <2>8. share(P, i) \in Nat /\ allocate_pot(P)[i] = Smaller(share(P, i), r[i - 1])
      BY <1>2, <1>4, <1>6, <1>7, PaidFacts, ShareIsShare
    <2>. HIDE DEF r, rc
    <2>9. r[i - 1] = 0
      BY <2>5, <2>6, <2>7
    <2>10. weights[h] = 0
      BY <1>5, <2>8, <2>9 DEF Smaller
    <2>. QED
      BY <1>1, <2>10
  <1>. QED
    BY <1>2, <1>7, <1>8, <1>9

\* Whoever burns outside a burn tempo found no payee, who would be at a rung that is payable
\* and not gated.
LEMMA BurnsForNobody ==
  ASSUME TypeOK, Walked, Decided
  PROVE  BurnsOnlyIfNoneQualifies
  <1>1. SUFFICES ASSUME phase = "set", ~burned, weights[Burn] > 0, NEW i \in DOMAIN history,
                        Payable(history[i].hotkey)
                 PROVE  report[history[i].hotkey] = "gated"
    BY DEF BurnsOnlyIfNoneQualifies
  <1>2. weights = compute_weights(burned) /\ burned \in BOOLEAN /\ Burn \in Hotkey
    BY <1>1, PayoutAssumption DEF TypeOK, Decided
  <1>3. select_payees = {}
    BY <1>1, <1>2, PayeesAreRungs, ComputedFacts
  <1>4. history[i].hotkey \in Hotkey
    BY <1>1, LadderTypes DEF TypeOK
  <1>. QED
    BY <1>1, <1>3, <1>4 DEF select_payees, gated_hotkeys

\* The sum of what the ladder is paid.
LEMMA PaidDownFacts ==
  ASSUME TypeOK
  PROVE  /\ paid_down_to[0] = 0
         /\ \A i \in DOMAIN history :
               /\ paid_down_to[i - 1] \in Nat
               /\ paid_down_to[i] = paid_down_to[i - 1] + weights[history[i].hotkey]
  <1>. DEFINE N == Len(history)
              w(i) == weights[history[i].hotkey]
              g == [x \in (1..N) \X Nat |-> x[2] + w(x[1])]
              Rec(f) == f = [i \in 0..N |-> IF i = 0 THEN 0 ELSE f[i - 1] + w(i)]
  <1>1. history \in Ladder /\ N \in Nat /\ DOMAIN history = 1..N
    BY LadderTypes DEF TypeOK
  <1>2. \A i \in 1..N : w(i) \in Nat
    <2>1. \A h \in Hotkey : weights[h] \in Nat
      BY PayoutAssumption DEF TypeOK
    <2>. QED
      BY <1>1, <2>1, LadderTypes
  <1>3. g \in [(1..N) \X Nat -> Nat]
    BY <1>2
  <1>4. PICK f \in [0..N -> Nat] : f[0] = 0 /\ \A i \in 1..N : f[i] = g[<<i, f[i - 1]>>]
    <2>. DEFINE zero == 0
    <2>1. zero \in Nat
      OBVIOUS
    <2>. HIDE DEF g, N, zero
    <2>2. \E f \in [0..N -> Nat] : f[0] = zero /\ \A i \in 1..N : f[i] = g[<<i, f[i - 1]>>]
      BY <1>1, <1>3, <2>1, WalkExists
    <2>. QED
      BY <2>2 DEF zero
  <1>5. ASSUME NEW i \in 1..N
        PROVE  f[i] = f[i - 1] + w(i)
    <2>1. <<i, f[i - 1]>> \in (1..N) \X Nat
      BY <1>1
    <2>. QED
      BY <1>4, <2>1
  <1>6. Rec(f)
    <2>1. f = [i \in 0..N |-> f[i]]
      BY <1>4
    <2>2. \A i \in 0..N : f[i] = IF i = 0 THEN 0 ELSE f[i - 1] + w(i)
      BY <1>1, <1>4, <1>5
    <2>. QED
      BY <2>1, <2>2
  <1>7. paid_down_to = CHOOSE r : Rec(r)
    BY DEF paid_down_to
  <1>8. Rec(paid_down_to)
    <2>. HIDE DEF Rec
    <2>. QED
      BY <1>6, <1>7, Zenon
  <1>. DEFINE r == paid_down_to
  <1>9. /\ r[0] = 0
        /\ \A i \in 1..N : r[i] = r[i - 1] + w(i)
    <2>. HIDE DEF r
    <2>1. r = [i \in 0..N |-> IF i = 0 THEN 0 ELSE r[i - 1] + w(i)]
      BY <1>8 DEF r
    <2>. HIDE DEF N, w
    <2>. QED
      BY <1>1, <2>1
  <1>10. \A i \in 0..N : r[i] \in Nat
    <2>. DEFINE S == {n \in Nat : n <= N => r[n] \in Nat}
    <2>. HIDE DEF r, N, w
    <2>1. 0 \in S
      BY <1>9
    <2>2. ASSUME NEW n \in Nat, n \in S
          PROVE  n + 1 \in S
      <3>1. SUFFICES ASSUME n + 1 <= N PROVE r[n + 1] \in Nat
        OBVIOUS
      <3>2. n + 1 \in 1..N /\ (n + 1) - 1 = n /\ r[n] \in Nat
        BY <1>1, <2>2, <3>1
      <3>. QED
        BY <1>2, <1>9, <3>2
    <2>3. \A n \in Nat : n \in S
      <3>. HIDE DEF S
      <3>. QED
        BY <2>1, <2>2, Induct
    <2>. QED
      BY <1>1, <2>3
  <1>11. \A i \in 1..N : i - 1 \in 0..N
    BY <1>1
  <1>. HIDE DEF r
  <1>. QED
    BY <1>1, <1>9, <1>10, <1>11 DEF r

\* The pot is spent once, from the top.
LEMMA SpentFromTheTop ==
  ASSUME TypeOK, Walked, Decided
  PROVE  PaidFromTheTop
  <1>. DEFINE P == select_payees
              r == remaining(P)
              N == Len(history)
              d == paid_down_to
              w(i) == weights[history[i].hotkey]
  <1>1. SUFFICES ASSUME phase = "set", ~burned
                 PROVE  /\ d[N] <= Unit
                        /\ \A i, j \in DOMAIN history :
                              /\ i < j /\ w(j) > 0 /\ report[history[i].hotkey] = "compliant"
                              => w(i) >= winner_share(history[i], FALSE)
    BY DEF PaidFromTheTop
  <1>2. /\ history \in Ladder /\ N \in Nat /\ DOMAIN history = 1..N /\ Unit \in Nat
        /\ weights = compute_weights(FALSE) /\ P \in SUBSET DOMAIN history
    BY <1>1, LadderTypes, PayeesAreRungs, PayoutAssumption DEF TypeOK, Decided
  <1>3. \A i \in 1..N : w(i) \in Nat
    <2>1. \A h \in Hotkey : weights[h] \in Nat
      BY PayoutAssumption DEF TypeOK
    <2>. QED
      BY <1>2, <2>1, LadderTypes
  <1>4. /\ d[0] = 0
        /\ \A i \in 1..N : d[i - 1] \in Nat /\ d[i] = d[i - 1] + w(i)
    BY <1>2, PaidDownFacts
  <1>5. CASE P = {}
    <2>1. \A i \in 1..N : w(i) = IF history[i].hotkey = Burn THEN Unit ELSE 0
      BY <1>2, <1>5, LadderTypes, ComputedFacts
    <2>2. \A i, j \in 1..N : w(i) # 0 /\ w(j) # 0 => i = j
      <3>. HIDE DEF w
      <3>1. \A i \in 1..N : w(i) # 0 => history[i].hotkey = Burn
        BY <2>1
      <3>. QED
        BY <1>2, <3>1, LadderTypes
    <2>3. \A i \in 1..N : w(i) <= Unit
      <3>. HIDE DEF w
      <3>1. 0 <= Unit /\ Unit <= Unit
        BY <1>2
      <3>2. \A i \in 1..N : w(i) = 0 \/ w(i) = Unit
        BY <2>1
      <3>. QED
        BY <3>1, <3>2
    <2>. DEFINE S == {n \in Nat : n <= N => /\ d[n] \in 0..Unit
                                            /\ d[n] > 0 => \E k \in 1..n : w(k) # 0}
    <2>. HIDE DEF d, w, N
    <2>4. 0 \in S
      BY <1>2, <1>4
    <2>5. ASSUME NEW n \in Nat, n \in S
          PROVE  n + 1 \in S
      <3>1. SUFFICES ASSUME n + 1 <= N
                     PROVE  d[n + 1] \in 0..Unit /\ (d[n + 1] > 0 => \E k \in 1..(n + 1) : w(k) # 0)
        OBVIOUS
      <3>2. n + 1 \in 1..N /\ (n + 1) - 1 = n /\ n + 1 \in 1..(n + 1)
        BY <1>2, <3>1
      <3>3. d[n] \in 0..Unit /\ (d[n] > 0 => \E k \in 1..n : w(k) # 0)
        BY <1>2, <2>5, <3>1
      <3>4. d[n + 1] = d[n] + w(n + 1) /\ w(n + 1) \in Nat /\ w(n + 1) <= Unit
        BY <1>3, <1>4, <2>3, <3>2
      <3>5. CASE w(n + 1) = 0
        <4>1. d[n + 1] = d[n]
          BY <1>2, <3>3, <3>4, <3>5
        <4>2. \A k \in 1..n : k \in 1..(n + 1)
          OBVIOUS
        <4>. QED
          BY <3>3, <4>1, <4>2
      <3>6. CASE w(n + 1) # 0
        <4>1. ~(\E k \in 1..n : w(k) # 0)
          <5>1. \A k \in 1..n : k \in 1..N /\ k # n + 1
            BY <1>2, <3>1
          <5>. QED
            BY <2>2, <3>2, <3>6, <5>1
        <4>2. d[n] = 0
          BY <1>2, <3>3, <4>1
        <4>3. d[n + 1] \in 0..Unit
          BY <1>2, <3>4, <4>2
        <4>. QED
          BY <3>2, <3>6, <4>3
      <3>. QED
        BY <3>5, <3>6
    <2>6. \A n \in Nat : n \in S
      <3>. HIDE DEF S
      <3>. QED
        BY <2>4, <2>5, Induct
    <2>7. d[N] <= Unit
      BY <1>2, <2>6
    <2>8. ASSUME NEW i \in 1..N, report[history[i].hotkey] = "compliant"
          PROVE  FALSE
      <3>1. history[i].hotkey \in Hotkey /\ i \in DOMAIN history
        BY <1>2, LadderTypes DEF N
      <3>2. Payable(history[i].hotkey)
        BY <1>1, <2>8, <3>1 DEF Walked, TypeOK
      <3>. QED
        BY <1>5, <2>8, <3>1, <3>2 DEF select_payees, gated_hotkeys
    <2>. QED
      BY <1>2, <2>7, <2>8
  <1>6. CASE P # {}
    <2>1. \A i \in P : w(i) = allocate_pot(P)[i]
      BY <1>2, <1>6, ComputedFacts
    <2>2. \A i \in 1..N : i \notin P => w(i) = 0
      <3>1. ASSUME NEW i \in 1..N, i \notin P
            PROVE  w(i) = 0
        <4>1. history[i].hotkey \in Hotkey /\ \A k \in P : history[k].hotkey # history[i].hotkey
          BY <1>2, <3>1, LadderTypes
        <4>. QED
          BY <1>2, <1>6, <4>1, ComputedFacts
      <3>. QED
        BY <3>1
    <2>3. /\ r \in [0..N -> Nat] /\ r[0] = Unit
          /\ \A i \in 1..N : i \notin P => r[i] = r[i - 1]
      BY <1>2, RemainingFacts
    <2>4. \A i \in P : r[i] = r[i - 1] - w(i) /\ (r[i] > 0 => w(i) = share(P, i))
      BY <1>2, <2>1, PaidFacts
    <2>. DEFINE S == {n \in Nat : n <= N => d[n] = Unit - r[n]}
    <2>5. \A i \in 1..N : i - 1 \in 0..N /\ r[i - 1] \in Nat /\ r[i] \in Nat
      BY <1>2, <2>3
    <2>6. \A i, j \in 1..N : i < j => r[j - 1] <= r[i]
      <3>1. \A i, j \in 1..N : i < j => i \in 0..N /\ j - 1 \in 0..N /\ i <= j - 1
        BY <1>2
      <3>. QED
        BY <1>2, <3>1, RemainingFalls
    <2>7. \A i \in 1..N : share(P, i) >= winner_share(history[i], FALSE)
      BY <1>2, ShareIsShare
    <2>8. \A j \in P : w(j) > 0 => r[j - 1] > 0
      <3>1. \A j \in P : /\ w(j) = Smaller(share(P, j), r[j - 1]) /\ r[j - 1] \in Nat
                         /\ share(P, j) \in Nat
        BY <1>2, <2>1, PaidFacts, ShareIsShare
      <3>. HIDE DEF w, r
      <3>. QED
        BY <3>1 DEF Smaller
    <2>9. ASSUME NEW i \in 1..N, report[history[i].hotkey] = "compliant"
          PROVE  i \in P
      <3>1. history[i].hotkey \in Hotkey /\ i \in DOMAIN history
        BY <1>2, LadderTypes
      <3>2. Payable(history[i].hotkey)
        BY <1>1, <2>9, <3>1 DEF Walked, TypeOK
      <3>. QED
        BY <2>9, <3>1, <3>2 DEF select_payees, gated_hotkeys
    <2>. HIDE DEF d, w, N, r, P
    <2>10. 0 \in S
      BY <1>2, <1>4, <2>3
    <2>11. ASSUME NEW n \in Nat, n \in S
           PROVE  n + 1 \in S
      <3>1. SUFFICES ASSUME n + 1 <= N PROVE d[n + 1] = Unit - r[n + 1]
        OBVIOUS
      <3>2. n + 1 \in 1..N /\ (n + 1) - 1 = n /\ n <= N
        BY <1>2, <3>1
      <3>3. d[n] = Unit - r[n] /\ d[n + 1] = d[n] + w(n + 1) /\ w(n + 1) \in Nat
        BY <1>3, <1>4, <2>11, <3>2
      <3>4. r[n] \in Nat /\ r[n + 1] \in Nat
        BY <2>5, <3>2
      <3>5. r[n + 1] = r[n] - w(n + 1)
        <4>1. CASE n + 1 \in P
          BY <2>4, <3>2, <4>1
        <4>2. CASE n + 1 \notin P
          <5>1. w(n + 1) = 0 /\ r[n + 1] = r[n]
            BY <2>2, <2>3, <3>2, <4>2
          <5>. QED
            BY <3>4, <5>1
        <4>. QED
          BY <4>1, <4>2
      <3>. QED
        BY <1>2, <3>3, <3>4, <3>5
    <2>12. \A n \in Nat : n \in S
      <3>. HIDE DEF S
      <3>. QED
        BY <2>10, <2>11, Induct
    <2>13. d[N] <= Unit
      <3>1. r[N] \in Nat
        BY <1>2, <2>3
      <3>2. d[N] = Unit - r[N]
        BY <1>2, <2>12
      <3>. QED
        BY <1>2, <3>1, <3>2
    <2>14. ASSUME NEW i \in 1..N, NEW j \in 1..N, i < j, w(j) > 0,
                  report[history[i].hotkey] = "compliant"
           PROVE  w(i) >= winner_share(history[i], FALSE)
      <3>1. i \in P
        BY <2>9, <2>14
      <3>2. j \in P
        <4>1. w(j) # 0
          BY <1>3, <2>14
        <4>. QED
          BY <2>2, <4>1
      <3>3. r[j - 1] > 0 /\ r[j - 1] <= r[i] /\ r[i] \in Nat /\ r[j - 1] \in Nat
        BY <2>5, <2>6, <2>8, <2>14, <3>2
      <3>4. r[i] > 0
        BY <3>3
      <3>5. w(i) = share(P, i)
        BY <2>4, <3>1, <3>4
      <3>. QED
        BY <2>7, <3>5
    <2>. QED
      BY <1>2, <2>13, <2>14
  <1>. QED
    BY <1>5, <1>6

-----------------------------------------------------------------------------
(* Steps.                                                                  *)

LEMMA PayoutInit == Init => IInv
  <1>. SUFFICES ASSUME Init PROVE IInv
    OBVIOUS
  <1>1. history \in Ladder /\ Len(history) \in Nat
    BY LadderTypes DEF Init
  <1>2. 0 \in Alpha /\ 0 \in 0..Unit /\ Unit \in 0..Unit /\ 1 \in 1..(Len(history) + 1)
    BY <1>1, PayoutAssumption
  <1>3. /\ stake \in [Hotkey -> Alpha] /\ locked \in [Hotkey -> Alpha]
        /\ metagraph \in [hotkeys : SUBSET Hotkey, staked : [Hotkey -> Alpha]]
    BY <1>2 DEF Init
  <1>4. TypeOK
    <2>1. /\ phase = "idle" /\ report = [h \in Hotkey |-> "absent"]
          /\ paid_any = FALSE /\ burned = FALSE /\ covered \in SUBSET Hotkey
          /\ at = 1 /\ pot_left = Unit /\ weights = [h \in Hotkey |-> 0]
      BY DEF Init, Covered
    <2>2. weights \in [Hotkey -> 0..Unit]
      BY <1>2, <2>1
    <2>3. report \in [Hotkey -> {"absent", "compliant", "gated"}]
      BY <2>1
    <2>. QED
      BY <1>1, <1>2, <1>3, <2>1, <2>2, <2>3 DEF TypeOK
  <1>5. CoversAll /\ CoveredIsNeverGated
    BY <1>2 DEF Init, Covered, CoversAll, CoveredIsNeverGated
  <1>. QED
    BY <1>4, <1>5 DEF Init, IInv, Walked, Decided

\* The walks read the ladder only.
LEMMA RemainingSame ==
  ASSUME UNCHANGED history, NEW p
  PROVE  remaining(p)' = remaining(p)
  BY DEF remaining, share, winner_share

LEMMA FetchKeeps ==
  ASSUME IInv, Fetch
  PROVE  IInv'
  <1>1. PICK hotkeys \in SUBSET Hotkey : metagraph' = [hotkeys |-> hotkeys, staked |-> stake]
    BY DEF Fetch
  <1>2. /\ covered' = Covered /\ phase' = "reporting" /\ at' = 1
        /\ report' = [h \in Hotkey |-> "absent"] /\ pot_left' = Unit /\ paid_any' = FALSE
        /\ weights' = [h \in Hotkey |-> 0] /\ burned' = FALSE
        /\ UNCHANGED <<history, stake, locked>>
    BY DEF Fetch, onchain
  <1>3. history \in Ladder /\ Len(history) \in Nat /\ DOMAIN history = 1..Len(history)
    BY LadderTypes DEF IInv, TypeOK
  <1>4. 0 \in 0..Unit /\ Unit \in 0..Unit /\ 1 \in 1..(Len(history) + 1)
    BY <1>3, PayoutAssumption
  <1>5. TypeOK'
    <2>1. weights' \in [Hotkey -> 0..Unit] /\ report' \in [Hotkey -> {"absent", "compliant", "gated"}]
      BY <1>2, <1>4
    <2>2. metagraph' \in [hotkeys : SUBSET Hotkey, staked : [Hotkey -> Alpha]]
      BY <1>1 DEF IInv, TypeOK
    <2>3. covered' \in SUBSET Hotkey
      BY <1>2 DEF Covered
    <2>. QED
      BY <1>2, <1>4, <2>1, <2>2, <2>3 DEF IInv, TypeOK
  <1>6. CoversAll' /\ CoveredIsNeverGated'
    <2>1. \A h \in covered' : h \in Hotkey /\ locked[h] >= Required[h]
      BY <1>2 DEF Covered
    <2>2. \A h \in Hotkey : /\ locked[h] <= stake[h] /\ locked[h] \in Nat /\ stake[h] \in Nat
                            /\ Required[h] \in Nat
      BY PayoutAssumption DEF IInv, CoversAll, TypeOK
    <2>3. metagraph'.staked = stake
      BY <1>1
    <2>. QED
      BY <1>2, <2>1, <2>2, <2>3 DEF CoversAll, CoveredIsNeverGated
  <1>7. Walked'
    <2>1. \A i \in DOMAIN history : history[i].hotkey \in Hotkey
      BY <1>3, LadderTypes
    <2>2. \A i \in DOMAIN history : report'[history[i].hotkey] = "absent" /\ ~(i < 1)
      BY <1>2, <1>3, <2>1
    <2>3. Compliant' = {}
      BY <1>2, <2>2 DEF Compliant
    <2>4. remaining({})[0] = Unit
      BY <1>3, RemainingFacts
    <2>5. remaining(Compliant)' = remaining({})
      BY <1>2, <2>3, RemainingSame
    <2>6. at' - 1 = 0
      BY <1>2
    <2>. QED
      BY <1>2, <2>2, <2>3, <2>4, <2>5, <2>6 DEF Walked
  <1>. QED
    BY <1>2, <1>5, <1>6, <1>7 DEF IInv, Decided

\* What holds of the rung the report is at.
LEMMA AtFacts ==
  ASSUME IInv, Reporting
  PROVE  /\ phase = "reporting" /\ history \in Ladder /\ Len(history) \in Nat
         /\ DOMAIN history = 1..Len(history) /\ at \in DOMAIN history /\ at \in Nat
         /\ \A i \in DOMAIN history : history[i].hotkey \in Hotkey
         /\ history[at].hotkey \in Hotkey /\ at + 1 \in 1..(Len(history) + 1)
         /\ report[history[at].hotkey] = "absent"
         /\ Reportable(history[at].hotkey) <=> Payable(history[at].hotkey)
         /\ Compliant \in SUBSET DOMAIN history /\ \A i \in Compliant : i < at
         /\ pot_left = remaining(Compliant)[at - 1] /\ pot_left \in Nat
         /\ paid_any <=> Compliant # {}
  <1>1. /\ phase = "reporting" /\ history \in Ladder /\ Len(history) \in Nat
        /\ DOMAIN history = 1..Len(history) /\ at \in 1..(Len(history) + 1) /\ at <= Len(history)
        /\ \A i \in DOMAIN history : history[i].hotkey \in Hotkey
    BY LadderTypes DEF IInv, TypeOK, Reporting
  <1>2. at \in DOMAIN history /\ at + 1 \in 1..(Len(history) + 1) /\ at \in Nat
    BY <1>1
  <1>3. report[history[at].hotkey] = "absent"
    BY <1>1, <1>2 DEF IInv, Walked
  <1>4. \A i \in Compliant : i < at
    <2>1. \A i \in DOMAIN history : i >= at \/ i < at
      BY <1>1
    <2>2. \A i \in DOMAIN history : i >= at => report[history[i].hotkey] # "compliant"
      BY <1>1 DEF IInv, Walked
    <2>. QED
      BY <2>1, <2>2 DEF Compliant
  <1>5. pot_left \in Nat
    BY PayoutAssumption DEF IInv, TypeOK
  <1>6. pot_left = remaining(Compliant)[at - 1] /\ (paid_any <=> Compliant # {})
    BY <1>1 DEF IInv, Walked
  <1>. QED
    BY <1>1, <1>2, <1>3, <1>4, <1>5, <1>6 DEF Reportable, Payable, Compliant

LEMMA SkipKeeps ==
  ASSUME IInv, Skip
  PROVE  IInv'
  <1>1. /\ Reporting /\ ~Reportable(history[at].hotkey) /\ at' = at + 1
        /\ UNCHANGED <<history, stake, locked, metagraph, phase, report, pot_left, paid_any,
                       weights, burned, covered>>
    BY DEF Skip, onchain
  <1>2. TypeOK' /\ CoversAll' /\ CoveredIsNeverGated' /\ Decided'
    BY <1>1, AtFacts DEF IInv, TypeOK, CoversAll, CoveredIsNeverGated, Decided
  <1>3. Walked'
    <2>1. Compliant' = Compliant
      BY <1>1 DEF Compliant
    <2>2. at \notin Compliant /\ at \in DOMAIN history /\ at \in Nat
      BY <1>1, AtFacts
    <2>3. remaining(Compliant)[at] = remaining(Compliant)[at - 1]
      BY <1>1, <2>2, AtFacts, RemainingFacts
    <2>4. remaining(Compliant)' = remaining(Compliant)
      BY <1>1, <2>1, RemainingSame
    <2>5. at' - 1 = at /\ pot_left' = remaining(Compliant)'[at' - 1]
      BY <1>1, <2>2, <2>3, <2>4, AtFacts
    <2>6. ASSUME NEW i \in DOMAIN history
          PROVE  /\ i >= at + 1 => report[history[i].hotkey] = "absent"
                 /\ i < at + 1 /\ ~Payable(history[i].hotkey) =>
                       report[history[i].hotkey] = "absent"
                 /\ i < at + 1 /\ Payable(history[i].hotkey) =>
                       report[history[i].hotkey] \in {"compliant", "gated"}
      <3>1. i \in Nat /\ (i >= at + 1 => i >= at) /\ (i < at + 1 => i < at \/ i = at)
        BY <1>1, <2>2, AtFacts
      <3>. QED
        BY <1>1, <3>1, AtFacts DEF IInv, Walked
    <2>7. \A i \in DOMAIN history : Payable(history[i].hotkey)' <=> Payable(history[i].hotkey)
      BY <1>1 DEF Payable
    <2>. QED
      BY <1>1, <2>1, <2>5, <2>6, <2>7, AtFacts DEF Walked
  <1>. QED
    BY <1>2, <1>3 DEF IInv

LEMMA AssessKeeps ==
  ASSUME IInv, Assess
  PROVE  IInv'
  <1>. DEFINE h == history[at].hotkey
  <1>1. PICK read \in BOOLEAN :
          LET compliant == Measured(h, read) >= Required[h]
          IN  /\ report' = [report EXCEPT ![h] = IF compliant THEN "compliant" ELSE "gated"]
              /\ pot_left' = IF compliant THEN pot_left - Spent(history[at]) ELSE pot_left
              /\ paid_any' = (paid_any \/ compliant)
    BY DEF Assess
  <1>2. /\ Reporting /\ Reportable(h) /\ at' = at + 1
        /\ UNCHANGED <<history, stake, locked, metagraph, phase, weights, burned, covered>>
    BY DEF Assess, onchain
  <1>. DEFINE compliant == Measured(h, read) >= Required[h]
              C == IF compliant THEN Compliant \cup {at} ELSE Compliant
              rc == remaining(C)
              pay == share(C, at)
  <1>3. /\ report' = [report EXCEPT ![h] = IF compliant THEN "compliant" ELSE "gated"]
        /\ paid_any' = (paid_any \/ compliant)
        /\ pot_left' = IF compliant THEN pot_left - Spent(history[at]) ELSE pot_left
    BY <1>1
  <1>4. /\ history \in Ladder /\ Len(history) \in Nat /\ DOMAIN history = 1..Len(history)
        /\ at \in DOMAIN history /\ at \in Nat /\ h \in Hotkey /\ Payable(h)
        /\ report \in [Hotkey -> {"absent", "compliant", "gated"}]
        /\ pot_left \in Nat /\ pot_left <= Unit /\ Unit \in Nat
    BY <1>2, AtFacts, PayoutAssumption DEF IInv, TypeOK
  <1>5. CoversAll' /\ CoveredIsNeverGated'
    <2>1. ASSUME h \in covered
          PROVE  compliant
      BY <1>4, <2>1 DEF IInv, CoversAll, Measured
    <2>. HIDE DEF compliant, h
    <2>2. \A g \in covered : report'[g] # "gated"
      <3>1. covered \in SUBSET Hotkey
        BY DEF IInv, TypeOK
      <3>. QED
        BY <1>3, <1>4, <2>1, <3>1 DEF IInv, CoveredIsNeverGated
    <2>. QED
      BY <1>2, <2>2 DEF IInv, CoversAll, CoveredIsNeverGated
  <1>6. /\ report'[h] = IF compliant THEN "compliant" ELSE "gated"
        /\ \A i \in DOMAIN history : i # at => report'[history[i].hotkey] = report[history[i].hotkey]
    <2>1. \A i \in DOMAIN history : i # at => history[i].hotkey # h /\ history[i].hotkey \in Hotkey
      BY <1>4, LadderTypes
    <2>. HIDE DEF h, compliant
    <2>. QED
      BY <1>3, <1>4, <2>1
  <1>7. Compliant' = C
    <2>1. \A i \in DOMAIN history : report'[history[i].hotkey] = "compliant" <=> i \in C
      <3>1. \A i \in DOMAIN history : i \in Compliant <=> report[history[i].hotkey] = "compliant"
        BY DEF Compliant
      <3>2. at \notin Compliant
        BY <1>2, <1>4, AtFacts
      <3>3. report'[history[at].hotkey] = IF compliant THEN "compliant" ELSE "gated"
        BY <1>6
      <3>. HIDE DEF compliant, h
      <3>. QED
        BY <1>6, <3>1, <3>2, <3>3
    <2>2. C \in SUBSET DOMAIN history
      BY <1>4 DEF Compliant
    <2>. HIDE DEF C
    <2>. QED
      BY <1>2, <2>1, <2>2 DEF Compliant
  <1>8. C \in SUBSET DOMAIN history /\ Compliant \in SUBSET DOMAIN history
    BY <1>4 DEF Compliant
  <1>9. rc[at - 1] = pot_left
    <2>1. \A i \in 1..(at - 1) : i \in C <=> i \in Compliant
      BY <1>4
    <2>2. at - 1 \in 0..Len(history)
      BY <1>4
    <2>3. remaining(C)[at - 1] = remaining(Compliant)[at - 1]
      <3>. HIDE DEF C
      <3>. QED
        BY <1>4, <1>8, <2>1, <2>2, RemainingAgrees
    <2>. QED
      BY <1>2, <2>3, AtFacts
  <1>10. rc[at] = IF compliant THEN Less(pot_left, pay) ELSE pot_left
    <2>1. at \in C <=> compliant
      <3>1. at \notin Compliant
        BY <1>2, <1>4, AtFacts
      <3>. QED
        BY <3>1
    <2>. HIDE DEF C, compliant
    <2>2. rc[at] = IF at \in C THEN Less(rc[at - 1], pay) ELSE rc[at - 1]
      BY <1>4, <1>8, RemainingFacts
    <2>. QED
      BY <1>9, <2>1, <2>2
  <1>11. compliant => Spent(history[at]) = Smaller(pay, pot_left) /\ pay \in Nat
    <2>1. SUFFICES ASSUME compliant
                   PROVE  Spent(history[at]) = Smaller(pay, pot_left) /\ pay \in Nat
      OBVIOUS
    <2>2. (\A j \in C : at <= j) <=> Compliant = {}
      <3>1. \A j \in Compliant : j < at /\ j \in Nat
        BY <1>2, <1>4, AtFacts DEF Compliant
      <3>. QED
        BY <1>4, <2>1, <3>1
    <2>3. paid_any \in BOOLEAN /\ (paid_any <=> Compliant # {})
      BY <1>2, AtFacts DEF IInv, TypeOK
    <2>. HIDE DEF C, compliant
    <2>4. pay = winner_share(history[at], ~paid_any)
      <3>1. CASE paid_any
        <4>1. pay = winner_share(history[at], FALSE)
          BY <1>4, <2>2, <2>3, <3>1, ShareIsShare
        <4>2. (~paid_any) = FALSE
          BY <3>1, Zenon
        <4>. QED
          BY <4>1, <4>2, Zenon
      <3>2. CASE ~paid_any
        <4>1. pay = winner_share(history[at], TRUE)
          BY <1>4, <2>2, <2>3, <3>2, ShareIsShare
        <4>2. (~paid_any) = TRUE
          BY <3>2, Zenon
        <4>. QED
          BY <4>1, <4>2, Zenon
      <3>. QED
        BY <2>3, <3>1, <3>2
    <2>5. pay \in Nat
      BY <1>4, ShareIsShare
    <2>. HIDE DEF pay
    <2>. QED
      BY <2>4, <2>5, Zenon DEF Spent
  <1>12. pot_left' = rc[at] /\ pot_left' \in 0..Unit
    <2>. DEFINE sp == Spent(history[at])
                left == rc[at]
    <2>1. compliant => sp = Smaller(pay, pot_left) /\ pay \in Nat
      BY <1>11
    <2>2. left = IF compliant THEN Less(pot_left, pay) ELSE pot_left
      BY <1>10
    <2>3. pot_left' = IF compliant THEN pot_left - sp ELSE pot_left
      BY <1>3
    <2>. HIDE DEF compliant, rc, sp, pay, left, C
    <2>4. pot_left' = left /\ pot_left' \in 0..Unit
      BY <1>4, <2>1, <2>2, <2>3 DEF Smaller, Less
    <2>. QED
      BY <2>4 DEF left
  <1>13. paid_any' \in BOOLEAN /\ (paid_any' <=> C # {})
    <2>1. paid_any \in BOOLEAN /\ (paid_any <=> Compliant # {})
      BY <1>2, AtFacts DEF IInv, TypeOK
    <2>2. C # {} <=> (Compliant # {} \/ compliant)
      OBVIOUS
    <2>. HIDE DEF C, compliant
    <2>3. paid_any' \in BOOLEAN
      BY <1>3, Zenon
    <2>4. paid_any' <=> (paid_any \/ compliant)
      BY <1>3, Zenon
    <2>. QED
      BY <2>1, <2>2, <2>3, <2>4, Zenon
  <1>14. Walked'
    <2>1. at' - 1 = at
      BY <1>2, <1>4
    <2>2. remaining(Compliant)' = rc
      <3>. HIDE DEF C
      <3>. QED
        BY <1>2, <1>7, RemainingSame
    <2>3. ASSUME NEW i \in DOMAIN history
          PROVE  /\ i >= at + 1 => report'[history[i].hotkey] = "absent"
                 /\ i < at + 1 /\ ~Payable(history[i].hotkey) =>
                       report'[history[i].hotkey] = "absent"
                 /\ i < at + 1 /\ Payable(history[i].hotkey) =>
                       report'[history[i].hotkey] \in {"compliant", "gated"}
      <3>1. i = at \/ (i # at /\ (i >= at + 1 => i >= at) /\ (i < at + 1 => i < at))
        BY <1>4
      <3>2. CASE i = at
        BY <1>4, <1>6, <3>2
      <3>3. CASE i # at
        <4>1. report'[history[i].hotkey] = report[history[i].hotkey]
          BY <1>6, <3>3
        <4>2. phase # "idle"
          BY <1>2, AtFacts
        <4>. QED
          BY <3>1, <3>3, <4>1, <4>2 DEF IInv, Walked
      <3>. QED
        BY <3>2, <3>3
    <2>4. \A i \in DOMAIN history : Payable(history[i].hotkey)' <=> Payable(history[i].hotkey)
      BY <1>2 DEF Payable
    <2>. HIDE DEF rc, C
    <2>5. pot_left' = remaining(Compliant)'[at' - 1]
      BY <1>12, <2>1, <2>2
    <2>. QED
      BY <1>2, <1>7, <1>13, <2>3, <2>4, <2>5 DEF Walked
  <1>15. TypeOK'
    <2>1. at' \in 1..(Len(history) + 1)
      BY <1>2, <1>4
    <2>2. report' \in [Hotkey -> {"absent", "compliant", "gated"}]
      BY <1>3, <1>4
    <2>. QED
      BY <1>2, <1>12, <1>13, <2>1, <2>2 DEF IInv, TypeOK
  <1>16. Decided'
    BY <1>2, AtFacts DEF Decided
  <1>. QED
    BY <1>5, <1>14, <1>15, <1>16 DEF IInv

\* compute_weights reads the ladder, the metagraph and the report.
LEMMA ComputedSame ==
  ASSUME UNCHANGED <<history, metagraph, report>>, NEW burn
  PROVE  compute_weights(burn)' = compute_weights(burn)
  <1>1. select_payees' = select_payees
    BY DEF select_payees, Payable, gated_hotkeys
  <1>2. ASSUME NEW p
        PROVE  allocate_pot(p)' = allocate_pot(p)
    BY RemainingSame DEF allocate_pot, share, winner_share
  <1>3. allocate_pot(select_payees)' = allocate_pot(select_payees)
    BY <1>1, <1>2
  <1>. QED
    BY <1>1, <1>3 DEF compute_weights

\* The report's place stays when only the chain and the payment move.
LEMMA WalkedSame ==
  ASSUME Walked, UNCHANGED <<history, metagraph, report, at, pot_left, paid_any>>,
         phase' # "idle" => phase # "idle"
  PROVE  Walked'
  <1>1. Compliant' = Compliant
    BY DEF Compliant
  <1>2. remaining(Compliant)' = remaining(Compliant)
    BY <1>1, RemainingSame
  <1>3. \A i \in DOMAIN history : Payable(history[i].hotkey)' <=> Payable(history[i].hotkey)
    BY DEF Payable
  <1>. QED
    BY <1>1, <1>2, <1>3 DEF Walked

LEMMA SetWeightsKeeps ==
  ASSUME IInv, SetWeights
  PROVE  IInv'
  <1>1. /\ phase = "reporting" /\ ~Reporting /\ burned' \in BOOLEAN
        /\ weights' = compute_weights(burned') /\ phase' = "set"
        /\ UNCHANGED <<history, stake, locked, metagraph, at, report, pot_left, paid_any,
                       covered>>
    BY DEF SetWeights, onchain, walk
  <1>2. weights' \in [Hotkey -> 0..Unit]
    BY <1>1, ComputedFacts DEF IInv
  <1>3. TypeOK' /\ CoversAll' /\ CoveredIsNeverGated'
    BY <1>1, <1>2 DEF IInv, TypeOK, CoversAll, CoveredIsNeverGated
  <1>4. Walked'
    BY <1>1, WalkedSame DEF IInv
  <1>5. Decided'
    <2>1. at > Len(history) \/ (paid_any /\ pot_left = 0)
      <3>1. /\ at \in 1..(Len(history) + 1) /\ Len(history) \in Nat /\ pot_left \in Nat
            /\ paid_any \in BOOLEAN
        BY LadderTypes, PayoutAssumption DEF IInv, TypeOK
      <3>2. ~(at <= Len(history)) \/ (paid_any /\ ~(pot_left > 0))
        BY <1>1 DEF Reporting
      <3>. QED
        BY <3>1, <3>2
    <2>2. ASSUME NEW burn
          PROVE  compute_weights(burn)' = compute_weights(burn)
      BY <1>1, ComputedSame
    <2>3. weights' = compute_weights(burned)'
      BY <1>1, <2>2
    <2>. QED
      BY <1>1, <2>1, <2>3 DEF Decided
  <1>. QED
    BY <1>3, <1>4, <1>5 DEF IInv

\* What does not touch the round keeps what was decided.
LEMMA DecidedSame ==
  ASSUME Decided, UNCHANGED <<history, metagraph, report, at, pot_left, paid_any, phase,
                              weights, burned>>
  PROVE  Decided'
  <1>1. ASSUME NEW burn
        PROVE  compute_weights(burn)' = compute_weights(burn)
    BY ComputedSame
  <1>2. compute_weights(burned)' = compute_weights(burned)
    BY <1>1
  <1>. QED
    BY <1>2 DEF Decided

LEMMA MoveKeeps ==
  ASSUME IInv, NEW h \in Hotkey, Move(h)
  PROVE  IInv'
  <1>1. PICK s \in Alpha, l \in Alpha :
            l <= s /\ stake' = [stake EXCEPT ![h] = s] /\ locked' = [locked EXCEPT ![h] = l]
    BY DEF Move
  <1>2. /\ covered' = covered \ {g \in Hotkey : locked'[g] < Required[g]}
        /\ UNCHANGED <<history, metagraph, phase, at, report, pot_left, paid_any, weights,
                       burned>>
    BY DEF Move, walk
  <1>3. TypeOK'
    BY <1>1, <1>2 DEF IInv, TypeOK
  <1>4. CoversAll'
    <2>1. \A g \in Hotkey : locked'[g] <= stake'[g]
      BY <1>1 DEF IInv, TypeOK, CoversAll
    <2>2. \A g \in Hotkey : locked'[g] \in Nat /\ Required[g] \in Nat
      BY <1>3, PayoutAssumption DEF TypeOK
    <2>3. \A g \in covered' : g \in Hotkey /\ g \in covered /\ ~(locked'[g] < Required[g])
      BY <1>2 DEF IInv, TypeOK
    <2>. QED
      BY <1>2, <2>1, <2>2, <2>3 DEF IInv, CoversAll
  <1>5. CoveredIsNeverGated'
    BY <1>2 DEF IInv, CoveredIsNeverGated
  <1>. QED
    BY <1>2, <1>3, <1>4, <1>5, WalkedSame, DecidedSame DEF IInv

LEMMA PayoutNext == IInv /\ [Next]_vars => IInv'
  <1>. SUFFICES ASSUME IInv, [Next]_vars PROVE IInv'
    OBVIOUS
  <1>1. CASE Fetch
    BY <1>1, FetchKeeps
  <1>2. CASE Skip
    BY <1>2, SkipKeeps
  <1>3. CASE Assess
    BY <1>3, AssessKeeps
  <1>4. CASE SetWeights
    BY <1>4, SetWeightsKeeps
  <1>5. CASE \E h \in Hotkey : Move(h)
    BY <1>5, MoveKeeps
  <1>6. CASE UNCHANGED vars
    <2>1. UNCHANGED <<history, stake, locked, metagraph, phase, at, report, pot_left,
                      paid_any, weights, burned, covered>>
      BY <1>6 DEF vars, onchain, walk
    <2>2. TypeOK' /\ CoversAll' /\ CoveredIsNeverGated'
      BY <2>1 DEF IInv, TypeOK, CoversAll, CoveredIsNeverGated
    <2>. QED
      BY <2>1, <2>2, WalkedSame, DecidedSame DEF IInv
  <1>. QED
    BY <1>1, <1>2, <1>3, <1>4, <1>5, <1>6 DEF Next

-----------------------------------------------------------------------------
(* Theorems.                                                               *)

\* The inductive invariant holds in every reachable state.
LEMMA PayoutInvariance == Spec => []IInv
  BY PayoutInit, PayoutNext, PTL DEF Spec

\* Every variable of the payment keeps its type; nobody is paid more than the pot.
THEOREM TypeCorrectness == Spec => []TypeOK
  <1>1. IInv => TypeOK
    BY DEF IInv
  <1>. QED
    BY <1>1, PayoutInvariance, PTL

\* Nobody is paid whom the report did not find compliant (_conviction_report_for_winners
\* against allocate_pot), for every ladder and any shares, whatever reads fail.
THEOREM PaymentIsChecked == Spec => []PaidWereChecked
  <1>1. IInv => PaidWereChecked
    BY PaidAreCompliant DEF IInv
  <1>. QED
    BY <1>1, PayoutInvariance, PTL

\* A winner whose lock covered its requirement since the fetch is never gated
\* (conviction_report), with any stakes and locks and whatever reads fail.
THEOREM LocksAreEnough == Spec => []CoveredIsNeverGated
  <1>1. IInv => CoveredIsNeverGated
    BY DEF IInv
  <1>. QED
    BY <1>1, PayoutInvariance, PTL

\* The pot burns outside burn tempos only if no payable winner qualified (compute_weights).
THEOREM BurnsForWant == Spec => []BurnsOnlyIfNoneQualifies
  <1>1. IInv => BurnsOnlyIfNoneQualifies
    BY BurnsForNobody DEF IInv
  <1>. QED
    BY <1>1, PayoutInvariance, PTL

\* The pot is spent once and from the top (allocate_pot), for every ladder and any shares.
THEOREM PotIsSpentOnce == Spec => []PaidFromTheTop
  <1>1. IInv => PaidFromTheTop
    BY SpentFromTheTop DEF IInv
  <1>. QED
    BY <1>1, PayoutInvariance, PTL

=================================================================================
