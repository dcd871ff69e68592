----------------------------- MODULE WinnerLadder -----------------------------
(***************************************************************************)
(* The winner ladder of core/weights.py: the list `winner_history`, newest *)
(* winner first, and the rules by which an entry joins it and leaves it.   *)
(* Ratios are natural numbers (compressed bytes per Unit raw bytes), lower *)
(* is better; the margin and an improvement are fractions of Unit.  Float  *)
(* rounding is not modelled.                                               *)
(***************************************************************************)
EXTENDS Naturals, Sequences, FiniteSets

CONSTANTS
    Unit,           \* the scale of every fraction (10000: basis points)
    Margin,         \* DEFAULT_WIN_MARGIN, as a fraction of Unit
    HistoryDepth,   \* WINNER_HISTORY_DEPTH: entries kept, not entries paid
    None            \* Python's None

ASSUME LadderAssumption ==
    /\ Unit \in Nat \ {0}
    /\ Margin \in 0..Unit
    /\ HistoryDepth \in Nat \ {0}
    /\ None \notin Nat

\* rank_key as an order: best ratio, then earliest commit.
RankBefore(e, f) ==
    \/ e.ratio < f.ratio
    \/ e.ratio = f.ratio /\ e.commit_block < f.commit_block

\* commit_order_key as an order: earliest commit, then hotkey.
CommitBefore(b, h, c, g) ==
    \/ b < c
    \/ b = c /\ h < g

\* Mutant: a hotkey seen before is not skipped.
Kept_Twice(history, eligible) ==
    {i \in DOMAIN history : history[i].hotkey \in eligible}

\* The positions compact_history keeps: eligible, and the first of their hotkey.
Kept(history, eligible) ==
    {i \in DOMAIN history :
        /\ history[i].hotkey \in eligible
        /\ \A j \in 1..(i - 1) : history[j].hotkey # history[i].hotkey}

\* The n-th smallest element of a finite set of naturals.
Nth(S, n) == CHOOSE i \in S : Cardinality({j \in S : j <= i}) = n

compact_history(history, eligible) ==
    LET kept == Kept(history, eligible)
        size == IF Cardinality(kept) <= HistoryDepth
                THEN Cardinality(kept) ELSE HistoryDepth
    IN  [n \in 1..size |-> history[Nth(kept, n)]]

\* Mutant: a vacant crown leaves the improvement unset.
ImprovementOver_Unset(dethroned, ratio) ==
    IF dethroned = None THEN None ELSE ((dethroned - ratio) * Unit) \div dethroned

\* The improvement promote_winner stamps: 0 when a vacant crown is taken.
ImprovementOver(dethroned, ratio) ==
    IF dethroned = None \/ dethroned <= ratio
    THEN 0 ELSE ((dethroned - ratio) * Unit) \div dethroned

promote_winner(history, winner, eligible, dethroned) ==
    LET crowned == [winner EXCEPT
                       !.improvement = ImprovementOver(dethroned, winner.ratio)]
    IN  compact_history(<<crowned>> \o history, eligible \cup {winner.hotkey})

\* Mutant: the margin is forgotten, any better ratio dethrones.
should_promote_AnyGain(ratio, current) == current # None => ratio < current

\* A vacant crown is anyone's; otherwise the challenger must win by the margin.
should_promote(ratio, current) ==
    current # None => ratio * Unit <= current * (Unit - Margin)

Hotkeys(history) == {history[i].hotkey : i \in DOMAIN history}

=============================================================================
