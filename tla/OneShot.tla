-------------------------------- MODULE OneShot --------------------------------
(***************************************************************************)
(* What the competition promises, without rounds, files or measurements:   *)
(* everyone has one shot; who wins goes on top of the ladder, over those   *)
(* already there and in their order; who loses is out for good; a codec    *)
(* that fell off comes back only when the ladder is vacant.  Reign is      *)
(* shown to implement it, whatever fails in between.                       *)
(***************************************************************************)
EXTENDS Naturals

CONSTANTS Player, Depth

VARIABLES
    ladder, \* who stands on it, the champion first
    tried,  \* who has had a shot
    out     \* who is out

contest == <<ladder, tried, out>>

Standing == {ladder[i] : i \in DOMAIN ladder}

Init == ladder = <<>> /\ tried = {} /\ out = {}

\* A ladder has Depth rungs, each of them somebody else's and nobody's who is out.
Ordered ==
    /\ DOMAIN ladder \subseteq 1..Depth
    /\ \A i, j \in DOMAIN ladder : ladder[i] = ladder[j] => i = j
    /\ Standing \cap out = {}

\* Those on the given rungs stood there before, in the same order.
StillStanding(rungs) ==
    /\ \A i \in rungs : ladder'[i] \in Standing
    /\ \A i, j \in rungs : i < j =>
          \E m, n \in DOMAIN ladder :
              m < n /\ ladder'[i] = ladder[m] /\ ladder'[j] = ladder[n]

\* One who had fallen off is alone on them.
ComesBack(rungs) ==
    \E i \in rungs : rungs = {i} /\ ladder'[i] \in tried \ Standing

\* The winners stand over everybody else, all of them unless they fill the ladder.
Crown(winners) ==
    LET top == {i \in DOMAIN ladder' : ladder'[i] \in winners}
        below == DOMAIN ladder' \ top
    IN  /\ \A i \in top, j \in below : i < j
        /\ winners \subseteq Standing' \/ top = 1..Depth
        /\ StillStanding(below) \/ ComesBack(below)

\* One round: shots are taken by players that had none; each is crowned or out;
\* of those on the ladder some stay; a vacant ladder may take one back.
Round ==
    /\ tried \subseteq tried' /\ out \subseteq out'
    /\ tried' \subseteq Player /\ out' \subseteq Player
    /\ (tried' \ tried) \cap out = {}
    /\ Ordered'
    /\ Crown((tried' \ tried) \ out')

Spec == Init /\ [][Round]_contest
=============================================================================
