------------------------------- MODULE LiveBench -------------------------------
(***************************************************************************)
(* The live benchmark stream: the snapshots a background thread fetches    *)
(* between rounds (eval/live_bench.py), and the round that reads the       *)
(* newest of them (validator/service.py, _append_live_benchmark_stream).   *)
(*                                                                         *)
(* The thread outlives the idle wait it was started in: it may write,      *)
(* rename and prune while the next round lists and reads the directory.    *)
(* Snapshots are named by the height at which their fetch began; each is   *)
(* one unit of the retention cap.                                          *)
(***************************************************************************)
EXTENDS Naturals, FiniteSets

CONSTANTS
    None,
    Retention, \* LIVE_RETENTION_BYTES, in snapshots
    MaxBlock   \* bound on the chain height

ASSUME LiveBenchAssumption ==
    Retention \in Nat \ {0, 1} /\ MaxBlock \in Nat /\ None \notin Nat

VARIABLES
    block,    \* chain height
    complete, \* the blocks with a <block>.txt
    part,     \* the blocks with a <block>.txt.part
    threads,  \* the fetches that are alive
    phase,    \* what the validator's main thread does
    picked,   \* what store.latest() answered
    live      \* the snapshot of the round's live stream, or None

main == <<phase, picked, live>>
vars == <<block, complete, part, threads, main>>

Thread == [block : Nat, at : {"fetch", "rename", "prune", "unlink"}, doomed : SUBSET Nat]

TypeOK ==
    /\ block \in 0..MaxBlock
    /\ complete \subseteq 0..block /\ part \subseteq 0..block
    /\ threads \subseteq Thread
    /\ phase \in {"idle", "read", "round"}
    /\ picked \in 0..block \cup {None} /\ live \in 0..block \cup {None}

Init ==
    /\ block = 0 /\ complete = {} /\ part = {} /\ threads = {}
    /\ phase = "idle" /\ picked = None /\ live = None

-----------------------------------------------------------------------------
(* The fetching thread: fetch_live_text, LiveSnapshotStore.save, _prune.   *)

Dies(t) == threads' = threads \ {t}
Goes(t, u) == threads' = (threads \ {t}) \cup {u}

\* The fetch lands and the .part file is written; or it comes up short by its
\* deadline, or fails, and nothing is; or writing fails and the .part stays.
Fetch(t) ==
    /\ t.at = "fetch"
    /\ \/ part' = part \cup {t.block} /\ Goes(t, [t EXCEPT !.at = "rename"])
       \/ part' \in {part, part \cup {t.block}} /\ Dies(t)
    /\ UNCHANGED <<block, complete, main>>

Rename(t) ==
    /\ t.at = "rename"
    /\ part' = part \ {t.block} /\ complete' = complete \cup {t.block}
    /\ Goes(t, [t EXCEPT !.at = "prune"])
    /\ UNCHANGED <<block, main>>

\* Mutant: the list is popped from the wrong end.
Doomed_Newest(S) == {b \in S : Cardinality({c \in S : c >= b}) <= Cardinality(S) - Retention}

\* What _prune removes of the snapshots it lists: the oldest, down to the cap.
Doomed(S) ==
    {b \in S : Cardinality({c \in S : c >= b}) > Retention}

List(t) ==
    /\ t.at = "prune"
    /\ IF Doomed(complete) = {} THEN Dies(t)
       ELSE Goes(t, [t EXCEPT !.at = "unlink", !.doomed = Doomed(complete)])
    /\ UNCHANGED <<block, complete, part, main>>

Unlink(t) ==
    /\ t.at = "unlink"
    /\ \E b \in t.doomed :
          /\ \A c \in t.doomed : b <= c
          /\ complete' = complete \ {b}
          /\ IF t.doomed = {b} \/ b \notin complete THEN Dies(t)
             ELSE Goes(t, [t EXCEPT !.doomed = t.doomed \ {b}])
    /\ UNCHANGED <<block, part, main>>

-----------------------------------------------------------------------------
(* The main thread.                                                        *)

\* store.latest(), at the start of a round that has challengers.
Latest ==
    /\ phase = "idle" /\ phase' = "read"
    /\ picked' = IF complete = {} THEN None
                 ELSE CHOOSE b \in complete : \A c \in complete : c <= b
    /\ UNCHANGED <<block, complete, part, threads, live>>

\* path.read_bytes(): if the file is gone the round goes on without the stream.
ReadSnapshot ==
    /\ phase = "read" /\ phase' = "round"
    /\ live' = IF picked \in complete THEN picked ELSE None
    /\ UNCHANGED <<block, complete, part, threads, picked>>

NewThread == [block |-> block, at |-> "fetch", doomed |-> {}]

\* Mutant: a fetch that still runs is not left alone but joined by another.
LivePrefetcher_start_Stacking == threads' = threads \cup {NewThread}

\* Mutant: the snapshot is named for the round that will use it.
LivePrefetcher_start_NextBlock ==
    threads' = IF threads # {} THEN threads ELSE {[NewThread EXCEPT !.block = block + 1]}

LivePrefetcher_start ==
    threads' = IF threads # {} THEN threads ELSE {NewThread}

\* The round is over, or there was none to evaluate: start the next prefetch,
\* unless the height cannot be read.
StartPrefetch ==
    /\ phase \in {"idle", "round"} /\ phase' = "idle"
    /\ picked' = None /\ live' = None
    /\ LivePrefetcher_start \/ UNCHANGED threads
    /\ UNCHANGED <<block, complete, part>>

\* The process dies, and its threads with it; .part files stay.
Crash ==
    /\ threads' = {} /\ phase' = "idle" /\ picked' = None /\ live' = None
    /\ UNCHANGED <<block, complete, part>>

Tick ==
    /\ block < MaxBlock /\ block' = block + 1
    /\ UNCHANGED <<complete, part, threads, main>>

Next ==
    \/ Latest \/ ReadSnapshot \/ StartPrefetch \/ Crash \/ Tick
    \/ \E t \in threads : Fetch(t) \/ Rename(t) \/ List(t) \/ Unlink(t)

Spec == Init /\ [][Next]_vars

-----------------------------------------------------------------------------
(* Properties *)

\* The snapshot a round has picked stays until it is read, whatever the thread
\* saves and prunes in between: one fetch at a time, and a cap that holds two.
PickedStaysReadable == phase = "read" /\ picked # None => picked \in complete

\* A stale snapshot is preferred over none (_append_live_benchmark_stream): the
\* newest is never lost, neither to pruning nor to a fetch that comes late.
NewestNeverLost ==
    [][\A b \in complete : \E c \in complete' : c >= b]_complete
=============================================================================
