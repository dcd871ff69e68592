--------------------------- MODULE ConvictionLedger ---------------------------
(***************************************************************************)
(* The earnings ledger of Miner Conviction (core/conviction.py), as the    *)
(* processes of a deployment advance it.  A validator, or the reign worker *)
(* of a split deployment, loads the ledger from its state file, evaluates  *)
(* a round that may take long, samples the chain on a fixed grid of blocks *)
(* and saves the ledger; the weight setter does the same in memory only.   *)
(* A sample may fail, and a process may stop, between any two steps, also  *)
(* while it writes the file, which is written in place.                    *)
(***************************************************************************)
EXTENDS Naturals

CONSTANTS
    Hotkey,         \* hotkeys that earn
    Process,        \* the processes of the fleet
    File,           \* their state files
    FileOf,         \* FileOf[p]: the file process p loads
    Writer,         \* the processes that save it: validators, reign workers
    Start,          \* CONVICTION_TRACKING_START_BLOCK
    Tempo,          \* the subnet's tempo at the start
    Tempos,         \* the values the chain may give it later
    Horizon,        \* samples younger than this are asked of the live node
    Pruning,        \* and the live node has the state of blocks this young
    Emission,       \* Emission[b][h]: alpha of h for the tempo ending at block b
    Owed,           \* Owed[b][h]: alpha of h from Start to the grid block b
    FirstBlock,     \* the height at which the fleet starts
    MaxBlock        \* bound on the chain height

ASSUME LedgerAssumption ==
    /\ FileOf \in [Process -> File]
    /\ Writer \subseteq Process
    /\ \A p, q \in Writer : FileOf[p] = FileOf[q] => p = q
    /\ Start \in Nat \ {0} /\ Tempo \in Nat \ {0} /\ Tempo \in Tempos
    /\ Tempos \subseteq Nat \ {0}
    /\ Horizon \in Nat /\ Pruning \in Nat /\ Horizon <= Pruning
    /\ MaxBlock \in Nat /\ FirstBlock \in 0..MaxBlock
    /\ \A b \in 0..MaxBlock : Emission[b] \in [Hotkey -> Nat]

\* Owed is the sum of the emissions on the grid of the initial tempo.
ASSUME OwedAssumption ==
    /\ Owed[Start] = [h \in Hotkey |-> 0]
    /\ \A k \in 0..MaxBlock :
          Start + (k + 1) * Tempo <= MaxBlock =>
              Owed[Start + (k + 1) * Tempo] =
                  [h \in Hotkey |-> Owed[Start + k * Tempo][h]
                                      + Emission[Start + (k + 1) * Tempo][h]]

VARIABLES
    block,      \* chain height
    tempo,      \* the chain's tempo
    disk,       \* disk[f]: the ledger state file f holds, or held when it was last whole
    whole,      \* whole[f]: f can be read; not while it is written
    ledger,     \* ledger[p]: the ledger in the memory of process p
    phase,      \* phase[p]: how far p's round is
    target,     \* target[p]: the height p read at the start of its round
    step,       \* step[p]: the tempo p read after the evaluation
    steady      \* history: the chain has kept its first tempo

vars == <<block, tempo, disk, whole, ledger, phase, target, step, steady>>

NoEarnings == [h \in Hotkey |-> 0]
Empty == [earned |-> NoEarnings, last_block |-> 0]

Ledger == [earned : [Hotkey -> Nat], last_block : Nat]

\* Mutant: the last sample is taken again.
FirstOfGrid_Again(last_block, t) ==
    LET start == IF last_block > Start THEN last_block ELSE Start
    IN  IF start = Start THEN Start + t ELSE Start + ((start - Start) \div t) * t

\* ledger_grid's first element: the grid's first block after the last sample.  The
\* elements that follow it are the first elements after each sample.
FirstOfGrid(last_block, t) ==
    LET start == IF last_block > Start THEN last_block ELSE Start
    IN  Start + ((start - Start) \div t + 1) * t

NextSample(p) == FirstOfGrid(ledger[p].last_block, step[p])
Due(p) == NextSample(p) <= target[p]

\* Mutant: every sample is asked of the live node.
Served_Live(p) == block - NextSample(p) <= Pruning

\* emissions_at: the live node, asked by the age at the round's start, may have
\* pruned the block since; an archive node has everything.
Served(p) ==
    target[p] - NextSample(p) <= Horizon => block - NextSample(p) <= Pruning

-----------------------------------------------------------------------------

Tick ==
    /\ block < MaxBlock
    /\ block' = block + 1
    /\ UNCHANGED <<tempo, disk, whole, ledger, phase, target, step, steady>>

ChangeTempo ==
    /\ tempo' \in Tempos \ {tempo}
    /\ steady' = FALSE
    /\ UNCHANGED <<block, disk, whole, ledger, phase, target, step>>

\* Mutant: a file that cannot be read counts as a new validator's.
Begin_Fresh(p) ==
    /\ phase[p] = "idle"
    /\ ledger' = [ledger EXCEPT ![p] = IF whole[FileOf[p]] THEN disk[FileOf[p]] ELSE Empty]
    /\ target' = [target EXCEPT ![p] = block]
    /\ phase' = [phase EXCEPT ![p] = "evaluating"]
    /\ UNCHANGED <<block, tempo, disk, whole, step, steady>>

\* Mutant: the round looks ahead to the end of the tempo under way.
Begin_Ahead(p) ==
    /\ phase[p] = "idle" /\ whole[FileOf[p]]
    /\ ledger' = [ledger EXCEPT ![p] = disk[FileOf[p]]]
    /\ target' = [target EXCEPT ![p] = block + tempo]
    /\ phase' = [phase EXCEPT ![p] = "evaluating"]
    /\ UNCHANGED <<block, tempo, disk, whole, step, steady>>

\* load_state and chain.current_block(); a file that cannot be parsed raises, and the
\* process is where it was.
Begin(p) ==
    /\ phase[p] = "idle" /\ whole[FileOf[p]]
    /\ ledger' = [ledger EXCEPT ![p] = disk[FileOf[p]]]
    /\ target' = [target EXCEPT ![p] = block]
    /\ phase' = [phase EXCEPT ![p] = "evaluating"]
    /\ UNCHANGED <<block, tempo, disk, whole, step, steady>>

\* chain.tempo() is read once the round has been evaluated.
Evaluated(p) ==
    /\ phase[p] = "evaluating"
    /\ step' = [step EXCEPT ![p] = tempo]
    /\ phase' = [phase EXCEPT ![p] = "catching"]
    /\ UNCHANGED <<block, tempo, disk, whole, ledger, target, steady>>

\* One turn of ledger_catchup's loop.
Apply(p) ==
    /\ phase[p] = "catching" /\ Due(p) /\ Served(p)
    /\ LET sample == NextSample(p)
       IN  ledger' = [ledger EXCEPT ![p] =
              [earned |-> [h \in Hotkey |-> @.earned[h] + Emission[sample][h]],
               last_block |-> sample]]
    /\ UNCHANGED <<block, tempo, disk, whole, phase, target, step, steady>>

\* emissions_at raises; the catch-up stops where it is and the round goes on.
SampleFails(p) ==
    /\ phase[p] = "catching" /\ Due(p)
    /\ phase' = [phase EXCEPT ![p] = "done"]
    /\ UNCHANGED <<block, tempo, disk, whole, ledger, target, step, steady>>

CaughtUp(p) ==
    /\ phase[p] = "catching" /\ ~Due(p)
    /\ phase' = [phase EXCEPT ![p] = "done"]
    /\ UNCHANGED <<block, tempo, disk, whole, ledger, target, step, steady>>

ForgetRound(p) ==
    /\ phase' = [phase EXCEPT ![p] = "idle"]
    /\ ledger' = [ledger EXCEPT ![p] = Empty]
    /\ target' = [target EXCEPT ![p] = 0]
    /\ step' = [step EXCEPT ![p] = Tempo]

\* save_state: the file is opened, which empties it ...
Truncate(p) ==
    /\ phase[p] = "done" /\ p \in Writer
    /\ phase' = [phase EXCEPT ![p] = "saving"]
    /\ whole' = [whole EXCEPT ![FileOf[p]] = FALSE]
    /\ UNCHANGED <<block, tempo, disk, ledger, target, step, steady>>

\* ... and written.
Write(p) ==
    /\ phase[p] = "saving"
    /\ disk' = [disk EXCEPT ![FileOf[p]] = ledger[p]]
    /\ whole' = [whole EXCEPT ![FileOf[p]] = TRUE]
    /\ ForgetRound(p)
    /\ UNCHANGED <<block, tempo, steady>>

\* The weight setter saves nothing.
Finish(p) ==
    /\ phase[p] = "done" /\ p \notin Writer
    /\ ForgetRound(p)
    /\ UNCHANGED <<block, tempo, disk, whole, steady>>

\* An exception anywhere else in the round, or a restart.
Abort(p) ==
    /\ phase[p] # "idle"
    /\ ForgetRound(p)
    /\ UNCHANGED <<block, tempo, disk, whole, steady>>

-----------------------------------------------------------------------------

Init ==
    /\ block = FirstBlock /\ tempo = Tempo
    /\ disk = [f \in File |-> Empty] /\ whole = [f \in File |-> TRUE]
    /\ ledger = [p \in Process |-> Empty]
    /\ phase = [p \in Process |-> "idle"]
    /\ target = [p \in Process |-> 0]
    /\ step = [p \in Process |-> Tempo]
    /\ steady = TRUE

RoundStep(p) == Begin(p) \/ Evaluated(p) \/ SampleFails(p) \/ CaughtUp(p)
                \/ Truncate(p) \/ Write(p) \/ Finish(p)

Next == Tick \/ ChangeTempo
        \/ \E p \in Process : RoundStep(p) \/ Apply(p) \/ Abort(p)

Spec == Init /\ [][Next]_vars

\* Every process runs its loop, rounds stop being cut short at some point (the end of
\* a setter's round looks like an Abort), and a sample that can be had is had again
\* and again before it fails.
FairSpec ==
    /\ Spec
    /\ <>[][\A p \in Process : Abort(p) => Finish(p)]_vars
    /\ \A p \in Process : WF_vars(RoundStep(p)) /\ SF_vars(Apply(p))

-----------------------------------------------------------------------------

\* Types; no round looks ahead of the chain.
TypeOK ==
    /\ block \in 0..MaxBlock /\ tempo \in Tempos
    /\ disk \in [File -> Ledger] /\ whole \in [File -> BOOLEAN]
    /\ ledger \in [Process -> Ledger]
    /\ phase \in [Process -> {"idle", "evaluating", "catching", "done", "saving"}]
    /\ target \in [Process -> 0..block]
    /\ step \in [Process -> Tempos]
    /\ steady \in BOOLEAN

\* The blocks every ledger is sampled at.
Grid == {b \in 0..MaxBlock : \E k \in 1..MaxBlock : b = Start + k * Tempo}

Exact(l) ==
    \/ l = Empty
    \/ l.last_block \in Grid /\ l.earned = Owed[l.last_block]

\* While the chain keeps its tempo, a ledger that reaches a grid block holds the
\* emission of every grid block up to it once, and no other: nothing is lost or
\* counted twice when samples fail or rounds are cut short.
EarnedIsExact ==
    steady => /\ \A f \in File : Exact(disk[f])
              /\ \A p \in Process : Exact(ledger[p])

Grown(l, m) ==
    /\ l.last_block <= m.last_block
    /\ \A h \in Hotkey : l.earned[h] <= m.earned[h]

\* Totals are permanent (conviction.py:61): whatever fails, also halfway through a
\* save, and however the tempo changes, no save takes earnings from a hotkey or moves
\* the ledger back.
NothingIsForgotten == [][\A f \in File : Grown(disk[f], disk'[f])]_disk

\* However long the rounds take and however often the nodes fail, every grid block
\* gets into every file, unless the tempo changes and the grid with it, or a process
\* stops halfway through a save: nothing repairs the file then.
LedgerCatchesUp ==
    \A f \in {FileOf[p] : p \in Writer}, b \in Grid :
        block >= b ~> \/ disk[f].last_block >= b
                      \/ ~steady
                      \/ []~whole[f]

=============================================================================
