------------------------------- MODULE Evaluation -------------------------------
(***************************************************************************)
(* The evaluation of a round: the choice of streams (validator/service.py, *)
(* _select_specs and _append_live_benchmark_stream), the loop over codecs  *)
(* and streams (eval/evaluator.py) and the gates (eval/scoring.py), over   *)
(* the sandboxes of module Sandbox.  The incumbent comes first, then the   *)
(* challengers; Reign takes the verdicts from here.                        *)
(*                                                                         *)
(* An exception that is not a codec's RunnerError aborts the round: nothing *)
(* of it is saved and the next one starts again, on a host that still has  *)
(* what the aborted one left behind.  How live snapshots come about is     *)
(* module LiveBench's; here there is one or there is none.                 *)
(***************************************************************************)
EXTENDS Sandbox, Naturals, Sequences

CONSTANT Line \* the line-ups: sequences of codecs, the incumbent first

ASSUME LineAssumption == \A l \in Line : l \in Seq(Codec) /\ l # <<>>

VARIABLES
    codecs,  \* the codecs of the round
    round,   \* "running", "done" or "aborted"
    specs,   \* the streams of the round, "scored", "benchmark" or "live"
    turn,    \* the codec being evaluated
    stream,  \* the stream it runs
    phase,   \* "compress" or "decompress"
    results, \* results[c]: its stream results so far
    verdict, \* verdict[c]: "none", "valid" or "invalid"
    blame    \* history: blame[c]: the cause of the error that ended c's evaluation

loop == <<codecs, round, specs, turn, stream, phase, results, verdict, blame>>
vars == <<sandbox, loop>>

StreamResult == [stream : Nat, scored : BOOLEAN, passed : BOOLEAN]

TypeOK ==
    /\ SandboxTypeOK
    /\ codecs \in Line /\ round \in {"running", "done", "aborted"}
    /\ specs \in Seq({"scored", "benchmark", "live"})
    /\ turn \in 1..(Len(codecs) + 1) /\ stream \in 1..Len(specs)
    /\ phase \in {"compress", "decompress"}
    /\ results \in [DOMAIN codecs -> Seq(StreamResult)]
    /\ verdict \in [DOMAIN codecs -> {"none", "valid", "invalid"}]
    /\ blame \in [DOMAIN codecs -> Cause]

\* Mutant: the benchmark-only source comes first.
SelectedSpecs_BenchmarkFirst == <<"benchmark", "scored", "scored">>

\* _select_specs: the scored sources first, the benchmark-only source after them.
SelectedSpecs == <<"scored", "scored", "benchmark">>

\* _append_live_benchmark_stream: the latest snapshot, if it could be read.
WithLive(s) == {s, Append(s, "live")}

StartRound(line) ==
    /\ codecs' = line /\ round' = "running" /\ turn' = 1 /\ stream' = 1
    /\ phase' = "compress"
    /\ specs' \in WithLive(SelectedSpecs)
    /\ results' = [c \in DOMAIN line |-> <<>>]
    /\ verdict' = [c \in DOMAIN line |-> "none"]
    /\ blame' = [c \in DOMAIN line |-> "none"]

Init ==
    /\ SandboxInit
    /\ codecs \in Line /\ codec = codecs[1] /\ round = "running" /\ turn = 1 /\ stream = 1
    /\ phase = "compress"
    /\ specs \in WithLive(SelectedSpecs)
    /\ results = [c \in DOMAIN codecs |-> <<>>]
    /\ verdict = [c \in DOMAIN codecs |-> "none"]
    /\ blame = [c \in DOMAIN codecs |-> "none"]

\* score_codec: the gates look at the scored streams that have a result.
ScoreCodec(rs) ==
    LET scored == {r \in {rs[i] : i \in DOMAIN rs} : r.scored}
    IN  IF scored # {} /\ \A r \in scored : r.passed THEN "valid" ELSE "invalid"

Result(passed) == [stream |-> stream, scored |-> specs[stream] = "scored", passed |-> passed]

Running == round = "running" /\ pc = "idle" /\ turn <= Len(codecs)

\* run_stream starts with compress.
Begin ==
    /\ Running /\ phase = "compress" /\ result = "none"
    /\ Launch(codecs[turn])
    /\ UNCHANGED loop

\* _prepare_stream cannot read the stream: it stands outside the try.
PrepareFails ==
    /\ Running /\ phase = "compress" /\ result = "none"
    /\ round' = "aborted"
    /\ UNCHANGED <<sandbox, codecs, specs, turn, stream, phase, results, verdict, blame>>

\* compress returned a blob: a separate sandbox decompresses it.
Compressed ==
    /\ Running /\ phase = "compress" /\ result = "ok"
    /\ phase' = "decompress"
    /\ Launch(codecs[turn])
    /\ UNCHANGED <<codecs, round, specs, turn, stream, results, verdict, blame>>

\* The sandbox is done with; what it left stays.
Forget == result' = "none" /\ UNCHANGED <<runner, codec, pc, container, network, input,
                                          triggered, stray, stray_network, failed, cause>>

\* Mutant: the stream counter is not reset for the next codec.
NextCodec_KeepsStream(rs) ==
    /\ results' = [results EXCEPT ![turn] = rs]
    /\ verdict' = [verdict EXCEPT ![turn] = ScoreCodec(rs)]
    /\ turn' = turn + 1 /\ stream' = stream + 1 /\ phase' = "compress"
    /\ round' = IF turn = Len(codecs) THEN "done" ELSE round

NextCodec(rs) ==
    /\ results' = [results EXCEPT ![turn] = rs]
    /\ verdict' = [verdict EXCEPT ![turn] = ScoreCodec(rs)]
    /\ turn' = turn + 1 /\ stream' = 1 /\ phase' = "compress"
    /\ round' = IF turn = Len(codecs) THEN "done" ELSE round

\* decompress returned: the stream has a result, exact and in time or not.
StreamDone ==
    /\ Running /\ phase = "decompress" /\ result = "ok"
    /\ \E passed \in BOOLEAN :
          /\ codec.sound => passed
          /\ LET rs == Append(results[turn], Result(passed))
             IN  IF stream = Len(specs)
                 THEN NextCodec(rs)
                 ELSE /\ results' = [results EXCEPT ![turn] = rs]
                      /\ stream' = stream + 1 /\ phase' = "compress"
                      /\ UNCHANGED <<turn, verdict, round>>
    /\ Forget
    /\ UNCHANGED <<codecs, specs, blame>>

\* Mutant: the handler of the base class comes first.
CodecFaults_AnyRunnerError == {"error", "no_room"}

\* The errors evaluate_artifact turns into a failed stream: RunnerError, but not
\* its subclass InsufficientGpuMemoryError.
CodecFaults == {"error"}

FailedResults == Append(results[turn], Result(FALSE))

\* A failed stream ends the codec's evaluation; the results so far are scored.
StreamFails ==
    /\ Running /\ result \in CodecFaults
    /\ blame' = [blame EXCEPT ![turn] = cause]
    /\ NextCodec(FailedResults)
    /\ Forget
    /\ UNCHANGED <<codecs, specs>>

\* Everything else goes up to the main loop, which logs it.
RoundAborts ==
    /\ Running /\ result \in {"no_room", "raised"} \ CodecFaults
    /\ round' = "aborted"
    /\ Forget
    /\ UNCHANGED <<codecs, specs, turn, stream, phase, results, verdict, blame>>

\* The next round: the same codecs if this one was lost, else another line-up.
NextRound ==
    /\ round # "running"
    /\ \E line \in IF round = "aborted" THEN {codecs} ELSE Line : StartRound(line)
    /\ UNCHANGED sandbox

Next ==
    \/ SandboxNext /\ UNCHANGED loop
    \/ Begin \/ PrepareFails \/ Compressed \/ StreamDone \/ StreamFails \/ RoundAborts \/ NextRound

Spec == Init /\ [][Next]_vars

-----------------------------------------------------------------------------
(* Properties *)

\* The scored streams alone decide, also when the evaluation ended early
\* (evaluate_artifact, score_codec): a valid codec ran and passed every one of the
\* round, an invalid one failed one; a benchmark-only stream, after them, condemns nobody.
VerdictByScoredStreams ==
    \A c \in DOMAIN codecs :
        /\ verdict[c] = "valid" =>
              \A s \in DOMAIN specs : specs[s] = "scored" =>
                  \E i \in DOMAIN results[c] : results[c][i].stream = s /\ results[c][i].passed
        /\ verdict[c] = "invalid" =>
              \E i \in DOMAIN results[c] : results[c][i].scored /\ ~results[c][i].passed

\* A working codec is not thrown out for the host's lack of GPU memory
\* (InsufficientGpuMemoryError, eval/runner.py), not even if an earlier run left a
\* container on the card: if it fails although the memory it declares was found free,
\* a docker command failed, or a container that was left behind took its memory after
\* the check.
FullGpuCondemnsNobody ==
    \A c \in DOMAIN codecs : codecs[c].sound /\ verdict[c] = "invalid" =>
        blame[c] \in {"command", "unchecked", "capped", "late"}
=============================================================================
