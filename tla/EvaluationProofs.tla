---------------------------- MODULE EvaluationProofs ----------------------------
(***************************************************************************)
(* Proofs about Evaluation and Sandbox, for every set of line-ups.         *)
(*                                                                         *)
(* Neither component's properties are inductive.  SandboxInv says what is  *)
(* true of the container, of its network and of the input at each place of *)
(* the runner, and what can have gone wrong there; EvaluationInv says what *)
(* the results of the codec under evaluation look like, and that the       *)
(* sandbox is that codec's.                                                *)
(***************************************************************************)
EXTENDS Evaluation, TLAPS

-----------------------------------------------------------------------------
(* The sandbox.                                                            *)

\* What exists at each statement of the runner: nothing before the container is
\* asked for, a started container from the warm-up to the entrypoint, and the input
\* only where there is no network left.
Stages ==
    /\ pc \in {"idle", "check", "local", "network"} =>
          container = "none" /\ network = "none" /\ ~input
    /\ pc = "run" => container = "none" /\ network = "idle" /\ ~input
    /\ pc = "plain" => network = "none" /\ container # "none"
    /\ pc \in {"warmup", "seal", "input", "exec"} => container \in {"up", "dead"}
    /\ pc \in {"warmup", "seal", "kill", "input"} => ~input
    /\ pc = "input" => network = "idle"
    /\ pc \in {"check", "local", "plain", "network", "run", "warmup", "seal", "input", "exec"} =>
          result = "none"

\* The input and a network never meet, and will not when the daemon starts a container
\* late: one that is still to be created when there is an input finds no network.
Sealed ==
    input => network # "attached" /\ (network = "idle" => container # "creating")

\* A container that the runner no longer waits for is one that a command timed out on;
\* one that runs on when the network is removed came up late or was not removed.
LateOnlyForCause ==
    /\ pc \in {"warmup", "seal", "input", "exec", "kill", "remove", "remove_network"}
          /\ container = "creating" => "time_out" \in failed
    /\ pc = "remove_network" /\ container = "up" => failed \cap {"time_out", "rm"} # {}

\* What a working codec can fail of.
Faultless ==
    codec.sound =>
        /\ ~triggered
        /\ pc \in {"plain", "warmup", "seal", "input", "exec"} => container # "dead"
        /\ result = "error" => cause \in {"command", "unchecked", "capped", "late"}

\* The reading of the card's memory: it was free, unless there is a cause to name.
CardIsFree ==
    /\ pc \in {"plain", "network", "run", "warmup", "seal", "kill", "input", "exec",
               "remove", "remove_network"} =>
          cause # "full" /\ (stray = "up" => cause # "none")

SandboxInv ==
    /\ SandboxTypeOK
    /\ Stages
    /\ Sealed
    /\ LateOnlyForCause
    /\ Faultless
    /\ CardIsFree

-----------------------------------------------------------------------------
(* The loop over codecs and streams.                                       *)

\* The results of the codec under evaluation, one for each stream so far and all
\* passed if the codec works; the codecs after it have neither results nor verdict.
Progress ==
    /\ round = "running" => turn <= Len(codecs)
    /\ \A c \in DOMAIN codecs : c >= turn => verdict[c] = "none"
    /\ \A c \in DOMAIN codecs : c > turn => results[c] = <<>>
    /\ turn <= Len(codecs) =>
          /\ Len(results[turn]) = stream - 1
          /\ \A i \in 1..(stream - 1) :
                /\ results[turn][i].stream = i
                /\ results[turn][i].scored = (specs[i] = "scored")
                /\ codecs[turn].sound => results[turn][i].passed

\* The sandbox in use is the one of the codec under evaluation.
SandboxOfTheTurn ==
    pc # "idle" \/ result # "none" =>
        round = "running" /\ turn <= Len(codecs) /\ codec = codecs[turn]

EvaluationInv ==
    /\ SandboxInv
    /\ TypeOK
    /\ specs \in WithLive(SelectedSpecs)
    /\ Progress
    /\ SandboxOfTheTurn
    /\ VerdictByScoredStreams
    /\ FullGpuCondemnsNobody

-----------------------------------------------------------------------------
(* Steps of the sandbox.                                                   *)

LEMMA SandboxInitInv == SandboxInit => SandboxInv
  BY DEF SandboxInit, SandboxInv, SandboxTypeOK, Stages, Sealed, LateOnlyForCause,
         Faultless, CardIsFree, Codec, Failure, Cause

\* A phase starts with nothing: no container, no network, no input, no error.
LEMMA LaunchInv ==
  ASSUME SandboxInv, NEW c \in Codec, Launch(c)
  PROVE  SandboxInv'
  BY DEF SandboxInv, SandboxTypeOK, Stages, Sealed, LateOnlyForCause, Faultless,
         CardIsFree, Codec, Launch, Failure, Cause

\* When the loop has taken note of a result, it is gone and the rest stays.
LEMMA ForgetInv ==
  ASSUME SandboxInv, Forget, pc = "idle"
  PROVE  SandboxInv'
  BY DEF SandboxInv, SandboxTypeOK, Stages, Sealed, LateOnlyForCause, Faultless,
         CardIsFree, Forget

LEMMA SandboxStutterInv ==
  ASSUME SandboxInv, UNCHANGED sandbox
  PROVE  SandboxInv'
  BY DEF SandboxInv, SandboxTypeOK, Stages, Sealed, LateOnlyForCause, Faultless,
         CardIsFree, sandbox

LEMMA NotImage ==
  ASSUME NEW c \in Codec, NEW b, b = ~c.image
  PROVE  b <=> ~c.image
  BY Zenon

\* What the check of the card's memory can come to.
LEMMA GpuMemoryType ==
  ASSUME NEW m \in GpuMemory, codec.vram \in {"none", "fits", "large"}
  PROVE  m \in {"unchecked", "none", "capped", "full"} /\ (m = "none" => stray # "up")
  <1>1. CASE codec.vram = "none"
    BY <1>1 DEF GpuMemory
  <1>2. CASE codec.vram # "none" /\ stray = "up"
    BY <1>2 DEF GpuMemory
  <1>3. CASE codec.vram # "none" /\ stray # "up"
    BY <1>3 DEF GpuMemory
  <1>. QED
    BY <1>1, <1>2, <1>3

LEMMA WorseType ==
  ASSUME NEW a \in {"none", "creating", "up"}, NEW b \in {"none", "creating", "up", "dead"}
  PROVE  /\ Worse(a, b) \in {"none", "creating", "up"}
         /\ Worse(a, "none") = a
         /\ a = "up" => Worse(a, b) = "up"
  BY DEF Worse

\* Whatever a phase ends with, nothing of it is left in the scratch directory, and a
\* working codec's error has a cause.
LEMMA LeaveInv ==
  ASSUME SandboxInv,
         NEW r \in {"none", "ok", "error", "no_room", "raised"},
         NEW c \in {"none", "creating", "up", "dead"}, NEW n \in {"none", "attached", "idle"},
         Leave(r, c, n), UNCHANGED <<runner, codec, triggered>>,
         failed' \subseteq Failure,
         cause' \in Cause,
         codec.sound /\ r = "error" => cause' \in {"command", "unchecked", "capped", "late"}
  PROVE  SandboxInv'
  <1>1. stray \in {"none", "creating", "up"}
    BY DEF SandboxInv, SandboxTypeOK
  <1>2. stray' \in {"none", "creating", "up"}
    BY <1>1, WorseType DEF Leave, Remains
  <1>. QED
    BY <1>2 DEF SandboxInv, SandboxTypeOK, Stages, Sealed, LateOnlyForCause, Faultless,
                CardIsFree, Leave

LEMMA SandboxNextInv ==
  ASSUME SandboxInv, SandboxNext
  PROVE  SandboxInv'
  <1>. DEFINE Left == \E r \in {"none", "ok", "error", "no_room", "raised"},
                         c \in {"none", "creating", "up", "dead"}, n \in {"none", "attached", "idle"} :
                 /\ Leave(r, c, n) /\ UNCHANGED <<runner, codec, triggered>>
                 /\ failed' \subseteq Failure
                 /\ cause' \in Cause
                 /\ codec.sound /\ r = "error" => cause' \in {"command", "unchecked", "capped", "late"}
  <1>a. Left => SandboxInv'
    BY LeaveInv
  <1>. HIDE DEF Left
  <1>. USE DEF SandboxInv, SandboxTypeOK, Stages, Sealed, LateOnlyForCause, Faultless,
               CardIsFree
  <1>1. CASE LocalExec
    <2>1. Left
      BY <1>1 DEF LocalExec, Left, Cause
    <2>. QED
      BY <2>1, <1>a
  <1>2. CASE CheckGpuMemory
    <2>1. /\ pc = "check" /\ UNCHANGED <<runner, codec, triggered, failed>>
          /\ cause' \in {"unchecked", "none", "capped", "full"}
          /\ cause' = "none" => stray # "up"
      <3>1. codec.vram \in {"none", "fits", "large"} /\ cause' \in GpuMemory
        BY <1>2 DEF CheckGpuMemory, Codec
      <3>. QED
        BY <1>2, <3>1, GpuMemoryType DEF CheckGpuMemory
    <2>2. CASE Leave("no_room", "none", "none") \/ Leave("raised", "none", "none")
      <3>1. Left
        BY <2>1, <2>2 DEF Left, Cause
      <3>. QED
        BY <3>1, <1>a
    <2>3. CASE ~(Leave("no_room", "none", "none") \/ Leave("raised", "none", "none"))
      <3>1. /\ cause' # "full"
            /\ pc' = IF codec.image THEN "network" ELSE "plain"
            /\ input' = ~codec.image
            /\ container' = IF codec.image THEN "none" ELSE "creating"
            /\ UNCHANGED <<network, result, stray, stray_network>>
        BY <1>2, <2>3 DEF CheckGpuMemory
      <3>2. \/ pc' = "network" /\ ~input' /\ container' = "none"
            \/ pc' = "plain" /\ input' /\ container' = "creating"
        <4>1. codec \in Codec /\ input' = ~codec.image /\ codec.image \in BOOLEAN
          BY <3>1 DEF Codec
        <4>2. input' <=> ~codec.image
          BY <4>1, NotImage
        <4>. QED
          BY <3>1, <4>1, <4>2
      <3>3. /\ network' = "none" /\ result' = "none" /\ stray' = stray
            /\ stray_network' = stray_network /\ input' \in BOOLEAN
        BY <2>1, <3>1, <3>2
      <3>4. SandboxTypeOK'
        BY <2>1, <3>1, <3>2, <3>3 DEF Cause
      <3>5. Stages' /\ Sealed' /\ LateOnlyForCause'
        BY <3>2, <3>3
      <3>6. Faultless'
        BY <2>1, <3>2, <3>3
      <3>7. CardIsFree'
        BY <2>1, <3>1, <3>3
      <3>. QED
        BY <3>4, <3>5, <3>6, <3>7
    <2>. QED
      BY <2>2, <2>3
  <1>3. CASE StrayStarts
    BY <1>3 DEF StrayStarts, Cause
  <1>4. CASE WatchdogTriggers
    BY <1>4 DEF WatchdogTriggers
  <1>5. CASE WatchdogKills
    BY <1>5 DEF WatchdogKills
  <1>6. CASE ContainerStarts
    BY <1>6 DEF ContainerStarts
  <1>7. CASE PlainReturns
    <2>1. CASE Succeeds /\ Leave("ok", "none", "none") /\ cause' = cause
      <3>1. Left
        BY <1>7, <2>1 DEF PlainReturns, Left
      <3>. QED
        BY <3>1, <1>a
    <2>2. CASE container # "creating" /\ Crashes /\ Leave("error", "none", "none") /\ cause' = cause
      <3>1. codec.sound => cause \in {"command", "unchecked", "capped", "late"}
        <4>1. container = "up" /\ codec.sound =>
                 stray = "up" \/ cause \in {"unchecked", "capped"}
          BY <2>2 DEF Crashes
        <4>. QED
          BY <1>7, <2>2, <4>1 DEF PlainReturns, Cause
      <3>2. Left
        BY <1>7, <2>2, <3>1 DEF PlainReturns, Left
      <3>. QED
        BY <3>2, <1>a
    <2>3. CASE container = "creating" /\ Leave("error", "none", "none") /\ cause' = "command"
      <3>1. Left
        BY <1>7, <2>3 DEF PlainReturns, Left, Cause
      <3>. QED
        BY <3>1, <1>a
    <2>. QED
      BY <1>7, <2>1, <2>2, <2>3 DEF PlainReturns
  <1>8. CASE PlainTimesOut
    <2>1. Left
      BY <1>8 DEF PlainTimesOut, Left, CommandFails, Failure, Cause
    <2>. QED
      BY <2>1, <1>a
  <1>9. CASE CreateNetwork
    <2>1. CASE pc' = "run"
      BY <1>9, <2>1 DEF CreateNetwork, Leave
    <2>2. CASE pc' # "run"
      <3>1. Left
        BY <1>9, <2>2 DEF CreateNetwork, CommandFails, Left, Failure, Cause
      <3>. QED
        BY <3>1, <1>a
    <2>. QED
      BY <2>1, <2>2
  <1>10. CASE RunDetached
    BY <1>10 DEF RunDetached, CommandFails, Failure, Cause
  <1>11. CASE AwaitWarmup
    BY <1>11 DEF AwaitWarmup, Succeeds, Crashes, Cause
  <1>12. CASE Seal
    BY <1>12 DEF Seal, CommandFails, Failure, Cause
  <1>13. CASE Kill
    <2>1. container' \in {container, "dead"} /\ (container' # container => container = "up")
      BY <1>13 DEF Kill
    <2>2. /\ pc = "kill" /\ pc' = "remove"
          /\ failed \subseteq failed' /\ failed' \subseteq Failure
          /\ result' \in {result, "raised"} /\ cause' \in {cause, "command"}
          /\ UNCHANGED <<runner, codec, network, input, triggered, stray, stray_network>>
      BY <1>13 DEF Kill, CommandFails, Failure
    <2>. QED
      BY <2>1, <2>2 DEF Cause
  <1>14. CASE WriteInput
    BY <1>14 DEF WriteInput
  <1>15. CASE Exec
    BY <1>15 DEF Exec, Succeeds, Crashes, Cause
  <1>16. CASE Remove
    <2>1. /\ pc = "remove" /\ UNCHANGED <<runner, codec, triggered>>
          /\ failed \subseteq failed' /\ failed' \subseteq Failure
          /\ cause' \in {cause, "command"}
      BY <1>16 DEF Remove, CommandFails, Failure
    <2>2. CASE /\ container' \in {container, "none"} /\ network' \in {network, "idle"}
               /\ network' # network => network = "attached"
               /\ container' = "up" => "rm" \in failed'
               /\ pc' = "remove_network" /\ cause' = cause
               /\ UNCHANGED <<input, result, stray, stray_network>>
      BY <2>1, <2>2
    <2>3. CASE \E c \in {"none", container} : Leave("raised", c, network)
      <3>1. Left
        BY <2>1, <2>3 DEF Left, Cause
      <3>. QED
        BY <3>1, <1>a
    <2>4. CASE pc' = "remove_network"
      <3>1. /\ container' \in {container, "none"} /\ network' \in {network, "idle"}
            /\ network' # network => network = "attached"
            /\ container' = "up" => "rm" \in failed'
        BY <1>16, <2>4 DEF Remove, Leave
      <3>2. cause' = cause /\ UNCHANGED <<input, result, stray, stray_network>>
        BY <1>16, <2>4 DEF Remove, Leave
      <3>. QED
        BY <2>2, <2>4, <3>1, <3>2
    <2>. QED
      BY <1>16, <2>3, <2>4 DEF Remove
  <1>17. CASE RemoveNetwork
    <2>1. Left
      BY <1>17 DEF RemoveNetwork, CommandFails, Left, Failure, Cause
    <2>. QED
      BY <2>1, <1>a
  <1>18. CASE OutputUnreadable
    BY <1>18 DEF OutputUnreadable
  <1>. QED
    BY <1>1, <1>2, <1>3, <1>4, <1>5, <1>6, <1>7, <1>8, <1>9, <1>10, <1>11, <1>12, <1>13, <1>14, <1>15, <1>16, <1>17, <1>18
    DEF SandboxNext

-----------------------------------------------------------------------------
(* Verdicts.                                                               *)

\* Two scored streams come first, and none after them.
LEMMA SpecsShape ==
  ASSUME NEW s \in WithLive(SelectedSpecs)
  PROVE  /\ s \in Seq({"scored", "benchmark", "live"})
         /\ Len(s) \in {3, 4}
         /\ s[1] = "scored" /\ s[2] = "scored"
         /\ \A i \in DOMAIN s : s[i] = "scored" => i \in {1, 2}
  <1>1. \/ s = <<"scored", "scored", "benchmark">>
        \/ s = Append(<<"scored", "scored", "benchmark">>, "live")
    BY DEF WithLive, SelectedSpecs
  <1>2. CASE s = <<"scored", "scored", "benchmark">>
    BY <1>2
  <1>3. CASE s = Append(<<"scored", "scored", "benchmark">>, "live")
    <2>1. /\ s \in Seq({"scored", "benchmark", "live"}) /\ Len(s) = 4
          /\ s[1] = "scored" /\ s[2] = "scored" /\ s[3] = "benchmark" /\ s[4] = "live"
      BY <1>3
    <2>. QED
      BY <2>1
  <1>. QED
    BY <1>1, <1>2, <1>3

\* score_codec: valid means that something was scored and all that was scored passed.
LEMMA ScoreCodecValid ==
  ASSUME NEW rs \in Seq(StreamResult)
  PROVE  /\ ScoreCodec(rs) \in {"valid", "invalid"}
         /\ ScoreCodec(rs) = "valid" <=>
               /\ \E i \in DOMAIN rs : rs[i].scored
               /\ \A i \in DOMAIN rs : rs[i].scored => rs[i].passed
  <1>. DEFINE scored == {r \in {rs[i] : i \in DOMAIN rs} : r.scored}
  <1>1. scored # {} <=> \E i \in DOMAIN rs : rs[i].scored
    OBVIOUS
  <1>2. (\A r \in scored : r.passed) <=> \A i \in DOMAIN rs : rs[i].scored => rs[i].passed
    OBVIOUS
  <1>3. ScoreCodec(rs) = IF scored # {} /\ \A r \in scored : r.passed THEN "valid" ELSE "invalid"
    BY DEF ScoreCodec
  <1>. HIDE DEF scored
  <1>. QED
    BY <1>1, <1>2, <1>3

\* The results rs that a codec ends with, the last of which is passed or not.
FinalResults(rs, passed) ==
    /\ rs \in Seq(StreamResult)
    /\ ScoreCodec(rs) = "valid" =>
          \A s \in DOMAIN specs : specs[s] = "scored" =>
              \E i \in DOMAIN rs : rs[i].stream = s /\ rs[i].passed
    /\ ScoreCodec(rs) = "invalid" => \E i \in DOMAIN rs : rs[i].scored /\ ~rs[i].passed
    /\ passed /\ codecs[turn].sound => ScoreCodec(rs) = "valid"

\* One more result ends the evaluation of a codec, as it is the last one or failed.
LEMMA LastResult ==
  ASSUME EvaluationInv, Running,
         NEW passed \in BOOLEAN, stream = Len(specs) \/ ~passed
  PROVE  FinalResults(Append(results[turn], Result(passed)), passed)
  <1>. DEFINE rs == Append(results[turn], Result(passed))
  <1>. DEFINE old == results[turn]
  <1>1. /\ turn \in DOMAIN codecs /\ old \in Seq(StreamResult) /\ Len(old) = stream - 1
        /\ stream \in 1..Len(specs)
        /\ \A i \in 1..(stream - 1) : /\ old[i].stream = i
                                      /\ old[i].scored = (specs[i] = "scored")
                                      /\ codecs[turn].sound => old[i].passed
    BY LineAssumption DEF EvaluationInv, TypeOK, Progress, Running
  <1>2. Result(passed) \in StreamResult
    BY <1>1 DEF Result, StreamResult
  <1>3. /\ Result(passed).stream = stream /\ Result(passed).passed = passed
        /\ Result(passed).scored = (specs[stream] = "scored")
    BY DEF Result
  <1>. HIDE DEF old
  <1>4. /\ rs \in Seq(StreamResult) /\ Len(rs) = stream /\ DOMAIN rs = 1..stream
        /\ \A i \in 1..(stream - 1) : rs[i] = old[i]
        /\ rs[stream] = Result(passed)
    BY <1>1, <1>2 DEF old
  <1>. HIDE DEF rs
  <1>5. \A i \in DOMAIN rs : rs[i].stream = i /\ rs[i].scored = (specs[i] = "scored")
    BY <1>1, <1>3, <1>4
  <1>6. /\ Len(specs) \in {3, 4} /\ specs[1] = "scored" /\ specs[2] = "scored"
        /\ \A i \in DOMAIN specs : specs[i] = "scored" => i \in {1, 2}
    BY SpecsShape DEF EvaluationInv
  <1>7. ASSUME ScoreCodec(rs) = "valid", NEW s \in DOMAIN specs, specs[s] = "scored"
        PROVE  \E i \in DOMAIN rs : rs[i].stream = s /\ rs[i].passed
    <2>1. \A i \in DOMAIN rs : rs[i].scored => rs[i].passed
      BY <1>4, <1>7, ScoreCodecValid
    <2>2. s \in {1, 2}
      BY <1>6, <1>7
    <2>3. s \in DOMAIN rs
      <3>1. CASE stream = Len(specs)
        BY <1>4, <1>6, <2>2, <3>1
      <3>2. CASE ~passed
        <4>1. specs[stream] # "scored"
          <5>1. stream \in DOMAIN rs /\ rs[stream].passed = passed
            BY <1>1, <1>3, <1>4
          <5>2. ~rs[stream].passed
            BY <3>2, <5>1, Zenon
          <5>3. ~rs[stream].scored
            BY <2>1, <5>1, <5>2
          <5>. QED
            BY <1>3, <1>4, <5>3, Zenon
        <4>2. stream > 2
          BY <1>1, <1>6, <4>1
        <4>. QED
          BY <1>4, <2>2, <4>2, <1>1
      <3>. QED
        BY <3>1, <3>2
    <2>. QED
      BY <1>5, <1>7, <2>1, <2>3
  <1>8. 1 \in DOMAIN rs /\ rs[1].scored
    <2>1. 1 \in DOMAIN rs
      BY <1>1, <1>4
    <2>2. rs[1].scored = TRUE
      BY <1>5, <1>6, <2>1
    <2>. QED
      BY <2>1, <2>2
  <1>9. ASSUME ScoreCodec(rs) = "invalid"
        PROVE  \E i \in DOMAIN rs : rs[i].scored /\ ~rs[i].passed
    BY <1>4, <1>8, <1>9, ScoreCodecValid
  <1>10. ASSUME passed, codecs[turn].sound
         PROVE  ScoreCodec(rs) = "valid"
    <2>1. \A i \in DOMAIN rs : rs[i].passed
      <3>1. \A i \in 1..(stream - 1) : rs[i].passed
        BY <1>1, <1>4, <1>10
      <3>2. rs[stream].passed
        BY <1>3, <1>4, <1>10, Zenon
      <3>3. \A i \in DOMAIN rs : i \in 1..(stream - 1) \/ i = stream
        BY <1>1, <1>4
      <3>. QED
        BY <3>1, <3>2, <3>3
    <2>. QED
      BY <1>4, <1>8, <2>1, ScoreCodecValid
  <1>. QED
    BY <1>4, <1>7, <1>9, <1>10 DEF FinalResults, rs

-----------------------------------------------------------------------------
(* Steps of the loop.                                                      *)

LEMMA StartRoundInv ==
  ASSUME EvaluationInv, NEW line \in Line, StartRound(line), UNCHANGED sandbox,
         round # "running"
  PROVE  EvaluationInv'
  <1>1. line \in Seq(Codec) /\ line # <<>>
    BY LineAssumption
  <1>2. Len(line) \in Nat /\ Len(line) >= 1 /\ DOMAIN line = 1..Len(line)
    BY <1>1
  <1>3. specs' \in WithLive(SelectedSpecs)
    BY DEF StartRound
  <1>4. specs' \in Seq({"scored", "benchmark", "live"}) /\ Len(specs') \in {3, 4}
    BY <1>3, SpecsShape
  <1>5. SandboxInv'
    BY SandboxStutterInv DEF EvaluationInv
  <1>6. pc' = "idle" /\ result' = "none"
    BY DEF EvaluationInv, SandboxOfTheTurn, sandbox
  <1>7. TypeOK'
    <2>1. <<>> \in Seq(StreamResult)
      OBVIOUS
    <2>2. SandboxTypeOK'
      BY <1>5 DEF SandboxInv
    <2>3. turn' \in 1..(Len(line) + 1) /\ stream' \in 1..Len(specs')
      BY <1>2, <1>4 DEF StartRound
    <2>4. /\ results' \in [DOMAIN line -> Seq(StreamResult)]
          /\ verdict' \in [DOMAIN line -> {"none", "valid", "invalid"}]
          /\ blame' \in [DOMAIN line -> Cause]
      BY <2>1 DEF StartRound, Cause
    <2>. QED
      BY <1>4, <2>2, <2>3, <2>4 DEF TypeOK, StartRound
  <1>8. Progress'
    BY <1>2 DEF Progress, StartRound
  <1>9. SandboxOfTheTurn'
    BY <1>6 DEF SandboxOfTheTurn
  <1>10. VerdictByScoredStreams' /\ FullGpuCondemnsNobody'
    BY DEF VerdictByScoredStreams, FullGpuCondemnsNobody, StartRound
  <1>. QED
    BY <1>3, <1>5, <1>7, <1>8, <1>9, <1>10 DEF EvaluationInv

LEMMA EvaluationInit == Init => EvaluationInv
  <1>. SUFFICES ASSUME Init PROVE EvaluationInv
    OBVIOUS
  <1>1. codecs \in Seq(Codec) /\ codecs # <<>>
    BY LineAssumption DEF Init
  <1>2. Len(codecs) \in Nat /\ Len(codecs) >= 1 /\ DOMAIN codecs = 1..Len(codecs)
    BY <1>1
  <1>3. specs \in WithLive(SelectedSpecs)
    BY DEF Init
  <1>4. specs \in Seq({"scored", "benchmark", "live"}) /\ Len(specs) \in {3, 4}
    BY <1>3, SpecsShape
  <1>5. SandboxInv
    BY SandboxInitInv DEF Init
  <1>6. TypeOK
    <2>1. <<>> \in Seq(StreamResult)
      OBVIOUS
    <2>2. SandboxTypeOK
      BY <1>5 DEF SandboxInv
    <2>3. turn \in 1..(Len(codecs) + 1) /\ stream \in 1..Len(specs)
      <3>1. turn = 1 /\ stream = 1
        BY DEF Init
      <3>. QED
        BY <1>2, <1>4, <3>1
    <2>4. /\ results \in [DOMAIN codecs -> Seq(StreamResult)]
          /\ verdict \in [DOMAIN codecs -> {"none", "valid", "invalid"}]
          /\ blame \in [DOMAIN codecs -> Cause]
      BY <1>2, <2>1 DEF Init, Cause
    <2>. QED
      BY <1>4, <2>2, <2>3, <2>4 DEF TypeOK, Init
  <1>7. Progress
    BY <1>2 DEF Progress, Init
  <1>8. SandboxOfTheTurn
    BY DEF SandboxOfTheTurn, Init, SandboxInit
  <1>9. VerdictByScoredStreams /\ FullGpuCondemnsNobody
    BY DEF VerdictByScoredStreams, FullGpuCondemnsNobody, Init
  <1>. QED
    BY <1>3, <1>5, <1>6, <1>7, <1>8, <1>9 DEF EvaluationInv

\* A step of the sandbox leaves the loop alone, and the sandbox only moves between
\* the launch and the result that the loop takes note of.
LEMMA SandboxStepInv ==
  ASSUME EvaluationInv, SandboxNext, UNCHANGED loop
  PROVE  EvaluationInv'
  <1>1. SandboxInv'
    BY SandboxNextInv DEF EvaluationInv
  <1>2. codec' = codec
    BY DEF SandboxNext, LocalExec, CheckGpuMemory, OutputUnreadable, StrayStarts, WatchdogTriggers,
           WatchdogKills, ContainerStarts, PlainReturns, PlainTimesOut, CreateNetwork,
           RunDetached, AwaitWarmup, Seal, Kill, WriteInput, Exec, Remove, RemoveNetwork
  <1>3. \/ pc # "idle"
        \/ pc' = pc /\ result' = result
        \/ pc' = pc /\ result # "none"
    BY DEF SandboxNext, LocalExec, CheckGpuMemory, OutputUnreadable, StrayStarts, WatchdogTriggers,
           WatchdogKills, ContainerStarts, PlainReturns, PlainTimesOut, CreateNetwork,
           RunDetached, AwaitWarmup, Seal, Kill, WriteInput, Exec, Remove, RemoveNetwork
  <1>. QED
    BY <1>1, <1>2, <1>3
    DEF EvaluationInv, TypeOK, SandboxInv, Progress, SandboxOfTheTurn,
        VerdictByScoredStreams, FullGpuCondemnsNobody, loop

\* The codec under evaluation gets its verdict, rs being its results with the last one.
LEMMA NextCodecInv ==
  ASSUME EvaluationInv, Running, NEW passed \in BOOLEAN,
         NEW rs, rs = Append(results[turn], Result(passed)),
         stream = Len(specs) \/ ~passed,
         NextCodec(rs), Forget, UNCHANGED <<codecs, specs>>,
         blame' \in [DOMAIN codecs -> Cause],
         \A c \in DOMAIN codecs : c # turn => blame'[c] = blame[c],
         codecs[turn].sound /\ ~passed => blame'[turn] \in {"command", "unchecked", "capped", "late"}
  PROVE  EvaluationInv'
  <1>1. /\ rs \in Seq(StreamResult)
        /\ ScoreCodec(rs) = "valid" =>
              \A s \in DOMAIN specs : specs[s] = "scored" =>
                  \E i \in DOMAIN rs : rs[i].stream = s /\ rs[i].passed
        /\ ScoreCodec(rs) = "invalid" => \E i \in DOMAIN rs : rs[i].scored /\ ~rs[i].passed
        /\ passed /\ codecs[turn].sound => ScoreCodec(rs) = "valid"
    BY LastResult DEF FinalResults
  <1>2. ScoreCodec(rs) \in {"valid", "invalid"}
    BY <1>1, ScoreCodecValid
  <1>3. /\ codecs \in Seq(Codec) /\ turn \in 1..Len(codecs) /\ DOMAIN codecs = 1..Len(codecs)
        /\ Len(codecs) \in Nat
    BY LineAssumption DEF EvaluationInv, TypeOK, Running
  <1>a. turn \in 1..Len(codecs) /\ Len(codecs) \in Nat /\ Len(specs) \in {3, 4}
    BY <1>3, SpecsShape DEF EvaluationInv
  <1>4. Len(specs) \in {3, 4} /\ specs \in Seq({"scored", "benchmark", "live"})
    BY SpecsShape DEF EvaluationInv
  <1>5. /\ results \in [DOMAIN codecs -> Seq(StreamResult)]
        /\ verdict \in [DOMAIN codecs -> {"none", "valid", "invalid"}]
        /\ \A c \in DOMAIN codecs : c >= turn => verdict[c] = "none"
        /\ \A c \in DOMAIN codecs : c > turn => results[c] = <<>>
    BY DEF EvaluationInv, TypeOK, Progress
  <1>6. SandboxInv'
    BY ForgetInv DEF EvaluationInv, Running
  <1>7. /\ results' = [results EXCEPT ![turn] = rs]
        /\ verdict' = [verdict EXCEPT ![turn] = ScoreCodec(rs)]
        /\ turn' = turn + 1 /\ stream' = 1 /\ phase' = "compress"
        /\ round' = IF turn = Len(codecs) THEN "done" ELSE round
        /\ codecs' = codecs /\ specs' = specs /\ round = "running"
    BY DEF NextCodec, Running
  <1>8. TypeOK'
    <2>1. SandboxTypeOK'
      BY <1>6 DEF SandboxInv
    <2>2. turn + 1 \in 1..(Len(codecs) + 1) /\ 1 \in 1..Len(specs)
      <3>1. turn + 1 \in 1..(Len(codecs) + 1)
        BY <1>a
      <3>2. 1 \in 1..Len(specs)
        <4>1. CASE Len(specs) = 3
          BY <4>1
        <4>2. CASE Len(specs) = 4
          BY <4>2
        <4>. QED
          BY <1>a, <4>1, <4>2
      <3>. QED
        BY <3>1, <3>2
    <2>3. /\ results' \in [DOMAIN codecs -> Seq(StreamResult)]
          /\ verdict' \in [DOMAIN codecs -> {"none", "valid", "invalid"}]
      BY <1>1, <1>2, <1>5, <1>7
    <2>4. codecs' \in Line /\ round' \in {"running", "done", "aborted"} /\ phase' = "compress"
      BY <1>7 DEF EvaluationInv, TypeOK
    <2>. QED
      BY <1>4, <1>7, <2>1, <2>2, <2>3, <2>4 DEF TypeOK
  <1>9. Progress'
    <2>1. ASSUME NEW c \in DOMAIN codecs, c >= turn + 1
          PROVE  verdict'[c] = "none" /\ results'[c] = <<>>
      <3>1. c \in Nat /\ turn \in Nat /\ c > turn /\ c # turn /\ c >= turn
        BY <1>3, <2>1
      <3>2. verdict'[c] = verdict[c] /\ results'[c] = results[c]
        BY <1>5, <1>7, <3>1
      <3>. QED
        BY <1>5, <3>1, <3>2
    <2>2. round' = "running" => turn + 1 <= Len(codecs)
      <3>1. round' = "running" => turn # Len(codecs)
        BY DEF NextCodec
      <3>. QED
        BY <1>a, <3>1
    <2>3. turn + 1 <= Len(codecs) => Len(results'[turn + 1]) = 0
      <3>1. SUFFICES ASSUME turn + 1 <= Len(codecs)
                     PROVE  Len(results'[turn + 1]) = 0
        OBVIOUS
      <3>2. turn + 1 \in DOMAIN codecs /\ turn + 1 >= turn + 1
        BY <1>3, <3>1
      <3>3. results'[turn + 1] = <<>>
        BY <2>1, <3>2
      <3>. QED
        BY <3>3
    <2>4. /\ \A c \in DOMAIN codecs : c >= turn + 1 => verdict'[c] = "none"
          /\ \A c \in DOMAIN codecs : c > turn + 1 => results'[c] = <<>>
      BY <1>3, <2>1
    <2>. QED
      BY <1>7, <2>2, <2>3, <2>4 DEF Progress
  <1>10. SandboxOfTheTurn'
    BY DEF SandboxOfTheTurn, Forget, Running
  <1>11. VerdictByScoredStreams'
    <2>. SUFFICES ASSUME NEW c \in DOMAIN codecs
         PROVE  /\ verdict'[c] = "valid" =>
                      \A s \in DOMAIN specs : specs[s] = "scored" =>
                          \E i \in DOMAIN results'[c] : /\ results'[c][i].stream = s
                                                       /\ results'[c][i].passed
                /\ verdict'[c] = "invalid" =>
                      \E i \in DOMAIN results'[c] : /\ results'[c][i].scored
                                                   /\ ~results'[c][i].passed
      BY <1>7 DEF VerdictByScoredStreams
    <2>1. CASE c = turn
      <3>1. verdict'[c] = ScoreCodec(rs) /\ results'[c] = rs
        BY <1>5, <1>7, <2>1
      <3>. QED
        BY <1>1, <3>1
    <2>2. CASE c # turn
      <3>1. verdict'[c] = verdict[c] /\ results'[c] = results[c]
        BY <1>5, <1>7, <2>2
      <3>. QED
        BY <3>1 DEF EvaluationInv, VerdictByScoredStreams
    <2>. QED
      BY <2>1, <2>2
  <1>12. FullGpuCondemnsNobody'
    <2>. SUFFICES ASSUME NEW c \in DOMAIN codecs, codecs[c].sound, verdict'[c] = "invalid"
         PROVE  blame'[c] \in {"command", "unchecked", "capped", "late"}
      BY <1>7 DEF FullGpuCondemnsNobody
    <2>1. CASE c = turn
      <3>1. ScoreCodec(rs) = "invalid"
        BY <1>5, <1>7, <2>1
      <3>2. ~passed
        BY <1>1, <2>1, <3>1
      <3>. QED
        BY <2>1, <3>2
    <2>2. CASE c # turn
      <3>1. verdict[c] = "invalid"
        BY <1>5, <1>7, <2>2
      <3>. QED
        BY <2>2, <3>1 DEF EvaluationInv, FullGpuCondemnsNobody
    <2>. QED
      BY <2>1, <2>2
  <1>. QED
    BY <1>6, <1>7, <1>8, <1>9, <1>10, <1>11, <1>12 DEF EvaluationInv

\* A phase of the codec under evaluation begins.
LEMMA LaunchedInv ==
  ASSUME EvaluationInv, Running, Launch(codecs[turn]), phase' \in {"compress", "decompress"},
         UNCHANGED <<codecs, round, specs, turn, stream, results, verdict, blame>>
  PROVE  EvaluationInv'
  <1>1. codecs[turn] \in Codec
    BY LineAssumption DEF EvaluationInv, TypeOK, Running
  <1>2. SandboxInv'
    BY <1>1, LaunchInv DEF EvaluationInv
  <1>3. SandboxOfTheTurn'
    BY DEF SandboxOfTheTurn, Launch, Running
  <1>4. TypeOK'
    <2>1. SandboxTypeOK'
      BY <1>2 DEF SandboxInv
    <2>. QED
      BY <2>1 DEF EvaluationInv, TypeOK
  <1>5. Progress'
    BY DEF EvaluationInv, Progress
  <1>6. VerdictByScoredStreams' /\ FullGpuCondemnsNobody'
    BY DEF EvaluationInv, VerdictByScoredStreams, FullGpuCondemnsNobody
  <1>. QED
    BY <1>2, <1>3, <1>4, <1>5, <1>6 DEF EvaluationInv

LEMMA StreamDoneInv ==
  ASSUME EvaluationInv, StreamDone
  PROVE  EvaluationInv'
  <1>1. PICK passed \in BOOLEAN :
           /\ codec.sound => passed
           /\ LET rs == Append(results[turn], Result(passed))
              IN  IF stream = Len(specs)
                  THEN NextCodec(rs)
                  ELSE /\ results' = [results EXCEPT ![turn] = rs]
                       /\ stream' = stream + 1 /\ phase' = "compress"
                       /\ UNCHANGED <<turn, verdict, round>>
    BY DEF StreamDone
  <1>2. /\ Running /\ result = "ok" /\ Forget /\ UNCHANGED <<codecs, specs, blame>>
        /\ codec = codecs[turn] /\ pc = "idle" /\ round = "running"
    BY DEF StreamDone, EvaluationInv, SandboxOfTheTurn, Running
  <1>. DEFINE rs == Append(results[turn], Result(passed))
  <1>3. CASE stream = Len(specs)
    <2>1. NextCodec(rs)
      BY <1>1, <1>3
    <2>2. /\ blame' \in [DOMAIN codecs -> Cause]
          /\ \A c \in DOMAIN codecs : c # turn => blame'[c] = blame[c]
      BY <1>2 DEF EvaluationInv, TypeOK
    <2>3. codecs[turn].sound /\ ~passed => blame'[turn] \in {"command", "unchecked", "capped", "late"}
      BY <1>1, <1>2
    <2>. QED
      BY <1>2, <1>3, <2>1, <2>2, <2>3, NextCodecInv
  <1>4. CASE stream # Len(specs)
    <2>1. /\ results' = [results EXCEPT ![turn] = rs]
          /\ stream' = stream + 1 /\ phase' = "compress"
          /\ UNCHANGED <<turn, verdict, round>>
      BY <1>1, <1>4
    <2>2. /\ turn \in DOMAIN codecs /\ turn <= Len(codecs)
          /\ results \in [DOMAIN codecs -> Seq(StreamResult)]
          /\ results[turn] \in Seq(StreamResult) /\ Len(results[turn]) = stream - 1
          /\ \A i \in 1..(stream - 1) :
                /\ results[turn][i].stream = i
                /\ results[turn][i].scored = (specs[i] = "scored")
                /\ codecs[turn].sound => results[turn][i].passed
      BY <1>2, LineAssumption DEF EvaluationInv, TypeOK, Progress, Running
    <2>3. stream \in 1..Len(specs) /\ Len(specs) \in Nat
      BY SpecsShape DEF EvaluationInv, TypeOK
    <2>4. Result(passed) \in StreamResult
      BY <2>3 DEF Result, StreamResult
    <2>5. /\ rs \in Seq(StreamResult) /\ Len(rs) = stream /\ rs[stream] = Result(passed)
          /\ \A i \in 1..(stream - 1) : rs[i] = results[turn][i]
      BY <2>2, <2>3, <2>4
    <2>6. \A i \in 1..stream :
             /\ rs[i].stream = i
             /\ rs[i].scored = (specs[i] = "scored")
             /\ codecs[turn].sound => rs[i].passed
      <3>1. /\ Result(passed).stream = stream
            /\ Result(passed).scored = (specs[stream] = "scored")
            /\ codecs[turn].sound => Result(passed).passed
        BY <1>1, <1>2, Zenon DEF Result
      <3>2. \A i \in 1..stream : i \in 1..(stream - 1) \/ i = stream
        BY <2>3
      <3>. QED
        BY <2>2, <2>5, <3>1, <3>2
    <2>. HIDE DEF rs
    <2>7. results'[turn] = rs /\ \A c \in DOMAIN codecs : c # turn => results'[c] = results[c]
      BY <2>1, <2>2
    <2>8. SandboxInv'
      BY <1>2, ForgetInv DEF EvaluationInv
    <2>9. TypeOK'
      <3>1. SandboxTypeOK'
        BY <2>8 DEF SandboxInv
      <3>2. stream + 1 \in 1..Len(specs)
        BY <1>4, <2>3
      <3>3. results' \in [DOMAIN codecs -> Seq(StreamResult)]
        BY <2>1, <2>2, <2>5
      <3>. QED
        BY <1>2, <2>1, <3>1, <3>2, <3>3 DEF EvaluationInv, TypeOK
    <2>10. Progress'
      <3>1. stream' - 1 = stream
        BY <2>1, <2>3
      <3>2. \A c \in DOMAIN codecs : c > turn => results'[c] = <<>>
        <4>. SUFFICES ASSUME NEW c \in DOMAIN codecs, c > turn
                      PROVE  results'[c] = <<>>
          OBVIOUS
        <4>1. c # turn
          BY <1>2, LineAssumption DEF EvaluationInv, TypeOK
        <4>. QED
          BY <2>7, <4>1 DEF EvaluationInv, Progress
      <3>3. /\ \A c \in DOMAIN codecs : c >= turn => verdict[c] = "none"
            /\ round = "running" => turn <= Len(codecs)
        BY DEF EvaluationInv, Progress
      <3>. QED
        BY <1>2, <2>1, <2>5, <2>6, <2>7, <3>1, <3>2, <3>3 DEF Progress
    <2>11. SandboxOfTheTurn'
      BY <1>2 DEF SandboxOfTheTurn, Forget
    <2>12. VerdictByScoredStreams'
      <3>. SUFFICES ASSUME NEW c \in DOMAIN codecs, verdict[c] # "none"
                    PROVE  results'[c] = results[c]
        BY <1>2, <2>1 DEF EvaluationInv, VerdictByScoredStreams
      <3>1. c # turn
        BY <2>2 DEF EvaluationInv, Progress, TypeOK
      <3>. QED
        BY <2>7, <3>1
    <2>13. FullGpuCondemnsNobody'
      BY <1>2, <2>1 DEF EvaluationInv, FullGpuCondemnsNobody
    <2>. QED
      BY <1>2, <2>8, <2>9, <2>10, <2>11, <2>12, <2>13 DEF EvaluationInv
  <1>. QED
    BY <1>3, <1>4

LEMMA StreamFailsInv ==
  ASSUME EvaluationInv, StreamFails
  PROVE  EvaluationInv'
  <1>1. /\ Running /\ result = "error" /\ Forget /\ UNCHANGED <<codecs, specs>>
        /\ blame' = [blame EXCEPT ![turn] = cause]
        /\ NextCodec(Append(results[turn], Result(FALSE)))
    BY DEF StreamFails, CodecFaults, FailedResults
  <1>2. codec = codecs[turn] /\ turn \in DOMAIN codecs
    <2>1. codec = codecs[turn] /\ turn <= Len(codecs)
      BY <1>1 DEF EvaluationInv, SandboxOfTheTurn, Running
    <2>2. codecs \in Seq(Codec) /\ turn \in 1..(Len(codecs) + 1)
      BY LineAssumption DEF EvaluationInv, TypeOK
    <2>. QED
      BY <2>1, <2>2
  <1>3. /\ cause \in Cause
        /\ codec.sound => cause \in {"command", "unchecked", "capped", "late"}
    BY <1>1 DEF EvaluationInv, SandboxInv, SandboxTypeOK, Faultless
  <1>4. /\ blame' \in [DOMAIN codecs -> Cause]
        /\ \A c \in DOMAIN codecs : c # turn => blame'[c] = blame[c]
        /\ blame'[turn] = cause
    BY <1>1, <1>2, <1>3 DEF EvaluationInv, TypeOK
  <1>5. codecs[turn].sound => blame'[turn] \in {"command", "unchecked", "capped", "late"}
    BY <1>2, <1>3, <1>4
  <1>. QED
    BY <1>1, <1>4, <1>5, NextCodecInv

LEMMA RoundAbortsInv ==
  ASSUME EvaluationInv, RoundAborts
  PROVE  EvaluationInv'
  <1>1. SandboxInv'
    BY ForgetInv DEF EvaluationInv, RoundAborts, Running
  <1>2. SandboxTypeOK'
    BY <1>1 DEF SandboxInv
  <1>3. SandboxOfTheTurn'
    BY DEF SandboxOfTheTurn, RoundAborts, Forget, Running
  <1>. QED
    BY <1>1, <1>2, <1>3
    DEF EvaluationInv, RoundAborts, TypeOK, Progress, VerdictByScoredStreams,
        FullGpuCondemnsNobody

LEMMA PrepareFailsInv ==
  ASSUME EvaluationInv, PrepareFails
  PROVE  EvaluationInv'
  <1>1. SandboxInv'
    BY SandboxStutterInv DEF EvaluationInv, PrepareFails
  <1>2. SandboxTypeOK'
    BY <1>1 DEF SandboxInv
  <1>3. SandboxOfTheTurn'
    BY DEF SandboxOfTheTurn, PrepareFails, Running, sandbox
  <1>. QED
    BY <1>1, <1>2, <1>3
    DEF EvaluationInv, PrepareFails, TypeOK, Progress, VerdictByScoredStreams,
        FullGpuCondemnsNobody

LEMMA EvaluationNext ==
  ASSUME EvaluationInv, [Next]_vars
  PROVE  EvaluationInv'
  <1>1. CASE SandboxNext /\ UNCHANGED loop
    BY <1>1, SandboxStepInv
  <1>2. CASE Begin
    BY <1>2, LaunchedInv DEF Begin, loop
  <1>3. CASE Compressed
    BY <1>3, LaunchedInv DEF Compressed
  <1>4. CASE StreamDone
    BY <1>4, StreamDoneInv
  <1>5. CASE StreamFails
    BY <1>5, StreamFailsInv
  <1>6. CASE RoundAborts
    BY <1>6, RoundAbortsInv
  <1>9. CASE PrepareFails
    BY <1>9, PrepareFailsInv
  <1>7. CASE NextRound
    <2>1. PICK line \in Line : StartRound(line)
      BY <1>7 DEF NextRound, EvaluationInv, TypeOK
    <2>. QED
      BY <1>7, <2>1, StartRoundInv DEF NextRound
  <1>8. CASE UNCHANGED vars
    <2>1. SandboxInv'
      BY <1>8, SandboxStutterInv DEF EvaluationInv, vars
    <2>2. SandboxTypeOK'
      BY <2>1 DEF SandboxInv
    <2>. QED
      BY <1>8, <2>1, <2>2
      DEF EvaluationInv, TypeOK, Progress, SandboxOfTheTurn, VerdictByScoredStreams,
          FullGpuCondemnsNobody, vars, loop, sandbox
  <1>. QED
    BY <1>1, <1>2, <1>3, <1>4, <1>5, <1>6, <1>7, <1>8, <1>9 DEF Next

-----------------------------------------------------------------------------
(* Theorems.                                                               *)

LEMMA EvaluationInvariance == Spec => []EvaluationInv
  BY EvaluationInit, EvaluationNext, PTL DEF Spec

\* Every variable of the evaluation and of the sandbox keeps its type, for every set of
\* line-ups and every number of codecs.
THEOREM TypeCorrectness == Spec => []TypeOK
  <1>1. EvaluationInv => TypeOK
    BY DEF EvaluationInv
  <1>. QED
    BY <1>1, EvaluationInvariance, PTL

\* No input is ever where a container with a network can read it (_run_networked_lifecycle
\* and _run_container), whatever commands fail or are carried out late.
THEOREM InputIsSealed == Spec => []InputOnlyWhenSealed
  <1>1. EvaluationInv => InputOnlyWhenSealed
    BY DEF EvaluationInv, SandboxInv, Sealed, InputOnlyWhenSealed
  <1>. QED
    BY <1>1, EvaluationInvariance, PTL

\* Only Leave with a container or a network adds to what is left, and the daemon, which
\* does not move the runner.
LEMMA SandboxLeaves ==
  ASSUME SandboxInv, SandboxNext
  PROVE  /\ pc' # pc /\ stray' # stray => failed' \cap {"time_out", "rm", "kill"} # {}
         /\ ~stray_network /\ stray_network' =>
               failed' \cap {"time_out", "rm", "network_rm"} # {}
  <1>. stray \in {"none", "creating", "up"}
    BY DEF SandboxInv, SandboxTypeOK
  <1>a. ASSUME NEW r, NEW n, NEW c \in {"none", "dead"}, Leave(r, c, n)
        PROVE  stray' = stray /\ stray_network' = (stray_network \/ n # "none")
    BY <1>a DEF Leave, Remains, Worse
  <1>b. ASSUME UNCHANGED <<stray, stray_network>>
        PROVE  stray' = stray /\ ~(~stray_network /\ stray_network')
    BY <1>b DEF SandboxInv, SandboxTypeOK
  <1>c. ASSUME NEW r, Leave(r, "none", "none")
        PROVE  stray' = stray /\ ~(~stray_network /\ stray_network')
    BY <1>c, <1>a DEF SandboxInv, SandboxTypeOK
  <1>1. CASE LocalExec
    <2>1. \E r \in {"ok", "error", "raised"} : Leave(r, "none", "none")
      BY <1>1 DEF LocalExec
    <2>. QED
      BY <2>1, <1>c
  <1>2. CASE CheckGpuMemory
    <2>1. \/ \E r \in {"no_room", "raised"} : Leave(r, "none", "none")
          \/ UNCHANGED <<stray, stray_network>>
      BY <1>2 DEF CheckGpuMemory
    <2>. QED
      BY <2>1, <1>b, <1>c
  <1>3. CASE StrayStarts
    BY <1>3 DEF StrayStarts
  <1>4. CASE WatchdogTriggers \/ WatchdogKills \/ ContainerStarts \/ AwaitWarmup \/ Seal
             \/ Kill \/ WriteInput \/ Exec \/ RunDetached \/ OutputUnreadable
    BY <1>4, <1>b DEF WatchdogTriggers, WatchdogKills, ContainerStarts, AwaitWarmup, Seal, Kill,
                WriteInput, Exec, RunDetached, OutputUnreadable
  <1>5. CASE PlainReturns
    BY <1>5, <1>a DEF PlainReturns
  <1>6. CASE PlainTimesOut
    <2>1. CASE Leave("error", "none", "none")
      BY <2>1, <1>a
    <2>2. CASE ~Leave("error", "none", "none")
      <3>1. failed' \cap {"time_out", "kill"} # {}
        BY <1>6, <2>2 DEF PlainTimesOut, CommandFails
      <3>2. stray_network' = stray_network
        BY <1>6 DEF PlainTimesOut, Leave, SandboxInv, SandboxTypeOK
      <3>. QED
        BY <3>1, <3>2
    <2>. QED
      BY <2>1, <2>2
  <1>7. CASE CreateNetwork
    <2>1. CASE pc' = "run"
      BY <1>7, <2>1 DEF CreateNetwork, Leave
    <2>2. CASE pc' # "run"
      <3>1. PICK time_out \in BOOLEAN, n \in {"none", "idle"} :
               /\ n = "none" \/ time_out
               /\ CommandFails(time_out) /\ Leave("error", "none", n)
        BY <1>7, <2>2 DEF CreateNetwork
      <3>2. stray' = stray /\ stray_network' = (stray_network \/ n # "none")
        BY <3>1, <1>a
      <3>. QED
        BY <3>1, <3>2 DEF CommandFails, SandboxInv, SandboxTypeOK
    <2>. QED
      BY <2>1, <2>2
  <1>8. CASE Remove
    <2>1. CASE UNCHANGED <<stray, stray_network>>
      BY <2>1
    <2>2. CASE ~UNCHANGED <<stray, stray_network>>
      BY <1>8, <2>2 DEF Remove, CommandFails
    <2>. QED
      BY <2>1, <2>2
  <1>9. CASE RemoveNetwork
    <2>1. CASE failed' = failed /\ network = "attached" /\ container = "up"
      BY <1>9, <2>1 DEF RemoveNetwork, SandboxInv, LateOnlyForCause, CommandFails
    <2>2. CASE /\ failed' = failed /\ ~(network = "attached" /\ container = "up")
               /\ Leave(result, IF container = "creating" THEN "none" ELSE container, "none")
      <3>1. stray_network' = stray_network
        BY <2>2 DEF Leave, SandboxInv, SandboxTypeOK
      <3>2. CASE container = "up"
        BY <1>9, <2>2, <3>1, <3>2 DEF RemoveNetwork, SandboxInv, LateOnlyForCause
      <3>3. CASE container # "up"
        <4>1. (IF container = "creating" THEN "none" ELSE container) \in {"none", "dead"}
          BY <3>3 DEF SandboxInv, SandboxTypeOK
        <4>. QED
          BY <2>2, <3>1, <4>1, <1>a
      <3>. QED
        BY <3>2, <3>3
    <2>3. CASE failed' = failed \cup {"network_rm"} /\ Leave(result, container, network)
      <3>1. CASE container \in {"none", "dead"}
        BY <2>3, <3>1, <1>a
      <3>2. CASE container \in {"up", "creating"}
        BY <1>9, <2>3, <3>2 DEF RemoveNetwork, SandboxInv, LateOnlyForCause
      <3>. QED
        BY <3>1, <3>2 DEF SandboxInv, SandboxTypeOK
    <2>4. CASE CommandFails(TRUE)
      BY <2>4 DEF CommandFails
    <2>. QED
      BY <1>9, <2>1, <2>2, <2>3, <2>4 DEF RemoveNetwork
  <1>. QED
    BY <1>1, <1>2, <1>3, <1>4, <1>5, <1>6, <1>7, <1>8, <1>9 DEF SandboxNext

\* What a phase leaves behind has a command to explain it: one that timed out, or a
\* clean-up that was refused (the finally clauses of runner_docker.py).
THEOREM CleanUp == Spec => LeftOnlyForCause
  <1>. DEFINE Explained ==
         /\ pc' # pc /\ stray' # stray => failed' \cap {"time_out", "rm", "kill"} # {}
         /\ ~stray_network /\ stray_network' =>
               failed' \cap {"time_out", "rm", "network_rm"} # {}
  <1>1. ASSUME EvaluationInv, [Next]_vars
        PROVE  Explained
    <2>1. CASE SandboxNext
      BY <1>1, <2>1, SandboxLeaves DEF EvaluationInv
    <2>2. CASE UNCHANGED <<stray, stray_network>>
      BY <1>1, <2>2 DEF EvaluationInv, SandboxInv, SandboxTypeOK
    <2>3. SandboxNext \/ UNCHANGED <<stray, stray_network>>
      BY <1>1 DEF Next, Begin, PrepareFails, Compressed, StreamDone, StreamFails, RoundAborts,
                  NextRound, Launch, Forget, sandbox, vars
    <2>. QED
      BY <2>1, <2>2, <2>3
  <1>. QED
    BY <1>1, EvaluationInvariance, PTL DEF Spec, LeftOnlyForCause

\* The verdict on a codec is the scored streams' (evaluate_artifact, score_codec), for every
\* set of line-ups.
THEOREM ScoredStreamsDecide == Spec => []VerdictByScoredStreams
  <1>1. EvaluationInv => VerdictByScoredStreams
    BY DEF EvaluationInv
  <1>. QED
    BY <1>1, EvaluationInvariance, PTL

\* A working codec that fails although its memory was checked has a failed command or a
\* late container to blame (InsufficientGpuMemoryError, eval/runner.py).
THEOREM WorkingCodecsPass == Spec => []FullGpuCondemnsNobody
  <1>1. EvaluationInv => FullGpuCondemnsNobody
    BY DEF EvaluationInv
  <1>. QED
    BY <1>1, EvaluationInvariance, PTL
=============================================================================
