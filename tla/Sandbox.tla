-------------------------------- MODULE Sandbox --------------------------------
(***************************************************************************)
(* One phase of one stream, compress or decompress, in a fresh sandbox:    *)
(* eval/runner_docker.py (DockerRunner._execute and the two lifecycles     *)
(* under it, the disk watchdog, the GPU memory check) and, for a host      *)
(* without Docker, eval/runner.py (LocalSubprocessRunner._exec).           *)
(*                                                                         *)
(* Every docker command may fail or time out, those that clean up too; a   *)
(* command that timed out may still be carried out by the daemon later, so *)
(* a container can come up after the run that asked for it has given up on *)
(* it.  The input and the output are files, and may fail as files do.      *)
(***************************************************************************)

\* What a codec's artifact is: does its code work (in time and in the memory it
\* declares), does its manifest name an image, what is its vram_gb: not declared,
\* "fits" a card with the headroom and the reserve, or "large": it does not.
Codec == [sound : BOOLEAN, image : BOOLEAN, vram : {"none", "fits", "large"}]

VARIABLES
    runner,        \* "docker" or "local", --runner
    codec,         \* the codec this phase runs
    pc,            \* the next statement of the runner; "idle" between phases
    container,     \* the phase's container, as the daemon has it
    network,       \* its warm-up network: "none", "attached" to it or "idle"
    input,         \* whether in.bin lies in the mounted scratch directory
    triggered,     \* watchdog.triggered
    result,        \* how the phase ended
    stray,         \* the worst container an earlier phase left behind: "up" if it
                   \* holds memory of the card, "creating" if it does not, or not yet
    stray_network, \* whether an earlier phase left a network behind
    failed,        \* history: commands of this phase that did not do their work:
                   \* "time_out" (any of them), or a clean-up that was refused
    cause          \* history: what made the phase fail, if the codec did not

sandbox == <<runner, codec, pc, container, network, input, triggered, result,
             stray, stray_network, failed, cause>>

Failure == {"time_out", "kill", "rm", "network_rm"}
Cause == {"none", "command", "unchecked", "capped", "full", "late"}

SandboxTypeOK ==
    /\ runner \in {"docker", "local"} /\ codec \in Codec
    /\ pc \in {"idle", "check", "local", "plain", "network", "run", "warmup", "seal", "kill",
               "input", "exec", "remove", "remove_network"}
    /\ container \in {"none", "creating", "up", "dead"}
    /\ network \in {"none", "attached", "idle"}
    /\ input \in BOOLEAN /\ triggered \in BOOLEAN
    /\ result \in {"none", "ok", "error", "no_room", "raised"}
    /\ stray \in {"none", "creating", "up"} /\ stray_network \in BOOLEAN
    /\ failed \subseteq Failure
    /\ cause \in Cause

SandboxInit ==
    /\ runner \in {"docker", "local"} /\ codec \in Codec
    /\ pc = "idle" /\ container = "none" /\ network = "none" /\ input = FALSE
    /\ triggered = FALSE /\ result = "none"
    /\ stray = "none" /\ stray_network = FALSE
    /\ failed = {} /\ cause = "none"

-----------------------------------------------------------------------------
(* Starting and leaving a phase. *)

\* compress and decompress: a scratch directory of their own, then _execute.
Launch(c) ==
    /\ pc = "idle"
    /\ codec' = c /\ pc' = IF runner = "docker" THEN "check" ELSE "local"
    /\ container' = "none" /\ network' = "none" /\ input' = FALSE
    /\ triggered' = FALSE /\ result' = "none"
    /\ failed' = {} /\ cause' = "none"
    /\ UNCHANGED <<runner, stray, stray_network>>

Worse(a, b) ==
    IF "up" \in {a, b} THEN "up" ELSE IF "creating" \in {a, b} THEN "creating" ELSE "none"

\* A running container holds memory of the card, or none so far.
Remains(c) == IF c = "up" THEN {"creating", "up"} ELSE {c}

\* The phase returns or raises; the scratch directory goes, whatever still
\* exists of container c and of network n stays with the daemon.
Leave(r, c, n) ==
    /\ pc' = "idle" /\ result' = r /\ input' = FALSE
    /\ container' = "none" /\ network' = "none"
    /\ stray' \in {Worse(stray, k) : k \in Remains(c)}
    /\ stray_network' = (stray_network \/ n # "none")

\* A command failed (it answered with an error, or nobody answered in time).
CommandFails(time_out) ==
    /\ failed' = IF time_out THEN failed \cup {"time_out"} ELSE failed
    /\ cause' = "command"

\* LocalSubprocessRunner: it refuses to run without network isolation; a failed
\* write of the input is not a RunnerError.
LocalExec ==
    /\ pc = "local"
    /\ \/ Leave("ok", "none", "none") /\ cause' = cause
       \/ Leave("error", "none", "none") /\ ~codec.sound /\ cause' = cause
       \/ Leave("error", "none", "none") /\ cause' = "command"
       \/ Leave("raised", "none", "none") /\ cause' = cause
    /\ UNCHANGED <<runner, codec, triggered, failed>>

\* What _check_gpu_memory makes of what it reads: "full" (too little is free), or
\* it passes, having compared what the codec declares ("none"), only the size of
\* the card less the reserve ("capped") or nothing ("unchecked").  A container on
\* the card leaves less than any codec needs; without the size of the card a large
\* requirement is not capped, and may or may not be met by an idle card.
GpuMemory ==
    IF codec.vram = "none" THEN {"unchecked"}
    ELSE {"unchecked"} \cup
         CASE stray = "up" -> {"full"}
           [] stray # "up" /\ codec.vram = "fits" -> {"none"}
           [] stray # "up" /\ codec.vram = "large" -> {"capped", "none", "full"}

\* _execute: the check, then the input for a codec without image; the write of it
\* may fail, which is not a RunnerError.
CheckGpuMemory ==
    /\ pc = "check"
    /\ cause' \in GpuMemory
    /\ \/ cause' = "full" /\ Leave("no_room", "none", "none")
       \/ cause' # "full" /\ ~codec.image /\ Leave("raised", "none", "none")
       \/ /\ cause' # "full"
          /\ pc' = IF codec.image THEN "network" ELSE "plain"
          /\ input' = ~codec.image
          /\ container' = IF codec.image THEN "none" ELSE "creating"
          /\ UNCHANGED <<network, result, stray, stray_network>>
    /\ UNCHANGED <<runner, codec, triggered, failed>>

\* compress and decompress read the output once the sandbox is gone: an error that
\* is no RunnerError if it cannot be read.
OutputUnreadable ==
    /\ pc = "idle" /\ result = "ok"
    /\ result' = "raised"
    /\ UNCHANGED <<runner, codec, pc, container, network, input, triggered, stray,
                   stray_network, failed, cause>>

\* The daemon brings up a container whose creation the client has given up on, or
\* one that was left running takes memory of the card.
StrayStarts ==
    /\ stray = "creating" /\ stray' = "up"
    /\ cause' = IF cause = "none" /\ pc \notin {"idle", "check", "local"} THEN "late" ELSE cause
    /\ UNCHANGED <<runner, codec, pc, container, network, input, triggered, result,
                   stray_network, failed>>

\* The entrypoint's own exit: a working codec succeeds, unless it does not find the
\* memory it declares: another container has it, or nobody looked.
Succeeds == container = "up"
Crashes == container = "up" =>
    ~codec.sound \/ stray = "up" \/ cause \in {"unchecked", "capped"}

-----------------------------------------------------------------------------
(* The watchdog: two steps, since the container may end in between. *)

WatchdogTriggers ==
    /\ pc \in {"plain", "warmup", "seal", "exec"} /\ container = "up"
    /\ ~codec.sound /\ ~triggered
    /\ triggered' = TRUE
    /\ UNCHANGED <<runner, codec, pc, container, network, input, result, stray,
                   stray_network, failed, cause>>

WatchdogKills ==
    /\ triggered /\ container = "up"
    /\ container' = "dead"
    /\ UNCHANGED <<runner, codec, pc, network, input, triggered, result, stray,
                   stray_network, failed, cause>>

-----------------------------------------------------------------------------
(* _run_container: docker run --rm --network none, the input in place. *)

\* The daemon brings the container up, perhaps after the client has given up:
\* then it joins the warm-up network, if that still exists.
ContainerStarts ==
    /\ container = "creating" /\ container' = "up"
    /\ network' = IF network = "idle" THEN "attached" ELSE network
    /\ UNCHANGED <<runner, codec, pc, input, triggered, result, stray,
                   stray_network, failed, cause>>

\* The call returns with the container's exit status, or fails before it is up.
PlainReturns ==
    /\ pc = "plain"
    /\ \/ Succeeds /\ Leave("ok", "none", "none") /\ cause' = cause
       \/ container # "creating" /\ Crashes /\ Leave("error", "none", "none") /\ cause' = cause
       \/ container = "creating" /\ Leave("error", "none", "none") /\ cause' = "command"
    /\ UNCHANGED <<runner, codec, triggered, failed>>

\* The wall clock runs out.  The kill that follows is best effort, its status is
\* not looked at: it does nothing to a container that is still being created (its
\* image is pulled), and one that it fails to kill goes on.
PlainTimesOut ==
    /\ pc = "plain"
    /\ \/ container = "creating" /\ CommandFails(TRUE) /\ Leave("error", "creating", "none")
       \/ /\ container # "creating" /\ ~codec.sound /\ cause' = cause
          /\ \/ Leave("error", "none", "none") /\ UNCHANGED failed
             \/ container = "up" /\ failed' = failed \cup {"kill"} /\ Leave("error", "up", "none")
    /\ UNCHANGED <<runner, codec, triggered>>

-----------------------------------------------------------------------------
(* _run_networked_lifecycle: warm up with network, seal, run. *)

\* docker network create, outside the try.
CreateNetwork ==
    /\ pc = "network"
    /\ \/ /\ pc' = "run" /\ network' = "idle"
          /\ UNCHANGED <<container, input, result, stray, stray_network, failed, cause>>
       \/ \E time_out \in BOOLEAN, n \in {"none", "idle"} :
             /\ n = "none" \/ time_out
             /\ CommandFails(time_out) /\ Leave("error", "none", n)
    /\ UNCHANGED <<runner, codec, triggered>>

\* Mutant: docker run -d stands outside the try.
RunDetached_OutsideTry ==
    /\ pc = "run"
    /\ \/ /\ container' = "up" /\ network' = "attached" /\ pc' = "warmup"
          /\ UNCHANGED <<input, result, stray, stray_network, failed, cause>>
       \/ \E time_out \in BOOLEAN :
             CommandFails(time_out) /\ Leave("error", "none", network)
    /\ UNCHANGED <<runner, codec, triggered>>

RunDetached ==
    /\ pc = "run"
    /\ \/ /\ container' = "up" /\ network' = "attached" /\ pc' = "warmup"
          /\ UNCHANGED <<result, failed, cause>>
       \/ \E time_out \in BOOLEAN :
             /\ CommandFails(time_out)
             /\ container' \in (IF time_out THEN {"none", "creating"} ELSE {"none"})
             /\ result' = "error" /\ pc' = "remove" /\ UNCHANGED network
    /\ UNCHANGED <<runner, codec, input, triggered, stray, stray_network>>

\* _await_warmup: ready, or failed or not ready by the deadline.
AwaitWarmup ==
    /\ pc = "warmup"
    /\ \/ Succeeds /\ pc' = "seal" /\ UNCHANGED <<result, cause>>
       \/ Crashes /\ pc' = "kill" /\ result' = "error" /\ UNCHANGED cause
       \/ pc' = "kill" /\ result' = "error" /\ cause' = "command"
    /\ UNCHANGED <<runner, codec, container, network, input, triggered, stray, stray_network,
                   failed>>

\* Mutant: the disconnect is not checked.
Seal_Unchecked ==
    /\ pc = "seal" /\ pc' = "input"
    /\ network' \in {"attached", "idle"}
    /\ UNCHANGED <<runner, codec, container, input, triggered, result, stray,
                   stray_network, failed, cause>>

Seal ==
    /\ pc = "seal"
    /\ \/ pc' = "input" /\ network' = "idle" /\ UNCHANGED <<result, failed, cause>>
       \/ \E time_out \in BOOLEAN :
             /\ CommandFails(time_out) /\ result' = "error" /\ pc' = "kill"
             /\ network' \in (IF time_out THEN {"attached", "idle"} ELSE {"attached"})
    /\ UNCHANGED <<runner, codec, container, input, triggered, stray, stray_network>>

\* The kill after a failed warm-up or seal: its status is ignored, its time-out
\* is not a RunnerError and takes the place of the one under way.
Kill ==
    /\ pc = "kill" /\ pc' = "remove"
    /\ \/ /\ container' \in {container, IF container = "up" THEN "dead" ELSE container}
          /\ UNCHANGED <<result, failed, cause>>
       \/ CommandFails(TRUE) /\ result' = "raised" /\ UNCHANGED container
    /\ UNCHANGED <<runner, codec, network, input, triggered, stray, stray_network>>

\* The write of in.bin; an error (the disk is full, the codec put a directory
\* there), with or without part of it written, is not a RunnerError.
WriteInput ==
    /\ pc = "input"
    /\ \/ pc' = "exec" /\ input' = TRUE /\ UNCHANGED result
       \/ pc' = "remove" /\ input' \in BOOLEAN /\ result' = "raised"
    /\ UNCHANGED <<runner, codec, container, network, triggered, stray, stray_network,
                   failed, cause>>

\* docker exec of the entrypoint: its status, or the wall clock.  The watchdog
\* only words the message: an entrypoint that ended well in spite of it is fine.
Exec ==
    /\ pc = "exec" /\ pc' = "remove"
    /\ \/ Succeeds /\ result' = "ok" /\ UNCHANGED cause
       \/ Crashes /\ result' = "error" /\ UNCHANGED cause
       \/ result' = "error" /\ cause' = "command"
    /\ UNCHANGED <<runner, codec, container, network, input, triggered, stray, stray_network,
                   failed>>

\* The finally clause: rm -f, which finds nothing of a container that is still
\* being created.  Its status is ignored; its time-out is raised, and the network
\* is not removed either.
Remove ==
    /\ pc = "remove"
    /\ \/ /\ container' = IF container = "creating" THEN "creating" ELSE "none"
          /\ network' = IF network = "attached" THEN "idle" ELSE network
          /\ pc' = "remove_network"
          /\ UNCHANGED <<input, result, stray, stray_network, failed, cause>>
       \/ /\ failed' = failed \cup {"rm"} /\ pc' = "remove_network"
          /\ UNCHANGED <<container, network, input, result, stray, stray_network, cause>>
       \/ /\ CommandFails(TRUE)
          /\ \E c \in {"none", container} :
                /\ container = "creating" => c = container
                /\ Leave("raised", c, network)
    /\ UNCHANGED <<runner, codec, triggered>>

\* network rm: refused if a running container is attached, which came up in between
\* or was not removed; its status is ignored.  A container that has not started does
\* not start without its network.
RemoveNetwork ==
    /\ pc = "remove_network"
    /\ \/ /\ IF network = "attached" /\ container = "up"
             THEN Leave(result, container, network)
             ELSE Leave(result, IF container = "creating" THEN "none" ELSE container, "none")
          /\ UNCHANGED <<failed, cause>>
       \/ /\ failed' = failed \cup {"network_rm"}
          /\ Leave(result, container, network) /\ cause' = cause
       \/ CommandFails(TRUE) /\ Leave("raised", container, network)
    /\ UNCHANGED <<runner, codec, triggered>>

SandboxNext ==
    \/ LocalExec \/ CheckGpuMemory \/ OutputUnreadable \/ StrayStarts
    \/ WatchdogTriggers \/ WatchdogKills
    \/ ContainerStarts \/ PlainReturns \/ PlainTimesOut
    \/ CreateNetwork \/ RunDetached \/ AwaitWarmup \/ Seal \/ Kill
    \/ WriteInput \/ Exec \/ Remove \/ RemoveNetwork

-----------------------------------------------------------------------------
(* Properties *)

\* The warm-up-then-seal lifecycle (_run_networked_lifecycle): no byte of the
\* evaluation is where a container can read it while that container, or one
\* that the daemon may still bring up for this phase, has a network.
InputOnlyWhenSealed == input => network # "attached"

\* Clean-up (the finally clauses and --rm): a codec that crashes, hangs, fills the
\* disk or never gets ready, and an error of the runner, leave nothing behind.  What a
\* phase leaves has a command to explain it: a container, a command that timed out, or
\* an rm or a kill that was refused; a network, one that timed out, or an rm or a
\* network rm that was refused.
LeftOnlyForCause ==
    [][/\ pc' # pc /\ stray' # stray => failed' \cap {"time_out", "rm", "kill"} # {}
       /\ ~stray_network /\ stray_network' =>
             failed' \cap {"time_out", "rm", "network_rm"} # {}]_sandbox
=============================================================================
