---------------------------- MODULE WorkerProcess ----------------------------
(***************************************************************************)
(* The worker as a process: serve() of ai_processor_server.py, from the       *)
(* choice of a backend to the end of its finally block, with one call of a    *)
(* client and one VOD job on it, interrupted (SIGINT), terminated (SIGTERM)    *)
(* or killed at any moment.                                                   *)
(*                                                                           *)
(* SIGINT is asyncio's: it cancels serve(), and again what is left of it; a    *)
(* worker that a script starts in the background ignores it.  SIGTERM has no   *)
(* handler.  Constructors run in threads, which nothing cancels.  What calls    *)
(* and jobs do, and admission while the worker serves, is in LiveStreams,      *)
(* VodService and Admission.                                                  *)
(***************************************************************************)
EXTENDS Naturals

CONSTANT MaxInterrupts      \* bound: SIGINTs of one process

ASSUME InterruptsAssumption == MaxInterrupts \in Nat

VARIABLES
    stage,          \* where serve() is, "off" without a process
    finds,          \* what RuntimeManager will find, NoHost when it has looked
    backend,        \* "tensorrt" or "pytorch", "none" before it is chosen
    warmup,         \* face_anonymization.warmup
    ignores,        \* SIGINT is ignored
    thread,         \* what a thread still makes for a serve() that was cancelled
    hands,          \* what serve()'s variables name: runtime, adaface, bundle
    alive,          \* what they own that is not closed; the bundle: its executors
    frozen,         \* whose objects the collector leaves out: "none", "ours", "theirs"
    accepting,      \* set_accepting of both servicers
    up,             \* the server takes calls
    call,           \* an inference of a client's call: "none", "running", "settling"
    job,            \* "none", "running", "asked" to pause, or how it ended
    interrupts,     \* SIGINTs so far
    ending,         \* why serve() is in its finally block
    ended           \* how the last process has ended, and what it has left open

worker == <<stage, finds, backend, warmup, ignores>>
owned == <<thread, hands, alive, frozen>>
served == <<accepting, up, call, job>>
ends == <<interrupts, ending, ended>>
workerVars == <<worker, owned, served, ends>>

Startup == {"loading", "probing", "recognizer", "warming", "opening", "starting"}
Finally == {"draining", "stopping", "closing jobs", "closing calls", "closing recognizer",
            "closing runtime"}

\* TensorRT is there with a GPU; what is at config.engine; a .pt checkpoint.
Host == [supported : BOOLEAN, engine : {"none", "valid", "refused", "of another version"},
         checkpoint : BOOLEAN, asks : {"auto", "tensorrt", "pytorch"}]
NoHost == [supported |-> FALSE, engine |-> "none", checkpoint |-> FALSE, asks |-> "auto"]

WorkerInit ==
    /\ stage = "off" /\ finds = NoHost /\ backend = "none"
    /\ warmup = FALSE /\ ignores = FALSE
    /\ thread = "none" /\ hands = {} /\ alive = {} /\ frozen = "none"
    /\ accepting = FALSE /\ up = FALSE /\ call = "none" /\ job = "none"
    /\ interrupts = 0 /\ ending = "none" /\ ended = [how |-> "none", left |-> {}]

-----------------------------------------------------------------------------
(* serve() up to wait_for_termination *)

Launch(background) ==
    /\ stage = "off"
    /\ stage' = "loading" /\ finds' \in Host /\ backend' = "none"
    /\ warmup' \in BOOLEAN /\ ignores' = background
    /\ hands' = {} /\ frozen' \in {"none", "theirs"}
    /\ job' = "none" /\ interrupts' = 0 /\ ending' = "none"
    /\ UNCHANGED <<thread, alive, accepting, up, call, ended>>

\* select_runtime: an engine that is there is used or refused, never passed over.
UsesEngine == finds.asks = "tensorrt" \/ (finds.asks = "auto" /\ finds.supported /\ finds.engine # "none")

Backend ==
    IF UsesEngine /\ finds.supported /\ finds.engine = "valid" THEN {"tensorrt"}
    ELSE IF ~UsesEngine /\ finds.checkpoint THEN {"pytorch"}
    ELSE {}

\* The finally block begins: whatever comes before its first await.
FinallyBegins(why) ==
    /\ ending' = why
    /\ frozen' = IF frozen = "ours" THEN "none" ELSE frozen
    /\ finds' = NoHost
    /\ IF "bundle" \in hands
       THEN /\ stage' = "draining"
            /\ accepting' = FALSE
            /\ job' = IF job = "running" THEN "asked" ELSE job
       ELSE /\ stage' = "closing recognizer"
            /\ UNCHANGED <<accepting, job>>

\* RuntimeManager: one instance, the artifact's hash, the model, its warm-up.
RuntimeReady ==
    /\ stage = "loading"
    /\ backend' \in Backend
    /\ stage' = "probing" /\ finds' = NoHost
    /\ hands' = {"runtime"} /\ alive' = {"runtime"}
    /\ UNCHANGED <<warmup, ignores, thread, frozen, served, ends>>

TrackerProbed ==
    /\ stage = "probing"
    /\ stage' = "recognizer"
    /\ UNCHANGED <<finds, backend, warmup, ignores, owned, served, ends>>

\* AdaFaceRuntime, which only remembers that it could not load; then, without
\* an await, build_grpc_server.
ServerBuilt ==
    /\ stage = "recognizer"
    /\ stage' = IF warmup THEN "warming" ELSE "opening"
    /\ hands' = {"runtime", "adaface", "bundle"}
    /\ alive' = {"runtime", "adaface", "executors"}
    /\ UNCHANGED <<finds, backend, warmup, ignores, thread, frozen, served, ends>>

\* The port is taken, or the certificate not readable.
BindFails ==
    /\ stage = "recognizer"
    /\ FinallyBegins("failed")
    /\ hands' = {"runtime", "adaface"} /\ alive' = {"runtime", "adaface"}
    /\ UNCHANGED <<backend, warmup, ignores, thread, up, call, interrupts, ended>>

\* The face models are warm: StartupGc.freeze, unless others have frozen.
FacesWarm ==
    /\ stage = "warming"
    /\ stage' = "opening"
    /\ frozen' = IF frozen = "none" THEN "ours" ELSE frozen
    /\ UNCHANGED <<finds, backend, warmup, ignores, thread, hands, alive, served, ends>>

\* set_serving(True), and server.start().
Opened ==
    /\ stage = "opening"
    /\ stage' = "starting" /\ accepting' = TRUE
    /\ UNCHANGED <<finds, backend, warmup, ignores, owned, up, call, job, ends>>

Started ==
    /\ stage = "starting"
    /\ stage' = "serving" /\ up' = TRUE
    /\ UNCHANGED <<finds, backend, warmup, ignores, owned, accepting, call, job, ends>>

\* Any of this raises.
StartupFails ==
    /\ stage \in Startup
    /\ FinallyBegins("failed")
    /\ UNCHANGED <<backend, warmup, ignores, thread, hands, alive, up, call, interrupts, ended>>

-----------------------------------------------------------------------------
(* Calls and jobs *)

CallBegins ==
    /\ up /\ accepting /\ call = "none"
    /\ call' = "running"
    /\ UNCHANGED <<worker, owned, accepting, up, job, ends>>

CallEnds ==
    /\ call # "none"
    /\ call' = "none"
    /\ UNCHANGED <<worker, owned, accepting, up, job, ends>>

JobBegins ==
    /\ up /\ accepting /\ job \notin {"running", "asked"}
    /\ job' = "running"
    /\ UNCHANGED <<worker, owned, accepting, up, call, ends>>

\* It is done or has failed; or it has come to a frame after it was asked.
JobEnds ==
    /\ \/ job \in {"running", "asked"} /\ job' = "over"
       \/ job = "asked" /\ job' = "paused"
    /\ UNCHANGED <<worker, owned, accepting, up, call, ends>>

-----------------------------------------------------------------------------
(* The finally block *)

Moves(from, to) == stage = from /\ stage' = to /\ UNCHANGED <<finds, backend, warmup, ignores>>

\* VodProcessorServicer.drain: all jobs are over, or its time is.
JobsDrained ==
    /\ Moves("draining", "stopping")
    /\ UNCHANGED <<owned, served, ends>>

\* server.stop: calls have their grace and are cancelled, but an inference is
\* waited for.
ServerStops ==
    /\ Moves("stopping", "closing jobs")
    /\ up' = FALSE
    /\ call' \in {"none", IF call = "none" THEN "none" ELSE "settling"}
    /\ UNCHANGED <<owned, accepting, job, ends>>

\* Mutant of JobsClosed: a job that would not pause is left to itself.
JobsLeft ==
    /\ Moves("closing jobs", "closing calls")
    /\ UNCHANGED <<owned, served, ends>>

\* VodProcessorServicer.close
JobsClosed ==
    /\ Moves("closing jobs", "closing calls")
    /\ job' = IF job \in {"running", "asked"} THEN "cancelled" ELSE job
    /\ UNCHANGED <<owned, accepting, up, call, ends>>

\* AiProcessorServicer.close: inferences settle, and its executors end, the
\* one that still warms up too.
CallsClosed ==
    /\ Moves("closing calls", "closing recognizer")
    /\ call = "none" /\ thread # "warming"
    /\ alive' = alive \ {"executors"}
    /\ UNCHANGED <<thread, hands, frozen, served, ends>>

RecognizerClosed ==
    /\ Moves("closing recognizer", "closing runtime")
    /\ alive' = alive \ {"adaface"}
    /\ UNCHANGED <<thread, hands, frozen, served, ends>>

RuntimeClosed ==
    /\ Moves("closing runtime", "leaving")
    /\ alive' = alive \ {"runtime"}
    /\ UNCHANGED <<thread, hands, frozen, served, ends>>

\* asyncio.run and the interpreter wait for the threads that are left.
Leaves ==
    /\ Moves("leaving", "off")
    /\ thread = "none"
    /\ ended' = [how |-> ending, left |-> alive \cup (IF frozen = "ours" THEN {"frozen"} ELSE {})]
    /\ alive' = {} /\ frozen' = "none"
    /\ accepting' = FALSE /\ up' = FALSE /\ call' = "none"
    /\ UNCHANGED <<thread, hands, job, interrupts, ending>>

ThreadEnds ==
    /\ thread # "none"
    /\ thread' = "none"
    /\ UNCHANGED <<worker, hands, alive, frozen, served, ends>>

-----------------------------------------------------------------------------
(* Signals *)

Interrupted == ~ignores /\ interrupts < MaxInterrupts /\ interrupts' = interrupts + 1

\* serve() is cancelled where it waits; a constructor in a thread goes on, and
\* nothing will name what it makes.
Interrupt ==
    /\ Interrupted
    /\ stage \in Startup \cup {"serving"}
    /\ FinallyBegins("interrupted")
    /\ thread' = IF stage \in {"loading", "probing", "recognizer", "warming"} THEN stage ELSE thread
    /\ UNCHANGED <<backend, warmup, ignores, hands, alive, up, call, ended>>

\* Its finally block is, and with it every other task: what has not been closed
\* is not.  A cancelled close() in a thread goes on.  VodProcessorServicer.close
\* takes the cancellation for one of its jobs', and the block goes on.
InterruptCleanup ==
    /\ Interrupted
    /\ stage \in Finally
    /\ call' = "none"
    /\ job' = IF job \in {"running", "asked"} THEN "cancelled" ELSE job
    /\ IF stage = "closing jobs" /\ job = "asked"
       THEN UNCHANGED <<stage, alive, ending>>
       ELSE /\ stage' = "leaving" /\ ending' = "cut short"
            /\ alive' = CASE stage = "closing recognizer" -> alive \ {"adaface"}
                          [] stage = "closing runtime" -> alive \ {"runtime"}
                          [] OTHER -> alive
    /\ UNCHANGED <<finds, backend, warmup, ignores, thread, hands, frozen, accepting, up, ended>>

\* The process is gone at once: SIGTERM, SIGKILL, or exit_unrecoverable_runtime.
Dies(how) ==
    /\ stage # "off"
    /\ stage' = "off" /\ finds' = NoHost
    /\ thread' = "none" /\ alive' = {} /\ frozen' = "none"
    /\ accepting' = FALSE /\ up' = FALSE /\ call' = "none"
    /\ job' = IF job \in {"running", "asked"} THEN "lost" ELSE job
    /\ ending' = "none"
    /\ ended' = [how |-> how, left |-> {}]
    /\ UNCHANGED <<backend, warmup, ignores, hands, interrupts>>

StartupSteps ==
    \/ RuntimeReady \/ TrackerProbed \/ ServerBuilt \/ BindFails \/ FacesWarm
    \/ Opened \/ Started \/ StartupFails

FinallySteps ==
    \/ JobsDrained \/ ServerStops \/ JobsClosed \/ CallsClosed \/ RecognizerClosed
    \/ RuntimeClosed \/ Leaves \/ ThreadEnds

WorkerNext ==
    \/ StartupSteps \/ FinallySteps
    \/ CallBegins \/ CallEnds \/ JobBegins \/ JobEnds
    \/ Interrupt \/ InterruptCleanup
    \/ \E how \in {"terminated", "killed"} : Dies(how)

-----------------------------------------------------------------------------
(* Properties *)

WorkerTypeOK ==
    /\ stage \in Startup \cup Finally \cup {"off", "serving", "leaving"}
    /\ finds \in Host /\ backend \in {"none", "tensorrt", "pytorch"}
    /\ thread \in {"none", "loading", "probing", "recognizer", "warming"}
    /\ hands \subseteq {"runtime", "adaface", "bundle"}
    /\ alive \subseteq {"runtime", "adaface", "executors"}
    /\ frozen \in {"none", "ours", "theirs"}
    /\ {warmup, ignores, accepting, up} \subseteq BOOLEAN
    /\ call \in {"none", "running", "settling"}
    /\ job \in {"none", "running", "asked", "paused", "over", "cancelled", "lost"}
    /\ interrupts \in 0..MaxInterrupts
    /\ ending \in {"none", "failed", "interrupted", "cut short"}

UsesRuntime == call # "none" \/ job \in {"running", "asked"}

\* Wherever serve() failed, was interrupted, or was interrupted again: nobody
\* ever infers on a runtime that is not there or is closed; and a finally block
\* that came to its end has closed all that serve() was handed, has given the
\* collector its objects back; and no job is left as if it were running.
ShutdownIsOrderly ==
    /\ UsesRuntime => "runtime" \in alive
    /\ ended.how \in {"failed", "interrupted"} => ended.left = {}
    /\ stage = "off" => job \notin {"running", "asked"}

\* ai_processor.proto:282 names SIGTERM among the reasons why the worker itself
\* pauses a job.
TermPausesJobs == stage = "off" /\ ended.how = "terminated" => job # "lost"
=============================================================================
