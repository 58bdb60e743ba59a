----------------------------- MODULE Admission -----------------------------
(***************************************************************************)
(* Admission of the AiProcessorServicer (ai_processor_server.py): when a    *)
(* frame fails the worker stops admitting streams and VOD jobs, a recovery  *)
(* task proves that the runtime answers again, and the health service is    *)
(* told; serve() takes all of it down at the end.                           *)
(*                                                                          *)
(* Streams are seen only where they touch admission: a frame whose          *)
(* inference times out or fails calls _enter_recovery, and waits there for  *)
(* its turn to publish.  One VOD job stands for those request_drain pauses. *)
(* A step is the code between two awaits of one task.                       *)
(***************************************************************************)
EXTENDS Naturals, Sequences, SequencesExt

CONSTANTS
    Streams,       \* ProcessVideo calls
    Impatient,     \* those whose client may go away (the task is cancelled)
    Recovered,     \* a recovery that is over and publishes, as a name in "line"
    MaxFailures    \* bound: failed frames that start or renew a recovery

ASSUME AdmissionAssumption ==
    /\ Impatient \subseteq Streams
    /\ Recovered \notin Streams
    /\ MaxFailures \in Nat

VARIABLES
    accepting,     \* _accepting
    vodAccepting,  \* VodProcessorServicer._accepting
    vodJob,        \* no job, running, or asked to pause at its next frame
    generation,    \* _failure_generation
    stalled,       \* _stalled_inferences: timed out, still on the GPU
    recovery,      \* _recovery: none, or where the task is
    seen,          \* "generation" of _recover_runtime's current round
    waitFor,       \* the stalled inferences that round waits for
    line,          \* tasks in _publish_admission, in the order of _health_lock
    telling,       \* what the first of them read and is publishing
    health,        \* the health service's status
    shutdown,      \* how far serve()'s finally block is
    exited         \* exit_process was called

admissionVars == <<accepting, vodAccepting, vodJob, generation, stalled, recovery,
                   seen, waitFor, line, telling, health, shutdown, exited>>

Closing == shutdown \in {"closing", "closed"}       \* _closing
ServerUp == shutdown \in {"up", "draining"}         \* new RPCs are accepted
Status(open) == IF open THEN "SERVING" ELSE "NOT_SERVING"
PauseRequested == IF vodJob = "running" THEN "pausing" ELSE vodJob

\* The state serve() waits in: set_serving(True) is done.
AdmissionInit ==
    /\ accepting = TRUE
    /\ vodAccepting = TRUE
    /\ vodJob = "none"
    /\ generation = 0
    /\ stalled = {}
    /\ recovery = "none"
    /\ seen = 0
    /\ waitFor = {}
    /\ line = <<>>
    /\ telling = "none"
    /\ health = "SERVING"
    /\ shutdown = "up"
    /\ exited = FALSE

\* _publish_admission up to its first await: a free lock is taken at once,
\* and the status to publish is read when the lock is held.
Publish(who, open) ==
    /\ line' = Append(line, who)
    /\ telling' = IF line = <<>> THEN Status(open) ELSE telling

\* _enter_recovery by the frame of stream s, up to its first await.
EnterRecovery(s) ==
    /\ accepting' = FALSE
    /\ vodAccepting' = FALSE
    /\ vodJob' = PauseRequested
    /\ \/ /\ Closing
          /\ UNCHANGED <<generation, recovery, line, telling>>
       \/ /\ ~Closing
          /\ generation < MaxFailures
          /\ generation' = generation + 1
          /\ recovery' = IF recovery = "none" THEN "starting" ELSE recovery
          /\ Publish(s, FALSE)
    /\ UNCHANGED <<seen, waitFor, health, shutdown, exited>>

\* The inference of s exceeds inference_timeout_seconds, or fails.
FrameTimesOut(s) ==
    /\ s \notin stalled \cup ToSet(line)
    /\ stalled' = stalled \cup {s}
    /\ EnterRecovery(s)

FrameFails(s) ==
    /\ s \notin stalled \cup ToSet(line)
    /\ EnterRecovery(s)
    /\ UNCHANGED stalled

\* A timed-out inference finishes: _stalled_inferences.discard.
LateFrameEnds(s) ==
    /\ s \in stalled
    /\ stalled' = stalled \ {s}
    /\ waitFor' = waitFor \ {s}
    /\ UNCHANGED <<accepting, vodAccepting, vodJob, generation, recovery, seen,
                   line, telling, health, shutdown, exited>>

\* The lock passes to the next task of the line, which reads _accepting.
PublishTurn ==
    /\ line # <<>>
    /\ telling = "none"
    /\ telling' = Status(accepting)
    /\ UNCHANGED <<accepting, vodAccepting, vodJob, generation, stalled, recovery,
                   seen, waitFor, line, health, shutdown, exited>>

\* publish_health returns.  The health service ignores it once
\* enter_graceful_shutdown was called.
PublishDone ==
    /\ line # <<>>
    /\ telling # "none"
    /\ health' = IF ServerUp THEN telling ELSE health
    /\ telling' = "none"
    /\ line' = Tail(line)
    /\ UNCHANGED <<accepting, vodAccepting, vodJob, generation, stalled, recovery,
                   seen, waitFor, shutdown, exited>>

\* The client of s goes away, or server.stop cancels s, while s waits to
\* publish: nothing is published.
CanBeCancelled(s) == s \in Impatient \/ shutdown = "stopping"

PublishCancelled(s) ==
    /\ CanBeCancelled(s)
    /\ s \in ToSet(line)
    /\ line' = RemoveFirst(line, s)
    /\ telling' = IF Head(line) = s THEN "none" ELSE telling
    /\ UNCHANGED <<accepting, vodAccepting, vodJob, generation, stalled, recovery,
                   seen, waitFor, health, shutdown, exited>>

\* Mutant of Round: the stalled inferences are not waited for.
RoundAtOnce ==
    /\ seen' = generation
    /\ waitFor' = {}
    /\ recovery' = "checking"
    /\ UNCHANGED <<accepting, vodAccepting, line, telling>>

\* The head of the loop of _recover_runtime: what this round has seen, and
\* what it waits for before it runs the self-check.
Round ==
    /\ seen' = generation
    /\ waitFor' = stalled
    /\ recovery' = IF stalled = {} THEN "checking" ELSE "waiting"
    /\ UNCHANGED <<accepting, vodAccepting, line, telling>>

RecoveryStarts ==
    /\ recovery = "starting"
    /\ Round
    /\ UNCHANGED <<vodJob, generation, stalled, health, shutdown, exited>>

StalledSettled ==
    /\ recovery = "waiting"
    /\ waitFor = {}
    /\ recovery' = "checking"
    /\ UNCHANGED <<accepting, vodAccepting, vodJob, generation, stalled, seen,
                   waitFor, line, telling, health, shutdown, exited>>

\* Mutant of CheckPasses: a failure during the check ends the recovery.
Reopen ==
    /\ recovery = "checking"
    /\ recovery' = "none"
    /\ accepting' = TRUE
    /\ vodAccepting' = TRUE
    /\ UNCHANGED <<vodJob, generation, stalled, seen, waitFor, health, shutdown, exited>>

CheckOnce == Reopen /\ Publish(Recovered, TRUE)

CheckOrGiveUp ==
    \/ seen = generation /\ CheckOnce
    \/ /\ recovery = "checking"
       /\ seen # generation
       /\ recovery' = "none"
       /\ UNCHANGED <<accepting, vodAccepting, vodJob, generation, stalled, seen,
                      waitFor, line, telling, health, shutdown, exited>>

\* The self-check answers.  A failure since the round began means another
\* round; otherwise admission opens, in one step with _recovery = None.
CheckPasses ==
    /\ recovery = "checking"
    /\ \/ /\ seen # generation
          /\ Round
       \/ /\ seen = generation
          /\ recovery' = "none"
          /\ accepting' = TRUE
          /\ vodAccepting' = TRUE
          /\ Publish(Recovered, TRUE)
          /\ UNCHANGED <<seen, waitFor>>
    /\ UNCHANGED <<vodJob, generation, stalled, health, shutdown, exited>>

\* The deadline inference_recovery_seconds, or a self-check that raises:
\* exit_process ends the worker.
RecoveryFails ==
    /\ recovery \in {"waiting", "checking"}
    /\ exited' = TRUE
    /\ UNCHANGED <<accepting, vodAccepting, vodJob, generation, stalled, recovery,
                   seen, waitFor, line, telling, health, shutdown>>

\* StartVodJob on a worker that accepts, and the end of a job: done, failed,
\* cancelled, or paused at its next frame boundary.
VodStarts ==
    /\ ServerUp
    /\ vodAccepting
    /\ vodJob = "none"
    /\ vodJob' = "running"
    /\ UNCHANGED <<accepting, vodAccepting, generation, stalled, recovery, seen,
                   waitFor, line, telling, health, shutdown, exited>>

VodEnds ==
    /\ vodJob # "none"
    /\ vodJob' = "none"
    /\ UNCHANGED <<accepting, vodAccepting, generation, stalled, recovery, seen,
                   waitFor, line, telling, health, shutdown, exited>>

\* serve()'s finally block.  set_accepting(False) and request_drain, then
\* drain() waits up to 15 s for the jobs there were.
BeginShutdown ==
    /\ shutdown = "up"
    /\ shutdown' = "draining"
    /\ accepting' = FALSE
    /\ vodAccepting' = FALSE
    /\ vodJob' = PauseRequested
    /\ UNCHANGED <<generation, stalled, recovery, seen, waitFor, line, telling,
                   health, exited>>

\* drain() is over: enter_graceful_shutdown, then server.stop.
StopServer ==
    /\ shutdown = "draining"
    /\ shutdown' = "stopping"
    /\ health' = "NOT_SERVING"
    /\ UNCHANGED <<accepting, vodAccepting, vodJob, generation, stalled, recovery,
                   seen, waitFor, line, telling, exited>>

\* server.stop has cancelled every RPC; VodProcessorServicer.close cancels
\* the jobs that still run; then AiProcessorServicer.close: _closing, and
\* the recovery is cancelled.
CloseService ==
    /\ shutdown = "stopping"
    /\ ToSet(line) \cap Streams = {}
    /\ shutdown' = "closing"
    /\ accepting' = FALSE
    /\ vodJob' = "none"
    /\ recovery' = "none"
    /\ UNCHANGED <<vodAccepting, generation, stalled, seen, waitFor, line, telling,
                   health, exited>>

\* close() has settled every inference.
ServiceClosed ==
    /\ shutdown = "closing"
    /\ stalled = {}
    /\ shutdown' = "closed"
    /\ UNCHANGED <<accepting, vodAccepting, vodJob, generation, stalled, recovery,
                   seen, waitFor, line, telling, health, exited>>

RecoveryStep == RecoveryStarts \/ StalledSettled \/ CheckPasses \/ RecoveryFails
PublishStep == PublishTurn \/ PublishDone
ShutdownStep == BeginShutdown \/ StopServer \/ CloseService \/ ServiceClosed

AdmissionNext ==
    /\ ~exited
    /\ \/ \E s \in Streams :
             \/ FrameTimesOut(s)
             \/ FrameFails(s)
             \/ LateFrameEnds(s)
             \/ PublishCancelled(s)
       \/ RecoveryStep
       \/ PublishStep
       \/ VodStarts \/ VodEnds
       \/ ShutdownStep

AdmissionSpec == AdmissionInit /\ [][AdmissionNext]_admissionVars

\* The event loop runs every ready task, and the recovery's deadline fires.
\* Nothing is assumed of the runtime: a late frame may never end.
AdmissionFairness ==
    /\ WF_admissionVars(~exited /\ PublishStep)
    /\ WF_admissionVars(~exited /\ RecoveryStep)

FairAdmissionSpec == AdmissionSpec /\ AdmissionFairness

-----------------------------------------------------------------------------
(* Properties *)

AdmissionTypeOK ==
    /\ accepting \in BOOLEAN
    /\ vodAccepting \in BOOLEAN
    /\ vodJob \in {"none", "running", "pausing"}
    /\ generation \in 0..MaxFailures
    /\ stalled \in SUBSET Streams
    /\ recovery \in {"none", "starting", "waiting", "checking"}
    /\ seen \in 0..MaxFailures
    /\ waitFor \in SUBSET Streams
    /\ line \in Seq(Streams \cup {Recovered})
    /\ telling \in {"none", "SERVING", "NOT_SERVING"}
    /\ health \in {"SERVING", "NOT_SERVING"}
    /\ shutdown \in {"up", "draining", "stopping", "closing", "closed"}
    /\ exited \in BOOLEAN

\* The worker admits streams only when its runtime has proved itself: no
\* timed-out frame is left on the GPU, no recovery is under way, and no frame
\* has failed since the last round of the self-check began.
AdmittingMeansSettled ==
    accepting => stalled = {} /\ recovery = "none" /\ seen = generation

\* No VOD job takes frames to the runtime while admission is closed: the
\* running one has been asked to pause, and no new one starts.
VodWaitsForRecovery == vodJob = "running" => accepting

\* What makes AdmittingMeansSettled inductive: what a round has not seen
\* stalled, it has not seen fail either.
RoundsCoverStalled ==
    /\ seen <= generation
    /\ recovery = "waiting" /\ seen = generation => stalled \subseteq waitFor
    /\ recovery = "checking" /\ seen = generation => stalled = {}
    /\ Closing => ~accepting /\ recovery = "none" /\ vodJob = "none"
    /\ ~Closing => vodAccepting = accepting

AdmissionInv ==
    /\ AdmissionTypeOK
    /\ AdmittingMeansSettled
    /\ VodWaitsForRecovery
    /\ RoundsCoverStalled

\* "Publish the current admission state; the lock keeps the last change
\* last" (_publish_admission): when nobody is publishing, the health service
\* says what admission is, and NOT_SERVING is never left behind on a worker
\* that admits.  Up to the shutdown, which sets its own order.
HealthFollowsAdmission ==
    shutdown = "up" /\ line = <<>> => health = Status(accepting)
NeverStuckUnready ==
    shutdown = "up" /\ line = <<>> /\ accepting => health = "SERVING"

\* A worker that turned NOT_SERVING is SERVING again, exits, or shuts down:
\* a failure that comes while a recovery ends is not forgotten.
WorkerReturns ==
    health = "NOT_SERVING" ~> health = "SERVING" \/ exited \/ shutdown # "up"

\* "Pause VOD jobs to a durable checkpoint before the server stops" (serve):
\* past the drain, no job runs that was never asked to pause.
DrainLeavesNoJob ==
    shutdown \notin {"up", "draining"} => vodJob # "running"
=============================================================================
