-------------------------- MODULE InferenceRuntime --------------------------
(***************************************************************************)
(* RuntimeManager.infer, self_check and close of service/runtime.py: the    *)
(* PriorityLane composed with the one-thread executor that runs the model.  *)
(*                                                                          *)
(* A task that gets the lane submits its frame to the executor in the same  *)
(* step and awaits it; whatever ends that wait, its finally block releases  *)
(* the lane.  Cancelling the wait takes a frame that has not started out of *)
(* the executor's queue, but cannot stop one that runs: the executor keeps  *)
(* running it after the lane has been released.                             *)
(*                                                                          *)
(* Who may be cancelled: ai_processor_server.py shields a live frame's      *)
(* infer() (_run_inference), so only VOD frames (CancelVodJob, shutdown)    *)
(* and the recovery's self_check (its deadline, shutdown) are.              *)
(***************************************************************************)
EXTENDS PriorityLane

CONSTANT Cancellable    \* tasks whose infer() or self_check() is not shielded

ASSUME CancellableAssumption == Cancellable \subseteq Live \cup Vod

VARIABLES
    closed,       \* _closed: close() has shut the executor down
    queue,        \* the executor's work queue, one entry per submitted frame
    running,      \* {t} while the executor's thread runs the frame of t
    abandoned,    \* nobody awaits the running frame any more
    job           \* job[t]: the submitted frame as its task sees it

execVars == <<closed, queue, running, abandoned, job>>
runtimeVars == <<laneVars, execVars>>

JobStates == {"none", "queued", "running", "over"}

RuntimeInit ==
    /\ LaneInit
    /\ closed = FALSE
    /\ queue = <<>>
    /\ running = {}
    /\ abandoned = FALSE
    /\ job = [t \in Callers |-> "none"]

\* loop.run_in_executor(self._executor, ...) on an open executor.
Submit(t) ==
    /\ ~closed
    /\ queue' = Append(queue, t)
    /\ job' = [job EXCEPT ![t] = "queued"]
    /\ UNCHANGED <<closed, running, abandoned>>

\* infer() and self_check() refuse a closed runtime; otherwise they acquire
\* the lane and, once in it, submit.
InferNow(t) == AcquireNow(t) /\ Submit(t)

InferWait(t) ==
    /\ ~closed
    /\ AcquireWait(t)
    /\ UNCHANGED execVars

InferGranted(t) == WakeGranted(t) /\ Submit(t)

\* Granted after close(): run_in_executor raises, and the finally block
\* releases the lane in the same step.
InferRefused(t) ==
    /\ closed
    /\ pc[t] = "waiting"
    /\ waiter[t] = "granted"
    /\ ~mustCancel[t]
    /\ HandOn(t, RemoveFirst(liveWaiters, t), RemoveFirst(vodWaiters, t))
    /\ pc' = [pc EXCEPT ![t] = "out"]
    /\ UNCHANGED <<mustCancel, execVars>>

InferCancelled(t) ==
    /\ WakeCancelled(t) \/ WakeRevoked(t)
    /\ UNCHANGED execVars

\* The executor's thread takes the next frame, and finishes it.
StartFrame ==
    /\ running = {}
    /\ queue # <<>>
    /\ running' = {Head(queue)}
    /\ queue' = Tail(queue)
    /\ job' = [job EXCEPT ![Head(queue)] = "running"]
    /\ UNCHANGED <<laneVars, closed, abandoned>>

FinishFrame ==
    /\ running # {}
    /\ running' = {}
    /\ abandoned' = FALSE
    /\ IF abandoned
         THEN UNCHANGED job
         ELSE job' = [t \in Callers |-> IF t \in running THEN "over" ELSE job[t]]
    /\ UNCHANGED <<laneVars, closed, queue>>

\* The await of infer() returns or raises; finally: self.lane.release().
Leave(t) ==
    /\ job[t] = "over"
    /\ Release(t)
    /\ job' = [job EXCEPT ![t] = "none"]
    /\ UNCHANGED <<closed, queue, running, abandoned>>

\* Task.cancel() on a task inside infer() or self_check().
CancelInfer(t) ==
    /\ t \in Cancellable
    /\ \/ /\ CancelWaiter(t)
          /\ UNCHANGED execVars
       \/ /\ job[t] = "queued"
          /\ queue' = RemoveFirst(queue, t)
          /\ job' = [job EXCEPT ![t] = "over"]
          /\ UNCHANGED <<laneVars, closed, running, abandoned>>
       \/ /\ job[t] = "running"
          /\ abandoned' = TRUE
          /\ job' = [job EXCEPT ![t] = "over"]
          /\ UNCHANGED <<laneVars, closed, queue, running>>

\* Mutant of Close: the queue is dropped without cancelling its futures.
CloseSilently ==
    /\ ~closed
    /\ closed' = TRUE
    /\ queue' = <<>>
    /\ running' = {}
    /\ abandoned' = FALSE
    /\ job' = [t \in Callers |-> IF job[t] = "running" THEN "over" ELSE job[t]]
    /\ UNCHANGED laneVars

\* close(): shutdown(wait=True, cancel_futures=True) blocks the event loop
\* until the running frame is done, and cancels the queued ones.
Close ==
    /\ ~closed
    /\ closed' = TRUE
    /\ queue' = <<>>
    /\ running' = {}
    /\ abandoned' = FALSE
    /\ job' = [t \in Callers |->
                  IF job[t] \in {"queued", "running"} THEN "over" ELSE job[t]]
    /\ UNCHANGED laneVars

Resume(t) ==
    \/ InferGranted(t)
    \/ InferRefused(t)
    \/ InferCancelled(t)
    \/ Leave(t)

Worker == StartFrame \/ FinishFrame

RuntimeNext ==
    \/ \E t \in Callers :
          InferNow(t) \/ InferWait(t) \/ CancelInfer(t) \/ Resume(t)
    \/ Worker
    \/ Close

RuntimeSpec == RuntimeInit /\ [][RuntimeNext]_runtimeVars

\* The event loop resumes every ready task and the executor's thread keeps
\* working.  A model call that never returns is the business of the recovery
\* (it ends the process), so here every started frame is finished.
RuntimeFairness ==
    /\ \A t \in Callers : WF_runtimeVars(Resume(t))
    /\ WF_runtimeVars(Worker)

FairRuntimeSpec == RuntimeSpec /\ RuntimeFairness

-----------------------------------------------------------------------------
(* Properties *)

RuntimeTypeOK ==
    /\ LaneTypeOK
    /\ closed \in BOOLEAN
    /\ queue \in Seq(Callers)
    /\ running \in SUBSET Callers
    /\ abandoned \in BOOLEAN
    /\ job \in [Callers -> JobStates]

\* A frame waits in the executor only for its own task, which is inside the
\* lane: no frame is submitted past the lane, and none is left behind in the
\* queue by a task that was cancelled or has released the lane.
SubmittedInLane ==
    \A i \in DOMAIN queue : pc[queue[i]] = "in" /\ job[queue[i]] = "queued"

\* The lane keeps the executor from queueing: behind the running frame, which
\* may be an abandoned one, at most the frame of the present owner waits.
\* Without it the executor's own FIFO would decide who goes first.
ShortQueue == Len(queue) <= 1

\* What makes the two inductive: a task in infer() past the lane is in it, the
\* executor's queue is the queued jobs, each once, and the running frame is its
\* task's job unless it was abandoned.
JobsAreInLane == \A t \in Callers : job[t] # "none" <=> pc[t] = "in"
QueueIsJobs ==
    /\ IsInjective(queue)
    /\ ToSet(queue) = {t \in Callers : job[t] = "queued"}
RunningIsAJob ==
    /\ running = {} \/ \E t \in Callers : running = {t}
    /\ \A t \in Callers : job[t] = "running" <=> t \in running /\ ~abandoned
    /\ abandoned => running # {}

RuntimeInv ==
    /\ LaneInv
    /\ RuntimeTypeOK
    /\ JobsAreInLane
    /\ QueueIsJobs
    /\ RunningIsAJob

\* The lane still keeps its contract when its callers run on the executor.
RuntimeImplementsContract == Contract!Spec

\* Every live frame gets its turn or is cancelled, and every task that called
\* infer() before close() comes back: closing leaves no task suspended.
LiveFramesRun ==
    \A t \in Live : pc[t] = "waiting" ~> pc[t] # "waiting"
ClosingStrandsNobody ==
    \A t \in Callers : closed ~> pc[t] = "out"
=============================================================================
