---------------------------- MODULE AdaFaceWorker ----------------------------
(***************************************************************************)
(* class AdaFaceRuntime of service/adaface_model.py: one thread that makes  *)
(* face embeddings for the enrollments of AddWhitelist and for the faces of *)
(* streams, with a limit on the jobs under way, in all and per session.     *)
(*                                                                          *)
(* The event loop submits and cancels; the thread runs the jobs in order    *)
(* and counts them down in a done callback.  The loop cancels the wrapped   *)
(* future at once, and the job itself one turn later (wrap_future): a job   *)
(* that was running by then is not cancelled.                               *)
(*                                                                          *)
(* The count and the result of a job change in one step: its callback runs  *)
(* before the loop is told (add_done_callback comes before wrap_future).    *)
(***************************************************************************)
EXTENDS Naturals, FiniteSets, SequencesExt

CONSTANTS
    Jobs,            \* embedding jobs, each submitted once
    Owners,          \* session ids
    Nobody,
    QueueCapacity    \* queue_capacity

ASSUME AdaFaceAssumption ==
    /\ IsFiniteSet(Jobs)
    /\ IsFiniteSet(Owners)
    /\ Nobody \notin Owners
    /\ QueueCapacity \in Nat \ {0}

VARIABLES
    worker,      \* "ready", "unavailable" (load_error) or "closed"
    job,         \* "none", "queued", "running", and how it ended
    owner,       \* owner[j]: the session that job j was submitted for
    line,        \* the executor's queue
    unwanted,    \* jobs whose wrapped future was cancelled
    inflight,    \* _inflight
    byOwner      \* _inflight_by_owner, 0 for an owner it does not list

adaFaceVars == <<worker, job, owner, line, unwanted, inflight, byOwner>>

OwnerCapacity == IF QueueCapacity \div 2 = 0 THEN 1 ELSE QueueCapacity \div 2
UnderWay == {j \in Jobs : job[j] \in {"queued", "running"}}
Results == {"embedding", "failed"}

AdaFaceInit ==
    /\ worker \in {"ready", "unavailable"}
    /\ job = [j \in Jobs |-> "none"]
    /\ owner = [j \in Jobs |-> Nobody]
    /\ line = <<>>
    /\ unwanted = {}
    /\ inflight = 0
    /\ byOwner = [o \in Owners |-> 0]

HasRoom(o) == inflight < QueueCapacity /\ byOwner[o] < OwnerCapacity

\* _submit
Submit(j, o) ==
    /\ worker = "ready"
    /\ job[j] = "none"
    /\ HasRoom(o)
    /\ job' = [job EXCEPT ![j] = "queued"]
    /\ owner' = [owner EXCEPT ![j] = o]
    /\ line' = Append(line, j)
    /\ inflight' = inflight + 1
    /\ byOwner' = [byOwner EXCEPT ![o] = @ + 1]
    /\ UNCHANGED <<worker, unwanted>>

\* _submit returns None.
Refused(o) ==
    /\ worker # "ready" \/ ~HasRoom(o)
    /\ UNCHANGED adaFaceVars

\* _completed, for job j.
CountedDown(j) ==
    /\ inflight' = IF inflight > 0 THEN inflight - 1 ELSE 0
    /\ byOwner' = [byOwner EXCEPT ![owner[j]] = IF @ > 0 THEN @ - 1 ELSE 0]

\* The thread takes the next job of its queue.
JobStarts ==
    /\ line # <<>>
    /\ \A j \in Jobs : job[j] # "running"
    /\ job' = [job EXCEPT ![Head(line)] = "running"]
    /\ line' = Tail(line)
    /\ UNCHANGED <<worker, owner, unwanted, inflight, byOwner>>

\* _queued_embedding or _queued_enrollment_embedding returns, or raises: no
\* face, several, a small or crooked one, or the model fails.
JobEnds(j) ==
    /\ job[j] = "running"
    /\ \E result \in Results : job' = [job EXCEPT ![j] = result]
    /\ CountedDown(j)
    /\ UNCHANGED <<worker, owner, line, unwanted>>

\* future.cancel() of _expire_pending or of StreamRecognition.close; of a job
\* that is over it does nothing.
Cancel(j) ==
    /\ job[j] \in {"queued", "running"}
    /\ j \notin unwanted
    /\ unwanted' = unwanted \cup {j}
    /\ UNCHANGED <<worker, job, owner, line, inflight, byOwner>>

\* Mutant of CancelArrives: a running job is counted down, too.
CancelArrivesAnyway(j) ==
    /\ j \in unwanted
    /\ job[j] \in {"queued", "running"}
    /\ job' = IF job[j] = "queued" THEN [job EXCEPT ![j] = "cancelled"] ELSE job
    /\ line' = RemoveFirst(line, j)
    /\ CountedDown(j)
    /\ UNCHANGED <<worker, owner, unwanted>>

\* The cancellation reaches the job: only one that has not started is
\* cancelled, and counted down by its callback, here on the event loop.
CancelArrives(j) ==
    /\ j \in unwanted
    /\ job[j] = "queued"
    /\ job' = [job EXCEPT ![j] = "cancelled"]
    /\ line' = RemoveFirst(line, j)
    /\ CountedDown(j)
    /\ UNCHANGED <<worker, owner, unwanted>>

\* close(), after the gRPC server was stopped: what is queued is cancelled,
\* each with its callback; the call waits for the job that runs.
CloseWorker ==
    /\ worker # "closed"
    /\ worker' = "closed"
    /\ job' = [j \in Jobs |-> IF job[j] = "queued" THEN "cancelled" ELSE job[j]]
    /\ line' = <<>>
    /\ LET left == {j \in Jobs : job[j] = "running"}
       IN  /\ inflight' = Cardinality(left)
           /\ byOwner' = [o \in Owners |-> Cardinality({j \in left : owner[j] = o})]
    /\ UNCHANGED <<owner, unwanted>>

-----------------------------------------------------------------------------
(* Properties *)

AdaFaceTypeOK ==
    /\ worker \in {"ready", "unavailable", "closed"}
    /\ job \in [Jobs -> {"none", "queued", "running", "cancelled"} \cup Results]
    /\ owner \in [Jobs -> Owners \cup {Nobody}]
    /\ line \in Seq(Jobs)
    /\ unwanted \subseteq Jobs
    /\ inflight \in Nat
    /\ byOwner \in [Owners -> Nat]

\* The counters are the jobs under way, in all and of every session, whether
\* a job ends on the thread or is cancelled from the event loop, before or
\* after it started.  Too low, and the queue outgrows queue_capacity; too
\* high, and a session can enroll and recognise no face any more.
CapacityIsExact ==
    /\ inflight = Cardinality(UnderWay)
    /\ \A o \in Owners : byOwner[o] = Cardinality({j \in UnderWay : owner[j] = o})
=============================================================================
