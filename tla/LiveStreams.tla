---------------------------- MODULE LiveStreams ----------------------------
(***************************************************************************)
(* ProcessVideo, _process_request, _run_inference and _compose_frame of     *)
(* ai_processor_server.py: the life of every frame of a live stream, from   *)
(* the request to the response, over the runtime's inference tasks and the  *)
(* composition workers, with client disconnects, timeouts and failures.     *)
(* Admission supplies what a failed frame does to the whole worker.         *)
(*                                                                          *)
(* pc[s] is the await at which the handler of stream s is suspended; "off"  *)
(* means no handler: its finally block has closed the recognition, cleared  *)
(* the face identities, released the session and reset the tracker.         *)
(***************************************************************************)
EXTENDS Admission, FiniteSets

CONSTANT ComposeSlots      \* mosaic_max_inflight

ASSUME ComposeAssumption == ComposeSlots \in Nat \ {0}

VARIABLES
    pc,        \* pc[s]: where ProcessVideo of s waits
    task,      \* task[s]: the inference task of s's frame
    worker,    \* worker[s]: the composition of s's frame on its executor
    leased     \* streams that hold their session (acquire_stream)

streamVars == <<pc, task, worker, leased>>
liveVars == <<admissionVars, streamVars>>

Work == {"none", "running", "done"}
Telling == {"tellTimeout", "tellFailure", "tellAbort"}  \* in _enter_recovery
Settling == {"settling", "composeSettling"}             \* in _settle_inference
Awaits == {"off", "reading", "decoding", "inferring", "composeWaiting", "composing",
           "replying", "fatal", "fatalPending"} \cup Telling \cup Settling

LiveInit ==
    /\ AdmissionInit
    /\ pc = [s \in Streams |-> "off"]
    /\ task = [s \in Streams |-> "none"]
    /\ worker = [s \in Streams |-> "none"]
    /\ leased = {}

Goto(s, where) == pc' = [pc EXCEPT ![s] = where]

\* ProcessVideo's finally block, with no inference to settle.
Finish(s) ==
    /\ Goto(s, "off")
    /\ leased' = leased \ {s}

\* A stream is admitted and gets its tracker.  A name is free again when the
\* inference of its last bearer is over.  A stream fails at most once, so
\* MaxFailures bounds the streams opened and never keeps a frame from failing.
OpenStreams == {s \in Streams : pc[s] # "off"}
Admitted(s) ==
    /\ pc[s] = "off"
    /\ task[s] # "running"
    /\ accepting
    /\ ServerUp
    /\ generation + Cardinality(OpenStreams) < MaxFailures

Open(s) ==
    /\ Admitted(s)
    /\ Goto(s, "reading")
    /\ task' = [task EXCEPT ![s] = "none"]
    /\ UNCHANGED <<admissionVars, worker, leased>>

TrackerInitFails(s) ==
    /\ Admitted(s)
    /\ FrameFails(s)
    /\ Goto(s, "tellAbort")
    /\ task' = [task EXCEPT ![s] = "none"]
    /\ UNCHANGED <<worker, leased>>

\* The next request comes, or none does (half-close, or a request that
\* context.abort rejects).
NextRequest(s) ==
    /\ pc[s] = "reading"
    /\ \/ Goto(s, "decoding") /\ UNCHANGED leased
       \/ Finish(s)
    /\ UNCHANGED <<admissionVars, task, worker>>

\* Decoding ends: the first decoded frame acquires the session, and the
\* inference task is made.  A bad frame is answered and the stream goes on;
\* a session registry at its limit ends the stream.
Decoded(s) ==
    /\ pc[s] = "decoding"
    /\ \/ /\ Goto(s, "inferring")
          /\ task' = [task EXCEPT ![s] = "running"]
          /\ leased' = leased \cup {s}
       \/ /\ Goto(s, "replying")
          /\ UNCHANGED <<task, leased>>
       \/ /\ s \notin leased
          /\ Finish(s)
          /\ UNCHANGED task
    /\ UNCHANGED <<admissionVars, worker>>

\* The inference task ends, awaited, timed out or cancelled over.
TaskEnds(s) ==
    /\ task[s] = "running"
    /\ task' = [task EXCEPT ![s] = "done"]
    /\ IF s \in stalled THEN LateFrameEnds(s) ELSE UNCHANGED admissionVars
    /\ UNCHANGED <<pc, worker, leased>>

\* The result is there in time.  Recognition runs at once; the frame is then
\* composed, or answered as it is, or the stream fails on this frame
\* (TrackingFailure, or a result that breaks its contract).
Result(s) ==
    /\ pc[s] = "inferring"
    /\ task[s] = "done"
    /\ \E after \in {"composeWaiting", "replying", "fatal"} : Goto(s, after)
    /\ task' = [task EXCEPT ![s] = "none"]
    /\ UNCHANGED <<admissionVars, worker, leased>>

\* InferenceFailure or any other exception of infer().
InferenceFails(s) ==
    /\ pc[s] = "inferring"
    /\ task[s] = "done"
    /\ FrameFails(s)
    /\ Goto(s, "tellFailure")
    /\ task' = [task EXCEPT ![s] = "none"]
    /\ UNCHANGED <<worker, leased>>

\* Mutants of InferenceTimesOut: the recovery is not entered; no timeout.
TimeOutQuietly(s) ==
    /\ pc[s] = "inferring"
    /\ task[s] = "running"
    /\ stalled' = stalled \cup {s}
    /\ Goto(s, "fatalPending")
    /\ UNCHANGED <<accepting, vodAccepting, vodJob, generation, recovery, seen, waitFor,
                   line, telling, health, shutdown, exited, task, worker, leased>>

NeverTimeOut(s) == pc[s] = "inferring" /\ UNCHANGED liveVars

\* inference_timeout_seconds: the shielded task runs on.
InferenceTimesOut(s) ==
    /\ pc[s] = "inferring"
    /\ task[s] = "running"
    /\ FrameTimesOut(s)
    /\ Goto(s, "tellTimeout")
    /\ UNCHANGED <<task, worker, leased>>

\* A composition slot, the composition itself, and its result.
TakeSlot(s) ==
    /\ pc[s] = "composeWaiting"
    /\ Cardinality({r \in Streams : pc[r] \in {"composing", "composeSettling"}}) < ComposeSlots
    /\ Goto(s, "composing")
    /\ worker' = [worker EXCEPT ![s] = "running"]
    /\ UNCHANGED <<admissionVars, task, leased>>

ComposeEnds(s) ==
    /\ worker[s] = "running"
    /\ worker' = [worker EXCEPT ![s] = "done"]
    /\ UNCHANGED <<admissionVars, pc, task, leased>>

Composed(s) ==
    /\ pc[s] = "composing"
    /\ worker[s] = "done"
    /\ \E after \in {"replying", "fatal"} : Goto(s, after)
    /\ worker' = [worker EXCEPT ![s] = "none"]
    /\ UNCHANGED <<admissionVars, task, leased>>

\* _enter_recovery returns to the handler whose turn to publish is over.
Resumed(s) ==
    \/ pc[s] = "tellTimeout" /\ Goto(s, "fatalPending") /\ UNCHANGED leased
    \/ pc[s] = "tellFailure" /\ Goto(s, "fatal") /\ UNCHANGED leased
    \/ pc[s] = "tellAbort" /\ Finish(s)

TellDone ==
    /\ PublishDone
    /\ \/ Head(line) = Recovered /\ UNCHANGED <<pc, leased>>
       \/ \E s \in Streams : Head(line) = s /\ Resumed(s)
    /\ UNCHANGED <<task, worker>>

\* The response has been taken.  After a fatal one the handler returns, and
\* first settles the inference that the frame left pending.
Replied(s) ==
    /\ \/ pc[s] = "replying" /\ Goto(s, "reading") /\ UNCHANGED leased
       \/ pc[s] = "fatal" /\ Finish(s)
       \/ pc[s] = "fatalPending" /\ Goto(s, "settling") /\ UNCHANGED leased
    /\ UNCHANGED <<admissionVars, task, worker>>

Settled(s) ==
    /\ \/ pc[s] = "settling" /\ task[s] = "done"
       \/ pc[s] = "composeSettling" /\ worker[s] = "done"
    /\ Finish(s)
    /\ task' = [task EXCEPT ![s] = "none"]
    /\ worker' = [worker EXCEPT ![s] = "none"]
    /\ UNCHANGED admissionVars

\* Mutant of Cancel: nothing is settled.
CancelAtOnce(s) ==
    /\ CanBeCancelled(s)
    /\ pc[s] \notin Telling \cup {"off"}
    /\ Finish(s)
    /\ UNCHANGED <<admissionVars, task, worker>>

\* The handler's task is cancelled: an inference or a composition it awaits
\* is settled first; in _enter_recovery the CancelledError passes through,
\* and the finally block knows of no pending inference.  A handler that is
\* settling ignores it.
Cancel(s) ==
    /\ CanBeCancelled(s)
    /\ \/ /\ pc[s] \in {"reading", "decoding", "composeWaiting", "replying", "fatal"}
          /\ Finish(s)
          /\ UNCHANGED admissionVars
       \/ /\ pc[s] \in {"inferring", "fatalPending"}
          /\ Goto(s, "settling")
          /\ UNCHANGED <<admissionVars, leased>>
       \/ /\ pc[s] = "composing"
          /\ Goto(s, "composeSettling")
          /\ UNCHANGED <<admissionVars, leased>>
       \/ /\ pc[s] \in Telling
          /\ PublishCancelled(s)
          /\ Finish(s)
    /\ UNCHANGED <<task, worker>>

\* serve()'s finally block: server.stop has cancelled every handler, and
\* close() waits for the inference tasks and for the composition executors.
Shutdown ==
    /\ \/ BeginShutdown
       \/ StopServer
       \/ CloseService /\ \A s \in Streams : pc[s] \in Settling \cup {"off"}
       \/ ServiceClosed /\ \A s \in Streams : task[s] # "running" /\ worker[s] # "running"
    /\ UNCHANGED streamVars

Handler(s) ==
    \/ Decoded(s)
    \/ Result(s) \/ InferenceFails(s) \/ InferenceTimesOut(s)
    \/ Composed(s)
    \/ Settled(s)

LiveNext ==
    /\ ~exited
    /\ \/ \E s \in Streams :
             \/ Open(s) \/ TrackerInitFails(s) \/ NextRequest(s) \/ Replied(s)
             \/ Handler(s) \/ TakeSlot(s)
             \/ TaskEnds(s) \/ ComposeEnds(s)
             \/ Cancel(s)
       \/ TellDone
       \/ (PublishTurn \/ RecoveryStep \/ VodStarts \/ VodEnds) /\ UNCHANGED streamVars
       \/ Shutdown

LiveSpec == LiveInit /\ [][LiveNext]_liveVars

\* The event loop and the composition executors run what is ready; timers
\* fire; the slots' semaphore serves in order.  Nothing is assumed of the
\* runtime: an inference may never end.
LiveFairness ==
    /\ \A s \in Streams :
          /\ WF_liveVars(~exited /\ Handler(s))
          /\ WF_liveVars(~exited /\ ComposeEnds(s))
          /\ SF_liveVars(~exited /\ TakeSlot(s))
    /\ WF_liveVars(~exited /\ TellDone)
    /\ WF_liveVars(~exited /\ PublishTurn /\ UNCHANGED streamVars)
    /\ WF_liveVars(~exited /\ RecoveryStep /\ UNCHANGED streamVars)

FairLiveSpec == LiveSpec /\ LiveFairness

-----------------------------------------------------------------------------
(* Properties *)

LiveTypeOK ==
    /\ AdmissionTypeOK
    /\ pc \in [Streams -> Awaits]
    /\ task \in [Streams -> Work]
    /\ worker \in [Streams -> Work]
    /\ leased \in SUBSET Streams

\* "The worker owns this RPC's identity state until it settles"
\* (_compose_frame): while a composition runs, its stream has not cleared its
\* identities nor released its session, whatever was cancelled.
CompositionKeepsState ==
    \A s \in Streams :
        worker[s] = "running" =>
            pc[s] \in {"composing", "composeSettling"} /\ s \in leased

\* An inference without a stream is one that timed out, and the recovery
\* knows of it and waits for it.
OrphansAreStalled ==
    \A s \in Streams : pc[s] = "off" /\ task[s] = "running" => s \in stalled

\* When the worker admits a stream, every inference on the runtime belongs to
\* a handler that waits for it and holds its session: nothing is left over
\* from a failure.
AdmitsOnACleanRuntime ==
    accepting =>
        \A s \in Streams :
            task[s] = "running" => pc[s] \in {"inferring", "settling"} /\ s \in leased

\* "Do not release/reset tracker state before shielded GPU work settles"
\* (_settle_inference).
TrackerOutlivesInference ==
    \A s \in Streams : pc[s] = "off" => task[s] # "running"

\* The streams take part in Admission's protocol and in no other way touch
\* its state.
StreamsKeepAdmission == AdmissionSpec

\* A frame taken from a client is answered, or its stream ends, or the worker
\* exits, even when the runtime never returns.
InWork == Awaits \ ({"off", "reading", "replying", "fatal", "fatalPending"} \cup Settling)
FramesAreAnswered ==
    \A s \in Streams : pc[s] \in InWork ~> pc[s] \notin InWork \/ exited
=============================================================================
