------------------------- MODULE LiveStreamsProofs -------------------------
(***************************************************************************)
(* Proofs about Admission and about the streams over it (LiveStreams), for  *)
(* any number of streams, failures and composition slots.                   *)
(*                                                                          *)
(* Admission: a frame joins "stalled" in the step that raises the           *)
(* generation (unless the service is closing, and then nothing opens        *)
(* admission), so a round that still has seen the present generation has    *)
(* seen every stalled frame, and has waited for it.                         *)
(*                                                                          *)
(* Streams: their steps are Admission's or leave it alone, so that its      *)
(* invariant is theirs; an inference nobody settles is a stalled one.       *)
(***************************************************************************)
EXTENDS LiveStreams, QueueFacts

LEMMA AdmissionInitInv == AdmissionInit => AdmissionInv
  <1> SUFFICES ASSUME AdmissionInit PROVE AdmissionInv
    OBVIOUS
  <1>1. AdmissionTypeOK
    <2>1. line \in Seq(Streams \cup {Recovered})
      BY EmptySeq DEF AdmissionInit
    <2>2. generation \in 0..MaxFailures /\ seen \in 0..MaxFailures
      BY AdmissionAssumption DEF AdmissionInit
    <2> QED
      BY <2>1, <2>2 DEF AdmissionInit, AdmissionTypeOK
  <1>2. AdmittingMeansSettled /\ VodWaitsForRecovery /\ RoundsCoverStalled
    BY DEF AdmissionInit, AdmittingMeansSettled, VodWaitsForRecovery,
           RoundsCoverStalled, Closing
  <1> QED
    BY <1>1, <1>2 DEF AdmissionInv

\* A task joins the line, in _enter_recovery or at the end of a recovery.
LEMMA PublishType ==
    ASSUME AdmissionTypeOK, NEW who \in Streams \cup {Recovered}, NEW open \in BOOLEAN,
           Publish(who, open)
    PROVE  /\ line' \in Seq(Streams \cup {Recovered})
           /\ telling' \in {"none", "SERVING", "NOT_SERVING"}
  BY AppendProperties DEF AdmissionTypeOK, Publish, Status

\* A frame fails, timed out (and then it joins the stalled ones) or not.
LEMMA EnterRecoveryStep ==
    ASSUME AdmissionInv, NEW s \in Streams, EnterRecovery(s),
           stalled' = stalled \/ stalled' = stalled \cup {s}
    PROVE  AdmissionInv'
  <1> USE DEF AdmissionInv
  <1>1. /\ accepting' = FALSE /\ vodAccepting' = FALSE
        /\ vodJob' \in {"none", "running", "pausing"} /\ vodJob' # "running"
        /\ vodJob = "none" => vodJob' = "none"
        /\ UNCHANGED <<seen, waitFor, health, shutdown, exited>>
        /\ stalled' \in SUBSET Streams
    BY DEF EnterRecovery, AdmissionTypeOK, PauseRequested
  <1>2. CASE Closing
    <2>1. UNCHANGED <<generation, recovery, line, telling>>
      BY <1>2 DEF EnterRecovery
    <2> QED
      BY <1>1, <1>2, <2>1 DEF AdmissionTypeOK, AdmittingMeansSettled,
            VodWaitsForRecovery, RoundsCoverStalled, Closing
  <1>3. CASE ~Closing
    <2>1. /\ generation < MaxFailures /\ generation' = generation + 1
          /\ recovery' = IF recovery = "none" THEN "starting" ELSE recovery
          /\ Publish(s, FALSE)
      BY <1>3 DEF EnterRecovery
    <2>2. /\ line' \in Seq(Streams \cup {Recovered})
          /\ telling' \in {"none", "SERVING", "NOT_SERVING"}
      BY <2>1, PublishType
    <2>3. /\ generation' \in 0..MaxFailures
          /\ recovery' \in {"none", "starting", "waiting", "checking"}
      BY <2>1, AdmissionAssumption DEF AdmissionTypeOK
    <2>4. AdmissionTypeOK'
      BY <1>1, <2>2, <2>3 DEF AdmissionTypeOK
    <2>5. AdmittingMeansSettled' /\ VodWaitsForRecovery'
      BY <1>1 DEF AdmittingMeansSettled, VodWaitsForRecovery
    <2>6. seen' <= generation' /\ seen' # generation'
      BY <1>1, <2>1, AdmissionAssumption DEF RoundsCoverStalled, AdmissionTypeOK
    <2>7. RoundsCoverStalled'
      BY <1>1, <1>3, <2>6 DEF RoundsCoverStalled, Closing
    <2> QED
      BY <2>4, <2>5, <2>7
  <1> QED
    BY <1>2, <1>3

\* The head of a round.
LEMMA RoundStep ==
    ASSUME AdmissionInv, recovery # "none", Round,
           UNCHANGED <<vodJob, generation, stalled, health, shutdown, exited>>
    PROVE  AdmissionInv'
  <1> USE DEF AdmissionInv, Round
  <1>1. AdmissionTypeOK'
    BY DEF AdmissionTypeOK
  <1>2. AdmittingMeansSettled' /\ VodWaitsForRecovery'
    BY DEF AdmittingMeansSettled, VodWaitsForRecovery
  <1>3. RoundsCoverStalled'
    BY DEF RoundsCoverStalled, Closing, AdmissionTypeOK
  <1> QED
    BY <1>1, <1>2, <1>3

LEMMA CheckPassesStep ==
    ASSUME AdmissionInv, CheckPasses
    PROVE  AdmissionInv'
  <1> USE DEF AdmissionInv
  <1>1. CASE seen # generation
    BY <1>1, RoundStep DEF CheckPasses
  <1>2. CASE seen = generation
    <2>1. /\ recovery = "checking" /\ recovery' = "none"
          /\ accepting' = TRUE /\ vodAccepting' = TRUE
          /\ Publish(Recovered, TRUE)
          /\ UNCHANGED <<seen, waitFor, vodJob, generation, stalled, health, shutdown, exited>>
      BY <1>2 DEF CheckPasses, Round
    <2>2. /\ line' \in Seq(Streams \cup {Recovered})
          /\ telling' \in {"none", "SERVING", "NOT_SERVING"}
      BY <2>1, PublishType
    <2>3. AdmissionTypeOK'
      BY <2>1, <2>2 DEF AdmissionTypeOK
    <2>4. stalled = {} /\ ~Closing
      BY <1>2, <2>1 DEF RoundsCoverStalled
    <2>5. AdmittingMeansSettled' /\ VodWaitsForRecovery'
      BY <1>2, <2>1, <2>4 DEF AdmittingMeansSettled, VodWaitsForRecovery
    <2>6. RoundsCoverStalled'
      BY <2>1, <2>4 DEF RoundsCoverStalled, Closing
    <2> QED
      BY <2>3, <2>5, <2>6
  <1> QED
    BY <1>1, <1>2

\* Steps of the line change neither admission nor the recovery.
LEMMA LineStep ==
    ASSUME AdmissionInv,
           UNCHANGED <<accepting, vodAccepting, vodJob, generation, stalled, recovery,
                       seen, waitFor, shutdown, exited>>,
           line' \in Seq(Streams \cup {Recovered}),
           telling' \in {"none", "SERVING", "NOT_SERVING"},
           health' \in {"SERVING", "NOT_SERVING"}
    PROVE  AdmissionInv'
  BY DEF AdmissionInv, AdmissionTypeOK, AdmittingMeansSettled, VodWaitsForRecovery,
         RoundsCoverStalled, Closing

LEMMA AdmissionStepInv == AdmissionInv /\ [AdmissionNext]_admissionVars => AdmissionInv'
  <1> SUFFICES ASSUME AdmissionInv, [AdmissionNext]_admissionVars PROVE AdmissionInv'
    OBVIOUS
  <1> USE DEF AdmissionInv
  <1>1. ASSUME NEW s \in Streams, FrameTimesOut(s) \/ FrameFails(s) PROVE AdmissionInv'
    BY <1>1, EnterRecoveryStep DEF FrameTimesOut, FrameFails
  <1>2. ASSUME NEW s \in Streams, LateFrameEnds(s) PROVE AdmissionInv'
    BY <1>2 DEF LateFrameEnds, AdmissionTypeOK, AdmittingMeansSettled,
                VodWaitsForRecovery, RoundsCoverStalled, Closing
  <1>3. ASSUME NEW s \in Streams, PublishCancelled(s) PROVE AdmissionInv'
    <2>1. line' \in Seq(Streams \cup {Recovered})
      BY <1>3, RemoveFirstType DEF PublishCancelled, AdmissionTypeOK
    <2> QED
      BY <1>3, <2>1, LineStep DEF PublishCancelled, AdmissionTypeOK
  <1>4. CASE RecoveryStarts
    BY <1>4, RoundStep DEF RecoveryStarts
  <1>5. CASE StalledSettled
    BY <1>5 DEF StalledSettled, AdmissionTypeOK, AdmittingMeansSettled,
                VodWaitsForRecovery, RoundsCoverStalled, Closing
  <1>6. CASE CheckPasses
    BY <1>6, CheckPassesStep
  <1>7. CASE RecoveryFails
    BY <1>7 DEF RecoveryFails, AdmissionTypeOK, AdmittingMeansSettled,
                VodWaitsForRecovery, RoundsCoverStalled, Closing
  <1>8. CASE PublishTurn
    BY <1>8, LineStep DEF PublishTurn, AdmissionTypeOK, Status
  <1>9. CASE PublishDone
    <2>1. line' \in Seq(Streams \cup {Recovered})
      BY <1>9, HeadTailProperties DEF PublishDone, AdmissionTypeOK
    <2> QED
      BY <1>9, <2>1, LineStep DEF PublishDone, AdmissionTypeOK
  <1>10. CASE VodStarts
    BY <1>10 DEF VodStarts, AdmissionTypeOK, AdmittingMeansSettled,
                 VodWaitsForRecovery, RoundsCoverStalled, Closing, ServerUp
  <1>11. CASE VodEnds
    BY <1>11 DEF VodEnds, AdmissionTypeOK, AdmittingMeansSettled,
                 VodWaitsForRecovery, RoundsCoverStalled, Closing
  <1>12. CASE ShutdownStep
    <2>1. CASE BeginShutdown
      BY <2>1 DEF BeginShutdown, AdmissionTypeOK, AdmittingMeansSettled, PauseRequested,
                  VodWaitsForRecovery, RoundsCoverStalled, Closing
    <2>2. CASE StopServer
      BY <2>2 DEF StopServer, AdmissionTypeOK, AdmittingMeansSettled,
                  VodWaitsForRecovery, RoundsCoverStalled, Closing
    <2>3. CASE CloseService
      BY <2>3 DEF CloseService, AdmissionTypeOK, AdmittingMeansSettled,
                  VodWaitsForRecovery, RoundsCoverStalled, Closing
    <2>4. CASE ServiceClosed
      BY <2>4 DEF ServiceClosed, AdmissionTypeOK, AdmittingMeansSettled,
                  VodWaitsForRecovery, RoundsCoverStalled, Closing
    <2> QED
      BY <1>12, <2>1, <2>2, <2>3, <2>4 DEF ShutdownStep
  <1>13. CASE UNCHANGED admissionVars
    BY <1>13 DEF admissionVars, AdmissionTypeOK, AdmittingMeansSettled,
                 VodWaitsForRecovery, RoundsCoverStalled, Closing
  <1> QED
    BY <1>1, <1>2, <1>3, <1>4, <1>5, <1>6, <1>7, <1>8, <1>9, <1>10, <1>11, <1>12, <1>13
    DEF AdmissionNext, RecoveryStep, PublishStep

\* The inductive invariant holds in every state.
THEOREM AdmissionInvariant == AdmissionSpec => []AdmissionInv
  <1> QED
    BY AdmissionInitInv, AdmissionStepInv, PTL DEF AdmissionSpec

\* The worker admits streams only on a runtime with no stalled inference, no
\* recovery under way and no failure since the last self-check began.
THEOREM AdmissionSettled == AdmissionSpec => []AdmittingMeansSettled
  <1>1. AdmissionInv => AdmittingMeansSettled
    BY DEF AdmissionInv
  <1> QED
    BY <1>1, AdmissionInvariant, PTL

\* No VOD job runs unpaused while admission is closed.
THEOREM AdmissionPausesVod == AdmissionSpec => []VodWaitsForRecovery
  <1>1. AdmissionInv => VodWaitsForRecovery
    BY DEF AdmissionInv
  <1> QED
    BY <1>1, AdmissionInvariant, PTL

-----------------------------------------------------------------------------
(* The streams *)

\* Where a handler has a session to give back.
Holding == {"inferring", "tellTimeout", "tellFailure", "fatalPending", "composeWaiting",
            "composing"} \cup Settling

\* What runs for stream s has a handler that waits for it and holds its
\* session, or it has timed out and the recovery waits for it.
Attended(s) ==
    /\ pc[s] \in Holding => s \in leased
    /\ task[s] = "running" =>
          \/ pc[s] \in {"inferring", "settling"}
          \/ s \in stalled /\ pc[s] \in {"tellTimeout", "fatalPending", "off"}
    /\ worker[s] = "running" => pc[s] \in {"composing", "composeSettling"}

StreamsTypeOK ==
    /\ pc \in [Streams -> Awaits]
    /\ task \in [Streams -> Work]
    /\ worker \in [Streams -> Work]
    /\ leased \in SUBSET Streams

LiveInv ==
    /\ AdmissionInv
    /\ StreamsTypeOK
    /\ \A s \in Streams : Attended(s)

\* Whatever a stream does is a step of Admission or none of its business.
LEMMA StreamsStepAdmission == LiveNext => [AdmissionNext]_admissionVars
  <1> SUFFICES ASSUME LiveNext PROVE [AdmissionNext]_admissionVars
    OBVIOUS
  <1> USE DEF AdmissionNext
  <1>0. ~exited
    BY DEF LiveNext
  <1>1. ASSUME NEW s \in Streams,
               \/ Open(s) \/ NextRequest(s) \/ Replied(s) \/ TakeSlot(s) \/ ComposeEnds(s)
               \/ Decoded(s) \/ Result(s) \/ Composed(s) \/ Settled(s)
        PROVE  UNCHANGED admissionVars
    BY <1>1 DEF Open, NextRequest, Replied, TakeSlot, ComposeEnds, Decoded, Result, Composed, Settled
  <1>2. ASSUME NEW s \in Streams, TrackerInitFails(s) \/ InferenceFails(s) \/ InferenceTimesOut(s)
        PROVE  AdmissionNext
    BY <1>0, <1>2 DEF TrackerInitFails, InferenceFails, InferenceTimesOut
  <1>3. ASSUME NEW s \in Streams, TaskEnds(s) PROVE [AdmissionNext]_admissionVars
    BY <1>0, <1>3 DEF TaskEnds
  <1>4. ASSUME NEW s \in Streams, Cancel(s) PROVE [AdmissionNext]_admissionVars
    BY <1>0, <1>4 DEF Cancel
  <1>5. CASE TellDone
    BY <1>0, <1>5 DEF TellDone, PublishStep
  <1>6. CASE PublishTurn \/ RecoveryStep \/ VodStarts \/ VodEnds
    BY <1>0, <1>6 DEF PublishStep
  <1>7. CASE Shutdown
    BY <1>0, <1>7 DEF Shutdown, ShutdownStep
  <1> QED
    BY <1>1, <1>2, <1>3, <1>4, <1>5, <1>6, <1>7, Zenon DEF LiveNext, Handler

\* A step of stream s leaves what the others have alone; what was stalled
\* stays so, but for s itself.
LEMMA OneStream ==
    ASSUME LiveInv, AdmissionInv', StreamsTypeOK', NEW s \in Streams,
           \A r \in Streams \ {s} :
              /\ pc'[r] = pc[r] /\ task'[r] = task[r] /\ worker'[r] = worker[r]
              /\ r \in leased' <=> r \in leased
              /\ r \in stalled => r \in stalled',
           Attended(s)'
    PROVE  LiveInv'
  BY DEF LiveInv, Attended

\* Steps of the rest of the worker, which forgets no stalled frame.
LEMMA NoStream ==
    ASSUME LiveInv, AdmissionInv', UNCHANGED streamVars, UNCHANGED stalled
    PROVE  LiveInv'
  BY DEF LiveInv, StreamsTypeOK, Attended, streamVars

LEMMA LiveStepInv == LiveInv /\ [LiveNext]_liveVars => LiveInv'
  <1> SUFFICES ASSUME LiveInv, [LiveNext]_liveVars PROVE LiveInv'
    OBVIOUS
  <1>a. AdmissionInv'
    BY AdmissionStepInv, StreamsStepAdmission DEF LiveInv, liveVars
  <1>i. StreamsTypeOK /\ \A s \in Streams : Attended(s)
    BY DEF LiveInv
  <1> USE DEF Goto, Finish, Holding, Settling, Telling
  <1>1. ASSUME NEW s \in Streams, Open(s) \/ TrackerInitFails(s) PROVE LiveInv'
    <2>1. /\ \E to \in {"reading", "tellAbort"} : pc' = [pc EXCEPT ![s] = to]
          /\ task' = [task EXCEPT ![s] = "none"] /\ pc[s] = "off"
          /\ UNCHANGED <<worker, leased, stalled>>
      BY <1>1 DEF Open, TrackerInitFails, Admitted, FrameFails, admissionVars
    <2>2. StreamsTypeOK'
      BY <1>i, <2>1 DEF StreamsTypeOK, Awaits, Work
    <2>3. Attended(s)'
      BY <1>i, <2>1 DEF StreamsTypeOK, Attended
    <2> QED
      BY <1>a, <1>i, <2>1, <2>2, <2>3, OneStream DEF StreamsTypeOK
  <1>2. ASSUME NEW s \in Streams, NextRequest(s) \/ Replied(s) PROVE LiveInv'
    <2>1. StreamsTypeOK'
      BY <1>i, <1>2 DEF NextRequest, Replied, StreamsTypeOK, Awaits
    <2>2. Attended(s)'
      BY <1>i, <1>2 DEF NextRequest, Replied, StreamsTypeOK, Attended, admissionVars
    <2> QED
      BY <1>a, <1>i, <1>2, <2>1, <2>2, OneStream DEF NextRequest, Replied, StreamsTypeOK, admissionVars
  <1>3. ASSUME NEW s \in Streams, Decoded(s) PROVE LiveInv'
    <2>1. StreamsTypeOK'
      BY <1>i, <1>3 DEF Decoded, StreamsTypeOK, Awaits, Work
    <2>2. Attended(s)'
      BY <1>i, <1>3 DEF Decoded, StreamsTypeOK, Attended, admissionVars
    <2> QED
      BY <1>a, <1>i, <1>3, <2>1, <2>2, OneStream DEF Decoded, StreamsTypeOK, admissionVars
  <1>4. ASSUME NEW s \in Streams, Result(s) \/ InferenceFails(s) PROVE LiveInv'
    <2>1. /\ \E to \in {"composeWaiting", "replying", "fatal", "tellFailure"} :
                pc' = [pc EXCEPT ![s] = to]
          /\ task' = [task EXCEPT ![s] = "none"] /\ pc[s] = "inferring"
          /\ UNCHANGED <<worker, leased, stalled>>
      BY <1>4 DEF Result, InferenceFails, FrameFails, admissionVars
    <2>2. StreamsTypeOK'
      BY <1>i, <2>1 DEF StreamsTypeOK, Awaits, Work
    <2>3. Attended(s)'
      BY <1>i, <2>1 DEF StreamsTypeOK, Attended
    <2> QED
      BY <1>a, <1>i, <2>1, <2>2, <2>3, OneStream DEF StreamsTypeOK
  <1>5. ASSUME NEW s \in Streams, InferenceTimesOut(s) PROVE LiveInv'
    <2>1. /\ pc' = [pc EXCEPT ![s] = "tellTimeout"] /\ pc[s] = "inferring"
          /\ stalled' = stalled \cup {s}
          /\ UNCHANGED <<task, worker, leased>>
      BY <1>5 DEF InferenceTimesOut, FrameTimesOut
    <2>2. StreamsTypeOK'
      BY <1>i, <2>1 DEF StreamsTypeOK, Awaits
    <2>3. Attended(s)'
      BY <1>i, <2>1 DEF StreamsTypeOK, Attended
    <2> QED
      BY <1>a, <1>i, <2>1, <2>2, <2>3, OneStream DEF StreamsTypeOK
  <1>6. ASSUME NEW s \in Streams, TaskEnds(s) PROVE LiveInv'
    <2>1. /\ task' = [task EXCEPT ![s] = "done"]
          /\ stalled' = stalled \/ stalled' = stalled \ {s}
          /\ UNCHANGED <<pc, worker, leased>>
      BY <1>6 DEF TaskEnds, LateFrameEnds, admissionVars
    <2>2. StreamsTypeOK'
      BY <1>i, <2>1 DEF StreamsTypeOK, Work
    <2>3. Attended(s)'
      BY <1>i, <2>1 DEF StreamsTypeOK, Attended
    <2> QED
      BY <1>a, <1>i, <2>1, <2>2, <2>3, OneStream DEF StreamsTypeOK
  <1>7. ASSUME NEW s \in Streams, TakeSlot(s) \/ ComposeEnds(s) \/ Composed(s) PROVE LiveInv'
    <2>1. StreamsTypeOK'
      BY <1>i, <1>7 DEF TakeSlot, ComposeEnds, Composed, StreamsTypeOK, Awaits, Work
    <2>2. Attended(s)'
      BY <1>i, <1>7 DEF TakeSlot, ComposeEnds, Composed, StreamsTypeOK, Attended, admissionVars
    <2> QED
      BY <1>a, <1>i, <1>7, <2>1, <2>2, OneStream
         DEF TakeSlot, ComposeEnds, Composed, StreamsTypeOK, admissionVars
  <1>8. ASSUME NEW s \in Streams, Settled(s) PROVE LiveInv'
    <2>1. StreamsTypeOK'
      BY <1>i, <1>8 DEF Settled, StreamsTypeOK, Awaits, Work
    <2>2. Attended(s)'
      BY <1>i, <1>8 DEF Settled, StreamsTypeOK, Attended, admissionVars
    <2> QED
      BY <1>a, <1>i, <1>8, <2>1, <2>2, OneStream DEF Settled, StreamsTypeOK, admissionVars
  <1>9. ASSUME NEW s \in Streams, Cancel(s) PROVE LiveInv'
    <2>1. /\ UNCHANGED <<task, worker, stalled>>
          /\ \/ /\ pc[s] \in {"reading", "decoding", "composeWaiting", "replying", "fatal"} \cup Telling
                /\ pc' = [pc EXCEPT ![s] = "off"] /\ leased' = leased \ {s}
             \/ /\ pc[s] \in {"inferring", "fatalPending"}
                /\ pc' = [pc EXCEPT ![s] = "settling"] /\ leased' = leased
             \/ /\ pc[s] = "composing"
                /\ pc' = [pc EXCEPT ![s] = "composeSettling"] /\ leased' = leased
      BY <1>9 DEF Cancel, PublishCancelled, admissionVars
    <2>2. StreamsTypeOK'
      BY <1>i, <2>1 DEF StreamsTypeOK, Awaits
    <2>3. Attended(s)'
      BY <1>i, <2>1 DEF StreamsTypeOK, Attended
    <2> QED
      BY <1>a, <1>i, <2>1, <2>2, <2>3, OneStream DEF StreamsTypeOK
  <1>10. CASE TellDone
    <2>1. UNCHANGED <<stalled, task, worker>>
      BY <1>10 DEF TellDone, PublishDone
    <2>2. CASE UNCHANGED <<pc, leased>>
      BY <1>a, <2>1, <2>2, NoStream DEF streamVars
    <2>3. ASSUME NEW s \in Streams, Resumed(s) PROVE LiveInv'
      <3>1. StreamsTypeOK'
        BY <1>i, <2>1, <2>3 DEF Resumed, StreamsTypeOK, Awaits
      <3>2. Attended(s)'
        BY <1>i, <2>1, <2>3 DEF Resumed, StreamsTypeOK, Attended
      <3> QED
        BY <1>a, <1>i, <2>1, <2>3, <3>1, <3>2, OneStream DEF Resumed, StreamsTypeOK
    <2> QED
      BY <1>10, <2>2, <2>3 DEF TellDone
  <1>11. CASE (PublishTurn \/ RecoveryStep \/ VodStarts \/ VodEnds) /\ UNCHANGED streamVars
    BY <1>a, <1>11, NoStream
       DEF PublishTurn, RecoveryStep, RecoveryStarts, StalledSettled, CheckPasses, RecoveryFails,
           VodStarts, VodEnds
  <1>12. CASE Shutdown
    BY <1>a, <1>12, NoStream DEF Shutdown, BeginShutdown, StopServer, CloseService, ServiceClosed
  <1>13. CASE UNCHANGED liveVars
    BY <1>a, <1>13, NoStream DEF liveVars, admissionVars
  <1> QED
    BY <1>1, <1>2, <1>3, <1>4, <1>5, <1>6, <1>7, <1>8, <1>9, <1>10, <1>11, <1>12, <1>13, Zenon
    DEF LiveNext, Handler

\* The inductive invariant of the streams over admission.
THEOREM LiveInvariant == LiveSpec => []LiveInv
  <1>1. LiveInit => LiveInv
    <2> SUFFICES ASSUME LiveInit PROVE LiveInv
      OBVIOUS
    <2>1. AdmissionInv
      BY AdmissionInitInv DEF LiveInit
    <2>2. StreamsTypeOK
      BY DEF LiveInit, StreamsTypeOK, Awaits, Work
    <2>3. \A s \in Streams : Attended(s)
      BY DEF LiveInit, Attended, Holding, Settling
    <2> QED
      BY <2>1, <2>2, <2>3 DEF LiveInv
  <1> QED
    BY <1>1, LiveStepInv, PTL DEF LiveSpec

\* Refinement: the handlers of streams, with their timeouts, cancellations and
\* compositions, drive recovery, publication and shutdown as Admission says.
THEOREM LiveKeepsAdmission == LiveSpec => StreamsKeepAdmission
  <1>1. LiveInit => AdmissionInit
    BY DEF LiveInit
  <1>2. [LiveNext]_liveVars => [AdmissionNext]_admissionVars
    BY StreamsStepAdmission DEF liveVars
  <1> QED
    BY <1>1, <1>2, PTL DEF LiveSpec, StreamsKeepAdmission, AdmissionSpec

\* While a composition runs, its stream has not cleared its identities nor
\* released its session, whatever was cancelled.
THEOREM LiveCompositionKeepsState == LiveSpec => []CompositionKeepsState
  <1>1. LiveInv => CompositionKeepsState
    BY DEF LiveInv, Attended, Holding, Settling, CompositionKeepsState
  <1> QED
    BY <1>1, LiveInvariant, PTL

\* An inference whose stream has ended is one the recovery waits for.
THEOREM LiveOrphans == LiveSpec => []OrphansAreStalled
  <1>1. LiveInv => OrphansAreStalled
    BY DEF LiveInv, Attended, OrphansAreStalled
  <1> QED
    BY <1>1, LiveInvariant, PTL

\* When the worker admits streams, every inference on the runtime belongs to a
\* handler that waits for it and holds its session.
THEOREM LiveAdmitsOnACleanRuntime == LiveSpec => []AdmitsOnACleanRuntime
  <1>1. LiveInv => AdmitsOnACleanRuntime
    BY DEF LiveInv, AdmissionInv, AdmittingMeansSettled, Attended, Holding, Settling,
           AdmitsOnACleanRuntime
  <1> QED
    BY <1>1, LiveInvariant, PTL
=============================================================================
