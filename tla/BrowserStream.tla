----------------------------- MODULE BrowserStream -----------------------------
(***************************************************************************)
(* web/app.js, the streaming half of class App: start, capture, encode, pump, *)
(* receive, the render queue and the two ends, failClosed and completeVideo.   *)
(* The page is one thread: a handler is a function from the App's fields to    *)
(* new ones, and what suspends it (blobs, decodes, timers, animation frames)   *)
(* is what can come back later, perhaps to another run.  A run is a start and  *)
(* stands for its generation; frames are known by their sequence.              *)
(***************************************************************************)
EXTENDS Naturals, FiniteSets

CONSTANTS
    RequestWindow,   \* activeProfile.requestWindow
    MaxSequence,     \* MAX_SEQUENCE
    MaxRuns          \* bound: starts of one page

ASSUME WindowAssumption ==
    RequestWindow \in Nat \ {0} /\ MaxSequence \in Nat \ {0} /\ MaxRuns \in Nat

VARIABLES
    app,        \* the App's fields
    blobs,      \* how many toBlob callbacks of each run are to come
    decodes,    \* decodes under way: <<run, sequence>>
    timers,     \* response timers that are set: <<run, sequence>>
    shown       \* the frame on the output canvas, or Black

streamVars == <<app, blobs, decodes, timers, shown>>

Runs == 1..MaxRuns
Black == <<0, 0>>

Stopped == {"idle", "complete"}

App ==
    [run: 0..MaxRuns, mode: {"camera", "video"},
     stage: {"idle", "complete", "checking", "input", "connecting", "running"},
     sourceEnded: BOOLEAN, videoEnded: BOOLEAN, encoding: BOOLEAN, pending: BOOLEAN,
     inFlight: SUBSET (1..MaxSequence), next: 1..(MaxSequence + 1), terminal: 0..MaxSequence,
     renderRequest: BOOLEAN, active: 0..MaxSequence, waiting: 0..MaxSequence,
     committed: 0..MaxSequence]

StreamTypeOK ==
    /\ app \in App
    /\ blobs \in [Runs -> Nat]
    /\ decodes \subseteq Runs \X (1..MaxSequence) /\ timers \subseteq Runs \X (1..MaxSequence)
    /\ shown \in (Runs \X (1..MaxSequence)) \cup {Black}

Reset(run, mode) ==
    [run |-> run, mode |-> mode, stage |-> "checking", sourceEnded |-> FALSE,
     videoEnded |-> FALSE, encoding |-> FALSE, pending |-> FALSE, inFlight |-> {},
     next |-> 1, terminal |-> 0, renderRequest |-> FALSE, active |-> 0, waiting |-> 0,
     committed |-> 0]

StreamInit ==
    /\ app = [Reset(0, "camera") EXCEPT !.stage = "idle"]
    /\ blobs = [r \in Runs |-> 0]
    /\ decodes = {} /\ timers = {}
    /\ shown = Black

IsRunning(a) == a.stage = "running"
IsRun(a, r) == IsRunning(a) /\ a.run = r

Flights(a) == {a.run} \X a.inFlight

-----------------------------------------------------------------------------
(* The methods that other methods call.                                        *)

\* failClosed: all fields but those that only start resets.
Failed(a) ==
    [a EXCEPT !.stage = "idle", !.inFlight = {}, !.pending = FALSE, !.renderRequest = FALSE,
              !.active = 0, !.waiting = 0, !.videoEnded = FALSE]

FailClosed ==
    /\ app' = Failed(app)
    /\ timers' = timers \ Flights(app)
    /\ shown' = Black

\* Room in the window and a frame: its packet is sent.  At the end of the
\* sequences the page fails instead, see Becomes.
Exhausts(a) ==
    IsRunning(a) /\ a.pending /\ Cardinality(a.inFlight) < RequestWindow /\ a.next > MaxSequence

Pump(a) ==
    IF IsRunning(a) /\ a.pending /\ Cardinality(a.inFlight) < RequestWindow /\ a.next <= MaxSequence
    THEN [a EXCEPT !.inFlight = @ \cup {a.next}, !.next = @ + 1, !.pending = FALSE]
    ELSE a

ScheduleRender(a) ==
    IF IsRunning(a) /\ ~a.renderRequest /\ a.active = 0 /\ a.waiting # 0
    THEN [a EXCEPT !.renderRequest = TRUE]
    ELSE a

MaybeFinishVideo(a) ==
    IF /\ a.videoEnded /\ IsRunning(a) /\ ~a.encoding /\ ~a.pending
       /\ a.inFlight = {} /\ ~a.renderRequest /\ a.active = 0 /\ a.waiting = 0
    THEN [a EXCEPT !.stage = "complete"]
    ELSE a

FinishVideoInput(a) ==
    IF IsRunning(a) /\ a.mode = "video" /\ ~a.videoEnded
    THEN MaybeFinishVideo([a EXCEPT !.videoEnded = TRUE])
    ELSE a

\* The fields become a, and the frames it sent have their timers; a pump that
\* found no sequence left has failed the page.
Becomes(a) ==
    IF Exhausts(a)
    THEN FailClosed
    ELSE app' = a /\ timers' = timers \cup (Flights(a) \ Flights(app)) /\ UNCHANGED shown

-----------------------------------------------------------------------------
(* start                                                                       *)

\* A stopped page's button; the output turns black.
Start(mode) ==
    /\ app.stage \in Stopped /\ app.run < MaxRuns
    /\ app' = Reset(app.run + 1, mode)
    /\ shown' = Black
    /\ UNCHANGED <<blobs, decodes, timers>>

\* The gateway is ready, and then the camera or the file plays.
StartGoesOn ==
    /\ app.stage \in {"checking", "input"}
    /\ app' = [app EXCEPT !.stage = IF @ = "checking" THEN "input" ELSE "connecting"]
    /\ UNCHANGED <<blobs, decodes, timers, shown>>

StartFails ==
    /\ app.stage \in {"checking", "input"}
    /\ FailClosed
    /\ UNCHANGED <<blobs, decodes>>

\* Mutant: a video that ended before the socket opened is forgotten.
SocketOpensUnasked ==
    /\ app.stage = "connecting"
    /\ app' = [app EXCEPT !.stage = "running"]
    /\ UNCHANGED <<blobs, decodes, timers, shown>>

SocketOpens ==
    /\ app.stage = "connecting"
    /\ LET opened == [app EXCEPT !.stage = "running"]
       IN app' = IF app.sourceEnded THEN FinishVideoInput(opened) ELSE opened
    /\ UNCHANGED <<blobs, decodes, timers, shown>>

\* An error or the close of this socket; a stop while it is open.
SocketFails ==
    /\ app.stage \in {"connecting", "running"}
    /\ FailClosed
    /\ UNCHANGED <<blobs, decodes>>

-----------------------------------------------------------------------------
(* The frames of a run.                                                        *)

\* A frame that is due is drawn, and its encoding starts; while the video plays.
Capture ==
    /\ IsRunning(app) /\ ~app.videoEnded /\ ~app.encoding
    /\ app' = [app EXCEPT !.encoding = TRUE]
    /\ blobs' = [blobs EXCEPT ![app.run] = @ + 1]
    /\ UNCHANGED <<decodes, timers, shown>>

\* toBlob's callback clears the flag, whichever run it was of.
Encoded(r) ==
    /\ blobs[r] > 0
    /\ blobs' = [blobs EXCEPT ![r] = @ - 1]
    /\ LET cleared == [app EXCEPT !.encoding = FALSE]
       IN IF IsRun(app, r)
          THEN LET pumped == Pump([cleared EXCEPT !.pending = TRUE])
               IN Becomes(IF Exhausts(pumped) THEN pumped ELSE MaybeFinishVideo(pumped))
          ELSE app' = cleared /\ UNCHANGED <<timers, shown>>
    /\ UNCHANGED decodes

EncodeFails(r) ==
    /\ blobs[r] > 0 /\ IsRun(app, r)
    /\ blobs' = [blobs EXCEPT ![r] = @ - 1]
    /\ app' = [Failed(app) EXCEPT !.encoding = FALSE]
    /\ timers' = timers \ Flights(app)
    /\ shown' = Black
    /\ UNCHANGED decodes

\* The video's ended event, before or after the socket opened.
SourceEnds ==
    /\ app.stage \in {"connecting", "running"} /\ app.mode = "video" /\ ~app.sourceEnded
    /\ app' = FinishVideoInput([app EXCEPT !.sourceEnded = TRUE])
    /\ UNCHANGED <<blobs, decodes, timers, shown>>

\* An answer frees its request's place, which may be taken at once, and replaces a
\* result that waits to be rendered.  It may pass older requests, whose answers
\* are then refused.
Receive ==
    /\ IsRunning(app)
    /\ \E s \in app.inFlight :
          LET freed == Pump([app EXCEPT !.inFlight = @ \ {s}, !.terminal = s])
          IN /\ s > app.terminal
             /\ IF Exhausts(freed)
                THEN FailClosed
                ELSE /\ app' = ScheduleRender([freed EXCEPT !.waiting = s])
                     /\ timers' = (timers \ {<<app.run, s>>}) \cup (Flights(freed) \ Flights(app))
                     /\ UNCHANGED shown
    /\ UNCHANGED <<blobs, decodes>>

\* An error of the gateway; an answer older than the last, of no request in
\* flight, of another size or session.
ReceiveFails ==
    /\ IsRunning(app)
    /\ FailClosed
    /\ UNCHANGED <<blobs, decodes>>

\* A timer asks nothing: it fails the page that is there when it fires.
ResponseTimeout(t) ==
    /\ t \in timers
    /\ app' = Failed(app)
    /\ timers' = timers \ (Flights(app) \cup {t})
    /\ shown' = Black
    /\ UNCHANGED <<blobs, decodes>>

\* The animation frame: the waiting result is decoded.
RenderNext ==
    /\ app.renderRequest
    /\ app' = [app EXCEPT !.renderRequest = FALSE, !.active = app.waiting, !.waiting = 0]
    /\ decodes' = decodes \cup {<<app.run, app.waiting>>}
    /\ UNCHANGED <<blobs, timers, shown>>

\* The finally of renderNext.
Finish(a, d) ==
    MaybeFinishVideo(ScheduleRender(
        IF a.run = d[1] /\ a.active = d[2] THEN [a EXCEPT !.active = 0] ELSE a))

CanCommit(d) == IsRun(app, d[1]) /\ app.active = d[2] /\ d[2] > app.committed

\* Mutant: what was decoded is drawn, whatever happened meanwhile.
DecodedDraws(d) ==
    /\ d \in decodes
    /\ decodes' = decodes \ {d}
    /\ app' = Finish([app EXCEPT !.committed = d[2]], d) /\ shown' = d
    /\ UNCHANGED <<blobs, timers>>

Decoded(d) ==
    /\ d \in decodes
    /\ decodes' = decodes \ {d}
    /\ IF CanCommit(d)
       THEN app' = Finish([app EXCEPT !.committed = d[2]], d) /\ shown' = d
       ELSE app' = Finish(app, d) /\ UNCHANGED shown
    /\ UNCHANGED <<blobs, timers>>

\* A decode that fails fails the run it belongs to.
DecodeFails(d) ==
    /\ d \in decodes
    /\ decodes' = decodes \ {d}
    /\ IF IsRun(app, d[1])
       THEN FailClosed
       ELSE app' = Finish(app, d) /\ UNCHANGED <<timers, shown>>
    /\ UNCHANGED blobs

FrameSteps ==
    \/ Capture \/ SourceEnds \/ Receive \/ ReceiveFails \/ RenderNext
    \/ \E r \in Runs : Encoded(r) \/ EncodeFails(r)
    \/ \E t \in timers : ResponseTimeout(t)
    \/ \E d \in decodes : Decoded(d) \/ DecodeFails(d)

SocketSteps == StartGoesOn \/ StartFails \/ SocketOpens \/ SocketFails

-----------------------------------------------------------------------------
(* What is on the canvas is a result of the run that is streaming, or of the    *)
(* video that has just completed, else it is black: a decode that outlives its  *)
(* run, through failures, a stop or a restart, never shows (app.js:1758).        *)
NothingStaleIsShown == shown # Black => shown[1] = app.run /\ app.stage \in {"running", "complete"}

(* A timer belongs to a request in flight, through answers, failures and         *)
(* restarts: as its callback asks for no run, one left over would fail the next   *)
(* (app.js:1672).                                                                *)
TimersBelongToFlights == timers = Flights(app)

(* A video completes only when its last frame that was sent is on the canvas,   *)
(* whatever order encodes, answers and decodes end in (app.js:1783).             *)
CompletedShowsTheLast ==
    app.stage = "complete" => app.committed = app.next - 1
=============================================================================
