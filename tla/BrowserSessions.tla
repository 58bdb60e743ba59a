---------------------------- MODULE BrowserSessions ----------------------------
(***************************************************************************)
(* web/app.js, the session half of class App over the streaming half: the     *)
(* list of sessions, the selected one and its whitelist entries, and the       *)
(* requests that create, list, delete, enroll and ask, each suspended while    *)
(* the user goes on with whatever the page has left enabled.                  *)
(***************************************************************************)
EXTENDS BrowserStream

CONSTANTS
    Sessions,      \* session ids the gateway may give, 1 .. n, in that order
    Presses,       \* bound: handlers of the two buttons that are under way at once
    MaxHandlers,   \* bound: handlers of any control that are under way at once
    SessionRuns,   \* bound: starts of one page that exercises the requests
    Exercises      \* bound: "stream" lets frames flow, "sessions" the requests

ASSUME SessionsAssumption == Sessions \subseteq Nat \ {0} /\ 1 \in Sessions

VARIABLES
    exercise,      \* which of the two this behaviour exercises
    server,        \* sessions of the gateway
    used,          \* how many ids it has given
    known,         \* this.sessionStatuses
    selected,      \* the value of session-id, 0 for none
    stored,        \* the tab's session in sessionStorage
    streaming,     \* this.streamSessionId, 0 for null
    entriesOf,     \* whose entries this.whitelistEntryIds are, 0 for none shown
    asked,         \* whitelist status requests under way, and who awaits each
    buttons,       \* which of new-session and refresh-whitelist are enabled
    pressed,       \* how far the handler of each press of them is
    deleting,      \* this.deletingSessionId and how far its handler is
    managing       \* enrolling or deletingWhitelistEntryId, and how far its handler is

sessionVars == <<server, used, known, selected, stored, streaming, entriesOf,
                 asked, buttons, pressed, deleting, managing>>
pageVars == <<exercise, streamVars, sessionVars>>

Buttons == {"new", "refresh"}
Handlers == Presses \cup {"select", "delete", "manage"}

NoDelete == [id |-> 0, at |-> "none"]
NoPress == [button |-> "none", at |-> "none", ids |-> {}]

SessionsTypeOK ==
    /\ StreamTypeOK
    /\ exercise \in Exercises
    /\ server \subseteq Sessions /\ known \subseteq Sessions
    /\ asked \subseteq [of: Sessions, by: Handlers]
    /\ used \in Nat
    /\ {selected, stored, streaming, entriesOf} \subseteq Sessions \cup {0}
    /\ buttons \subseteq Buttons
    /\ pressed \in [Presses -> [button: Buttons \cup {"none"},
                                at: {"none", "request", "creating", "status"},
                                ids: SUBSET Sessions]]
    /\ deleting \in [id: Sessions \cup {0}, at: {"none", "request", "creating", "status"}]
    /\ managing \in {"no", "request", "status"}

\* After initializeSessions: session 1 is the tab's, and its entries are shown.
SessionsInit ==
    /\ StreamInit
    /\ exercise \in Exercises
    /\ server = {1} /\ used = 1 /\ known = {1}
    /\ selected = 1 /\ stored = 1 /\ streaming = 0
    /\ entriesOf = 1
    /\ asked = {} /\ buttons = Buttons /\ pressed = [p \in Presses |-> NoPress]
    /\ deleting = NoDelete /\ managing = "no"

Quiet(vars) == UNCHANGED vars /\ UNCHANGED exercise

-----------------------------------------------------------------------------
(* renderSessions: which session is selected, and which controls are enabled.  *)

StreamLocked == IsRunning(app) \/ streaming # 0

\* Mutant: a delete under way locks nothing.
LockedByWhitelist == managing # "no"

ManagementLocked == managing # "no" \/ deleting.id # 0

ControlsLocked == StreamLocked \/ ManagementLocked

\* Any id stands for the newest where the list decides.  The other controls are
\* set by it alone; the two buttons by their own handlers too.
Render(list, active) ==
    /\ selected' \in IF active \in list THEN {active} ELSE IF list = {} THEN {0} ELSE list
    /\ buttons' = IF ControlsLocked' THEN {} ELSE Buttons

-----------------------------------------------------------------------------
(* Streaming, as the sessions see it.                                          *)

StartStreaming(mode) ==
    /\ ~ControlsLocked /\ selected # 0
    /\ Start(mode)
    /\ streaming' = selected
    /\ Quiet(<<server, used, known, stored, entriesOf, asked, pressed, deleting, managing>>)
    /\ Render(known, selected)

\* The open socket selects its session again, an end of the stream the one that
\* is selected.
Streams ==
    /\ SocketSteps \/ (exercise = "stream" /\ FrameSteps)
    /\ Quiet(<<server, used, known, stored, entriesOf, asked, pressed, deleting, managing>>)
    /\ LET ends == app'.stage \in Stopped /\ app.stage \notin Stopped
           opens == app.stage = "connecting" /\ app'.stage \in {"running", "complete"}
       IN /\ streaming' = IF ends THEN 0 ELSE streaming
          /\ IF ends \/ opens
             THEN Render(known, IF opens THEN streaming ELSE selected)
             ELSE UNCHANGED <<selected, buttons>>

-----------------------------------------------------------------------------
(* The requests.                                                               *)

Asks(s, by) == asked' = asked \cup {[of |-> s, by |-> by]}

UnderWay(by) ==
    \/ by \in Presses /\ pressed[by] # NoPress
    \/ by = "delete" /\ deleting # NoDelete
    \/ by = "manage" /\ managing # "no"

\* The bound: the user does not press one control more.
UserMayPress ==
    Cardinality({by \in Handlers : UnderWay(by)})
        + Cardinality({q \in asked : q.by = "select"}) < MaxHandlers

Select(s) ==
    /\ UserMayPress /\ ~ControlsLocked /\ s \in known \ {selected}
    /\ stored' = s /\ entriesOf' = 0
    /\ Asks(s, "select")
    /\ Quiet(<<streamVars, server, used, known, streaming, pressed, deleting, managing>>)
    /\ Render(known, s)

\* The finally of a button's handler: it looks at the stream that runs only.
PressEnds(p, enabled) ==
    /\ pressed' = [pressed EXCEPT ![p] = NoPress]
    /\ buttons' = IF IsRunning(app) THEN enabled \ {pressed[p].button}
                                    ELSE enabled \cup {pressed[p].button}
    /\ UNCHANGED <<selected, deleting, managing>>

\* The handler that awaited the status of a session ends; the buttons are as the
\* answer has left them.
HandlerEnds(by, enabled) ==
    \/ by \in Presses /\ PressEnds(by, enabled)
    \/ /\ by = "select" /\ buttons' = enabled
       /\ UNCHANGED <<selected, pressed, deleting, managing>>
    \/ /\ by = "delete" /\ deleting' = NoDelete
       /\ UNCHANGED <<app, streaming, pressed, managing>>
       /\ Render(known', selected)
    \/ /\ by = "manage" /\ managing' = "no"
       /\ UNCHANGED <<app, streaming, pressed, deleting>>
       /\ Render(known', selected)

\* refreshWhitelistStatus resumes: a session that answers is listed again, and
\* its entries are shown if it is still the selected one.
StatusAnswered(q) ==
    /\ q \in asked /\ asked' = asked \ {q}
    /\ known' = known \cup {q.of}
    /\ entriesOf' = IF selected = q.of THEN q.of ELSE entriesOf
    /\ Quiet(<<streamVars, server, used, stored, streaming>>)
    /\ HandlerEnds(q.by, IF selected # q.of THEN buttons ELSE IF ControlsLocked THEN {} ELSE Buttons)

StatusFails(q) ==
    /\ q \in asked /\ asked' = asked \ {q}
    /\ Quiet(<<streamVars, server, used, known, stored, streaming, entriesOf>>)
    /\ HandlerEnds(q.by, buttons)

\* The gateway's CreateSession.
Gives(s) == s = used + 1 /\ s \in Sessions /\ used' = s /\ server' = server \cup {s}

\* Created, listed, stored, selected and asked for its status.
Adopts(s, list, by) ==
    /\ Gives(s)
    /\ known' = list \cup {s}
    /\ stored' = s
    /\ Asks(s, by)
    /\ Render(known', s)

\* A button that is enabled starts its handler, though an earlier press's may run.
Press(p, button, ids) ==
    /\ UserMayPress /\ button \in buttons
    /\ pressed[p] = NoPress /\ p = CHOOSE q \in Presses : pressed[q] = NoPress
    /\ pressed' = [pressed EXCEPT ![p] = [button |-> button, at |-> "request", ids |-> ids]]
    /\ buttons' = buttons \ {button}
    /\ Quiet(<<streamVars, server, used, known, selected, stored, streaming, entriesOf, asked,
               deleting, managing>>)

NewSession(p) == Press(p, "new", {})

\* The list is as the gateway was when it answered.
Refresh(p) == Press(p, "refresh", server)

NewSessionCreated(p, s) ==
    /\ pressed[p].button = "new" /\ pressed[p].at = "request"
    /\ pressed' = [pressed EXCEPT ![p].at = "status"]
    /\ Quiet(<<streamVars, streaming, entriesOf, deleting, managing>>)
    /\ Adopts(s, known, p)

\* ensureTabSession: the tab's session if it is in the list, else a new one.
Refreshed(p) ==
    /\ pressed[p].button = "refresh" /\ pressed[p].at = "request"
    /\ Quiet(<<streamVars, server, used, stored, streaming, entriesOf, deleting, managing>>)
    /\ IF stored \in pressed[p].ids
       THEN /\ pressed' = [pressed EXCEPT ![p].at = "status", ![p].ids = {}]
            /\ known' = pressed[p].ids
            /\ Asks(stored, p)
            /\ Render(known', stored)
       ELSE /\ pressed' = [pressed EXCEPT ![p].at = "creating"]
            /\ UNCHANGED <<known, selected, asked, buttons>>

RefreshCreates(p, s) ==
    /\ pressed[p].at = "creating"
    /\ pressed' = [pressed EXCEPT ![p].at = "status", ![p].ids = {}]
    /\ Quiet(<<streamVars, streaming, entriesOf, deleting, managing>>)
    /\ Adopts(s, pressed[p].ids, p)

\* The create or the list of a press fails.
PressFails(p) ==
    /\ pressed[p].at \in {"request", "creating"}
    /\ PressEnds(p, buttons)
    /\ Quiet(<<streamVars, server, used, known, stored, streaming, entriesOf, asked>>)

\* A row's button: not while another delete or enrollment runs, nor of the
\* session that streams.
DeleteSession(s) ==
    /\ UserMayPress /\ ~ManagementLocked /\ s \in known /\ s # streaming
    /\ deleting' = [id |-> s, at |-> "request"]
    /\ Quiet(<<streamVars, server, used, known, stored, streaming, entriesOf, asked, pressed,
               managing>>)
    /\ Render(known, selected)

\* Gone from the gateway: another one is selected, or one has to be created.
SessionDeleted ==
    /\ deleting.at = "request"
    /\ server' = server \ {deleting.id}
    /\ known' = known \ {deleting.id}
    /\ Quiet(<<streamVars, used, streaming, entriesOf, pressed, managing>>)
    /\ \E active \in IF selected # deleting.id THEN {selected}
                     ELSE IF known' = {} THEN {0} ELSE known' :
          IF active = 0
          THEN /\ deleting' = [deleting EXCEPT !.at = "creating"]
               /\ UNCHANGED <<selected, stored, asked, buttons>>
          ELSE /\ deleting' = [deleting EXCEPT !.at = "status"]
               /\ stored' = active
               /\ Asks(active, "delete")
               /\ Render(known', active)

DeleteCreates(s) ==
    /\ deleting.at = "creating"
    /\ deleting' = [deleting EXCEPT !.at = "status"]
    /\ Quiet(<<streamVars, streaming, entriesOf, pressed, managing>>)
    /\ Adopts(s, known, "delete")

\* In use, unknown or unreachable: the list is read again if it can be.
DeleteFails ==
    /\ deleting.at \in {"request", "creating"}
    /\ deleting' = NoDelete
    /\ known' \in {known, server}
    /\ Quiet(<<streamVars, server, used, stored, streaming, entriesOf, asked, pressed, managing>>)
    /\ Render(known', selected)

Manages(what) ==
    /\ managing' = what
    /\ Quiet(<<streamVars, server, used, known, stored, streaming, entriesOf, pressed, deleting>>)

\* The enroll button does not look at a delete under way; a chip's does.
Enroll ==
    /\ UserMayPress /\ managing = "no" /\ selected # 0
    /\ Manages("request") /\ UNCHANGED asked /\ Render(known, selected)

RemoveEntry ==
    /\ UserMayPress /\ ~ManagementLocked /\ entriesOf # 0 /\ selected # 0
    /\ Manages("request") /\ UNCHANGED asked /\ Render(known, selected)

\* An answer asks for the status of the session that is selected now.
Managed ==
    /\ managing = "request" /\ selected # 0
    /\ Manages("status") /\ Asks(selected, "manage") /\ UNCHANGED <<selected, buttons>>

ManageFails ==
    /\ managing = "request"
    /\ Manages("no") /\ UNCHANGED asked /\ Render(known, selected)

Requests ==
    \/ SessionDeleted \/ DeleteFails \/ Enroll \/ RemoveEntry \/ Managed \/ ManageFails
    \/ \E q \in asked : StatusAnswered(q) \/ StatusFails(q)
    \/ \E s \in Sessions : Select(s) \/ DeleteSession(s) \/ DeleteCreates(s)
    \/ \E p \in Presses :
          \/ NewSession(p) \/ Refresh(p) \/ Refreshed(p) \/ PressFails(p)
          \/ \E s \in Sessions : NewSessionCreated(p, s) \/ RefreshCreates(p, s)

PageNext ==
    \/ exercise = "stream" /\ \E mode \in {"camera", "video"} : StartStreaming(mode)
    \/ exercise = "sessions" /\ app.run < SessionRuns /\ StartStreaming("camera")
    \/ Streams
    \/ exercise = "sessions" /\ Requests

PageSpec == SessionsInit /\ [][PageNext]_pageVars

\* The browser delivers what is due to a visible page: blobs, decodes, animation
\* frames and timers; the gateway need not answer.
PageFairness ==
    /\ \A r \in Runs : WF_pageVars(exercise = "stream" /\ Streams /\ (Encoded(r) \/ EncodeFails(r)))
    /\ WF_pageVars(exercise = "stream" /\ Streams /\ RenderNext)
    /\ WF_pageVars(exercise = "stream" /\ Streams /\ \E d \in decodes : Decoded(d) \/ DecodeFails(d))
    /\ WF_pageVars(exercise = "stream" /\ Streams /\ (Receive \/ \E t \in timers : ResponseTimeout(t)))
    /\ WF_pageVars(app.stage = "connecting" /\ Streams /\ (SocketOpens \/ SocketFails))

FairPageSpec == PageSpec /\ PageFairness

-----------------------------------------------------------------------------
(* A video that has played to its end comes to an end on the page too, complete  *)
(* or failed, also when it ended before the socket opened and though the gateway  *)
(* may not answer (app.js:1783).                                                 *)
VideosEnd ==
    (exercise = "stream" /\ app.sourceEnded /\ app.stage \notin Stopped) ~> (app.stage \in Stopped)

(* The page never deletes the session it streams: neither a start during a        *)
(* delete nor a delete during a start or a stream, whatever else is rendered in    *)
(* between (app.js:1425, app.js:1483).                                             *)
DeletesSpareTheStream == deleting.at # "none" => deleting.id # streaming

(* An answer that comes late, for a session that is no longer selected, never      *)
(* replaces the entries of the one that is (app.js:1256).                          *)
LateAnswersAreNotShown ==
    [][entriesOf' # entriesOf => entriesOf' \in {0, selected'}]_entriesOf
=============================================================================
