------------------------------ MODULE WebRtcDemo ------------------------------
(***************************************************************************)
(* web/webrtc.js: one page over the gateway.  Every start is an attempt of    *)
(* its own, suspended at each await while stop, the page's unload or another   *)
(* start may run; generation tells it whether it is still the page's attempt.  *)
(* Attempt number n is the n-th start and its offer.                            *)
(***************************************************************************)
EXTENDS WebRtcGateway

\* 0 names no attempt.
ASSUME AttemptsAssumption == Offers \subseteq Nat \ {0}

VARIABLES
    stage,     \* where each start() is suspended
    camera,    \* the attempts whose stream is capturing
    current,   \* the attempt of this.generation while busy, 0 when stopped
    stream,    \* whose stream this.stream is, 0 for null
    conn,      \* whose connection this.pc is
    peerId     \* whose peer this.peerId names

pageVars == <<stage, camera, current, stream, conn, peerId>>
demoVars == <<gatewayVars, pageVars>>

DemoTypeOK ==
    /\ GatewayTypeOK
    /\ stage \in [Offers -> {"unused", "input", "playing", "offering", "posting",
                             "connecting", "up", "over"}]
    /\ camera \subseteq Offers
    /\ {current, stream, conn, peerId} \subseteq Offers \cup {0}

DemoInit ==
    /\ GatewayInit
    /\ stage = [a \in Offers |-> "unused"]
    /\ camera = {}
    /\ current = 0 /\ stream = 0 /\ conn = 0 /\ peerId = 0

GoesTo(a, s) == stage' = [stage EXCEPT ![a] = s]

\* A DELETE closes its peer or is lost on the way: nothing else names the peer,
\* so that when it arrives makes no difference.
Deleted(a) ==
    \/ a # 0 /\ Delete(a)
    \/ UNCHANGED gatewayVars

\* stop(): everything the page holds is let go of.
Stop ==
    /\ current' = 0 /\ stream' = 0 /\ conn' = 0 /\ peerId' = 0
    /\ camera' = camera \ {stream}
    /\ Deleted(peerId)

\* The start of attempt a throws: the page fails if the attempt is still its own.
Throws(a) ==
    /\ GoesTo(a, "over")
    /\ IF a = current
       THEN Stop
       ELSE UNCHANGED <<gatewayVars, camera, current, stream, conn, peerId>>

-----------------------------------------------------------------------------
Start(a) ==
    /\ current = 0 /\ stage[a] = "unused"
    /\ \A b \in Offers : b < a => stage[b] # "unused"
    /\ current' = a
    /\ GoesTo(a, "input")
    /\ UNCHANGED <<gatewayVars, camera, stream, conn, peerId>>

\* The stop button, the end of the file, pagehide, a lost connection, a report
\* of an error, results that stopped.
UserStops ==
    /\ current # 0
    /\ Stop
    /\ UNCHANGED stage

\* Mutant: the stream that comes after a stop is kept.
InputKept(a) ==
    /\ stage[a] = "input"
    /\ GoesTo(a, "playing")
    /\ camera' = camera \cup {a} /\ stream' = a
    /\ UNCHANGED <<gatewayVars, current, conn, peerId>>

\* getUserMedia or the file's play() resolves.
InputReady(a) ==
    /\ stage[a] = "input"
    /\ IF a = current
       THEN GoesTo(a, "playing") /\ camera' = camera \cup {a} /\ stream' = a
       ELSE GoesTo(a, "over") /\ UNCHANGED <<camera, stream>>
    /\ UNCHANGED <<gatewayVars, current, conn, peerId>>

Playing(a) ==
    /\ stage[a] = "playing"
    /\ IF a = current
       THEN GoesTo(a, "offering") /\ conn' = a
       ELSE GoesTo(a, "over") /\ UNCHANGED conn
    /\ UNCHANGED <<gatewayVars, camera, current, stream, peerId>>

\* The offer is made and its candidates are gathered.
Posts(a, ready) ==
    /\ stage[a] = "offering"
    /\ IF a = current
       THEN GoesTo(a, "posting") /\ OfferArrives(a, ready)
       ELSE GoesTo(a, "over") /\ UNCHANGED gatewayVars
    /\ UNCHANGED <<camera, current, stream, conn, peerId>>

StartFails(a) ==
    /\ stage[a] \in {"input", "playing", "offering", "connecting"}
    /\ Throws(a)

Answer(a) ==
    /\ stage[a] = "posting" /\ offer[a] = "answered"
    /\ IF a = current
       THEN GoesTo(a, "connecting") /\ peerId' = a /\ UNCHANGED gatewayVars
       ELSE GoesTo(a, "over") /\ Deleted(a) /\ UNCHANGED peerId
    /\ UNCHANGED <<camera, current, stream, conn>>

\* A refusal, or a request whose answer is lost while its peer stays.
AnswerFails(a) ==
    /\ stage[a] = "posting" /\ offer[a] # "idle"
    /\ Throws(a)

Connected(a) ==
    /\ stage[a] = "connecting"
    /\ GoesTo(a, IF a = current THEN "up" ELSE "over")
    /\ UNCHANGED <<gatewayVars, camera, current, stream, conn, peerId>>

\* The peers that get media: the page's, once it has its answer.
Receiving == {p \in Offers : conn = p /\ stage[p] \in {"connecting", "up"}}

Sweeps == Sweep(Receiving) /\ UNCHANGED pageVars

DemoNext ==
    \/ GatewaySteps /\ UNCHANGED pageVars
    \/ UserStops \/ Sweeps
    \/ \E a \in Offers :
          \/ Start(a) \/ InputReady(a) \/ Playing(a) \/ \E ready \in BOOLEAN : Posts(a, ready)
          \/ StartFails(a) \/ Answer(a) \/ AnswerFails(a) \/ Connected(a)

\* The event loop runs what is ready, timeouts fire, the sweeper wakes every
\* five seconds; nothing is asked of users, networks or the results.
DemoFairness == GatewayFairness /\ WF_demoVars(Sweeps)

DemoSpec == DemoInit /\ [][DemoNext]_demoVars /\ DemoFairness

-----------------------------------------------------------------------------
(* The camera captures for the page's attempt only: a stream that a stopped     *)
(* start obtains late, or that another start replaced, is not left on           *)
(* (webrtc.js:135).                                                             *)
CameraFollowsThePage == camera \subseteq {current} \ {0} /\ camera \subseteq {stream}

(* Whichever start was overtaken or stopped at whichever await, and whoever       *)
(* closed its peer, neither end works on for it: the page's camera is off and      *)
(* the gateway's track has no task (webrtc.js:135, webrtc.py:327), unless the       *)
(* sweeper that was closing the peer was cancelled by the gateway's close.          *)
NothingIsLeftOn == TracksBelongToPeers /\ CameraFollowsThePage

(* A peer whose attempt the page has left is released, if not by the page's     *)
(* DELETE, which may be lost or never sent, then by the sweeper, as long as the  *)
(* gateway is not shutting down (webrtc.py:336).                                *)
AbandonedPeersGo ==
    \A a \in Offers : (a \in peers /\ current # a) ~> (a \notin peers \/ Stopping)
=============================================================================
