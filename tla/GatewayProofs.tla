----------------------------- MODULE GatewayProofs -----------------------------
(***************************************************************************)
(* Proofs about the two gateways of a page: the peers of the WebRTC gateway  *)
(* under the page that makes them (WebRtcDemo), and the WebSocket or image    *)
(* session over the gRPC client (GatewaySession).                             *)
(***************************************************************************)
EXTENDS GatewaySession, WebRtcDemo, FiniteSetTheorems, SequenceTheorems, TLAPS

-----------------------------------------------------------------------------
(* The peers of the WebRTC gateway.                                            *)

\* A handler that has not made its peer yet has left no trace of it; a peer
\* that was popped is not listed again; and a connection that is still open
\* belongs to a listed peer or to a close that comes to it.
PeersAreOrderly ==
    \A p \in Offers :
        /\ offer[p] \in {"idle", "checking"} => closing[p] = "no" /\ p \notin peers
        /\ closing[p] # "no" => p \notin peers
        /\ p \in sweeping => closing[p] # "no"
        /\ pc[p] = "open" => p \in peers \/ closing[p] \in {"pc", "cancelled"}

GatewayInv == GatewayTypeOK /\ PeersAreOrderly /\ TracksBelongToPeers

LEMMA GatewayInitially == GatewayInit => GatewayInv
BY DEF GatewayInit, GatewayInv, GatewayTypeOK, PeersAreOrderly, TracksBelongToPeers,
       Running, Exists, Absent

Tracks == [slot: {"empty", "frame", "end"}, slotClosed: BOOLEAN, drain: BOOLEAN,
           feed: {"none", "unstarted", "getting", "sent", "over"}]

\* A track may change as it likes as long as its work ends with its peer.
LEMMA TrackChanges ==
  ASSUME GatewayInv, NEW p \in Offers, NEW t \in Tracks,
         track' = [track EXCEPT ![p] = t],
         UNCHANGED <<offer, peers, closing, pc, sweeping, shutdown>>,
         failing' \subseteq Offers,
         t.feed # "none" /\ (t.drain \/ t.feed \in {"getting", "sent"}) =>
            Running(p) \/ pc[p] = "open"
  PROVE  GatewayInv'
<1>1. GatewayTypeOK'
  BY DEF GatewayInv, GatewayTypeOK, Tracks
<1>2. PeersAreOrderly'
  BY DEF GatewayInv, PeersAreOrderly
<1>3. ASSUME NEW q \in Offers, Running(q)'
      PROVE  q \in peers \/ closing[q] \in {"pc", "track", "cancelled"}
  <2>1. Running(q) \/ pc[q] = "open"
    <3>1. CASE q = p
      BY <1>3, <3>1 DEF GatewayInv, GatewayTypeOK, Running, Exists
    <3>2. CASE q # p
      BY <1>3, <3>2 DEF GatewayInv, GatewayTypeOK, Running, Exists
    <3> QED
      BY <3>1, <3>2
  <2> QED
    BY <2>1 DEF GatewayInv, PeersAreOrderly, TracksBelongToPeers
<1> QED
  BY <1>1, <1>2, <1>3 DEF GatewayInv, TracksBelongToPeers

\* What a track does keeps the peers as they are.
LEMMA TrackStepKeeps ==
  ASSUME GatewayInv, NEW p \in Offers, TrackSteps(p)
  PROVE  GatewayInv'
<1>0. track[p] \in Tracks /\ failing \subseteq Offers
  BY DEF GatewayInv, GatewayTypeOK, Tracks
<1>1. CASE FrameReceived(p)
  <2> DEFINE t == Put(track[p])
  <2>1. t \in Tracks /\ t.feed = track[p].feed /\ t.drain = track[p].drain
    BY <1>0 DEF Put, Tracks
  <2> QED
    BY <1>0, <1>1, <2>1, TrackChanges DEF FrameReceived, Change, requestVars
<1>2. CASE SourceFails(p)
  <2> DEFINE t == [SlotClosed(track[p]) EXCEPT !.drain = FALSE]
  <2>1. SlotClosed(track[p]) \in Tracks /\ SlotClosed(track[p]).feed = track[p].feed
    BY <1>0 DEF SlotClosed, Tracks
  <2>2. t \in Tracks /\ t.feed = track[p].feed /\ t.drain = FALSE
    BY <2>1 DEF Tracks
  <2>3. track' = [track EXCEPT ![p] = t] /\ UNCHANGED requestVars
    BY <1>2 DEF SourceFails, Change
  <2> HIDE DEF t
  <2> QED
    BY <1>0, <2>2, <2>3, TrackChanges DEF requestVars, Running, Exists
<1>3. CASE RecvStarts(p)
  <2> DEFINE t == [track[p] EXCEPT !.feed = "getting"]
  <2>1. t \in Tracks
    BY <1>0 DEF Tracks
  <2>2. track' = [track EXCEPT ![p] = t] /\ UNCHANGED requestVars /\ pc[p] = "open"
    BY <1>3 DEF RecvStarts, Change
  <2> HIDE DEF t
  <2> QED
    BY <1>0, <2>1, <2>2, TrackChanges DEF requestVars
<1>4. CASE FrameTaken(p)
  <2> DEFINE t == [track[p] EXCEPT !.feed = "sent", !.slot = "empty"]
  <2>1. t \in Tracks
    BY <1>0 DEF Tracks
  <2>2. track' = [track EXCEPT ![p] = t] /\ UNCHANGED requestVars /\ Running(p)
    BY <1>4 DEF FrameTaken, Change, Running, Exists
  <2> HIDE DEF t
  <2> QED
    BY <1>0, <2>1, <2>2, TrackChanges DEF requestVars
<1>5. CASE FrameAnswered(p)
  <2> DEFINE t == [track[p] EXCEPT !.feed = "getting"]
  <2>1. t \in Tracks
    BY <1>0 DEF Tracks
  <2>2. track' = [track EXCEPT ![p] = t] /\ UNCHANGED requestVars /\ Running(p)
    BY <1>5 DEF FrameAnswered, Change, Running, Exists
  <2> HIDE DEF t
  <2> QED
    BY <1>0, <2>1, <2>2, TrackChanges DEF requestVars
<1>6. ASSUME NEW slot \in {"empty", "frame", "end"}, RecvFails(p, slot),
             track[p].feed \in {"getting", "sent"}
      PROVE  GatewayInv'
  <2> DEFINE t == [track[p] EXCEPT !.feed = "over", !.slot = slot]
  <2>1. t \in Tracks
    BY <1>0 DEF Tracks
  <2>2. /\ track' = [track EXCEPT ![p] = t] /\ failing' = failing \cup {p}
        /\ UNCHANGED <<offer, peers, closing, pc, sweeping, shutdown>>
        /\ Running(p)
    BY <1>6 DEF RecvFails, Change, Running, Exists
  <2> HIDE DEF t
  <2> QED
    BY <1>0, <2>1, <2>2, TrackChanges
<1>7. EndTaken(p) => GatewayInv'
  BY <1>6 DEF EndTaken
<1>8. StreamFails(p) => GatewayInv'
  <2>1. track[p].slot \in {"empty", "frame", "end"}
    BY <1>0 DEF Tracks
  <2> QED
    BY <1>6, <2>1 DEF StreamFails
<1> QED
  BY <1>1, <1>2, <1>3, <1>4, <1>5, <1>7, <1>8 DEF TrackSteps

OfferStates == {"idle", "checking", "negotiating", "answered", "refused"}

\* Whoever pops peers leaves each of them to its own close.
LEMMA PopKeeps ==
  ASSUME GatewayInv, NEW ps, Popped(ps), UNCHANGED <<pc, track>>,
         offer' \in [Offers -> OfferStates],
         \A p \in Offers : offer'[p] \in {"idle", "checking"} => offer[p] \in {"idle", "checking"},
         failing' \subseteq Offers, sweeping' \subseteq sweeping \cup (ps \cap peers),
         shutdown' \in {"no", "sweeper", "peers"}
  PROVE  GatewayInv'
BY DEF GatewayInv, GatewayTypeOK, PeersAreOrderly, TracksBelongToPeers, Popped, Running,
       Exists, OfferStates

LEMMA CloseStepKeeps ==
  ASSUME GatewayInv, NEW p \in Offers,
         \/ PcCloses(p) \/ TrackCloses(p) \/ FailTaskRuns(p) \/ ConnectionFails(p) \/ Delete(p)
  PROVE  GatewayInv'
<1>0. track[p] \in Tracks /\ Absent \in Tracks
  BY DEF GatewayInv, GatewayTypeOK, Tracks, Absent
<1>1. CASE PcCloses(p)
  <2> DEFINE t == [track[p] EXCEPT !.feed = IF @ = "none" THEN @ ELSE "over"]
  <2>1. t \in Tracks /\ t.drain = track[p].drain /\ t.feed \in {"none", "over"}
        /\ (t.feed = "none" <=> track[p].feed = "none")
    BY <1>0 DEF Tracks
  <2>2. /\ track' = [track EXCEPT ![p] = t]
        /\ closing[p] = "pc" /\ closing' = [closing EXCEPT ![p] = "track"]
        /\ pc' = [pc EXCEPT ![p] = "closed"]
        /\ UNCHANGED <<offer, peers, failing, sweeping, shutdown>>
    BY <1>1 DEF PcCloses, Change
  <2> HIDE DEF t
  <2>3. GatewayTypeOK'
    BY <2>1, <2>2 DEF GatewayInv, GatewayTypeOK, Tracks
  <2>4. PeersAreOrderly'
    BY <2>2 DEF GatewayInv, GatewayTypeOK, PeersAreOrderly
  <2>5. TracksBelongToPeers'
    BY <2>1, <2>2 DEF GatewayInv, GatewayTypeOK, TracksBelongToPeers, Running, Exists
  <2> QED
    BY <2>3, <2>4, <2>5 DEF GatewayInv
<1>2. CASE TrackCloses(p)
  <2>1. /\ track' = [track EXCEPT ![p] = Absent] /\ sweeping' = sweeping \ {p}
        /\ closing[p] = "track" /\ closing' = [closing EXCEPT ![p] = "done"]
        /\ UNCHANGED <<offer, peers, failing, pc, shutdown>>
    BY <1>2 DEF TrackCloses, Change
  <2>2. GatewayTypeOK'
    BY <1>0, <2>1 DEF GatewayInv, GatewayTypeOK, Tracks
  <2>3. PeersAreOrderly'
    BY <2>1 DEF GatewayInv, GatewayTypeOK, PeersAreOrderly
  <2>4. ASSUME NEW q \in Offers, Running(q)'
        PROVE  q \in peers \/ closing'[q] \in {"pc", "track", "cancelled"}
    <3>1. q # p /\ track'[q] = track[q] /\ closing'[q] = closing[q]
      BY <2>1, <2>4 DEF GatewayInv, GatewayTypeOK, Running, Exists, Absent
    <3> QED
      BY <2>4, <3>1 DEF GatewayInv, TracksBelongToPeers, Running, Exists
  <2> QED
    BY <2>1, <2>2, <2>3, <2>4 DEF GatewayInv, TracksBelongToPeers
<1>3. CASE FailTaskRuns(p) \/ ConnectionFails(p) \/ Delete(p)
  <2>1. /\ Popped({p}) /\ failing' \subseteq failing
        /\ UNCHANGED <<offer, pc, track, sweeping, shutdown>>
    BY <1>3 DEF FailTaskRuns, ConnectionFails, Delete
  <2> QED
    BY <2>1, PopKeeps DEF GatewayInv, GatewayTypeOK, OfferStates
<1> QED
  BY <1>1, <1>2, <1>3

LEMMA OfferStepKeeps ==
  ASSUME GatewayInv, NEW p \in Offers,
         OfferSteps(p) \/ (\E ready \in BOOLEAN : OfferArrives(p, ready))
  PROVE  GatewayInv'
<1>1. CASE OfferInvalid(p) \/ OfferAnswered(p)
  <2>1. PICK final \in {"refused", "answered"} :
           /\ offer' = [offer EXCEPT ![p] = final]
           /\ UNCHANGED <<peers, closing, failing, pc, track, sweeping, shutdown>>
    BY <1>1 DEF OfferInvalid, OfferAnswered
  <2>2. GatewayTypeOK'
    BY <2>1 DEF GatewayInv, GatewayTypeOK
  <2>3. PeersAreOrderly'
    BY <2>1 DEF GatewayInv, GatewayTypeOK, PeersAreOrderly
  <2>4. TracksBelongToPeers'
    BY <2>1 DEF GatewayInv, TracksBelongToPeers, Running, Exists
  <2> QED
    BY <2>2, <2>3, <2>4 DEF GatewayInv
<1>2. CASE Reserves(p)
  <2>1. /\ closing' = closing /\ track' = track /\ sweeping' = sweeping
        /\ failing' = failing /\ shutdown' = shutdown
        /\ closing[p] = "no" /\ p \notin sweeping
    BY <1>2 DEF Reserves, GatewayInv, PeersAreOrderly
  <2>2. CASE Cardinality(peers) < MaxPeers
    <3>1. /\ offer' = [offer EXCEPT ![p] = "negotiating"]
          /\ peers' = peers \cup {p} /\ pc' = [pc EXCEPT ![p] = "open"]
      BY <1>2, <2>2 DEF Reserves
    <3> QED
      BY <2>1, <3>1 DEF GatewayInv, GatewayTypeOK, PeersAreOrderly, TracksBelongToPeers,
                        Running, Exists
  <2>3. CASE ~(Cardinality(peers) < MaxPeers)
    <3>1. offer' = [offer EXCEPT ![p] = "refused"] /\ peers' = peers /\ pc' = pc
      BY <1>2, <2>3 DEF Reserves
    <3> QED
      BY <2>1, <3>1 DEF GatewayInv, GatewayTypeOK, PeersAreOrderly, TracksBelongToPeers,
                        Running, Exists
  <2> QED
    BY <2>2, <2>3
<1>3. CASE TrackAppears(p)
  <2> DEFINE t == [Absent EXCEPT !.drain = TRUE, !.feed = "unstarted"]
  <2>1. t \in Tracks
    BY DEF Tracks, Absent
  <2>2. track' = [track EXCEPT ![p] = t] /\ UNCHANGED requestVars /\ pc[p] = "open"
    BY <1>3 DEF TrackAppears, Change
  <2> HIDE DEF t
  <2> QED
    BY <2>1, <2>2, TrackChanges DEF requestVars, GatewayInv, GatewayTypeOK
<1>4. CASE OfferFails(p)
  <2>1. Popped({p}) /\ offer' = [offer EXCEPT ![p] = "refused"]
        /\ UNCHANGED <<failing, pc, track, sweeping, shutdown>>
    BY <1>4 DEF OfferFails
  <2> QED
    BY <2>1, PopKeeps DEF GatewayInv, GatewayTypeOK, OfferStates
<1>5. ASSUME NEW ready \in BOOLEAN, OfferArrives(p, ready)
      PROVE  GatewayInv'
  BY <1>5 DEF OfferArrives, GatewayInv, GatewayTypeOK, PeersAreOrderly, TracksBelongToPeers,
              Running, Exists
<1> QED
  BY <1>1, <1>2, <1>3, <1>4, <1>5 DEF OfferSteps

LEMMA ShutdownStepKeeps ==
  ASSUME GatewayInv, ShutdownBegins \/ ShutdownPeers \/ (\E receiving : Sweep(receiving))
  PROVE  GatewayInv'
<1>1. CASE ShutdownBegins
  BY <1>1 DEF ShutdownBegins, GatewayInv, GatewayTypeOK, PeersAreOrderly, TracksBelongToPeers,
              Running, Exists
<1>2. CASE ShutdownPeers
  BY <1>2, PopKeeps DEF ShutdownPeers, GatewayInv, GatewayTypeOK, OfferStates
<1>3. ASSUME NEW receiving, Sweep(receiving)
      PROVE  GatewayInv'
  <2>1. PICK stale \in SUBSET peers : Popped(stale) /\ sweeping' = stale
    BY <1>3 DEF Sweep
  <2>2. UNCHANGED <<offer, failing, pc, track, shutdown>>
    BY <1>3 DEF Sweep
  <2> QED
    BY <2>1, <2>2, PopKeeps DEF GatewayInv, GatewayTypeOK, OfferStates
<1> QED
  BY <1>1, <1>2, <1>3

\* Every step of the page and the gateway keeps the gateway's invariant.
LEMMA DemoStepKeepsGateway ==
  ASSUME GatewayInv, DemoTypeOK, [DemoNext]_demoVars
  PROVE  GatewayInv'
<1>0. ASSUME UNCHANGED gatewayVars
      PROVE  GatewayInv'
  BY <1>0 DEF gatewayVars, GatewayInv, GatewayTypeOK, PeersAreOrderly, TracksBelongToPeers,
              Running, Exists
<1>1. ASSUME NEW a \in Offers \cup {0}, Deleted(a)
      PROVE  GatewayInv'
  BY <1>0, <1>1, CloseStepKeeps DEF Deleted
<1>2. ASSUME Stop
      PROVE  GatewayInv'
  BY <1>1, <1>2 DEF Stop, DemoTypeOK
<1>3. ASSUME NEW a \in Offers, Throws(a)
      PROVE  GatewayInv'
  BY <1>0, <1>2, <1>3 DEF Throws
<1>4. CASE GatewaySteps
  BY <1>4, TrackStepKeeps, OfferStepKeeps, CloseStepKeeps, ShutdownStepKeeps DEF GatewaySteps
<1>5. CASE Sweeps
  BY <1>5, ShutdownStepKeeps DEF Sweeps
<1>6. CASE UserStops
  BY <1>2, <1>6 DEF UserStops
<1>7. ASSUME NEW a \in Offers, Start(a) \/ InputReady(a) \/ Playing(a) \/ Connected(a)
      PROVE  GatewayInv'
  BY <1>0, <1>7 DEF Start, InputReady, Playing, Connected
<1>8. ASSUME NEW a \in Offers, NEW ready \in BOOLEAN, Posts(a, ready)
      PROVE  GatewayInv'
  BY <1>0, <1>8, OfferStepKeeps DEF Posts
<1>9. ASSUME NEW a \in Offers, StartFails(a) \/ AnswerFails(a) \/ Answer(a)
      PROVE  GatewayInv'
  BY <1>0, <1>1, <1>3, <1>9 DEF StartFails, AnswerFails, Answer
<1>10. CASE UNCHANGED demoVars
  BY <1>0, <1>10 DEF demoVars
<1> QED
  BY <1>4, <1>5, <1>6, <1>7, <1>8, <1>9, <1>10 DEF DemoNext

\* The page's state keeps its types, and its camera follows it.
LEMMA PageStepKeeps ==
  ASSUME DemoTypeOK, CameraFollowsThePage, GatewayTypeOK', [DemoNext]_demoVars
  PROVE  DemoTypeOK' /\ CameraFollowsThePage'
<1> USE AttemptsAssumption DEF DemoTypeOK, CameraFollowsThePage, GoesTo
<1>1. ASSUME Stop, stage' = stage \/ \E a \in Offers : GoesTo(a, "over")
      PROVE  DemoTypeOK' /\ CameraFollowsThePage'
  BY <1>1 DEF Stop
<1>2. ASSUME NEW a \in Offers, Throws(a)
      PROVE  DemoTypeOK' /\ CameraFollowsThePage'
  BY <1>1, <1>2 DEF Throws
<1>3. CASE (GatewaySteps /\ UNCHANGED pageVars) \/ Sweeps \/ UNCHANGED demoVars
  BY <1>3 DEF Sweeps, pageVars, demoVars
<1>4. CASE UserStops
  BY <1>1, <1>4 DEF UserStops
<1>5. ASSUME NEW a \in Offers, Start(a) \/ InputReady(a) \/ Playing(a) \/ Connected(a)
      PROVE  DemoTypeOK' /\ CameraFollowsThePage'
  <2>1. CASE Start(a)
    BY <2>1 DEF Start
  <2>2. CASE InputReady(a)
    BY <2>2 DEF InputReady
  <2>3. CASE Playing(a)
    BY <2>3 DEF Playing
  <2>4. CASE Connected(a)
    BY <2>4 DEF Connected
  <2> QED
    BY <1>5, <2>1, <2>2, <2>3, <2>4
<1>6. ASSUME NEW a \in Offers, NEW ready \in BOOLEAN, Posts(a, ready)
      PROVE  DemoTypeOK' /\ CameraFollowsThePage'
  BY <1>6 DEF Posts
<1>7. ASSUME NEW a \in Offers, StartFails(a) \/ AnswerFails(a)
      PROVE  DemoTypeOK' /\ CameraFollowsThePage'
  BY <1>2, <1>7 DEF StartFails, AnswerFails
<1>8. ASSUME NEW a \in Offers, Answer(a)
      PROVE  DemoTypeOK' /\ CameraFollowsThePage'
  BY <1>8 DEF Answer
<1> QED
  BY <1>3, <1>4, <1>5, <1>6, <1>7, <1>8 DEF DemoNext

DemoInv == DemoTypeOK /\ GatewayInv /\ CameraFollowsThePage

LEMMA DemoInvariant == DemoSpec => []DemoInv
<1>1. DemoInit => DemoInv
  BY GatewayInitially DEF DemoInit, DemoInv, DemoTypeOK, GatewayInv, CameraFollowsThePage
<1>2. DemoInv /\ [DemoNext]_demoVars => DemoInv'
  BY DemoStepKeepsGateway, PageStepKeeps DEF DemoInv, GatewayInv
<1> QED
  BY <1>1, <1>2, PTL DEF DemoSpec

\* TracksBelongToPeers: for any number of pages' offers and any capacity of the
\* gateway, no drain task and no stream of results works for a peer that is gone
\* (webrtc.py:177, 327), however the five callers of close_peer interleave.
THEOREM TracksBelongToPeersHolds == DemoSpec => []TracksBelongToPeers
BY DemoInvariant, PTL DEF DemoInv, GatewayInv

\* CameraFollowsThePage: after any number of starts, stops and late streams the
\* only camera left on is that of the page's own attempt (webrtc.js:135).
THEOREM CameraFollowsThePageHolds == DemoSpec => []CameraFollowsThePage
BY DemoInvariant, PTL DEF DemoInv

\* NothingIsLeftOn: for any number of offers and any capacity, neither end works
\* for an attempt that was stopped or overtaken (webrtc.js:135, webrtc.py:327).
THEOREM NothingIsLeftOnHolds == DemoSpec => []NothingIsLeftOn
BY TracksBelongToPeersHolds, CameraFollowsThePageHolds, PTL DEF NothingIsLeftOn

\* The two capacity checks with an await between them never let in more peers
\* than there is room for (webrtc.py:220, 243).
PeersFit == IsFiniteSet(peers) /\ Cardinality(peers) <= MaxPeers

THEOREM PeersFitHolds == DemoSpec => []PeersFit
<1>1. DemoInit => PeersFit
  BY FS_EmptySet, MaxPeersAssumption DEF DemoInit, GatewayInit, PeersFit
<1>2. ASSUME PeersFit, [DemoNext]_demoVars
      PROVE  PeersFit'
  <2>1. ASSUME peers' \subseteq peers
        PROVE  PeersFit'
    BY <1>2, <2>1, FS_Subset, FS_CardinalityType, MaxPeersAssumption DEF PeersFit
  <2>2. ASSUME NEW p \in Offers, Reserves(p)
        PROVE  PeersFit'
    <3>1. CASE peers' = peers
      BY <2>1, <3>1
    <3>2. CASE peers' = peers \cup {p} /\ Cardinality(peers) < MaxPeers
      BY <1>2, <3>2, FS_AddElement, FS_CardinalityType, MaxPeersAssumption DEF PeersFit
    <3> QED
      BY <2>2, <3>1, <3>2 DEF Reserves
  <2>3. peers' \subseteq peers \/ \E p \in Offers : Reserves(p)
    <3> USE DEF Popped, Deleted, Delete, Stop, Throws, gatewayVars, requestVars
    <3>1. CASE UNCHANGED demoVars
      BY <3>1 DEF demoVars
    <3>2. CASE GatewaySteps
      BY <3>2 DEF GatewaySteps, TrackSteps, FrameReceived, SourceFails, RecvStarts, FrameTaken,
           FrameAnswered, EndTaken, StreamFails, RecvFails, OfferSteps, OfferInvalid,
           TrackAppears, OfferAnswered, OfferFails, PcCloses, TrackCloses, FailTaskRuns,
           ConnectionFails, ShutdownBegins, ShutdownPeers
    <3>3. CASE UserStops \/ Sweeps
      BY <3>3 DEF UserStops, Sweeps, Sweep
    <3>4. CASE \E a \in Offers :
          \/ Start(a) \/ InputReady(a) \/ Playing(a) \/ \E ready \in BOOLEAN : Posts(a, ready)
          \/ StartFails(a) \/ Answer(a) \/ AnswerFails(a) \/ Connected(a)
      BY <3>4 DEF Start, InputReady, Playing, Posts, OfferArrives, StartFails, Answer,
           AnswerFails, Connected
    <3> QED
      BY <1>2, <3>1, <3>2, <3>3, <3>4 DEF DemoNext
  <2> QED
    BY <2>1, <2>2, <2>3
<1> QED
  BY <1>1, <1>2, PTL DEF DemoSpec

\* A peer is closed by one of its callers only: once its close has begun it is
\* not listed again, and no caller begins another (webrtc.py:327).
ClosesOn(p) ==
    /\ p \notin peers'
    /\ \/ closing'[p] \in {closing[p], "cancelled"}
       \/ closing[p] = "pc" /\ closing'[p] = "track"
       \/ closing[p] = "track" /\ closing'[p] = "done"

PeersCloseOnce == [][\A p \in Offers : closing[p] # "no" => ClosesOn(p)]_demoVars

THEOREM PeersCloseOnceHolds == DemoSpec => PeersCloseOnce
<1>1. ASSUME DemoInv, DemoInv', DemoNext, NEW p \in Offers, closing[p] # "no"
      PROVE  ClosesOn(p)
  <2> DEFINE Onward == \/ closing'[p] \in {closing[p], "cancelled"}
                       \/ closing[p] = "pc" /\ closing'[p] = "track"
                       \/ closing[p] = "track" /\ closing'[p] = "done"
  <2>0. p \notin peers /\ closing \in [Offers -> {"no", "pc", "track", "done", "cancelled"}]
    BY <1>1 DEF DemoInv, GatewayInv, GatewayTypeOK, PeersAreOrderly
  <2>1. ASSUME NEW ps, Popped(ps)
        PROVE  Onward
    BY <2>0, <2>1 DEF Popped
  <2>2. ASSUME GatewaySteps
        PROVE  Onward
    <3>1. \/ UNCHANGED closing \/ ShutdownBegins
          \/ \E q \in Offers : PcCloses(q) \/ TrackCloses(q)
          \/ \E ps : Popped(ps)
      BY <2>2 DEF GatewaySteps, TrackSteps, FrameReceived, SourceFails, RecvStarts, FrameTaken,
         FrameAnswered, EndTaken, StreamFails, RecvFails, OfferSteps, OfferInvalid, Reserves,
         TrackAppears, OfferAnswered, OfferFails, FailTaskRuns, ConnectionFails, ShutdownPeers,
         requestVars
    <3>2. CASE \E ps : Popped(ps)
      BY <2>1, <3>2
    <3>3. CASE ShutdownBegins
      BY <3>3 DEF ShutdownBegins
    <3>4. ASSUME NEW q \in Offers, PcCloses(q) \/ TrackCloses(q)
          PROVE  Onward
      <4>1. \/ closing[q] = "pc" /\ closing' = [closing EXCEPT ![q] = "track"]
            \/ closing[q] = "track" /\ closing' = [closing EXCEPT ![q] = "done"]
        BY <3>4 DEF PcCloses, TrackCloses
      <4> QED
        BY <2>0, <4>1
    <3> QED
      BY <3>1, <3>2, <3>3, <3>4
  <2>3. ASSUME ~GatewaySteps
        PROVE  Onward
    <3>1. UNCHANGED closing \/ \E ps : Popped(ps)
      BY <1>1, <2>3 DEF DemoNext, UserStops, Sweeps, Sweep, Start, InputReady, Playing, Posts,
         OfferArrives, StartFails, Answer, AnswerFails, Connected, Deleted, Delete, Stop, Throws,
         gatewayVars
    <3>2. CASE \E ps : Popped(ps)
      BY <2>1, <3>2
    <3> QED
      BY <3>1, <3>2
  <2>4. closing'[p] # "no"
    BY <1>1, <2>2, <2>3
  <2>5. p \notin peers'
    BY <1>1, <2>4 DEF DemoInv, GatewayInv, PeersAreOrderly
  <2>6. Onward
    BY <2>2, <2>3
  <2> QED
    BY <2>5, <2>6 DEF ClosesOn
<1>2. DemoInv /\ DemoInv' /\ [DemoNext]_demoVars =>
        [\A p \in Offers : closing[p] # "no" => ClosesOn(p)]_demoVars
  BY <1>1
<1> QED
  BY <1>2, DemoInvariant, PTL DEF DemoSpec, PeersCloseOnce

-----------------------------------------------------------------------------
(* Queues.                                                                     *)

LEMMA PushAndPop ==
  ASSUME NEW S, NEW p \in Seq(S), NEW q \in Seq(S), NEW x \in S
  PROVE  /\ Append(p, x) \in Seq(S) /\ Len(Append(p, x)) = Len(p) + 1
         /\ p \o Append(q, x) = Append(p \o q, x)
         /\ Head(<<x>> \o p) = x /\ Tail(<<x>> \o p) = p /\ <<x>> \o p # << >>
<1>1. <<x>> \in Seq(S) /\ p \o q \in Seq(S) /\ Len(<<x>>) = 1
  BY ConcatProperties
<1>2. p \o Append(q, x) = Append(p \o q, x)
  <2>1. Append(q, x) = q \o <<x>> /\ Append(p \o q, x) = (p \o q) \o <<x>>
    BY <1>1, AppendIsConcat
  <2>2. (p \o q) \o <<x>> = p \o (q \o <<x>>)
    BY <1>1, ConcatAssociative
  <2> QED
    BY <2>1, <2>2
<1>3. /\ <<x>> \o p \in Seq(S) /\ Len(<<x>> \o p) = 1 + Len(p)
      /\ \A i \in 1..(1 + Len(p)) : (<<x>> \o p)[i] = IF i <= 1 THEN <<x>>[i] ELSE p[i - 1]
  BY <1>1, ConcatProperties
<1>4. Len(p) \in Nat
  BY LenProperties
<1>5. Head(<<x>> \o p) = x /\ <<x>> \o p # << >>
  BY <1>3, <1>4
<1>6. Tail(<<x>> \o p) = p
  <2>1. Tail(<<x>> \o p) \in Seq(S) /\ Len(Tail(<<x>> \o p)) = Len(p)
    BY <1>3, <1>4, <1>5, HeadTailProperties
  <2>2. \A i \in 1..Len(p) : Tail(<<x>> \o p)[i] = p[i]
    BY <1>3, <1>4, <1>5, <2>1, HeadTailProperties
  <2> QED
    BY <2>1, <2>2, SeqEqual
<1> QED
  BY <1>2, <1>5, <1>6, AppendProperties

\* The first item goes from one queue to the end of another.
LEMMA MoveOne ==
  ASSUME NEW S, NEW p \in Seq(S), NEW q \in Seq(S), q # << >>
  PROVE  /\ Head(q) \in S /\ Tail(q) \in Seq(S) /\ Len(Tail(q)) + 1 = Len(q)
         /\ q = <<Head(q)>> \o Tail(q)
         /\ Append(p, Head(q)) \o Tail(q) = p \o q
<1>1. Head(q) \in S /\ Tail(q) \in Seq(S) /\ Len(Tail(q)) = Len(q) - 1
  BY HeadTailProperties
<1>2. Len(q) \in Nat \ {0} /\ Tail(q) = SubSeq(q, 2, Len(q)) /\ SubSeq(q, 1, Len(q)) = q
      /\ Head(q) = q[1]
  BY EmptySeq, TailIsSubSeq, SubSeqFull
<1>3. q = <<Head(q)>> \o Tail(q)
  BY <1>2, SubSeqRecursiveFirst
<1>4. Append(p, Head(q)) = p \o <<Head(q)>> /\ <<Head(q)>> \in Seq(S)
  BY <1>1, AppendIsConcat
<1>5. (p \o <<Head(q)>>) \o Tail(q) = p \o (<<Head(q)>> \o Tail(q))
  BY <1>1, <1>4, ConcatAssociative
<1> QED
  BY <1>1, <1>2, <1>3, <1>4, <1>5

LEMMA PopConcat ==
  ASSUME NEW S, NEW p \in Seq(S), NEW q \in Seq(S), p # << >>
  PROVE  p \o q # << >> /\ Head(p \o q) = Head(p) /\ Tail(p \o q) = Tail(p) \o q
<1>1. Head(p) \in S /\ Tail(p) \in Seq(S) /\ p = <<Head(p)>> \o Tail(p) /\ <<Head(p)>> \in Seq(S)
  BY MoveOne
<1>2. p \o q = <<Head(p)>> \o (Tail(p) \o q) /\ Tail(p) \o q \in Seq(S)
  BY <1>1, ConcatAssociative, ConcatProperties
<1> QED
  BY <1>1, <1>2, PushAndPop

\* A queue of frames with its end marker, if it has one.
Shaped(queue) ==
    Frames(queue) \in Seq(FrameIds) /\ queue \in {Frames(queue), Append(Frames(queue), End)}

LEMMA NoFrameIsTheEnd == End \notin FrameIds
BY FrameIdsAssumption DEF End

LEMMA FramesOfPlain ==
  ASSUME NEW q \in Seq(FrameIds)
  PROVE  Frames(q) = q /\ Shaped(q)
<1>1. Frames(q) = q
  <2>1. CASE q # << >>
    <3>1. Len(q) \in 1..Len(q)
      BY <2>1, EmptySeq, LenProperties
    <3>2. q[Len(q)] # End
      BY <3>1, ElementOfSeq, NoFrameIsTheEnd
    <3> QED
      BY <3>2 DEF Frames
  <2> QED
    BY <2>1 DEF Frames
<1> QED
  BY <1>1 DEF Shaped

LEMMA FramesOfEnded ==
  ASSUME NEW q \in Seq(FrameIds)
  PROVE  Frames(Append(q, End)) = q /\ Shaped(Append(q, End))
<1> DEFINE T == FrameIds \cup {End}
           e == Append(q, End)
<1>1. q \in Seq(T) /\ e \in Seq(T) /\ e # << >> /\ Len(e) = Len(q) + 1 /\ e[Len(e)] = End
      /\ \A i \in 1..Len(q) : e[i] = q[i]
  BY SeqMonotonic, AppendProperties
<1>2. Len(q) \in Nat
  BY LenProperties
<1>3. SubSeq(e, 1, Len(q)) = q
  <2>1. \A i \in 1..Len(q) : e[i] \in FrameIds
    BY <1>1, ElementOfSeq
  <2>2. /\ SubSeq(e, 1, Len(q)) \in Seq(FrameIds)
        /\ Len(SubSeq(e, 1, Len(q))) = Len(q)
        /\ \A i \in 1..Len(q) : SubSeq(e, 1, Len(q))[i] = e[i]
    <3> HIDE DEF e
    <3> QED
      BY <1>2, <2>1, SubSeqProperties
  <2> QED
    BY <1>1, <2>2, SeqEqual
<1>4. Frames(e) = q
  BY <1>1, <1>2, <1>3 DEF Frames
<1> QED
  BY <1>4 DEF Shaped

\* What is left of a queue whose first item is taken.
LEMMA FramesOfTail ==
  ASSUME NEW q, Shaped(q), q # << >>
  PROVE  /\ Head(q) = End => Frames(q) = << >> /\ Tail(q) = << >>
         /\ Head(q) # End =>
               /\ Frames(q) # << >> /\ Head(q) = Head(Frames(q)) /\ Head(q) \in FrameIds
               /\ Frames(Tail(q)) = Tail(Frames(q)) /\ Shaped(Tail(q))
               /\ q \in Seq(FrameIds) => Tail(q) \in Seq(FrameIds)
<1> DEFINE f == Frames(q)
<1>1. f \in Seq(FrameIds) /\ q \in {f, Append(f, End)}
  BY DEF Shaped
<1>2. CASE q = f
  <2>1. Head(q) \in FrameIds /\ Tail(q) \in Seq(FrameIds)
    BY <1>1, <1>2, HeadTailProperties
  <2>2. Frames(Tail(q)) = Tail(q) /\ Shaped(Tail(q))
    BY <2>1, FramesOfPlain
  <2> QED
    BY <1>2, <2>1, <2>2, NoFrameIsTheEnd
<1>3. CASE q = Append(f, End)
  <2> HIDE DEF f
  <2>1. /\ Head(q) = IF f = << >> THEN End ELSE Head(f)
        /\ Tail(q) = IF f = << >> THEN << >> ELSE Append(Tail(f), End)
    BY <1>1, <1>3, HeadTailAppend
  <2>2. CASE f = << >>
    BY <2>1, <2>2 DEF f
  <2>3. CASE f # << >>
    <3>1. Head(f) \in FrameIds /\ Tail(f) \in Seq(FrameIds)
      BY <1>1, <2>3, HeadTailProperties
    <3>2. Frames(Append(Tail(f), End)) = Tail(f) /\ Shaped(Append(Tail(f), End))
      BY <3>1, FramesOfEnded
    <3>3. q \notin Seq(FrameIds)
      <4>1. f \in Seq(FrameIds \cup {End}) /\ Len(q) = Len(f) + 1 /\ q[Len(f) + 1] = End
            /\ Len(f) \in Nat
        BY <1>1, <1>3, SeqMonotonic, AppendProperties, LenProperties
      <4> QED
        BY <4>1, ElementOfSeq, NoFrameIsTheEnd
    <3> QED
      BY <2>1, <2>3, <3>1, <3>2, <3>3, NoFrameIsTheEnd DEF f
  <2> QED
    BY <2>2, <2>3
<1> QED
  BY <1>1, <1>2, <1>3

-----------------------------------------------------------------------------
(* The session: types and the shape of its queues.                             *)

ClientShape ==
    /\ ClientTypeOK
    /\ Shaped(source) /\ Shaped(requests)
    /\ exhausted => source = << >>
    /\ writer \in {"closing", "done"} => exhausted
    /\ writer # "done" => requests \in Seq(FrameIds)
    /\ writer = "write" => hand \in FrameIds

\* Only a receiver that still runs adds to the queue, and it has not ended it.
ReceiverFeeds ==
    /\ receiver \notin ReceiverOver =>
          consumer = "socket" /\ source \in Seq(FrameIds) /\ ~exhausted
    /\ receiver = "acquire" => frame \in FrameIds

SessionShape == SessionTypeOK /\ ClientShape /\ ReceiverFeeds

LEMMA ShapedIsTyped ==
  ASSUME NEW q, Shaped(q)
  PROVE  q \in Seq(FrameIds \cup {End})
BY SeqMonotonic, AppendProperties DEF Shaped

LEMMA SessionInitially == SessionInit => SessionShape
<1> SUFFICES ASSUME SessionInit PROVE SessionShape
  OBVIOUS
<1>0. /\ consumer \in {"socket", "image"} /\ receiver \in {"receive", "over"}
      /\ slots \in Nat /\ writer = "acquire" /\ hand = NoFrame /\ pending = << >>
      /\ lastFrame = 0 /\ exhausted = FALSE /\ observed = FALSE /\ call = "open"
      /\ requests = << >> /\ responses = << >> /\ reader = "reading"
      /\ result = NoResult /\ outcome = "none"
  BY SessionAssumption DEF SessionInit, SocketInit, ImageInit, ClientInit
<1>1. << >> \in Seq(FrameIds) /\ << >> \in Seq(Results) /\ <<1>> \in Seq(FrameIds)
  BY EmptySeq, SessionAssumption
<1>2. Shaped(<< >>)
  BY <1>1, FramesOfPlain
<1>3. Shaped(Append(<<1>>, End))
  BY <1>1, FramesOfEnded
<1>4. Shaped(source) /\ source \in Seq(FrameIds \cup {End})
  BY <1>2, <1>3, ShapedIsTyped DEF SessionInit, SocketInit, ImageInit, ClientInit
<1>5. requests \in Seq(FrameIds \cup {End})
  BY <1>2, ShapedIsTyped DEF SessionInit, SocketInit, ImageInit, ClientInit
<1> HIDE DEF End
<1>6. ClientTypeOK
  BY <1>0, <1>1, <1>4, <1>5 DEF ClientTypeOK, Outcomes
<1>7. SessionTypeOK
  BY <1>0, <1>1, <1>6, SessionAssumption DEF SessionInit, SessionTypeOK, ReceiverOver
<1>8. ClientShape
  BY <1>0, <1>1, <1>2, <1>4, <1>6 DEF ClientShape
<1>9. ReceiverFeeds
  BY <1>1 DEF ReceiverFeeds, SessionInit, SocketInit, ImageInit, ClientInit, ReceiverOver
<1> QED
  BY <1>7, <1>8, <1>9 DEF SessionShape

\* The receiver adds a frame to the queue, and the end marker when it is over.
LEMMA QueueGrows ==
  ASSUME ClientShape, source \in Seq(FrameIds), ~exhausted, clientButSource' = clientButSource,
         \/ source' = Append(source, End)
         \/ \E f \in FrameIds : source' \in {Append(source, f), Append(Append(source, f), End)}
  PROVE  ClientShape' /\ ~exhausted'
<1>1. Shaped(source')
  <2>1. CASE source' = Append(source, End)
    BY <2>1, FramesOfEnded
  <2>2. ASSUME NEW f \in FrameIds, source' \in {Append(source, f), Append(Append(source, f), End)}
        PROVE  Shaped(source')
    <3>1. Append(source, f) \in Seq(FrameIds)
      BY AppendProperties
    <3> QED
      BY <2>2, <3>1, FramesOfPlain, FramesOfEnded
  <2> QED
    BY <2>1, <2>2
<1>2. /\ UNCHANGED <<writer, hand, slots, pending, lastFrame, exhausted, requests>>
      /\ UNCHANGED <<observed, call, responses, reader, result, outcome>>
  BY DEF clientButSource, writing, reading
<1>3. source' \in Seq(FrameIds \cup {End})
  BY <1>1, ShapedIsTyped
<1>4. ClientTypeOK'
  BY <1>2, <1>3 DEF ClientShape, ClientTypeOK
<1>5. Shaped(requests')
  BY <1>2 DEF ClientShape
<1> QED
  BY <1>1, <1>2, <1>4, <1>5 DEF ClientShape

LEMMA FinishesKeepsShape ==
  ASSUME ClientShape, NEW how \in Outcomes, Finishes(how)
  PROVE  ClientShape' /\ UNCHANGED <<source, exhausted>>
<1>1. /\ << >> \in Seq(FrameIds) /\ << >> \in Seq(Results) /\ << >> \in Seq(FrameIds \cup {End})
      /\ Shaped(<< >>)
  BY EmptySeq, FramesOfPlain
<1>2. /\ reader' = "over" /\ outcome' = how /\ result' = NoResult
      /\ call' \in {"cancelled", call} /\ hand' = NoFrame
      /\ writer' = IF writer \in WriterOver THEN writer ELSE "cancelled"
      /\ pending' = << >> /\ requests' = << >> /\ responses' = << >>
      /\ UNCHANGED <<source, slots, lastFrame, exhausted, observed>>
  BY DEF Finishes
<1>3. ClientTypeOK'
  BY <1>1, <1>2 DEF ClientShape, ClientTypeOK, WriterOver
<1>4. Shaped(source') /\ Shaped(requests')
  BY <1>1, <1>2 DEF ClientShape
<1> QED
  BY <1>1, <1>2, <1>3, <1>4 DEF ClientShape, WriterOver

LEMMA WriterKeepsShape ==
  ASSUME ClientShape, ReceiverFeeds, WriterSteps, UNCHANGED <<consumer, receiver, frame>>
  PROVE  ClientShape' /\ ReceiverFeeds'
<1>0. /\ Shaped(source) /\ Shaped(requests) /\ ClientTypeOK
      /\ pending \in Seq(FrameIds) /\ slots \in Nat
  BY DEF ClientShape, ClientTypeOK
<1>1. CASE WriterAcquires
  <2>1. /\ writer = "acquire" /\ writer' = "next" /\ slots' \in Nat
        /\ UNCHANGED <<source, hand, pending, lastFrame, exhausted, requests>>
        /\ UNCHANGED <<observed, call, responses, reader, result, outcome>>
    BY <1>0, <1>1 DEF WriterAcquires, reading
  <2>2. ClientTypeOK'
    BY <1>0, <2>1 DEF ClientTypeOK
  <2> QED
    BY <2>1, <2>2 DEF ClientShape, ReceiverFeeds, Shaped, ReceiverOver
<1>2. CASE SourceEnds
  <2>1. /\ Tail(source) = << >> /\ source \notin Seq(FrameIds)
    <3>1. source # << >> /\ Head(source) = End
      BY <1>2 DEF SourceEnds
    <3> QED
      BY <1>0, <3>1, FramesOfTail, HeadTailProperties, NoFrameIsTheEnd
  <2>2. /\ source' = << >> /\ exhausted' /\ exhausted' \in BOOLEAN
        /\ writer = "next" /\ writer' = "closing" /\ slots' \in Nat
        /\ UNCHANGED <<hand, pending, lastFrame, requests>>
        /\ UNCHANGED <<observed, call, responses, reader, result, outcome>>
    BY <1>0, <1>2, <2>1 DEF SourceEnds, reading
  <2>3. << >> \in Seq(FrameIds \cup {End}) /\ Shaped(<< >>)
    BY EmptySeq, FramesOfPlain
  <2>4. ClientTypeOK'
    BY <1>0, <2>2, <2>3 DEF ClientTypeOK
  <2>5. Shaped(source') /\ Shaped(requests')
    BY <1>0, <2>2, <2>3
  <2>6. ClientShape'
    BY <2>2, <2>4, <2>5 DEF ClientShape
  <2>7. receiver \in ReceiverOver /\ receiver # "acquire"
    BY <2>1 DEF ReceiverFeeds, ReceiverOver
  <2> QED
    BY <2>6, <2>7 DEF ReceiverFeeds
<1>3. CASE FrameArrives
  <2>1. source # << >> /\ Head(source) # End /\ writer = "next"
    BY <1>3 DEF FrameArrives
  <2>2. /\ Head(source) \in FrameIds /\ Head(source) \in Nat /\ Shaped(Tail(source))
        /\ source \in Seq(FrameIds) => Tail(source) \in Seq(FrameIds)
        /\ Tail(source) \in Seq(FrameIds \cup {End})
    BY <1>0, <2>1, FramesOfTail, ShapedIsTyped, FrameIdsAssumption
  <2>3. Append(pending, Head(source)) \in Seq(FrameIds)
    BY <1>0, <2>2, AppendProperties
  <2>4. /\ source' = Tail(source) /\ UNCHANGED <<exhausted, requests>>
        /\ UNCHANGED <<observed, call, responses, reader, result, outcome>>
        /\ pending' \in Seq(FrameIds) /\ lastFrame' \in Nat /\ slots' \in Nat
        /\ writer' \in {"write", "invalid"}
        /\ writer' = "write" => hand' \in FrameIds
        /\ hand' \in FrameIds \cup {NoFrame}
    <3>1. CASE Head(source) > lastFrame
      BY <1>0, <1>3, <2>2, <2>3, <3>1 DEF FrameArrives, reading
    <3>2. CASE ~(Head(source) > lastFrame)
      <4>1. hand \in FrameIds \cup {NoFrame} /\ lastFrame \in Nat
        BY <1>0 DEF ClientTypeOK
      <4> QED
        BY <1>0, <1>3, <2>2, <3>2, <4>1 DEF FrameArrives, reading
    <3> QED
      BY <3>1, <3>2
  <2>5. ClientTypeOK'
    BY <1>0, <2>2, <2>4 DEF ClientTypeOK, WriterOver
  <2>6. ~exhausted
    BY <2>1 DEF ClientShape
  <2>7. Shaped(source') /\ Shaped(requests')
    BY <1>0, <2>2, <2>4
  <2>8. ClientShape'
    BY <2>1, <2>4, <2>5, <2>6, <2>7 DEF ClientShape
  <2> QED
    BY <2>2, <2>4, <2>8 DEF ReceiverFeeds
<1>4. CASE FrameWritten
  <2>1. hand \in FrameIds /\ requests \in Seq(FrameIds) /\ writer = "write"
    BY <1>4 DEF FrameWritten, ClientShape
  <2>2. Append(requests, hand) \in Seq(FrameIds)
    BY <2>1, AppendProperties
  <2>3. /\ requests' \in Seq(FrameIds) /\ hand' = NoFrame
        /\ writer' \in {"acquire", "rpc", "state", "cancelled"}
        /\ UNCHANGED <<source, slots, pending, lastFrame, exhausted>>
        /\ UNCHANGED <<observed, call, responses, reader, result, outcome>>
    BY <1>4, <2>1, <2>2 DEF FrameWritten, reading
  <2>4. Shaped(requests') /\ requests' \in Seq(FrameIds \cup {End})
    BY <2>3, FramesOfPlain, ShapedIsTyped
  <2>5. ClientTypeOK'
    BY <1>0, <2>3, <2>4 DEF ClientTypeOK, WriterOver
  <2>6. Shaped(source')
    BY <1>0, <2>3
  <2>7. ClientShape'
    BY <2>3, <2>4, <2>5, <2>6 DEF ClientShape
  <2> QED
    BY <2>3, <2>7 DEF ReceiverFeeds
<1>5. CASE WriterCloses
  <2>1. /\ writer = "closing" /\ writer' = "done" /\ exhausted
        /\ requests \in Seq(FrameIds) /\ requests' \in {requests, Append(requests, End)}
        /\ UNCHANGED <<source, hand, slots, pending, lastFrame, exhausted>>
        /\ UNCHANGED <<observed, call, responses, reader, result, outcome>>
    BY <1>5 DEF WriterCloses, ClientShape, reading
  <2>2. Shaped(requests') /\ requests' \in Seq(FrameIds \cup {End})
    BY <1>0, <2>1, FramesOfEnded, ShapedIsTyped
  <2>3. ClientTypeOK'
    BY <1>0, <2>1, <2>2 DEF ClientTypeOK, WriterOver
  <2>4. Shaped(source')
    BY <1>0, <2>1
  <2>5. ClientShape'
    BY <2>1, <2>2, <2>3, <2>4 DEF ClientShape
  <2> QED
    BY <2>1, <2>5 DEF ReceiverFeeds
<1> QED
  BY <1>1, <1>2, <1>3, <1>4, <1>5 DEF WriterSteps

LEMMA ReaderKeepsShape ==
  ASSUME ClientShape, NEW raises \in BOOLEAN,
         ReaderSteps(raises) \/ ConsumerReturns \/ ConsumerCloses \/ ClientCloses
  PROVE  ClientShape' /\ UNCHANGED <<source, exhausted>>
<1>0. /\ ClientTypeOK /\ responses \in Seq(Results) /\ pending \in Seq(FrameIds)
      /\ Shaped(source) /\ Shaped(requests)
      /\ writer \in WriterErrors => writer \in Outcomes
      /\ {"protocol", "frame", "completed", "rpc", "cancelled", "closed"} \subseteq Outcomes
  BY DEF ClientShape, ClientTypeOK, WriterErrors, WriterOver, Outcomes
<1>1. ASSUME NEW how \in Outcomes, Finishes(how)
      PROVE  ClientShape' /\ UNCHANGED <<source, exhausted>>
  BY <1>1, FinishesKeepsShape
<1>2. ASSUME UNCHANGED <<source, writer, hand, lastFrame, exhausted, requests, outcome>>,
             pending' \in Seq(FrameIds), slots' \in Nat, observed' \in BOOLEAN,
             call' = call, responses' \in Seq(Results),
             reader' \in {"reading", "yielded", "ending", "over"},
             result' \in Results \cup {NoResult}
      PROVE  ClientShape' /\ UNCHANGED <<source, exhausted>>
  <2>1. ClientTypeOK'
    BY <1>0, <1>2 DEF ClientTypeOK
  <2>2. Shaped(source') /\ Shaped(requests')
    BY <1>0, <1>2
  <2> QED
    BY <1>2, <2>1, <2>2 DEF ClientShape
<1>3. CASE WriterSeen
  <2>1. CASE writer \in WriterErrors
    BY <1>0, <1>1, <1>3, <2>1 DEF WriterSeen
  <2>2. CASE writer \notin WriterErrors
    BY <1>0, <1>2, <1>3, <2>2 DEF WriterSeen, writing, ClientTypeOK
  <2> QED
    BY <2>1, <2>2
<1>4. CASE AnswerRead(raises)
  <2> DEFINE m == Head(responses)
  <2>1. responses # << >> /\ m \in Results /\ Tail(responses) \in Seq(Results)
    BY <1>0, <1>4, HeadTailProperties DEF AnswerRead
  <2>2. CASE ~Valid(m)
    BY <1>0, <1>1, <1>4, <2>2 DEF AnswerRead
  <2>3. CASE Valid(m) /\ raises /\ m.kind # "success"
    BY <1>0, <1>1, <1>4, <2>3 DEF AnswerRead
  <2>4. CASE Valid(m) /\ ~(raises /\ m.kind # "success")
    <3>1. pending # << >> /\ Tail(pending) \in Seq(FrameIds)
      BY <1>0, <2>4, HeadTailProperties DEF Valid
    <3>2. /\ pending' = Tail(pending) /\ slots' = slots + 1 /\ reader' = "yielded"
          /\ result' = m /\ responses' = Tail(responses)
          /\ UNCHANGED <<source, writer, hand, lastFrame, exhausted, observed, call, requests, outcome>>
      BY <1>4, <2>4 DEF AnswerRead
    <3>3. slots \in Nat /\ observed \in BOOLEAN
      BY <1>0 DEF ClientTypeOK
    <3> HIDE DEF m
    <3> QED
      BY <1>2, <2>1, <3>1, <3>2, <3>3
  <2> QED
    BY <2>2, <2>3, <2>4
<1>5. CASE EndRead
  <2>1. \/ Finishes("protocol") \/ Finishes("completed")
        \/ /\ reader' = "ending"
           /\ UNCHANGED <<source, writing, observed, call, requests, responses, result, outcome>>
    BY <1>5 DEF EndRead
  <2>2. \/ UNCHANGED <<source, writing, observed, call, requests, responses, result, outcome>>
             /\ reader' = "ending"
        => ClientShape' /\ UNCHANGED <<source, exhausted>>
    BY <1>0, <1>2 DEF writing, ClientTypeOK
  <2> QED
    BY <1>0, <1>1, <2>1, <2>2
<1>6. CASE WriterAwaited
  BY <1>0, <1>1, <1>6 DEF WriterAwaited
<1>7. CASE ReadFails
  BY <1>0, <1>1, <1>7 DEF ReadFails
<1>8. CASE ConsumerReturns
  BY <1>0, <1>2, <1>8 DEF ConsumerReturns, writing, ClientTypeOK
<1>9. CASE ConsumerCloses
  BY <1>0, <1>1, <1>9 DEF ConsumerCloses
<1>10. CASE ClientCloses
  <2>1. /\ call' = "cancelled" /\ requests' = << >> /\ responses' = << >>
        /\ UNCHANGED <<source, writer, hand, slots, pending, lastFrame, exhausted>>
        /\ UNCHANGED <<observed, reader, result, outcome>>
    BY <1>10 DEF ClientCloses, writing
  <2>2. /\ << >> \in Seq(FrameIds) /\ << >> \in Seq(Results)
        /\ << >> \in Seq(FrameIds \cup {End}) /\ Shaped(<< >>)
    BY EmptySeq, FramesOfPlain
  <2>3. ClientTypeOK'
    BY <1>0, <2>1, <2>2 DEF ClientTypeOK
  <2>4. Shaped(source') /\ Shaped(requests')
    BY <1>0, <2>1, <2>2
  <2> QED
    BY <2>1, <2>2, <2>3, <2>4 DEF ClientShape
<1> QED
  BY <1>3, <1>4, <1>5, <1>6, <1>7, <1>8, <1>9, <1>10 DEF ReaderSteps

WorkerSteps == Replies \/ WorkerEnds \/ WorkerBreaks \/ WorkerErrs

LEMMA WorkerKeepsShape ==
  ASSUME ClientShape, WorkerSteps
  PROVE  ClientShape' /\ UNCHANGED <<source, exhausted, consumer, receiver, frame>>
<1>0. /\ ClientTypeOK /\ responses \in Seq(Results) /\ Shaped(source) /\ Shaped(requests)
      /\ << >> \in Seq(FrameIds) /\ << >> \in Seq(Results) /\ Shaped(<< >>)
  BY EmptySeq, FramesOfPlain DEF ClientShape, ClientTypeOK
<1>1. ASSUME UNCHANGED <<source, writing, observed, reader, result, outcome>>,
             Shaped(requests'), responses' \in Seq(Results),
             call' \in {"open", "ok", "broken", "cancelled"},
             requests \in Seq(FrameIds) => requests' \in Seq(FrameIds)
      PROVE  ClientShape' /\ UNCHANGED <<source, exhausted>>
  <2>1. ClientTypeOK'
    BY <1>0, <1>1, ShapedIsTyped DEF ClientTypeOK, writing
  <2>2. Shaped(source')
    BY <1>0, <1>1
  <2> QED
    BY <1>1, <2>1, <2>2 DEF ClientShape, writing
<1>2. ASSUME NEW kind \in {"success", "recoverable", "fatal"}, WorkerAnswers(kind)
      PROVE  ClientShape' /\ UNCHANGED <<source, exhausted, sessionOnly>>
  <2> DEFINE m == [id |-> Head(requests), kind |-> kind]
  <2>1. /\ Head(requests) \in FrameIds /\ Shaped(Tail(requests))
        /\ requests \in Seq(FrameIds) => Tail(requests) \in Seq(FrameIds)
    BY <1>0, <1>2, FramesOfTail DEF WorkerAnswers
  <2>2. m \in Results
    BY <2>1 DEF Results, Kinds
  <2>3. /\ requests' = Tail(requests) /\ responses' = Append(responses, m) /\ call' = call
        /\ UNCHANGED <<source, writing, observed, reader, result, outcome, sessionOnly>>
    BY <1>2 DEF WorkerAnswers, callVars
  <2> HIDE DEF m
  <2>4. responses' \in Seq(Results)
    BY <1>0, <2>2, <2>3, AppendProperties
  <2> QED
    BY <1>0, <1>1, <2>1, <2>3, <2>4 DEF ClientTypeOK
<1>3. CASE WorkerEnds
  BY <1>0, <1>1, <1>3 DEF WorkerEnds, callVars, sessionOnly
<1>4. CASE WorkerBreaks
  BY <1>0, <1>1, <1>4 DEF WorkerBreaks, callVars, sessionOnly
<1>5. CASE WorkerErrs
  <2>1. \A m \in [id : FrameIds, kind : {"success", "malformed"}] :
            Append(responses, m) \in Seq(Results)
    <3>1. [id : FrameIds, kind : {"success", "malformed"}] \subseteq Results
      BY DEF Results, Kinds
    <3> QED
      BY <1>0, <3>1, AppendProperties
  <2>2. responses' \in Seq(Results) /\ call' \in {call, "ok"} /\ requests' \in {requests, << >>}
        /\ UNCHANGED <<source, writing, observed, reader, result, outcome>>
        /\ UNCHANGED <<consumer, receiver, frame>>
    BY <1>0, <1>5, <2>1 DEF WorkerErrs, callVars, receiverVars
  <2> QED
    BY <1>0, <1>1, <2>2 DEF ClientTypeOK
<1> QED
  BY <1>2, <1>3, <1>4, <1>5 DEF WorkerSteps, Replies, sessionOnly

LEMMA ReceiverKeepsShape ==
  ASSUME SessionShape, ReceiverSteps
  PROVE  SessionShape'
<1>0. /\ ClientShape /\ SessionTypeOK /\ ReceiverFeeds /\ UNCHANGED <<consumer, phase, accused, honest>>
      /\ receiver \notin ReceiverOver
      /\ source \in Seq(FrameIds) /\ ~exhausted /\ consumer = "socket"
      /\ UNCHANGED clientButSource
  BY DEF SessionShape, ReceiverFeeds, ReceiverOver, ReceiverSteps, ReceiveFrame, ReceiveInvalid,
         ReceiveRefused, ReceiveUnreadable, ReceiveDisconnect, Replied, Refused, FrameQueued,
         mainVars
<1>1. ASSUME lastSequence' \in Nat, stop' \in BOOLEAN, gateSlots' \in Nat,
             outstanding' \in Seq(FrameIds), socket' \in {"open", "closed", "gone"},
             frame' \in FrameIds \cup {NoFrame},
             ClientShape', ~exhausted',
             \/ receiver' \in ReceiverOver
             \/ /\ receiver' \in {"receive", "replying", "refusing", "acquire"}
                /\ source' \in Seq(FrameIds)
                /\ receiver' = "acquire" => frame' \in FrameIds
      PROVE  SessionShape'
  <2>1. SessionTypeOK'
    BY <1>0, <1>1 DEF SessionTypeOK, ClientShape
  <2>2. ReceiverFeeds'
    BY <1>0, <1>1 DEF ReceiverFeeds, ReceiverOver
  <2> QED
    BY <1>1, <2>1, <2>2 DEF SessionShape
<1>2. /\ lastSequence \in Nat /\ stop \in BOOLEAN /\ gateSlots \in Nat
      /\ outstanding \in Seq(FrameIds) /\ socket \in {"open", "closed", "gone"}
      /\ frame \in FrameIds \cup {NoFrame}
  BY <1>0 DEF SessionTypeOK
<1>3. ASSUME NEW how \in {"over", "failed"}, ReceiverEnds(how),
             UNCHANGED <<gateSlots, outstanding, lastSequence>>,
             stop' \in BOOLEAN, socket' \in {"open", "closed", "gone"}
      PROVE  SessionShape'
  <2>1. ClientShape' /\ ~exhausted'
    BY <1>0, <1>3, QueueGrows DEF ReceiverEnds
  <2> QED
    BY <1>1, <1>2, <1>3, <2>1 DEF ReceiverEnds, ReceiverOver
<1>4. ASSUME UNCHANGED source
      PROVE  ClientShape' /\ ~exhausted' /\ source' \in Seq(FrameIds)
  <2>1. /\ UNCHANGED <<source, writer, hand, slots, pending, lastFrame, exhausted, requests>>
        /\ UNCHANGED <<observed, call, responses, reader, result, outcome>>
    BY <1>0, <1>4 DEF clientButSource, writing, reading
  <2> QED
    BY <1>0, <2>1 DEF ClientShape, ClientTypeOK, Shaped, Frames
<1>5. ASSUME NEW sequence \in FrameIds, ReceiveFrame(sequence) \/ ReceiveInvalid(sequence)
                                        \/ ReceiveRefused(sequence)
      PROVE  SessionShape'
  <2>1. sequence \in Nat
    BY FrameIdsAssumption
  <2> QED
    BY <1>1, <1>2, <1>4, <1>5, <2>1 DEF ReceiveFrame, ReceiveInvalid, ReceiveRefused
<1>6. CASE ReceiveUnreadable
  BY <1>2, <1>3, <1>6 DEF ReceiveUnreadable
<1>7. CASE ReceiveDisconnect
  BY <1>2, <1>3, <1>7 DEF ReceiveDisconnect
<1>8. CASE Replied
  <2>1. CASE ReceivesOn /\ ~stop
    BY <1>1, <1>2, <1>4, <1>8, <2>1 DEF Replied, ReceivesOn
  <2>2. CASE ~(ReceivesOn /\ ~stop)
    BY <1>2, <1>3, <1>8, <2>2 DEF Replied, ReceivesOn
  <2> QED
    BY <2>1, <2>2
<1>9. CASE Refused
  BY <1>2, <1>3, <1>9 DEF Refused
<1>10. CASE FrameQueued
  <2>1. /\ frame \in FrameIds /\ frame' = NoFrame
        /\ gateSlots' \in Nat /\ outstanding' = Append(outstanding, frame)
        /\ \/ receiver' = "over" /\ source' = Append(Append(source, frame), End)
           \/ receiver' = "receive" /\ source' = Append(source, frame)
        /\ UNCHANGED <<lastSequence, stop, socket>>
    BY <1>0, <1>2, <1>10 DEF FrameQueued, ReceiverFeeds
  <2>2. outstanding' \in Seq(FrameIds) /\ Append(source, frame) \in Seq(FrameIds)
    BY <1>0, <1>2, <2>1, AppendProperties
  <2>3. ClientShape' /\ ~exhausted'
    BY <1>0, <2>1, QueueGrows
  <2> QED
    BY <1>1, <1>2, <2>1, <2>2, <2>3 DEF ReceiverOver
<1> QED
  BY <1>5, <1>6, <1>7, <1>8, <1>9, <1>10 DEF ReceiverSteps

LEMMA MainKeepsShape ==
  ASSUME SessionShape, MainSteps \/ BrowserLeaves
  PROVE  SessionShape'
<1>0. ClientShape /\ SessionTypeOK /\ ReceiverFeeds
  BY DEF SessionShape
<1>1. ASSUME ClientShape', UNCHANGED <<consumer, lastSequence, source, exhausted, honest>>,
             phase' \in {"serving", "sending", "joining", "failing", "over"},
             gateSlots' \in Nat, outstanding' \in Seq(FrameIds), stop' \in BOOLEAN,
             socket' \in {"open", "closed", "gone"}, accused' \in BOOLEAN,
             \/ UNCHANGED <<receiver, frame>>
             \/ receiver' \in ReceiverOver /\ frame' = NoFrame
      PROVE  SessionShape'
  <2>1. SessionTypeOK'
    BY <1>0, <1>1 DEF SessionTypeOK, ClientShape, ReceiverOver
  <2>2. ReceiverFeeds'
    BY <1>0, <1>1 DEF ReceiverFeeds, ReceiverOver
  <2> QED
    BY <1>1, <2>1, <2>2 DEF SessionShape
<1>2. /\ gateSlots \in Nat /\ outstanding \in Seq(FrameIds) /\ stop \in BOOLEAN
      /\ socket \in {"open", "closed", "gone"} /\ accused \in BOOLEAN
      /\ phase \in {"serving", "sending", "joining", "failing", "over"}
  BY <1>0 DEF SessionTypeOK
<1>3. ASSUME UNCHANGED clientVars
      PROVE  ClientShape' /\ UNCHANGED <<source, exhausted>>
  BY <1>0, <1>3 DEF clientVars, ClientShape, ClientTypeOK, Shaped, Frames
<1>4. ConsumerCloses \/ ConsumerReturns => ClientShape' /\ UNCHANGED <<source, exhausted>>
  BY <1>0, ReaderKeepsShape
<1>5. ASSUME Leaves
      PROVE  /\ phase' = "over" /\ receiver' \in ReceiverOver /\ frame' = NoFrame
             /\ UNCHANGED <<lastSequence, gateSlots>>
  BY <1>5 DEF Leaves, ReceiverOver
<1>6. CASE Forward
  <2>1. CASE outstanding # << >> /\ Head(outstanding) = result.id
    <3>1. outstanding' \in Seq(FrameIds) /\ gateSlots' \in Nat
      BY <1>2, <1>6, <2>1, HeadTailProperties DEF Forward
    <3> QED
      BY <1>1, <1>2, <1>3, <1>6, <2>1, <3>1 DEF Forward, receiverVars
  <2>2. CASE ~(outstanding # << >> /\ Head(outstanding) = result.id)
    BY <1>1, <1>2, <1>4, <1>6, <2>2 DEF Forward, receiverVars
  <2> QED
    BY <2>1, <2>2
<1>7. CASE AnswerSent
  <2>1. CASE result.kind = "fatal"
    BY <1>1, <1>2, <1>4, <1>5, <1>7, <2>1 DEF AnswerSent
  <2>2. CASE result.kind # "fatal"
    BY <1>1, <1>2, <1>4, <1>7, <2>2 DEF AnswerSent, receiverVars
  <2> QED
    BY <2>1, <2>2
<1>8. CASE SendFails
  BY <1>1, <1>2, <1>4, <1>5, <1>8 DEF SendFails
<1>9. CASE GeneratorEnded
  BY <1>1, <1>2, <1>3, <1>5, <1>9 DEF GeneratorEnded, receiverVars
<1>10. CASE Joined \/ FailureSent
  BY <1>1, <1>2, <1>3, <1>5, <1>10 DEF Joined, FailureSent
<1>11. CASE ImageAnswered
  BY <1>1, <1>2, <1>3, <1>4, <1>5, <1>11 DEF ImageAnswered
<1>12. CASE BrowserLeaves
  BY <1>1, <1>2, <1>3, <1>12 DEF BrowserLeaves, receiverVars
<1>13. CASE ResultRefused
  BY <1>1, <1>2, <1>4, <1>13 DEF ResultRefused, receiverVars
<1> QED
  BY <1>6, <1>7, <1>8, <1>9, <1>10, <1>11, <1>12, <1>13 DEF MainSteps

LEMMA SessionStepKeepsShape ==
  ASSUME SessionShape, [SessionNext]_sessionVars
  PROVE  SessionShape'
<1>1. ASSUME ClientShape', ReceiverFeeds', UNCHANGED sessionOnly
      PROVE  SessionShape'
  BY <1>1 DEF SessionShape, ClientShape, SessionTypeOK, sessionOnly
<1>2. CASE ReceiverSteps
  BY <1>2, ReceiverKeepsShape
<1>3. CASE MainSteps \/ BrowserLeaves
  BY <1>3, MainKeepsShape
<1>4. CASE ClientSteps
  <2>1. UNCHANGED sessionOnly /\ UNCHANGED <<consumer, receiver, frame>>
    BY <1>4 DEF ClientSteps, sessionOnly
  <2>2. CASE WriterSteps
    BY <1>1, <2>1, <2>2, WriterKeepsShape DEF SessionShape
  <2>3. CASE ReaderSteps(consumer = "image") \/ ClientCloses
    <3>1. (consumer = "image") \in BOOLEAN
      OBVIOUS
    <3>2. ClientShape' /\ UNCHANGED <<source, exhausted>>
      BY <2>3, <3>1, ReaderKeepsShape DEF SessionShape
    <3> QED
      BY <1>1, <2>1, <3>2 DEF SessionShape, ReceiverFeeds
  <2> QED
    BY <1>4, <2>2, <2>3 DEF ClientSteps
<1>5. CASE WorkerSteps
  <2>1. ClientShape' /\ UNCHANGED <<source, exhausted, consumer, receiver, frame>>
    BY <1>5, WorkerKeepsShape DEF SessionShape
  <2>2. ReceiverFeeds'
    BY <2>1 DEF SessionShape, ReceiverFeeds
  <2>3. SessionTypeOK'
    <3>1. UNCHANGED <<consumer, phase, gateSlots, outstanding, lastSequence, stop, receiver,
                      frame, socket, accused>> /\ honest' \in BOOLEAN
      BY <1>5 DEF WorkerSteps, Replies, WorkerAnswers, WorkerEnds, WorkerBreaks, WorkerErrs,
                  sessionOnly, receiverVars, SessionShape, SessionTypeOK
    <3> QED
      BY <2>1, <3>1 DEF SessionShape, SessionTypeOK, ClientShape
  <2> QED
    BY <2>1, <2>2, <2>3 DEF SessionShape
<1>6. CASE UNCHANGED sessionVars
  <2>1. UNCHANGED clientVars /\ UNCHANGED sessionOnly
    BY <1>6 DEF sessionVars
  <2>2. ClientShape' /\ ReceiverFeeds'
    BY <2>1 DEF clientVars, sessionOnly, SessionShape, ClientShape, ClientTypeOK, Shaped, Frames,
                ReceiverFeeds
  <2> QED
    BY <1>1, <2>1, <2>2
<1> QED
  BY <1>2, <1>3, <1>4, <1>5, <1>6 DEF SessionNext, WorkerSteps

-----------------------------------------------------------------------------
(* The order of the frames.                                                    *)

\* The frames of the queue grow, behind the last one that the writer took and up
\* to the last one that the session accepted, and the client refuses none.
FramesAreOrdered ==
    LET f == Frames(source) IN
    /\ \A i, j \in 1..Len(f) : i < j => f[i] < f[j]
    /\ \A i \in 1..Len(f) : lastFrame < f[i]
    /\ consumer = "socket" => lastFrame <= lastSequence /\ \A i \in 1..Len(f) : f[i] <= lastSequence
    /\ receiver = "acquire" =>
          frame = lastSequence /\ lastFrame < frame /\ \A i \in 1..Len(f) : f[i] < frame
    /\ writer # "invalid" /\ outcome # "invalid"

LEMMA OrderInitially == SessionInit => FramesAreOrdered
<1> SUFFICES ASSUME SessionInit PROVE FramesAreOrdered
  OBVIOUS
<1>1. /\ lastFrame = 0 /\ lastSequence = 0 /\ receiver # "acquire" /\ writer = "acquire"
      /\ outcome = "none"
      /\ \/ consumer = "socket" /\ source = << >>
         \/ consumer = "image" /\ source = Append(<<1>>, End)
  BY DEF SessionInit, SocketInit, ImageInit, ClientInit
<1>2. << >> \in Seq(FrameIds) /\ Len(<< >>) = 0 /\ <<1>> \in Seq(FrameIds)
  BY EmptySeq, SessionAssumption
<1>3. Frames(<< >>) = << >> /\ Frames(Append(<<1>>, End)) = <<1>>
  BY <1>2, FramesOfPlain, FramesOfEnded
<1>4. CASE consumer = "socket"
  <2>1. Frames(source) = << >> /\ Len(Frames(source)) = 0
    BY <1>1, <1>2, <1>3, <1>4
  <2> QED
    BY <1>1, <2>1 DEF FramesAreOrdered
<1>5. CASE consumer = "image"
  <2>1. Frames(source) = <<1>> /\ Len(<<1>>) = 1 /\ <<1>>[1] = 1
    BY <1>1, <1>3, <1>5
  <2> QED
    BY <1>1, <1>5, <2>1 DEF FramesAreOrdered
<1> QED
  BY <1>1, <1>4, <1>5

LEMMA QuietOrder ==
  ASSUME FramesAreOrdered, Frames(source') = Frames(source),
         UNCHANGED <<consumer, lastFrame, lastSequence>>,
         receiver' # "acquire" \/ UNCHANGED <<receiver, frame>>,
         writer' # "invalid", outcome' # "invalid"
  PROVE  FramesAreOrdered'
BY DEF FramesAreOrdered

LEMMA ReceiverKeepsOrder ==
  ASSUME SessionShape, FramesAreOrdered, ReceiverSteps
  PROVE  FramesAreOrdered'
<1> DEFINE f == Frames(source)
<1>0. /\ source \in Seq(FrameIds) /\ Frames(source) = source /\ consumer = "socket"
      /\ Frames(Append(source, End)) = source
      /\ UNCHANGED <<consumer, lastFrame, writer, outcome>>
      /\ lastSequence \in Nat /\ lastFrame \in Nat /\ Len(source) \in Nat
      /\ \A i \in 1..Len(source) : source[i] \in Nat
      /\ writer # "invalid" /\ outcome # "invalid"
  <2>1. source \in Seq(FrameIds) /\ consumer = "socket"
    BY DEF SessionShape, ReceiverFeeds, ReceiverOver, ReceiverSteps, ReceiveFrame, ReceiveInvalid,
           ReceiveRefused, ReceiveUnreadable, ReceiveDisconnect, Replied, Refused, FrameQueued
  <2>2. UNCHANGED <<consumer, lastFrame, writer, outcome>>
    BY DEF ReceiverSteps, ReceiveFrame, ReceiveInvalid, ReceiveRefused, ReceiveUnreadable,
           ReceiveDisconnect, Replied, Refused, FrameQueued, mainVars, clientButSource, writing,
           reading
  <2> QED
    BY <2>1, <2>2, FramesOfPlain, FramesOfEnded, LenProperties, ElementOfSeq, FrameIdsAssumption
       DEF SessionShape, SessionTypeOK, ClientTypeOK, FramesAreOrdered
<1>1. ASSUME NEW sequence \in FrameIds, ReceiveFrame(sequence) \/ ReceiveInvalid(sequence)
      PROVE  FramesAreOrdered'
  <2>1. /\ sequence \in Nat /\ sequence > lastSequence /\ lastSequence' = sequence
        /\ source' = source /\ frame' = sequence
    BY <1>1, FrameIdsAssumption DEF ReceiveFrame, ReceiveInvalid
  <2>2. /\ lastFrame <= lastSequence /\ \A i \in 1..Len(source) : source[i] <= lastSequence
    BY <1>0 DEF FramesAreOrdered
  <2>3. /\ lastFrame < sequence /\ \A i \in 1..Len(source) : source[i] < sequence
    BY <1>0, <2>1, <2>2
  <2>4. /\ \A i, j \in 1..Len(source) : i < j => source[i] < source[j]
        /\ \A i \in 1..Len(source) : lastFrame < source[i]
    BY <1>0 DEF FramesAreOrdered
  <2>5. lastFrame <= sequence /\ \A i \in 1..Len(source) : source[i] <= sequence
    BY <1>0, <2>1, <2>3
  <2> QED
    BY <1>0, <2>1, <2>3, <2>4, <2>5 DEF FramesAreOrdered
<1>2. CASE FrameQueued
  <2> DEFINE q == Append(source, frame)
  <2>1. /\ frame = lastSequence /\ lastFrame < frame /\ \A i \in 1..Len(source) : source[i] < frame
        /\ frame \in FrameIds
        /\ source' \in {q, Append(q, End)} /\ receiver' # "acquire" /\ lastSequence' = lastSequence
    BY <1>0, <1>2 DEF FrameQueued, FramesAreOrdered, SessionShape, ReceiverFeeds
  <2>2. /\ q \in Seq(FrameIds) /\ Len(q) = Len(source) + 1 /\ q[Len(source) + 1] = frame
        /\ \A i \in 1..Len(source) : q[i] = source[i]
    BY <1>0, <2>1, AppendProperties
  <2>3. Frames(source') = q
    BY <2>1, <2>2, FramesOfPlain, FramesOfEnded
  <2> HIDE DEF q
  <2>4. /\ \A i, j \in 1..Len(source) : i < j => source[i] < source[j]
        /\ \A i \in 1..Len(source) : lastFrame < source[i]
    BY <1>0 DEF FramesAreOrdered
  <2>5. \A i, j \in 1..Len(q) : i < j => q[i] < q[j]
    <3> SUFFICES ASSUME NEW i \in 1..Len(q), NEW j \in 1..Len(q), i < j PROVE q[i] < q[j]
      OBVIOUS
    <3>1. i \in 1..Len(source) /\ q[i] = source[i]
      BY <1>0, <2>2
    <3>2. CASE j = Len(source) + 1
      BY <2>1, <2>2, <3>1, <3>2
    <3>3. CASE j # Len(source) + 1
      <4>1. j \in 1..Len(source) /\ q[j] = source[j]
        BY <1>0, <2>2, <3>3
      <4> QED
        BY <2>4, <3>1, <4>1
    <3> QED
      BY <3>2, <3>3
  <2>6. \A i \in 1..Len(q) : lastFrame < q[i] /\ q[i] <= lastSequence
    BY <1>0, <2>1, <2>2, <2>4
  <2>7. lastFrame <= lastSequence
    BY <1>0 DEF FramesAreOrdered
  <2> QED
    BY <1>0, <2>1, <2>3, <2>5, <2>6, <2>7 DEF FramesAreOrdered
<1>3. CASE ~FrameQueued /\ ~(\E s \in FrameIds : ReceiveFrame(s) \/ ReceiveInvalid(s))
  <2>1. source' \in {source, Append(source, End)} /\ receiver' # "acquire" /\ UNCHANGED lastSequence
    BY <1>3 DEF ReceiverSteps, ReceiveRefused, ReceiveUnreadable, ReceiveDisconnect, Replied,
                Refused, ReceiverEnds, ReceivesOn
  <2> QED
    BY <1>0, <2>1, QuietOrder
<1> QED
  BY <1>1, <1>2, <1>3

LEMMA WriterKeepsOrder ==
  ASSUME SessionShape, FramesAreOrdered, WriterSteps, UNCHANGED sessionOnly
  PROVE  FramesAreOrdered'
<1>0. /\ Shaped(source) /\ Frames(source) \in Seq(FrameIds) /\ lastFrame \in Nat
      /\ UNCHANGED <<consumer, lastSequence, receiver, frame>> /\ UNCHANGED outcome
      /\ outcome # "invalid"
  BY DEF SessionShape, ClientShape, ClientTypeOK, Shaped, sessionOnly, FramesAreOrdered, reading,
         WriterSteps, WriterAcquires, SourceEnds, FrameArrives, FrameWritten, WriterCloses
<1>1. CASE WriterAcquires \/ FrameWritten \/ WriterCloses
  <2>1. UNCHANGED <<source, lastFrame>> /\ writer' # "invalid"
    BY <1>1 DEF WriterAcquires, FrameWritten, WriterCloses
  <2> QED
    BY <1>0, <2>1, QuietOrder
<1>2. CASE SourceEnds
  <2>1. Frames(source) = << >> /\ source' = << >> /\ UNCHANGED lastFrame /\ writer' # "invalid"
    BY <1>0, <1>2, FramesOfTail DEF SourceEnds
  <2>2. Frames(<< >>) = << >>
    BY DEF Frames
  <2> QED
    BY <1>0, <2>1, <2>2, QuietOrder
<1>3. CASE FrameArrives
  <2> DEFINE f == Frames(source)
             t == Tail(f)
  <2>1. /\ source # << >> /\ Head(source) # End /\ source' = Tail(source)
    BY <1>3 DEF FrameArrives
  <2>2. f # << >> /\ Head(source) = Head(f) /\ Head(f) \in FrameIds /\ Frames(source') = t
    BY <1>0, <2>1, FramesOfTail
  <2>3. /\ Len(f) \in Nat \ {0} /\ Head(f) = f[1] /\ Len(t) = Len(f) - 1
        /\ \A i \in 1..Len(t) : t[i] = f[i + 1]
        /\ \A i \in 1..Len(f) : f[i] \in Nat
    <3>1. Len(f) \in Nat \ {0} /\ Head(f) = f[1]
      BY <1>0, <2>2, EmptySeq
    <3>2. Len(t) = Len(f) - 1 /\ \A i \in 1..Len(t) : t[i] = f[i + 1]
      BY <1>0, <2>2, HeadTailProperties
    <3>3. \A i \in 1..Len(f) : f[i] \in FrameIds
      BY <1>0, ElementOfSeq
    <3> QED
      BY <3>1, <3>2, <3>3, FrameIdsAssumption
  <2>4. /\ \A i, j \in 1..Len(f) : i < j => f[i] < f[j]
        /\ \A i \in 1..Len(f) : lastFrame < f[i]
        /\ consumer = "socket" =>
              lastFrame <= lastSequence /\ \A i \in 1..Len(f) : f[i] <= lastSequence
        /\ receiver = "acquire" =>
              frame = lastSequence /\ lastFrame < frame /\ \A i \in 1..Len(f) : f[i] < frame
    BY DEF FramesAreOrdered
  <2> HIDE DEF f, t
  <2>5. 1 \in 1..Len(f) /\ Head(f) > lastFrame
    BY <1>0, <2>3, <2>4
  <2>6. lastFrame' = f[1] /\ writer' = "write"
    BY <1>3, <2>2, <2>3, <2>5 DEF FrameArrives
  <2>7. \A i \in 1..Len(t) : i + 1 \in 1..Len(f) /\ t[i] = f[i + 1]
    BY <2>3
  <2>8. \A i, j \in 1..Len(t) : i < j => t[i] < t[j]
    <3> SUFFICES ASSUME NEW i \in 1..Len(t), NEW j \in 1..Len(t), i < j PROVE t[i] < t[j]
      OBVIOUS
    <3>1. i + 1 < j + 1 /\ t[i] = f[i + 1] /\ t[j] = f[j + 1]
      BY <2>7
    <3> QED
      BY <2>4, <2>7, <3>1
  <2>9. \A i \in 1..Len(t) : f[1] < t[i]
    <3> SUFFICES ASSUME NEW i \in 1..Len(t) PROVE f[1] < t[i]
      OBVIOUS
    <3>1. 1 < i + 1 /\ i + 1 \in 1..Len(f) /\ t[i] = f[i + 1]
      BY <2>7
    <3> QED
      BY <2>4, <2>5, <3>1
  <2>10. consumer = "socket" =>
           f[1] <= lastSequence /\ \A i \in 1..Len(t) : t[i] <= lastSequence
    BY <2>4, <2>5, <2>7
  <2>11. receiver = "acquire" =>
           frame = lastSequence /\ f[1] < frame /\ \A i \in 1..Len(t) : t[i] < frame
    BY <2>4, <2>5, <2>7
  <2> QED
    BY <1>0, <2>2, <2>6, <2>8, <2>9, <2>10, <2>11 DEF FramesAreOrdered
<1> QED
  BY <1>1, <1>2, <1>3 DEF WriterSteps

\* No other step ends the generator or the writer with a refused frame.
LEMMA OthersKeepOrder ==
  ASSUME SessionShape, FramesAreOrdered,
         \/ MainSteps \/ BrowserLeaves \/ WorkerSteps \/ UNCHANGED sessionVars
         \/ (ReaderSteps(consumer = "image") \/ ClientCloses) /\ UNCHANGED sessionOnly
  PROVE  FramesAreOrdered'
<1> USE DEF writing, clientVars, sessionOnly, receiverVars, callVars
<1>0. writer # "invalid" /\ outcome # "invalid" /\ "cancelled" # "invalid"
  BY DEF FramesAreOrdered
<1>1. ASSUME NEW how, how # "invalid", Finishes(how)
      PROVE  UNCHANGED <<source, lastFrame>> /\ writer' # "invalid" /\ outcome' # "invalid"
  BY <1>0, <1>1 DEF Finishes
<1>2. CASE (ReaderSteps(consumer = "image") \/ ClientCloses) /\ UNCHANGED sessionOnly
  <2>1. UNCHANGED <<source, lastFrame>> /\ writer' # "invalid" /\ outcome' # "invalid"
    BY <1>0, <1>1, <1>2 DEF ReaderSteps, WriterSeen, AnswerRead, EndRead, WriterAwaited, ReadFails,
                            ClientCloses
  <2> QED
    BY <1>2, <2>1, QuietOrder
<1>3. CASE MainSteps \/ BrowserLeaves
  <2>1. UNCHANGED <<source, lastFrame>> /\ writer' # "invalid" /\ outcome' # "invalid"
    BY <1>0, <1>1, <1>3 DEF MainSteps, Forward, ResultRefused, AnswerSent, SendFails, GeneratorEnded, Joined,
       FailureSent, ImageAnswered, BrowserLeaves, ConsumerCloses, ConsumerReturns
  <2>2. /\ UNCHANGED <<consumer, lastSequence>>
        /\ receiver' # "acquire" \/ UNCHANGED <<receiver, frame>>
    BY <1>3 DEF MainSteps, Forward, ResultRefused, AnswerSent, SendFails, GeneratorEnded, Joined,
       FailureSent, ImageAnswered, BrowserLeaves, Leaves, ReceiverOver
  <2> QED
    BY <2>1, <2>2, QuietOrder
<1>4. CASE WorkerSteps \/ UNCHANGED sessionVars
  <2>1. /\ UNCHANGED <<source, lastFrame, writer, outcome>>
        /\ UNCHANGED <<consumer, lastSequence, receiver, frame>>
    BY <1>4 DEF WorkerSteps, Replies, WorkerAnswers, WorkerEnds, WorkerBreaks, WorkerErrs,
                sessionVars
  <2> QED
    BY <1>0, <2>1, QuietOrder
<1> QED
  BY <1>2, <1>3, <1>4

-----------------------------------------------------------------------------
(* The two windows.                                                            *)

\* The session is past an answer only when the generator stands there, and the
\* frames in the client's hands are the session's outstanding ones.
PhasesMeet ==
    /\ phase = "sending" => reader = "yielded" /\ consumer = "socket"
    /\ phase \in {"joining", "failing", "over"} => reader = "over"
    /\ reader = "yielded" => result.id \in FrameIds
    /\ consumer = "image" => outstanding = << >>
    /\ ~accused
    /\ gateSlots + Len(outstanding) = RequestWindow

InLine == consumer = "socket" /\ reader # "over" =>
            outstanding = Held \o (pending \o Frames(source))

Windowed == reader # "over" =>
          slots + Len(pending) + (IF writer = "next" THEN 1 ELSE 0)
            = IF consumer = "socket" THEN RequestWindow ELSE 1

InStepInv == PhasesMeet /\ InLine /\ Windowed

LEMMA InStepIsMeant ==
  ASSUME SessionShape, InStepInv
  PROVE  InStep
<1>1. CASE consumer = "socket" /\ reader # "over"
  <2>1. /\ Held \in Seq(FrameIds) /\ pending \in Seq(FrameIds) /\ Frames(source) \in Seq(FrameIds)
    BY DEF SessionShape, ClientShape, ClientTypeOK, Shaped, Held, InStepInv, PhasesMeet
  <2>2. (Held \o pending) \o Frames(source) = Held \o (pending \o Frames(source))
    BY <2>1, ConcatAssociative
  <2> QED
    BY <1>1, <2>2 DEF InStep, InStepInv, InLine, Windowed, PhasesMeet
<1>2. CASE ~(consumer = "socket" /\ reader # "over")
  BY <1>2 DEF InStep, InStepInv, Windowed
<1> QED
  BY <1>1, <1>2

LEMMA InStepInitially == SessionInit => InStepInv
<1> SUFFICES ASSUME SessionInit PROVE InStepInv
  OBVIOUS
<1>1. /\ phase = "serving" /\ reader = "reading" /\ outstanding = << >> /\ ~accused
      /\ gateSlots = RequestWindow /\ pending = << >> /\ writer = "acquire"
      /\ consumer \in {"socket", "image"} /\ consumer = "socket" => source = << >>
      /\ slots = IF consumer = "socket" THEN RequestWindow ELSE 1
  BY DEF SessionInit, SocketInit, ImageInit, ClientInit
<1>2. << >> \in Seq(FrameIds) /\ Len(<< >>) = 0
  BY EmptySeq
<1>3. consumer = "socket" => Frames(source) = << >> /\ Held = << >>
  BY <1>1, <1>2, FramesOfPlain DEF SessionInit, SocketInit, ImageInit, ClientInit, Held
<1>4. PhasesMeet /\ Windowed
  BY <1>1, <1>2, SessionAssumption DEF PhasesMeet, Windowed
<1>5. InLine
  BY <1>1, <1>2, <1>3, ConcatEmptySeq DEF InLine
<1> QED
  BY <1>4, <1>5 DEF InStepInv

\* A step that touches neither window.
LEMMA QuietInStep ==
  ASSUME InStepInv, Frames(source') = Frames(source),
         UNCHANGED <<reader, result, pending, slots>>,
         UNCHANGED <<consumer, phase, gateSlots, outstanding, accused>>,
         writer' = "next" <=> writer = "next"
  PROVE  InStepInv'
BY DEF InStepInv, PhasesMeet, InLine, Windowed, Held

\* Once the generator is over only the sum of the session's slots remains.
LEMMA OverInStep ==
  ASSUME InStepInv, reader' = "over", phase' # "sending", ~accused',
         UNCHANGED <<consumer, gateSlots, outstanding>>
  PROVE  InStepInv'
BY DEF InStepInv, PhasesMeet, InLine, Windowed

LEMMA ReceiverKeepsInStep ==
  ASSUME SessionShape, InStepInv, ReceiverSteps
  PROVE  InStepInv'
<1>0. /\ source \in Seq(FrameIds) /\ Frames(source) = source /\ consumer = "socket"
      /\ Frames(Append(source, End)) = source
      /\ UNCHANGED <<reader, result, pending, slots, writer>>
      /\ UNCHANGED <<consumer, phase, accused>>
  <2>1. source \in Seq(FrameIds) /\ consumer = "socket"
    BY DEF SessionShape, ReceiverFeeds, ReceiverOver, ReceiverSteps, ReceiveFrame, ReceiveInvalid,
           ReceiveRefused, ReceiveUnreadable, ReceiveDisconnect, Replied, Refused, FrameQueued
  <2> QED
    BY <2>1, FramesOfPlain, FramesOfEnded
       DEF ReceiverSteps, ReceiveFrame, ReceiveInvalid, ReceiveRefused, ReceiveUnreadable,
           ReceiveDisconnect, Replied, Refused, FrameQueued, mainVars, clientButSource, writing,
           reading
<1>1. CASE FrameQueued
  <2>1. /\ gateSlots > 0 /\ gateSlots' = gateSlots - 1
        /\ outstanding' = Append(outstanding, frame) /\ frame \in FrameIds
        /\ source' \in {Append(source, frame), Append(Append(source, frame), End)}
    BY <1>1 DEF FrameQueued, SessionShape, ReceiverFeeds
  <2>2. /\ gateSlots \in Nat /\ outstanding \in Seq(FrameIds) /\ pending \in Seq(FrameIds)
        /\ Held \in Seq(FrameIds)
    BY DEF SessionShape, SessionTypeOK, ClientTypeOK, Held, InStepInv, PhasesMeet
  <2>3. Append(source, frame) \in Seq(FrameIds) /\ Frames(source') = Append(source, frame)
    BY <1>0, <2>1, FramesOfPlain, FramesOfEnded, AppendProperties
  <2>4. gateSlots' + Len(outstanding') = gateSlots + Len(outstanding)
    BY <2>1, <2>2, AppendProperties, LenProperties
  <2>5. PhasesMeet' /\ Windowed'
    BY <1>0, <2>4 DEF InStepInv, PhasesMeet, Windowed
  <2>6. InLine'
    <3> SUFFICES ASSUME reader # "over" PROVE outstanding' = Held \o (pending \o Frames(source'))
      BY <1>0 DEF InLine, Held
    <3>1. outstanding = Held \o (pending \o source)
      BY <1>0 DEF InStepInv, InLine
    <3>2. pending \o Append(source, frame) = Append(pending \o source, frame)
      BY <1>0, <2>1, <2>2, PushAndPop
    <3>3. pending \o source \in Seq(FrameIds)
      BY <1>0, <2>2, ConcatProperties
    <3>4. Held \o Append(pending \o source, frame) = Append(Held \o (pending \o source), frame)
      <4> DEFINE p == Held
                 q == pending \o source
      <4>1. p \in Seq(FrameIds) /\ q \in Seq(FrameIds) /\ frame \in FrameIds
        BY <2>1, <2>2, <3>3
      <4> HIDE DEF p, q
      <4>2. p \o Append(q, frame) = Append(p \o q, frame)
        BY <4>1, PushAndPop
      <4> QED
        BY <4>2, Zenon DEF p, q
    <3> QED
      BY <2>1, <2>3, <3>1, <3>2, <3>4
  <2> QED
    BY <2>5, <2>6 DEF InStepInv
<1>2. CASE ~FrameQueued
  <2>1. source' \in {source, Append(source, End)} /\ UNCHANGED <<gateSlots, outstanding>>
    BY <1>2 DEF ReceiverSteps, ReceiveFrame, ReceiveInvalid, ReceiveRefused, ReceiveUnreadable,
           ReceiveDisconnect, Replied, Refused, ReceiverEnds, ReceivesOn
  <2> QED
    BY <1>0, <2>1, QuietInStep
<1> QED
  BY <1>1, <1>2

LEMMA WriterKeepsInStep ==
  ASSUME SessionShape, FramesAreOrdered, InStepInv, WriterSteps, UNCHANGED sessionOnly
  PROVE  InStepInv'
<1>0. /\ slots \in Nat /\ pending \in Seq(FrameIds) /\ Shaped(source) /\ Frames(source) \in Seq(FrameIds)
      /\ Len(pending) \in Nat
      /\ UNCHANGED <<reader, result>> /\ UNCHANGED <<consumer, phase, gateSlots, outstanding, accused>>
  BY LenProperties DEF SessionShape, ClientShape, ClientTypeOK, Shaped, WriterSteps, WriterAcquires,
     SourceEnds, FrameArrives, FrameWritten, WriterCloses, reading, sessionOnly
<1>1. CASE FrameWritten \/ WriterCloses
  BY <1>0, <1>1, QuietInStep DEF FrameWritten, WriterCloses
<1>2. CASE WriterAcquires \/ SourceEnds
  <2>1. SourceEnds => Frames(source) = << >> /\ source' = << >>
    BY <1>0, FramesOfTail DEF SourceEnds
  <2>2. Frames(<< >>) = << >>
    BY DEF Frames
  <2>3. Frames(source') = Frames(source) /\ UNCHANGED pending
    BY <1>2, <2>1, <2>2 DEF WriterAcquires, SourceEnds
  <2>4. PhasesMeet' /\ InLine'
    BY <1>0, <2>3 DEF InStepInv, PhasesMeet, InLine, Held
  <2>5. Windowed'
    <3>1. CASE WriterAcquires
      <4>1. writer = "acquire" /\ writer' = "next" /\ slots' = slots - 1
        BY <3>1 DEF WriterAcquires
      <4> QED
        BY <1>0, <2>3, <4>1 DEF InStepInv, Windowed
    <3>2. CASE SourceEnds
      <4>1. writer = "next" /\ writer' = "closing" /\ slots' = slots + 1
        BY <3>2 DEF SourceEnds
      <4> QED
        BY <1>0, <2>3, <4>1 DEF InStepInv, Windowed
    <3> QED
      BY <1>2, <3>1, <3>2
  <2> QED
    BY <2>4, <2>5 DEF InStepInv
<1>3. CASE FrameArrives
  <2> DEFINE f == Frames(source)
  <2>1. /\ source # << >> /\ Head(source) # End /\ writer = "next" /\ source' = Tail(source)
    BY <1>3 DEF FrameArrives
  <2>2. f # << >> /\ Head(source) = Head(f) /\ Head(f) \in FrameIds /\ Frames(source') = Tail(f)
    BY <1>0, <2>1, FramesOfTail
  <2>3. CASE Head(source) > lastFrame
    <3>1. pending' = Append(pending, Head(f)) /\ slots' = slots /\ writer' = "write"
      BY <1>3, <2>2, <2>3 DEF FrameArrives
    <3>2. Append(pending, Head(f)) \o Tail(f) = pending \o f
      <4>1. f \in Seq(FrameIds) /\ f # << >> /\ pending \in Seq(FrameIds)
        BY <1>0, <2>2
      <4> HIDE DEF f
      <4> QED
        BY <4>1, MoveOne
    <3>3. Len(pending') = Len(pending) + 1
      BY <1>0, <2>2, <3>1, AppendProperties
    <3>4. PhasesMeet' /\ Windowed'
      BY <1>0, <2>1, <3>1, <3>3 DEF InStepInv, PhasesMeet, Windowed
    <3>5. InLine'
      BY <1>0, <2>2, <3>1, <3>2 DEF InStepInv, InLine, Held
    <3> QED
      BY <3>4, <3>5 DEF InStepInv
  <2>4. CASE ~(Head(source) > lastFrame)
    <3>1. Len(f) \in Nat \ {0} /\ lastFrame < Head(f)
      <4>1. Len(f) \in Nat \ {0} /\ Head(f) = f[1]
        BY <1>0, <2>2, EmptySeq
      <4> QED
        BY <4>1 DEF FramesAreOrdered
    <3>2. lastFrame \in Nat /\ Head(f) \in Nat
      BY <2>2, FrameIdsAssumption DEF SessionShape, ClientShape, ClientTypeOK
    <3> QED
      BY <2>2, <2>4, <3>1, <3>2
  <2> QED
    BY <2>3, <2>4
<1> QED
  BY <1>1, <1>2, <1>3 DEF WriterSteps

LEMMA ReaderKeepsInStep ==
  ASSUME SessionShape, InStepInv, UNCHANGED sessionOnly,
         NEW raises \in BOOLEAN, ReaderSteps(raises) \/ ClientCloses
  PROVE  InStepInv'
<1>0. /\ UNCHANGED <<consumer, phase, gateSlots, outstanding, accused>>
      /\ slots \in Nat /\ pending \in Seq(FrameIds) /\ responses \in Seq(Results)
      /\ Frames(source) \in Seq(FrameIds) /\ Len(pending) \in Nat
      /\ ~accused
      /\ phase = "sending" => reader = "yielded"
      /\ phase \in {"serving", "sending", "joining", "failing", "over"}
  BY LenProperties DEF sessionOnly, SessionShape, SessionTypeOK, ClientShape, ClientTypeOK, Shaped,
                       InStepInv, PhasesMeet
<1>1. ASSUME NEW how, Finishes(how), reader # "yielded"
      PROVE  InStepInv'
  BY <1>0, <1>1, OverInStep DEF Finishes
<1>2. ASSUME UNCHANGED <<source, result, pending, slots, writer>>,
             reader = "reading", reader' \in {"reading", "ending"}
      PROVE  InStepInv'
  BY <1>0, <1>2 DEF InStepInv, PhasesMeet, InLine, Windowed, Held
<1>3. CASE WriterSeen \/ EndRead \/ WriterAwaited \/ ReadFails
  BY <1>1, <1>2, <1>3 DEF WriterSeen, EndRead, WriterAwaited, ReadFails, writing
<1>4. CASE AnswerRead(raises)
  <2> DEFINE m == Head(responses)
  <2>0. reader = "reading"
    BY <1>4 DEF AnswerRead
  <2>1. CASE ~Valid(m) \/ (raises /\ m.kind # "success")
    BY <1>1, <1>4, <2>0, <2>1 DEF AnswerRead
  <2>2. CASE Valid(m) /\ ~(raises /\ m.kind # "success")
    <3>1. pending # << >> /\ m.id = Head(pending)
      BY <2>2 DEF Valid
    <3>2. /\ pending' = Tail(pending) /\ slots' = slots + 1 /\ reader' = "yielded"
          /\ result' = m /\ UNCHANGED <<source, writer>>
      BY <1>4, <2>2 DEF AnswerRead
    <3>3. /\ Head(pending) \in FrameIds /\ Tail(pending) \in Seq(FrameIds)
          /\ Len(Tail(pending)) + 1 = Len(pending)
          /\ <<Head(pending)>> \o Tail(pending) = pending
      BY <1>0, <3>1, MoveOne
    <3>4. phase = "serving"
      BY <1>0, <2>0 DEF InStepInv, PhasesMeet
    <3>5. Held = << >> /\ Held' = <<Head(pending)>>
      BY <1>0, <2>0, <3>1, <3>2, <3>4 DEF Held
    <3> HIDE DEF m
    <3>6. PhasesMeet'
      BY <1>0, <3>1, <3>2, <3>3, <3>4 DEF InStepInv, PhasesMeet
    <3>7. Windowed'
      <4>1. Len(pending') \in Nat
        BY <3>2, <3>3, LenProperties
      <4> QED
        BY <1>0, <2>0, <3>2, <3>3, <4>1 DEF InStepInv, Windowed
    <3>8. InLine'
      <4> SUFFICES ASSUME consumer = "socket"
                   PROVE  outstanding' = Held' \o (pending' \o Frames(source'))
        BY <1>0 DEF InLine
      <4>1. outstanding = << >> \o (pending \o Frames(source))
        BY <2>0, <3>5 DEF InStepInv, InLine
      <4>2. /\ pending \o Frames(source) \in Seq(FrameIds)
            /\ <<Head(pending)>> \in Seq(FrameIds)
        BY <1>0, <3>3, ConcatProperties
      <4>3. << >> \o (pending \o Frames(source)) = pending \o Frames(source)
        BY <4>2, ConcatEmptySeq
      <4>4. (<<Head(pending)>> \o Tail(pending)) \o Frames(source)
              = <<Head(pending)>> \o (Tail(pending) \o Frames(source))
        BY <1>0, <3>3, <4>2, ConcatAssociative
      <4> QED
        BY <1>0, <3>2, <3>3, <3>5, <4>1, <4>3, <4>4
    <3> QED
      BY <3>6, <3>7, <3>8 DEF InStepInv
  <2> QED
    BY <2>1, <2>2
<1>5. CASE ClientCloses
  BY <1>0, <1>5, QuietInStep DEF ClientCloses, writing
<1> QED
  BY <1>3, <1>4, <1>5 DEF ReaderSteps

LEMMA MainKeepsInStep ==
  ASSUME SessionShape, InStepInv, MainSteps \/ BrowserLeaves
  PROVE  InStepInv'
<1>0. /\ consumer' = consumer /\ ~accused
      /\ gateSlots \in Nat /\ outstanding \in Seq(FrameIds)
      /\ gateSlots + Len(outstanding) = RequestWindow
  BY DEF SessionShape, SessionTypeOK, InStepInv, PhasesMeet, MainSteps, Forward, ResultRefused, AnswerSent,
         SendFails, GeneratorEnded, Joined, FailureSent, ImageAnswered, BrowserLeaves
<1>1. ASSUME reader' = "over", phase' # "sending", UNCHANGED <<accused, gateSlots, outstanding>>
      PROVE  InStepInv'
  BY <1>0, <1>1, OverInStep
<1>2. ConsumerCloses => reader' = "over"
  BY DEF ConsumerCloses, Finishes
<1>3. CASE Forward
  <2> DEFINE rest == pending \o Frames(source)
  <2>1. consumer = "socket" /\ phase = "serving" /\ reader = "yielded" /\ result.id \in FrameIds
    BY <1>3 DEF Forward, InStepInv, PhasesMeet
  <2>2. outstanding = <<result.id>> \o rest
    BY <2>1 DEF InStepInv, InLine, Held
  <2>3. rest \in Seq(FrameIds)
    BY ConcatProperties DEF SessionShape, ClientShape, ClientTypeOK, Shaped
  <2>4. Head(outstanding) = result.id /\ Tail(outstanding) = rest /\ outstanding # << >>
    <3> HIDE DEF rest
    <3> QED
      BY <2>1, <2>2, <2>3, PushAndPop
  <2>5. /\ outstanding' = rest /\ gateSlots' = gateSlots + 1 /\ phase' = "sending"
        /\ UNCHANGED clientVars /\ accused' = accused
    BY <1>3, <2>4 DEF Forward
  <2>6. Len(outstanding') + 1 = Len(outstanding) /\ Len(outstanding') \in Nat
    <3> HIDE DEF rest
    <3> QED
      BY <1>0, <2>3, <2>4, <2>5, MoveOne, LenProperties
  <2>7. PhasesMeet'
    BY <1>0, <2>1, <2>5, <2>6 DEF InStepInv, PhasesMeet, clientVars
  <2>8. InLine'
    <3>1. << >> \o rest = rest
      BY <2>3, ConcatEmptySeq
    <3>2. Held' = << >> /\ pending' = pending /\ source' = source
      BY <2>5 DEF Held, clientVars
    <3> QED
      BY <2>5, <3>1, <3>2 DEF InLine
  <2>9. Windowed'
    BY <1>0, <2>5 DEF InStepInv, Windowed, clientVars
  <2> QED
    BY <2>7, <2>8, <2>9 DEF InStepInv
<1>4. CASE AnswerSent
  <2>1. CASE result.kind = "fatal"
    BY <1>1, <1>2, <1>4, <2>1 DEF AnswerSent, Leaves
  <2>2. CASE result.kind # "fatal"
    <3>1. /\ phase = "sending" /\ phase' = "serving" /\ reader = "yielded" /\ reader' = "reading"
          /\ UNCHANGED <<source, pending, slots, writer>> /\ UNCHANGED <<accused, gateSlots, outstanding>>
      BY <1>4, <2>2 DEF AnswerSent, ConsumerReturns, writing
    <3>2. Held = << >> /\ Held' = << >>
      BY <3>1 DEF Held
    <3> QED
      BY <1>0, <3>1, <3>2 DEF InStepInv, PhasesMeet, InLine, Windowed
  <2> QED
    BY <2>1, <2>2
<1>5. CASE SendFails
  BY <1>1, <1>2, <1>5 DEF SendFails, Leaves
<1>6. CASE GeneratorEnded
  BY <1>1, <1>6 DEF GeneratorEnded, Leaves, clientVars
<1>7. CASE Joined
  BY <1>1, <1>7 DEF Joined, Leaves, clientVars, InStepInv, PhasesMeet
<1>8. CASE FailureSent
  BY <1>1, <1>8 DEF FailureSent, Leaves, clientVars, InStepInv, PhasesMeet
<1>9. CASE ImageAnswered
  BY <1>1, <1>2, <1>9 DEF ImageAnswered, Leaves, clientVars
<1>10. CASE BrowserLeaves
  BY <1>10, QuietInStep DEF BrowserLeaves, clientVars
<1>11. CASE ResultRefused
  BY <1>1, <1>2, <1>11 DEF ResultRefused
<1> QED
  BY <1>3, <1>4, <1>5, <1>6, <1>7, <1>8, <1>9, <1>10, <1>11 DEF MainSteps

LEMMA InStepStep ==
  ASSUME SessionShape, FramesAreOrdered, InStepInv, [SessionNext]_sessionVars
  PROVE  InStepInv'
<1>1. CASE ReceiverSteps
  BY <1>1, ReceiverKeepsInStep
<1>2. CASE MainSteps \/ BrowserLeaves
  BY <1>2, MainKeepsInStep
<1>3. CASE ClientSteps
  <2>1. (consumer = "image") \in BOOLEAN
    OBVIOUS
  <2> QED
    BY <1>3, <2>1, WriterKeepsInStep, ReaderKeepsInStep DEF ClientSteps
<1>4. CASE WorkerSteps \/ UNCHANGED sessionVars
  <2>1. /\ UNCHANGED <<source, reader, result, pending, slots, writer>>
        /\ UNCHANGED <<consumer, phase, gateSlots, outstanding, accused>>
    BY <1>4 DEF WorkerSteps, Replies, WorkerAnswers, WorkerEnds, WorkerBreaks, WorkerErrs,
                sessionVars, clientVars, sessionOnly, callVars, writing, receiverVars
  <2> QED
    BY <2>1, QuietInStep
<1> QED
  BY <1>1, <1>2, <1>3, <1>4 DEF SessionNext, WorkerSteps

LEMMA OrderStep ==
  ASSUME SessionShape, FramesAreOrdered, [SessionNext]_sessionVars
  PROVE  FramesAreOrdered'
BY ReceiverKeepsOrder, WriterKeepsOrder, OthersKeepOrder
   DEF SessionNext, ClientSteps, WorkerSteps
-----------------------------------------------------------------------------
(* Workers that keep the contract.                                             *)

Ids(answers) == [k \in 1..Len(answers) |-> answers[k].id]
Handed == IF writer = "write" THEN <<hand>> ELSE << >>

\* The answers of an honest worker are for the oldest frames that are due, and
\* while the call is open the frames due are the answers on their way back, the
\* requests on their way there and the one that the writer holds.
AnswersAreDue ==
    /\ \A k \in 1..Len(responses) : responses[k].kind # "malformed"
    /\ \E rest \in Seq(FrameIds) : pending = Ids(responses) \o rest
    /\ call = "open" => pending = Ids(responses) \o (Frames(requests) \o Handed)
    /\ call = "ok" => writer = "done" /\ pending = Ids(responses)
    /\ reader = "ending" => responses = << >>

HonestInv ==
    /\ reader = "ending" => call = "ok"
    /\ honest => outcome # "protocol"
    /\ honest /\ reader # "over" => AnswersAreDue

LEMMA ResultsNameFrames == \A m \in Results : m.id \in FrameIds
BY DEF Results

LEMMA IdsOfAnswers ==
  ASSUME NEW a \in Seq(Results)
  PROVE  /\ Ids(a) \in Seq(FrameIds) /\ Len(Ids(a)) = Len(a)
         /\ a = << >> => Ids(a) = << >>
         /\ a # << >> => /\ Ids(a) # << >> /\ Head(Ids(a)) = Head(a).id
                         /\ Head(a) = a[1] /\ 1 \in 1..Len(a)
                         /\ Ids(Tail(a)) = Tail(Ids(a))
         /\ \A m \in Results : Ids(Append(a, m)) = Append(Ids(a), m.id)
<1>0. Len(a) \in Nat /\ \A k \in 1..Len(a) : a[k] \in Results /\ a[k].id \in FrameIds
  BY LenProperties, ElementOfSeq, ResultsNameFrames
<1>1. Ids(a) \in Seq(FrameIds) /\ Len(Ids(a)) = Len(a) /\ \A k \in 1..Len(a) : Ids(a)[k] = a[k].id
  BY <1>0, IsASeq DEF Ids
<1>2. a = << >> => Ids(a) = << >>
  BY <1>1, EmptySeq
<1>3. ASSUME a # << >>
      PROVE  /\ Ids(a) # << >> /\ Head(Ids(a)) = Head(a).id
             /\ Head(a) = a[1] /\ 1 \in 1..Len(a)
             /\ Ids(Tail(a)) = Tail(Ids(a))
  <2>1. Len(a) \in Nat \ {0} /\ Head(a) = a[1]
    BY <1>3, EmptySeq
  <2>2. Ids(a) # << >> /\ Head(Ids(a)) = Ids(a)[1]
    BY <1>1, <2>1, EmptySeq
  <2>3. /\ Tail(a) \in Seq(Results) /\ Len(Tail(a)) = Len(a) - 1
        /\ \A k \in 1..Len(Tail(a)) : Tail(a)[k] = a[k + 1]
    BY <1>3, HeadTailProperties
  <2>4. /\ Tail(Ids(a)) \in Seq(FrameIds) /\ Len(Tail(Ids(a))) = Len(a) - 1
        /\ \A k \in 1..(Len(a) - 1) : Tail(Ids(a))[k] = Ids(a)[k + 1]
    BY <1>1, <2>2, HeadTailProperties
  <2>5. /\ \A k \in 1..Len(Tail(a)) : Tail(a)[k].id \in FrameIds
        /\ Len(Tail(a)) \in Nat
    BY <2>3, ElementOfSeq, LenProperties, ResultsNameFrames
  <2>6. /\ Ids(Tail(a)) \in Seq(FrameIds) /\ Len(Ids(Tail(a))) = Len(a) - 1
        /\ \A k \in 1..(Len(a) - 1) : Ids(Tail(a))[k] = Tail(a)[k].id
    BY <2>3, <2>5, IsASeq DEF Ids
  <2>7. \A k \in 1..(Len(a) - 1) : Ids(Tail(a))[k] = Tail(Ids(a))[k]
    <3> SUFFICES ASSUME NEW k \in 1..(Len(a) - 1) PROVE Ids(Tail(a))[k] = Tail(Ids(a))[k]
      OBVIOUS
    <3>1. Ids(Tail(a))[k] = a[k + 1].id
      BY <2>3, <2>6
    <3>2. k + 1 \in 1..Len(a)
      BY <1>0
    <3> QED
      BY <1>1, <2>4, <3>1, <3>2
  <2>8. Ids(Tail(a)) = Tail(Ids(a))
    BY <2>4, <2>6, <2>7, SeqEqual
  <2> QED
    BY <1>0, <1>1, <2>1, <2>2, <2>8
<1>4. ASSUME NEW m \in Results
      PROVE  Ids(Append(a, m)) = Append(Ids(a), m.id)
  <2> DEFINE b == Append(a, m)
  <2>1. /\ b \in Seq(Results) /\ Len(b) = Len(a) + 1 /\ b[Len(a) + 1] = m
        /\ \A k \in 1..Len(a) : b[k] = a[k]
    BY AppendProperties
  <2>2. m.id \in FrameIds
    BY DEF Results
  <2>3. /\ Append(Ids(a), m.id) \in Seq(FrameIds) /\ Len(Append(Ids(a), m.id)) = Len(a) + 1
        /\ Append(Ids(a), m.id)[Len(a) + 1] = m.id
        /\ \A k \in 1..Len(a) : Append(Ids(a), m.id)[k] = Ids(a)[k]
    BY <1>1, <2>2, AppendProperties
  <2> HIDE DEF b
  <2>4. \A k \in 1..Len(b) : b[k].id \in FrameIds
    BY <2>1, ElementOfSeq, ResultsNameFrames
  <2>5. /\ Ids(b) \in Seq(FrameIds) /\ Len(Ids(b)) = Len(a) + 1
        /\ \A k \in 1..(Len(a) + 1) : Ids(b)[k] = b[k].id
    BY <1>0, <2>1, <2>4, IsASeq DEF Ids
  <2>6. \A k \in 1..(Len(a) + 1) : Ids(b)[k] = Append(Ids(a), m.id)[k]
    BY <1>0, <1>1, <2>1, <2>3, <2>5
  <2>7. Ids(b) = Append(Ids(a), m.id)
    BY <2>3, <2>5, <2>6, SeqEqual
  <2> QED
    BY <2>7 DEF b
<1> QED
  BY <1>1, <1>2, <1>3, <1>4

LEMMA HonestInitially == SessionInit => HonestInv
<1> SUFFICES ASSUME SessionInit PROVE HonestInv
  OBVIOUS
<1>1. /\ reader = "reading" /\ call = "open" /\ outcome = "none" /\ writer = "acquire"
      /\ pending = << >> /\ responses = << >> /\ requests = << >>
  BY DEF SessionInit, SocketInit, ImageInit, ClientInit
<1>2. << >> \in Seq(FrameIds) /\ << >> \in Seq(Results) /\ Len(<< >>) = 0
  BY EmptySeq
<1>3. Ids(<< >>) = << >> /\ Frames(<< >>) = << >> /\ << >> \o << >> = << >>
  BY <1>2, IdsOfAnswers, FramesOfPlain, ConcatEmptySeq
<1>4. /\ Ids(responses) = << >> /\ Frames(requests) = << >> /\ Handed = << >>
      /\ Len(responses) = 0 /\ pending = << >> \o << >>
  BY <1>1, <1>2, <1>3 DEF Handed
<1>5. AnswersAreDue
  <2>1. \E rest \in Seq(FrameIds) : pending = Ids(responses) \o rest
    BY <1>2, <1>4
  <2>2. pending = Ids(responses) \o (Frames(requests) \o Handed)
    BY <1>3, <1>4
  <2>3. \A k \in 1..Len(responses) : responses[k].kind # "malformed"
    BY <1>4
  <2> QED
    BY <1>1, <2>1, <2>2, <2>3 DEF AnswersAreDue
<1> QED
  BY <1>1, <1>5 DEF HonestInv

\* A step of the session that leaves the call and its queues alone.
LEMMA QuietHonest ==
  ASSUME HonestInv, UNCHANGED <<writer, hand, pending, call, requests, responses, outcome, honest>>,
         reader' = reader \/ (reader = "yielded" /\ reader' = "reading")
  PROVE  HonestInv'
BY DEF HonestInv, AnswersAreDue, Handed

LEMMA OverHonest ==
  ASSUME HonestInv, NEW how, Finishes(how), UNCHANGED honest, honest => how # "protocol"
  PROVE  HonestInv'
BY DEF HonestInv, Finishes

LEMMA WriterKeepsHonest ==
  ASSUME SessionShape, HonestInv, WriterSteps, UNCHANGED sessionOnly
  PROVE  HonestInv'
<1>0. /\ UNCHANGED <<call, responses, reader, outcome>> /\ UNCHANGED honest
      /\ pending \in Seq(FrameIds) /\ responses \in Seq(Results)
      /\ Shaped(source) /\ Frames(requests) \in Seq(FrameIds)
      /\ Ids(responses) \in Seq(FrameIds) /\ writer # "done"
      /\ requests \in Seq(FrameIds) /\ Frames(requests) = requests
  BY IdsOfAnswers, FramesOfPlain
     DEF SessionShape, ClientShape, ClientTypeOK, Shaped, WriterSteps, WriterAcquires,
         SourceEnds, FrameArrives, FrameWritten, WriterCloses, reading, sessionOnly
<1> SUFFICES ASSUME honest, reader # "over" PROVE AnswersAreDue'
  BY <1>0 DEF HonestInv
<1>1. AnswersAreDue /\ call # "ok"
  BY <1>0 DEF HonestInv, AnswersAreDue
<1>2. ASSUME UNCHANGED pending, Frames(requests') = Frames(requests), writer # "write",
             writer' # "write"
      PROVE  AnswersAreDue'
  BY <1>0, <1>1, <1>2 DEF AnswersAreDue, Handed
<1>3. CASE WriterAcquires \/ SourceEnds
  BY <1>2, <1>3 DEF WriterAcquires, SourceEnds
<1>4. CASE WriterCloses
  <2>1. Frames(Append(requests, End)) = requests
    BY <1>0, FramesOfEnded
  <2> QED
    BY <1>0, <1>2, <1>4, <2>1 DEF WriterCloses
<1>5. CASE FrameArrives
  <2> DEFINE h == Head(source)
  <2>1. writer = "next" /\ source # << >> /\ h # End /\ UNCHANGED requests
    BY <1>5 DEF FrameArrives
  <2>2. h \in FrameIds
    BY <1>0, <2>1, FramesOfTail
  <2>3. CASE ~(h > lastFrame)
    BY <1>2, <1>5, <2>1, <2>3 DEF FrameArrives
  <2>4. CASE h > lastFrame
    <3>1. pending' = Append(pending, h) /\ hand' = h /\ writer' = "write"
      BY <1>5, <2>4 DEF FrameArrives
    <3>2. PICK rest \in Seq(FrameIds) : pending = Ids(responses) \o rest
      BY <1>1 DEF AnswersAreDue
    <3> HIDE DEF h
    <3>3. pending' = Ids(responses) \o Append(rest, h) /\ Append(rest, h) \in Seq(FrameIds)
      <4>1. Ids(responses) \o Append(rest, h) = Append(Ids(responses) \o rest, h)
        BY <1>0, <2>2, PushAndPop
      <4>2. Append(rest, h) \in Seq(FrameIds)
        BY <2>2, AppendProperties
      <4> QED
        BY <3>1, <3>2, <4>1, <4>2
    <3>4. \E r \in Seq(FrameIds) : pending' = Ids(responses)' \o r
      BY <1>0, <3>3
    <3>5. ASSUME call = "open"
          PROVE  pending' = Ids(responses) \o (requests \o <<h>>)
      <4>1. pending = Ids(responses) \o (requests \o << >>)
        BY <1>0, <1>1, <2>1, <3>5 DEF AnswersAreDue, Handed
      <4>2. requests \o << >> = requests /\ requests \o <<h>> = Append(requests, h)
        BY <1>0, <2>2, ConcatEmptySeq, AppendIsConcat
      <4>3. Ids(responses) \o Append(requests, h) = Append(Ids(responses) \o requests, h)
        BY <1>0, <2>2, PushAndPop
      <4> QED
        BY <3>1, <4>1, <4>2, <4>3
    <3> QED
      BY <1>0, <1>1, <2>1, <3>1, <3>4, <3>5 DEF AnswersAreDue, Handed
  <2> QED
    BY <2>3, <2>4
<1>6. CASE FrameWritten
  <2>1. hand \in FrameIds /\ UNCHANGED pending /\ writer = "write" /\ writer' # "write"
    BY <1>6 DEF FrameWritten, SessionShape, ClientShape
  <2>2. CASE call = "open"
    <3>1. requests' = Append(requests, hand)
      BY <1>6, <2>2 DEF FrameWritten
    <3>2. /\ Append(requests, hand) \in Seq(FrameIds) /\ requests \o <<hand>> = Append(requests, hand)
          /\ Append(requests, hand) \o << >> = Append(requests, hand)
      BY <1>0, <2>1, AppendProperties, AppendIsConcat, ConcatEmptySeq
    <3>3. Frames(requests') = Append(requests, hand)
      BY <3>1, <3>2, FramesOfPlain
    <3> QED
      BY <1>0, <1>1, <2>1, <2>2, <3>2, <3>3 DEF AnswersAreDue, Handed
  <2>3. CASE call # "open"
    BY <1>0, <1>1, <2>1, <2>3 DEF AnswersAreDue
  <2> QED
    BY <2>2, <2>3
<1> QED
  BY <1>3, <1>4, <1>5, <1>6 DEF WriterSteps

LEMMA ReaderKeepsHonest ==
  ASSUME SessionShape, HonestInv, UNCHANGED sessionOnly, NEW raises \in BOOLEAN,
         ReaderSteps(raises) \/ ClientCloses
  PROVE  HonestInv'
<1>0. /\ UNCHANGED honest /\ pending \in Seq(FrameIds) /\ responses \in Seq(Results)
      /\ Shaped(requests)
      /\ requests \in Seq(FrameIds) \/ writer = "done"
      /\ writer = "done" => exhausted
      /\ Ids(responses) \in Seq(FrameIds) /\ Ids(<< >>) = << >>
      /\ << >> \in Seq(FrameIds) /\ << >> \in Seq(Results)
  BY IdsOfAnswers, EmptySeq DEF SessionShape, ClientShape, ClientTypeOK, sessionOnly
<1>1. CASE WriterSeen
  <2>1. CASE writer \in WriterErrors
    BY <1>0, <1>1, <2>1, OverHonest DEF WriterSeen, WriterErrors, WriterOver
  <2>2. CASE writer \notin WriterErrors
    BY <1>0, <1>1, <2>2, QuietHonest DEF WriterSeen, writing
  <2> QED
    BY <2>1, <2>2
<1>2. CASE AnswerRead(raises)
  <2> DEFINE m == Head(responses)
  <2>1. reader = "reading" /\ responses # << >>
    BY <1>2 DEF AnswerRead
  <2>2. /\ Ids(responses) # << >> /\ Head(Ids(responses)) = m.id /\ m = responses[1]
        /\ 1 \in 1..Len(responses) /\ Ids(Tail(responses)) = Tail(Ids(responses))
        /\ Tail(responses) \in Seq(Results) /\ Len(Tail(responses)) = Len(responses) - 1
        /\ \A k \in 1..Len(Tail(responses)) : Tail(responses)[k] = responses[k + 1]
        /\ Tail(Ids(responses)) \in Seq(FrameIds)
    BY <1>0, <2>1, IdsOfAnswers, HeadTailProperties
  <2>3. ASSUME honest
        PROVE  /\ AnswersAreDue
               /\ Valid(m)
    <3>1. AnswersAreDue
      BY <2>1, <2>3 DEF HonestInv
    <3>2. PICK rest \in Seq(FrameIds) : pending = Ids(responses) \o rest
      BY <3>1 DEF AnswersAreDue
    <3>3. pending # << >> /\ Head(pending) = m.id
      BY <1>0, <2>2, <3>2, PopConcat
    <3>4. m.kind # "malformed"
      BY <2>2, <3>1 DEF AnswersAreDue
    <3> QED
      BY <3>1, <3>3, <3>4 DEF Valid
  <2>4. CASE ~Valid(m)
    BY <1>0, <1>2, <2>3, <2>4, OverHonest DEF AnswerRead
  <2>5. CASE Valid(m) /\ raises /\ m.kind # "success"
    BY <1>0, <1>2, <2>5, OverHonest DEF AnswerRead
  <2>6. CASE Valid(m) /\ ~(raises /\ m.kind # "success")
    <3>1. /\ pending' = Tail(pending) /\ reader' = "yielded" /\ responses' = Tail(responses)
          /\ UNCHANGED <<writer, hand, call, requests, outcome>>
      BY <1>2, <2>6 DEF AnswerRead
    <3>2. SUFFICES ASSUME honest PROVE AnswersAreDue'
      BY <1>0, <3>1 DEF HonestInv
    <3>3. AnswersAreDue
      BY <2>3, <3>2
    <3> HIDE DEF m
    <3>4. \A k \in 1..Len(responses') : responses'[k].kind # "malformed"
      <4> SUFFICES ASSUME NEW k \in 1..Len(Tail(responses))
                   PROVE  Tail(responses)[k].kind # "malformed"
        BY <3>1
      <4>1. k + 1 \in 1..Len(responses) /\ Tail(responses)[k] = responses[k + 1]
        BY <1>0, <2>2, LenProperties
      <4> QED
        BY <3>3, <4>1 DEF AnswersAreDue
    <3>5. ASSUME NEW rest \in Seq(FrameIds), pending = Ids(responses) \o rest
          PROVE  pending' = Ids(responses') \o rest
      BY <1>0, <2>2, <3>1, <3>5, PopConcat
    <3>6. \E rest \in Seq(FrameIds) : pending' = Ids(responses') \o rest
      BY <3>3, <3>5 DEF AnswersAreDue
    <3>7. ASSUME call = "open"
          PROVE  pending' = Ids(responses') \o (Frames(requests) \o Handed)
      <4>1. hand \in FrameIds \/ writer # "write"
        BY DEF SessionShape, ClientShape
      <4>2. Handed \in Seq(FrameIds)
        BY <1>0, <4>1 DEF Handed
      <4>3. Frames(requests) \o Handed \in Seq(FrameIds)
        <5>1. Frames(requests) \in Seq(FrameIds)
          BY <1>0 DEF Shaped
        <5> QED
          BY <4>2, <5>1, ConcatProperties
      <4> QED
        BY <3>3, <3>5, <3>7, <4>3 DEF AnswersAreDue
    <3>8. ASSUME call = "ok"
          PROVE  writer = "done" /\ pending' = Ids(responses')
      BY <2>2, <3>1, <3>3, <3>8 DEF AnswersAreDue
    <3> QED
      BY <3>1, <3>4, <3>6, <3>7, <3>8 DEF AnswersAreDue, Handed
  <2> QED
    BY <2>4, <2>5, <2>6
<1>3. CASE EndRead
  <2>1. reader = "reading" /\ call = "ok" /\ responses = << >>
    BY <1>3 DEF EndRead
  <2>2. ASSUME honest PROVE exhausted /\ pending = << >> /\ AnswersAreDue
    BY <1>0, <2>1, <2>2 DEF HonestInv, AnswersAreDue
  <2>3. CASE Finishes("protocol") \/ Finishes("completed")
    <3>1. CASE honest
      <4>1. Finishes("completed")
        BY <1>3, <2>2, <2>3, <3>1 DEF EndRead, Finishes
      <4> QED
        BY <1>0, <4>1, OverHonest
    <3>2. CASE ~honest
      BY <1>0, <2>3, <3>2, OverHonest
    <3> QED
      BY <3>1, <3>2
  <2>4. CASE /\ reader' = "ending"
             /\ UNCHANGED <<source, writing, observed, call, requests, responses, result, outcome>>
    BY <1>0, <2>1, <2>4 DEF HonestInv, AnswersAreDue, Handed, writing
  <2> QED
    BY <1>3, <2>3, <2>4 DEF EndRead
<1>4. CASE WriterAwaited
  <2>1. honest => pending = << >>
    BY <1>0, <1>4 DEF WriterAwaited, HonestInv, AnswersAreDue
  <2> QED
    BY <1>0, <1>4, <2>1, OverHonest DEF WriterAwaited
<1>5. CASE ReadFails
  BY <1>0, <1>5, OverHonest DEF ReadFails
<1>6. CASE ClientCloses
  <2>1. /\ call = "open" /\ call' = "cancelled" /\ responses' = << >>
        /\ UNCHANGED <<writer, pending, reader, outcome>>
    BY <1>6 DEF ClientCloses, writing
  <2>2. reader # "ending" /\ Len(<< >>) = 0
    BY <1>0, <2>1, EmptySeq DEF HonestInv
  <2>3. << >> \o pending = pending
    BY <1>0, ConcatEmptySeq
  <2>4. \E rest \in Seq(FrameIds) : pending' = Ids(responses') \o rest
    BY <1>0, <2>1, <2>3
  <2> QED
    <3>1. AnswersAreDue'
      BY <2>1, <2>2, <2>4 DEF AnswersAreDue
    <3> QED
      BY <1>0, <2>1, <2>2, <3>1 DEF HonestInv
<1> QED
  BY <1>1, <1>2, <1>3, <1>4, <1>5, <1>6 DEF ReaderSteps

LEMMA WorkerKeepsHonest ==
  ASSUME SessionShape, HonestInv, WorkerSteps
  PROVE  HonestInv'
<1>0. /\ UNCHANGED <<writer, hand, pending, reader, outcome>> /\ call = "open"
      /\ pending \in Seq(FrameIds) /\ responses \in Seq(Results)
      /\ Shaped(requests) /\ Frames(requests) \in Seq(FrameIds)
      /\ requests \in Seq(FrameIds) \/ writer = "done"
      /\ Ids(responses) \in Seq(FrameIds) /\ Ids(<< >>) = << >>
      /\ << >> \in Seq(FrameIds) /\ << >> \in Seq(Results) /\ Len(<< >>) = 0
      /\ reader # "ending"
  BY IdsOfAnswers, EmptySeq
     DEF SessionShape, ClientShape, ClientTypeOK, Shaped, WorkerSteps, Replies, WorkerAnswers,
         WorkerEnds, WorkerBreaks, WorkerErrs, callVars, writing, HonestInv
<1>1. CASE WorkerErrs
  BY <1>0, <1>1 DEF WorkerErrs, HonestInv
<1>2. ASSUME ~WorkerErrs
      PROVE  UNCHANGED honest /\ (honest /\ reader # "over" => AnswersAreDue)
  BY <1>2 DEF WorkerSteps, Replies, WorkerAnswers, WorkerEnds, WorkerBreaks, sessionOnly, HonestInv
<1>3. ASSUME ~WorkerErrs, honest /\ reader # "over" => AnswersAreDue' PROVE HonestInv'
  BY <1>0, <1>2, <1>3 DEF HonestInv
<1>4. ASSUME ~WorkerErrs, honest, reader # "over" PROVE AnswersAreDue'
  <2>1. AnswersAreDue
    BY <1>2, <1>4
  <2>2. ASSUME NEW kind \in {"success", "recoverable", "fatal"}, WorkerAnswers(kind)
        PROVE  AnswersAreDue'
    <3> DEFINE f == Frames(requests)
               q == f \o Handed
               m == [id |-> Head(requests), kind |-> kind]
    <3>1. /\ requests # << >> /\ Head(requests) # End /\ requests' = Tail(requests)
          /\ responses' = Append(responses, m) /\ call' = call
      BY <2>2 DEF WorkerAnswers
    <3>2. /\ f # << >> /\ Head(requests) = Head(f) /\ Head(f) \in FrameIds
          /\ Frames(requests') = Tail(f)
      BY <1>0, <3>1, FramesOfTail
    <3>3. m \in Results /\ m.kind # "malformed" /\ m.id = Head(f)
      BY <3>2 DEF Results, Kinds
    <3>4. Handed \in Seq(FrameIds)
      <4>1. hand \in FrameIds \/ writer # "write"
        BY DEF SessionShape, ClientShape
      <4> QED
        BY <1>0, <4>1 DEF Handed
    <3>5. q \in Seq(FrameIds) /\ q # << >> /\ Head(q) = Head(f) /\ Tail(q) = Tail(f) \o Handed
      BY <1>0, <3>2, <3>4, PopConcat, ConcatProperties
    <3>6. pending = Ids(responses) \o q
      BY <1>0, <2>1 DEF AnswersAreDue
    <3> HIDE DEF m, q
    <3>7. Ids(responses') = Append(Ids(responses), Head(f))
      BY <1>0, <3>1, <3>3, IdsOfAnswers
    <3>8. pending' = Ids(responses') \o (Tail(f) \o Handed)
      <4>1. Append(Ids(responses), Head(q)) \o Tail(q) = Ids(responses) \o q
        <5>1. Ids(responses) \in Seq(FrameIds) /\ q \in Seq(FrameIds) /\ q # << >>
          BY <1>0, <3>5
        <5> QED
          BY <5>1, MoveOne
      <4> QED
        BY <1>0, <3>5, <3>6, <3>7, <4>1
    <3>9. Tail(f) \o Handed \in Seq(FrameIds)
      <4>1. Tail(q) \in Seq(FrameIds)
        BY <3>5, HeadTailProperties
      <4> QED
        BY <3>5, <4>1
    <3>10. \A k \in 1..Len(responses') : responses'[k].kind # "malformed"
      <4>1. /\ Len(responses') = Len(responses) + 1 /\ responses'[Len(responses) + 1] = m
            /\ \A k \in 1..Len(responses) : responses'[k] = responses[k]
            /\ Len(responses) \in Nat
        BY <1>0, <3>1, <3>3, AppendProperties, LenProperties
      <4> QED
        BY <2>1, <3>3, <4>1 DEF AnswersAreDue
    <3>11. Handed' = Handed
      BY <1>0 DEF Handed
    <3> QED
      BY <1>0, <3>1, <3>2, <3>8, <3>9, <3>10, <3>11 DEF AnswersAreDue
  <2>3. CASE WorkerEnds
    <3>1. requests # << >> /\ Head(requests) = End /\ call' = "ok" /\ UNCHANGED responses
      BY <2>3 DEF WorkerEnds
    <3>2. Frames(requests) = << >>
      BY <1>0, <3>1, FramesOfTail
    <3>3. writer = "done"
      BY <1>0, <3>1, HeadTailProperties, NoFrameIsTheEnd
    <3>4. Ids(responses) \o (<< >> \o << >>) = Ids(responses) /\ Ids(responses) \o << >> = Ids(responses)
      BY <1>0, ConcatEmptySeq
    <3>5. pending = Ids(responses)
      BY <1>0, <2>1, <3>2, <3>3, <3>4 DEF AnswersAreDue, Handed
    <3>6. \E rest \in Seq(FrameIds) : pending' = Ids(responses') \o rest
      BY <1>0, <3>1, <3>4, <3>5
    <3> QED
      BY <1>0, <2>1, <3>1, <3>3, <3>5, <3>6 DEF AnswersAreDue
  <2>4. CASE WorkerBreaks
    <3>1. call' = "broken" /\ responses' \in {responses, << >>}
      BY <2>4 DEF WorkerBreaks
    <3>2. << >> \o pending = pending
      BY <1>0, ConcatEmptySeq
    <3>3. CASE responses' = responses
      BY <1>0, <2>1, <3>1, <3>3 DEF AnswersAreDue
    <3>4. CASE responses' = << >>
      <4>1. \E rest \in Seq(FrameIds) : pending' = Ids(responses') \o rest
        BY <1>0, <3>2, <3>4
      <4> QED
        <5>1. \A k \in 1..Len(responses') : responses'[k].kind # "malformed"
          BY <1>0, <3>4
        <5> QED
          BY <1>0, <3>1, <4>1, <5>1 DEF AnswersAreDue
    <3> QED
      BY <3>1, <3>3, <3>4
  <2> QED
    BY <1>4, <2>2, <2>3, <2>4 DEF WorkerSteps, Replies
<1> QED
  BY <1>1, <1>3, <1>4

LEMMA HonestStep ==
  ASSUME SessionShape, HonestInv, [SessionNext]_sessionVars
  PROVE  HonestInv'
<1>1. CASE ReceiverSteps \/ BrowserLeaves \/ UNCHANGED sessionVars
  <2>1. /\ UNCHANGED <<writer, hand, pending, call, requests, responses, outcome, honest>>
        /\ reader' = reader
    BY <1>1 DEF ReceiverSteps, ReceiveFrame, ReceiveInvalid, ReceiveRefused, ReceiveUnreadable,
           ReceiveDisconnect, Replied, Refused, FrameQueued, mainVars, clientButSource, writing,
           reading, BrowserLeaves, sessionVars, sessionOnly, clientVars
  <2> QED
    BY <2>1, QuietHonest
<1>2. CASE MainSteps
  <2>1. UNCHANGED honest
    BY <1>2 DEF MainSteps, Forward, ResultRefused, AnswerSent, SendFails, GeneratorEnded, Joined, FailureSent,
                ImageAnswered
  <2>2. ConsumerCloses \/ ConsumerReturns \/ UNCHANGED clientVars
    BY <1>2 DEF MainSteps, Forward, ResultRefused, AnswerSent, SendFails, GeneratorEnded, Joined, FailureSent,
                ImageAnswered
  <2>3. CASE ConsumerCloses
    BY <2>1, <2>3, OverHonest DEF ConsumerCloses
  <2>4. CASE ConsumerReturns
    BY <2>1, <2>4, QuietHonest DEF ConsumerReturns, writing
  <2>5. CASE UNCHANGED clientVars
    BY <2>1, <2>5, QuietHonest DEF clientVars
  <2> QED
    BY <2>2, <2>3, <2>4, <2>5
<1>3. CASE ClientSteps
  <2>1. (consumer = "image") \in BOOLEAN
    OBVIOUS
  <2> QED
    BY <1>3, <2>1, WriterKeepsHonest, ReaderKeepsHonest DEF ClientSteps
<1>4. CASE WorkerSteps
  BY <1>4, WorkerKeepsHonest
<1> QED
  BY <1>1, <1>2, <1>3, <1>4 DEF SessionNext, WorkerSteps

-----------------------------------------------------------------------------
(* Streams that complete.                                                      *)

CompletedInv == outcome = "completed" =>
    /\ reader = "over" /\ writer \in WriterOver /\ exhausted
    /\ pending = << >> /\ outstanding = << >>

LEMMA CompletedStep ==
  ASSUME SessionShape, InStepInv, CompletedInv, [SessionNext]_sessionVars
  PROVE  CompletedInv'
<1>1. ASSUME UNCHANGED <<outcome, reader, writer, exhausted, pending, outstanding>>
      PROVE  CompletedInv'
  BY <1>1 DEF CompletedInv
<1>2. ASSUME outcome' # "completed" PROVE CompletedInv'
  BY <1>2 DEF CompletedInv
<1>3. ASSUME outcome = "completed" PROVE receiver \in ReceiverOver
  BY <1>3 DEF CompletedInv, SessionShape, ReceiverFeeds
<1>4. CASE ReceiverSteps
  BY <1>2, <1>3, <1>4 DEF ReceiverSteps, ReceiveFrame, ReceiveInvalid, ReceiveRefused,
     ReceiveUnreadable, ReceiveDisconnect, Replied, Refused, FrameQueued, ReceiverOver,
     mainVars, clientButSource, reading
<1>5. CASE MainSteps \/ BrowserLeaves
  <2>1. CASE UNCHANGED clientVars /\ UNCHANGED outstanding
    BY <1>1, <2>1 DEF clientVars
  <2>2. CASE ConsumerCloses
    BY <1>2, <2>2 DEF ConsumerCloses, Finishes
  <2>3. CASE reader = "yielded" /\ UNCHANGED outcome
    BY <1>2, <2>3 DEF CompletedInv
  <2> QED
    BY <1>5, <2>1, <2>2, <2>3 DEF MainSteps, Forward, ResultRefused, AnswerSent, SendFails, GeneratorEnded,
       Joined, FailureSent, ImageAnswered, BrowserLeaves, ConsumerReturns, clientVars
<1>6. CASE ClientSteps
  <2>0. UNCHANGED outstanding
    BY <1>6 DEF ClientSteps, sessionOnly
  <2>1. CASE WriterSteps
    <3>1. UNCHANGED outcome /\ writer \notin WriterOver
      BY <2>1 DEF WriterSteps, WriterAcquires, SourceEnds, FrameArrives, FrameWritten,
                  WriterCloses, reading, WriterOver
    <3> QED
      BY <1>2, <3>1 DEF CompletedInv
  <2>2. CASE ReaderSteps(consumer = "image") \/ ClientCloses
    <3>1. reader # "over"
      BY <2>2 DEF ReaderSteps, WriterSeen, AnswerRead, EndRead, WriterAwaited, ReadFails,
                  ClientCloses
    <3>2. CASE outcome' # "completed"
      BY <1>2, <3>2
    <3>3. CASE Finishes("completed") /\ reader \in {"reading", "ending"} /\ exhausted /\ pending = << >>
      <4>1. source = << >> /\ Frames(<< >>) = << >>
        BY <3>3 DEF SessionShape, ClientShape, Frames
      <4>2. Held = << >>
        BY <3>3 DEF Held
      <4>3. << >> \o (<< >> \o << >>) = << >>
        BY EmptySeq, ConcatEmptySeq
      <4>4. outstanding = << >>
        <5>1. CASE consumer = "socket"
          BY <3>3, <4>1, <4>2, <4>3, <5>1 DEF InStepInv, InLine
        <5>2. CASE consumer # "socket"
          BY <5>2 DEF InStepInv, PhasesMeet, SessionShape, SessionTypeOK
        <5> QED
          BY <5>1, <5>2
      <4>5. writer' \in WriterOver /\ reader' = "over" /\ pending' = << >> /\ exhausted'
        BY <3>3 DEF Finishes, WriterOver
      <4> QED
        BY <2>0, <4>4, <4>5 DEF CompletedInv
    <3>4. outcome # "completed"
      BY <3>1 DEF CompletedInv
    <3>5. CASE outcome' = "completed" /\ ~Finishes("completed")
      <4>1. \A how : Finishes(how) => outcome' = how
        BY DEF Finishes
      <4>2. writer \in WriterErrors => writer # "completed"
        BY DEF WriterErrors, WriterOver
      <4> QED
        BY <2>2, <3>4, <3>5, <4>1, <4>2 DEF ReaderSteps, WriterSeen, AnswerRead, EndRead,
           WriterAwaited, ReadFails, ClientCloses
    <3>6. CASE outcome' = "completed" /\ Finishes("completed")
      <4>1. \A how : Finishes(how) => outcome' = how
        BY DEF Finishes
      <4>2. writer \in WriterErrors => writer # "completed"
        BY DEF WriterErrors, WriterOver
      <4>3. reader \in {"reading", "ending"} /\ exhausted /\ pending = << >>
        <5>1. writer = "done" => exhausted
          BY DEF SessionShape, ClientShape
        <5> QED
          BY <2>2, <3>4, <3>6, <4>1, <4>2, <5>1 DEF ReaderSteps, WriterSeen, AnswerRead, EndRead,
             WriterAwaited, ReadFails, ClientCloses
      <4> QED
        BY <3>3, <3>6, <4>3
    <3> QED
      BY <3>2, <3>5, <3>6
  <2> QED
    BY <1>6, <2>1, <2>2 DEF ClientSteps
<1>7. CASE WorkerSteps \/ UNCHANGED sessionVars
  BY <1>1, <1>7 DEF WorkerSteps, Replies, WorkerAnswers, WorkerEnds, WorkerBreaks, WorkerErrs,
     sessionVars, clientVars, sessionOnly, callVars, writing
<1> QED
  BY <1>4, <1>5, <1>6, <1>7 DEF SessionNext, WorkerSteps

-----------------------------------------------------------------------------
(* The theorems of the session.                                                *)

SessionInv == SessionShape /\ FramesAreOrdered /\ InStepInv /\ HonestInv /\ CompletedInv

LEMMA SessionInvariant == SessionSpec => []SessionInv
<1>1. SessionInit => SessionInv
  <2>1. SessionInit => CompletedInv
    BY DEF SessionInit, SocketInit, ImageInit, ClientInit, CompletedInv
  <2> QED
    BY <2>1, SessionInitially, OrderInitially, InStepInitially, HonestInitially DEF SessionInv
<1>2. ASSUME SessionInv, [SessionNext]_sessionVars
      PROVE  SessionInv'
  BY <1>2, SessionStepKeepsShape, OrderStep, InStepStep, HonestStep, CompletedStep DEF SessionInv
<1> QED
  BY <1>1, <1>2, PTL DEF SessionSpec

\* Every state of a session is of its types: no window is ever exceeded, which
\* would leave a negative count of slots (asyncio.Semaphore and state.slots).
THEOREM SessionTypeOKHolds == SessionSpec => []SessionTypeOK
<1>1. SessionInv => SessionTypeOK
  BY DEF SessionInv, SessionShape
<1> QED
  BY <1>1, SessionInvariant, PTL

\* For every window and every numbering of the frames, the frames that the
\* session takes for outstanding are those in the hands of the client and of the
\* queue, in their order, and no slot is lost or doubled (_forward_result,
\* _complete_frame, _write_frames).
THEOREM InStepHolds == SessionSpec => []InStep
<1>1. SessionInv => InStep
  BY InStepIsMeant DEF SessionInv
<1> QED
  BY <1>1, SessionInvariant, PTL

\* An honest worker is never taken for one that broke the contract, no answer
\* that the client lets through is unexpected to the session, and the client
\* refuses no frame that the session let in (_validate_response,
\* _validate_end_of_stream, _validate_frame, _forward_result).
THEOREM HonestWorkersAreNotAccusedHolds == SessionSpec => []HonestWorkersAreNotAccused
<1>1. SessionInv => HonestWorkersAreNotAccused
  BY DEF SessionInv, FramesAreOrdered, InStepInv, PhasesMeet, HonestInv,
         HonestWorkersAreNotAccused
<1> QED
  BY <1>1, SessionInvariant, PTL

\* A stream that completes has answered every frame let into it, whatever the
\* worker does (_validate_end_of_stream).
THEOREM CompletedAnswersAllHolds == SessionSpec => []CompletedAnswersAll
<1>1. SessionInv => CompletedAnswersAll
  BY DEF SessionInv, CompletedInv, CompletedAnswersAll
<1> QED
  BY <1>1, SessionInvariant, PTL
=============================================================================
