----------------------------- MODULE WebRtcGateway -----------------------------
(***************************************************************************)
(* service/webrtc.py: the peers of the WebRTC gateway, the track that each   *)
(* peer's incoming video becomes (LatestFrameSlot, the drain task, the        *)
(* frames fed to process_video, recv called by the RTP sender), and all that  *)
(* closes a peer: a failed track, a DELETE, the connection's state, the       *)
(* sweeper, a failed negotiation and the gateway's own close.  aiortc and     *)
(* the stream of results are external.  A peer is named by its offer.         *)
(***************************************************************************)
EXTENDS Naturals, FiniteSets

CONSTANTS
    Offers,      \* POST /api/webrtc/offer requests, and the peers they make
    MaxPeers     \* settings.webrtc_max_peers

ASSUME MaxPeersAssumption == MaxPeers \in Nat

VARIABLES
    offer,       \* how far the handler of each offer is
    peers,       \* self.peers
    closing,     \* close_peer's run over each peer: at most one, it pops the peer
    failing,     \* peers with a close task of fail() that has not run yet
    pc,          \* each peer's RTCPeerConnection
    track,       \* each peer's ProcessedVideoTrack
    sweeping,    \* peers the sweeper's gather is closing
    shutdown     \* WebRtcGateway.close

gatewayVars == <<offer, peers, closing, failing, pc, track, sweeping, shutdown>>
requestVars == <<offer, peers, closing, failing, pc, sweeping, shutdown>>

Stopping == shutdown # "no"

\* No track, or one that is closed and let go of.
Absent == [slot |-> "empty", slotClosed |-> FALSE, drain |-> FALSE, feed |-> "none"]

Exists(p) == track[p].feed # "none"

\* Work of the track goes on: its drain task, or its stream of results.
Running(p) == Exists(p) /\ (track[p].drain \/ track[p].feed \in {"getting", "sent"})

GatewayTypeOK ==
    /\ offer \in [Offers -> {"idle", "checking", "negotiating", "answered", "refused"}]
    /\ peers \subseteq Offers /\ failing \subseteq Offers /\ sweeping \subseteq Offers
    /\ closing \in [Offers -> {"no", "pc", "track", "done", "cancelled"}]
    /\ pc \in [Offers -> {"none", "open", "closed"}]
    /\ track \in [Offers -> [slot: {"empty", "frame", "end"}, slotClosed: BOOLEAN, drain: BOOLEAN,
                             feed: {"none", "unstarted", "getting", "sent", "over"}]]
    /\ shutdown \in {"no", "sweeper", "peers"}

GatewayInit ==
    /\ offer = [p \in Offers |-> "idle"]
    /\ peers = {} /\ failing = {} /\ sweeping = {}
    /\ closing = [p \in Offers |-> "no"]
    /\ pc = [p \in Offers |-> "none"]
    /\ track = [p \in Offers |-> Absent]
    /\ shutdown = "no"

-----------------------------------------------------------------------------
(* LatestFrameSlot: puts after the close are ignored, and the end marker       *)
(* takes the place of a pending frame.                                         *)

Put(t) == IF t.slotClosed THEN t ELSE [t EXCEPT !.slot = "frame"]

SlotClosed(t) == [t EXCEPT !.slotClosed = TRUE, !.slot = "end"]

-----------------------------------------------------------------------------
(* ProcessedVideoTrack.                                                        *)

Change(p, t) == track' = [track EXCEPT ![p] = t]

FrameReceived(p) ==
    /\ track[p].drain /\ pc[p] = "open"
    /\ Change(p, Put(track[p]))
    /\ UNCHANGED requestVars

\* source.recv raises: the sender stopped, or the connection closed.
SourceFails(p) ==
    /\ track[p].drain
    /\ Change(p, [SlotClosed(track[p]) EXCEPT !.drain = FALSE])
    /\ UNCHANGED requestVars

\* The RTP sender's first recv starts the stream of results.
RecvStarts(p) ==
    /\ offer[p] = "answered" /\ pc[p] = "open" /\ track[p].feed = "unstarted"
    /\ Change(p, [track[p] EXCEPT !.feed = "getting"])
    /\ UNCHANGED requestVars

\* The frame is packed in a thread and is sent: the window is taken.
FrameTaken(p) ==
    /\ track[p].feed = "getting" /\ track[p].slot = "frame"
    /\ Change(p, [track[p] EXCEPT !.feed = "sent", !.slot = "empty"])
    /\ UNCHANGED requestVars

\* recv returns the processed frame, and the window of one is free again.
FrameAnswered(p) ==
    /\ track[p].feed = "sent"
    /\ Change(p, [track[p] EXCEPT !.feed = "getting"])
    /\ UNCHANGED requestVars

\* recv reports an error, fail() schedules close_peer, and the sender stops.
RecvFails(p, slot) ==
    /\ Change(p, [track[p] EXCEPT !.feed = "over", !.slot = slot])
    /\ failing' = failing \cup {p}
    /\ UNCHANGED <<offer, peers, closing, pc, sweeping, shutdown>>

\* _frames takes the marker: its error ends the stream of results.
EndTaken(p) ==
    /\ track[p].feed = "getting" /\ track[p].slot = "end"
    /\ RecvFails(p, "empty")

\* Fifteen seconds without a frame, a frame that cannot be packed, an error
\* of the stream, or sixty seconds without an answer.
StreamFails(p) ==
    /\ track[p].feed \in {"getting", "sent"}
    /\ RecvFails(p, track[p].slot)

TrackSteps(p) ==
    \/ FrameReceived(p) \/ SourceFails(p) \/ RecvStarts(p) \/ FrameTaken(p)
    \/ FrameAnswered(p) \/ EndTaken(p) \/ StreamFails(p)

-----------------------------------------------------------------------------
(* close_peer: whoever pops the peer closes it, once.                          *)

Popped(ps) ==
    /\ peers' = peers \ ps
    /\ closing' = [p \in Offers |-> IF p \in ps \cap peers THEN "pc" ELSE closing[p]]

\* pc.close stops the sender, which cancels recv, and the receiver.
PcCloses(p) ==
    /\ closing[p] = "pc"
    /\ closing' = [closing EXCEPT ![p] = "track"]
    /\ pc' = [pc EXCEPT ![p] = "closed"]
    /\ Change(p, [track[p] EXCEPT !.feed = IF @ = "none" THEN @ ELSE "over"])
    /\ UNCHANGED <<offer, peers, failing, sweeping, shutdown>>

\* Mutant: the drain task is left to end by itself.
TrackClosesUndrained(p) ==
    /\ closing[p] = "track"
    /\ closing' = [closing EXCEPT ![p] = "done"]
    /\ Change(p, [Absent EXCEPT !.drain = track[p].drain, !.feed = track[p].feed])
    /\ sweeping' = sweeping \ {p}
    /\ UNCHANGED <<offer, peers, failing, pc, shutdown>>

\* close() of the track: the slot is closed, the drain task cancelled and
\* awaited, the stream of results closed.
TrackCloses(p) ==
    /\ closing[p] = "track"
    /\ closing' = [closing EXCEPT ![p] = "done"]
    /\ Change(p, Absent)
    /\ sweeping' = sweeping \ {p}
    /\ UNCHANGED <<offer, peers, failing, pc, shutdown>>

FailTaskRuns(p) ==
    /\ p \in failing
    /\ failing' = failing \ {p}
    /\ Popped({p})
    /\ UNCHANGED <<offer, pc, track, sweeping, shutdown>>

\* connectionstatechange: ICE or DTLS failed.
ConnectionFails(p) ==
    /\ p \in peers /\ offer[p] = "answered"
    /\ Popped({p})
    /\ UNCHANGED <<offer, failing, pc, track, sweeping, shutdown>>

Delete(p) ==
    /\ Popped({p})
    /\ UNCHANGED <<offer, failing, pc, track, sweeping, shutdown>>

\* Mutant: a peer that has a track is left to its track.
SweepTrackless(receiving) ==
    /\ ~Stopping /\ sweeping = {}
    /\ LET stale == {p \in peers : offer[p] # "negotiating" /\ p \notin receiving /\ ~Exists(p)}
       IN /\ stale # {}
          /\ Popped(stale)
          /\ sweeping' = stale
    /\ UNCHANGED <<offer, failing, pc, track, shutdown>>

\* One round of _sweep: whatever received nothing for twenty seconds, which is
\* longer than a negotiation lasts; "receiving" are the peers that get media.
Sweep(receiving) ==
    /\ ~Stopping /\ sweeping = {}
    /\ LET stale == {p \in peers : offer[p] # "negotiating" /\ p \notin receiving}
       IN /\ stale # {}
          /\ Popped(stale)
          /\ sweeping' = stale
    /\ UNCHANGED <<offer, failing, pc, track, shutdown>>

-----------------------------------------------------------------------------
(* offer                                                                       *)

\* The first checks; the body and the session's whitelist are awaited next.
OfferArrives(p, ready) ==
    /\ offer[p] = "idle"
    /\ offer' = [offer EXCEPT ![p] =
           IF Stopping \/ ~ready \/ Cardinality(peers) >= MaxPeers
           THEN "refused" ELSE "checking"]
    /\ UNCHANGED <<peers, closing, failing, pc, track, sweeping, shutdown>>

\* An unreadable body, an unknown session, a worker that cannot be asked.
OfferInvalid(p) ==
    /\ offer[p] = "checking"
    /\ offer' = [offer EXCEPT ![p] = "refused"]
    /\ UNCHANGED <<peers, closing, failing, pc, track, sweeping, shutdown>>

\* The second check and the reservation, in one step; stopping is not read again.
Reserves(p) ==
    /\ offer[p] = "checking"
    /\ IF Cardinality(peers) < MaxPeers
       THEN /\ offer' = [offer EXCEPT ![p] = "negotiating"]
            /\ peers' = peers \cup {p}
            /\ pc' = [pc EXCEPT ![p] = "open"]
       ELSE /\ offer' = [offer EXCEPT ![p] = "refused"]
            /\ UNCHANGED <<peers, pc>>
    /\ UNCHANGED <<closing, failing, track, sweeping, shutdown>>

\* setRemoteDescription announces the video: the track and its drain task.
TrackAppears(p) ==
    /\ offer[p] = "negotiating" /\ pc[p] = "open" /\ ~Exists(p)
    /\ Change(p, [Absent EXCEPT !.drain = TRUE, !.feed = "unstarted"])
    /\ UNCHANGED requestVars

OfferAnswered(p) ==
    /\ offer[p] = "negotiating" /\ Exists(p)
    /\ offer' = [offer EXCEPT ![p] = "answered"]
    /\ UNCHANGED <<peers, closing, failing, pc, track, sweeping, shutdown>>

\* An error, the timeout of twenty seconds, a connection closed meanwhile.
OfferFails(p) ==
    /\ offer[p] = "negotiating"
    /\ offer' = [offer EXCEPT ![p] = "refused"]
    /\ Popped({p})
    /\ UNCHANGED <<failing, pc, track, sweeping, shutdown>>

OfferSteps(p) ==
    \/ OfferInvalid(p) \/ Reserves(p) \/ TrackAppears(p) \/ OfferAnswered(p) \/ OfferFails(p)

-----------------------------------------------------------------------------
(* WebRtcGateway.close                                                         *)

\* stopping is set and the sweeper cancelled: the closes it gathers go with it.
ShutdownBegins ==
    /\ shutdown = "no"
    /\ shutdown' = "sweeper"
    /\ closing' = [p \in Offers |-> IF p \in sweeping THEN "cancelled" ELSE closing[p]]
    /\ sweeping' = {}
    /\ UNCHANGED <<offer, peers, failing, pc, track>>

\* What close awaits from here on, the closes and the tasks of fail(), changes
\* nothing but by their own steps.
ShutdownPeers ==
    /\ shutdown = "sweeper"
    /\ shutdown' = "peers"
    /\ Popped(peers)
    /\ UNCHANGED <<offer, failing, pc, track, sweeping>>

GatewaySteps ==
    \/ \E p \in Offers : TrackSteps(p) \/ OfferSteps(p) \/ PcCloses(p) \/ TrackCloses(p)
                         \/ FailTaskRuns(p) \/ ConnectionFails(p)
    \/ ShutdownBegins \/ ShutdownPeers

GatewayFairness ==
    /\ \A p \in Offers :
          /\ WF_gatewayVars(Reserves(p) \/ OfferInvalid(p))
          /\ WF_gatewayVars(OfferAnswered(p) \/ OfferFails(p))
          /\ WF_gatewayVars(PcCloses(p)) /\ WF_gatewayVars(TrackCloses(p))
          /\ WF_gatewayVars(FailTaskRuns(p))
          /\ WF_gatewayVars(EndTaken(p)) /\ WF_gatewayVars(RecvStarts(p))

-----------------------------------------------------------------------------
(* No work goes on for a peer that is gone: a track with a drain task or a      *)
(* stream of results belongs to a listed peer or to one being closed, unless    *)
(* the sweeper that was closing it was cancelled by the gateway's close.         *)
TracksBelongToPeers ==
    \A p \in Offers : Running(p) => p \in peers \/ closing[p] \in {"pc", "track", "cancelled"}
=============================================================================
