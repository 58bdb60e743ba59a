------------------------------ MODULE FaceTracks ------------------------------
(***************************************************************************)
(* One ProcessVideo stream with anonymization_mode face_swap or             *)
(* face_metadata: StreamTracker (service/tracking.py), which holds the mask *)
(* of a face that was missed for one frame, and FaceAnonymizationRuntime    *)
(* (service/face_anonymization.py), which replaces a face by a synthetic    *)
(* one whose identity is pinned to the track (service/face_presets.py).     *)
(*                                                                          *)
(* A frame passes _infer_sync of service/runtime.py, where the camera       *)
(* motion is estimated beside the inference, and then process().  Two       *)
(* clocks run: the tracker's frame_id counts the frames it was given, the   *)
(* stream's frame_sequence every request, those answered with an error      *)
(* before inference included.  Both are kept as ages, which stop where the  *)
(* code stops telling them apart.                                           *)
(*                                                                          *)
(* Abstractions.  BoT-SORT's association and the networks choose freely; a  *)
(* track number is never reused.  An identity key stands for gender, age    *)
(* and slot; expression and glasses are left out.  Pixels are what was done *)
(* to each face.  The stream renders its frames (render = TRUE).            *)
(***************************************************************************)
EXTENDS Naturals, FiniteSets

CONSTANTS
    Faces,           \* track ids
    Keys,            \* identity keys
    NoKey,
    TrackBuffer,     \* track_buffer of config/botsort.yaml
    HoldFrames,      \* mask_hold_frames
    MaskFrames,      \* 30 in _prune_masks
    Retention,       \* retention_frames
    Refresh          \* METADATA_REFRESH_FRAMES

ASSUME FaceTracksAssumption ==
    /\ IsFiniteSet(Faces)
    /\ NoKey \notin Keys
    /\ {TrackBuffer, MaskFrames, Retention, Refresh} \subseteq Nat \ {0}
    /\ HoldFrames \in 0..1
    /\ HoldFrames <= MaskFrames
    /\ TrackBuffer <= Retention    \* docs/face-preset-anonymization.md

VARIABLES
    phase,       \* where the stream's frame is
    motion,      \* the task of _motion_executor: "none", "running" or "done"
    life,        \* tracks: "new", "tracked", "lost" or "removed"
    gap,         \* frame_id minus the track's last matched frame
    mask,        \* frame_id minus last_detection_frame of _masks
    objects,     \* what stabilize() returned for each track
    covered,     \* lost tracks whose predicted box is outside or under a face
    identity,    \* StreamFaceIdentities.tracks: key and frames unseen
    metadata,    \* StreamFaceIdentities.metadata
    skipped,     \* history: requests rejected since the track was seen
    swapping,    \* anonymization_mode is face_swap
    extractor,   \* "unloaded", "ready" or "broken" (load_error)
    renderer,    \* "unloaded", "ready" or "broken" (renderer_error)
    approved,    \* tracks whose object is whitelisted
    shown        \* what the last answer shows of each track

trackerVars == <<motion, life, gap, mask, objects, covered>>
faceVars == <<identity, metadata, skipped>>
runtimeVars == <<extractor, renderer>>
faceTrackVars == <<phase, trackerVars, faceVars, swapping, runtimeVars, approved, shown>>

NoMask == MaskFrames + 1
NoIdentity == [key |-> NoKey, unseen |-> 0]
NoMetadata == [state |-> "none", age |-> 0, unseen |-> 0]
InTracker(t) == life[t] \in {"tracked", "lost"}
Visible == {t \in Faces : objects[t] # "absent"}
Aged(age, cap) == IF age < cap THEN age + 1 ELSE age
Slack == Retention - TrackBuffer      \* rejected requests that do no harm

Nothing == [t \in Faces |-> "absent"]

FaceTracksInit ==
    /\ phase = "idle"
    /\ motion = "none"
    /\ life = [t \in Faces |-> "new"]
    /\ gap = [t \in Faces |-> 0]
    /\ mask = [t \in Faces |-> NoMask]
    /\ objects = Nothing
    /\ covered = {}
    /\ identity = [t \in Faces |-> NoIdentity]
    /\ metadata = [t \in Faces |-> NoMetadata]
    /\ skipped = [t \in Faces |-> 0]
    /\ swapping \in BOOLEAN
    /\ extractor = "unloaded"
    /\ renderer = "unloaded"
    /\ approved = {}
    /\ shown = Nothing

-----------------------------------------------------------------------------
(* Requests and the lane *)

\* frame_sequence += 1, as seen by the ages of the identity caches.
NextRequest ==
    /\ identity' = [t \in Faces |->
          IF identity[t] = NoIdentity THEN NoIdentity
          ELSE [identity[t] EXCEPT !.unseen = Aged(@, Retention + 1)]]
    /\ metadata' = [t \in Faces |->
          IF metadata[t] = NoMetadata THEN NoMetadata
          ELSE [metadata[t] EXCEPT !.age = Aged(@, Refresh), !.unseen = Aged(@, Retention + 1)]]

\* INVALID_BATCH_SIZE, MOSAIC_CONFIG_INVALID or DECODE_FAILED: the stream goes
\* on, and its tracker does not hear of the request.
RequestRejected ==
    /\ phase = "idle"
    /\ NextRequest
    /\ skipped' = [t \in Faces |-> IF InTracker(t) THEN Aged(skipped[t], Slack + 1) ELSE 0]
    /\ UNCHANGED <<phase, trackerVars, swapping, runtimeVars, approved, shown>>

\* _infer_sync: estimate_motion starts on its own thread, then _predict.
FrameBegins ==
    /\ phase = "idle"
    /\ phase' = "predicting"
    /\ motion' = "running"
    /\ NextRequest
    /\ shown' = Nothing
    /\ approved' = {}
    /\ UNCHANGED <<life, gap, mask, objects, covered, skipped, swapping, runtimeVars>>

\* estimate_motion returns the warp, or the error it met.
MotionEnds ==
    /\ motion = "running"
    /\ motion' = "done"
    /\ UNCHANGED <<phase, life, gap, mask, objects, covered, faceVars, swapping, runtimeVars,
                   approved, shown>>

Predicted ==
    /\ phase = "predicting"
    /\ phase' \in {"tracking", "failing"}
    /\ UNCHANGED <<trackerVars, faceVars, swapping, runtimeVars, approved, shown>>

\* The stream's finally block: identities.clear() and tracker.reset().
Cleared ==
    /\ phase' = "over"
    /\ life' = [t \in Faces |-> "removed"]
    /\ gap' = [t \in Faces |-> 0]
    /\ mask' = [t \in Faces |-> NoMask]
    /\ objects' = Nothing
    /\ covered' = {}
    /\ identity' = [t \in Faces |-> NoIdentity]
    /\ metadata' = [t \in Faces |-> NoMetadata]
    /\ skipped' = [t \in Faces |-> 0]
    /\ approved' = {}
    /\ shown' = Nothing
    /\ UNCHANGED swapping

\* InferenceFailure, after wait([motion]); the request ends the stream.
PredictFailed ==
    /\ phase = "failing"
    /\ motion # "running"
    /\ motion' = "none"
    /\ Cleared
    /\ UNCHANGED runtimeVars

\* TrackingFailure, out of update() or stabilize().
TrackingFails ==
    /\ phase = "tracking"
    /\ motion # "running"
    /\ motion' = "none"
    /\ Cleared
    /\ UNCHANGED runtimeVars

StreamEnds ==
    /\ phase = "idle"
    /\ Cleared
    /\ UNCHANGED <<motion, runtimeVars>>

-----------------------------------------------------------------------------
(* StreamTracker *)

\* _record_current and _prune_masks: a detection with a polygon renews the
\* mask of its track.
MaskAfter(t, drawn) ==
    IF t \in drawn THEN 0
    ELSE IF mask[t] = NoMask THEN NoMask
    ELSE mask[t] + 1              \* NoMask once it is older than MaskFrames

\* _held_objects: lost tracks whose mask is exactly mask_hold_frames old.
Holdable(lost) ==
    IF HoldFrames = 0 THEN {} ELSE {t \in lost : mask[t] + 1 = HoldFrames}

\* The live tracks that no detection was associated with and that BoT-SORT
\* keeps for another frame.
Lost(matched) == {t \in Faces \ matched : InTracker(t) /\ gap[t] < TrackBuffer}

\* update(), then stabilize().  "matched" are the live tracks a detection was
\* associated with, "born" the activated new ones and "bare" those whose
\* detection has no polygon.
Associated(matched, born, bare) ==
    LET current == matched \cup born
        lost == Lost(matched)
    IN  /\ life' = [t \in Faces |-> IF t \in current THEN "tracked"
                                     ELSE IF t \in lost THEN "lost"
                                     ELSE IF InTracker(t) THEN "removed"
                                     ELSE life[t]]
        /\ gap' = [t \in Faces |-> IF t \in lost THEN gap[t] + 1 ELSE 0]
        /\ mask' = [t \in Faces |-> MaskAfter(t, current \ bare)]
        /\ covered' \in SUBSET Holdable(lost)
        /\ objects' = [t \in Faces |->
              IF t \in bare THEN "bare"
              ELSE IF t \in current THEN "detected"
              ELSE IF t \in Holdable(lost) \ covered' THEN "held"
              ELSE "absent"]

\* With the warp that was prepared beside the inference.
TrackerUpdates ==
    /\ phase = "tracking"
    /\ motion = "done"
    /\ phase' = "composing"
    /\ motion' = "none"
    /\ \E matched \in SUBSET {t \in Faces : InTracker(t)} :
       \E born \in SUBSET {t \in Faces : life[t] = "new"} :
       \E bare \in SUBSET (matched \cup born) : Associated(matched, born, bare)
    /\ UNCHANGED <<faceVars, swapping, runtimeVars, approved, shown>>

-----------------------------------------------------------------------------
(* FaceAnonymizationRuntime.process *)

\* Mutant of Forgotten: the limit of the masks is taken for that of the identities.
ForgottenEarly(entry, t, none) ==
    IF entry = none THEN none
    ELSE IF t \in Visible THEN [entry EXCEPT !.unseen = 0]
    ELSE IF entry.unseen > HoldFrames THEN none
    ELSE entry

\* StreamFaceIdentities.expire, for the entry of t in either cache.
Forgotten(entry, t, none) ==
    IF entry = none THEN none
    ELSE IF t \in Visible THEN [entry EXCEPT !.unseen = 0]
    ELSE IF entry.unseen > Retention THEN none
    ELSE entry

\* A face of at least 16 pixels that is neither whitelisted nor held.
Replaceable(white, small) ==
    {t \in Visible : objects[t] # "held" /\ t \notin white /\ t \notin small}

\* cached is not None and frame - cached.refreshed_at < METADATA_REFRESH_FRAMES
Fresh(t) == metadata[t] # NoMetadata /\ metadata[t].age < Refresh

\* _metadata and _renderer: what the lazily loaded model may be after a call;
\* a failed load is remembered until the server restarts.
Loaded(model, needed) ==
    IF needed /\ model = "unloaded" THEN {"ready", "broken"} ELSE {model}

\* cache_metadata: a failed refresh is cached too.
MetadataAfter(stale, answered) ==
    [t \in Faces |->
        IF t \in stale
          THEN [state |-> IF t \in answered THEN "known" ELSE "failed", age |-> 0, unseen |-> 0]
          ELSE Forgotten(metadata[t], t, NoMetadata)]

\* observe(): a track gets its key with its first attributes, once.
IdentitiesAfter(known, chosen) ==
    [t \in Faces |->
        LET entry == Forgotten(identity[t], t, NoIdentity)
        IN  IF t \notin known THEN entry
            ELSE IF entry = NoIdentity THEN [key |-> chosen[t], unseen |-> 0]
            ELSE entry]

\* Mutant of Remaining: a face is off the list when its swap is tried.
RemainingUntried(posed, swapped) == Visible \ posed

\* "remaining": what is left for the blur after the successful swaps.
Remaining(posed, swapped) == Visible \ swapped

\* The attributes of the eligible faces: cached ones while they are fresh, the
\* others as the extractor answers.
Attributes(eligible) ==
    LET stale == {t \in eligible : ~Fresh(t)}
    IN  /\ extractor' \in Loaded(extractor, stale # {})
        /\ \E answered \in {{}, IF extractor' = "ready" THEN stale ELSE {}} :
              metadata' = MetadataAfter(stale, answered)

Described(eligible) == {t \in eligible : metadata'[t].state = "known"}

Identities(known) == \E chosen \in [known -> Keys] : identity' = IdentitiesAfter(known, chosen)

\* Swaps, each of which may fail, and the blur of what remains.
Painted(white, posed) ==
    /\ renderer' \in Loaded(renderer, swapping /\ posed # {})
    /\ \E swapped \in SUBSET (IF swapping /\ renderer' = "ready" THEN posed ELSE {}) :
          LET blurred == Remaining(IF swapping THEN posed ELSE {}, swapped) \ white
          IN  /\ \A t \in blurred : objects[t] # "bare"
              /\ shown' = [t \in Faces |->
                    IF t \in swapped THEN "swapped"
                    ELSE IF t \in blurred THEN "blurred"
                    ELSE IF t \in Visible THEN "plain"
                    ELSE "absent"]

\* "posed" are the faces whose preset image exists.
Composed ==
    /\ phase = "composing"
    /\ \E white, small \in SUBSET Visible :
          LET eligible == Replaceable(white, small)
          IN  /\ Attributes(eligible)
              /\ Identities(Described(eligible))
              /\ \E posed \in SUBSET Described(eligible) : Painted(white, posed)
              /\ approved' = white
    /\ phase' = "idle"
    /\ skipped' = [t \in Faces |-> IF t \in Visible THEN 0 ELSE skipped[t]]
    /\ UNCHANGED <<trackerVars, swapping>>

\* MOSAIC_FAILED: a face that has to be blurred has no polygon, or encoding
\* fails; the models may have been loaded before.
ComposeFails ==
    /\ phase = "composing"
    /\ extractor' \in Loaded(extractor, Visible # {})
    /\ renderer' \in Loaded(renderer, swapping /\ extractor' = "ready" /\ Visible # {})
    /\ Cleared
    /\ UNCHANGED motion

FaceTracksNext ==
    \/ RequestRejected \/ FrameBegins \/ MotionEnds \/ Predicted
    \/ PredictFailed \/ TrackingFails \/ TrackerUpdates
    \/ Composed \/ ComposeFails \/ StreamEnds

FaceTracksSpec == FaceTracksInit /\ [][FaceTracksNext]_faceTrackVars

-----------------------------------------------------------------------------
(* Properties *)

FaceTracksTypeOK ==
    /\ phase \in {"idle", "predicting", "tracking", "failing", "composing", "over"}
    /\ motion \in {"none", "running", "done"}
    /\ life \in [Faces -> {"new", "tracked", "lost", "removed"}]
    /\ gap \in [Faces -> 0..TrackBuffer]
    /\ mask \in [Faces -> 0..NoMask]
    /\ objects \in [Faces -> {"absent", "detected", "bare", "held"}]
    /\ covered \subseteq Faces
    /\ identity \in [Faces -> [key : Keys \cup {NoKey}, unseen : 0..(Retention + 1)]]
    /\ metadata \in [Faces -> [state : {"none", "known", "failed"}, age : 0..Refresh,
                                unseen : 0..(Retention + 1)]]
    /\ skipped \in [Faces -> 0..(Slack + 1)]
    /\ swapping \in BOOLEAN
    /\ {extractor, renderer} \subseteq {"unloaded", "ready", "broken"}
    /\ approved \subseteq Faces
    /\ shown \in [Faces -> {"absent", "blurred", "swapped", "plain"}]

(* What makes the two properties below hold. *)

\* An entry of StreamFaceIdentities.tracks holds a key.
EntriesHaveKeys == \A t \in Faces : identity[t] # NoIdentity => identity[t].key \in Keys

\* The requests since a track was last seen that frame_sequence is ahead of
\* the tracker's frame_id and of the rejected ones: that under way.
UnderWay == IF phase \in {"predicting", "tracking", "failing"} THEN 1 ELSE 0

\* What the identity caches age by while the tracker bridges a gap.  A track
\* that was found again is seen when the frame is composed.
UnseenIsGap ==
    \A t \in Faces :
        /\ InTracker(t)
        /\ identity[t] # NoIdentity
        /\ skipped[t] <= Slack
        /\ phase = "composing" => t \notin Visible
        => identity[t].unseen <= gap[t] + skipped[t] + UnderWay

\* What stabilize() hands on of the tracks the tracker has.
TracksAreObjects ==
    phase = "composing" =>
        \A t \in Faces :
            /\ life[t] = "tracked" => t \in Visible
            /\ life[t] = "lost" /\ mask[t] = HoldFrames /\ t \notin covered => t \in Visible

FaceTracksInv == FaceTracksTypeOK /\ EntriesHaveKeys /\ UnseenIsGap /\ TracksAreObjects

\* docs/face-preset-anonymization.md: the identity of a track is chosen once.
\* Neither a gap the tracker bridges nor a failed refresh nor changed
\* attributes give a live track another face, unless more requests were
\* rejected during the gap than retention_frames exceeds track_buffer.
IdentityIsPinned ==
    [][\A t \in Faces :
          /\ identity[t] # NoIdentity
          /\ life'[t] \in {"tracked", "lost"}
          /\ skipped[t] <= Slack
          => identity'[t].key = identity[t].key
      ]_faceTrackVars

\* README.md: whoever is not whitelisted is covered, whichever of the models
\* and swaps fail, and so is a face that was missed for one frame: each track
\* that was matched in this frame, or whose mask was drawn one frame ago and
\* has not left the picture or gone under another face, is swapped or blurred
\* in the answer.
FacesStayCovered ==
    [][phase = "composing" /\ phase' = "idle" =>
          \A t \in Faces :
              /\ \/ life[t] = "tracked"
                 \/ life[t] = "lost" /\ mask[t] = HoldFrames /\ t \notin covered
              /\ t \notin approved'
              => shown'[t] \in {"swapped", "blurred"}
      ]_faceTrackVars
=============================================================================
