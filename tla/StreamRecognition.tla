-------------------------- MODULE StreamRecognition --------------------------
(***************************************************************************)
(* class StreamRecognition of service/recognition.py: which tracked faces   *)
(* of one video stream are approved, that is, answered without protection.  *)
(*                                                                          *)
(* process() runs once per frame, on the event loop, on a snapshot of the   *)
(* session's whitelist.  Face embeddings are computed meanwhile by the      *)
(* AdaFace worker, and clients change the whitelist between two frames.     *)
(*                                                                          *)
(* Abstractions.  The recognizer is perfect: two embeddings match when they *)
(* are of one person; the tracker never confuses two persons, and gives no  *)
(* number twice (tracking.py resets it only at the end of the stream).      *)
(* Frame numbers are kept as ages, which stop at AgeCap: the code only asks *)
(* whether a difference reaches an interval of its configuration.           *)
(***************************************************************************)
EXTENDS Naturals, FiniteSets

CONSTANTS
    Tracks,              \* track ids
    Persons,
    PersonOf,            \* PersonOf[t]: whose face track t follows
    EntryIds,            \* whitelist entry ids
    Enrollable,          \* pairs <<entry id, person>> that clients may enroll
    NoEntry,             \* no matched entry
    QuickRetryFrames,    \* quick_retry_frames
    QuickRetryLimit,     \* quick_retry_limit
    RevalidateFrames,    \* revalidate_frames
    MissingFrames,       \* missing_track_frames
    MaxPending,          \* max_pending_per_stream
    MaxVersion,          \* bound: whitelist changes
    MaxGeneration        \* bound: frames that bring a new track

ASSUME RecognitionAssumption ==
    /\ IsFiniteSet(Tracks)
    /\ PersonOf \in [Tracks -> Persons]
    /\ Enrollable \subseteq EntryIds \X Persons
    /\ NoEntry \notin EntryIds
    /\ {QuickRetryFrames, RevalidateFrames, MissingFrames, MaxPending} \subseteq Nat \ {0}
    /\ {QuickRetryLimit, MaxVersion, MaxGeneration} \subseteq Nat

VARIABLES
    enrolled,     \* the whitelist's entries
    version,      \* and its version
    generation,   \* _next_generation
    tracks,       \* _states: the TrackDecision of every track
    pending,      \* _pending: token and PendingRecognition in one record
    gone,         \* tracks the tracker has given up (not in live_track_ids)
    closed        \* close() was called

recognitionVars == <<enrolled, version, generation, tracks, pending, gone, closed>>

AgeCap == IF QuickRetryFrames > RevalidateFrames THEN QuickRetryFrames ELSE RevalidateFrames
Never == AgeCap + 1                  \* last_checked_frame = -1
Older(age, cap) == IF age < cap THEN age + 1 ELSE age

IdsIn(whitelist) == {entry[1] : entry \in whitelist}

\* A track without a state, and a new TrackDecision.
NoState == [gen |-> 0, status |-> "unknown", checked |-> Never, unseen |-> 0,
            version |-> 0, asked |-> FALSE, retries |-> 0, matched |-> NoEntry]
Known(s, t) == s[t].gen > 0

RecognitionInit ==
    /\ enrolled = {}
    /\ version = 0
    /\ generation = 0
    /\ tracks = [t \in Tracks |-> NoState]
    /\ pending = {}
    /\ gone = {}
    /\ closed = FALSE

\* AddWhitelist, ImportWhitelist; DeleteWhitelist.
Enroll(entry) ==
    /\ ~closed
    /\ entry[1] \notin IdsIn(enrolled)
    /\ version < MaxVersion
    /\ enrolled' = enrolled \cup {entry}
    /\ version' = version + 1
    /\ UNCHANGED <<generation, tracks, pending, gone, closed>>

DeleteEntry(entry) ==
    /\ ~closed
    /\ entry \in enrolled
    /\ version < MaxVersion
    /\ enrolled' = enrolled \ {entry}
    /\ version' = version + 1
    /\ UNCHANGED <<generation, tracks, pending, gone, closed>>

\* The AdaFace worker is done with p: with an error, or with an embedding,
\* which is nearest to the entry "result" of those of the same person.
ResultArrives(p, result) ==
    /\ ~closed
    /\ p \in pending
    /\ p.result = "none"
    /\ pending' = (pending \ {p}) \cup {[p EXCEPT !.result = result]}
    /\ UNCHANGED <<enrolled, version, generation, tracks, gone, closed>>

-----------------------------------------------------------------------------
(* The stages of process(), on the states s of the tracks. *)

\* state.generation == token.generation and state.pending_token == token:
\* a state has one pending token at a time.
Awaits(s, t, p) == p.track = t /\ s[t].gen = p.gen /\ s[t].asked

\* _require_fresh_match
FreshMatch(state) == [state EXCEPT !.status = "unknown", !.matched = NoEntry, !.checked = Never]

\* Mutant of Expired: the states do not learn that their token is gone.
ExpiredSilently(s, late) == [t \in Tracks |-> s[t]]

\* _expire_pending, for the tokens "late".
Expired(s, late) ==
    [t \in Tracks |-> IF \E p \in late : Awaits(s, t, p)
                        THEN FreshMatch([s[t] EXCEPT !.asked = FALSE])
                        ELSE s[t]]

\* Mutant of Decided: neither an error nor the threshold is looked at.
DecidedBlindly(state, p, ids) ==
    [state EXCEPT !.status = "whitelisted", !.matched = p.result, !.retries = 0]

\* _apply_result: the best of the entries the token was submitted with that
\* are still enrolled, if it is of the same person.
Decided(state, p, ids) ==
    LET same == {e \in ids : <<e, PersonOf[p.track]>> \in p.entries}
        best == IF p.result \in same THEN p.result ELSE CHOOSE e \in same : TRUE
    IN  IF p.result = "error"
          THEN [state EXCEPT !.status = "unknown", !.matched = NoEntry]
        ELSE IF same = {}
          THEN [state EXCEPT !.status = "non_whitelisted", !.matched = NoEntry]
        ELSE [state EXCEPT !.status = "whitelisted", !.matched = best, !.retries = 0]

\* _apply_completed: a result counts for the state that awaits it, whether
\* or not the whitelist has changed since; any other is dropped.
Applied(s, done, ids) ==
    [t \in Tracks |->
        LET mine == {p \in done : Awaits(s, t, p)}
            p == CHOOSE q \in mine : TRUE
        IN  IF mine = {} THEN s[t]
            ELSE Decided([s[t] EXCEPT !.asked = FALSE, !.checked = p.age,
                                      !.version = p.version], p, ids)]

\* _invalidate_removed_matches
Invalidated(s, ids) ==
    [t \in Tracks |->
        IF s[t].matched \in ids \cup {NoEntry} THEN s[t]
        ELSE [s[t] EXCEPT !.matched = NoEntry,
                          !.status = IF @ = "whitelisted" THEN "unknown" ELSE @]]

\* Mutant of Retired: the tracker is not asked about approved tracks.
RetiredByAge(s, visible, dropped) ==
    [t \in Tracks |-> IF t \notin visible /\ s[t].unseen > MissingFrames
                        THEN NoState ELSE s[t]]

\* _retire_missing: an approved track stays as long as the tracker has it,
\* any other until it has been missing for too long.
Retired(s, visible, dropped) ==
    [t \in Tracks |->
        IF /\ t \notin visible
           /\ \/ s[t].status = "whitelisted" /\ t \in dropped
              \/ s[t].status # "whitelisted" /\ s[t].unseen > MissingFrames
          THEN NoState ELSE s[t]]

\* Visible tracks are seen; new ones get a state.  Tracks new in one frame
\* share a generation number here: a token also names its track.
Seen(s, visible) ==
    [t \in Tracks |->
        IF t \notin visible THEN s[t]
        ELSE [s[t] EXCEPT !.unseen = 0,
                          !.gen = IF @ = 0 THEN generation + 1 ELSE @]]

\* _eligible
RetriesLeft(state) == state.status \in {"unknown", "non_whitelisted"} /\ state.retries < QuickRetryLimit
Eligible(state) ==
    /\ state.status # "whitelisted"
    /\ ~state.asked
    /\ \/ state.checked = Never
       \/ state.version # version
       \/ state.checked >= IF RetriesLeft(state) THEN QuickRetryFrames ELSE RevalidateFrames

\* max_pending_per_stream, looked at before every token of a frame.
HasRoom(rest, sent) == Cardinality(rest) + Cardinality(sent) <= MaxPending \/ sent = {}

\* _schedule of the eligible faces: some are submitted; the others (held,
\* no room in _pending, no usable crop, refused by AdaFace) need a fresh match.
Asked(state) ==
    [state EXCEPT !.status = "pending",
                  !.asked = TRUE,
                  !.retries = IF state.version # version THEN 0
                              ELSE IF state.checked # Never /\ RetriesLeft(state) THEN @ + 1
                              ELSE @]
Scheduled(s, eligible, sent) ==
    [t \in Tracks |-> IF t \in sent THEN Asked(s[t])
                      ELSE IF t \in eligible THEN FreshMatch(s[t])
                      ELSE s[t]]
Tokens(s, sent) ==
    {[track |-> t, gen |-> s[t].gen, age |-> 0, version |-> version,
      entries |-> enrolled, result |-> "none"] : t \in sent}

-----------------------------------------------------------------------------

\* Ages at the next frame.
OlderTracks ==
    [t \in Tracks |->
        IF Known(tracks, t)
          THEN [tracks[t] EXCEPT !.checked = Older(@, AgeCap),
                                 !.unseen = Older(@, MissingFrames + 1)]
          ELSE tracks[t]]
OlderPending == {[p EXCEPT !.age = Older(@, AgeCap)] : p \in pending}

\* process() on a frame that shows the tracks "visible" and offers AdaFace
\* those of "offered" (faces, when AdaFace is ready), after which the tracker
\* has given up "dropped".  Tokens that have reached the age "timeout" expire:
\* seconds do not follow frames, but an older token never outlives a younger.
Process(visible, offered, dropped, timeout) ==
    LET late == {p \in OlderPending : p.age >= timeout}
        done == {p \in OlderPending \ late : p.result # "none"}
        rest == (OlderPending \ late) \ done
        ids == IdsIn(enrolled)
        judged == Invalidated(Applied(Expired(OlderTracks, late), done, ids), ids)
        seen == Seen(Retired(judged, visible, dropped), visible)
        eligible == {t \in offered : enrolled # {} /\ Eligible(seen[t])}
    IN  /\ generation' = IF \E t \in visible : seen[t].gen > generation
                           THEN generation + 1 ELSE generation
        /\ generation' <= MaxGeneration
        /\ gone' = dropped
        /\ \E sent \in SUBSET eligible :
              /\ HasRoom(rest, sent)
              /\ tracks' = Scheduled(seen, eligible, sent)
              /\ pending' = rest \cup Tokens(seen, sent)
        /\ UNCHANGED <<enrolled, version, closed>>

Frame ==
    /\ ~closed
    /\ \E dropped \in SUBSET Tracks, timeout \in 1..(AgeCap + 1) :
          /\ gone \subseteq dropped
          /\ \E visible \in SUBSET (Tracks \ dropped) :
             \E offered \in SUBSET visible :
                Process(visible, offered, dropped, timeout)

\* A frame that is answered with an error counts, and is not processed.
RejectedFrame ==
    /\ ~closed
    /\ tracks' = OlderTracks
    /\ pending' = OlderPending
    /\ UNCHANGED <<enrolled, version, generation, gone, closed>>

\* close(), in the finally block of ProcessVideo.
Close ==
    /\ ~closed
    /\ closed' = TRUE
    /\ pending' = {}
    /\ tracks' = [t \in Tracks |-> NoState]
    /\ UNCHANGED <<enrolled, version, generation, gone>>

RecognitionNext ==
    \/ \E entry \in Enrollable : Enroll(entry) \/ DeleteEntry(entry)
    \/ \E p \in pending : \E result \in IdsIn(p.entries) \cup {"error"} :
          ResultArrives(p, result)
    \/ Frame
    \/ RejectedFrame
    \/ Close

RecognitionSpec == RecognitionInit /\ [][RecognitionNext]_recognitionVars

-----------------------------------------------------------------------------
(* Properties *)

Decision ==
    [gen : 0..MaxGeneration, status : {"unknown", "pending", "whitelisted", "non_whitelisted"},
     checked : 0..Never, unseen : 0..(MissingFrames + 1), version : 0..MaxVersion,
     asked : BOOLEAN, retries : 0..QuickRetryLimit, matched : EntryIds \cup {NoEntry}]
Token ==
    [track : Tracks, gen : 1..MaxGeneration, age : 0..AgeCap, version : 0..MaxVersion,
     entries : SUBSET Enrollable, result : EntryIds \cup {"none", "error"}]

RecognitionTypeOK ==
    /\ enrolled \subseteq Enrollable
    /\ version \in 0..MaxVersion
    /\ generation \in 0..MaxGeneration
    /\ tracks \in [Tracks -> Decision]
    /\ pending \subseteq Token
    /\ gone \subseteq Tracks
    /\ closed \in BOOLEAN

\* _is_whitelisted_for_entries, on the whitelist as it is now: what the next
\* frame answers when nothing else happens.
Approved(t) == tracks[t].status = "whitelisted" /\ tracks[t].matched \in IdsIn(enrolled)

\* An approved face is the face of the enrolled entry it was matched with,
\* whatever was enrolled and removed while its embedding was computed.
ApprovedAreEnrolled ==
    \A t \in Tracks : Approved(t) => <<tracks[t].matched, PersonOf[t]>> \in enrolled

\* A track waits for a result exactly while _pending holds its token.  A
\* track that waited for a token that is gone would never be asked again
\* (_eligible): its face would stay protected for good.
WaitingForAToken ==
    \A t \in Tracks :
        /\ tracks[t].status = "pending" <=> tracks[t].asked
        /\ tracks[t].asked <=> \E p \in pending : p.track = t /\ p.gen = tracks[t].gen

\* max_pending_per_stream bounds the tokens, counting those of tracks that are
\* gone and of earlier incarnations, which nobody waits for any more.
PendingIsBounded == Cardinality(pending) <= MaxPending

\* A track that is down as no match for the present version of the whitelist
\* has no entry in it.  When a result comes late the whitelist has moved on,
\* and the track must not be taken for checked against the new entries.
RejectedAreNotEnrolled ==
    \A t \in Tracks :
        tracks[t].status = "non_whitelisted" /\ tracks[t].version = version
            => \A e \in EntryIds : <<e, PersonOf[t]>> \notin enrolled

\* README.md, "Track": an approval is kept until its entry is deleted, the
\* tracker gives up the track, or the stream ends; no timeout, lack of room,
\* bad crop or change of other entries takes it away.
ApprovalIsKept ==
    [][\A t \in Tracks :
          /\ Approved(t)
          /\ tracks[t].matched \in IdsIn(enrolled')
          /\ t \notin gone'
          /\ ~closed'
          => tracks'[t].status = "whitelisted" /\ tracks'[t].matched = tracks[t].matched
      ]_recognitionVars
=============================================================================
