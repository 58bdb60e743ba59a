-------------------------- MODULE RecognitionProofs --------------------------
(***************************************************************************)
(* Proofs about who is recognized and what is shown of a face.             *)
(*                                                                          *)
(* StreamRecognition, for any tracks, entries and limits: the argument      *)
(* follows process() stage by stage; each stage keeps the states of the     *)
(* tracks sound and keeps them waiting for exactly the tokens that are left *)
(* at that stage.                                                           *)
(*                                                                          *)
(* FaceTracks, for any faces, buffers and failures: what stabilize() hands  *)
(* on of the tracks, and how far the identity caches age over a gap.        *)
(*                                                                          *)
(* Mosaic, for frames, objects and settings of any size: where the outlines *)
(* are on their way into a group and what the layers of the groups cover;   *)
(* then why what is cut out of a frame is drawn as the frame would be: the  *)
(* cells a blurred pixel reads, and the masks of crops that have room.      *)
(***************************************************************************)
EXTENDS StreamRecognition, FaceTracks, Mosaic, QueueFacts, FiniteSetTheorems

\* What holds of the state d of track t by itself.
Sound(t, d) ==
    /\ d.status = "pending" <=> d.asked
    /\ d.asked => d.gen > 0
    /\ d.status = "whitelisted" => <<d.matched, PersonOf[t]>> \in Enrollable
    /\ d.version <= version
    /\ d.status = "non_whitelisted" /\ d.version = version
          => \A e \in EntryIds : <<e, PersonOf[t]>> \notin enrolled

\* The states s wait for the tokens P, and for no others.
Waits(s, P) ==
    \A t \in Tracks : s[t].asked <=> \E p \in P : p.track = t /\ p.gen = s[t].gen

\* No two of the tokens P are of one incarnation of a track.
Distinct(P) == \A p, q \in P : p.track = q.track /\ p.gen = q.gen => p = q

\* A token that was submitted with the present version saw the present entries.
Dated(P) == \A p \in P : p.version <= version /\ (p.version = version => p.entries = enrolled)

\* What every stage keeps.
Stage(s, P) ==
    /\ s \in [Tracks -> Decision]
    /\ P \subseteq Token
    /\ \A t \in Tracks : Sound(t, s[t])
    /\ Waits(s, P)
    /\ Distinct(P)
    /\ Dated(P)

NoneIsNewer(s, P) ==
    /\ \A t \in Tracks : s[t].gen <= generation
    /\ \A p \in P : p.gen <= generation

RecognitionInv ==
    /\ RecognitionTypeOK
    /\ Stage(tracks, pending)
    /\ NoneIsNewer(tracks, pending)

-----------------------------------------------------------------------------
(* Single states *)

LEMMA Ages == AgeCap \in Nat /\ Never \in Nat /\ Never = AgeCap + 1
  BY RecognitionAssumption DEF AgeCap, Never

LEMMA NoStateFacts ==
    /\ NoState \in Decision
    /\ \A t \in Tracks : version \in Nat => Sound(t, NoState)
    /\ ~NoState.asked /\ NoState.gen = 0 /\ NoState.status = "unknown"
  BY RecognitionAssumption, Ages DEF NoState, Decision, Sound

LEMMA FreshMatchFacts ==
    ASSUME NEW d \in Decision
    PROVE  /\ FreshMatch(d) \in Decision
           /\ FreshMatch(d).asked = d.asked /\ FreshMatch(d).gen = d.gen
           /\ FreshMatch(d).status = "unknown" /\ FreshMatch(d).version = d.version
  <1>1. Never \in 0..Never
    BY Ages
  <1>2. FreshMatch(d) \in Decision
    BY <1>1 DEF FreshMatch, Decision
  <1>3. FreshMatch(d).asked = d.asked
    BY DEF FreshMatch, Decision
  <1>4. FreshMatch(d).gen = d.gen /\ FreshMatch(d).version = d.version
    BY DEF FreshMatch, Decision
  <1>5. FreshMatch(d).status = "unknown"
    BY DEF FreshMatch, Decision
  <1> QED
    BY <1>2, <1>3, <1>4, <1>5

LEMMA AskedFacts ==
    ASSUME NEW d \in Decision
    PROVE  /\ Asked(d) \in Decision
           /\ Asked(d).asked = TRUE /\ Asked(d).gen = d.gen
           /\ Asked(d).status = "pending" /\ Asked(d).version = d.version
  <1> DEFINE again == IF d.version # version THEN 0
                      ELSE IF d.checked # Never /\ RetriesLeft(d) THEN d.retries + 1
                      ELSE d.retries
  <1>1. again \in 0..QuickRetryLimit
    BY RecognitionAssumption DEF Decision, RetriesLeft
  <1>2. Asked(d) = [d EXCEPT !.status = "pending", !.asked = TRUE, !.retries = again]
    BY DEF Asked
  <1> HIDE DEF again
  <1>3. Asked(d) \in Decision
    BY <1>1, <1>2 DEF Decision
  <1>4. Asked(d).asked = TRUE /\ Asked(d).status = "pending"
    BY <1>2 DEF Decision
  <1>5. Asked(d).gen = d.gen /\ Asked(d).version = d.version
    BY <1>2 DEF Decision
  <1> QED
    BY <1>3, <1>4, <1>5

\* A decision for p, on the state of the track that has awaited it.
LEMMA DecidedFacts ==
    ASSUME NEW d \in Decision, NEW p \in Token, NEW ids \in SUBSET EntryIds, ~d.asked
    PROVE  /\ Decided(d, p, ids) \in Decision
           /\ ~Decided(d, p, ids).asked /\ Decided(d, p, ids).gen = d.gen
           /\ Decided(d, p, ids).version = d.version
           /\ Decided(d, p, ids).status # "pending"
           /\ Decided(d, p, ids).status = "whitelisted"
                 => <<Decided(d, p, ids).matched, PersonOf[p.track]>> \in Enrollable
           /\ Decided(d, p, ids).status = "non_whitelisted"
                 => \A e \in ids : <<e, PersonOf[p.track]>> \notin p.entries
  <1> DEFINE same == {e \in ids : <<e, PersonOf[p.track]>> \in p.entries}
             best == IF p.result \in same THEN p.result ELSE CHOOSE e \in same : TRUE
  <1>1. CASE p.result = "error"
    <2>1. Decided(d, p, ids) = [d EXCEPT !.status = "unknown", !.matched = NoEntry]
      BY <1>1 DEF Decided
    <2>2. [d EXCEPT !.status = "unknown", !.matched = NoEntry] \in Decision
      BY DEF Decision
    <2> QED
      BY <2>1, <2>2 DEF Decision
  <1>2. CASE p.result # "error" /\ same = {}
    <2>1. Decided(d, p, ids) = [d EXCEPT !.status = "non_whitelisted", !.matched = NoEntry]
      BY <1>2 DEF Decided
    <2>2. [d EXCEPT !.status = "non_whitelisted", !.matched = NoEntry] \in Decision
      BY DEF Decision
    <2>3. \A e \in ids : <<e, PersonOf[p.track]>> \notin p.entries
      BY <1>2
    <2> QED
      BY <2>1, <2>2, <2>3 DEF Decision
  <1>3. CASE p.result # "error" /\ same # {}
    <2>1. Decided(d, p, ids)
            = [d EXCEPT !.status = "whitelisted", !.matched = best, !.retries = 0]
      BY <1>3 DEF Decided
    <2>2. best \in same
      BY <1>3
    <2>3. best \in EntryIds /\ <<best, PersonOf[p.track]>> \in Enrollable
      BY <2>2 DEF Token
    <2> HIDE DEF best
    <2>4. [d EXCEPT !.status = "whitelisted", !.matched = best, !.retries = 0] \in Decision
      <3>1. 0 \in 0..QuickRetryLimit
        BY RecognitionAssumption
      <3> QED
        BY <2>3, <3>1 DEF Decision
    <2>5. Decided(d, p, ids).matched = best
      BY <2>1 DEF Decision
    <2>6. /\ Decided(d, p, ids).asked = d.asked /\ Decided(d, p, ids).gen = d.gen
          /\ Decided(d, p, ids).version = d.version
      BY <2>1 DEF Decision
    <2>7. Decided(d, p, ids).status = "whitelisted"
      BY <2>1 DEF Decision
    <2> QED
      BY <2>1, <2>3, <2>4, <2>5, <2>6, <2>7
  <1> QED
    BY <1>1, <1>2, <1>3

-----------------------------------------------------------------------------
(* The stages of process() *)

LEMMA ExpiredStage ==
    ASSUME NEW s, NEW P, Stage(s, P), NEW late \in SUBSET P
    PROVE  /\ Stage(Expired(s, late), P \ late)
           /\ \A t \in Tracks : Expired(s, late)[t].gen = s[t].gen
  <1> USE DEF Stage
  <1> DEFINE r == Expired(s, late)
             over(t) == \E p \in late : Awaits(s, t, p)
             freed(t) == [s[t] EXCEPT !.asked = FALSE]
  <1>1. ASSUME NEW t \in Tracks, ~over(t)
        PROVE  r[t] = s[t]
    BY <1>1 DEF Expired
  <1>2. ASSUME NEW t \in Tracks, over(t)
        PROVE  /\ r[t] \in Decision /\ Sound(t, r[t])
               /\ ~r[t].asked /\ r[t].gen = s[t].gen
    <2>1. r[t] = FreshMatch(freed(t))
      BY <1>2 DEF Expired
    <2>2. s[t] \in Decision /\ Sound(t, s[t])
      OBVIOUS
    <2>3. freed(t) \in Decision
      BY <2>2 DEF Decision
    <2>4. ~freed(t).asked
      BY <2>2 DEF Decision
    <2>5. freed(t).gen = s[t].gen /\ freed(t).version = s[t].version
      BY <2>2 DEF Decision
    <2> HIDE DEF freed, r
    <2>6. /\ r[t] \in Decision /\ ~r[t].asked /\ r[t].gen = s[t].gen
          /\ r[t].status = "unknown" /\ r[t].version = s[t].version
      BY <2>1, <2>3, <2>4, <2>5, FreshMatchFacts
    <2> QED
      BY <2>2, <2>6 DEF Sound
  <1>3. r \in [Tracks -> Decision]
    <2>1. \A t \in Tracks : r[t] \in Decision
      BY <1>1, <1>2
    <2> QED
      BY <2>1 DEF Expired
  <1>4. \A t \in Tracks : Sound(t, r[t]) /\ r[t].gen = s[t].gen
    BY <1>1, <1>2
  <1>5. Waits(r, P \ late)
    <2> SUFFICES ASSUME NEW t \in Tracks
                 PROVE  r[t].asked <=> \E p \in P \ late : p.track = t /\ p.gen = r[t].gen
      BY DEF Waits
    <2>1. s[t].asked <=> \E p \in P : p.track = t /\ p.gen = s[t].gen
      BY DEF Waits
    <2>2. CASE over(t)
      <3>1. PICK q \in late : q.track = t /\ q.gen = s[t].gen
        BY <2>2 DEF Awaits
      <3>2. ASSUME NEW p \in P \ late, p.track = t, p.gen = s[t].gen
            PROVE  FALSE
        BY <3>1, <3>2 DEF Distinct
      <3> QED
        BY <1>2, <2>2, <3>2
    <2>3. CASE ~over(t)
      <3>1. ASSUME s[t].asked, NEW p \in P, p.track = t, p.gen = s[t].gen
            PROVE  p \notin late
        BY <2>3, <3>1 DEF Awaits
      <3> QED
        BY <1>1, <2>1, <2>3, <3>1
    <2> QED
      BY <2>2, <2>3
  <1>6. Distinct(P \ late) /\ Dated(P \ late) /\ P \ late \subseteq Token
    BY DEF Distinct, Dated
  <1> QED
    BY <1>3, <1>4, <1>5, <1>6

LEMMA AppliedStage ==
    ASSUME NEW s, NEW P, Stage(s, P), NEW done \in SUBSET P, RecognitionTypeOK
    PROVE  /\ Stage(Applied(s, done, IdsIn(enrolled)), P \ done)
           /\ \A t \in Tracks : Applied(s, done, IdsIn(enrolled))[t].gen = s[t].gen
  <1> USE DEF Stage
  <1> DEFINE ids == IdsIn(enrolled)
             r == Applied(s, done, ids)
             mine(t) == {p \in done : Awaits(s, t, p)}
  <1>1. ASSUME NEW t \in Tracks, mine(t) = {}
        PROVE  r[t] = s[t]
    BY <1>1 DEF Applied
  <1>2. ASSUME NEW t \in Tracks, mine(t) # {}
        PROVE  /\ r[t] \in Decision /\ Sound(t, r[t])
               /\ ~r[t].asked /\ r[t].gen = s[t].gen
    <2>1. PICK p : p = CHOOSE q \in mine(t) : TRUE
      OBVIOUS
    <2>2. p \in mine(t)
      BY <1>2, <2>1
    <2>3. p \in Token /\ p \in P /\ p.track = t /\ p.age \in 0..AgeCap /\ p.version \in 0..MaxVersion
      BY <2>2 DEF Awaits, Token
    <2>4. PICK d : d = [s[t] EXCEPT !.asked = FALSE, !.checked = p.age, !.version = p.version]
      OBVIOUS
    <2>5. r[t] = Decided(d, p, ids)
      BY <1>2, <2>1, <2>4 DEF Applied
    <2>6. s[t] \in Decision /\ Sound(t, s[t])
      OBVIOUS
    <2>7. p.age \in 0..Never
      BY <2>3, Ages
    <2>8. d \in Decision
      BY <2>3, <2>4, <2>6, <2>7 DEF Decision
    <2>9. ~d.asked /\ d.gen = s[t].gen /\ d.version = p.version
      BY <2>4, <2>6 DEF Decision
    <2>10. ids \in SUBSET EntryIds
      BY RecognitionAssumption DEF RecognitionTypeOK, IdsIn
    <2> HIDE DEF ids, r, mine
    <2>11. /\ r[t] \in Decision /\ ~r[t].asked /\ r[t].gen = s[t].gen
           /\ r[t].version = p.version /\ r[t].status # "pending"
           /\ r[t].status = "whitelisted" => <<r[t].matched, PersonOf[t]>> \in Enrollable
           /\ r[t].status = "non_whitelisted"
                 => \A e \in ids : <<e, PersonOf[t]>> \notin p.entries
      BY <2>3, <2>5, <2>8, <2>9, <2>10, DecidedFacts
    <2>12. p.version <= version /\ (p.version = version => p.entries = enrolled)
      BY <2>3 DEF Dated
    <2>13. ASSUME r[t].status = "non_whitelisted", r[t].version = version, NEW e \in EntryIds
           PROVE  <<e, PersonOf[t]>> \notin enrolled
      <3>1. <<e, PersonOf[t]>> \in enrolled => e \in ids
        BY DEF ids, IdsIn
      <3> QED
        BY <2>11, <2>12, <2>13, <3>1
    <2> QED
      BY <2>11, <2>12, <2>13 DEF Sound
  <1>3. r \in [Tracks -> Decision]
    <2>1. \A t \in Tracks : r[t] \in Decision
      BY <1>1, <1>2
    <2> QED
      BY <2>1 DEF Applied
  <1>4. \A t \in Tracks : Sound(t, r[t]) /\ r[t].gen = s[t].gen
    BY <1>1, <1>2
  <1>5. Waits(r, P \ done)
    <2> SUFFICES ASSUME NEW t \in Tracks
                 PROVE  r[t].asked <=> \E p \in P \ done : p.track = t /\ p.gen = r[t].gen
      BY DEF Waits
    <2>1. s[t].asked <=> \E p \in P : p.track = t /\ p.gen = s[t].gen
      BY DEF Waits
    <2>2. CASE mine(t) # {}
      <3>1. PICK q \in done : q.track = t /\ q.gen = s[t].gen
        BY <2>2 DEF Awaits
      <3>2. ASSUME NEW p \in P \ done, p.track = t, p.gen = s[t].gen
            PROVE  FALSE
        BY <3>1, <3>2 DEF Distinct
      <3> QED
        BY <1>2, <2>2, <3>2
    <2>3. CASE mine(t) = {}
      <3>1. ASSUME s[t].asked, NEW p \in P, p.track = t, p.gen = s[t].gen
            PROVE  p \notin done
        BY <2>3, <3>1 DEF Awaits
      <3> QED
        BY <1>1, <2>1, <2>3, <3>1
    <2> QED
      BY <2>2, <2>3
  <1>6. Distinct(P \ done) /\ Dated(P \ done) /\ P \ done \subseteq Token
    BY DEF Distinct, Dated
  <1> QED
    BY <1>3, <1>4, <1>5, <1>6

\* A frame later: the same decisions and tokens, with other ages.
LEMMA OlderStage ==
    ASSUME RecognitionInv
    PROVE  /\ Stage(OlderTracks, OlderPending)
           /\ NoneIsNewer(OlderTracks, OlderPending)
           /\ \A t \in Tracks : /\ OlderTracks[t].status = tracks[t].status
                               /\ OlderTracks[t].matched = tracks[t].matched
  <1> USE DEF RecognitionInv, Stage
  <1>1. ASSUME NEW t \in Tracks
        PROVE  /\ OlderTracks[t] \in Decision
               /\ OlderTracks[t].asked = tracks[t].asked
               /\ OlderTracks[t].gen = tracks[t].gen
               /\ OlderTracks[t].version = tracks[t].version
               /\ OlderTracks[t].status = tracks[t].status
               /\ OlderTracks[t].matched = tracks[t].matched
    <2>1. CASE ~Known(tracks, t)
      BY <2>1 DEF OlderTracks
    <2>2. CASE Known(tracks, t)
      <3>1. PICK d : d = tracks[t]
        OBVIOUS
      <3>2. d \in Decision
        BY <3>1
      <3>3. PICK a, b : a = Older(d.checked, AgeCap) /\ b = Older(d.unseen, MissingFrames + 1)
        OBVIOUS
      <3>4. a \in 0..Never
        BY <3>2, <3>3, Ages DEF Older, Decision
      <3>5. b \in 0..(MissingFrames + 1)
        BY <3>2, <3>3, RecognitionAssumption DEF Older, Decision
      <3>6. OlderTracks[t] = [d EXCEPT !.checked = a, !.unseen = b]
        BY <2>2, <3>1, <3>3 DEF OlderTracks
      <3>7. OlderTracks[t] \in Decision
        BY <3>2, <3>4, <3>5, <3>6 DEF Decision
      <3>8. OlderTracks[t].asked = d.asked /\ OlderTracks[t].gen = d.gen
        BY <3>2, <3>6 DEF Decision
      <3>9. OlderTracks[t].version = d.version
        BY <3>2, <3>6 DEF Decision
      <3>10. OlderTracks[t].status = d.status /\ OlderTracks[t].matched = d.matched
        BY <3>2, <3>6 DEF Decision
      <3> QED
        BY <3>1, <3>7, <3>8, <3>9, <3>10
    <2> QED
      BY <2>1, <2>2
  <1>2. OlderTracks \in [Tracks -> Decision]
    <2>1. \A t \in Tracks : OlderTracks[t] \in Decision
      BY <1>1
    <2> QED
      BY <2>1 DEF OlderTracks
  <1>3. \A t \in Tracks : Sound(t, OlderTracks[t])
    BY <1>1 DEF Sound
  <1>4. ASSUME NEW p \in pending
        PROVE  LET o == [p EXCEPT !.age = Older(@, AgeCap)]
               IN  /\ o \in Token /\ o.track = p.track /\ o.gen = p.gen
                   /\ o.version = p.version /\ o.entries = p.entries
    <2>1. p \in Token
      OBVIOUS
    <2>2. PICK a : a = Older(p.age, AgeCap)
      OBVIOUS
    <2>3. a \in 0..AgeCap
      BY <2>1, <2>2, Ages DEF Older, Token
    <2>4. [p EXCEPT !.age = a] \in Token
      BY <2>1, <2>3 DEF Token
    <2> QED
      BY <2>1, <2>2, <2>4 DEF Token
  <1>5. ASSUME NEW o \in OlderPending
        PROVE  \E p \in pending : /\ o = [p EXCEPT !.age = Older(@, AgeCap)]
                                 /\ o \in Token /\ o.track = p.track /\ o.gen = p.gen
                                 /\ o.version = p.version /\ o.entries = p.entries
    <2>1. PICK p \in pending : o = [p EXCEPT !.age = Older(@, AgeCap)]
      BY <1>5 DEF OlderPending
    <2> QED
      BY <1>4, <2>1
  <1>6. ASSUME NEW p \in pending
        PROVE  \E o \in OlderPending : o.track = p.track /\ o.gen = p.gen
    <2>1. [p EXCEPT !.age = Older(@, AgeCap)] \in OlderPending
      BY DEF OlderPending
    <2> QED
      BY <1>4, <2>1
  <1>7. OlderPending \subseteq Token /\ Dated(OlderPending)
    BY <1>5 DEF Dated
  <1>8. Distinct(OlderPending)
    <2> SUFFICES ASSUME NEW o \in OlderPending, NEW u \in OlderPending,
                        o.track = u.track, o.gen = u.gen
                 PROVE  o = u
      BY DEF Distinct
    <2>1. PICK p \in pending : /\ o = [p EXCEPT !.age = Older(@, AgeCap)]
                              /\ o.track = p.track /\ o.gen = p.gen
      BY <1>5
    <2>2. PICK q \in pending : /\ u = [q EXCEPT !.age = Older(@, AgeCap)]
                              /\ u.track = q.track /\ u.gen = q.gen
      BY <1>5
    <2>3. p = q
      BY <2>1, <2>2 DEF Distinct
    <2> QED
      BY <2>1, <2>2, <2>3
  <1>9. Waits(OlderTracks, OlderPending)
    <2> SUFFICES ASSUME NEW t \in Tracks
                 PROVE  OlderTracks[t].asked
                          <=> \E o \in OlderPending : o.track = t /\ o.gen = OlderTracks[t].gen
      BY DEF Waits
    <2>1. tracks[t].asked <=> \E p \in pending : p.track = t /\ p.gen = tracks[t].gen
      BY DEF Waits
    <2> QED
      BY <1>1, <1>5, <1>6, <2>1
  <1>10. NoneIsNewer(OlderTracks, OlderPending)
    BY <1>1, <1>5 DEF NoneIsNewer
  <1> QED
    BY <1>1, <1>2, <1>3, <1>7, <1>8, <1>9, <1>10

LEMMA InvalidatedStage ==
    ASSUME NEW s, NEW P, Stage(s, P), NEW ids
    PROVE  /\ Stage(Invalidated(s, ids), P)
           /\ \A t \in Tracks : Invalidated(s, ids)[t].gen = s[t].gen
  <1> USE DEF Stage
  <1> DEFINE r == Invalidated(s, ids)
  <1>1. ASSUME NEW t \in Tracks
        PROVE  /\ r[t] \in Decision
               /\ r[t].asked = s[t].asked /\ r[t].gen = s[t].gen /\ r[t].version = s[t].version
               /\ \/ r[t] = s[t]
                  \/ r[t].status = s[t].status /\ r[t].status # "whitelisted"
                  \/ r[t].status = "unknown" /\ s[t].status = "whitelisted"
    <2>1. CASE s[t].matched \in ids \cup {NoEntry}
      BY <2>1 DEF Invalidated
    <2>2. CASE s[t].matched \notin ids \cup {NoEntry}
      <3>1. PICK d : d = s[t]
        OBVIOUS
      <3>2. d \in Decision
        BY <3>1
      <3>3. PICK st : st = IF d.status = "whitelisted" THEN "unknown" ELSE d.status
        OBVIOUS
      <3>4. r[t] = [d EXCEPT !.matched = NoEntry, !.status = st]
        BY <2>2, <3>1, <3>3 DEF Invalidated
      <3>5. st \in {"unknown", "pending", "whitelisted", "non_whitelisted"}
        BY <3>2, <3>3 DEF Decision
      <3>6. r[t] \in Decision
        BY <3>2, <3>4, <3>5 DEF Decision
      <3>7. r[t].asked = d.asked /\ r[t].gen = d.gen
        BY <3>2, <3>4 DEF Decision
      <3>8. r[t].version = d.version /\ r[t].status = st
        BY <3>2, <3>4 DEF Decision
      <3> QED
        BY <3>1, <3>3, <3>6, <3>7, <3>8
    <2> QED
      BY <2>1, <2>2
  <1>2. r \in [Tracks -> Decision]
    <2>1. \A t \in Tracks : r[t] \in Decision
      BY <1>1
    <2> QED
      BY <2>1 DEF Invalidated
  <1> HIDE DEF r
  <1>3. ASSUME NEW t \in Tracks PROVE Sound(t, r[t])
    <2>1. Sound(t, s[t])
      OBVIOUS
    <2> QED
      BY <1>1, <2>1 DEF Sound
  <1>4. Waits(r, P)
    BY <1>1 DEF Waits
  <1> QED
    BY <1>1, <1>2, <1>3, <1>4 DEF r

LEMMA RetiredStage ==
    ASSUME NEW s, NEW P, Stage(s, P), NEW visible, NEW dropped, version \in Nat
    PROVE  /\ Stage(Retired(s, visible, dropped), P)
           /\ \A t \in Tracks : Retired(s, visible, dropped)[t].gen \in {0, s[t].gen}
  <1> USE DEF Stage
  <1> DEFINE r == Retired(s, visible, dropped)
  <1>1. \A t \in Tracks : r[t] = NoState \/ r[t] = s[t]
    BY DEF Retired
  <1>2. r \in [Tracks -> Decision]
    <2>1. \A t \in Tracks : r[t] \in Decision
      BY <1>1, NoStateFacts
    <2> QED
      BY <2>1 DEF Retired
  <1> HIDE DEF r
  <1>3. \A t \in Tracks : Sound(t, r[t]) /\ r[t].gen \in {0, s[t].gen}
    BY <1>1, NoStateFacts
  <1>4. ASSUME NEW t \in Tracks
        PROVE  r[t].asked <=> \E p \in P : p.track = t /\ p.gen = r[t].gen
    <2>1. CASE r[t] = s[t]
      BY <2>1 DEF Waits
    <2>2. CASE r[t] = NoState
      <3>1. \A p \in P : p.gen # 0
        BY DEF Token
      <3> QED
        BY <2>2, <3>1, NoStateFacts
    <2> QED
      BY <1>1, <2>1, <2>2
  <1>5. Waits(r, P)
    BY <1>4 DEF Waits
  <1> QED
    BY <1>2, <1>3, <1>5 DEF r

LEMMA SeenStage ==
    ASSUME NEW s, NEW P, Stage(s, P), NoneIsNewer(s, P), NEW visible, generation \in Nat,
           \A t \in Tracks \cap visible : s[t].gen = 0 => generation + 1 <= MaxGeneration
    PROVE  /\ Stage(Seen(s, visible), P)
           /\ \A t \in Tracks : /\ Seen(s, visible)[t].gen
                                   = IF t \in visible /\ s[t].gen = 0
                                       THEN generation + 1 ELSE s[t].gen
                               /\ Seen(s, visible)[t].status = s[t].status
                               /\ Seen(s, visible)[t].matched = s[t].matched
  <1> USE DEF Stage
  <1> DEFINE r == Seen(s, visible)
  <1>1. ASSUME NEW t \in Tracks
        PROVE  /\ r[t] \in Decision
               /\ r[t].gen = IF t \in visible /\ s[t].gen = 0 THEN generation + 1 ELSE s[t].gen
               /\ r[t].asked = s[t].asked /\ r[t].version = s[t].version
               /\ r[t].status = s[t].status /\ r[t].matched = s[t].matched
    <2>1. CASE t \notin visible
      BY <2>1 DEF Seen
    <2>2. CASE t \in visible
      <3>1. PICK d : d = s[t]
        OBVIOUS
      <3>2. d \in Decision
        BY <3>1
      <3>3. PICK g : g = IF d.gen = 0 THEN generation + 1 ELSE d.gen
        OBVIOUS
      <3>4. r[t] = [d EXCEPT !.unseen = 0, !.gen = g]
        BY <2>2, <3>1, <3>3 DEF Seen
      <3>5. g \in 0..MaxGeneration
        BY <2>2, <3>1, <3>2, <3>3, RecognitionAssumption DEF Decision
      <3>6. 0 \in 0..(MissingFrames + 1)
        BY RecognitionAssumption
      <3>7. r[t] \in Decision
        BY <3>2, <3>4, <3>5, <3>6 DEF Decision
      <3>8. r[t].asked = d.asked /\ r[t].gen = g
        BY <3>2, <3>4 DEF Decision
      <3>9. r[t].version = d.version /\ r[t].status = d.status /\ r[t].matched = d.matched
        BY <3>2, <3>4 DEF Decision
      <3> QED
        BY <2>2, <3>1, <3>3, <3>7, <3>8, <3>9
    <2> QED
      BY <2>1, <2>2
  <1>2. r \in [Tracks -> Decision]
    <2>1. \A t \in Tracks : r[t] \in Decision
      BY <1>1
    <2> QED
      BY <2>1 DEF Seen
  <1> HIDE DEF r
  <1>3. ASSUME NEW t \in Tracks PROVE Sound(t, r[t])
    <2>1. Sound(t, s[t]) /\ s[t].gen \in Nat /\ r[t].gen \in Nat
      BY <1>2, RecognitionAssumption DEF Decision
    <2>2. s[t].gen > 0 => r[t].gen > 0
      BY <1>1, <2>1
    <2>3. /\ r[t].asked = s[t].asked /\ r[t].version = s[t].version
          /\ r[t].status = s[t].status /\ r[t].matched = s[t].matched
      BY <1>1
    <2> QED
      BY <2>1, <2>2, <2>3 DEF Sound
  <1>4. ASSUME NEW t \in Tracks
        PROVE  r[t].asked <=> \E p \in P : p.track = t /\ p.gen = r[t].gen
    <2>1. CASE r[t].gen = s[t].gen
      BY <1>1, <2>1 DEF Waits
    <2>2. CASE r[t].gen # s[t].gen
      <3>1. r[t].gen = generation + 1 /\ s[t].gen = 0
        BY <1>1, <2>2
      <3>2. ~s[t].asked
        <4>1. s[t].asked => s[t].gen > 0
          BY DEF Sound
        <4>2. ~(s[t].gen > 0)
          BY <3>1
        <4> QED
          BY <4>1, <4>2
      <3>3. ASSUME NEW p \in P PROVE p.gen # generation + 1
        <4>1. p.gen <= generation /\ p.gen \in Nat
          BY RecognitionAssumption DEF NoneIsNewer, Token
        <4> QED
          BY <4>1
      <3> QED
        BY <1>1, <3>1, <3>2, <3>3
    <2> QED
      BY <2>1, <2>2
  <1>5. Waits(r, P)
    BY <1>4 DEF Waits
  <1> QED
    BY <1>1, <1>2, <1>3, <1>5 DEF r

LEMMA ScheduledStage ==
    ASSUME NEW s, NEW P, Stage(s, P), RecognitionTypeOK,
           NEW eligible \in SUBSET Tracks, NEW sent \in SUBSET eligible,
           \A t \in eligible : Eligible(s[t]) /\ s[t].gen > 0
    PROVE  /\ Stage(Scheduled(s, eligible, sent), P \cup Tokens(s, sent))
           /\ \A t \in Tracks : Scheduled(s, eligible, sent)[t].gen = s[t].gen
           /\ \A t \in Tracks \ eligible : Scheduled(s, eligible, sent)[t] = s[t]
  <1> USE DEF Stage
  <1> DEFINE r == Scheduled(s, eligible, sent)
             Q == Tokens(s, sent)
  <1>1. ASSUME NEW t \in Tracks \ eligible PROVE r[t] = s[t]
    BY DEF Scheduled
  <1>2. ASSUME NEW t \in eligible \ sent
        PROVE  r[t] \in Decision /\ Sound(t, r[t]) /\ r[t].gen = s[t].gen /\ ~r[t].asked
    <2>1. r[t] = FreshMatch(s[t])
      BY DEF Scheduled
    <2>2. s[t] \in Decision /\ Sound(t, s[t]) /\ ~s[t].asked
      BY DEF Eligible
    <2>3. /\ r[t] \in Decision /\ r[t].asked = s[t].asked /\ r[t].gen = s[t].gen
          /\ r[t].status = "unknown" /\ r[t].version = s[t].version
      BY <2>1, <2>2, FreshMatchFacts
    <2>4. Sound(t, r[t])
      BY <2>2, <2>3 DEF Sound
    <2> QED
      BY <2>2, <2>3, <2>4
  <1>3. ASSUME NEW t \in sent
        PROVE  /\ r[t] \in Decision /\ Sound(t, r[t]) /\ r[t].gen = s[t].gen
               /\ r[t].asked /\ ~s[t].asked
    <2>1. r[t] = Asked(s[t])
      BY DEF Scheduled
    <2>2. s[t] \in Decision /\ Sound(t, s[t]) /\ ~s[t].asked /\ s[t].gen > 0
      BY DEF Eligible
    <2>3. /\ r[t] \in Decision /\ r[t].asked = TRUE /\ r[t].gen = s[t].gen
          /\ r[t].status = "pending" /\ r[t].version = s[t].version
      BY <2>1, <2>2, AskedFacts
    <2>4. Sound(t, r[t])
      BY <2>2, <2>3 DEF Sound
    <2> QED
      BY <2>2, <2>3, <2>4
  <1>4. r \in [Tracks -> Decision]
    <2>1. \A t \in Tracks : r[t] \in Decision
      BY <1>1, <1>2, <1>3
    <2> QED
      BY <2>1 DEF Scheduled
  <1>5. \A t \in Tracks : Sound(t, r[t]) /\ r[t].gen = s[t].gen
    BY <1>1, <1>2, <1>3
  <1>6. ASSUME NEW q \in Q
        PROVE  /\ q \in Token /\ q.version = version /\ q.entries = enrolled
               /\ q.track \in sent /\ q.gen = s[q.track].gen
    <2>1. PICK t \in sent : q = [track |-> t, gen |-> s[t].gen, age |-> 0, version |-> version,
                                 entries |-> enrolled, result |-> "none"]
      BY DEF Tokens
    <2>2. s[t] \in Decision /\ s[t].gen > 0
      OBVIOUS
    <2>3. s[t].gen \in 1..MaxGeneration
      BY <2>2, RecognitionAssumption DEF Decision
    <2>4. 0 \in 0..AgeCap
      BY Ages
    <2> QED
      BY <2>1, <2>3, <2>4 DEF Token, RecognitionTypeOK
  <1>7. ASSUME NEW t \in sent
        PROVE  \E q \in Q : q.track = t /\ q.gen = s[t].gen
    <2>1. PICK q : q = [track |-> t, gen |-> s[t].gen, age |-> 0, version |-> version,
                        entries |-> enrolled, result |-> "none"]
      OBVIOUS
    <2>2. q \in Q
      BY <2>1 DEF Tokens
    <2> QED
      BY <2>1, <2>2
  <1>8. ASSUME NEW t \in sent, NEW p \in P, p.track = t, p.gen = s[t].gen
        PROVE  FALSE
    BY <1>3, <1>8 DEF Waits
  <1>9. ASSUME NEW p \in Q, NEW q \in Q, p.track = q.track
        PROVE  p = q
    BY <1>9 DEF Tokens
  <1> HIDE DEF r, Q
  <1>10. Distinct(P \cup Q)
    BY <1>6, <1>8, <1>9 DEF Distinct
  <1>11. Dated(P \cup Q) /\ P \cup Q \subseteq Token
    <2>1. version <= version
      BY DEF RecognitionTypeOK
    <2> QED
      BY <1>6, <2>1 DEF Dated
  <1>12. ASSUME NEW t \in Tracks
         PROVE  r[t].asked <=> \E p \in P \cup Q : p.track = t /\ p.gen = r[t].gen
    <2>1. s[t].asked <=> \E p \in P : p.track = t /\ p.gen = s[t].gen
      BY DEF Waits
    <2>2. CASE t \in sent
      BY <1>3, <1>7, <2>2
    <2>3. CASE t \in eligible \ sent
      <3>1. ~s[t].asked
        BY <2>3 DEF Eligible
      <3> QED
        BY <1>2, <1>6, <2>1, <2>3, <3>1
    <2>4. CASE t \in Tracks \ eligible
      BY <1>1, <1>6, <2>1, <2>4
    <2> QED
      BY <2>2, <2>3, <2>4
  <1>13. Waits(r, P \cup Q)
    BY <1>12 DEF Waits
  <1> QED
    BY <1>1, <1>4, <1>5, <1>10, <1>11, <1>13 DEF r, Q

\* An approval whose entry is enrolled passes the stages untouched.
KeepsApprovals(r, ids, dropped) ==
    \A t \in Tracks \ dropped :
        tracks[t].status = "whitelisted" /\ tracks[t].matched \in ids
            => r[t].status = "whitelisted" /\ r[t].matched = tracks[t].matched

\* _schedule finds the states r and tokens P, and submits those of "sent".
Schedules(r, P, eligible, sent, dropped) ==
    /\ eligible \in SUBSET Tracks /\ sent \in SUBSET eligible
    /\ Stage(r, P)
    /\ \A t \in eligible : Eligible(r[t]) /\ r[t].gen > 0
    /\ tracks' = Scheduled(r, eligible, sent)
    /\ pending' = P \cup Tokens(r, sent)
    /\ P \subseteq OlderPending /\ HasRoom(P, sent)
    /\ generation' \in 0..MaxGeneration /\ generation <= generation'
    /\ \A t \in Tracks : r[t].gen <= generation'
    /\ KeepsApprovals(r, IdsIn(enrolled), dropped)

\* The stages put together.
LEMMA ProcessStages ==
    ASSUME RecognitionInv,
           NEW dropped \in SUBSET Tracks, NEW visible \in SUBSET (Tracks \ dropped),
           NEW offered \in SUBSET visible, NEW timeout, Process(visible, offered, dropped, timeout)
    PROVE  \E r, P, eligible, sent : Schedules(r, P, eligible, sent, dropped)
  <1> DEFINE late == {p \in OlderPending : p.age >= timeout}
             done == {p \in OlderPending \ late : p.result # "none"}
             rest == (OlderPending \ late) \ done
             ids == IdsIn(enrolled)
             expired == Expired(OlderTracks, late)
             applied == Applied(expired, done, ids)
             judged == Invalidated(applied, ids)
             retired == Retired(judged, visible, dropped)
             seen == Seen(retired, visible)
             eligible == {t \in offered : enrolled # {} /\ Eligible(seen[t])}
  <1>1. /\ generation' = IF \E t \in visible : seen[t].gen > generation
                           THEN generation + 1 ELSE generation
        /\ generation' <= MaxGeneration
        /\ \E sent \in SUBSET eligible :
              /\ HasRoom(rest, sent)
              /\ tracks' = Scheduled(seen, eligible, sent)
              /\ pending' = rest \cup Tokens(seen, sent)
    BY DEF Process
  <1>2. PICK sent \in SUBSET eligible :
              /\ HasRoom(rest, sent)
              /\ tracks' = Scheduled(seen, eligible, sent)
              /\ pending' = rest \cup Tokens(seen, sent)
    BY <1>1
  <1>3. RecognitionTypeOK /\ version \in Nat /\ generation \in Nat
    BY RecognitionAssumption DEF RecognitionInv, RecognitionTypeOK
  <1>4. /\ late \in SUBSET OlderPending /\ done \in SUBSET (OlderPending \ late)
        /\ eligible \in SUBSET Tracks /\ eligible \subseteq visible
    OBVIOUS
  <1>5. /\ Stage(OlderTracks, OlderPending) /\ NoneIsNewer(OlderTracks, OlderPending)
        /\ \A t \in Tracks : /\ OlderTracks[t].status = tracks[t].status
                            /\ OlderTracks[t].matched = tracks[t].matched
    BY OlderStage
  <1>6. /\ Stage(expired, OlderPending \ late)
        /\ \A t \in Tracks : expired[t].gen = OlderTracks[t].gen
    <2> DEFINE s == OlderTracks
               P == OlderPending
    <2>1. Stage(s, P) /\ late \in SUBSET P
      BY <1>4, <1>5
    <2>2. expired = Expired(s, late)
      OBVIOUS
    <2> HIDE DEF late, expired, s, P
    <2>3. /\ Stage(Expired(s, late), P \ late)
          /\ \A t \in Tracks : Expired(s, late)[t].gen = s[t].gen
      BY <2>1, ExpiredStage
    <2>4. Stage(expired, P \ late) /\ \A t \in Tracks : expired[t].gen = s[t].gen
      BY <2>2, <2>3
    <2> QED
      BY <2>4, Zenon DEF s, P
  <1>7. /\ Stage(applied, rest)
        /\ \A t \in Tracks : applied[t].gen = expired[t].gen
    <2> DEFINE Q == OlderPending \ late
    <2>1. RecognitionTypeOK /\ Stage(expired, Q) /\ done \in SUBSET Q
      BY <1>3, <1>4, <1>6
    <2>2. applied = Applied(expired, done, IdsIn(enrolled)) /\ rest = Q \ done
      OBVIOUS
    <2> HIDE DEF late, done, expired, ids, applied, rest, Q
    <2>3. /\ Stage(Applied(expired, done, IdsIn(enrolled)), Q \ done)
          /\ \A t \in Tracks : Applied(expired, done, IdsIn(enrolled))[t].gen = expired[t].gen
      BY <2>1, AppliedStage
    <2> QED
      BY <2>2, <2>3
  <1>8. /\ Stage(judged, rest)
        /\ \A t \in Tracks : judged[t].gen = applied[t].gen
    <2> HIDE DEF late, done, applied
    <2> QED
      BY <1>7, InvalidatedStage
  <1>9. /\ Stage(retired, rest)
        /\ \A t \in Tracks : retired[t].gen \in {0, judged[t].gen}
    <2> HIDE DEF rest, judged
    <2> QED
      BY <1>3, <1>8, RetiredStage
  <1>10. KeepsApprovals(retired, ids, dropped)
    <2> SUFFICES ASSUME NEW t \in Tracks \ dropped,
                        tracks[t].status = "whitelisted", tracks[t].matched \in ids
                 PROVE  retired[t].status = "whitelisted" /\ retired[t].matched = tracks[t].matched
      BY DEF KeepsApprovals
    <2>1. OlderTracks[t].status = "whitelisted" /\ OlderTracks[t].matched = tracks[t].matched
      BY <1>5
    <2>2. ~OlderTracks[t].asked
      BY <1>5, <2>1 DEF Stage, Sound
    <2>3. \A P : {p \in P : Awaits(OlderTracks, t, p)} = {}
      BY <2>2 DEF Awaits
    <2>4. expired[t] = OlderTracks[t]
      BY <2>2 DEF Expired, Awaits
    <2>5. applied[t] = expired[t]
      <3>1. {p \in done : Awaits(expired, t, p)} = {}
        BY <2>2, <2>4 DEF Awaits
      <3> HIDE DEF expired, done, ids
      <3> QED
        BY <3>1 DEF Applied
    <2> HIDE DEF expired, applied
    <2>6. judged[t] = applied[t]
      BY <2>1, <2>4, <2>5 DEF Invalidated
    <2> HIDE DEF judged
    <2>7. retired[t] = judged[t]
      BY <2>1, <2>4, <2>5, <2>6 DEF Retired
    <2> QED
      BY <2>1, <2>4, <2>5, <2>6, <2>7
  <1>11. NoneIsNewer(retired, rest)
    <2>1. \A t \in Tracks : retired[t].gen \in {0, OlderTracks[t].gen}
      BY <1>6, <1>7, <1>8, <1>9
    <2>2. \A p \in rest : p \in OlderPending
      OBVIOUS
    <2> HIDE DEF rest, retired
    <2> QED
      BY <1>3, <1>5, <2>1, <2>2 DEF NoneIsNewer
  <1> HIDE DEF rest, retired
  <1>12. ASSUME NEW t \in visible, retired[t].gen = 0
         PROVE  seen[t].gen = generation + 1
    <2>1. PICK d : d = retired[t]
      OBVIOUS
    <2>2. d \in Decision
      BY <1>9, <2>1 DEF Stage
    <2>3. seen[t] = [d EXCEPT !.unseen = 0, !.gen = IF @ = 0 THEN generation + 1 ELSE @]
      BY <2>1 DEF Seen
    <2> QED
      BY <1>12, <2>1, <2>2, <2>3 DEF Decision
  <1>13. \A t \in Tracks \cap visible : retired[t].gen = 0 => generation + 1 <= MaxGeneration
    <2> SUFFICES ASSUME NEW t \in visible, retired[t].gen = 0
                 PROVE  generation + 1 <= MaxGeneration
      OBVIOUS
    <2>1. seen[t].gen > generation
      BY <1>3, <1>12
    <2> QED
      BY <1>1, <2>1
  <1>14. /\ Stage(seen, rest)
         /\ \A t \in Tracks : /\ seen[t].gen = IF t \in visible /\ retired[t].gen = 0
                                                THEN generation + 1 ELSE retired[t].gen
                             /\ seen[t].status = retired[t].status
                             /\ seen[t].matched = retired[t].matched
    BY <1>3, <1>9, <1>11, <1>13, SeenStage
  <1> HIDE DEF seen
  <1>15. generation' \in 0..MaxGeneration /\ generation <= generation'
    BY <1>1, <1>3, RecognitionAssumption
  <1>16. ASSUME NEW t \in Tracks PROVE seen[t].gen <= generation'
    <2>1. CASE t \in visible /\ retired[t].gen = 0
      <3>1. seen[t].gen = generation + 1 /\ seen[t].gen > generation
        BY <1>3, <1>14, <2>1
      <3> QED
        BY <1>1, <1>3, <2>1, <3>1
    <2>2. CASE ~(t \in visible /\ retired[t].gen = 0)
      <3>1. seen[t].gen = retired[t].gen /\ retired[t].gen <= generation
        BY <1>11, <1>14, <2>2 DEF NoneIsNewer
      <3>2. retired[t].gen \in Nat
        BY <1>9, RecognitionAssumption DEF Stage, Decision
      <3> QED
        BY <1>3, <1>15, <3>1, <3>2
    <2> QED
      BY <2>1, <2>2
  <1>17. ASSUME NEW t \in eligible PROVE Eligible(seen[t]) /\ seen[t].gen > 0
    <2>1. t \in visible /\ t \in Tracks /\ Eligible(seen[t])
      BY <1>4
    <2>2. retired[t].gen \in Nat
      BY <1>9, <2>1, RecognitionAssumption DEF Stage, Decision
    <2>3. seen[t].gen = IF retired[t].gen = 0 THEN generation + 1 ELSE retired[t].gen
      BY <1>14, <2>1
    <2> QED
      BY <1>3, <2>1, <2>2, <2>3
  <1>18. KeepsApprovals(seen, ids, dropped)
    BY <1>10, <1>14 DEF KeepsApprovals
  <1>19. rest \subseteq OlderPending
    BY DEF rest
  <1> HIDE DEF eligible, ids
  <1> QED
    BY <1>2, <1>4, <1>14, <1>15, <1>16, <1>17, <1>18, <1>19 DEF ids, Schedules

-----------------------------------------------------------------------------
(* The invariant *)

LEMMA InitEstablishes == RecognitionInit => RecognitionInv
  <1> SUFFICES ASSUME RecognitionInit PROVE RecognitionInv
    OBVIOUS
  <1>1. version = 0 /\ generation = 0 /\ 0 \in 0..MaxVersion /\ 0 \in 0..MaxGeneration
    BY RecognitionAssumption DEF RecognitionInit
  <1>2. \A t \in Tracks : tracks[t] = NoState
    BY DEF RecognitionInit
  <1>3. tracks \in [Tracks -> Decision]
    BY NoStateFacts DEF RecognitionInit
  <1>4. RecognitionTypeOK
    BY <1>1, <1>3 DEF RecognitionInit, RecognitionTypeOK
  <1>5. \A t \in Tracks : Sound(t, tracks[t])
    BY <1>1, <1>2, NoStateFacts
  <1>6. pending = {}
    BY DEF RecognitionInit
  <1>7. Waits(tracks, pending) /\ Distinct(pending) /\ Dated(pending)
    BY <1>2, <1>6, NoStateFacts DEF Waits, Distinct, Dated
  <1>8. NoneIsNewer(tracks, pending)
    BY <1>1, <1>2, <1>6, NoStateFacts DEF NoneIsNewer
  <1> QED
    BY <1>3, <1>4, <1>5, <1>6, <1>7, <1>8 DEF RecognitionInv, Stage

\* A change of the whitelist is a new version, which no state and no token has.
LEMMA WhitelistStep ==
    ASSUME RecognitionInv, version < MaxVersion, version' = version + 1,
           enrolled' \subseteq Enrollable,
           UNCHANGED <<generation, tracks, pending, gone, closed>>
    PROVE  RecognitionInv'
  <1> USE DEF RecognitionInv, Stage
  <1>1. version \in Nat /\ version' \in 0..MaxVersion
    BY RecognitionAssumption DEF RecognitionTypeOK
  <1>2. RecognitionTypeOK'
    BY <1>1 DEF RecognitionTypeOK
  <1>3. ASSUME NEW t \in Tracks PROVE Sound(t, tracks[t])'
    <2>1. Sound(t, tracks[t]) /\ tracks[t].version \in Nat
      BY RecognitionAssumption DEF Decision
    <2>2. tracks[t].version <= version
      BY <2>1 DEF Sound
    <2>3. tracks[t].version <= version' /\ tracks[t].version # version'
      BY <1>1, <2>1, <2>2
    <2> QED
      BY <2>1, <2>3 DEF Sound
  <1>4. Dated(pending)'
    <2> SUFFICES ASSUME NEW p \in pending PROVE p.version <= version' /\ p.version # version'
      BY DEF Dated
    <2>1. p.version <= version /\ p.version \in Nat
      BY RecognitionAssumption DEF Dated, Token
    <2> QED
      BY <1>1, <2>1
  <1>5. Waits(tracks, pending)' /\ Distinct(pending)' /\ NoneIsNewer(tracks, pending)'
    BY DEF Waits, Distinct, NoneIsNewer
  <1> QED
    BY <1>2, <1>3, <1>4, <1>5 DEF RecognitionTypeOK

LEMMA ResultStep ==
    ASSUME RecognitionInv, NEW p \in pending, NEW result \in IdsIn(p.entries) \cup {"error"},
           ResultArrives(p, result)
    PROVE  RecognitionInv'
  <1> USE DEF RecognitionInv, Stage
  <1>1. PICK q : q = [p EXCEPT !.result = result]
    OBVIOUS
  <1>2. /\ pending' = (pending \ {p}) \cup {q}
        /\ UNCHANGED <<enrolled, version, generation, tracks, gone, closed>>
    BY <1>1 DEF ResultArrives
  <1>3. p \in Token /\ result \in EntryIds \cup {"none", "error"}
    <2>1. p \in Token /\ p.entries \subseteq Enrollable
      BY DEF Token
    <2> QED
      BY <2>1, RecognitionAssumption DEF IdsIn
  <1>4. q \in Token
    BY <1>1, <1>3 DEF Token
  <1>5. /\ q.track = p.track /\ q.gen = p.gen
        /\ q.version = p.version /\ q.entries = p.entries
    BY <1>1, <1>3 DEF Token
  <1>6. RecognitionTypeOK'
    BY <1>2, <1>4 DEF RecognitionTypeOK
  <1>7. \A t \in Tracks : Sound(t, tracks[t])'
    BY <1>2 DEF Sound
  <1>8. Distinct(pending)'
    BY <1>2, <1>5 DEF Distinct
  <1>9. Dated(pending)'
    BY <1>2, <1>5 DEF Dated
  <1>10. Waits(tracks, pending)'
    BY <1>2, <1>5 DEF Waits
  <1>11. NoneIsNewer(tracks, pending)'
    BY <1>2, <1>5 DEF NoneIsNewer
  <1> QED
    BY <1>2, <1>4, <1>6, <1>7, <1>8, <1>9, <1>10, <1>11 DEF RecognitionTypeOK

LEMMA FrameStep ==
    ASSUME RecognitionInv, NEW dropped \in SUBSET Tracks,
           NEW visible \in SUBSET (Tracks \ dropped), NEW offered \in SUBSET visible,
           NEW timeout, Process(visible, offered, dropped, timeout)
    PROVE  RecognitionInv'
  <1> PICK r, P, eligible, sent : Schedules(r, P, eligible, sent, dropped)
    BY ProcessStages
  <1>1. /\ eligible \in SUBSET Tracks /\ sent \in SUBSET eligible
        /\ Stage(r, P)
        /\ \A t \in eligible : Eligible(r[t]) /\ r[t].gen > 0
        /\ tracks' = Scheduled(r, eligible, sent)
        /\ pending' = P \cup Tokens(r, sent)
        /\ P \subseteq OlderPending /\ HasRoom(P, sent)
        /\ generation' \in 0..MaxGeneration /\ generation <= generation'
        /\ \A t \in Tracks : r[t].gen <= generation'
        /\ KeepsApprovals(r, IdsIn(enrolled), dropped)
    BY DEF Schedules
  <1>3. RecognitionTypeOK /\ generation \in Nat /\ generation' \in Nat
    BY <1>1, RecognitionAssumption DEF RecognitionInv, RecognitionTypeOK
  <1>4. UNCHANGED <<enrolled, version, closed>> /\ gone' = dropped
    BY DEF Process
  <1>5. /\ Stage(tracks', pending')
        /\ \A t \in Tracks : tracks'[t].gen = r[t].gen
    <2>1. /\ Stage(Scheduled(r, eligible, sent), P \cup Tokens(r, sent))
          /\ \A t \in Tracks : Scheduled(r, eligible, sent)[t].gen = r[t].gen
      <3>1. /\ Stage(r, P) /\ RecognitionTypeOK
            /\ eligible \in SUBSET Tracks /\ sent \in SUBSET eligible
            /\ \A t \in eligible : Eligible(r[t]) /\ r[t].gen > 0
        BY <1>1, <1>3
      <3> QED
        BY <3>1, ScheduledStage
    <2> QED
      BY <1>1, <2>1
  <1>6. Stage(tracks, pending)'
    <2>1. \A t \in Tracks : Sound(t, tracks'[t])
      BY <1>5 DEF Stage
    <2>2. \A t \in Tracks : Sound(t, tracks[t])'
      BY <1>4, <2>1 DEF Sound
    <2> QED
      BY <1>4, <1>5, <2>2 DEF Stage, Waits, Distinct, Dated
  <1>7. RecognitionTypeOK'
    BY <1>1, <1>3, <1>4, <1>5 DEF RecognitionTypeOK, Stage
  <1>8. ASSUME NEW p \in pending' PROVE p.gen <= generation'
    <2>1. CASE p \in Tokens(r, sent)
      <3>1. PICK t \in sent : p = [track |-> t, gen |-> r[t].gen, age |-> 0, version |-> version,
                                   entries |-> enrolled, result |-> "none"]
        BY <2>1 DEF Tokens
      <3> QED
        BY <1>1, <3>1
    <2>2. CASE p \in P
      <3>1. p \in OlderPending
        BY <1>1, <2>2
      <3>2. p.gen <= generation
        BY <3>1, OlderStage DEF NoneIsNewer
      <3>3. p.gen \in Nat
        BY <1>1, <2>2, RecognitionAssumption DEF Stage, Token
      <3> QED
        BY <1>1, <1>3, <3>2, <3>3
    <2> QED
      BY <1>1, <2>1, <2>2
  <1>9. NoneIsNewer(tracks, pending)'
    BY <1>1, <1>5, <1>8 DEF NoneIsNewer
  <1> QED
    BY <1>6, <1>7, <1>9 DEF RecognitionInv

LEMMA RejectedFrameStep ==
    ASSUME RecognitionInv, RejectedFrame
    PROVE  RecognitionInv'
  <1>1. /\ tracks' = OlderTracks /\ pending' = OlderPending
        /\ UNCHANGED <<enrolled, version, generation, gone, closed>>
    BY DEF RejectedFrame
  <1>2. Stage(OlderTracks, OlderPending) /\ NoneIsNewer(OlderTracks, OlderPending)
    BY OlderStage
  <1>3. \A t \in Tracks : Sound(t, tracks[t])'
    <2>1. \A t \in Tracks : Sound(t, tracks'[t])
      BY <1>1, <1>2 DEF Stage
    <2> QED
      BY <1>1, <2>1 DEF Sound
  <1>4. Stage(tracks, pending)'
    BY <1>1, <1>2, <1>3 DEF Stage, Waits, Distinct, Dated
  <1>5. NoneIsNewer(tracks, pending)'
    BY <1>1, <1>2 DEF NoneIsNewer
  <1>6. RecognitionTypeOK'
    BY <1>1, <1>2 DEF RecognitionInv, RecognitionTypeOK, Stage
  <1> QED
    BY <1>4, <1>5, <1>6 DEF RecognitionInv

LEMMA CloseStep ==
    ASSUME RecognitionInv, Close
    PROVE  RecognitionInv'
  <1>1. /\ closed' = TRUE /\ pending' = {} /\ tracks' = [t \in Tracks |-> NoState]
        /\ UNCHANGED <<enrolled, version, generation, gone>>
    BY DEF Close
  <1>2. version \in Nat /\ version' = version /\ generation' \in Nat
    BY <1>1, RecognitionAssumption DEF RecognitionInv, RecognitionTypeOK
  <1>3. \A t \in Tracks : tracks'[t] = NoState
    BY <1>1
  <1>4. tracks' \in [Tracks -> Decision]
    BY <1>1, NoStateFacts
  <1>5. \A t \in Tracks : Sound(t, tracks[t])'
    <2>1. \A t \in Tracks : Sound(t, NoState)
      BY <1>2, NoStateFacts
    <2> QED
      BY <1>1, <1>3, <2>1 DEF Sound
  <1>6. (Waits(tracks, pending) /\ Distinct(pending) /\ Dated(pending))'
    BY <1>1, <1>3, NoStateFacts DEF Waits, Distinct, Dated
  <1>7. NoneIsNewer(tracks, pending)'
    BY <1>1, <1>2, <1>3, NoStateFacts DEF NoneIsNewer
  <1>8. RecognitionTypeOK'
    BY <1>1, <1>4 DEF RecognitionInv, RecognitionTypeOK
  <1> QED
    BY <1>1, <1>4, <1>5, <1>6, <1>7, <1>8 DEF RecognitionInv, Stage

LEMMA StepKeeps ==
    ASSUME RecognitionInv, [RecognitionNext]_recognitionVars
    PROVE  RecognitionInv'
  <1>1. ASSUME NEW entry \in Enrollable, Enroll(entry) \/ DeleteEntry(entry)
        PROVE  RecognitionInv'
    <2>1. enrolled \subseteq Enrollable
      BY DEF RecognitionInv, RecognitionTypeOK
    <2>2. /\ version < MaxVersion /\ version' = version + 1
          /\ enrolled' \subseteq Enrollable
          /\ UNCHANGED <<generation, tracks, pending, gone, closed>>
      BY <1>1, <2>1 DEF Enroll, DeleteEntry
    <2> QED
      BY <2>2, WhitelistStep
  <1>2. CASE Frame
    BY <1>2, FrameStep DEF Frame
  <1>3. CASE UNCHANGED recognitionVars
    <2>1. \A t \in Tracks : Sound(t, tracks[t]) => Sound(t, tracks[t])'
      BY <1>3 DEF recognitionVars, Sound
    <2> QED
      BY <1>3, <2>1 DEF recognitionVars, RecognitionInv, RecognitionTypeOK, Stage, Waits,
            Distinct, Dated, NoneIsNewer
  <1> QED
    BY <1>1, <1>2, <1>3, ResultStep, RejectedFrameStep, CloseStep DEF RecognitionNext

\* Every reachable state of a stream's recognition, for any tracks, entries
\* and limits, is one in which the tracks wait for exactly the pending tokens.
THEOREM RecognitionInvariant == RecognitionSpec => []RecognitionInv
  BY InitEstablishes, StepKeeps, PTL DEF RecognitionSpec

-----------------------------------------------------------------------------
(* What follows from it *)

\* Type correctness.
THEOREM RecognitionTyped == RecognitionSpec => []RecognitionTypeOK
  BY RecognitionInvariant, PTL DEF RecognitionInv

\* No track ever waits for a token that is gone, and no token is forgotten by
\* the track that awaits it: whatever expires, fails, is retired or replaced.
THEOREM RecognitionWaits == RecognitionSpec => []WaitingForAToken
  <1>1. RecognitionInv => WaitingForAToken
    BY DEF RecognitionInv, Stage, Sound, Waits, WaitingForAToken
  <1> QED
    BY <1>1, RecognitionInvariant, PTL

\* Nobody imports an entry under the id of another person's.
IdsNameOnePerson == \A a, b \in Enrollable : a[1] = b[1] => a[2] = b[2]

\* An approved face is that of an enrolled entry, if ids are not given to other
\* persons: decisions remember the id alone.
THEOREM RecognitionApproves ==
    ASSUME IdsNameOnePerson
    PROVE  RecognitionSpec => []ApprovedAreEnrolled
  <1>1. RecognitionInv => ApprovedAreEnrolled
    <2> SUFFICES ASSUME RecognitionInv, NEW t \in Tracks,
                        tracks[t].status = "whitelisted", tracks[t].matched \in IdsIn(enrolled)
                 PROVE  <<tracks[t].matched, PersonOf[t]>> \in enrolled
      BY DEF ApprovedAreEnrolled, Approved
    <2>1. <<tracks[t].matched, PersonOf[t]>> \in Enrollable
      BY DEF RecognitionInv, Stage, Sound
    <2>2. PICK entry \in enrolled : entry[1] = tracks[t].matched
      BY DEF IdsIn
    <2>3. entry \in Enrollable /\ entry \in EntryIds \X Persons
      BY RecognitionAssumption DEF RecognitionInv, RecognitionTypeOK
    <2>4. entry[2] = PersonOf[t]
      BY <2>1, <2>2, <2>3 DEF IdsNameOnePerson
    <2>5. entry = <<entry[1], entry[2]>>
      BY <2>3
    <2> QED
      BY <2>2, <2>4, <2>5
  <1> QED
    BY <1>1, RecognitionInvariant, PTL

\* A face that is down as no match for the present whitelist is in none of its
\* entries, however late its embedding came.
THEOREM RecognitionRejects == RecognitionSpec => []RejectedAreNotEnrolled
  <1>1. RecognitionInv => RejectedAreNotEnrolled
    BY DEF RecognitionInv, Stage, Sound, RejectedAreNotEnrolled
  <1> QED
    BY <1>1, RecognitionInvariant, PTL

LEMMA ApprovalsStay ==
    ASSUME RecognitionInv, [RecognitionNext]_recognitionVars, NEW t \in Tracks, Approved(t),
           tracks[t].matched \in IdsIn(enrolled'), t \notin gone', ~closed'
    PROVE  tracks'[t].status = "whitelisted" /\ tracks'[t].matched = tracks[t].matched
  <1> USE DEF Approved
  <1>1. CASE UNCHANGED tracks
    BY <1>1
  <1>2. CASE Frame
    <2>1. PICK dropped \in SUBSET Tracks, timeout \in 1..(AgeCap + 1) :
               \E visible \in SUBSET (Tracks \ dropped) : \E offered \in SUBSET visible :
                  Process(visible, offered, dropped, timeout)
      BY <1>2 DEF Frame
    <2>2. PICK visible \in SUBSET (Tracks \ dropped) : \E offered \in SUBSET visible :
                  Process(visible, offered, dropped, timeout)
      BY <2>1
    <2>3. PICK offered \in SUBSET visible : Process(visible, offered, dropped, timeout)
      BY <2>2
    <2>4. PICK r, P, eligible, sent : Schedules(r, P, eligible, sent, dropped)
      BY <2>3, ProcessStages
    <2>5. t \in Tracks \ dropped
      BY <2>3 DEF Process
    <2>6. r[t].status = "whitelisted" /\ r[t].matched = tracks[t].matched
      BY <2>4, <2>5 DEF Schedules, KeepsApprovals
    <2>7. t \notin eligible
      BY <2>4, <2>6 DEF Schedules, Eligible
    <2>8. tracks'[t] = r[t]
      BY <2>4, <2>7 DEF Schedules, Scheduled
    <2> QED
      BY <2>6, <2>8
  <1>3. CASE RejectedFrame
    BY <1>3, OlderStage DEF RejectedFrame
  <1>4. CASE Close
    BY <1>4 DEF Close
  <1> QED
    BY <1>1, <1>2, <1>3, <1>4 DEF RecognitionNext, Enroll, DeleteEntry, ResultArrives, recognitionVars

\* Action property: an approval is kept until its entry is deleted, the tracker
\* gives up the track, or the stream ends.
THEOREM RecognitionKeepsApprovals == RecognitionSpec => ApprovalIsKept
  <1>1. RecognitionInv /\ [RecognitionNext]_recognitionVars
          => [\A t \in Tracks :
                /\ Approved(t)
                /\ tracks[t].matched \in IdsIn(enrolled')
                /\ t \notin gone'
                /\ ~closed'
                => tracks'[t].status = "whitelisted" /\ tracks'[t].matched = tracks[t].matched
             ]_recognitionVars
    BY ApprovalsStay
  <1> QED
    BY <1>1, RecognitionInvariant, PTL DEF RecognitionSpec, ApprovalIsKept

-----------------------------------------------------------------------------
(* The bound of _pending *)

Bounded == IsFiniteSet(pending) /\ Cardinality(pending) <= MaxPending

LEMMA OlderIsNoMore ==
    ASSUME IsFiniteSet(pending), NEW P \in SUBSET OlderPending
    PROVE  IsFiniteSet(P) /\ Cardinality(P) <= Cardinality(pending)
  <1> DEFINE f == [p \in pending |-> [p EXCEPT !.age = Older(@, AgeCap)]]
  <1>1. f \in Surjection(pending, OlderPending)
    BY DEF Surjection, OlderPending
  <1>2. IsFiniteSet(OlderPending) /\ Cardinality(OlderPending) <= Cardinality(pending)
    <2> HIDE DEF f
    <2> QED
      BY <1>1, FS_Surjection
  <1>3. IsFiniteSet(P) /\ Cardinality(P) <= Cardinality(OlderPending)
    BY <1>2, FS_Subset
  <1>4. Cardinality(pending) \in Nat /\ Cardinality(P) \in Nat /\ Cardinality(OlderPending) \in Nat
    BY <1>2, <1>3, FS_CardinalityType
  <1> QED
    BY <1>2, <1>3, <1>4

LEMMA TokensAreNoMore ==
    ASSUME NEW r, NEW sent \in SUBSET Tracks
    PROVE  /\ IsFiniteSet(sent) /\ IsFiniteSet(Tokens(r, sent))
           /\ Cardinality(Tokens(r, sent)) <= Cardinality(sent)
  <1> DEFINE f == [t \in sent |-> [track |-> t, gen |-> r[t].gen, age |-> 0, version |-> version,
                                  entries |-> enrolled, result |-> "none"]]
  <1>1. f \in Surjection(sent, Tokens(r, sent))
    BY DEF Surjection, Tokens
  <1>2. IsFiniteSet(sent)
    BY FS_Subset, RecognitionAssumption
  <1> HIDE DEF f
  <1> QED
    BY <1>1, <1>2, FS_Surjection

LEMMA BoundedStep ==
    ASSUME RecognitionInv, Bounded, [RecognitionNext]_recognitionVars
    PROVE  Bounded'
  <1> USE DEF Bounded
  <1>1. MaxPending \in Nat /\ Cardinality(pending) \in Nat
    BY RecognitionAssumption, FS_CardinalityType
  <1>2. ASSUME NEW P \in SUBSET OlderPending, pending' = P
        PROVE  Bounded'
    <2>1. IsFiniteSet(P) /\ Cardinality(P) <= Cardinality(pending)
      BY OlderIsNoMore
    <2>2. Cardinality(P) \in Nat
      BY <2>1, FS_CardinalityType
    <2> QED
      BY <1>1, <1>2, <2>1, <2>2
  <1>3. CASE UNCHANGED pending
    BY <1>3
  <1>4. CASE Frame
    <2>1. PICK dropped \in SUBSET Tracks, timeout \in 1..(AgeCap + 1) :
               \E visible \in SUBSET (Tracks \ dropped) : \E offered \in SUBSET visible :
                  Process(visible, offered, dropped, timeout)
      BY <1>4 DEF Frame
    <2>2. PICK visible \in SUBSET (Tracks \ dropped) : \E offered \in SUBSET visible :
                  Process(visible, offered, dropped, timeout)
      BY <2>1
    <2>3. PICK offered \in SUBSET visible : Process(visible, offered, dropped, timeout)
      BY <2>2
    <2>4. PICK r, P, eligible, sent : Schedules(r, P, eligible, sent, dropped)
      BY <2>3, ProcessStages
    <2>5. /\ sent \in SUBSET Tracks /\ P \in SUBSET OlderPending
          /\ pending' = P \cup Tokens(r, sent) /\ HasRoom(P, sent)
      BY <2>4 DEF Schedules
    <2>6. CASE sent = {}
      <3>1. Tokens(r, sent) = {}
        BY <2>6 DEF Tokens
      <3> QED
        BY <1>2, <2>5, <3>1
    <2>7. CASE sent # {}
      <3>1. Cardinality(P) + Cardinality(sent) <= MaxPending
        BY <2>5, <2>7 DEF HasRoom
      <3>2. IsFiniteSet(P)
        BY <2>5, OlderIsNoMore
      <3>3. /\ IsFiniteSet(sent) /\ IsFiniteSet(Tokens(r, sent))
            /\ Cardinality(Tokens(r, sent)) <= Cardinality(sent)
        BY <2>5, TokensAreNoMore
      <3>4. /\ IsFiniteSet(pending')
            /\ Cardinality(pending') = Cardinality(P) + Cardinality(Tokens(r, sent))
                                          - Cardinality(P \cap Tokens(r, sent))
        BY <2>5, <3>2, <3>3, FS_Union
      <3>5. IsFiniteSet(P \cap Tokens(r, sent))
        BY <3>2, FS_Subset
      <3>6. /\ Cardinality(P) \in Nat /\ Cardinality(sent) \in Nat
            /\ Cardinality(Tokens(r, sent)) \in Nat
            /\ Cardinality(P \cap Tokens(r, sent)) \in Nat
        BY <3>2, <3>3, <3>5, FS_CardinalityType
      <3> QED
        BY <1>1, <3>1, <3>3, <3>4, <3>6
    <2> QED
      BY <2>6, <2>7
  <1>5. CASE RejectedFrame
    BY <1>2, <1>5 DEF RejectedFrame
  <1>6. CASE Close
    BY <1>1, <1>6, FS_EmptySet DEF Close
  <1>7. ASSUME NEW p \in pending, NEW result, ResultArrives(p, result)
        PROVE  Bounded'
    <2>1. PICK q : pending' = (pending \ {p}) \cup {q}
      BY <1>7 DEF ResultArrives
    <2>2. IsFiniteSet(pending \ {p}) /\ Cardinality(pending \ {p}) = Cardinality(pending) - 1
      BY FS_RemoveElement
    <2>3. IsFiniteSet(pending') /\ Cardinality(pending') <= Cardinality(pending \ {p}) + 1
      <3>1. IsFiniteSet(pending')
        BY <2>1, <2>2, FS_AddElement
      <3>2. Cardinality(pending') = IF q \in pending \ {p} THEN Cardinality(pending \ {p})
                                    ELSE Cardinality(pending \ {p}) + 1
        BY <2>1, <2>2, FS_AddElement
      <3>3. Cardinality(pending \ {p}) \in Nat
        BY <2>2, FS_CardinalityType
      <3> QED
        BY <3>1, <3>2, <3>3
    <2>4. Cardinality(pending') \in Nat
      BY <2>3, FS_CardinalityType
    <2> QED
      BY <1>1, <2>2, <2>3, <2>4
  <1> QED
    BY <1>3, <1>4, <1>5, <1>6, <1>7
       DEF RecognitionNext, Enroll, DeleteEntry, recognitionVars

\* max_pending_per_stream is never passed, though tokens of retired tracks and
\* of earlier incarnations stay in _pending until they are answered or expire.
THEOREM RecognitionPending == RecognitionSpec => []PendingIsBounded
  <1>1. RecognitionInit => Bounded
    BY RecognitionAssumption, FS_EmptySet DEF RecognitionInit, Bounded
  <1>2. Bounded => PendingIsBounded
    BY DEF Bounded, PendingIsBounded
  <1> QED
    BY <1>1, <1>2, BoundedStep, RecognitionInvariant, PTL DEF RecognitionSpec

-----------------------------------------------------------------------------
(* FaceTracks *)

LEMMA FaceTracksInitial == FaceTracksInit => FaceTracksInv
  <1> SUFFICES ASSUME FaceTracksInit PROVE FaceTracksInv
    OBVIOUS
  <1>1. FaceTracksTypeOK
    BY FaceTracksAssumption DEF FaceTracksInit, FaceTracksTypeOK, NoMask, NoIdentity, NoMetadata,
       Nothing, Slack
  <1>2. EntriesHaveKeys /\ UnseenIsGap /\ TracksAreObjects
    BY DEF FaceTracksInit, EntriesHaveKeys, UnseenIsGap, TracksAreObjects, InTracker
  <1> QED
    BY <1>1, <1>2 DEF FaceTracksInv

\* A stream that ended keeps nothing of its tracks.
LEMMA ClearedInv == FaceTracksTypeOK /\ Cleared /\ motion' \in {"none", "running", "done"}
                    /\ {extractor', renderer'} \subseteq {"unloaded", "ready", "broken"}
                    => FaceTracksInv'
  <1> SUFFICES ASSUME FaceTracksTypeOK, Cleared, motion' \in {"none", "running", "done"},
                      {extractor', renderer'} \subseteq {"unloaded", "ready", "broken"}
               PROVE  FaceTracksInv'
    OBVIOUS
  <1>1. FaceTracksTypeOK'
    BY FaceTracksAssumption DEF Cleared, FaceTracksTypeOK, NoMask, NoIdentity, NoMetadata,
       Nothing, Slack
  <1>2. EntriesHaveKeys' /\ UnseenIsGap' /\ TracksAreObjects'
    BY DEF Cleared, EntriesHaveKeys, UnseenIsGap, TracksAreObjects, InTracker
  <1> QED
    BY <1>1, <1>2 DEF FaceTracksInv

LEMMA AgedFacts ==
    ASSUME NEW cap \in Nat, NEW age \in 0..cap
    PROVE  Aged(age, cap) \in 0..cap /\ Aged(age, cap) <= age + 1
           /\ (Aged(age, cap) < cap => Aged(age, cap) = age + 1)
  BY DEF Aged

\* What a request does to the identity caches.
LEMMA RequestAges ==
    ASSUME FaceTracksInv, NextRequest, NEW t \in Faces
    PROVE  /\ identity'[t] \in [key : Keys \cup {NoKey}, unseen : 0..(Retention + 1)]
           /\ metadata'[t] \in [state : {"none", "known", "failed"}, age : 0..Refresh,
                                unseen : 0..(Retention + 1)]
           /\ identity'[t] # NoIdentity =>
                 /\ identity[t] # NoIdentity
                 /\ identity'[t].key = identity[t].key
                 /\ identity'[t].unseen <= identity[t].unseen + 1
  <1>1. identity[t] \in [key : Keys \cup {NoKey}, unseen : 0..(Retention + 1)]
    BY DEF FaceTracksInv, FaceTracksTypeOK
  <1>2. metadata[t] \in [state : {"none", "known", "failed"}, age : 0..Refresh,
                         unseen : 0..(Retention + 1)]
    BY DEF FaceTracksInv, FaceTracksTypeOK
  <1>3. Retention + 1 \in Nat /\ Refresh \in Nat
    BY FaceTracksAssumption
  <1>4. /\ identity'[t] \in [key : Keys \cup {NoKey}, unseen : 0..(Retention + 1)]
        /\ identity'[t] # NoIdentity =>
              /\ identity[t] # NoIdentity
              /\ identity'[t].key = identity[t].key
              /\ identity'[t].unseen <= identity[t].unseen + 1
    <2>1. CASE identity[t] = NoIdentity
      <3>1. identity'[t] = NoIdentity
        BY <2>1 DEF NextRequest
      <3> QED
        BY <1>1, <2>1, <3>1
    <2>2. CASE identity[t] # NoIdentity
      <3>1. identity'[t] = [identity[t] EXCEPT !.unseen = Aged(identity[t].unseen, Retention + 1)]
        BY <2>2 DEF NextRequest
      <3>2. identity[t].unseen \in 0..(Retention + 1)
        BY <1>1
      <3>3. /\ Aged(identity[t].unseen, Retention + 1) \in 0..(Retention + 1)
            /\ Aged(identity[t].unseen, Retention + 1) <= identity[t].unseen + 1
        BY <1>3, <3>2, AgedFacts
      <3> QED
        BY <1>1, <2>2, <3>1, <3>3
    <2> QED
      BY <2>1, <2>2
  <1>6. metadata'[t] \in [state : {"none", "known", "failed"}, age : 0..Refresh,
                          unseen : 0..(Retention + 1)]
    <2>1. CASE metadata[t] = NoMetadata
      BY <1>2, <2>1 DEF NextRequest, NoMetadata
    <2>2. CASE metadata[t] # NoMetadata
      <3>1. metadata'[t] = [metadata[t] EXCEPT !.age = Aged(metadata[t].age, Refresh),
                                              !.unseen = Aged(metadata[t].unseen, Retention + 1)]
        BY <2>2 DEF NextRequest
      <3>2. Aged(metadata[t].age, Refresh) \in 0..Refresh
        BY <1>2, <1>3, AgedFacts
      <3>3. Aged(metadata[t].unseen, Retention + 1) \in 0..(Retention + 1)
        BY <1>2, <1>3, AgedFacts
      <3> QED
        BY <1>2, <3>1, <3>2, <3>3
    <2> QED
      BY <2>1, <2>2
  <1> QED
    BY <1>4, <1>6

LEMMA RejectedInv == FaceTracksInv /\ RequestRejected => FaceTracksInv'
  <1> SUFFICES ASSUME FaceTracksInv, RequestRejected PROVE FaceTracksInv'
    OBVIOUS
  <1> USE DEF RequestRejected, trackerVars, runtimeVars
  <1>0. Slack \in Nat /\ Slack + 1 \in Nat
    BY FaceTracksAssumption DEF Slack
  <1>1. ASSUME NEW t \in Faces
        PROVE  /\ skipped'[t] \in 0..(Slack + 1)
               /\ InTracker(t) /\ skipped'[t] <= Slack =>
                     skipped[t] <= Slack /\ skipped'[t] = skipped[t] + 1
    <2>1. skipped[t] \in 0..(Slack + 1)
      BY DEF FaceTracksInv, FaceTracksTypeOK
    <2>2. skipped'[t] = IF InTracker(t) THEN Aged(skipped[t], Slack + 1) ELSE 0
      OBVIOUS
    <2>3. CASE InTracker(t)
      <3>1. skipped'[t] = Aged(skipped[t], Slack + 1)
        BY <2>2, <2>3
      <3>2. /\ skipped'[t] \in 0..(Slack + 1)
            /\ skipped'[t] < Slack + 1 => skipped'[t] = skipped[t] + 1
        BY <1>0, <2>1, <3>1, AgedFacts
      <3> QED
        BY <1>0, <2>1, <3>2
    <2>4. CASE ~InTracker(t)
      BY <1>0, <2>2, <2>4
    <2> QED
      BY <2>3, <2>4
  <1>2. FaceTracksTypeOK'
    <2>1. identity' \in [Faces -> [key : Keys \cup {NoKey}, unseen : 0..(Retention + 1)]]
      BY RequestAges DEF NextRequest
    <2>2. metadata' \in [Faces -> [state : {"none", "known", "failed"}, age : 0..Refresh,
                                   unseen : 0..(Retention + 1)]]
      BY RequestAges DEF NextRequest
    <2>3. skipped' \in [Faces -> 0..(Slack + 1)]
      BY <1>1
    <2> QED
      BY <2>1, <2>2, <2>3 DEF FaceTracksInv, FaceTracksTypeOK
  <1>3. EntriesHaveKeys'
    BY RequestAges DEF FaceTracksInv, EntriesHaveKeys
  <1>4. UnseenIsGap'
    <2> SUFFICES ASSUME NEW t \in Faces, InTracker(t)', identity'[t] # NoIdentity,
                        skipped'[t] <= Slack
                 PROVE  identity'[t].unseen <= gap'[t] + skipped'[t] + UnderWay'
      BY DEF UnseenIsGap
    <2>1. InTracker(t) /\ gap'[t] = gap[t] /\ UnderWay = 0 /\ UnderWay' = 0
      BY DEF InTracker, UnderWay
    <2>2. identity[t] # NoIdentity /\ identity'[t].unseen <= identity[t].unseen + 1
      BY RequestAges
    <2>3. skipped[t] <= Slack /\ skipped'[t] = skipped[t] + 1
      BY <1>1, <2>1
    <2>4. identity[t].unseen <= gap[t] + skipped[t] + 0
      BY <2>1, <2>2, <2>3 DEF FaceTracksInv, UnseenIsGap
    <2>5. /\ identity[t].unseen \in Nat /\ identity'[t].unseen \in Nat
          /\ gap[t] \in Nat /\ skipped[t] \in Nat
      BY <1>2 DEF FaceTracksInv, FaceTracksTypeOK
    <2> QED
      BY <2>1, <2>2, <2>3, <2>4, <2>5
  <1>5. TracksAreObjects'
    BY DEF TracksAreObjects
  <1> QED
    BY <1>2, <1>3, <1>4, <1>5 DEF FaceTracksInv

LEMMA BeginsInv == FaceTracksInv /\ FrameBegins => FaceTracksInv'
  <1> SUFFICES ASSUME FaceTracksInv, FrameBegins PROVE FaceTracksInv'
    OBVIOUS
  <1> USE DEF FrameBegins, runtimeVars
  <1>1. FaceTracksTypeOK'
    <2>1. identity' \in [Faces -> [key : Keys \cup {NoKey}, unseen : 0..(Retention + 1)]]
      BY RequestAges DEF NextRequest
    <2>2. metadata' \in [Faces -> [state : {"none", "known", "failed"}, age : 0..Refresh,
                                   unseen : 0..(Retention + 1)]]
      BY RequestAges DEF NextRequest
    <2> QED
      BY <2>1, <2>2 DEF FaceTracksInv, FaceTracksTypeOK, Nothing
  <1>2. EntriesHaveKeys'
    BY RequestAges DEF FaceTracksInv, EntriesHaveKeys
  <1>3. UnseenIsGap'
    <2> SUFFICES ASSUME NEW t \in Faces, InTracker(t)', identity'[t] # NoIdentity,
                        skipped'[t] <= Slack
                 PROVE  identity'[t].unseen <= gap'[t] + skipped'[t] + UnderWay'
      BY DEF UnseenIsGap
    <2>1. InTracker(t) /\ UnderWay = 0 /\ UnderWay' = 1
      BY DEF InTracker, UnderWay
    <2>2. identity[t] # NoIdentity /\ identity'[t].unseen <= identity[t].unseen + 1
      BY RequestAges
    <2>3. identity[t].unseen <= gap[t] + skipped[t] + 0
      BY <2>1, <2>2 DEF FaceTracksInv, UnseenIsGap
    <2>4. /\ identity[t].unseen \in Nat /\ identity'[t].unseen \in Nat
          /\ gap[t] \in Nat /\ skipped[t] \in Nat
      BY <1>1 DEF FaceTracksInv, FaceTracksTypeOK
    <2> QED
      BY <2>1, <2>2, <2>3, <2>4
  <1>4. TracksAreObjects'
    BY DEF TracksAreObjects
  <1> QED
    BY <1>1, <1>2, <1>3, <1>4 DEF FaceTracksInv

\* The steps between a request and its answer that touch no track.
LEMMA MotionInv == FaceTracksInv /\ (MotionEnds \/ Predicted) => FaceTracksInv'
  <1> SUFFICES ASSUME FaceTracksInv, MotionEnds \/ Predicted PROVE FaceTracksInv'
    OBVIOUS
  <1> USE DEF faceVars, runtimeVars
  <1>1. FaceTracksTypeOK'
    BY DEF MotionEnds, Predicted, trackerVars, FaceTracksInv, FaceTracksTypeOK
  <1>2. EntriesHaveKeys'
    BY DEF MotionEnds, Predicted, FaceTracksInv, EntriesHaveKeys
  <1>3. CASE MotionEnds
    BY <1>1, <1>2, <1>3
       DEF MotionEnds, FaceTracksInv, UnseenIsGap, TracksAreObjects, InTracker, UnderWay, Visible
  <1>4. CASE Predicted
    BY <1>1, <1>2, <1>4
       DEF Predicted, trackerVars, FaceTracksInv, UnseenIsGap, TracksAreObjects, InTracker,
           UnderWay, Visible
  <1> QED
    BY <1>3, <1>4

LEMMA TrackerInv == FaceTracksInv /\ TrackerUpdates => FaceTracksInv'
  <1> SUFFICES ASSUME FaceTracksInv, TrackerUpdates PROVE FaceTracksInv'
    OBVIOUS
  <1>1. PICK matched \in SUBSET {t \in Faces : InTracker(t)},
             born \in SUBSET {t \in Faces : life[t] = "new"},
             bare \in SUBSET Faces :
           bare \subseteq matched \cup born /\ Associated(matched, born, bare)
    BY DEF TrackerUpdates
  <1> DEFINE current == matched \cup born
             lost == Lost(matched)
  <1>3. /\ life' = [t \in Faces |-> IF t \in current THEN "tracked"
                                     ELSE IF t \in lost THEN "lost"
                                     ELSE IF InTracker(t) THEN "removed"
                                     ELSE life[t]]
        /\ gap' = [t \in Faces |-> IF t \in lost THEN gap[t] + 1 ELSE 0]
        /\ mask' = [t \in Faces |-> MaskAfter(t, current \ bare)]
        /\ covered' \in SUBSET Holdable(lost)
        /\ objects' = [t \in Faces |->
              IF t \in bare THEN "bare"
              ELSE IF t \in current THEN "detected"
              ELSE IF t \in Holdable(lost) \ covered' THEN "held"
              ELSE "absent"]
    BY <1>1 DEF Associated
  <1>4. /\ phase = "tracking" /\ phase' = "composing" /\ motion' = "none"
        /\ UNCHANGED <<identity, metadata, skipped, swapping, extractor, renderer, approved, shown>>
    BY DEF TrackerUpdates, faceVars, runtimeVars
  <1>5. lost \subseteq Faces /\ bare \subseteq current
        /\ \A t \in lost : InTracker(t) /\ gap[t] < TrackBuffer
    BY <1>1 DEF Lost
  <1>6. \A t \in Faces : mask[t] \in 0..NoMask /\ gap[t] \in 0..TrackBuffer
        /\ life[t] \in {"new", "tracked", "lost", "removed"}
    BY DEF FaceTracksInv, FaceTracksTypeOK
  <1>7. MaskFrames \in Nat \ {0} /\ TrackBuffer \in Nat \ {0} /\ HoldFrames \in 0..1
        /\ NoMask = MaskFrames + 1
    BY FaceTracksAssumption DEF NoMask
  <1> HIDE DEF current, lost
  <1>8. \A t \in Faces : mask'[t] \in 0..NoMask
    BY <1>3, <1>6, <1>7 DEF MaskAfter
  <1>9. FaceTracksTypeOK'
    <2>1. life' \in [Faces -> {"new", "tracked", "lost", "removed"}]
      BY <1>3, <1>6
    <2>2. gap' \in [Faces -> 0..TrackBuffer]
      BY <1>3, <1>5, <1>6, <1>7
    <2>3. mask' \in [Faces -> 0..NoMask]
      BY <1>3, <1>8
    <2>4. objects' \in [Faces -> {"absent", "detected", "bare", "held"}]
      BY <1>3
    <2>5. covered' \subseteq Faces
      BY <1>3, <1>5 DEF Holdable
    <2> QED
      BY <1>4, <2>1, <2>2, <2>3, <2>4, <2>5 DEF FaceTracksInv, FaceTracksTypeOK, NoMask, Slack
  <1>10. EntriesHaveKeys'
    BY <1>4 DEF FaceTracksInv, EntriesHaveKeys
  <1>11. UnseenIsGap'
    <2> SUFFICES ASSUME NEW t \in Faces, InTracker(t)', identity'[t] # NoIdentity,
                        skipped'[t] <= Slack, t \notin Visible'
                 PROVE  identity'[t].unseen <= gap'[t] + skipped'[t] + UnderWay'
      BY <1>4 DEF UnseenIsGap
    <2>1. t \notin current
      BY <1>3, <1>5 DEF Visible
    <2>2. t \in lost
      BY <1>3, <2>1 DEF InTracker
    <2>3. InTracker(t) /\ gap'[t] = gap[t] + 1 /\ UnderWay = 1 /\ UnderWay' = 0
      BY <1>3, <1>4, <1>5, <2>2 DEF UnderWay
    <2>4. identity[t].unseen <= gap[t] + skipped[t] + 1
      BY <1>4, <2>3 DEF FaceTracksInv, UnseenIsGap
    <2>5. identity[t].unseen \in Nat /\ gap[t] \in Nat /\ skipped[t] \in Nat
      BY DEF FaceTracksInv, FaceTracksTypeOK
    <2> QED
      BY <1>4, <2>3, <2>4, <2>5
  <1>12. TracksAreObjects'
    <2> SUFFICES ASSUME NEW t \in Faces
                 PROVE  /\ life'[t] = "tracked" => t \in Visible'
                        /\ life'[t] = "lost" /\ mask'[t] = HoldFrames /\ t \notin covered'
                              => t \in Visible'
      BY DEF TracksAreObjects
    <2>1. CASE t \in current
      BY <1>3, <2>1 DEF Visible
    <2>2. CASE t \notin current
      <3> SUFFICES ASSUME life'[t] = "lost" \/ life'[t] = "tracked", life'[t] = "lost" => 
                              mask'[t] = HoldFrames /\ t \notin covered'
                   PROVE  t \in Visible'
        BY DEF Visible
      <3>1. t \in lost
        BY <1>3, <2>2, <1>6 DEF InTracker
      <3>2. life'[t] = "lost"
        BY <1>3, <2>2, <3>1
      <3>3. mask[t] + 1 = HoldFrames /\ HoldFrames # 0
        BY <1>3, <1>6, <1>7, <2>2, <3>2, <1>5 DEF MaskAfter
      <3>4. t \in Holdable(lost)
        BY <3>1, <3>3 DEF Holdable
      <3> QED
        BY <1>3, <1>5, <2>2, <3>2, <3>4 DEF Visible
    <2> QED
      BY <2>1, <2>2
  <1> QED
    BY <1>9, <1>10, <1>11, <1>12 DEF FaceTracksInv

\* What the composition of a frame leaves in the caches.
LEMMA CachesAfter ==
    ASSUME FaceTracksInv, NEW eligible \in SUBSET Visible,
           Attributes(eligible), Identities(Described(eligible)), NEW t \in Faces
    PROVE  /\ identity'[t] \in [key : Keys \cup {NoKey}, unseen : 0..(Retention + 1)]
           /\ metadata'[t] \in [state : {"none", "known", "failed"}, age : 0..Refresh,
                                unseen : 0..(Retention + 1)]
           /\ identity'[t] # NoIdentity => identity'[t].key \in Keys
           /\ t \in Visible => identity'[t].unseen = 0
           /\ t \notin Visible => identity'[t] = Forgotten(identity[t], t, NoIdentity)
           /\ t \in Visible /\ identity[t] # NoIdentity => identity'[t].key = identity[t].key
  <1>1. identity[t] \in [key : Keys \cup {NoKey}, unseen : 0..(Retention + 1)]
    BY DEF FaceTracksInv, FaceTracksTypeOK
  <1>2. metadata[t] \in [state : {"none", "known", "failed"}, age : 0..Refresh,
                         unseen : 0..(Retention + 1)]
    BY DEF FaceTracksInv, FaceTracksTypeOK
  <1>3. Retention + 1 \in Nat /\ Refresh \in Nat
    BY FaceTracksAssumption
  <1>4. identity[t] # NoIdentity => identity[t].key \in Keys
    BY DEF FaceTracksInv, EntriesHaveKeys
  <1>5. metadata'[t] \in [state : {"none", "known", "failed"}, age : 0..Refresh,
                          unseen : 0..(Retention + 1)]
    <2>1. NoMetadata \in [state : {"none", "known", "failed"}, age : 0..Refresh,
                          unseen : 0..(Retention + 1)]
      BY <1>3 DEF NoMetadata
    <2>2. Forgotten(metadata[t], t, NoMetadata)
             \in [state : {"none", "known", "failed"}, age : 0..Refresh,
                  unseen : 0..(Retention + 1)]
      BY <1>2, <1>3, <2>1 DEF Forgotten
    <2> QED
      BY <1>3, <2>2 DEF Attributes, MetadataAfter
  <1> DEFINE entry == Forgotten(identity[t], t, NoIdentity)
  <1>6. PICK chosen \in [Described(eligible) -> Keys] : identity' = IdentitiesAfter(Described(eligible), chosen)
    BY DEF Identities
  <1>7. Described(eligible) \subseteq Visible
    BY DEF Described
  <1>8. identity'[t] = IF t \notin Described(eligible) THEN entry
                       ELSE IF entry = NoIdentity THEN [key |-> chosen[t], unseen |-> 0]
                       ELSE entry
    BY <1>6 DEF IdentitiesAfter
  <1>9. /\ entry \in [key : Keys \cup {NoKey}, unseen : 0..(Retention + 1)]
        /\ entry # NoIdentity => entry.key \in Keys
        /\ t \in Visible => entry.unseen = 0
        /\ t \in Visible /\ identity[t] # NoIdentity => entry.key = identity[t].key
    <2>1. NoIdentity \in [key : Keys \cup {NoKey}, unseen : 0..(Retention + 1)]
          /\ NoIdentity.unseen = 0 /\ NoIdentity.key = NoKey
      BY <1>3 DEF NoIdentity
    <2>2. CASE identity[t] = NoIdentity
      BY <2>1, <2>2 DEF Forgotten
    <2>3. CASE identity[t] # NoIdentity /\ t \in Visible
      <3>1. entry = [identity[t] EXCEPT !.unseen = 0]
        BY <2>3 DEF Forgotten
      <3> QED
        BY <1>1, <1>3, <1>4, <2>3, <3>1
    <2>4. CASE identity[t] # NoIdentity /\ t \notin Visible
      BY <1>1, <1>4, <2>1, <2>4 DEF Forgotten
    <2> QED
      BY <2>2, <2>3, <2>4
  <1> HIDE DEF entry
  <1>10. NoKey \notin Keys
    BY FaceTracksAssumption
  <1>11. entry = NoIdentity => entry.key \notin Keys
    BY <1>10 DEF NoIdentity
  <1>12. CASE t \notin Described(eligible) \/ entry # NoIdentity
    <2>1. identity'[t] = entry
      BY <1>8, <1>12
    <2> QED
      BY <1>5, <1>9, <2>1 DEF entry
  <1>13. CASE t \in Described(eligible) /\ entry = NoIdentity
    <2>1. identity'[t] = [key |-> chosen[t], unseen |-> 0] /\ chosen[t] \in Keys
      BY <1>6, <1>8, <1>13
    <2>2. t \in Visible
      BY <1>7, <1>13
    <2>3. identity[t] = NoIdentity
      BY <1>4, <1>9, <1>11, <1>13, <2>2
    <2> QED
      BY <1>3, <1>5, <2>1, <2>2, <2>3
  <1> QED
    BY <1>12, <1>13

LEMMA ReplaceableVisible == ASSUME NEW white, NEW small PROVE Replaceable(white, small) \in SUBSET Visible
  BY DEF Replaceable

LEMMA LoadedType ==
    ASSUME NEW model \in {"unloaded", "ready", "broken"}, NEW needed \in BOOLEAN
    PROVE  Loaded(model, needed) \subseteq {"unloaded", "ready", "broken"}
  BY DEF Loaded

LEMMA ComposedInv == FaceTracksInv /\ Composed => FaceTracksInv'
  <1> SUFFICES ASSUME FaceTracksInv, Composed PROVE FaceTracksInv'
    OBVIOUS
  <1>1. PICK white \in SUBSET Visible, small \in SUBSET Visible :
          LET eligible == Replaceable(white, small)
          IN  /\ Attributes(eligible)
              /\ Identities(Described(eligible))
              /\ \E posed \in SUBSET Described(eligible) : Painted(white, posed)
              /\ approved' = white
    BY DEF Composed
  <1> DEFINE eligible == Replaceable(white, small)
  <1>2. /\ phase = "composing" /\ phase' = "idle"
        /\ skipped' = [t \in Faces |-> IF t \in Visible THEN 0 ELSE skipped[t]]
        /\ UNCHANGED <<motion, life, gap, mask, objects, covered, swapping>>
    BY DEF Composed, trackerVars
  <1>3. eligible \in SUBSET Visible /\ Visible \subseteq Faces
    BY ReplaceableVisible DEF Visible
  <1>4. PICK posed \in SUBSET Described(eligible) : Painted(white, posed)
    BY <1>1
  <1>5. Attributes(eligible) /\ Identities(Described(eligible))
    BY <1>1
  <1> HIDE DEF eligible
  <1>6. FaceTracksTypeOK'
    <2>1. identity' \in [Faces -> [key : Keys \cup {NoKey}, unseen : 0..(Retention + 1)]]
      <3>1. \A t \in Faces :
               identity'[t] \in [key : Keys \cup {NoKey}, unseen : 0..(Retention + 1)]
        BY <1>3, <1>5, CachesAfter
      <3>2. identity' = [t \in Faces |-> identity'[t]]
        BY <1>5 DEF Identities, IdentitiesAfter
      <3> QED
        BY <3>1, <3>2
    <2>2. metadata' \in [Faces -> [state : {"none", "known", "failed"}, age : 0..Refresh,
                                   unseen : 0..(Retention + 1)]]
      <3>1. \A t \in Faces :
               metadata'[t] \in [state : {"none", "known", "failed"}, age : 0..Refresh,
                                 unseen : 0..(Retention + 1)]
        BY <1>3, <1>5, CachesAfter
      <3>2. metadata' = [t \in Faces |-> metadata'[t]]
        BY <1>5 DEF Attributes, MetadataAfter
      <3> QED
        BY <3>1, <3>2
    <2>3. skipped' \in [Faces -> 0..(Slack + 1)]
      BY <1>2, FaceTracksAssumption DEF FaceTracksInv, FaceTracksTypeOK, Slack
    <2>4. extractor' \in {"unloaded", "ready", "broken"}
      BY <1>5, LoadedType DEF Attributes, FaceTracksInv, FaceTracksTypeOK
    <2>5. (swapping /\ posed # {}) \in BOOLEAN
      BY DEF FaceTracksInv, FaceTracksTypeOK
    <2>6. renderer' \in {"unloaded", "ready", "broken"}
      BY <1>4, <2>5, LoadedType DEF Painted, FaceTracksInv, FaceTracksTypeOK
    <2>7. shown' \in [Faces -> {"absent", "blurred", "swapped", "plain"}]
      BY <1>4 DEF Painted
    <2>8. approved' \subseteq Faces
      BY <1>1, <1>3
    <2> QED
      BY <1>2, <2>1, <2>2, <2>3, <2>4, <2>6, <2>7, <2>8 DEF FaceTracksInv, FaceTracksTypeOK, Slack
  <1>7. EntriesHaveKeys'
    BY <1>3, <1>5, CachesAfter DEF EntriesHaveKeys
  <1>8. UnseenIsGap'
    <2> SUFFICES ASSUME NEW t \in Faces, InTracker(t)', identity'[t] # NoIdentity,
                        skipped'[t] <= Slack
                 PROVE  identity'[t].unseen <= gap'[t] + skipped'[t] + UnderWay'
      BY <1>2 DEF UnseenIsGap
    <2>1. UnderWay = 0 /\ UnderWay' = 0 /\ gap'[t] = gap[t] /\ gap[t] \in Nat /\ skipped[t] \in Nat
      BY <1>2, FaceTracksAssumption DEF UnderWay, FaceTracksInv, FaceTracksTypeOK
    <2>2. CASE t \in Visible
      <3>1. identity'[t].unseen = 0 /\ skipped'[t] = 0
        BY <1>2, <1>3, <1>5, <2>2, CachesAfter
      <3> QED
        BY <2>1, <3>1
    <2>3. CASE t \notin Visible
      <3>1. identity'[t] = Forgotten(identity[t], t, NoIdentity)
        BY <1>3, <1>5, <2>3, CachesAfter
      <3>2. identity'[t] = identity[t] /\ identity[t] # NoIdentity
        BY <2>3, <3>1 DEF Forgotten
      <3>3. InTracker(t) /\ skipped'[t] = skipped[t]
        BY <1>2, <2>3 DEF InTracker
      <3> QED
        BY <2>1, <2>3, <3>2, <3>3 DEF FaceTracksInv, UnseenIsGap
    <2> QED
      BY <2>2, <2>3
  <1>9. TracksAreObjects'
    BY <1>2 DEF TracksAreObjects
  <1> QED
    BY <1>6, <1>7, <1>8, <1>9 DEF FaceTracksInv

LEMMA EndsInv ==
    FaceTracksInv /\ (PredictFailed \/ TrackingFails \/ StreamEnds \/ ComposeFails) => FaceTracksInv'
  <1> SUFFICES ASSUME FaceTracksInv, PredictFailed \/ TrackingFails \/ StreamEnds \/ ComposeFails
               PROVE  FaceTracksInv'
    OBVIOUS
  <1>1. FaceTracksTypeOK /\ Cleared
    BY DEF FaceTracksInv, PredictFailed, TrackingFails, StreamEnds, ComposeFails
  <1>2. motion' \in {"none", "running", "done"}
    BY DEF FaceTracksInv, FaceTracksTypeOK, PredictFailed, TrackingFails, StreamEnds, ComposeFails
  <1>3. {extractor', renderer'} \subseteq {"unloaded", "ready", "broken"}
    <2>1. {extractor, renderer} \subseteq {"unloaded", "ready", "broken"} /\ swapping \in BOOLEAN
      BY <1>1 DEF FaceTracksTypeOK
    <2>2. CASE ComposeFails
      BY <2>1, <2>2, LoadedType DEF ComposeFails
    <2>3. CASE PredictFailed \/ TrackingFails \/ StreamEnds
      BY <2>1, <2>3 DEF PredictFailed, TrackingFails, StreamEnds, runtimeVars
    <2> QED
      BY <2>2, <2>3
  <1> QED
    BY <1>1, <1>2, <1>3, ClearedInv

LEMMA StutterInv == FaceTracksInv /\ UNCHANGED faceTrackVars => FaceTracksInv'
  BY DEF faceTrackVars, trackerVars, faceVars, runtimeVars, FaceTracksInv, FaceTracksTypeOK,
         EntriesHaveKeys, UnseenIsGap, TracksAreObjects, InTracker, UnderWay, Visible

\* The inductive invariant of a face_swap or face_metadata stream.
THEOREM FaceTracksInvariant == FaceTracksSpec => []FaceTracksInv
  <1>1. FaceTracksInv /\ [FaceTracksNext]_faceTrackVars => FaceTracksInv'
    BY RejectedInv, BeginsInv, MotionInv, TrackerInv, ComposedInv, EndsInv, StutterInv
       DEF FaceTracksNext
  <1> QED
    BY FaceTracksInitial, <1>1, PTL DEF FaceTracksSpec

\* Whoever is not whitelisted is covered in every answer, whichever models and
\* swaps fail.
THEOREM FacesCovered == FaceTracksSpec => FacesStayCovered
  <1>1. FaceTracksInv /\ [FaceTracksNext]_faceTrackVars =>
           [phase = "composing" /\ phase' = "idle" =>
              \A t \in Faces :
                  /\ \/ life[t] = "tracked"
                     \/ life[t] = "lost" /\ mask[t] = HoldFrames /\ t \notin covered
                  /\ t \notin approved'
                  => shown'[t] \in {"swapped", "blurred"}]_faceTrackVars
    <2> SUFFICES ASSUME FaceTracksInv, FaceTracksNext, phase = "composing", phase' = "idle",
                        NEW t \in Faces, t \notin approved',
                        \/ life[t] = "tracked"
                        \/ life[t] = "lost" /\ mask[t] = HoldFrames /\ t \notin covered
                 PROVE  shown'[t] \in {"swapped", "blurred"}
      OBVIOUS
    <2>1. Composed
      BY DEF FaceTracksNext, RequestRejected, FrameBegins, MotionEnds, Predicted, PredictFailed,
             TrackingFails, TrackerUpdates, ComposeFails, StreamEnds, Cleared
    <2>2. t \in Visible
      BY DEF FaceTracksInv, TracksAreObjects
    <2>3. PICK white \in SUBSET Visible, posed \in SUBSET Visible :
             approved' = white /\ Painted(white, posed)
      BY <2>1, ReplaceableVisible DEF Composed, Described
    <2>4. PICK swapped \in SUBSET (IF swapping /\ renderer' = "ready" THEN posed ELSE {}) :
             shown' = [f \in Faces |->
                IF f \in swapped THEN "swapped"
                ELSE IF f \in Remaining(IF swapping THEN posed ELSE {}, swapped) \ white THEN "blurred"
                ELSE IF f \in Visible THEN "plain"
                ELSE "absent"]
      BY <2>3 DEF Painted
    <2> QED
      BY <2>2, <2>3, <2>4 DEF Remaining
  <1> QED
    BY FaceTracksInvariant, <1>1, PTL DEF FaceTracksSpec, FacesStayCovered

\* The identity of a face is kept as long as the tracker has the track.
THEOREM IdentityPinned == FaceTracksSpec => IdentityIsPinned
  <1>1. FaceTracksInv /\ FaceTracksInv' /\ [FaceTracksNext]_faceTrackVars =>
           [\A t \in Faces :
               /\ identity[t] # NoIdentity
               /\ life'[t] \in {"tracked", "lost"}
               /\ skipped[t] <= Slack
               => identity'[t].key = identity[t].key]_faceTrackVars
    <2> SUFFICES ASSUME FaceTracksInv, FaceTracksNext, NEW t \in Faces, identity[t] # NoIdentity,
                        life'[t] \in {"tracked", "lost"}, skipped[t] <= Slack
                 PROVE  identity'[t].key = identity[t].key
      OBVIOUS
    <2>1. CASE RequestRejected \/ FrameBegins
      <3>1. identity'[t] = [identity[t] EXCEPT !.unseen = Aged(@, Retention + 1)]
        BY <2>1 DEF RequestRejected, FrameBegins, NextRequest
      <3>2. identity[t] \in [key : Keys \cup {NoKey}, unseen : 0..(Retention + 1)]
        BY DEF FaceTracksInv, FaceTracksTypeOK
      <3> QED
        BY <3>1, <3>2
    <2>2. CASE MotionEnds \/ Predicted \/ TrackerUpdates
      BY <2>2 DEF MotionEnds, Predicted, TrackerUpdates, faceVars
    <2>3. CASE PredictFailed \/ TrackingFails \/ ComposeFails \/ StreamEnds
      BY <2>3 DEF PredictFailed, TrackingFails, ComposeFails, StreamEnds, Cleared
    <2>4. CASE Composed
      <3>1. PICK eligible \in SUBSET Visible : Attributes(eligible) /\ Identities(Described(eligible))
        BY <2>4, ReplaceableVisible DEF Composed
      <3>2. CASE t \in Visible
        BY <3>1, <3>2, CachesAfter
      <3>3. CASE t \notin Visible
        <4>1. InTracker(t) /\ UnderWay = 0
          BY <2>4 DEF Composed, trackerVars, InTracker, UnderWay
        <4>2. identity[t].unseen <= gap[t] + skipped[t] + 0
          BY <3>3, <4>1 DEF FaceTracksInv, UnseenIsGap
        <4>3. /\ identity[t].unseen \in Nat /\ skipped[t] \in Nat
              /\ gap[t] \in Nat /\ gap[t] <= TrackBuffer
          BY FaceTracksAssumption DEF FaceTracksInv, FaceTracksTypeOK
        <4>4. Slack = Retention - TrackBuffer /\ Retention \in Nat /\ TrackBuffer \in Nat
          BY FaceTracksAssumption DEF Slack
        <4>5. identity[t].unseen <= Retention
          BY <4>2, <4>3, <4>4
        <4>6. identity'[t] = Forgotten(identity[t], t, NoIdentity)
          BY <3>1, <3>3, CachesAfter
        <4>7. Forgotten(identity[t], t, NoIdentity) = identity[t]
          BY <3>3, <4>3, <4>4, <4>5 DEF Forgotten
        <4> QED
          BY <4>6, <4>7
      <3> QED
        BY <3>2, <3>3
    <2> QED
      BY <2>1, <2>2, <2>3, <2>4 DEF FaceTracksNext
  <1> QED
    BY FaceTracksInvariant, <1>1, PTL DEF FaceTracksSpec, IdentityIsPinned

-----------------------------------------------------------------------------
(* The mosaic: who is hidden in an answer.                                     *)

\* Clipped outlines, crops, and groups that hold their members.
Outlines ==
    {b \in (0..(Width - 1)) \X (0..(Height - 1)) \X (0..(Width - 1)) \X (0..(Height - 1)) :
        HasArea(b)}

Rects == [left : 0..Width, top : 0..Height, right : 0..Width, bottom : 0..Height]

Encloses(crop, b) ==
    crop.left <= b[1] /\ crop.top <= b[2] /\ b[3] < crop.right /\ b[4] < crop.bottom

Groups ==
    {g \in [crop : Rects, members : SUBSET Outlines] :
        g.members # {} /\ \A b \in g.members : Encloses(g.crop, b)}

Pixels(b) == (b[1]..b[3]) \X (b[2]..b[4])

Accepted == ValidParams(setting) /\ ValidMargin(setting) /\ ValidPad(setting)

\* The outlines that were asked for, and where they are on their way into a layer.
Required == {Polygon(items[i].outline) : i \in {j \in 1..listed : Protected(items[j])}}
Held == ToSet(polygons) \cup group.members \cup UNION {groups[k].members : k \in DOMAIN groups}

GroupsAreApart ==
    \A i, j \in DOMAIN groups : i # j => ~Overlap(groups[i].crop, groups[j].crop)

Hidden ==
    \A i \in DOMAIN items : Protected(items[i]) =>
        \A p \in Pixels(Polygon(items[i].outline)) : p \in DOMAIN painted /\ painted[p][1] = 0

MosaicInv ==
    /\ setting \in Settings /\ items \in Scenes /\ listed \in 0..Len(items)
    /\ polygons \in Seq(Outlines) /\ groups \in Seq(Groups) /\ group \in Groups \cup {NoGroup}
    /\ step = "called" => listed = 0
    /\ step = "listing" => listed < Len(items)
    /\ step = "grouping" => listed = Len(items)
    /\ step \in {"listing", "grouping"} => Accepted /\ Required \subseteq Held
    /\ GroupsAreApart
    /\ step \in {"encoding", "answered"} => Hidden

LEMMA MaxOfTwo ==
  ASSUME NEW a \in Int, NEW b \in Int
  PROVE  Max({a, b}) = IF a >= b THEN a ELSE b
<1> DEFINE T == {a, b}
<1>1. \E x \in T : \A y \in T : x >= y
  OBVIOUS
<1>2. Max(T) \in T /\ \A y \in T : Max(T) >= y
  <2> HIDE DEF T
  <2> QED
    BY <1>1 DEF Max
<1> QED
  BY <1>2

LEMMA MaxOfOne ==
  ASSUME NEW a \in Int
  PROVE  Max({a}) = a
<1> DEFINE T == {a}
<1>1. \E x \in T : \A y \in T : x >= y
  OBVIOUS
<1>2. Max(T) \in T
  <2> HIDE DEF T
  <2> QED
    BY <1>1 DEF Max
<1> QED
  BY <1>2

\* A set of naturals that is bounded contains its Max.
LEMMA MaxIsGreatest ==
  ASSUME NEW n \in Nat, NEW S \in SUBSET (0..n), S # {}
  PROVE  Max(S) \in S /\ \A i \in S : i <= Max(S)
<1> DEFINE R == {n - i : i \in S}
<1>1. R \in SUBSET Nat /\ R # {}
  <2>1. \A i \in S : n - i \in Nat
    OBVIOUS
  <2> QED
    BY <2>1
<1>2. Min(R) \in R /\ \A i \in R : Min(R) <= i
  <2> HIDE DEF R
  <2> QED
    BY <1>1, MinIsLeast
<1>3. PICK x \in S : Min(R) = n - x
  BY <1>2
<1>4. \A y \in S : x >= y
  <2> SUFFICES ASSUME NEW y \in S PROVE x >= y
    OBVIOUS
  <2>1. n - y \in R
    OBVIOUS
  <2>2. n - x <= n - y
    BY <1>2, <1>3, <2>1
  <2> QED
    BY <2>2
<1>5. Max(S) \in S /\ \A y \in S : Max(S) >= y
  BY <1>4 DEF Max
<1> QED
  BY <1>5

LEMMA SquareIsNat ==
  ASSUME NEW n \in Int
  PROVE  Sq(n) \in Nat
<1>1. CASE n >= 0
  BY <1>1 DEF Sq
<1>2. CASE n < 0
  <2>1. n * n = (0 - n) * (0 - n) /\ 0 - n \in Nat
    BY <1>2
  <2> QED
    BY <2>1 DEF Sq
<1> QED
  BY <1>1, <1>2

LEMMA PixelsAreNat ==
  ASSUME NEW crop \in Rects, NEW p \in In(crop)
  PROVE  /\ p[1] \in 0..Width /\ p[2] \in 0..Height /\ p = <<p[1], p[2]>>
         /\ crop.left <= p[1] /\ p[1] < crop.right /\ crop.top <= p[2] /\ p[2] < crop.bottom
<1>1. /\ crop.left \in 0..Width /\ crop.right \in 0..Width
      /\ crop.top \in 0..Height /\ crop.bottom \in 0..Height
  BY DEF Rects
<1>2. /\ p = <<p[1], p[2]>>
      /\ p[1] \in crop.left..(crop.right - 1) /\ p[2] \in crop.top..(crop.bottom - 1)
  BY DEF In
<1>3. Width \in Nat /\ Height \in Nat
  BY MosaicAssumption
<1> QED
  BY <1>1, <1>2, <1>3

LEMMA PixelIsIn ==
  ASSUME NEW crop \in Rects, NEW x \in Int, NEW y \in Int,
         crop.left <= x, x < crop.right, crop.top <= y, y < crop.bottom
  PROVE  <<x, y>> \in In(crop)
<1>1. /\ crop.left \in 0..Width /\ crop.right \in 0..Width
      /\ crop.top \in 0..Height /\ crop.bottom \in 0..Height
  BY DEF Rects
<1>2. Width \in Nat /\ Height \in Nat
  BY MosaicAssumption
<1>3. x \in crop.left..(crop.right - 1) /\ y \in crop.top..(crop.bottom - 1)
  BY <1>1, <1>2
<1> QED
  BY <1>3 DEF In

\* A pixel is no distance from a mask it is in.
LEMMA DistanceIsZero ==
  ASSUME NEW crop \in Rects, NEW pixels \in SUBSET In(crop), NEW p \in pixels
  PROVE  Distance(p, pixels) = 0
<1> DEFINE D == {Sq(p[1] - q[1]) + Sq(p[2] - q[2]) : q \in pixels}
<1>1. \A q \in pixels : q[1] \in Int /\ q[2] \in Int
  BY PixelsAreNat
<1>2. \A q \in pixels : Sq(p[1] - q[1]) \in Nat /\ Sq(p[2] - q[2]) \in Nat
  BY <1>1, SquareIsNat
<1>3. D \in SUBSET Nat
  BY <1>2
<1>4. Sq(p[1] - p[1]) + Sq(p[2] - p[2]) = 0
  BY <1>1 DEF Sq
<1>5. 0 \in D
  BY <1>4
<1>6. Distance(p, pixels) = Min(D)
  BY DEF Distance
<1> HIDE DEF D
<1>7. Min(D) \in D /\ Min(D) <= 0
  <2>1. D # {}
    BY <1>5
  <2> QED
    BY <1>3, <1>5, <2>1, MinIsLeast
<1>8. Min(D) \in Nat
  BY <1>3, <1>7
<1> QED
  BY <1>6, <1>7, <1>8

LEMMA DilatedHolds ==
  ASSUME NEW crop \in Rects, NEW r \in Nat, NEW pixels
  PROVE  Dilated(pixels, r, crop) \subseteq In(crop) /\ pixels \cap In(crop) \subseteq Dilated(pixels, r, crop)
<1>1. <<0, 0>> \in Ellipse(r)
  <2>1. <<0, 0>> \in (-r..r) \X (-r..r)
    OBVIOUS
  <2> QED
    BY <2>1 DEF Ellipse
<1>2. ASSUME NEW p \in pixels \cap In(crop)
      PROVE  p \in Dilated(pixels, r, crop)
  <2>1. <<p[1] + 0, p[2] + 0>> = p
    BY PixelsAreNat
  <2> QED
    BY <1>1, <2>1 DEF Dilated
<1> QED
  BY <1>2 DEF Dilated

\* A set of pixels of a crop is inside its bounds, and they inside the crop.
LEMMA BoundsHold ==
  ASSUME NEW crop \in Rects, NEW pixels \in SUBSET In(crop), pixels # {}
  PROVE  LET box == Bounds(pixels)
         IN  /\ box \in Rects
             /\ \A p \in pixels : p \in In(box)
             /\ In(box) \subseteq In(crop)
<1> DEFINE xs == {p[1] : p \in pixels}
           ys == {p[2] : p \in pixels}
           box == Bounds(pixels)
<1>1. /\ xs \in SUBSET (crop.left..(crop.right - 1)) /\ ys \in SUBSET (crop.top..(crop.bottom - 1))
      /\ xs # {} /\ ys # {} /\ Width \in Nat /\ Height \in Nat
      /\ crop.left \in Nat /\ crop.top \in Nat /\ crop.right \in Nat /\ crop.bottom \in Nat
      /\ crop.right <= Width /\ crop.bottom <= Height
  <2>1. Width \in Nat /\ Height \in Nat
    BY MosaicAssumption
  <2>2. /\ crop.left \in Nat /\ crop.top \in Nat /\ crop.right \in Nat /\ crop.bottom \in Nat
        /\ crop.right <= Width /\ crop.bottom <= Height
    BY <2>1 DEF Rects
  <2>3. \A p \in pixels : p[1] \in crop.left..(crop.right - 1) /\ p[2] \in crop.top..(crop.bottom - 1)
    BY DEF In
  <2> QED
    BY <2>1, <2>2, <2>3
<1>2. box = [left |-> Min(xs), top |-> Min(ys), right |-> Max(xs) + 1, bottom |-> Max(ys) + 1]
  BY DEF Bounds
<1>3. \A p \in pixels : p[1] \in xs /\ p[2] \in ys /\ p = <<p[1], p[2]>>
  BY PixelsAreNat
<1> HIDE DEF xs, ys
<1>4. /\ \A x \in xs : x \in Nat /\ Min(xs) <= x /\ x <= Max(xs)
      /\ \A y \in ys : y \in Nat /\ Min(ys) <= y /\ y <= Max(ys)
      /\ Min(xs) \in xs /\ Max(xs) \in xs /\ Min(ys) \in ys /\ Max(ys) \in ys
  <2>1. /\ xs \in SUBSET Nat /\ ys \in SUBSET Nat
        /\ xs \in SUBSET (0..Width) /\ ys \in SUBSET (0..Height)
    BY <1>1
  <2> QED
    BY <1>1, <2>1, MinIsLeast, MaxIsGreatest
<1>5. /\ crop.left <= Min(xs) /\ Max(xs) < crop.right /\ crop.top <= Min(ys) /\ Max(ys) < crop.bottom
      /\ Min(xs) \in Nat /\ Max(xs) \in Nat /\ Min(ys) \in Nat /\ Max(ys) \in Nat
  <2>1. /\ Min(xs) \in crop.left..(crop.right - 1) /\ Max(xs) \in crop.left..(crop.right - 1)
        /\ Min(ys) \in crop.top..(crop.bottom - 1) /\ Max(ys) \in crop.top..(crop.bottom - 1)
    BY <1>1, <1>4
  <2>2. /\ Min(xs) \in Nat /\ Max(xs) \in Nat /\ Min(ys) \in Nat /\ Max(ys) \in Nat
    BY <1>4
  <2>3. \A a, b \in Nat : \A n \in Nat : n \in a..(b - 1) => a <= n /\ n < b
    OBVIOUS
  <2> QED
    BY <1>1, <2>1, <2>2, <2>3
<1>6. /\ box.left = Min(xs) /\ box.top = Min(ys) /\ box.right = Max(xs) + 1 /\ box.bottom = Max(ys) + 1
  BY <1>2
<1>7. box \in Rects
  <2>1. /\ Min(xs) \in 0..Width /\ Min(ys) \in 0..Height
        /\ Max(xs) + 1 \in 0..Width /\ Max(ys) + 1 \in 0..Height
    <3>1. \A l, r, n, m \in Nat : l <= m /\ m < r /\ r <= n => m \in 0..n /\ m + 1 \in 0..n
      OBVIOUS
    <3>2. Min(xs) <= Max(xs) /\ Min(ys) <= Max(ys)
      BY <1>4
    <3>3. Min(xs) < crop.right /\ Min(ys) < crop.bottom
      BY <1>1, <1>5, <3>2
    <3>4. crop.left <= Max(xs) /\ crop.top <= Max(ys)
      BY <1>1, <1>5, <3>2
    <3> QED
      BY <1>1, <1>5, <3>1, <3>3, <3>4
  <2> QED
    BY <1>2, <2>1 DEF Rects
<1> HIDE DEF box
<1>8. ASSUME NEW p \in pixels PROVE p \in In(box)
  <2>1. /\ p[1] \in Nat /\ p[2] \in Nat /\ p = <<p[1], p[2]>>
        /\ Min(xs) <= p[1] /\ p[1] <= Max(xs) /\ Min(ys) <= p[2] /\ p[2] <= Max(ys)
    BY <1>3, <1>4
  <2>2. p[1] \in box.left..(box.right - 1) /\ p[2] \in box.top..(box.bottom - 1)
    BY <1>5, <1>6, <2>1
  <2> QED
    BY <2>1, <2>2 DEF In
<1>9. In(box) \subseteq In(crop)
  <2>1. /\ box.left..(box.right - 1) \subseteq crop.left..(crop.right - 1)
        /\ box.top..(box.bottom - 1) \subseteq crop.top..(crop.bottom - 1)
    BY <1>1, <1>5, <1>6
  <2> QED
    BY <2>1 DEF In
<1> QED
  BY <1>7, <1>8, <1>9 DEF box

LEMMA AroundHolds ==
  ASSUME NEW crop \in Rects, NEW pixels \in SUBSET In(crop), pixels # {}, NEW d \in Nat
  PROVE  pixels \subseteq Around(pixels, d, crop) /\ Around(pixels, d, crop) \subseteq In(crop)
<1> DEFINE box == Bounds(pixels)
           area == [left |-> Max({crop.left, box.left - d}), top |-> Max({crop.top, box.top - d}),
                    right |-> Min({crop.right, box.right + d}),
                    bottom |-> Min({crop.bottom, box.bottom + d})]
<1>1. box \in Rects /\ \A p \in pixels : p \in In(box)
  BY BoundsHold
<1>2. Around(pixels, d, crop) = In(area)
  BY DEF Around
<1> HIDE DEF box
<1>3. /\ crop.left \in Nat /\ crop.top \in Nat /\ crop.right \in Nat /\ crop.bottom \in Nat
      /\ box.left \in Nat /\ box.top \in Nat /\ box.right \in Nat /\ box.bottom \in Nat
  BY <1>1, MosaicAssumption DEF Rects
<1>4. /\ area.left = IF crop.left >= box.left - d THEN crop.left ELSE box.left - d
      /\ area.top = IF crop.top >= box.top - d THEN crop.top ELSE box.top - d
      /\ area.right = IF crop.right <= box.right + d THEN crop.right ELSE box.right + d
      /\ area.bottom = IF crop.bottom <= box.bottom + d THEN crop.bottom ELSE box.bottom + d
  BY <1>3, MinOfTwo, MaxOfTwo
<1> HIDE DEF area
<1>5. In(area) = (area.left..(area.right - 1)) \X (area.top..(area.bottom - 1))
  BY DEF In
<1>6. ASSUME NEW p \in pixels PROVE p \in In(area)
  <2>1. /\ p = <<p[1], p[2]>> /\ p[1] \in Nat /\ p[2] \in Nat
        /\ crop.left <= p[1] /\ p[1] < crop.right /\ crop.top <= p[2] /\ p[2] < crop.bottom
    BY PixelsAreNat, MosaicAssumption
  <2>2. box.left <= p[1] /\ p[1] < box.right /\ box.top <= p[2] /\ p[2] < box.bottom
    BY <1>1, PixelsAreNat
  <2>3. p[1] \in area.left..(area.right - 1) /\ p[2] \in area.top..(area.bottom - 1)
    BY <1>3, <1>4, <2>1, <2>2
  <2> QED
    BY <1>5, <2>1, <2>3
<1>7. In(area) \subseteq In(crop)
  <2>1. /\ area.left..(area.right - 1) \subseteq crop.left..(crop.right - 1)
        /\ area.top..(area.bottom - 1) \subseteq crop.top..(crop.bottom - 1)
    BY <1>3, <1>4
  <2> QED
    BY <1>5, <2>1 DEF In
<1> QED
  BY <1>2, <1>6, <1>7

\* What both of two crops enclose, their hull encloses.
LEMMA HullHolds ==
  ASSUME NEW a \in Rects, NEW b \in Rects
  PROVE  /\ Hull(a, b) \in Rects
         /\ \A o \in Outlines : Encloses(a, o) \/ Encloses(b, o) => Encloses(Hull(a, b), o)
<1>1. Width \in Nat /\ Height \in Nat
  BY MosaicAssumption
<1>2. /\ a.left \in Nat /\ a.top \in Nat /\ a.right \in Nat /\ a.bottom \in Nat
      /\ b.left \in Nat /\ b.top \in Nat /\ b.right \in Nat /\ b.bottom \in Nat
      /\ a.left \in 0..Width /\ a.top \in 0..Height /\ a.right \in 0..Width /\ a.bottom \in 0..Height
      /\ b.left \in 0..Width /\ b.top \in 0..Height /\ b.right \in 0..Width /\ b.bottom \in 0..Height
  BY <1>1 DEF Rects
<1>3. /\ Min({a.left, b.left}) = IF a.left <= b.left THEN a.left ELSE b.left
      /\ Min({a.top, b.top}) = IF a.top <= b.top THEN a.top ELSE b.top
      /\ Max({a.right, b.right}) = IF a.right >= b.right THEN a.right ELSE b.right
      /\ Max({a.bottom, b.bottom}) = IF a.bottom >= b.bottom THEN a.bottom ELSE b.bottom
  BY <1>2, MinOfTwo, MaxOfTwo
<1> DEFINE h == Hull(a, b)
<1>4. /\ h = [left |-> h.left, top |-> h.top, right |-> h.right, bottom |-> h.bottom]
      /\ h.left = IF a.left <= b.left THEN a.left ELSE b.left
      /\ h.top = IF a.top <= b.top THEN a.top ELSE b.top
      /\ h.right = IF a.right >= b.right THEN a.right ELSE b.right
      /\ h.bottom = IF a.bottom >= b.bottom THEN a.bottom ELSE b.bottom
  BY <1>3 DEF Hull
<1> HIDE DEF h
<1>5. h \in Rects
  BY <1>1, <1>2, <1>4 DEF Rects
<1>6. ASSUME NEW o \in Outlines, Encloses(a, o) \/ Encloses(b, o)
      PROVE  Encloses(h, o)
  <2>1. o[1] \in Nat /\ o[2] \in Nat /\ o[3] \in Nat /\ o[4] \in Nat
    BY <1>1 DEF Outlines
  <2> QED
    BY <1>2, <1>4, <1>6, <2>1 DEF Encloses
<1> QED
  BY <1>5, <1>6 DEF h

\* The crop a group starts with encloses its polygon.
LEMMA WidenedHolds ==
  ASSUME Accepted, NEW o \in Outlines
  PROVE  Widened(o) \in Rects /\ Encloses(Widened(o), o)
<1>1. Width \in Nat /\ Height \in Nat
  BY MosaicAssumption
<1>2. /\ o[1] \in 0..(Width - 1) /\ o[2] \in 0..(Height - 1)
      /\ o[3] \in 0..(Width - 1) /\ o[4] \in 0..(Height - 1)
  BY DEF Outlines
<1>3. Reach \in Nat
  <2>1. MaxMargin \in Nat /\ MaxPad \in Nat
    BY MosaicAssumption
  <2>2. setting.margin \in 0..MaxMargin /\ setting.pad \in 0..MaxPad
    BY DEF Accepted, ValidMargin, ValidPad
  <2> QED
    BY <2>1, <2>2 DEF Reach
<1> DEFINE w == Widened(o)
           a == o[1]
           b == o[2]
           c == o[3]
           d == o[4]
<1>4. a \in Nat /\ b \in Nat /\ c \in Nat /\ d \in Nat /\ c < Width /\ d < Height
      /\ a < Width /\ b < Height
  BY <1>1, <1>2
<1>5. w = [left |-> Max({0, a - Reach}), top |-> Max({0, b - Reach}),
           right |-> Min({Width, c + 1 + Reach}), bottom |-> Min({Height, d + 1 + Reach})]
  BY DEF Widened
<1>6. Encloses(w, o) <=> w.left <= a /\ w.top <= b /\ c < w.right /\ d < w.bottom
  BY DEF Encloses
<1> HIDE DEF w, a, b, c, d
<1>7. /\ w = [left |-> w.left, top |-> w.top, right |-> w.right, bottom |-> w.bottom]
      /\ w.left = IF 0 >= a - Reach THEN 0 ELSE a - Reach
      /\ w.top = IF 0 >= b - Reach THEN 0 ELSE b - Reach
      /\ w.right = IF Width <= c + 1 + Reach THEN Width ELSE c + 1 + Reach
      /\ w.bottom = IF Height <= d + 1 + Reach THEN Height ELSE d + 1 + Reach
  <2>1. /\ 0 \in Int /\ a - Reach \in Int /\ b - Reach \in Int /\ Width \in Int /\ Height \in Int
        /\ c + 1 + Reach \in Int /\ d + 1 + Reach \in Int
    BY <1>1, <1>3, <1>4
  <2> QED
    BY <1>5, <2>1, MinOfTwo, MaxOfTwo
<1>8. /\ w.left \in 0..Width /\ w.top \in 0..Height /\ w.right \in 0..Width /\ w.bottom \in 0..Height
      /\ w.left <= a /\ w.top <= b /\ c < w.right /\ d < w.bottom
  BY <1>1, <1>3, <1>4, <1>7
<1> QED
  BY <1>6, <1>7, <1>8 DEF w, Rects

LEMMA InApart ==
  ASSUME NEW a \in Rects, NEW b \in Rects, ~Overlap(a, b), NEW p \in In(a)
  PROVE  p \notin In(b)
<1> SUFFICES ASSUME p \in In(b) PROVE FALSE
  OBVIOUS
<1>1. /\ p[1] \in Nat /\ p[2] \in Nat
      /\ a.left <= p[1] /\ p[1] < a.right /\ a.top <= p[2] /\ p[2] < a.bottom
      /\ b.left <= p[1] /\ p[1] < b.right /\ b.top <= p[2] /\ p[2] < b.bottom
  BY PixelsAreNat, MosaicAssumption
<1>2. /\ a.left \in Nat /\ a.top \in Nat /\ a.right \in Nat /\ a.bottom \in Nat
      /\ b.left \in Nat /\ b.top \in Nat /\ b.right \in Nat /\ b.bottom \in Nat
  BY MosaicAssumption DEF Rects
<1> QED
  BY <1>1, <1>2 DEF Overlap

\* A mask holds the pixels of its polygons and stays in its crop.
LEMMA MaskHolds ==
  ASSUME Accepted, NEW g \in Groups
  PROVE  LET pixels == FillPolygons(g.members, g.crop)
         IN  /\ pixels \in SUBSET In(g.crop) /\ pixels # {}
             /\ \A b \in g.members : Pixels(b) \subseteq pixels
<1> DEFINE filled == {p \in In(g.crop) :
                         \E m \in g.members : p[1] \in m[1]..m[3] /\ p[2] \in m[2]..m[4]}
           pixels == FillPolygons(g.members, g.crop)
<1>1. g.crop \in Rects /\ g.members \in SUBSET Outlines /\ g.members # {}
      /\ \A b \in g.members : Encloses(g.crop, b)
  BY DEF Groups
<1>2. setting.pad \in Nat
  BY MosaicAssumption DEF Accepted, ValidPad
<1>3. pixels = Dilated(filled, setting.pad, g.crop)
  BY DEF FillPolygons
<1>4. pixels \subseteq In(g.crop) /\ filled \cap In(g.crop) \subseteq pixels
  <2> HIDE DEF filled, pixels
  <2> QED
    BY <1>1, <1>2, <1>3, DilatedHolds
<1>5. ASSUME NEW b \in g.members, NEW p \in Pixels(b)
      PROVE  p \in pixels
  <2>1. b \in Outlines /\ Encloses(g.crop, b)
    BY <1>1
  <2>2. b[1] \in Nat /\ b[2] \in Nat /\ b[3] \in Nat /\ b[4] \in Nat
    BY <2>1, MosaicAssumption DEF Outlines
  <2>3. p = <<p[1], p[2]>> /\ p[1] \in b[1]..b[3] /\ p[2] \in b[2]..b[4]
    BY DEF Pixels
  <2>4. p[1] \in Int /\ p[2] \in Int /\ b[1] <= p[1] /\ p[1] <= b[3] /\ b[2] <= p[2] /\ p[2] <= b[4]
    BY <2>2, <2>3
  <2>5. /\ g.crop.left \in Nat /\ g.crop.top \in Nat /\ g.crop.right \in Nat /\ g.crop.bottom \in Nat
    <3>1. Width \in Nat /\ Height \in Nat
      BY MosaicAssumption
    <3>2. /\ g.crop.left \in 0..Width /\ g.crop.right \in 0..Width
          /\ g.crop.top \in 0..Height /\ g.crop.bottom \in 0..Height
      BY <1>1 DEF Rects
    <3> QED
      BY <3>1, <3>2
  <2>6. /\ g.crop.left <= p[1] /\ p[1] < g.crop.right
        /\ g.crop.top <= p[2] /\ p[2] < g.crop.bottom
    BY <2>1, <2>2, <2>4, <2>5 DEF Encloses
  <2>7. p \in In(g.crop)
    BY <1>1, <2>3, <2>4, <2>6, PixelIsIn
  <2>8. p \in filled
    BY <2>3, <2>7
  <2> QED
    BY <1>4, <2>7, <2>8
<1>6. pixels # {}
  <2>1. PICK b \in g.members : TRUE
    BY <1>1
  <2>2. b \in Outlines
    BY <1>1, <2>1
  <2>3. b[1] \in Nat /\ b[2] \in Nat /\ b[3] \in Nat /\ b[4] \in Nat /\ HasArea(b)
    BY <2>2, MosaicAssumption DEF Outlines
  <2>4. b[1] \in b[1]..b[3] /\ b[2] \in b[2]..b[4]
    BY <2>3 DEF HasArea
  <2>5. <<b[1], b[2]>> \in Pixels(b)
    BY <2>4 DEF Pixels
  <2> QED
    BY <1>5, <2>5
<1> QED
  BY <1>4, <1>5, <1>6

\* A layer stays in its crop, and is opaque where its mask is.
LEMMA FeatheredMaskHolds ==
  ASSUME Accepted, NEW crop \in Rects, NEW pixels \in SUBSET In(crop), pixels # {}
  PROVE  LET layer == FeatheredMask(pixels, crop)
         IN  /\ DOMAIN layer \subseteq In(crop)
             /\ \A p \in pixels : p \in DOMAIN layer /\ layer[p] = 0
<1>1. setting.margin \in Nat /\ DefaultMargin \in Nat
  BY MosaicAssumption DEF Accepted, ValidMargin
<1>2. \A p \in pixels : Distance(p, pixels) = 0
  BY DistanceIsZero
<1>3. CASE setting.margin = 0
  BY <1>3 DEF FeatheredMask
<1>4. CASE setting.margin # 0 /\ setting.margin # DefaultMargin
  <2> DEFINE m == setting.margin
             opaque == m + 1 - Min({m, DefaultMargin})
             near == {p \in Around(pixels, m, crop) : Distance(p, pixels) <= Sq(m)}
             layer == [p \in near |-> LET d == Distance(p, pixels) IN IF d <= Sq(opaque) THEN 0 ELSE d]
  <2>1. FeatheredMask(pixels, crop) = layer
    BY <1>4 DEF FeatheredMask, Tapered
  <2>2. Sq(m) \in Nat /\ Sq(opaque) \in Nat
    <3>1. opaque \in Int
      BY <1>1, MinOfTwo
    <3> QED
      BY <1>1, <3>1, SquareIsNat
  <2>3. pixels \subseteq Around(pixels, m, crop) /\ Around(pixels, m, crop) \subseteq In(crop)
    BY <1>1, AroundHolds
  <2>4. DOMAIN layer = near
    OBVIOUS
  <2>5. ASSUME NEW p \in pixels PROVE p \in near /\ layer[p] = 0
    <3>1. Distance(p, pixels) = 0 /\ 0 <= Sq(m) /\ 0 <= Sq(opaque)
      BY <1>2, <2>2
    <3>2. p \in near
      BY <2>3, <3>1
    <3> QED
      BY <3>1, <3>2
  <2> QED
    BY <2>1, <2>3, <2>4, <2>5
<1>5. CASE setting.margin # 0 /\ setting.margin = DefaultMargin
  <2> DEFINE m == DefaultMargin
             region == Around(pixels, m + 1, crop)
             expanded == Dilated(pixels, m, crop)
             inward(p) == Distance(p, region \ expanded)
             layer == [p \in expanded |->
                         IF p \in pixels \/ inward(p) = 0 \/ inward(p) >= Sq(m) THEN 0
                         ELSE Sq(m) - inward(p)]
  <2>1. FeatheredMask(pixels, crop) = layer
    BY <1>5 DEF FeatheredMask, Feathered
  <2>2. expanded \subseteq In(crop) /\ pixels \cap In(crop) \subseteq expanded
    BY <1>1, DilatedHolds
  <2>3. DOMAIN layer = expanded /\ \A p \in pixels : p \in expanded /\ layer[p] = 0
    BY <2>2
  <2> QED
    BY <2>1, <2>2, <2>3
<1> QED
  BY <1>3, <1>4, <1>5

\* A group's layer is opaque on every polygon of the group.
LEMMA LayerIsOpaque ==
  ASSUME Accepted, NEW g \in Groups
  PROVE  /\ DOMAIN Layer(g) \subseteq In(g.crop) /\ DOMAIN Layer(g) # {}
         /\ \A b \in g.members : \A p \in Pixels(b) : p \in DOMAIN Layer(g) /\ Layer(g)[p] = 0
<1> DEFINE pixels == FillPolygons(g.members, g.crop)
<1>1. /\ pixels \in SUBSET In(g.crop) /\ pixels # {}
      /\ \A b \in g.members : Pixels(b) \subseteq pixels
  BY MaskHolds
<1>2. g.crop \in Rects
  BY DEF Groups
<1>3. Layer(g) = FeatheredMask(pixels, g.crop)
  BY DEF Layer
<1> HIDE DEF pixels
<1>4. /\ DOMAIN Layer(g) \subseteq In(g.crop)
      /\ \A p \in pixels : p \in DOMAIN Layer(g) /\ Layer(g)[p] = 0
  BY <1>1, <1>2, <1>3, FeatheredMaskHolds
<1> QED
  BY <1>1, <1>4

\* The boxes of layers are apart like the crops they are in: no layer writes over
\* another's pixels.
LEMMA BlendKeepsOpaque ==
  ASSUME Accepted, groups \in Seq(Groups), GroupsAreApart,
         NEW k \in DOMAIN groups, NEW b \in groups[k].members, NEW p \in Pixels(b)
  PROVE  LET blended == BlendLayers([i \in DOMAIN groups |-> Layer(groups[i])])
         IN  p \in DOMAIN blended /\ blended[p][1] = 0
<1> DEFINE layers == [i \in DOMAIN groups |-> Layer(groups[i])]
           boxes == [i \in DOMAIN layers |-> Bounds(DOMAIN layers[i])]
           joint == Joint(boxes)
           areas == BlurAreas(boxes)
           all == UNION {DOMAIN layers[i] : i \in DOMAIN layers}
           weighed == {q \in all : q \in DOMAIN layers[Writer(boxes, q)]}
<1>1. DOMAIN groups = 1..Len(groups) /\ Len(groups) \in Nat /\ \A i \in DOMAIN groups : groups[i] \in Groups
  BY LenProperties, ElementOfSeq
<1>2. ASSUME NEW i \in DOMAIN groups
      PROVE  /\ groups[i].crop \in Rects
             /\ boxes[i] = Bounds(DOMAIN Layer(groups[i])) /\ In(boxes[i]) \subseteq In(groups[i].crop)
             /\ \A q \in DOMAIN Layer(groups[i]) : q \in In(boxes[i])
  <2>1. groups[i] \in Groups /\ groups[i].crop \in Rects
    BY <1>1 DEF Groups
  <2>2. boxes[i] = Bounds(DOMAIN Layer(groups[i]))
    OBVIOUS
  <2>3. DOMAIN Layer(groups[i]) \in SUBSET In(groups[i].crop) /\ DOMAIN Layer(groups[i]) # {}
    BY <2>1, LayerIsOpaque
  <2> HIDE DEF boxes
  <2> QED
    BY <2>1, <2>2, <2>3, BoundsHold
<1>3. DOMAIN layers = DOMAIN groups /\ DOMAIN boxes = DOMAIN groups
  OBVIOUS
<1>4. p \in DOMAIN layers[k] /\ layers[k][p] = 0
  BY <1>1, LayerIsOpaque
<1>5. layers[k] = Layer(groups[k])
  OBVIOUS
<1>6. BlendLayers(layers) =
         [q \in weighed |-> LET i == Writer(boxes, q)
                            IN <<layers[i][q], FrameBlur(q, LayerCrop(boxes[i], joint, areas))>>]
  BY DEF BlendLayers
<1> HIDE DEF layers, boxes, joint, areas
<1>7. {i \in DOMAIN boxes : p \in In(boxes[i])} = {k}
  <2>1. ASSUME NEW i \in DOMAIN groups, p \in In(boxes[i]), i # k
        PROVE  FALSE
    <3>1. ~Overlap(groups[i].crop, groups[k].crop)
      BY <2>1 DEF GroupsAreApart
    <3>2. p \in In(groups[i].crop) /\ p \in In(groups[k].crop)
      BY <1>2, <1>4, <1>5, <2>1
    <3> QED
      BY <1>2, <3>1, <3>2, InApart
  <2>2. p \in In(boxes[k])
    BY <1>2, <1>4, <1>5
  <2> QED
    BY <1>3, <2>1, <2>2
<1>8. Writer(boxes, p) = k
  BY <1>1, <1>7, MaxOfOne DEF Writer
<1>9. p \in weighed
  BY <1>3, <1>4, <1>8
<1>10. p \in DOMAIN BlendLayers(layers)
       /\ BlendLayers(layers)[p] = <<layers[k][p], FrameBlur(p, LayerCrop(boxes[k], joint, areas))>>
  <2> HIDE DEF weighed
  <2> QED
    BY <1>6, <1>8, <1>9
<1> QED
  BY <1>4, <1>10 DEF layers

LEMMA PolygonIsClipped ==
  ASSUME NEW o \in Int \X Int \X Int \X Int, HasArea(Polygon(o))
  PROVE  Polygon(o) \in Outlines
<1>1. ASSUME NEW n \in Int, NEW high \in Nat
      PROVE  Within(0, n, high) \in 0..high
  <2>1. Min({n, high}) = IF n <= high THEN n ELSE high
    BY <1>1, MinOfTwo
  <2>2. Min({n, high}) \in Int
    BY <1>1, <2>1
  <2>3. Max({0, Min({n, high})}) = IF 0 >= Min({n, high}) THEN 0 ELSE Min({n, high})
    BY <2>2, MaxOfTwo
  <2> QED
    BY <1>1, <2>1, <2>3 DEF Within
<1>2. Width - 1 \in Nat /\ Height - 1 \in Nat
  <2>1. Width \in Nat \ {0} /\ Height \in Nat \ {0}
    BY MosaicAssumption
  <2> QED
    BY <2>1
<1>3. o[1] \in Int /\ o[2] \in Int /\ o[3] \in Int /\ o[4] \in Int
  OBVIOUS
<1>4. /\ Within(0, o[1], Width - 1) \in 0..(Width - 1) /\ Within(0, o[2], Height - 1) \in 0..(Height - 1)
      /\ Within(0, o[3], Width - 1) \in 0..(Width - 1) /\ Within(0, o[4], Height - 1) \in 0..(Height - 1)
  BY <1>1, <1>2, <1>3
<1>5. Polygon(o) \in (0..(Width - 1)) \X (0..(Height - 1)) \X (0..(Width - 1)) \X (0..(Height - 1))
  BY <1>4 DEF Polygon
<1> QED
  BY <1>5 DEF Outlines

LEMMA MosaicInitHolds ==
  MosaicInit => MosaicInv
<1> SUFFICES ASSUME MosaicInit PROVE MosaicInv
  OBVIOUS
<1>1. \A s \in Scenes : s \in Seq([outline : Int \X Int \X Int \X Int, whitelisted : BOOLEAN, plate : BOOLEAN])
  BY MosaicAssumption
<1>2. Len(items) \in Nat
  BY <1>1, LenProperties DEF MosaicInit
<1>3. <<>> \in Seq(Outlines) /\ <<>> \in Seq(Groups) /\ DOMAIN <<>> = {}
  OBVIOUS
<1> QED
  BY <1>2, <1>3 DEF MosaicInit, MosaicInv, GroupsAreApart

LEMMA RefuseKeeps ==
  ASSUME MosaicInv, Refuse
  PROVE  MosaicInv'
BY DEF MosaicInv, Refuse, GroupsAreApart

LEMMA ComposesKeeps ==
  ASSUME MosaicInv, step = "called", Composes
  PROVE  MosaicInv'
<1>1. CASE Refuse
  BY <1>1, RefuseKeeps
<1>2. CASE Accepted /\ ~Refuse
  <2>1. /\ step' = IF items = <<>> THEN "grouping" ELSE "listing"
        /\ UNCHANGED <<setting, format, items, listed, polygons, group, groups, painted>>
    BY <1>2 DEF Composes, Accepted
  <2>2. listed = 0
    BY DEF MosaicInv
  <2>3. items \in Seq([outline : Int \X Int \X Int \X Int, whitelisted : BOOLEAN, plate : BOOLEAN])
    BY MosaicAssumption DEF MosaicInv
  <2>4. Len(items) \in Nat /\ (items = <<>> => Len(items) = 0) /\ (items # <<>> => Len(items) > 0)
    BY <2>3, LenProperties, EmptySeq
  <2>5. 1..listed = {}
    BY <2>2
  <2>6. /\ setting' \in Settings /\ items' \in Scenes /\ listed' \in 0..Len(items')
        /\ polygons' \in Seq(Outlines) /\ groups' \in Seq(Groups) /\ group' \in Groups \cup {NoGroup}
        /\ GroupsAreApart'
    BY <2>1 DEF MosaicInv, GroupsAreApart
  <2>7. step' = "listing" => listed' < Len(items')
    BY <2>1, <2>2, <2>4
  <2>8. step' = "grouping" => listed' = Len(items')
    BY <2>1, <2>2, <2>4
  <2>9. Accepted'
    BY <1>2, <2>1 DEF Accepted, ValidParams, ValidMargin, ValidPad
  <2>10. Required' = {}
    <3>1. 1..listed' = {}
      BY <2>1, <2>5
    <3> QED
      BY <3>1 DEF Required
  <2>11. step' \in {"listing", "grouping"}
    BY <2>1
  <2> QED
    BY <2>6, <2>7, <2>8, <2>9, <2>10, <2>11 DEF MosaicInv
<1>3. Refuse \/ Accepted
  BY DEF Composes, Accepted
<1> QED
  BY <1>1, <1>2, <1>3

LEMMA NextObjectKeeps ==
  ASSUME MosaicInv, NextObject
  PROVE  MosaicInv'
<1> DEFINE item == items[listed + 1]
           outline == Polygon(item.outline)
<1>1. CASE Refuse
  BY <1>1, RefuseKeeps
<1>2. CASE /\ \/ ~Protected(item) /\ UNCHANGED polygons
              \/ Protected(item) /\ HasArea(outline) /\ polygons' = Append(polygons, outline)
           /\ listed' = listed + 1
           /\ step' = IF listed' = Len(items) THEN "grouping" ELSE "listing"
           /\ UNCHANGED <<setting, format, items, group, groups, painted>>
  <2>1. items \in Seq([outline : Int \X Int \X Int \X Int, whitelisted : BOOLEAN, plate : BOOLEAN])
    BY MosaicAssumption DEF MosaicInv
  <2>2. Len(items) \in Nat /\ listed \in Nat /\ listed < Len(items)
    BY <2>1, LenProperties DEF MosaicInv, NextObject
  <2>3. listed + 1 \in 1..Len(items)
    BY <2>2
  <2>4. item \in [outline : Int \X Int \X Int \X Int, whitelisted : BOOLEAN, plate : BOOLEAN]
    BY <2>1, <2>3, ElementOfSeq
  <2>5. item.outline \in Int \X Int \X Int \X Int
    BY <2>4
  <2>6. Accepted /\ polygons \in Seq(Outlines) /\ Required \subseteq Held
    BY DEF MosaicInv, NextObject
  <2>7. /\ polygons' \in Seq(Outlines) /\ ToSet(polygons) \subseteq ToSet(polygons')
        /\ Protected(item) => outline \in ToSet(polygons')
    <3>1. CASE ~Protected(item) /\ UNCHANGED polygons
      BY <2>6, <3>1
    <3>2. CASE Protected(item) /\ HasArea(outline) /\ polygons' = Append(polygons, outline)
      <4>1. outline \in Outlines
        BY <2>5, <3>2, PolygonIsClipped
      <4> HIDE DEF outline
      <4> QED
        BY <2>6, <3>2, <4>1, AppendFacts
    <3> QED
      BY <1>2, <3>1, <3>2
  <2>8. Required' \subseteq Held'
    <3>1. items' = items /\ group' = group /\ groups' = groups /\ listed' = listed + 1
      BY <1>2
    <3>2. Held \subseteq Held'
      BY <2>7, <3>1 DEF Held
    <3>3. ASSUME NEW i \in 1..listed', Protected(items[i])
          PROVE  Polygon(items[i].outline) \in Held'
      <4>1. CASE i \in 1..listed
        <5>1. Polygon(items[i].outline) \in Required
          BY <3>3, <4>1 DEF Required
        <5> QED
          BY <2>6, <3>2, <5>1
      <4>2. CASE i = listed + 1
        BY <2>7, <3>3, <4>2 DEF Held
      <4>3. i \in 1..listed \/ i = listed + 1
        BY <2>2, <3>1
      <4> QED
        BY <4>1, <4>2, <4>3
    <3>4. Required' = {Polygon(items[i].outline) : i \in {j \in 1..listed' : Protected(items[j])}}
      BY <3>1 DEF Required, Polygon, Within, Protected
    <3> QED
      BY <3>3, <3>4
  <2>9. /\ setting' \in Settings /\ items' \in Scenes /\ listed' \in 0..Len(items')
        /\ groups' \in Seq(Groups) /\ group' \in Groups \cup {NoGroup} /\ GroupsAreApart'
    <3>1. setting' = setting /\ items' = items /\ groups' = groups /\ group' = group /\ listed' \in 0..Len(items)
      BY <1>2, <2>2
    <3> QED
      BY <3>1 DEF MosaicInv, GroupsAreApart
  <2>10. step' = "listing" => listed' < Len(items')
    BY <1>2, <2>2
  <2>11. step' = "grouping" => listed' = Len(items')
    BY <1>2
  <2>12. Accepted' /\ step' \in {"listing", "grouping"}
    BY <1>2, <2>6 DEF Accepted, ValidParams, ValidMargin, ValidPad
  <2> QED
    BY <2>7, <2>8, <2>9, <2>10, <2>11, <2>12 DEF MosaicInv
<1> QED
  BY <1>1, <1>2 DEF NextObject

\* What was asked for stays while polygons move between groups.
LEMMA HeldStaysHeld ==
  ASSUME MosaicInv, step = "grouping", step' = step,
         UNCHANGED <<setting, items, listed>>, Held \subseteq Held',
         polygons' \in Seq(Outlines), groups' \in Seq(Groups), group' \in Groups \cup {NoGroup},
         GroupsAreApart'
  PROVE  MosaicInv'
<1>1. Accepted /\ Required \subseteq Held
  BY DEF MosaicInv
<1>2. Required' = Required
  BY DEF Required, Polygon, Within, Protected
<1>3. Accepted'
  BY <1>1 DEF Accepted, ValidParams, ValidMargin, ValidPad
<1> QED
  BY <1>1, <1>2, <1>3 DEF MosaicInv

LEMMA NextPolygonKeeps ==
  ASSUME MosaicInv, NextPolygon
  PROVE  MosaicInv'
<1>1. /\ step = "grouping" /\ group = NoGroup /\ polygons # <<>> /\ polygons \in Seq(Outlines)
      /\ group' = [crop |-> Widened(Head(polygons)), members |-> {Head(polygons)}]
      /\ polygons' = Tail(polygons) /\ Accepted
      /\ UNCHANGED <<step, setting, items, listed, groups>>
  BY DEF NextPolygon, MosaicInv
<1>2. /\ Head(polygons) \in Outlines /\ Tail(polygons) \in Seq(Outlines)
      /\ ToSet(polygons) \subseteq {Head(polygons)} \cup ToSet(Tail(polygons))
  BY <1>1, HeadTailElements
<1>3. group' \in Groups
  BY <1>1, <1>2, WidenedHolds DEF Groups
<1>4. Held \subseteq Held'
  BY <1>1, <1>2 DEF Held, NoGroup
<1>5. GroupsAreApart' /\ groups' \in Seq(Groups)
  BY <1>1 DEF MosaicInv, GroupsAreApart
<1> QED
  BY <1>1, <1>2, <1>3, <1>4, <1>5, HeldStaysHeld

\* No group is lost, and what is left is as far apart as it was.
LEMMA AbsorbKeeps ==
  ASSUME MosaicInv, Absorb
  PROVE  MosaicInv'
<1> DEFINE i == Min(Touched)
           rest == RemoveAt(groups, i)
<1>1. /\ step = "grouping" /\ group \in Groups /\ groups \in Seq(Groups) /\ polygons \in Seq(Outlines)
      /\ group' = [crop |-> Hull(group.crop, groups[i].crop),
                   members |-> group.members \cup groups[i].members]
      /\ groups' = rest
      /\ UNCHANGED <<step, setting, items, listed, polygons>>
  BY DEF Absorb, MosaicInv
<1>2. Len(groups) \in Nat /\ DOMAIN groups = 1..Len(groups) /\ \A k \in 1..Len(groups) : groups[k] \in Groups
  BY <1>1, LenProperties, ElementOfSeq
<1>3. i \in 1..Len(groups)
  <2>1. Touched \in SUBSET Nat /\ Touched # {}
    BY <1>2 DEF Touched, Absorb
  <2>2. i \in Touched
    BY <2>1, MinIsLeast
  <2> QED
    BY <1>2, <2>2 DEF Touched
<1> HIDE DEF i
<1>4. /\ rest \in Seq(Groups) /\ Len(rest) = Len(groups) - 1
      /\ \A k \in 1..(i - 1) : rest[k] = groups[k]
      /\ \A k \in i..(Len(groups) - 1) : rest[k] = groups[k + 1]
  BY <1>1, <1>3, RemoveAtElements
<1> HIDE DEF rest
<1>5. Len(rest) \in Nat /\ DOMAIN rest = 1..Len(rest)
  BY <1>4, LenProperties
<1> DEFINE from(k) == IF k < i THEN k ELSE k + 1
<1>6. ASSUME NEW k \in DOMAIN rest
      PROVE  from(k) \in DOMAIN groups /\ rest[k] = groups[from(k)]
  <2>1. k \in 1..(i - 1) \/ k \in i..(Len(groups) - 1)
    BY <1>2, <1>3, <1>4, <1>5
  <2>2. CASE k \in 1..(i - 1)
    <3>1. k < i /\ k \in 1..Len(groups)
      BY <1>2, <1>3, <2>2
    <3> QED
      BY <1>2, <1>4, <2>2, <3>1
  <2>3. CASE k \in i..(Len(groups) - 1)
    <3>1. ~(k < i) /\ k + 1 \in 1..Len(groups)
      BY <1>2, <1>3, <2>3
    <3> QED
      BY <1>2, <1>4, <2>3, <3>1
  <2> QED
    BY <2>1, <2>2, <2>3
<1>7. GroupsAreApart'
  <2>1. ASSUME NEW j \in DOMAIN rest, NEW k \in DOMAIN rest, j # k
        PROVE  ~Overlap(rest[j].crop, rest[k].crop)
    <3>1. from(j) # from(k)
      BY <1>3, <1>5, <2>1
    <3> QED
      BY <1>6, <3>1 DEF MosaicInv, GroupsAreApart
  <2> QED
    BY <1>1, <2>1 DEF GroupsAreApart, Overlap
<1>8. group' \in Groups
  <2>1. /\ group.crop \in Rects /\ groups[i].crop \in Rects
        /\ group.members \in SUBSET Outlines /\ groups[i].members \in SUBSET Outlines
        /\ group.members # {}
        /\ \A b \in group.members : Encloses(group.crop, b)
        /\ \A b \in groups[i].members : Encloses(groups[i].crop, b)
    BY <1>1, <1>2, <1>3 DEF Groups
  <2>2. Hull(group.crop, groups[i].crop) \in Rects
        /\ \A b \in group.members \cup groups[i].members : Encloses(Hull(group.crop, groups[i].crop), b)
    BY <2>1, HullHolds
  <2> QED
    BY <1>1, <2>1, <2>2 DEF Groups
<1>9. Held \subseteq Held'
  <2>1. ASSUME NEW k \in DOMAIN groups
        PROVE  k = i \/ \E j \in DOMAIN rest : rest[j] = groups[k]
    <3>1. CASE k < i
      <4>1. k \in 1..(i - 1) /\ k \in DOMAIN rest
        BY <1>2, <1>3, <1>4, <1>5, <3>1
      <4> QED
        BY <1>4, <4>1
    <3>2. CASE k > i
      <4>1. k - 1 \in i..(Len(groups) - 1) /\ k - 1 \in DOMAIN rest /\ (k - 1) + 1 = k
        BY <1>2, <1>3, <1>4, <1>5, <3>2
      <4> QED
        BY <1>4, <4>1
    <3> QED
      BY <1>2, <1>3, <3>1, <3>2
  <2>2. UNION {groups[k].members : k \in DOMAIN groups}
           \subseteq groups[i].members \cup UNION {rest[k].members : k \in DOMAIN rest}
    BY <2>1
  <2> QED
    BY <1>1, <2>2 DEF Held
<1> QED
  BY <1>1, <1>4, <1>7, <1>8, <1>9, HeldStaysHeld

LEMMA CompleteKeeps ==
  ASSUME MosaicInv, Complete
  PROVE  MosaicInv'
<1>1. /\ step = "grouping" /\ group \in Groups /\ groups \in Seq(Groups) /\ polygons \in Seq(Outlines)
      /\ Touched = {} /\ groups' = Append(groups, group) /\ group' = NoGroup
      /\ UNCHANGED <<step, setting, items, listed, polygons>>
  BY DEF Complete, MosaicInv
<1>2. /\ Len(groups) \in Nat /\ DOMAIN groups = 1..Len(groups)
      /\ \A k \in 1..Len(groups) : groups[k] \in Groups
  BY <1>1, LenProperties, ElementOfSeq
<1>3. /\ groups' \in Seq(Groups) /\ Len(groups') = Len(groups) + 1
      /\ groups'[Len(groups) + 1] = group /\ \A k \in 1..Len(groups) : groups'[k] = groups[k]
      /\ DOMAIN groups' = 1..(Len(groups) + 1)
  <2>1. Append(groups, group) \in Seq(Groups) /\ DOMAIN Append(groups, group) = 1..Len(Append(groups, group))
    BY <1>1, AppendProperties, LenProperties
  <2> QED
    BY <1>1, <2>1, AppendProperties
<1>4. \A k \in DOMAIN groups : ~Overlap(group.crop, groups[k].crop) /\ ~Overlap(groups[k].crop, group.crop)
  BY <1>1 DEF Touched, Overlap
<1>5. GroupsAreApart'
  <2>1. ASSUME NEW j \in DOMAIN groups', NEW k \in DOMAIN groups', j # k
        PROVE  ~Overlap(groups'[j].crop, groups'[k].crop)
    <3>1. (j \in DOMAIN groups \/ j = Len(groups) + 1) /\ (k \in DOMAIN groups \/ k = Len(groups) + 1)
      BY <1>2, <1>3
    <3> QED
      BY <1>2, <1>3, <1>4, <2>1, <3>1 DEF MosaicInv, GroupsAreApart
  <2> QED
    BY <2>1 DEF GroupsAreApart, Overlap
<1>6. Held \subseteq Held'
  <2>1. DOMAIN groups \subseteq DOMAIN groups' /\ Len(groups) + 1 \in DOMAIN groups'
    BY <1>2, <1>3
  <2>2. group.members \cup UNION {groups[k].members : k \in DOMAIN groups}
           \subseteq UNION {groups'[k].members : k \in DOMAIN groups'}
    <3>1. ASSUME NEW k \in DOMAIN groups
          PROVE  groups[k].members \subseteq UNION {groups'[j].members : j \in DOMAIN groups'}
      <4>1. k \in DOMAIN groups' /\ groups'[k] = groups[k]
        BY <1>2, <1>3, <2>1
      <4> QED
        BY <4>1
    <3>2. group.members \subseteq UNION {groups'[j].members : j \in DOMAIN groups'}
      BY <1>3, <2>1
    <3> QED
      BY <3>1, <3>2
  <2> QED
    BY <1>1, <2>2 DEF Held
<1> QED
  BY <1>1, <1>3, <1>5, <1>6, HeldStaysHeld

\* All that was asked for is in the groups, whose layers are opaque on it.
LEMMA BlendKeeps ==
  ASSUME MosaicInv, Blend
  PROVE  MosaicInv'
<1>1. /\ step = "grouping" /\ group = NoGroup /\ polygons = <<>> /\ listed = Len(items)
      /\ Accepted /\ Required \subseteq Held /\ groups \in Seq(Groups) /\ GroupsAreApart
      /\ step' \in {"answered", "encoding"}
      /\ painted' = IF groups = <<>> THEN <<>>
                    ELSE BlendLayers([k \in DOMAIN groups |-> Layer(groups[k])])
      /\ UNCHANGED <<setting, items, listed, polygons, group, groups>>
  BY DEF Blend, MosaicInv
<1>2. Held = UNION {groups[k].members : k \in DOMAIN groups}
  <2>1. ToSet(polygons) = {}
    BY <1>1 DEF ToSet
  <2> QED
    BY <1>1, <2>1 DEF Held, NoGroup
<1>3. DOMAIN items = 1..Len(items)
  BY MosaicAssumption, LenProperties DEF MosaicInv
<1>4. ASSUME NEW j \in DOMAIN items, Protected(items[j]), NEW p \in Pixels(Polygon(items[j].outline))
      PROVE  p \in DOMAIN painted' /\ painted'[p][1] = 0
  <2>1. Polygon(items[j].outline) \in Required
    BY <1>1, <1>3, <1>4 DEF Required
  <2>2. PICK k \in DOMAIN groups : Polygon(items[j].outline) \in groups[k].members
    BY <1>1, <1>2, <2>1
  <2>3. groups # <<>>
    BY <2>2
  <2> QED
    BY <1>1, <1>4, <2>2, <2>3, BlendKeepsOpaque
<1>5. Hidden'
  BY <1>1, <1>4 DEF Hidden, Pixels, Polygon, Within, Protected
<1>6. GroupsAreApart'
  BY <1>1 DEF GroupsAreApart
<1> QED
  BY <1>1, <1>5, <1>6 DEF MosaicInv

LEMMA EncodeKeeps ==
  ASSUME MosaicInv, Encode
  PROVE  MosaicInv'
<1>1. /\ step = "encoding" /\ step' \in {"answered", "refused"} /\ Hidden
      /\ UNCHANGED <<setting, items, listed, polygons, group, groups, painted>>
  BY DEF Encode, MosaicInv
<1>2. Hidden' /\ GroupsAreApart'
  BY <1>1 DEF Hidden, MosaicInv, GroupsAreApart
<1> QED
  BY <1>1, <1>2 DEF MosaicInv

THEOREM MosaicInvariant ==
  MosaicSpec => []MosaicInv
<1>1. ASSUME MosaicInv, [MosaicNext]_mosaicVars
      PROVE  MosaicInv'
  <2>1. CASE MosaicJpeg
    BY <1>1, <2>1, ComposesKeeps DEF MosaicJpeg
  <2>2. CASE MosaicYuv420p
    BY <1>1, <2>2, ComposesKeeps, RefuseKeeps DEF MosaicYuv420p
  <2>3. CASE MosaicBgr
    BY <1>1, <2>3, ComposesKeeps DEF MosaicBgr
  <2>4. CASE NextObject
    BY <1>1, <2>4, NextObjectKeeps
  <2>5. CASE NextPolygon
    BY <1>1, <2>5, NextPolygonKeeps
  <2>6. CASE Absorb
    BY <1>1, <2>6, AbsorbKeeps
  <2>7. CASE Complete
    BY <1>1, <2>7, CompleteKeeps
  <2>8. CASE Blend
    BY <1>1, <2>8, BlendKeeps
  <2>9. CASE Encode
    BY <1>1, <2>9, EncodeKeeps
  <2>10. CASE UNCHANGED mosaicVars
    <3>1. UNCHANGED <<step, setting, items, listed, polygons, group, groups, painted>>
      BY <2>10 DEF mosaicVars
    <3> QED
      BY <1>1, <3>1 DEF MosaicInv, Accepted, ValidParams, ValidMargin, ValidPad, Required, Held,
         GroupsAreApart, Hidden
  <2> QED
    BY <1>1, <2>1, <2>2, <2>3, <2>4, <2>5, <2>6, <2>7, <2>8, <2>9, <2>10 DEF MosaicNext
<1> QED
  BY <1>1, MosaicInitHolds, PTL DEF MosaicSpec

\* Every frame that is answered, and not only those small enough for TLC, hides
\* each face that is not whitelisted and each plate: no setting, grouping or
\* blending leaves a pixel of an outline as it was, or half covered.
THEOREM AnswersHideTheProtected ==
  MosaicSpec => []ProtectedAreOpaque
<1>1. ASSUME MosaicInv PROVE ProtectedAreOpaque
  BY <1>1 DEF MosaicInv, Hidden, Pixels, Protected, ProtectedAreOpaque
<1> QED
  BY <1>1, MosaicInvariant, PTL

-----------------------------------------------------------------------------
(* The mosaic: the blur of a crop is the frame's.                              *)

\* \div on naturals: a quotient is the one number whose interval holds a.
LEMMA DivIs ==
  ASSUME NEW a \in Nat, NEW c \in Nat \ {0}
  PROVE  a \div c \in Nat /\ c * (a \div c) <= a /\ a < c * (a \div c) + c
OBVIOUS

LEMMA DivIsOnly ==
  ASSUME NEW a \in Nat, NEW c \in Nat \ {0}, NEW q \in Int, c * q <= a, a < c * q + c
  PROVE  a \div c = q
<1> DEFINE d == a \div c
<1>1. d \in Nat /\ c * d <= a /\ a < c * d + c
  BY DivIs
<1> HIDE DEF d
<1>2. CASE d < q
  <2>1. d + 1 <= q
    BY <1>1, <1>2
  <2>2. PICK e \in Nat : q = d + 1 + e
    <3>1. q - (d + 1) \in Nat
      BY <1>1, <2>1
    <3> QED
      BY <1>1, <3>1
  <2>3. c * q = c * d + c + c * e /\ c * e >= 0
    BY <1>1, <2>2
  <2> QED
    BY <1>1, <2>3
<1>3. CASE q < d
  <2>1. PICK e \in Nat : d = q + 1 + e
    <3>1. d - (q + 1) \in Nat
      BY <1>1, <1>3
    <3> QED
      BY <1>1, <3>1
  <2>2. c * d = c * q + c + c * e /\ c * e >= 0
    BY <1>1, <2>1
  <2> QED
    BY <1>1, <2>2
<1>4. d = q
  BY <1>1, <1>2, <1>3
<1> QED
  BY <1>4 DEF d

\* Whole cells can be taken off before a division.
LEMMA DivShift ==
  ASSUME NEW a \in Nat, NEW c \in Nat \ {0}, NEW l \in Nat, c * l <= a
  PROVE  (a - c * l) \div c = a \div c - l
<1> DEFINE q == a \div c
<1>1. q \in Nat /\ c * q <= a /\ a < c * q + c
  BY DivIs
<1> HIDE DEF q
<1>2. a - c * l \in Nat /\ q - l \in Int /\ c * (q - l) = c * q - c * l
  BY <1>1
<1>3. c * (q - l) <= a - c * l /\ a - c * l < c * (q - l) + c
  BY <1>1, <1>2
<1>4. (a - c * l) \div c = q - l
  BY <1>2, <1>3, DivIsOnly
<1> QED
  BY <1>4 DEF q

LEMMA ModOfSmall ==
  ASSUME NEW n \in Nat \ {0}, NEW i \in Int
  PROVE  /\ 0 <= i /\ i < n => i % n = i
         /\ 0 - n <= i /\ i < 0 => i % n = i + n
OBVIOUS

LEMMA WithinIs ==
  ASSUME NEW n \in Int, NEW high \in Nat
  PROVE  Within(0, n, high) = IF n < 0 THEN 0 ELSE IF n > high THEN high ELSE n
<1>1. Min({n, high}) = IF n <= high THEN n ELSE high
  BY MinOfTwo
<1>2. Min({n, high}) \in Int
  BY <1>1
<1>3. Max({0, Min({n, high})}) = IF 0 >= Min({n, high}) THEN 0 ELSE Min({n, high})
  BY <1>2, MaxOfTwo
<1> QED
  BY <1>1, <1>3 DEF Within

\* What is reflected once at most.
LEMMA ReflectedIs ==
  ASSUME NEW n \in Nat, n > 1, NEW i \in Int
  PROVE  /\ 0 <= i /\ i < n => Reflected(i, n) = i
         /\ n <= i /\ i < 2 * (n - 1) => Reflected(i, n) = 2 * (n - 1) - i
         /\ i < 0 /\ 0 - (n - 2) <= i => Reflected(i, n) = 0 - i
<1> DEFINE period == 2 * (n - 1)
<1>1. period \in Nat \ {0} /\ period >= n
  OBVIOUS
<1>2. Reflected(i, n) = IF i % period < n THEN i % period ELSE period - (i % period)
  <2>1. n # 1
    OBVIOUS
  <2>2. Reflected(i, n) =
           IF n = 1 THEN 0
           ELSE IF i % (2 * (n - 1)) < n THEN i % (2 * (n - 1))
                ELSE 2 * (n - 1) - (i % (2 * (n - 1)))
    BY DEF Reflected
  <2> QED
    BY <2>1, <2>2, Zenon
<1>3. /\ 0 <= i /\ i < period => i % period = i
      /\ 0 - period <= i /\ i < 0 => i % period = i + period
  <2> HIDE DEF period
  <2> QED
    BY <1>1, ModOfSmall
<1>4. ASSUME 0 <= i, i < n PROVE Reflected(i, n) = i
  BY <1>1, <1>2, <1>3, <1>4
<1>5. ASSUME n <= i, i < period PROVE Reflected(i, n) = period - i
  BY <1>1, <1>2, <1>3, <1>5
<1>6. ASSUME i < 0, 0 - (n - 2) <= i PROVE Reflected(i, n) = 0 - i
  <2>1. 0 - period <= i
    BY <1>6
  <2>2. i % period = i + period /\ i + period >= n
    BY <1>3, <1>6, <2>1
  <2> QED
    BY <1>1, <1>2, <2>2, <1>6
<1> QED
  BY <1>4, <1>5, <1>6

\* The cell at an offset from cell p of n, after clamping and reflection.
CellRead(p, j, k, n) == Reflected(Within(0, p + j, n - 1) + k, n)

\* Of N cells n are kept and l cut off below, none that cell p can reach by r.
CellsFit(N, n, l, p, r) ==
    /\ {N, n, l, p, r} \subseteq Nat
    /\ l <= p /\ p < N /\ p - l < n /\ n + l <= N
    /\ l = 0 \/ p - l >= r + 3
    /\ n + l = N \/ n >= p - l + r + 3

LEMMA CellsAreTheFrames ==
  ASSUME NEW N, NEW n, NEW l, NEW p, NEW r, CellsFit(N, n, l, p, r),
         NEW j \in -1..1, NEW k \in -r..r
  PROVE  l + CellRead(p - l, j, k, n) = CellRead(p, j, k, N)
<1> DEFINE a == Within(0, p - l + j, n - 1)
           b == Within(0, p + j, N - 1)
<1>f. /\ N \in Nat /\ n \in Nat /\ l \in Nat /\ p \in Nat /\ r \in Nat
      /\ l <= p /\ p < N /\ p - l < n /\ n + l <= N
      /\ l = 0 \/ p - l >= r + 3
      /\ n + l = N \/ n >= p - l + r + 3
  BY DEF CellsFit
<1>0. N \in Int /\ n \in Int /\ l \in Int /\ p \in Int /\ r \in Int /\ j \in Int /\ k \in Int
      /\ -1 <= j /\ j <= 1 /\ 0 - r <= k /\ k <= r /\ n >= 1 /\ N >= 1
  BY <1>f
<1>1. /\ a = IF p - l + j < 0 THEN 0 ELSE IF p - l + j > n - 1 THEN n - 1 ELSE p - l + j
      /\ b = IF p + j < 0 THEN 0 ELSE IF p + j > N - 1 THEN N - 1 ELSE p + j
  <2>1. n - 1 \in Nat /\ N - 1 \in Nat /\ p - l + j \in Int /\ p + j \in Int
    BY <1>0, <1>f
  <2> QED
    BY <2>1, WithinIs
<1> SUFFICES l + Reflected(a + k, n) = Reflected(b + k, N)
  BY DEF CellRead
<1> HIDE DEF a, b
<1>2. CASE l = 0 /\ n + l = N
  <2>1. n = N /\ p - l + j = p + j
    BY <1>0, <1>f, <1>2
  <2>2. a = b
    BY <1>1, <2>1
  <2>3. Reflected(a + k, n) \in Int
    <3>1. a + k \in Int
      BY <1>0, <1>f, <1>1
    <3>2. CASE n = 1
      BY <3>2 DEF Reflected
    <3>3. CASE n # 1
      <4> DEFINE period == 2 * (n - 1)
      <4>1. period \in Nat \ {0}
        BY <1>0, <1>f, <3>3
      <4>2. (a + k) % period \in Int
        <5> HIDE DEF period
        <5> QED
          BY <3>1, <4>1
      <4> QED
        BY <3>3, <4>1, <4>2 DEF Reflected
    <3> QED
      BY <3>2, <3>3
  <2> QED
    BY <1>2, <2>1, <2>2, <2>3
<1>3. CASE l > 0
  <2>1. /\ n >= r + 4 /\ b = a + l /\ a >= r + 2 /\ a <= n - 1
        /\ n + l = N \/ a + r < n
    BY <1>0, <1>f, <1>1, <1>3
  <2>a. a \in Int /\ b \in Int
    BY <1>0, <1>f, <1>1
  <2>2. a + k \in Int /\ a + k >= 0 /\ a + k < 2 * (n - 1) /\ b + k = a + k + l /\ b + k < 2 * (N - 1)
    <3>1. a + k >= 2 /\ a + k <= n - 1 + r /\ r <= n - 4
      BY <1>0, <1>f, <2>1, <2>a
    <3>2. b + k = a + k + l
      BY <1>0, <1>f, <2>1, <2>a
    <3>3. a + k < 2 * (n - 1)
      BY <1>0, <1>f, <2>a, <3>1
    <3>4. b + k <= n - 1 + r + l /\ n + l <= N /\ r <= N - 4
      BY <1>0, <1>f, <2>a, <3>1, <3>2
    <3>5. b + k < 2 * (N - 1)
      BY <1>0, <1>f, <2>a, <3>4
    <3> QED
      BY <1>0, <1>f, <2>a, <3>1, <3>2, <3>3, <3>5
  <2>3. CASE a + k < n
    <3>1. Reflected(a + k, n) = a + k
      BY <1>0, <1>f, <2>1, <2>2, <2>3, ReflectedIs
    <3>2. b + k \in Int /\ 0 <= b + k /\ b + k < N
      BY <1>0, <1>f, <2>1, <2>2, <2>3
    <3>3. Reflected(b + k, N) = b + k
      BY <1>0, <1>f, <2>1, <3>2, ReflectedIs
    <3> QED
      BY <1>0, <1>f, <2>2, <3>1, <3>3
  <2>4. CASE a + k >= n
    <3>1. Reflected(a + k, n) = 2 * (n - 1) - (a + k)
      <4> DEFINE i == a + k
      <4>1. n \in Nat /\ n > 1 /\ i \in Int /\ n <= i /\ i < 2 * (n - 1)
        BY <1>0, <1>f, <2>1, <2>2, <2>4
      <4> HIDE DEF i
      <4>2. Reflected(i, n) = 2 * (n - 1) - i
        BY <4>1, ReflectedIs
      <4> QED
        BY <4>2, Zenon DEF i
    <3>2. n + l = N /\ b + k \in Int /\ N <= b + k
      <4>1. ~(a + r < n)
        BY <1>0, <1>f, <2>a, <2>4
      <4> QED
        BY <1>0, <1>f, <2>1, <2>2, <2>a, <2>4, <4>1
    <3>3. Reflected(b + k, N) = 2 * (N - 1) - (b + k)
      <4> DEFINE i == b + k
      <4>1. N \in Nat /\ N > 1 /\ i \in Int /\ N <= i /\ i < 2 * (N - 1)
        BY <1>0, <1>f, <2>1, <2>2, <3>2
      <4> HIDE DEF i
      <4>2. Reflected(i, N) = 2 * (N - 1) - i
        BY <4>1, ReflectedIs
      <4> QED
        BY <4>2, Zenon DEF i
    <3>4. l + (2 * (n - 1) - (a + k)) = 2 * (N - 1) - (b + k)
      BY <1>0, <1>f, <2>2, <3>2
    <3> QED
      BY <3>1, <3>3, <3>4
  <2> QED
    BY <1>0, <1>f, <2>2, <2>3, <2>4
<1>4. CASE l = 0 /\ n + l < N
  <2>1. n >= p + r + 3 /\ a = b /\ a \in Nat /\ a + r < n /\ n < N
    BY <1>0, <1>f, <1>1, <1>4
  <2>2. a + k \in Int /\ a + k < n /\ a + k < N /\ a + k >= 0 - r
    BY <1>0, <1>f, <2>1
  <2>3. CASE a + k >= 0
    <3>1. Reflected(a + k, n) = a + k /\ Reflected(a + k, N) = a + k
      BY <1>0, <1>f, <2>1, <2>2, <2>3, ReflectedIs
    <3> QED
      BY <1>4, <2>1, <2>2, <3>1
  <2>4. CASE a + k < 0
    <3>1. Reflected(a + k, n) = 0 - (a + k) /\ Reflected(a + k, N) = 0 - (a + k)
      BY <1>0, <1>f, <2>1, <2>2, <2>4, ReflectedIs
    <3> QED
      BY <1>4, <2>1, <2>2, <3>1
  <2> QED
    BY <2>2, <2>3, <2>4
<1> QED
  BY <1>0, <1>f, <1>2, <1>3, <1>4

LEMMA ReflectedIsInt ==
  ASSUME NEW n \in Nat \ {0}, NEW i \in Int
  PROVE  Reflected(i, n) \in Int
<1>1. CASE n = 1
  BY <1>1 DEF Reflected
<1>2. CASE n # 1
  <2> DEFINE period == 2 * (n - 1)
  <2>1. period \in Nat \ {0}
    BY <1>2
  <2>2. i % period \in Int
    <3> HIDE DEF period
    <3> QED
      BY <2>1
  <2>3. Reflected(i, n) = IF i % period < n THEN i % period ELSE period - (i % period)
    <3>1. Reflected(i, n) =
             IF n = 1 THEN 0
             ELSE IF i % (2 * (n - 1)) < n THEN i % (2 * (n - 1))
                  ELSE 2 * (n - 1) - (i % (2 * (n - 1)))
      BY DEF Reflected
    <3> QED
      BY <1>2, <3>1, Zenon
  <2> HIDE DEF period
  <2> QED
    BY <2>1, <2>2, <2>3
<1> QED
  BY <1>1, <1>2

LEMMA MulCancel ==
  ASSUME NEW c \in Nat \ {0}, NEW a \in Int, NEW b \in Int, c * a < c * b
  PROVE  a < b
<1> SUFFICES ASSUME b <= a PROVE FALSE
  OBVIOUS
<1>1. PICK e \in Nat : a = b + e
  <2>1. a - b \in Nat
    OBVIOUS
  <2> QED
    BY <2>1
<1>2. c * a = c * b + c * e /\ c * e >= 0
  BY <1>1
<1> QED
  BY <1>2

LEMMA CellsAreWhole ==
  ASSUME Accepted
  PROVE  ReductionCell \in Nat \ {0} /\ Kernel \in Nat /\ BlurSupport = ReductionCell * (Kernel + 3)
<1>1. MaxSigma \in Nat \ {0} /\ MaxRadius \in Nat /\ MaxPixel \in Nat
  BY MosaicAssumption
<1>2. setting.radius \in Nat \ {0} /\ setting.pixel \in Nat \ {0}
  BY <1>1 DEF Accepted, ValidParams
<1>3. CeilDiv(setting.radius, MaxSigma) \in Nat
  <2>1. setting.radius + MaxSigma - 1 \in Nat
    BY <1>1, <1>2
  <2> QED
    BY <1>1, <2>1, DivIs DEF CeilDiv
<1>4. ReductionCell \in Nat \ {0}
  BY <1>2, <1>3, MaxOfTwo DEF ReductionCell
<1>5. Kernel \in Nat
  <2>1. 3 * setting.radius + ReductionCell - 1 \in Nat
    BY <1>2, <1>4
  <2> QED
    BY <1>4, <2>1, DivIs DEF Kernel, CeilDiv
<1> QED
  BY <1>4, <1>5 DEF BlurSupport

\* Along an axis of W pixels: the crop around left..(right - 1) keeps all that a
\* pixel of it reads, on the frame's own grid.
LEMMA ReadsAreTheFrames ==
  ASSUME Accepted, NEW W \in Nat, NEW left \in Nat, NEW right \in Nat, NEW p \in Nat,
         left <= p, p < right, right <= W
  PROVE  Reads(p, Aligned(Max({0, left - BlurSupport})),
                  Min({W, ReductionCell * CeilDiv(right + BlurSupport, ReductionCell)}))
            = Reads(p, 0, W)
<1> DEFINE c == ReductionCell
           r == Kernel
           s == BlurSupport
           start == Max({0, left - s})
           l == start \div c
           h == CeilDiv(right + s, c)
           low == Aligned(start)
           high == Min({W, c * h})
           P == p \div c
           N == CeilDiv(W, c)
           n == CeilDiv(high - low, c)
           cell == (p - low) \div c
<1>1. c \in Nat \ {0} /\ r \in Nat /\ s = c * (r + 3)
  BY CellsAreWhole
<1>2. Reads(p, low, high) = [d \in (-1..1) \X (-r..r) |->
                                low + c * Reflected(Within(0, cell + d[1], n - 1) + d[2], n)]
  BY DEF Reads
<1>3. Reads(p, 0, W) = [d \in (-1..1) \X (-r..r) |->
                           0 + c * Reflected(Within(0, (p - 0) \div c + d[1], CeilDiv(W - 0, c) - 1) + d[2],
                                             CeilDiv(W - 0, c))]
  BY DEF Reads
<1>4. low = l * c
  BY DEF Aligned
<1>5. CeilDiv(W - 0, c) = N /\ (p - 0) \div c = P
  BY DEF CeilDiv
<1>6. N = (W + c - 1) \div c /\ h = (right + s + c - 1) \div c /\ n = (high - low + c - 1) \div c
  BY DEF CeilDiv
<1>7. /\ start = IF 0 >= left - s THEN 0 ELSE left - s
      /\ s \in Nat
  <2>1. s \in Nat
    BY <1>1
  <2>2. left - s \in Int
    BY <2>1
  <2> QED
    BY <2>1, <2>2, MaxOfTwo
<1>8. h \in Nat /\ high = IF W <= c * h THEN W ELSE c * h
  <2>1. right + s + c - 1 \in Nat
    BY <1>1, <1>7
  <2>2. h \in Nat
    BY <1>1, <1>6, <2>1, DivIs
  <2>3. c * h \in Int
    BY <1>1, <2>2
  <2> QED
    BY <2>2, <2>3, MinOfTwo
<1> HIDE DEF c, r, s
<1>9. start \in Nat /\ l \in Nat /\ c * l <= start /\ start < c * l + c
  <2>1. start \in Nat
    BY <1>1, <1>7
  <2> HIDE DEF start
  <2> QED
    BY <1>1, <2>1, DivIs
<1>10. P \in Nat /\ c * P <= p /\ p < c * P + c
  BY <1>1, DivIs
<1>11. N \in Nat /\ c * N <= W + c - 1 /\ W + c - 1 < c * N + c
  <2>1. W + c - 1 \in Nat
    BY <1>1
  <2> HIDE DEF N
  <2> QED
    BY <1>1, <1>6, <2>1, DivIs
<1>12. c * h <= right + s + c - 1 /\ right + s + c - 1 < c * h + c
  <2>1. right + s + c - 1 \in Nat
    BY <1>1, <1>7
  <2> HIDE DEF h
  <2> QED
    BY <1>1, <1>6, <2>1, DivIs
<1> HIDE DEF start, l, h, low, high, P, N, n, cell
<1>13. c * l <= p /\ low = c * l
  BY <1>1, <1>4, <1>7, <1>9
<1>14. l <= P
  <2>1. c * l < c * (P + 1)
    BY <1>1, <1>9, <1>10, <1>13
  <2>2. l < P + 1
    BY <1>1, <1>9, <1>10, <2>1, MulCancel
  <2> QED
    BY <1>9, <1>10, <2>2
<1>15. P < N
  <2>1. c * (P + 1) < c * (N + 1)
    BY <1>1, <1>10, <1>11
  <2>2. P + 1 < N + 1
    BY <1>1, <1>10, <1>11, <2>1, MulCancel
  <2> QED
    BY <1>10, <1>11, <2>2
<1>16. l = 0 \/ P - l >= r + 3
  <2> SUFFICES ASSUME l # 0 PROVE P - l >= r + 3
    OBVIOUS
  <2>1. c * l >= c
    <3>1. PICK e \in Nat : l = e + 1
      <4>1. l - 1 \in Nat
        BY <1>9
      <4> QED
        BY <1>9, <4>1
    <3>2. c * l = c * e + c /\ c * e >= 0
      BY <1>1, <3>1
    <3> QED
      BY <1>1, <3>2
  <2>2. start > 0
    BY <1>1, <1>9, <2>1
  <2>3. start = left - s
    BY <1>7, <2>2
  <2>4. c * (l + r + 3) = c * l + s
    BY <1>1, <1>9
  <2>5. c * (l + r + 3) < c * (P + 1)
    BY <1>1, <1>7, <1>9, <1>10, <2>3, <2>4
  <2>6. l + r + 3 < P + 1
    <3>1. l + r + 3 \in Int /\ P + 1 \in Int
      BY <1>1, <1>9, <1>10
    <3> QED
      BY <1>1, <2>5, <3>1, MulCancel
  <2> QED
    BY <1>1, <1>9, <1>10, <2>6
<1>17. n \in Nat /\ n + l <= N /\ P - l < n /\ (n + l = N \/ n >= P - l + r + 3)
  <2>1. CASE W <= c * h
    <3>1. high = W
      BY <1>8, <2>1
    <3>2. W + c - 1 \in Nat /\ c * l <= W + c - 1 /\ high - low + c - 1 = (W + c - 1) - c * l
      BY <1>1, <1>9, <1>13, <3>1
    <3>3. n = N - l
      <4>1. ((W + c - 1) - c * l) \div c = (W + c - 1) \div c - l
        <5> DEFINE a == W + c - 1
        <5>1. a \in Nat /\ c \in Nat \ {0} /\ l \in Nat /\ c * l <= a
          BY <1>1, <1>9, <3>2
        <5> HIDE DEF a
        <5>2. (a - c * l) \div c = a \div c - l
          BY <5>1, DivShift
        <5> QED
          BY <5>2, Zenon DEF a
      <4>2. n = ((W + c - 1) - c * l) \div c
        BY <1>6, <3>2, Zenon
      <4> QED
        BY <1>6, <4>1, <4>2, Zenon
    <3> QED
      BY <1>9, <1>10, <1>11, <1>14, <1>15, <3>3
  <2>2. CASE ~(W <= c * h)
    <3>1. high = c * h /\ c * h < W
      BY <1>1, <1>8, <2>2
    <3>2. c * h >= right + s
      BY <1>1, <1>7, <1>8, <1>12
    <3>3. c * h + c - 1 \in Nat /\ c * l <= c * h + c - 1 /\ high - low + c - 1 = (c * h + c - 1) - c * l
      BY <1>1, <1>7, <1>8, <1>9, <1>13, <3>1, <3>2
    <3>4. (c * h + c - 1) \div c = h
      BY <1>1, <1>8, <3>3, DivIsOnly
    <3>5. n = h - l
      <4>1. ((c * h + c - 1) - c * l) \div c = (c * h + c - 1) \div c - l
        <5> DEFINE a == c * h + c - 1
        <5>1. a \in Nat /\ c \in Nat \ {0} /\ l \in Nat /\ c * l <= a
          BY <1>1, <1>9, <3>3
        <5> HIDE DEF a
        <5>2. (a - c * l) \div c = a \div c - l
          BY <5>1, DivShift
        <5> QED
          BY <5>2, Zenon DEF a
      <4>2. n = ((c * h + c - 1) - c * l) \div c
        BY <1>6, <3>3, Zenon
      <4> QED
        BY <3>4, <4>1, <4>2, Zenon
    <3>6. h < N + 1
      <4>1. c * h < c * (N + 1)
        BY <1>1, <1>8, <1>11, <3>1
      <4> QED
        BY <1>1, <1>8, <1>11, <4>1, MulCancel
    <3>7. P + r + 3 < h
      <4>1. c * (P + r + 3) = c * P + s
        BY <1>1, <1>10
      <4>2. c * (P + r + 3) < c * h
        BY <1>1, <1>7, <1>8, <1>10, <3>2, <4>1
      <4>3. P + r + 3 \in Int
        BY <1>1, <1>10
      <4> QED
        BY <1>1, <1>8, <4>2, <4>3, MulCancel
    <3> QED
      BY <1>1, <1>8, <1>9, <1>10, <1>11, <1>14, <3>5, <3>6, <3>7
  <2> QED
    BY <2>1, <2>2
<1>18. cell = P - l
  <2>1. cell = (p - c * l) \div c
    BY <1>13 DEF cell
  <2> QED
    BY <1>1, <1>9, <1>13, <2>1, DivShift DEF P
<1>19. ASSUME NEW j \in -1..1, NEW k \in -r..r
       PROVE  low + c * Reflected(Within(0, cell + j, n - 1) + k, n)
                 = 0 + c * Reflected(Within(0, P + j, N - 1) + k, N)
  <2> DEFINE a == Reflected(Within(0, P - l + j, n - 1) + k, n)
             b == Reflected(Within(0, P + j, N - 1) + k, N)
  <2>1. l + a = b
    <3>1. CellsFit(N, n, l, P, r)
      BY <1>1, <1>9, <1>10, <1>11, <1>14, <1>15, <1>16, <1>17 DEF CellsFit
    <3>2. l + CellRead(P - l, j, k, n) = CellRead(P, j, k, N)
      BY <3>1, CellsAreTheFrames
    <3> QED
      BY <3>2, Zenon DEF CellRead
  <2>2. a \in Int
    <3>1. n \in Nat \ {0} /\ n - 1 \in Nat /\ P - l + j \in Int
      BY <1>9, <1>10, <1>14, <1>17
    <3>2. Within(0, P - l + j, n - 1) \in Int
      BY <3>1, WithinIs
    <3>3. Within(0, P - l + j, n - 1) + k \in Int
      BY <1>1, <3>2
    <3> QED
      BY <3>1, <3>3, ReflectedIsInt
  <2>3. low + c * a = 0 + c * b
    <3> HIDE DEF a, b
    <3>1. c * b = c * l + c * a
      BY <1>1, <1>9, <2>1, <2>2
    <3> QED
      BY <1>1, <1>9, <1>13, <2>2, <3>1
  <2> QED
    BY <1>18, <2>3
<1>20. Reads(p, low, high) = Reads(p, 0, W)
  <2> DEFINE F(d) == low + c * Reflected(Within(0, cell + d[1], n - 1) + d[2], n)
             G(d) == 0 + c * Reflected(Within(0, P + d[1], N - 1) + d[2], N)
             D == (-1..1) \X (-r..r)
  <2>1. Reads(p, low, high) = [d \in D |-> F(d)]
    BY <1>2
  <2>2. Reads(p, 0, W) = [d \in D |-> G(d)]
    BY <1>3, <1>5, Zenon
  <2>3. \A d \in D : F(d) = G(d)
    BY <1>19
  <2> HIDE DEF F, G, D
  <2>4. [d \in D |-> F(d)] = [d \in D |-> G(d)]
    BY <2>3
  <2> QED
    BY <2>1, <2>2, <2>4, Zenon
<1> QED
  BY <1>20 DEF low, high, start, h, s, c

\* A blur that is computed for a box is the frame's, in all of the box.
LEMMA BlurIsTheFrames ==
  ASSUME Accepted, NEW box \in Rects, NEW p \in In(box)
  PROVE  FrameBlur(p, BlurCrop(box)) = FrameBlur(p, Full)
<1>1. Width \in Nat /\ Height \in Nat
  BY MosaicAssumption
<1>2. /\ box.left \in Nat /\ box.top \in Nat /\ box.right \in Nat /\ box.bottom \in Nat
      /\ box.right <= Width /\ box.bottom <= Height
  BY <1>1 DEF Rects
<1>3. /\ p[1] \in Nat /\ p[2] \in Nat
      /\ box.left <= p[1] /\ p[1] < box.right /\ box.top <= p[2] /\ p[2] < box.bottom
  BY <1>1, PixelsAreNat
<1>4. /\ Reads(p[1], BlurCrop(box).left, BlurCrop(box).right) = Reads(p[1], 0, Width)
      /\ Reads(p[2], BlurCrop(box).top, BlurCrop(box).bottom) = Reads(p[2], 0, Height)
  BY <1>1, <1>2, <1>3, ReadsAreTheFrames DEF BlurCrop
<1> QED
  BY <1>4 DEF FrameBlur, Full

-----------------------------------------------------------------------------
(* The mosaic: parts of a frame against the whole of it.                       *)

NearBy(p, q, d) ==
    /\ q[1] - d <= p[1] /\ p[1] <= q[1] + d
    /\ q[2] - d <= p[2] /\ p[2] <= q[2] + d

Covers(crop, w) ==
    crop.left <= w.left /\ crop.top <= w.top /\ w.right <= crop.right /\ w.bottom <= crop.bottom

\* Crops have room for what masks grow to.
Roomy == \A k \in DOMAIN groups : \A b \in groups[k].members : Covers(groups[k].crop, Widened(b))

\* What the layers are made from.
Grouped == Accepted /\ groups \in Seq(Groups) /\ GroupsAreApart /\ Roomy

\* Of each pixel of S, all that is at most e away is in the crop of one group.
Sparse(S, e) ==
    /\ S \subseteq In(Full)
    /\ \A q \in S : \E k \in DOMAIN groups :
          \A p \in In(Full) : NearBy(p, q, e) => p \in In(groups[k].crop)

Dist(p, q) == Sq(p[1] - q[1]) + Sq(p[2] - q[2])

\* S reaches as far as d before q, on both axes.
Spans(S, d, q) ==
    /\ \E s \in S : s[1] - d <= q[1]
    /\ \E s \in S : q[1] <= s[1] + d
    /\ \E s \in S : s[2] - d <= q[2]
    /\ \E s \in S : q[2] <= s[2] + d

LEMMA SqGrows ==
  ASSUME NEW a \in Int, NEW b \in Int, (0 - b <= a /\ a <= b) \/ (b <= a /\ a <= 0 - b)
  PROVE  Sq(a) <= Sq(b)
<1>1. ASSUME NEW x \in Nat, NEW y \in Nat, x <= y PROVE x * x <= y * y
  <2>1. PICK e \in Nat : y = x + e
    <3>1. y - x \in Nat
      BY <1>1
    <3> QED
      BY <3>1
  <2>2. y * y = x * x + (2 * (x * e) + e * e) /\ x * e >= 0 /\ e * e >= 0
    BY <2>1
  <2>3. x * x \in Int /\ x * e \in Int /\ e * e \in Int /\ y * y \in Int
    BY <2>1
  <2> QED
    BY <2>2, <2>3
<1>2. \A n \in Int : n * n = (0 - n) * (0 - n)
  OBVIOUS
<1> DEFINE x == IF a >= 0 THEN a ELSE 0 - a
           y == IF b >= 0 THEN b ELSE 0 - b
<1>3. x \in Nat /\ y \in Nat /\ x <= y
  OBVIOUS
<1>4. a * a = x * x /\ b * b = y * y
  BY <1>2
<1> QED
  BY <1>1, <1>3, <1>4 DEF Sq

LEMMA SqBounds ==
  ASSUME NEW m \in Nat, NEW a \in Int, Sq(a) <= Sq(m)
  PROVE  0 - m <= a /\ a <= m
<1> SUFFICES ASSUME ~(0 - m <= a /\ a <= m) PROVE FALSE
  OBVIOUS
<1>1. 0 - (m + 1) >= a \/ a >= m + 1
  OBVIOUS
<1>2. Sq(m + 1) <= Sq(a)
  <2>1. m + 1 \in Int /\ ((0 - a <= m + 1 /\ m + 1 <= a) \/ (a <= m + 1 /\ m + 1 <= 0 - a))
    BY <1>1
  <2> QED
    BY <2>1, SqGrows
<1>3. Sq(m + 1) = Sq(m) + 2 * m + 1
  BY DEF Sq
<1>4. Sq(m) \in Nat /\ Sq(a) \in Nat
  BY SquareIsNat
<1> QED
  BY <1>2, <1>3, <1>4

LEMMA DistIsNat ==
  ASSUME NEW p, NEW q, p[1] \in Int, p[2] \in Int, q[1] \in Int, q[2] \in Int
  PROVE  Dist(p, q) \in Nat
<1>1. p[1] - q[1] \in Int /\ p[2] - q[2] \in Int
  OBVIOUS
<1>2. Sq(p[1] - q[1]) \in Nat /\ Sq(p[2] - q[2]) \in Nat
  BY <1>1, SquareIsNat
<1> QED
  BY <1>2 DEF Dist

LEMMA DistIsClose ==
  ASSUME NEW p, NEW q, p[1] \in Int, p[2] \in Int, q[1] \in Int, q[2] \in Int,
         NEW m \in Nat, Dist(p, q) <= Sq(m)
  PROVE  NearBy(p, q, m)
<1>1. p[1] - q[1] \in Int /\ p[2] - q[2] \in Int
  OBVIOUS
<1>2. Sq(p[1] - q[1]) \in Nat /\ Sq(p[2] - q[2]) \in Nat /\ Sq(m) \in Nat
  BY <1>1, SquareIsNat
<1>3. Sq(p[1] - q[1]) <= Sq(m) /\ Sq(p[2] - q[2]) <= Sq(m)
  BY <1>2 DEF Dist
<1>4. /\ 0 - m <= p[1] - q[1] /\ p[1] - q[1] <= m
      /\ 0 - m <= p[2] - q[2] /\ p[2] - q[2] <= m
  BY <1>1, <1>3, SqBounds
<1> QED
  BY <1>4 DEF NearBy

LEMMA DistanceIs ==
  ASSUME NEW crop \in Rects, NEW S \in SUBSET In(crop), S # {}, NEW p, p[1] \in Int, p[2] \in Int
  PROVE  /\ Distance(p, S) \in Nat
         /\ \E q \in S : Distance(p, S) = Dist(p, q)
         /\ \A q \in S : Distance(p, S) <= Dist(p, q)
<1> DEFINE D == {Dist(p, q) : q \in S}
<1>1. \A q \in S : q[1] \in Int /\ q[2] \in Int
  BY PixelsAreNat
<1>2. D \in SUBSET Nat /\ D # {}
  BY <1>1, DistIsNat
<1>3. Distance(p, S) = Min(D)
  BY DEF Distance, Dist
<1>4. \A q \in S : Dist(p, q) \in D
  OBVIOUS
<1>5. \A d \in D : \E q \in S : d = Dist(p, q)
  OBVIOUS
<1> HIDE DEF D
<1>6. Min(D) \in D /\ \A d \in D : Min(D) <= d
  BY <1>2, MinIsLeast
<1>7. Min(D) \in Nat
  BY <1>2, <1>6
<1> QED
  BY <1>3, <1>4, <1>5, <1>6, <1>7

LEMMA FullHolds ==
  /\ Full \in Rects
  /\ \A crop \in Rects : In(crop) \subseteq In(Full)
  /\ \A x, y \in Int : 0 <= x /\ x < Width /\ 0 <= y /\ y < Height => <<x, y>> \in In(Full)
  /\ \A p \in In(Full) : /\ p[1] \in Nat /\ p[2] \in Nat /\ p[1] < Width /\ p[2] < Height
                         /\ p = <<p[1], p[2]>>
<1>1. Width \in Nat /\ Height \in Nat
  BY MosaicAssumption
<1>2. Full \in Rects /\ Full.left = 0 /\ Full.top = 0 /\ Full.right = Width /\ Full.bottom = Height
  BY <1>1 DEF Full, Rects
<1>3. \A x, y \in Int : 0 <= x /\ x < Width /\ 0 <= y /\ y < Height => <<x, y>> \in In(Full)
  BY <1>2, PixelIsIn
<1>4. ASSUME NEW crop \in Rects, NEW p \in In(crop) PROVE p \in In(Full)
  <2>1. /\ p[1] \in Nat /\ p[2] \in Nat /\ p = <<p[1], p[2]>>
        /\ p[1] < crop.right /\ p[2] < crop.bottom
    BY <1>1, PixelsAreNat
  <2>2. crop.right \in Nat /\ crop.bottom \in Nat /\ crop.right <= Width /\ crop.bottom <= Height
    BY <1>1 DEF Rects
  <2>3. 0 <= p[1] /\ p[1] < Width /\ 0 <= p[2] /\ p[2] < Height
    BY <1>1, <2>1, <2>2
  <2> QED
    BY <1>3, <2>1, <2>3
<1>5. \A p \in In(Full) : /\ p[1] \in Nat /\ p[2] \in Nat /\ p[1] < Width /\ p[2] < Height
                          /\ p = <<p[1], p[2]>>
  BY <1>1, <1>2, PixelsAreNat
<1> QED
  BY <1>2, <1>3, <1>4, <1>5

\* A pixel is of one crop only.
LEMMA OneCrop ==
  ASSUME Grouped, NEW j \in DOMAIN groups, NEW k \in DOMAIN groups,
         NEW p \in In(groups[j].crop), p \in In(groups[k].crop)
  PROVE  j = k
<1>1. groups[j].crop \in Rects /\ groups[k].crop \in Rects
  BY LenProperties, ElementOfSeq DEF Grouped, Groups
<1> QED
  BY <1>1, InApart DEF Grouped, GroupsAreApart

\* From within a crop, only what is in that crop is near.
LEMMA NearIsInside ==
  ASSUME Grouped, NEW S, NEW e \in Nat, Sparse(S, e), NEW k \in DOMAIN groups,
         NEW p \in In(groups[k].crop), NEW q \in S, NearBy(p, q, e)
  PROVE  /\ q \in In(groups[k].crop)
         /\ \A o \in In(Full) : NearBy(o, q, e) => o \in In(groups[k].crop)
<1>1. groups[k].crop \in Rects
  BY LenProperties, ElementOfSeq DEF Grouped, Groups
<1>2. p \in In(Full) /\ q \in In(Full)
  BY <1>1, FullHolds DEF Sparse
<1>3. PICK j \in DOMAIN groups : \A o \in In(Full) : NearBy(o, q, e) => o \in In(groups[j].crop)
  BY DEF Sparse
<1>4. j = k
  BY <1>2, <1>3, OneCrop
<1>5. NearBy(q, q, e)
  BY <1>2, FullHolds DEF NearBy
<1> QED
  BY <1>2, <1>3, <1>4, <1>5

\* To dilate a part of the frame is to take that part of the dilated frame.
LEMMA DilatedParts ==
  ASSUME Grouped, NEW S, NEW e \in Nat, NEW r \in Nat, Sparse(S, e), r <= e, NEW k \in DOMAIN groups
  PROVE  /\ Dilated(S \cap In(groups[k].crop), r, groups[k].crop)
               = Dilated(S, r, Full) \cap In(groups[k].crop)
         /\ Sparse(Dilated(S, r, Full), e - r)
         /\ \A p \in Dilated(S, r, Full) : \E q \in S : NearBy(p, q, r)
<1> DEFINE crop == groups[k].crop
<1>1. crop \in Rects /\ In(crop) \subseteq In(Full)
  BY LenProperties, ElementOfSeq, FullHolds DEF Grouped, Groups
<1>2. ASSUME NEW p \in In(Full), NEW d \in Ellipse(r), <<p[1] + d[1], p[2] + d[2]>> \in S
      PROVE  NearBy(p, <<p[1] + d[1], p[2] + d[2]>>, r)
  <2>1. d \in (-r..r) \X (-r..r)
    BY DEF Ellipse
  <2>2. d[1] \in -r..r /\ d[2] \in -r..r
    BY <2>1
  <2>3. p[1] \in Int /\ p[2] \in Int
    BY FullHolds
  <2> QED
    BY <2>2, <2>3 DEF NearBy
<1>3. ASSUME NEW p \in Dilated(S, r, Full) PROVE \E q \in S : NearBy(p, q, r)
  <2>1. p \in In(Full) /\ \E d \in Ellipse(r) : <<p[1] + d[1], p[2] + d[2]>> \in S
    BY DEF Dilated
  <2> QED
    BY <1>2, <2>1
<1>4. Sparse(Dilated(S, r, Full), e - r)
  <2>1. Dilated(S, r, Full) \subseteq In(Full)
    BY DEF Dilated
  <2>2. ASSUME NEW p \in Dilated(S, r, Full)
        PROVE  \E j \in DOMAIN groups : \A o \in In(Full) : NearBy(o, p, e - r) => o \in In(groups[j].crop)
    <3>1. PICK q \in S : NearBy(p, q, r)
      BY <1>3
    <3>2. PICK j \in DOMAIN groups : \A o \in In(Full) : NearBy(o, q, e) => o \in In(groups[j].crop)
      BY DEF Sparse
    <3>3. ASSUME NEW o \in In(Full), NearBy(o, p, e - r) PROVE NearBy(o, q, e)
      <4>1. /\ o[1] \in Int /\ o[2] \in Int /\ p[1] \in Int /\ p[2] \in Int
            /\ q[1] \in Int /\ q[2] \in Int
        BY <2>1, FullHolds DEF Sparse
      <4> QED
        BY <3>1, <3>3, <4>1 DEF NearBy
    <3> QED
      BY <3>2, <3>3
  <2> QED
    BY <2>1, <2>2 DEF Sparse
<1>5. ASSUME NEW p \in In(crop), NEW d \in Ellipse(r), <<p[1] + d[1], p[2] + d[2]>> \in S
      PROVE  <<p[1] + d[1], p[2] + d[2]>> \in In(crop)
  <2> DEFINE q == <<p[1] + d[1], p[2] + d[2]>>
  <2>1. NearBy(p, q, r) /\ q \in In(Full) /\ p \in In(Full)
    BY <1>1, <1>2, <1>5 DEF Sparse
  <2>2. /\ p[1] \in Int /\ p[2] \in Int /\ q[1] \in Int /\ q[2] \in Int
    BY <2>1, FullHolds
  <2> HIDE DEF q
  <2>3. NearBy(p, q, e)
    BY <2>1, <2>2 DEF NearBy
  <2>4. q \in S
    BY <1>5 DEF q
  <2>5. q \in In(crop)
    BY <2>3, <2>4, NearIsInside
  <2> QED
    BY <2>5 DEF q
<1>6. Dilated(S \cap In(crop), r, crop) = Dilated(S, r, Full) \cap In(crop)
  <2>1. Dilated(S \cap In(crop), r, crop) \subseteq Dilated(S, r, Full) \cap In(crop)
    BY <1>1 DEF Dilated
  <2>2. ASSUME NEW p \in Dilated(S, r, Full), p \in In(crop) PROVE p \in Dilated(S \cap In(crop), r, crop)
    <3>1. PICK d \in Ellipse(r) : <<p[1] + d[1], p[2] + d[2]>> \in S
      BY DEF Dilated
    <3>2. <<p[1] + d[1], p[2] + d[2]>> \in In(crop)
      BY <1>5, <2>2, <3>1
    <3> QED
      BY <2>2, <3>1, <3>2 DEF Dilated
  <2> QED
    BY <2>1, <2>2
<1> QED
  BY <1>3, <1>4, <1>6

LEMMA BoundsReached ==
  ASSUME NEW crop \in Rects, NEW S \in SUBSET In(crop), S # {}
  PROVE  LET box == Bounds(S)
         IN  /\ \E s \in S : s[1] = box.left
             /\ \E s \in S : s[2] = box.top
             /\ \E s \in S : s[1] + 1 = box.right
             /\ \E s \in S : s[2] + 1 = box.bottom
<1> DEFINE xs == {p[1] : p \in S}
           ys == {p[2] : p \in S}
           box == Bounds(S)
<1>1. xs \in SUBSET (0..Width) /\ ys \in SUBSET (0..Height) /\ xs # {} /\ ys # {} /\ Width \in Nat /\ Height \in Nat
  BY PixelsAreNat, MosaicAssumption
<1>2. /\ box.left = Min(xs) /\ box.top = Min(ys) /\ box.right = Max(xs) + 1 /\ box.bottom = Max(ys) + 1
  BY DEF Bounds
<1>3. (\A x \in xs : \E s \in S : s[1] = x) /\ (\A y \in ys : \E s \in S : s[2] = y)
  OBVIOUS
<1> HIDE DEF xs, ys, box
<1>4. Min(xs) \in xs /\ Max(xs) \in xs /\ Min(ys) \in ys /\ Max(ys) \in ys
  <2>1. xs \in SUBSET Nat /\ ys \in SUBSET Nat
    BY <1>1
  <2> QED
    BY <1>1, <2>1, MinIsLeast, MaxIsGreatest
<1> QED
  BY <1>2, <1>3, <1>4 DEF box

\* What is around a set in a crop is what it spans there.
LEMMA AroundIs ==
  ASSUME NEW crop \in Rects, NEW S \in SUBSET In(crop), S # {}, NEW d \in Nat
  PROVE  /\ Around(S, d, crop) \subseteq In(crop)
         /\ \A q \in In(crop) : q \in Around(S, d, crop) <=> Spans(S, d, q)
<1> DEFINE box == Bounds(S)
           area == [left |-> Max({crop.left, box.left - d}), top |-> Max({crop.top, box.top - d}),
                    right |-> Min({crop.right, box.right + d}),
                    bottom |-> Min({crop.bottom, box.bottom + d})]
<1>1. box \in Rects /\ \A p \in S : p \in In(box)
  BY BoundsHold
<1>2. /\ \E s \in S : s[1] = box.left
      /\ \E s \in S : s[2] = box.top
      /\ \E s \in S : s[1] + 1 = box.right
      /\ \E s \in S : s[2] + 1 = box.bottom
  BY BoundsReached
<1>3. Around(S, d, crop) = In(area)
  BY DEF Around
<1> HIDE DEF box
<1>4. /\ crop.left \in Nat /\ crop.top \in Nat /\ crop.right \in Nat /\ crop.bottom \in Nat
      /\ box.left \in Nat /\ box.top \in Nat /\ box.right \in Nat /\ box.bottom \in Nat
  BY <1>1, MosaicAssumption DEF Rects
<1>5. /\ area.left = IF crop.left >= box.left - d THEN crop.left ELSE box.left - d
      /\ area.top = IF crop.top >= box.top - d THEN crop.top ELSE box.top - d
      /\ area.right = IF crop.right <= box.right + d THEN crop.right ELSE box.right + d
      /\ area.bottom = IF crop.bottom <= box.bottom + d THEN crop.bottom ELSE box.bottom + d
  BY <1>4, MinOfTwo, MaxOfTwo
<1> HIDE DEF area
<1>6. \A s \in S : /\ s[1] \in Nat /\ s[2] \in Nat
                   /\ box.left <= s[1] /\ s[1] < box.right /\ box.top <= s[2] /\ s[2] < box.bottom
  BY <1>1, PixelsAreNat, MosaicAssumption
<1>7. ASSUME NEW q \in In(crop)
      PROVE  q \in In(area) <=> Spans(S, d, q)
  <2>1. /\ q = <<q[1], q[2]>> /\ q[1] \in Nat /\ q[2] \in Nat
        /\ crop.left <= q[1] /\ q[1] < crop.right /\ crop.top <= q[2] /\ q[2] < crop.bottom
    BY PixelsAreNat, MosaicAssumption
  <2>2. q \in In(area) <=> /\ area.left <= q[1] /\ q[1] < area.right
                           /\ area.top <= q[2] /\ q[2] < area.bottom
    <3>1. q \in In(area) <=> q[1] \in area.left..(area.right - 1) /\ q[2] \in area.top..(area.bottom - 1)
      BY <2>1 DEF In
    <3>2. area.left \in Int /\ area.right \in Int /\ area.top \in Int /\ area.bottom \in Int
      BY <1>4, <1>5
    <3> QED
      BY <2>1, <3>1, <3>2
  <2>3. /\ area.left <= q[1] <=> box.left - d <= q[1]
        /\ q[1] < area.right <=> q[1] < box.right + d
        /\ area.top <= q[2] <=> box.top - d <= q[2]
        /\ q[2] < area.bottom <=> q[2] < box.bottom + d
    BY <1>4, <1>5, <2>1
  <2>4. box.left - d <= q[1] <=> \E s \in S : s[1] - d <= q[1]
    <3>1. ASSUME NEW s \in S, s[1] - d <= q[1] PROVE box.left - d <= q[1]
      BY <1>4, <1>6, <2>1, <3>1
    <3> QED
      BY <1>2, <3>1
  <2>5. box.top - d <= q[2] <=> \E s \in S : s[2] - d <= q[2]
    <3>1. ASSUME NEW s \in S, s[2] - d <= q[2] PROVE box.top - d <= q[2]
      BY <1>4, <1>6, <2>1, <3>1
    <3> QED
      BY <1>2, <3>1
  <2>6. q[1] < box.right + d <=> \E s \in S : q[1] <= s[1] + d
    <3>1. ASSUME NEW s \in S, q[1] <= s[1] + d PROVE q[1] < box.right + d
      <4>1. s[1] < box.right /\ s[1] \in Nat
        BY <1>6
      <4> QED
        BY <1>4, <2>1, <3>1, <4>1
    <3>2. PICK s \in S : s[1] + 1 = box.right
      BY <1>2
    <3>3. q[1] < box.right + d => q[1] <= s[1] + d
      <4>1. s[1] \in Nat
        BY <1>6
      <4> QED
        BY <1>4, <2>1, <3>2, <4>1
    <3> QED
      BY <3>1, <3>3
  <2>7. q[2] < box.bottom + d <=> \E s \in S : q[2] <= s[2] + d
    <3>1. ASSUME NEW s \in S, q[2] <= s[2] + d PROVE q[2] < box.bottom + d
      <4>1. s[2] < box.bottom /\ s[2] \in Nat
        BY <1>6
      <4> QED
        BY <1>4, <2>1, <3>1, <4>1
    <3>2. PICK s \in S : s[2] + 1 = box.bottom
      BY <1>2
    <3>3. q[2] < box.bottom + d => q[2] <= s[2] + d
      <4>1. s[2] \in Nat
        BY <1>6
      <4> QED
        BY <1>4, <2>1, <3>2, <4>1
    <3> QED
      BY <3>1, <3>3
  <2> QED
    BY <2>2, <2>3, <2>4, <2>5, <2>6, <2>7 DEF Spans
<1> QED
  BY <1>3, <1>7, AroundHolds

LEMMA CloseSpans ==
  ASSUME NEW S, NEW d, NEW q, NEW s \in S, NearBy(q, s, d)
  PROVE  Spans(S, d, q)
BY DEF NearBy, Spans

\* Around what is in a group's crop there is room on all sides.
LEMMA SpannedIsInside ==
  ASSUME Grouped, NEW S, NEW e \in Nat, Sparse(S, e), NEW k \in DOMAIN groups,
         NEW q \in In(Full), Spans(S \cap In(groups[k].crop), e, q)
  PROVE  q \in In(groups[k].crop)
<1> DEFINE crop == groups[k].crop
           T == S \cap In(crop)
<1>1. crop \in Rects /\ In(crop) \subseteq In(Full)
  BY LenProperties, ElementOfSeq, FullHolds DEF Grouped, Groups
<1>2. crop.left \in Nat /\ crop.top \in Nat /\ crop.right \in Nat /\ crop.bottom \in Nat
  BY <1>1, MosaicAssumption DEF Rects
<1>3. q[1] \in Nat /\ q[2] \in Nat /\ q = <<q[1], q[2]>> /\ q[1] < Width /\ q[2] < Height
  BY FullHolds
<1>4. ASSUME NEW s \in T
      PROVE  /\ s[1] \in Nat /\ s[2] \in Nat /\ s \in In(Full)
             /\ crop.left <= s[1] /\ s[1] < crop.right /\ crop.top <= s[2] /\ s[2] < crop.bottom
             /\ s[1] < Width /\ s[2] < Height
             /\ \A o \in In(Full) : NearBy(o, s, e) => o \in In(crop)
  <2>1. s \in S /\ s \in In(crop) /\ s \in In(Full)
    BY <1>1
  <2>2. NearBy(s, s, e)
    BY <2>1, FullHolds DEF NearBy
  <2>3. \A o \in In(Full) : NearBy(o, s, e) => o \in In(crop)
    BY <2>1, <2>2, NearIsInside
  <2> QED
    BY <1>1, <2>1, <2>3, PixelsAreNat, FullHolds, MosaicAssumption
<1> HIDE DEF T, crop
<1>5. ASSUME NEW s \in T, s[1] - e <= q[1] PROVE crop.left <= q[1]
  <2>1. CASE s[1] <= q[1]
    BY <1>2, <1>3, <1>4, <2>1
  <2>2. CASE q[1] < s[1]
    <3> DEFINE o == <<q[1], s[2]>>
    <3>1. o \in In(Full)
      BY <1>3, <1>4, FullHolds
    <3>2. NearBy(o, s, e)
      BY <1>3, <1>4, <1>5, <2>2 DEF NearBy
    <3>3. o \in In(crop)
      BY <1>4, <3>1, <3>2
    <3>4. o[1] = q[1]
      OBVIOUS
    <3> HIDE DEF o
    <3> QED
      BY <1>1, <3>3, <3>4, PixelsAreNat DEF crop
  <2> QED
    BY <1>3, <1>4, <2>1, <2>2
<1>6. ASSUME NEW s \in T, q[1] <= s[1] + e PROVE q[1] < crop.right
  <2>1. CASE q[1] <= s[1]
    BY <1>2, <1>3, <1>4, <2>1
  <2>2. CASE s[1] < q[1]
    <3> DEFINE o == <<q[1], s[2]>>
    <3>1. o \in In(Full)
      BY <1>3, <1>4, FullHolds
    <3>2. NearBy(o, s, e)
      BY <1>3, <1>4, <1>6, <2>2 DEF NearBy
    <3>3. o \in In(crop)
      BY <1>4, <3>1, <3>2
    <3>4. o[1] = q[1]
      OBVIOUS
    <3> HIDE DEF o
    <3> QED
      BY <1>1, <3>3, <3>4, PixelsAreNat DEF crop
  <2> QED
    BY <1>3, <1>4, <2>1, <2>2
<1>7. ASSUME NEW s \in T, s[2] - e <= q[2] PROVE crop.top <= q[2]
  <2>1. CASE s[2] <= q[2]
    BY <1>2, <1>3, <1>4, <2>1
  <2>2. CASE q[2] < s[2]
    <3> DEFINE o == <<s[1], q[2]>>
    <3>1. o \in In(Full)
      BY <1>3, <1>4, FullHolds
    <3>2. NearBy(o, s, e)
      BY <1>3, <1>4, <1>7, <2>2 DEF NearBy
    <3>3. o \in In(crop)
      BY <1>4, <3>1, <3>2
    <3>4. o[2] = q[2]
      OBVIOUS
    <3> HIDE DEF o
    <3> QED
      BY <1>1, <3>3, <3>4, PixelsAreNat DEF crop
  <2> QED
    BY <1>3, <1>4, <2>1, <2>2
<1>8. ASSUME NEW s \in T, q[2] <= s[2] + e PROVE q[2] < crop.bottom
  <2>1. CASE q[2] <= s[2]
    BY <1>2, <1>3, <1>4, <2>1
  <2>2. CASE s[2] < q[2]
    <3> DEFINE o == <<s[1], q[2]>>
    <3>1. o \in In(Full)
      BY <1>3, <1>4, FullHolds
    <3>2. NearBy(o, s, e)
      BY <1>3, <1>4, <1>8, <2>2 DEF NearBy
    <3>3. o \in In(crop)
      BY <1>4, <3>1, <3>2
    <3>4. o[2] = q[2]
      OBVIOUS
    <3> HIDE DEF o
    <3> QED
      BY <1>1, <3>3, <3>4, PixelsAreNat DEF crop
  <2> QED
    BY <1>3, <1>4, <2>1, <2>2
<1>9. crop.left <= q[1] /\ q[1] < crop.right /\ crop.top <= q[2] /\ q[2] < crop.bottom
  BY <1>5, <1>6, <1>7, <1>8 DEF Spans, T, crop
<1> QED
  BY <1>1, <1>3, <1>9, PixelIsIn DEF crop

\* All that the mask, the taper and the row beyond it need of a polygon.
LEMMA WideEnough ==
  ASSUME Accepted, NEW crop \in Rects, NEW b \in Outlines, Covers(crop, Widened(b)),
         NEW q \in Pixels(b), NEW p \in In(Full), NearBy(p, q, Reach)
  PROVE  p \in In(crop)
<1>1. Width \in Nat /\ Height \in Nat
  BY MosaicAssumption
<1>2. /\ b[1] \in Nat /\ b[2] \in Nat /\ b[3] \in Nat /\ b[4] \in Nat
  BY <1>1 DEF Outlines
<1>3. /\ q[1] \in Nat /\ q[2] \in Nat
      /\ b[1] <= q[1] /\ q[1] <= b[3] /\ b[2] <= q[2] /\ q[2] <= b[4]
  BY <1>2 DEF Pixels
<1>4. Reach \in Nat
  BY MosaicAssumption DEF Accepted, ValidMargin, ValidPad, Reach
<1>5. p[1] \in Nat /\ p[2] \in Nat /\ p[1] < Width /\ p[2] < Height /\ p = <<p[1], p[2]>>
  BY FullHolds
<1>6. /\ crop.left \in Nat /\ crop.top \in Nat /\ crop.right \in Nat /\ crop.bottom \in Nat
  BY <1>1 DEF Rects
<1> DEFINE w == Widened(b)
<1>7. /\ w.left = IF 0 >= b[1] - Reach THEN 0 ELSE b[1] - Reach
      /\ w.top = IF 0 >= b[2] - Reach THEN 0 ELSE b[2] - Reach
      /\ w.right = IF Width <= b[3] + 1 + Reach THEN Width ELSE b[3] + 1 + Reach
      /\ w.bottom = IF Height <= b[4] + 1 + Reach THEN Height ELSE b[4] + 1 + Reach
  <2>1. /\ w.left = Max({0, b[1] - Reach}) /\ w.top = Max({0, b[2] - Reach})
        /\ w.right = Min({Width, b[3] + 1 + Reach}) /\ w.bottom = Min({Height, b[4] + 1 + Reach})
    BY DEF Widened
  <2> HIDE DEF w
  <2>2. /\ 0 \in Int /\ b[1] - Reach \in Int /\ b[2] - Reach \in Int /\ Width \in Int /\ Height \in Int
        /\ b[3] + 1 + Reach \in Int /\ b[4] + 1 + Reach \in Int
    BY <1>1, <1>2, <1>4
  <2> QED
    BY <2>1, <2>2, MinOfTwo, MaxOfTwo
<1>8. crop.left <= w.left /\ crop.top <= w.top /\ w.right <= crop.right /\ w.bottom <= crop.bottom
  BY DEF Covers
<1> HIDE DEF w
<1>9. /\ q[1] - Reach <= p[1] /\ p[1] <= q[1] + Reach
      /\ q[2] - Reach <= p[2] /\ p[2] <= q[2] + Reach
  BY DEF NearBy
<1>10. w.left <= p[1] /\ p[1] < w.right /\ w.top <= p[2] /\ p[2] < w.bottom
  BY <1>1, <1>2, <1>3, <1>4, <1>5, <1>7, <1>9
<1>11. crop.left <= p[1] /\ p[1] < crop.right /\ crop.top <= p[2] /\ p[2] < crop.bottom
  BY <1>1, <1>2, <1>4, <1>5, <1>6, <1>7, <1>8, <1>10
<1> QED
  BY <1>5, <1>11, PixelIsIn

Members == UNION {groups[k].members : k \in DOMAIN groups}
WholeMask == FillPolygons(Members, Full)

\* The mask of a group is its part of the whole mask, with room around it.
LEMMA MaskParts ==
  ASSUME Grouped
  PROVE  /\ setting.margin \in Nat /\ Sparse(WholeMask, setting.margin + 1)
         /\ \A k \in DOMAIN groups :
               FillPolygons(groups[k].members, groups[k].crop) = WholeMask \cap In(groups[k].crop)
<1> DEFINE Filled(M, crop) ==
              {p \in In(crop) : \E m \in M : p[1] \in m[1]..m[3] /\ p[2] \in m[2]..m[4]}
           S == Filled(Members, Full)
<1>1. /\ setting.margin \in Nat /\ setting.pad \in Nat
      /\ Reach \in Nat /\ setting.pad <= Reach /\ Reach - setting.pad = setting.margin + 1
  <2>1. MaxMargin \in Nat /\ MaxPad \in Nat
    BY MosaicAssumption
  <2>2. setting.margin \in Nat /\ setting.pad \in Nat
    BY <2>1 DEF Grouped, Accepted, ValidMargin, ValidPad
  <2> QED
    BY <2>2 DEF Reach
<1>2. ASSUME NEW k \in DOMAIN groups
      PROVE  /\ groups[k].crop \in Rects /\ In(groups[k].crop) \subseteq In(Full)
             /\ \A b \in groups[k].members : b \in Outlines /\ Covers(groups[k].crop, Widened(b))
  BY LenProperties, ElementOfSeq, FullHolds DEF Grouped, Groups, Roomy
<1>3. ASSUME NEW q \in S
      PROVE  \E k \in DOMAIN groups :
                /\ \E b \in groups[k].members : q[1] \in b[1]..b[3] /\ q[2] \in b[2]..b[4]
                /\ \A p \in In(Full) : NearBy(p, q, Reach) => p \in In(groups[k].crop)
  <2>1. PICK k \in DOMAIN groups : \E m \in groups[k].members : q[1] \in m[1]..m[3] /\ q[2] \in m[2]..m[4]
    BY DEF Members
  <2>2. PICK b \in groups[k].members : q[1] \in b[1]..b[3] /\ q[2] \in b[2]..b[4]
    BY <2>1
  <2>3. q = <<q[1], q[2]>>
    BY FullHolds
  <2>4. q \in Pixels(b)
    BY <2>2, <2>3 DEF Pixels
  <2>5. \A p \in In(Full) : NearBy(p, q, Reach) => p \in In(groups[k].crop)
    BY <1>2, <2>2, <2>4, WideEnough DEF Grouped
  <2> QED
    BY <2>2, <2>5
<1>4. Sparse(S, Reach)
  BY <1>3 DEF Sparse
<1>5. ASSUME NEW k \in DOMAIN groups
      PROVE  Filled(groups[k].members, groups[k].crop) = S \cap In(groups[k].crop)
  <2>1. Filled(groups[k].members, groups[k].crop) \subseteq S \cap In(groups[k].crop)
    BY <1>2 DEF Members
  <2>2. ASSUME NEW p \in S, p \in In(groups[k].crop)
        PROVE  p \in Filled(groups[k].members, groups[k].crop)
    <3>1. PICK j \in DOMAIN groups :
             /\ \E b \in groups[j].members : p[1] \in b[1]..b[3] /\ p[2] \in b[2]..b[4]
             /\ \A o \in In(Full) : NearBy(o, p, Reach) => o \in In(groups[j].crop)
      BY <1>3
    <3>2. NearBy(p, p, Reach) /\ p \in In(Full)
      BY <1>1, FullHolds DEF NearBy
    <3>3. j = k
      BY <2>2, <3>1, <3>2, OneCrop
    <3> QED
      BY <2>2, <3>1, <3>3
  <2> QED
    BY <2>1, <2>2
<1>6. \A M, crop : FillPolygons(M, crop) = Dilated(Filled(M, crop), setting.pad, crop)
  BY DEF FillPolygons
<1> HIDE DEF Filled, S
<1>7. WholeMask = Dilated(S, setting.pad, Full)
  BY <1>6 DEF WholeMask, S
<1>8. Sparse(WholeMask, setting.margin + 1)
  <2>1. CASE DOMAIN groups = {}
    <3>1. Sparse(WholeMask, setting.margin + 1) <=> WholeMask = {}
      BY <2>1 DEF Sparse
    <3>2. S = {}
      BY <2>1, <1>4 DEF Sparse
    <3> QED
      BY <1>7, <3>1, <3>2 DEF Dilated
  <2>2. CASE DOMAIN groups # {}
    <3>1. PICK k \in DOMAIN groups : TRUE
      BY <2>2
    <3>2. Sparse(Dilated(S, setting.pad, Full), Reach - setting.pad)
      BY <1>1, <1>4, <3>1, DilatedParts
    <3> QED
      BY <1>1, <1>7, <3>2, Zenon
  <2> QED
    BY <2>1, <2>2
<1>9. ASSUME NEW k \in DOMAIN groups
      PROVE  FillPolygons(groups[k].members, groups[k].crop) = WholeMask \cap In(groups[k].crop)
  <2> DEFINE crop == groups[k].crop
             members == groups[k].members
  <2>1. Dilated(S \cap In(crop), setting.pad, crop) = Dilated(S, setting.pad, Full) \cap In(crop)
    BY <1>1, <1>4, <1>9, DilatedParts
  <2>2. FillPolygons(members, crop) = Dilated(Filled(members, crop), setting.pad, crop)
    BY <1>6, Zenon
  <2>3. Filled(members, crop) = S \cap In(crop)
    BY <1>5, <1>9, Zenon
  <2> HIDE DEF crop, members
  <2>4. FillPolygons(members, crop) = WholeMask \cap In(crop)
    BY <1>7, <2>1, <2>2, <2>3, Zenon
  <2> QED
    BY <2>4, Zenon DEF crop, members
<1> QED
  BY <1>1, <1>8, <1>9

\* A part of a layer, in the crop of group k, is the layer of that part.
IsPart(part, whole, k) ==
    /\ DOMAIN part = DOMAIN whole \cap In(groups[k].crop)
    /\ \A p \in DOMAIN part : part[p] = whole[p]

LEMMA TaperedParts ==
  ASSUME Grouped, setting.margin \in Nat, NEW M, Sparse(M, setting.margin + 1),
         NEW k \in DOMAIN groups, M \cap In(groups[k].crop) # {}
  PROVE  /\ IsPart(Tapered(M \cap In(groups[k].crop), groups[k].crop), Tapered(M, Full), k)
         /\ \A p \in DOMAIN Tapered(M, Full) : \E q \in M : NearBy(p, q, setting.margin)
         /\ DOMAIN Tapered(M, Full) \subseteq In(Full)
<1> DEFINE m == setting.margin
           crop == groups[k].crop
           T == M \cap In(crop)
           near(S, c) == {p \in Around(S, m, c) : Distance(p, S) <= Sq(m)}
           opaque == m + 1 - Min({m, DefaultMargin})
           weight(d) == IF d <= Sq(opaque) THEN 0 ELSE d
<1>1. /\ crop \in Rects /\ In(crop) \subseteq In(Full) /\ Full \in Rects
      /\ T \in SUBSET In(crop) /\ M \in SUBSET In(Full) /\ T # {} /\ M # {} /\ m + 1 \in Nat
  BY LenProperties, ElementOfSeq, FullHolds DEF Grouped, Groups, Sparse
<1>2. \A S, c : Tapered(S, c) = [p \in near(S, c) |-> weight(Distance(p, S))]
  BY DEF Tapered
<1>3. ASSUME NEW S, NEW c \in Rects, S \in SUBSET In(c), S # {}, NEW p \in In(c)
      PROVE  /\ p \in near(S, c) <=> Distance(p, S) <= Sq(m)
             /\ Distance(p, S) <= Sq(m) => \E q \in S : Distance(p, S) = Dist(p, q) /\ NearBy(p, q, m)
             /\ Distance(p, S) \in Nat
             /\ \A q \in S : Distance(p, S) <= Dist(p, q)
  <2>1. p[1] \in Int /\ p[2] \in Int /\ \A q \in S : q[1] \in Int /\ q[2] \in Int
    BY <1>3, PixelsAreNat
  <2>2. /\ Distance(p, S) \in Nat
        /\ \E q \in S : Distance(p, S) = Dist(p, q)
        /\ \A q \in S : Distance(p, S) <= Dist(p, q)
    BY <1>3, <2>1, DistanceIs
  <2>3. Distance(p, S) <= Sq(m) => \E q \in S : Distance(p, S) = Dist(p, q) /\ NearBy(p, q, m)
    BY <2>1, <2>2, DistIsClose
  <2>4. Distance(p, S) <= Sq(m) => p \in Around(S, m, c)
    BY <1>3, <2>3, AroundIs, CloseSpans
  <2> QED
    BY <2>2, <2>3, <2>4
<1>4. near(M, Full) \subseteq In(Full) /\ near(T, crop) \subseteq In(crop)
  BY <1>1, AroundIs
<1>5. Sq(m) \in Nat
  BY SquareIsNat
<1> HIDE DEF near, weight, crop, T
<1>6. ASSUME NEW p \in In(crop)
      PROVE  /\ p \in near(T, crop) <=> p \in near(M, Full)
             /\ p \in near(T, crop) => Distance(p, T) = Distance(p, M)
  <2>1. p \in In(Full) /\ Distance(p, T) \in Nat /\ Distance(p, M) \in Nat
    BY <1>1, <1>3
  <2>2. ASSUME Distance(p, T) <= Sq(m) PROVE Distance(p, M) <= Distance(p, T)
    <3>1. PICK q \in T : Distance(p, T) = Dist(p, q)
      BY <1>1, <1>3, <2>2
    <3>2. q \in M
      BY <3>1 DEF T
    <3>3. \A o \in M : Distance(p, M) <= Dist(p, o)
      BY <1>1, <1>3, <2>1
    <3> QED
      BY <3>1, <3>2, <3>3
  <2>3. ASSUME Distance(p, M) <= Sq(m) PROVE Distance(p, T) <= Distance(p, M)
    <3>1. PICK q \in M : Distance(p, M) = Dist(p, q) /\ NearBy(p, q, m)
      BY <1>1, <1>3, <2>1, <2>3
    <3>2. p[1] \in Int /\ p[2] \in Int /\ q[1] \in Int /\ q[2] \in Int
      BY <1>1, <2>1, FullHolds
    <3>3. NearBy(p, q, m + 1)
      BY <3>1, <3>2 DEF NearBy
    <3>4. q \in In(crop)
      BY <1>1, <3>3, NearIsInside DEF crop
    <3>5. q \in T
      BY <3>4 DEF T
    <3>6. \A o \in T : Distance(p, T) <= Dist(p, o)
      BY <1>1, <1>3
    <3> QED
      BY <3>1, <3>5, <3>6
  <2> QED
    BY <1>1, <1>3, <1>5, <2>1, <2>2, <2>3
<1>7. near(T, crop) = near(M, Full) \cap In(crop)
  BY <1>4, <1>6
<1>8. IsPart(Tapered(T, crop), Tapered(M, Full), k)
  <2>1. DOMAIN Tapered(T, crop) = near(T, crop) /\ DOMAIN Tapered(M, Full) = near(M, Full)
    BY <1>2
  <2>2. ASSUME NEW p \in near(T, crop) PROVE Tapered(T, crop)[p] = Tapered(M, Full)[p]
    <3>1. p \in near(M, Full) /\ Distance(p, T) = Distance(p, M)
      BY <1>4, <1>6, <1>7
    <3>2. Tapered(T, crop)[p] = weight(Distance(p, T)) /\ Tapered(M, Full)[p] = weight(Distance(p, M))
      BY <1>2, <3>1
    <3> QED
      BY <3>1, <3>2
  <2> QED
    BY <1>7, <2>1, <2>2 DEF IsPart, crop
<1>9. ASSUME NEW p \in DOMAIN Tapered(M, Full) PROVE p \in In(Full) /\ \E q \in M : NearBy(p, q, m)
  <2>1. p \in near(M, Full) /\ p \in In(Full)
    BY <1>2, <1>4
  <2> QED
    BY <1>1, <1>3, <2>1
<1> QED
  BY <1>8, <1>9 DEF T, crop

\* Along an axis: v, or the end of lo..hi that is on the way from it to what is inside.
Clip(v, lo, hi) == IF v < lo THEN lo ELSE IF v > hi THEN hi ELSE v

LEMMA ClippedIsNearer ==
  ASSUME NEW a \in Int, NEW v \in Int, NEW lo \in Int, NEW hi \in Int, lo <= a, a <= hi
  PROVE  LET c == Clip(v, lo, hi)
         IN  /\ c \in Int /\ lo <= c /\ c <= hi
             /\ (a <= c /\ c <= v) \/ (v <= c /\ c <= a)
             /\ c = v \/ c = lo \/ c = hi
             /\ Sq(a - c) <= Sq(a - v)
<1> DEFINE c == Clip(v, lo, hi)
<1>1. /\ c \in Int /\ lo <= c /\ c <= hi
      /\ (a <= c /\ c <= v) \/ (v <= c /\ c <= a)
      /\ c = v \/ c = lo \/ c = hi
  BY DEF Clip
<1> HIDE DEF c
<1>2. a - c \in Int /\ a - v \in Int
  BY <1>1
<1>3. \/ 0 - (a - v) <= a - c /\ a - c <= a - v
      \/ a - v <= a - c /\ a - c <= 0 - (a - v)
  BY <1>1
<1>4. Sq(a - c) <= Sq(a - v)
  BY <1>2, <1>3, SqGrows
<1> QED
  BY <1>1, <1>4 DEF c

\* For a pixel near T, what is around T holds something as near as any pixel of
\* the frame: that pixel, or one that is near nothing of T.
LEMMA NearerAround ==
  ASSUME NEW crop \in Rects, NEW T \in SUBSET In(crop), T # {}, NEW m \in Nat,
         NEW p \in In(Full), NEW s \in T, NearBy(p, s, m), NEW q \in In(Full)
  PROVE  \E o \in In(Full) :
            /\ Spans(T, m + 1, o) /\ Dist(p, o) <= Dist(p, q)
            /\ o = q \/ \A t \in T : ~NearBy(o, t, m)
<1> DEFINE box == Bounds(T)
           x0 == box.left - (m + 1)
           x1 == box.right + m
           y0 == box.top - (m + 1)
           y1 == box.bottom + m
           x == Clip(q[1], x0, x1)
           y == Clip(q[2], y0, y1)
           o == <<x, y>>
<1>1. box \in Rects /\ \A t \in T : t \in In(box)
  BY BoundsHold
<1>2. /\ \E t \in T : t[1] = box.left
      /\ \E t \in T : t[2] = box.top
      /\ \E t \in T : t[1] + 1 = box.right
      /\ \E t \in T : t[2] + 1 = box.bottom
  BY BoundsReached
<1> HIDE DEF box
<1>3. box.left \in Nat /\ box.top \in Nat /\ box.right \in Nat /\ box.bottom \in Nat
  BY <1>1, MosaicAssumption DEF Rects
<1>4. ASSUME NEW t \in T
      PROVE  /\ t[1] \in Nat /\ t[2] \in Nat
             /\ box.left <= t[1] /\ t[1] < box.right /\ box.top <= t[2] /\ t[2] < box.bottom
  BY <1>1, PixelsAreNat, MosaicAssumption
<1>5. /\ p[1] \in Nat /\ p[2] \in Nat /\ p[1] < Width /\ p[2] < Height
      /\ q[1] \in Nat /\ q[2] \in Nat /\ q[1] < Width /\ q[2] < Height /\ q = <<q[1], q[2]>>
      /\ Width \in Nat /\ Height \in Nat
  BY FullHolds, MosaicAssumption
<1>6. /\ x0 \in Int /\ x1 \in Int /\ x0 <= p[1] /\ p[1] <= x1
      /\ y0 \in Int /\ y1 \in Int /\ y0 <= p[2] /\ p[2] <= y1
  <2>1. /\ s[1] - m <= p[1] /\ p[1] <= s[1] + m /\ s[2] - m <= p[2] /\ p[2] <= s[2] + m
    BY DEF NearBy
  <2> QED
    BY <1>3, <1>4, <1>5, <2>1
<1>7. /\ x \in Int /\ x0 <= x /\ x <= x1
      /\ (p[1] <= x /\ x <= q[1]) \/ (q[1] <= x /\ x <= p[1])
      /\ x = q[1] \/ x = x0 \/ x = x1
      /\ Sq(p[1] - x) <= Sq(p[1] - q[1])
  <2> HIDE DEF x0, x1
  <2> QED
    BY <1>5, <1>6, ClippedIsNearer
<1>8. /\ y \in Int /\ y0 <= y /\ y <= y1
      /\ (p[2] <= y /\ y <= q[2]) \/ (q[2] <= y /\ y <= p[2])
      /\ y = q[2] \/ y = y0 \/ y = y1
      /\ Sq(p[2] - y) <= Sq(p[2] - q[2])
  <2> HIDE DEF y0, y1
  <2> QED
    BY <1>5, <1>6, ClippedIsNearer
<1>o. o = <<x, y>> /\ o[1] = x /\ o[2] = y
  OBVIOUS
<1> HIDE DEF x, y, o
<1>9. o \in In(Full)
  <2>1. 0 <= x /\ x < Width /\ 0 <= y /\ y < Height
    BY <1>5, <1>7, <1>8
  <2> QED
    BY <1>7, <1>8, <1>o, <2>1, FullHolds
<1>10. Spans(T, m + 1, o)
  <2>1. \E t \in T : t[1] - (m + 1) <= x
    BY <1>2, <1>7
  <2>2. \E t \in T : x <= t[1] + (m + 1)
    <3>1. PICK t \in T : t[1] + 1 = box.right
      BY <1>2
    <3>2. x <= t[1] + (m + 1)
      BY <1>3, <1>4, <1>7, <3>1
    <3> QED
      BY <3>2
  <2>3. \E t \in T : t[2] - (m + 1) <= y
    BY <1>2, <1>8
  <2>4. \E t \in T : y <= t[2] + (m + 1)
    <3>1. PICK t \in T : t[2] + 1 = box.bottom
      BY <1>2
    <3>2. y <= t[2] + (m + 1)
      BY <1>3, <1>4, <1>8, <3>1
    <3> QED
      BY <3>2
  <2> QED
    BY <1>o, <2>1, <2>2, <2>3, <2>4 DEF Spans
<1>11. Dist(p, o) <= Dist(p, q)
  <2>1. /\ p[1] - x \in Int /\ p[2] - y \in Int /\ p[1] - q[1] \in Int /\ p[2] - q[2] \in Int
    BY <1>5, <1>7, <1>8
  <2>2. /\ Sq(p[1] - x) \in Nat /\ Sq(p[2] - y) \in Nat
        /\ Sq(p[1] - q[1]) \in Nat /\ Sq(p[2] - q[2]) \in Nat
    BY <2>1, SquareIsNat
  <2> QED
    BY <1>7, <1>8, <1>o, <2>2 DEF Dist
<1>12. o = q \/ \A t \in T : ~NearBy(o, t, m)
  <2>1. CASE x = q[1] /\ y = q[2]
    BY <1>5, <1>o, <2>1
  <2>2. ASSUME NEW t \in T, NearBy(o, t, m), x = x0 \/ x = x1 PROVE FALSE
    <3>1. t[1] - m <= x /\ x <= t[1] + m
      BY <1>o, <2>2 DEF NearBy
    <3> QED
      BY <1>3, <1>4, <2>2, <3>1
  <2>3. ASSUME NEW t \in T, NearBy(o, t, m), y = y0 \/ y = y1 PROVE FALSE
    <3>1. t[2] - m <= y /\ y <= t[2] + m
      BY <1>o, <2>3 DEF NearBy
    <3> QED
      BY <1>3, <1>4, <2>3, <3>1
  <2> QED
    BY <1>7, <1>8, <2>1, <2>2, <2>3
<1> QED
  BY <1>9, <1>10, <1>11, <1>12

LEMMA FeatheredParts ==
  ASSUME Grouped, setting.margin \in Nat, setting.margin = DefaultMargin,
         NEW M, Sparse(M, setting.margin + 1),
         NEW k \in DOMAIN groups, M \cap In(groups[k].crop) # {}
  PROVE  /\ IsPart(Feathered(M \cap In(groups[k].crop), groups[k].crop), Feathered(M, Full), k)
         /\ \A p \in DOMAIN Feathered(M, Full) : \E q \in M : NearBy(p, q, setting.margin)
         /\ DOMAIN Feathered(M, Full) \subseteq In(Full)
<1> DEFINE m == DefaultMargin
           crop == groups[k].crop
           T == M \cap In(crop)
           around(S, c) == Around(S, m + 1, c) \ Dilated(S, m, c)
           weight(p, S, n) == IF p \in S \/ n = 0 \/ n >= Sq(m) THEN 0 ELSE Sq(m) - n
           E == Dilated(M, m, Full)
           A == around(M, Full)
           B == around(T, crop)
<1>1. /\ crop \in Rects /\ In(crop) \subseteq In(Full) /\ Full \in Rects
      /\ T \in SUBSET In(crop) /\ M \in SUBSET In(Full) /\ T # {} /\ M # {} /\ T \subseteq M
      /\ m \in Nat /\ m + 1 \in Nat /\ m <= m + 1 /\ Sparse(M, m + 1)
  BY LenProperties, ElementOfSeq, FullHolds DEF Grouped, Groups, Sparse
<1>2. \A S, c : Feathered(S, c) =
         [p \in Dilated(S, m, c) |-> weight(p, S, Distance(p, around(S, c)))]
  BY DEF Feathered
<1>3. /\ Dilated(T, m, crop) = E \cap In(crop)
      /\ \A p \in E : \E q \in M : NearBy(p, q, m)
      /\ E \subseteq In(Full)
  <2>1. E \subseteq In(Full)
    BY DEF Dilated
  <2> HIDE DEF m, E
  <2> QED
    BY <1>1, <2>1, DilatedParts DEF E
<1>4. ASSUME NEW p \in E, p \in In(crop) PROVE \E s \in T : NearBy(p, s, m)
  <2>1. PICK q \in M : NearBy(p, q, m)
    BY <1>3, <1>4
  <2>2. p[1] \in Int /\ p[2] \in Int /\ q[1] \in Int /\ q[2] \in Int
    BY <1>1, <1>3, <1>4, FullHolds
  <2>3. NearBy(p, q, m + 1)
    BY <1>1, <2>1, <2>2 DEF NearBy
  <2>4. q \in In(crop)
    BY <1>1, <1>4, <2>3, NearIsInside
  <2> QED
    BY <2>1, <2>4
<1>5. /\ Around(M, m + 1, Full) \subseteq In(Full)
      /\ Around(T, m + 1, crop) \subseteq In(crop)
      /\ \A q \in In(Full) : q \in Around(M, m + 1, Full) <=> Spans(M, m + 1, q)
      /\ \A q \in In(crop) : q \in Around(T, m + 1, crop) <=> Spans(T, m + 1, q)
  BY <1>1, AroundIs
<1>6. A \in SUBSET In(Full) /\ B \in SUBSET In(crop) /\ B \in SUBSET In(Full)
  BY <1>1, <1>5
<1>7. \A S, c : around(S, c) = Around(S, m + 1, c) \ Dilated(S, m, c)
  OBVIOUS
<1>8. A = around(M, Full) /\ B = around(T, crop) /\ E = Dilated(M, m, Full)
  OBVIOUS
<1> HIDE DEF around, A, B, E, m
<1>9. B \subseteq A
  <2> SUFFICES ASSUME NEW q \in B PROVE q \in A
    OBVIOUS
  <2>1. q \in In(crop) /\ q \in In(Full) /\ q \in Around(T, m + 1, crop) /\ q \notin Dilated(T, m, crop)
    BY <1>6, <1>7, <1>8
  <2>2. Spans(T, m + 1, q)
    BY <1>5, <2>1
  <2>3. Spans(M, m + 1, q)
    BY <1>1, <2>2 DEF Spans
  <2>4. q \notin E
    BY <1>3, <2>1
  <2> QED
    BY <1>5, <1>7, <1>8, <2>1, <2>3, <2>4
<1>10. ASSUME NEW p \in E, p \in In(crop), NEW q \in A
       PROVE  \E o \in B : Dist(p, o) <= Dist(p, q)
  <2>1. PICK s \in T : NearBy(p, s, m)
    BY <1>4, <1>10
  <2>2. p \in In(Full) /\ q \in In(Full) /\ q \notin E
    BY <1>3, <1>6, <1>7, <1>8
  <2>3. PICK o \in In(Full) :
            /\ Spans(T, m + 1, o) /\ Dist(p, o) <= Dist(p, q)
            /\ o = q \/ \A t \in T : ~NearBy(o, t, m)
    <3> HIDE DEF T, crop
    <3> QED
      BY <1>1, <2>1, <2>2, NearerAround
  <2>4. o \in In(crop)
    BY <1>1, <2>3, SpannedIsInside
  <2>5. o \notin Dilated(T, m, crop)
    BY <1>3, <1>4, <2>2, <2>3, <2>4
  <2>6. o \in B
    BY <1>5, <1>7, <1>8, <2>3, <2>4, <2>5
  <2> QED
    BY <2>3, <2>6
<1>11. ASSUME NEW p \in E, p \in In(crop) PROVE Distance(p, A) = Distance(p, B)
  <2>1. CASE A = {}
    <3>1. B = {}
      BY <1>9, <2>1
    <3> QED
      BY <2>1, <3>1
  <2>2. CASE A # {}
    <3>1. B # {}
      BY <1>10, <1>11, <2>2
    <3>2. p[1] \in Int /\ p[2] \in Int
      BY <1>3, FullHolds
    <3>3. /\ Distance(p, A) \in Nat
          /\ \E q \in A : Distance(p, A) = Dist(p, q)
          /\ \A q \in A : Distance(p, A) <= Dist(p, q)
      BY <1>1, <1>6, <2>2, <3>2, DistanceIs
    <3>4. /\ Distance(p, B) \in Nat
          /\ \E q \in B : Distance(p, B) = Dist(p, q)
          /\ \A q \in B : Distance(p, B) <= Dist(p, q)
      BY <1>1, <1>6, <3>1, <3>2, DistanceIs
    <3>5. Distance(p, A) <= Distance(p, B)
      BY <1>9, <3>3, <3>4
    <3>6. Distance(p, B) <= Distance(p, A)
      <4>1. PICK q \in A : Distance(p, A) = Dist(p, q)
        BY <3>3
      <4>2. PICK o \in B : Dist(p, o) <= Dist(p, q)
        BY <1>10, <1>11
      <4>3. Dist(p, o) \in Nat
        <5>1. o[1] \in Int /\ o[2] \in Int
          BY <1>6, FullHolds
        <5> QED
          BY <3>2, <5>1, DistIsNat
      <4>4. Distance(p, B) <= Dist(p, o)
        BY <3>4
      <4> QED
        BY <3>3, <3>4, <4>1, <4>2, <4>3, <4>4
    <3> QED
      BY <3>3, <3>4, <3>5, <3>6
  <2> QED
    BY <2>1, <2>2
<1>12. IsPart(Feathered(T, crop), Feathered(M, Full), k)
  <2>1. DOMAIN Feathered(T, crop) = E \cap In(crop) /\ DOMAIN Feathered(M, Full) = E
    BY <1>2, <1>3, <1>8
  <2>2. ASSUME NEW p \in E, p \in In(crop) PROVE Feathered(T, crop)[p] = Feathered(M, Full)[p]
    <3>1. p \in Dilated(T, m, crop) /\ p \in Dilated(M, m, Full)
      BY <1>3, <1>8, <2>2
    <3>2. Feathered(T, crop)[p] = weight(p, T, Distance(p, B))
      <4> HIDE DEF weight
      <4> QED
        BY <1>2, <1>8, <3>1
    <3>3. Feathered(M, Full)[p] = weight(p, M, Distance(p, A))
      <4> HIDE DEF weight
      <4> QED
        BY <1>2, <1>8, <3>1
    <3>4. Distance(p, A) = Distance(p, B) /\ (p \in T <=> p \in M)
      BY <1>11, <2>2
    <3> QED
      BY <3>2, <3>3, <3>4
  <2> QED
    BY <2>1, <2>2 DEF IsPart
<1>13. DOMAIN Feathered(M, Full) = E
  BY <1>2, <1>8
<1> QED
  BY <1>3, <1>12, <1>13 DEF m

WholeLayer == FeatheredMask(WholeMask, Full)

\* Each group's layer is its part of the layer of the whole frame.
LEMMA LayerParts ==
  ASSUME Grouped, NEW g \in DOMAIN groups
  PROVE  /\ \A k \in DOMAIN groups : IsPart(Layer(groups[k]), WholeLayer, k)
         /\ \A p \in DOMAIN WholeLayer : \E k \in DOMAIN groups : p \in In(groups[k].crop)
<1> DEFINE m == setting.margin
           M == WholeMask
<1>1. /\ m \in Nat /\ m + 1 \in Nat /\ Sparse(M, m + 1) /\ M \subseteq In(Full)
      /\ \A k \in DOMAIN groups :
            FillPolygons(groups[k].members, groups[k].crop) = M \cap In(groups[k].crop)
  BY MaskParts DEF Sparse
<1>2. ASSUME NEW k \in DOMAIN groups
      PROVE  /\ M \cap In(groups[k].crop) # {}
             /\ Layer(groups[k]) = FeatheredMask(M \cap In(groups[k].crop), groups[k].crop)
  <2>1. groups[k] \in Groups
    BY LenProperties, ElementOfSeq DEF Grouped
  <2>2. FillPolygons(groups[k].members, groups[k].crop) # {}
    BY <2>1, MaskHolds DEF Grouped
  <2> QED
    BY <1>1, <2>2 DEF Layer
<1> HIDE DEF M
<1>3. ASSUME NEW p \in In(Full), NEW q \in M, NearBy(p, q, m)
      PROVE  \E k \in DOMAIN groups : p \in In(groups[k].crop)
  <2>1. p[1] \in Int /\ p[2] \in Int /\ q[1] \in Int /\ q[2] \in Int
    BY <1>1, FullHolds
  <2>2. NearBy(p, q, m + 1)
    BY <1>1, <1>3, <2>1 DEF NearBy
  <2> QED
    BY <1>1, <2>2 DEF Sparse
<1>4. \A S, c : FeatheredMask(S, c) =
         IF m = 0 THEN [p \in S |-> 0] ELSE IF m # DefaultMargin THEN Tapered(S, c) ELSE Feathered(S, c)
  BY DEF FeatheredMask
<1>5. WholeLayer = FeatheredMask(M, Full)
  BY DEF WholeLayer, M
<1>6. CASE m = 0
  <2>1. WholeLayer = [p \in M |-> 0]
    BY <1>4, <1>5, <1>6
  <2>2. ASSUME NEW k \in DOMAIN groups PROVE IsPart(Layer(groups[k]), WholeLayer, k)
    <3>1. Layer(groups[k]) = [p \in M \cap In(groups[k].crop) |-> 0]
      BY <1>2, <1>4, <1>6
    <3> QED
      BY <2>1, <3>1 DEF IsPart
  <2>3. ASSUME NEW p \in M PROVE \E k \in DOMAIN groups : p \in In(groups[k].crop)
    <3>1. p \in In(Full)
      BY <1>1
    <3>2. NearBy(p, p, m)
      BY <1>6, <3>1, FullHolds DEF NearBy
    <3> QED
      BY <1>3, <3>1, <3>2
  <2> QED
    BY <2>1, <2>2, <2>3
<1>7. CASE m # 0 /\ m # DefaultMargin
  <2>1. WholeLayer = Tapered(M, Full)
    BY <1>4, <1>5, <1>7
  <2>2. ASSUME NEW k \in DOMAIN groups
        PROVE  /\ IsPart(Layer(groups[k]), WholeLayer, k)
               /\ \A p \in DOMAIN WholeLayer : p \in In(Full) /\ \E q \in M : NearBy(p, q, m)
    <3>1. Layer(groups[k]) = Tapered(M \cap In(groups[k].crop), groups[k].crop)
      BY <1>2, <1>4, <1>7
    <3> QED
      BY <1>1, <1>2, <2>1, <3>1, TaperedParts
  <2> QED
    BY <1>3, <2>2
<1>8. CASE m # 0 /\ m = DefaultMargin
  <2>1. WholeLayer = Feathered(M, Full)
    BY <1>4, <1>5, <1>8
  <2>2. ASSUME NEW k \in DOMAIN groups
        PROVE  /\ IsPart(Layer(groups[k]), WholeLayer, k)
               /\ \A p \in DOMAIN WholeLayer : p \in In(Full) /\ \E q \in M : NearBy(p, q, m)
    <3>1. Layer(groups[k]) = Feathered(M \cap In(groups[k].crop), groups[k].crop)
      BY <1>2, <1>4, <1>8
    <3> QED
      BY <1>1, <1>2, <1>8, <2>1, <3>1, FeatheredParts
  <2> QED
    BY <1>3, <2>2
<1> QED
  BY <1>6, <1>7, <1>8

\* The joint box is a box, and every box is inside it.
LEMMA JointHolds ==
  ASSUME NEW boxes, NEW k \in DOMAIN boxes, \A i \in DOMAIN boxes : boxes[i] \in Rects
  PROVE  Joint(boxes) \in Rects /\ \A p \in In(boxes[k]) : p \in In(Joint(boxes))
<1> DEFINE ls == {boxes[i].left : i \in DOMAIN boxes}
           ts == {boxes[i].top : i \in DOMAIN boxes}
           rs == {boxes[i].right : i \in DOMAIN boxes}
           bs == {boxes[i].bottom : i \in DOMAIN boxes}
           joint == Joint(boxes)
<1>1. Width \in Nat /\ Height \in Nat
  BY MosaicAssumption
<1>2. /\ ls \in SUBSET (0..Width) /\ rs \in SUBSET (0..Width)
      /\ ts \in SUBSET (0..Height) /\ bs \in SUBSET (0..Height)
      /\ boxes[k].left \in ls /\ boxes[k].top \in ts /\ boxes[k].right \in rs /\ boxes[k].bottom \in bs
  BY DEF Rects
<1>3. joint = [left |-> Min(ls), top |-> Min(ts), right |-> Max(rs), bottom |-> Max(bs)]
  BY DEF Joint
<1>4. boxes[k] \in Rects
  OBVIOUS
<1> HIDE DEF ls, ts, rs, bs, joint
<1>5. /\ Min(ls) \in ls /\ Min(ls) <= boxes[k].left /\ Min(ts) \in ts /\ Min(ts) <= boxes[k].top
  <2>1. ls \in SUBSET Nat /\ ts \in SUBSET Nat /\ ls # {} /\ ts # {}
    BY <1>1, <1>2
  <2> QED
    BY <1>2, <2>1, MinIsLeast
<1>6. /\ Max(rs) \in rs /\ boxes[k].right <= Max(rs) /\ Max(bs) \in bs /\ boxes[k].bottom <= Max(bs)
  <2>1. rs # {} /\ bs # {}
    BY <1>2
  <2> QED
    BY <1>1, <1>2, <2>1, MaxIsGreatest
<1>7. joint \in Rects
  BY <1>2, <1>3, <1>5, <1>6 DEF Rects
<1>8. ASSUME NEW p \in In(boxes[k]) PROVE p \in In(joint)
  <2>1. /\ p[1] \in Nat /\ p[2] \in Nat /\ p = <<p[1], p[2]>>
        /\ boxes[k].left <= p[1] /\ p[1] < boxes[k].right
        /\ boxes[k].top <= p[2] /\ p[2] < boxes[k].bottom
    BY <1>1, <1>4, PixelsAreNat
  <2>2. /\ boxes[k].left \in Nat /\ boxes[k].top \in Nat /\ boxes[k].right \in Nat /\ boxes[k].bottom \in Nat
        /\ joint.left \in Nat /\ joint.top \in Nat /\ joint.right \in Nat /\ joint.bottom \in Nat
    BY <1>1, <1>4, <1>7 DEF Rects
  <2>3. /\ joint.left <= boxes[k].left /\ joint.top <= boxes[k].top
        /\ boxes[k].right <= joint.right /\ boxes[k].bottom <= joint.bottom
    BY <1>3, <1>5, <1>6
  <2>4. joint.left <= p[1] /\ p[1] < joint.right /\ joint.top <= p[2] /\ p[2] < joint.bottom
    BY <2>1, <2>2, <2>3
  <2> QED
    BY <1>7, <2>1, <2>4, PixelIsIn
<1> QED
  BY <1>7, <1>8 DEF joint

\* What is blended is the layer of the whole frame with the blur of the whole frame.
LEMMA BlendIsWhole ==
  ASSUME Grouped, NEW g \in DOMAIN groups
  PROVE  BlendLayers([k \in DOMAIN groups |-> Layer(groups[k])])
            = [p \in DOMAIN WholeLayer |-> <<WholeLayer[p], FrameBlur(p, Full)>>]
<1> DEFINE layers == [i \in DOMAIN groups |-> Layer(groups[i])]
           boxes == [i \in DOMAIN layers |-> Bounds(DOMAIN layers[i])]
           joint == Joint(boxes)
           areas == BlurAreas(boxes)
           all == UNION {DOMAIN layers[i] : i \in DOMAIN layers}
           weighed == {q \in all : q \in DOMAIN layers[Writer(boxes, q)]}
           value(q) == LET i == Writer(boxes, q)
                       IN <<layers[i][q], FrameBlur(q, LayerCrop(boxes[i], joint, areas))>>
           whole(q) == <<WholeLayer[q], FrameBlur(q, Full)>>
<1>1. DOMAIN groups = 1..Len(groups) /\ Len(groups) \in Nat /\ \A i \in DOMAIN groups : groups[i] \in Groups
  BY LenProperties, ElementOfSeq DEF Grouped
<1>2. ASSUME NEW i \in DOMAIN groups
      PROVE  /\ groups[i].crop \in Rects /\ boxes[i] \in Rects
             /\ In(boxes[i]) \subseteq In(groups[i].crop)
             /\ \A q \in DOMAIN Layer(groups[i]) : q \in In(boxes[i])
  <2>1. groups[i] \in Groups /\ groups[i].crop \in Rects
    BY <1>1 DEF Groups
  <2>2. boxes[i] = Bounds(DOMAIN Layer(groups[i]))
    OBVIOUS
  <2>3. DOMAIN Layer(groups[i]) \in SUBSET In(groups[i].crop) /\ DOMAIN Layer(groups[i]) # {}
    BY <2>1, LayerIsOpaque DEF Grouped
  <2> HIDE DEF boxes
  <2> QED
    BY <2>1, <2>2, <2>3, BoundsHold
<1>3. DOMAIN layers = DOMAIN groups /\ DOMAIN boxes = DOMAIN groups
  OBVIOUS
<1>4. \A i \in DOMAIN groups : layers[i] = Layer(groups[i])
  OBVIOUS
<1>5. BlendLayers(layers) = [q \in weighed |-> value(q)]
  BY DEF BlendLayers
<1>6. /\ \A i \in DOMAIN groups : IsPart(layers[i], WholeLayer, i)
      /\ \A p \in DOMAIN WholeLayer : \E i \in DOMAIN groups : p \in In(groups[i].crop)
  BY <1>4, LayerParts
<1> HIDE DEF layers, boxes, joint, areas
<1>7. ASSUME NEW k \in DOMAIN groups, NEW p \in DOMAIN layers[k]
      PROVE  /\ Writer(boxes, p) = k /\ p \in In(boxes[k])
             /\ p \in DOMAIN WholeLayer /\ layers[k][p] = WholeLayer[p]
  <2>1. p \in In(boxes[k])
    BY <1>2, <1>4, <1>7
  <2>2. {i \in DOMAIN boxes : p \in In(boxes[i])} = {k}
    <3>1. ASSUME NEW i \in DOMAIN groups, p \in In(boxes[i]) PROVE i = k
      BY <1>2, <2>1, <3>1, OneCrop
    <3> QED
      BY <1>3, <2>1, <3>1
  <2>3. Writer(boxes, p) = k
    BY <1>1, <2>2, MaxOfOne DEF Writer
  <2> QED
    BY <1>6, <1>7, <2>1, <2>3 DEF IsPart
<1>8. weighed = DOMAIN WholeLayer
  <2>1. ASSUME NEW p \in weighed PROVE p \in DOMAIN WholeLayer
    <3>1. PICK k \in DOMAIN groups : p \in DOMAIN layers[k]
      BY <1>3
    <3> QED
      BY <1>7, <3>1
  <2>2. ASSUME NEW p \in DOMAIN WholeLayer PROVE p \in weighed
    <3>1. PICK k \in DOMAIN groups : p \in In(groups[k].crop)
      BY <1>6
    <3>2. p \in DOMAIN layers[k]
      BY <1>6, <3>1 DEF IsPart
    <3>3. Writer(boxes, p) = k
      BY <1>7, <3>2
    <3> QED
      BY <1>3, <3>2, <3>3
  <2> QED
    BY <2>1, <2>2
<1>9. ASSUME NEW p \in weighed PROVE value(p) = whole(p)
  <2>1. PICK k \in DOMAIN groups : p \in DOMAIN layers[k]
    BY <1>3
  <2>2. /\ Writer(boxes, p) = k /\ p \in In(boxes[k]) /\ layers[k][p] = WholeLayer[p]
    BY <1>7, <2>1
  <2>3. value(p) = <<layers[k][p], FrameBlur(p, LayerCrop(boxes[k], joint, areas))>>
    BY <2>2
  <2>4. \A i \in DOMAIN boxes : boxes[i] \in Rects
    BY <1>2, <1>3
  <2>5. joint \in Rects /\ p \in In(joint) /\ boxes[k] \in Rects
    BY <1>3, <2>2, <2>4, JointHolds DEF joint
  <2>6. FrameBlur(p, BlurCrop(joint)) = FrameBlur(p, Full) /\ FrameBlur(p, BlurCrop(boxes[k])) = FrameBlur(p, Full)
    BY <2>2, <2>5, BlurIsTheFrames DEF Grouped
  <2>7. FrameBlur(p, LayerCrop(boxes[k], joint, areas)) = FrameBlur(p, Full)
    BY <2>6 DEF LayerCrop
  <2> QED
    BY <2>2, <2>3, <2>7
<1> HIDE DEF weighed, value, whole
<1>10. [q \in weighed |-> value(q)] = [q \in DOMAIN WholeLayer |-> whole(q)]
  BY <1>8, <1>9
<1>11. BlendLayers(layers) = [q \in DOMAIN WholeLayer |-> whole(q)]
  BY <1>5, <1>10
<1> QED
  BY <1>11 DEF layers, whole

-----------------------------------------------------------------------------
(* The mosaic: an answer is the whole frame's.                                 *)

\* The crops have room for their members, all that is held is protected, and what
\* was painted is the whole frame's.
WholeInv ==
    /\ Roomy
    /\ \A b \in group.members : Covers(group.crop, Widened(b))
    /\ Held \subseteq ProtectedPolygons
    /\ step \in {"encoding", "answered"} => painted = WholeFrame

LEMMA FrameStays ==
  ASSUME UNCHANGED <<setting, items>>
  PROVE  /\ WholeFrame' = WholeFrame /\ ProtectedPolygons' = ProtectedPolygons
         /\ \A b : Widened(b)' = Widened(b)
<1>1. ReductionCell' = ReductionCell
  BY DEF ReductionCell, CeilDiv
<1>2. Kernel' = Kernel
  BY <1>1 DEF Kernel, CeilDiv
<1>3. ProtectedPolygons' = ProtectedPolygons
  BY DEF ProtectedPolygons, Protected, Polygon, Within
<1>4. WholeFrame' = WholeFrame
  BY <1>1, <1>2, <1>3
     DEF WholeFrame, Layer, FeatheredMask, Tapered, FillPolygons, FrameBlur, Reads, Full
<1>5. Reach' = Reach
  BY DEF Reach
<1>6. \A b : Widened(b)' = Widened(b)
  BY <1>5 DEF Widened
<1> QED
  BY <1>3, <1>4, <1>6

\* What a step may do before anything is painted.
LEMMA NotPaintedYet ==
  ASSUME WholeInv, UNCHANGED <<setting, items>>, step' \notin {"encoding", "answered"},
         \A k \in DOMAIN groups' : \A b \in groups'[k].members : Covers(groups'[k].crop, Widened(b)),
         \A b \in group'.members : Covers(group'.crop, Widened(b)),
         Held' \subseteq ProtectedPolygons
  PROVE  WholeInv'
<1>1. ProtectedPolygons' = ProtectedPolygons /\ \A b : Widened(b)' = Widened(b)
  BY FrameStays
<1>2. Roomy'
  BY <1>1 DEF Roomy
<1>3. (\A b \in group.members : Covers(group.crop, Widened(b)))'
  BY <1>1
<1> QED
  BY <1>1, <1>2, <1>3 DEF WholeInv

LEMMA NothingMoves ==
  ASSUME WholeInv, UNCHANGED <<setting, items, polygons, group, groups>>,
         step' \notin {"encoding", "answered"}
  PROVE  WholeInv'
<1>1. Held' = Held
  BY DEF Held
<1> QED
  BY <1>1, NotPaintedYet DEF WholeInv, Roomy

LEMMA NextObjectIsWhole ==
  ASSUME MosaicInv, WholeInv, NextObject
  PROVE  WholeInv'
<1> DEFINE item == items[listed + 1]
           outline == Polygon(item.outline)
<1>1. CASE Refuse
  BY <1>1, NothingMoves DEF Refuse
<1>2. CASE /\ \/ ~Protected(item) /\ UNCHANGED polygons
              \/ Protected(item) /\ HasArea(outline) /\ polygons' = Append(polygons, outline)
           /\ listed' = listed + 1
           /\ step' = IF listed' = Len(items) THEN "grouping" ELSE "listing"
           /\ UNCHANGED <<setting, format, items, group, groups, painted>>
  <2>1. items \in Seq([outline : Int \X Int \X Int \X Int, whitelisted : BOOLEAN, plate : BOOLEAN])
    BY MosaicAssumption DEF MosaicInv
  <2>2. Len(items) \in Nat /\ listed \in Nat /\ listed < Len(items) /\ DOMAIN items = 1..Len(items)
    BY <2>1, LenProperties DEF MosaicInv, NextObject
  <2>3. listed + 1 \in DOMAIN items
    BY <2>2
  <2>4. item.outline \in Int \X Int \X Int \X Int
    <3>1. item \in [outline : Int \X Int \X Int \X Int, whitelisted : BOOLEAN, plate : BOOLEAN]
      BY <2>1, <2>2, <2>3, ElementOfSeq
    <3> QED
      BY <3>1
  <2>5. Held' \subseteq ProtectedPolygons
    <3>1. CASE ~Protected(item) /\ UNCHANGED polygons
      BY <1>2, <3>1 DEF WholeInv, Held
    <3>2. CASE Protected(item) /\ HasArea(outline) /\ polygons' = Append(polygons, outline)
      <4>1. outline \in Outlines
        BY <2>4, <3>2, PolygonIsClipped
      <4>2. outline \in ProtectedPolygons
        BY <2>3, <3>2 DEF ProtectedPolygons
      <4> HIDE DEF outline
      <4>3. ToSet(polygons') = ToSet(polygons) \cup {outline}
        BY <3>2, <4>1, AppendFacts DEF MosaicInv
      <4> QED
        BY <1>2, <4>2, <4>3 DEF WholeInv, Held
    <3> QED
      BY <1>2, <3>1, <3>2
  <2> QED
    BY <1>2, <2>5, NotPaintedYet DEF WholeInv, Roomy
<1> QED
  BY <1>1, <1>2 DEF NextObject

LEMMA NextPolygonIsWhole ==
  ASSUME MosaicInv, WholeInv, NextPolygon
  PROVE  WholeInv'
<1>1. /\ step' = "grouping" /\ polygons # <<>> /\ polygons \in Seq(Outlines) /\ Accepted
      /\ group' = [crop |-> Widened(Head(polygons)), members |-> {Head(polygons)}]
      /\ polygons' = Tail(polygons)
      /\ UNCHANGED <<setting, items, groups>>
  BY DEF NextPolygon, MosaicInv
<1>2. Head(polygons) \in Outlines /\ ToSet(polygons) = {Head(polygons)} \cup ToSet(Tail(polygons))
  BY <1>1, HeadTailElements
<1>3. Held' \subseteq ProtectedPolygons
  BY <1>1, <1>2 DEF WholeInv, Held
<1>4. Covers(Widened(Head(polygons)), Widened(Head(polygons)))
  <2>1. Widened(Head(polygons)) \in Rects
    BY <1>1, <1>2, WidenedHolds
  <2> QED
    BY <2>1, MosaicAssumption DEF Covers, Rects
<1> QED
  BY <1>1, <1>3, <1>4, NotPaintedYet DEF WholeInv, Roomy

\* A hull has room where either of its crops had it.
LEMMA HullCovers ==
  ASSUME NEW a \in Rects, NEW b \in Rects, NEW w \in Rects, Covers(a, w) \/ Covers(b, w)
  PROVE  Covers(Hull(a, b), w)
<1>1. /\ a.left \in Nat /\ a.top \in Nat /\ a.right \in Nat /\ a.bottom \in Nat
      /\ b.left \in Nat /\ b.top \in Nat /\ b.right \in Nat /\ b.bottom \in Nat
      /\ w.left \in Nat /\ w.top \in Nat /\ w.right \in Nat /\ w.bottom \in Nat
  BY MosaicAssumption DEF Rects
<1> DEFINE h == Hull(a, b)
<1>2. /\ h.left = Min({a.left, b.left}) /\ h.top = Min({a.top, b.top})
      /\ h.right = Max({a.right, b.right}) /\ h.bottom = Max({a.bottom, b.bottom})
  BY DEF Hull
<1> HIDE DEF h
<1>3. /\ h.left = IF a.left <= b.left THEN a.left ELSE b.left
      /\ h.top = IF a.top <= b.top THEN a.top ELSE b.top
      /\ h.right = IF a.right >= b.right THEN a.right ELSE b.right
      /\ h.bottom = IF a.bottom >= b.bottom THEN a.bottom ELSE b.bottom
  BY <1>1, <1>2, MinOfTwo, MaxOfTwo
<1>4. Covers(h, w)
  BY <1>1, <1>3 DEF Covers
<1> QED
  BY <1>4 DEF h

LEMMA AbsorbIsWhole ==
  ASSUME MosaicInv, WholeInv, Absorb
  PROVE  WholeInv'
<1> DEFINE i == Min(Touched)
           rest == RemoveAt(groups, i)
<1>1. /\ step' = "grouping" /\ group \in Groups /\ groups \in Seq(Groups) /\ Accepted
      /\ group' = [crop |-> Hull(group.crop, groups[i].crop),
                   members |-> group.members \cup groups[i].members]
      /\ groups' = rest
      /\ UNCHANGED <<setting, items, polygons>>
  BY DEF Absorb, MosaicInv
<1>2. Len(groups) \in Nat /\ DOMAIN groups = 1..Len(groups) /\ \A k \in 1..Len(groups) : groups[k] \in Groups
  BY <1>1, LenProperties, ElementOfSeq
<1>3. i \in 1..Len(groups)
  <2>1. Touched \in SUBSET Nat /\ Touched # {}
    BY <1>2 DEF Touched, Absorb
  <2>2. i \in Touched
    BY <2>1, MinIsLeast
  <2> QED
    BY <1>2, <2>2 DEF Touched
<1> HIDE DEF i
<1>4. /\ rest \in Seq(Groups) /\ Len(rest) = Len(groups) - 1
      /\ \A k \in 1..(i - 1) : rest[k] = groups[k]
      /\ \A k \in i..(Len(groups) - 1) : rest[k] = groups[k + 1]
  BY <1>1, <1>3, RemoveAtElements
<1> HIDE DEF rest
<1>5. Len(rest) \in Nat /\ DOMAIN rest = 1..Len(rest)
  BY <1>4, LenProperties
<1>6. ASSUME NEW k \in DOMAIN rest PROVE \E j \in DOMAIN groups : rest[k] = groups[j]
  <2>1. k \in 1..(i - 1) \/ k \in i..(Len(groups) - 1)
    BY <1>2, <1>3, <1>4, <1>5
  <2>2. CASE k \in 1..(i - 1)
    <3>1. k \in 1..Len(groups)
      BY <1>2, <1>3, <2>2
    <3> QED
      BY <1>2, <1>4, <2>2, <3>1
  <2>3. CASE k \in i..(Len(groups) - 1)
    <3>1. k + 1 \in 1..Len(groups)
      BY <1>2, <1>3, <2>3
    <3> QED
      BY <1>2, <1>4, <2>3, <3>1
  <2> QED
    BY <2>1, <2>2, <2>3
<1>7. \A k \in DOMAIN groups' : \A b \in groups'[k].members : Covers(groups'[k].crop, Widened(b))
  BY <1>1, <1>6 DEF WholeInv, Roomy
<1>8. ASSUME NEW b \in group'.members PROVE Covers(group'.crop, Widened(b))
  <2>1. /\ group.crop \in Rects /\ groups[i].crop \in Rects
        /\ group.members \in SUBSET Outlines /\ groups[i].members \in SUBSET Outlines
    BY <1>1, <1>2, <1>3 DEF Groups
  <2>2. b \in Outlines
    BY <1>1, <2>1
  <2>3. Widened(b) \in Rects
    BY <1>1, <2>2, WidenedHolds
  <2>4. Covers(group.crop, Widened(b)) \/ Covers(groups[i].crop, Widened(b))
    BY <1>1, <1>2, <1>3 DEF WholeInv, Roomy
  <2> QED
    BY <1>1, <2>1, <2>3, <2>4, HullCovers
<1>9. Held' \subseteq ProtectedPolygons
  <2>1. UNION {rest[k].members : k \in DOMAIN rest} \subseteq UNION {groups[k].members : k \in DOMAIN groups}
    BY <1>6
  <2>2. groups[i].members \subseteq UNION {groups[k].members : k \in DOMAIN groups}
    BY <1>2, <1>3
  <2> QED
    BY <1>1, <2>1, <2>2 DEF WholeInv, Held
<1> QED
  BY <1>1, <1>7, <1>8, <1>9, NotPaintedYet

LEMMA CompleteIsWhole ==
  ASSUME MosaicInv, WholeInv, Complete
  PROVE  WholeInv'
<1>1. /\ step' = "grouping" /\ group \in Groups /\ groups \in Seq(Groups)
      /\ groups' = Append(groups, group) /\ group' = NoGroup
      /\ UNCHANGED <<setting, items, polygons>>
  BY DEF Complete, MosaicInv
<1>2. Len(groups) \in Nat /\ DOMAIN groups = 1..Len(groups)
  BY <1>1, LenProperties
<1>3. /\ DOMAIN groups' = 1..(Len(groups) + 1)
      /\ groups'[Len(groups) + 1] = group /\ \A k \in 1..Len(groups) : groups'[k] = groups[k]
  <2>1. DOMAIN Append(groups, group) = 1..Len(Append(groups, group))
    BY <1>1, AppendProperties, LenProperties
  <2> QED
    BY <1>1, <2>1, AppendProperties
<1>4. ASSUME NEW k \in DOMAIN groups'
      PROVE  groups'[k] = group \/ \E j \in DOMAIN groups : groups'[k] = groups[j]
  BY <1>2, <1>3
<1>5. \A k \in DOMAIN groups' : \A b \in groups'[k].members : Covers(groups'[k].crop, Widened(b))
  BY <1>4 DEF WholeInv, Roomy
<1>6. \A b \in group'.members : Covers(group'.crop, Widened(b))
  BY <1>1 DEF NoGroup
<1>7. Held' \subseteq ProtectedPolygons
  <2>1. UNION {groups'[k].members : k \in DOMAIN groups'}
           \subseteq group.members \cup (UNION {groups[k].members : k \in DOMAIN groups})
    BY <1>4
  <2> QED
    BY <1>1, <2>1 DEF WholeInv, Held, NoGroup
<1> QED
  BY <1>1, <1>5, <1>6, <1>7, NotPaintedYet

\* All protected polygons are in groups by now, and none that is not.
LEMMA BlendPaintsTheWhole ==
  ASSUME MosaicInv, WholeInv, Blend
  PROVE  painted' = WholeFrame
<1>1. /\ step = "grouping" /\ group = NoGroup /\ polygons = <<>> /\ listed = Len(items)
      /\ Accepted /\ Required \subseteq Held /\ groups \in Seq(Groups) /\ GroupsAreApart
      /\ painted' = IF groups = <<>> THEN <<>>
                    ELSE BlendLayers([k \in DOMAIN groups |-> Layer(groups[k])])
  BY DEF Blend, MosaicInv
<1>2. Held = Members
  <2>1. ToSet(polygons) = {}
    BY <1>1 DEF ToSet
  <2> QED
    BY <1>1, <2>1 DEF Held, NoGroup, Members
<1>3. Required = ProtectedPolygons
  <2>1. DOMAIN items = 1..Len(items)
    BY MosaicAssumption, LenProperties DEF MosaicInv
  <2> QED
    BY <1>1, <2>1 DEF Required, ProtectedPolygons
<1>4. Members = ProtectedPolygons
  BY <1>1, <1>2, <1>3 DEF WholeInv
<1>5. DOMAIN groups = 1..Len(groups) /\ Len(groups) \in Nat /\ \A k \in DOMAIN groups : groups[k] \in Groups
  BY <1>1, LenProperties, ElementOfSeq
<1>6. CASE groups = <<>>
  <2>1. Members = {}
    BY <1>6 DEF Members
  <2> QED
    BY <1>1, <1>4, <1>6, <2>1 DEF WholeFrame
<1>7. CASE groups # <<>>
  <2>1. PICK g \in DOMAIN groups : TRUE
    BY <1>1, <1>5, <1>7, EmptySeq
  <2>2. ProtectedPolygons # {}
    <3>1. groups[g] \in Groups
      BY <1>5
    <3>2. groups[g].members # {} /\ groups[g].members \subseteq Members
      BY <3>1 DEF Groups, Members
    <3> QED
      BY <1>4, <3>2
  <2>3. Layer([crop |-> Full, members |-> ProtectedPolygons]) = WholeLayer
    BY <1>4 DEF Layer, WholeLayer, WholeMask
  <2>4. WholeFrame = [p \in DOMAIN WholeLayer |-> <<WholeLayer[p], FrameBlur(p, Full)>>]
    BY <2>2, <2>3, Zenon DEF WholeFrame
  <2>5. Grouped
    BY <1>1 DEF Grouped, WholeInv
  <2>6. painted' = BlendLayers([k \in DOMAIN groups |-> Layer(groups[k])])
    BY <1>1, <1>7
  <2> QED
    BY <2>4, <2>5, <2>6, BlendIsWhole
<1> QED
  BY <1>6, <1>7

LEMMA PaintedStays ==
  ASSUME WholeInv, UNCHANGED <<setting, items, polygons, group, groups>>,
         step' \in {"encoding", "answered"} => painted' = WholeFrame
  PROVE  WholeInv'
<1>1. /\ WholeFrame' = WholeFrame /\ ProtectedPolygons' = ProtectedPolygons
      /\ \A b : Widened(b)' = Widened(b)
  BY FrameStays
<1>2. Held' = Held
  BY DEF Held
<1>3. Roomy'
  BY <1>1 DEF WholeInv, Roomy
<1>4. (\A b \in group.members : Covers(group.crop, Widened(b)))'
  BY <1>1 DEF WholeInv
<1> QED
  BY <1>1, <1>2, <1>3, <1>4 DEF WholeInv

LEMMA MosaicInitIsWhole ==
  MosaicInit => WholeInv
<1> SUFFICES ASSUME MosaicInit PROVE WholeInv
  OBVIOUS
<1>1. /\ step = "called" /\ polygons = <<>> /\ groups = <<>> /\ group = NoGroup
  BY DEF MosaicInit
<1>2. ToSet(<<>>) = {} /\ DOMAIN <<>> = {}
  BY DEF ToSet
<1>3. Held = {}
  BY <1>1, <1>2 DEF Held, NoGroup
<1> QED
  BY <1>1, <1>2, <1>3 DEF WholeInv, Roomy, NoGroup

THEOREM WholeInvariant ==
  MosaicSpec => []WholeInv
<1>1. ASSUME MosaicInv, WholeInv, [MosaicNext]_mosaicVars
      PROVE  WholeInv'
  <2>1. CASE MosaicJpeg \/ MosaicYuv420p \/ MosaicBgr
    <3>1. Composes \/ Refuse
      BY <2>1 DEF MosaicJpeg, MosaicYuv420p, MosaicBgr
    <3>2. UNCHANGED <<setting, items, polygons, group, groups>> /\ step' \notin {"encoding", "answered"}
      BY <3>1 DEF Composes, Refuse
    <3> QED
      BY <1>1, <3>2, NothingMoves
  <2>2. CASE NextObject
    BY <1>1, <2>2, NextObjectIsWhole
  <2>3. CASE NextPolygon
    BY <1>1, <2>3, NextPolygonIsWhole
  <2>4. CASE Absorb
    BY <1>1, <2>4, AbsorbIsWhole
  <2>5. CASE Complete
    BY <1>1, <2>5, CompleteIsWhole
  <2>6. CASE Blend
    <3>1. UNCHANGED <<setting, items, polygons, group, groups>>
      BY <2>6 DEF Blend
    <3> QED
      BY <1>1, <2>6, <3>1, BlendPaintsTheWhole, PaintedStays
  <2>7. CASE Encode
    <3>1. /\ UNCHANGED <<setting, items, polygons, group, groups>>
          /\ step = "encoding" /\ painted' = painted
      BY <2>7 DEF Encode
    <3> QED
      BY <1>1, <3>1, PaintedStays DEF WholeInv
  <2>8. CASE UNCHANGED mosaicVars
    <3>1. UNCHANGED <<setting, items, polygons, group, groups, step, painted>>
      BY <2>8 DEF mosaicVars
    <3> QED
      BY <1>1, <3>1, PaintedStays DEF WholeInv
  <2> QED
    BY <1>1, <2>1, <2>2, <2>3, <2>4, <2>5, <2>6, <2>7, <2>8 DEF MosaicNext
<1> QED
  BY <1>1, MosaicInitIsWhole, MosaicInvariant, PTL DEF MosaicSpec

\* For frames, outlines and settings of any size, an answer is pixel for pixel what
\* one mask and one blur of the whole frame would have drawn: grouping, cropping,
\* and blurring by groups or jointly never show.
THEOREM AnswersAreTheWhole ==
  MosaicSpec => []AnswersShowTheWhole
<1>1. ASSUME WholeInv, ProtectedAreOpaque PROVE AnswersShowTheWhole
  BY <1>1 DEF WholeInv, AnswersShowTheWhole
<1> QED
  BY <1>1, AnswersHideTheProtected, WholeInvariant, PTL
=============================================================================
