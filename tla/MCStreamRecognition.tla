------------------------- MODULE MCStreamRecognition -------------------------
(* What happens to the faces of a stream, one of three parts in a behaviour.   *)
(* "recognition": one track, followed through up to three incarnations,       *)
(* alice's face, two entries of hers that clients enroll and one of bob's.    *)
(* "faces": two of them share the server's models; the tracker bridges two    *)
(* frames, one rejected request is to spare, and metadata lasts two frames.    *)
(* "mosaic": a frame of 26 by 8 pixels, in which A and B are far enough apart  *)
(* for a blur each, C joins A and F, which do not touch each other, D has no    *)
(* area, and E is partly outside.                                              *)
EXTENDS StreamRecognition, FaceTracks, Mosaic, TLC

CONSTANTS t1, alice, bob, e1, e2, e3, f1, f2, k1, k2

MCTracks == {t1}
MCPersons == {alice, bob}
MCPersonOf == t1 :> alice
MCEntryIds == {e1, e2, e3}
MCEnrollable == {<<e1, alice>>, <<e2, alice>>, <<e3, bob>>}
MCFaces == {f1, f2}
MCKeys == {k1, k2}
MCSymmetry == Permutations({e1, e2}) \cup Permutations(MCFaces) \cup Permutations(MCKeys)

A == <<1, 5, 3, 7>>
B == <<22, 5, 24, 7>>
C == <<8, 0, 9, 1>>
D == <<25, 3, 28, 5>>
E == <<-2, 0, 1, 1>>
F == <<12, 5, 13, 6>>
Face(o) == [outline |-> o, whitelisted |-> FALSE, plate |-> FALSE]
Friend(o) == [outline |-> o, whitelisted |-> TRUE, plate |-> FALSE]
Plate(o) == [outline |-> o, whitelisted |-> TRUE, plate |-> TRUE]

MCScenes ==
    {<<>>, <<Face(A)>>, <<Friend(A), Face(B)>>, <<Face(D), Face(A)>>, <<Face(A), Face(B)>>,
     <<Friend(A), Plate(B), Face(C)>>, <<Face(B), Plate(E), Face(F)>>,
     <<Face(A), Face(F), Face(C)>>, <<Face(C), Face(A), Face(F)>>}

\* The default margin and others, a pad, cells of two pixels, and what is refused.
MCSettings ==
    [margin : {0, 1, 2, 3}, pad : {0, 1}, radius : {1}, pixel : {1}]
        \cup {[margin |-> 1, pad |-> 0, radius |-> 1, pixel |-> 2],
              [margin |-> 2, pad |-> 0, radius |-> 2, pixel |-> 1],
              [margin |-> 2, pad |-> 0, radius |-> 9, pixel |-> 1]}

VARIABLE exercise    \* "recognition", "faces" or "mosaic"

MCInit ==
    /\ exercise \in {"recognition", "faces", "mosaic"}
    /\ RecognitionInit
    /\ IF exercise = "faces" THEN FaceTracksInit ELSE FaceTracksInit /\ ~swapping
    /\ IF exercise = "mosaic" THEN MosaicInit
       ELSE MosaicInit /\ items = <<>> /\ format = "bgr" /\ setting.radius = 9
MCNext ==
    /\ UNCHANGED exercise
    /\ \/ exercise = "recognition" /\ RecognitionNext /\ UNCHANGED <<faceTrackVars, mosaicVars>>
       \/ exercise = "faces" /\ FaceTracksNext /\ UNCHANGED <<recognitionVars, mosaicVars>>
       \/ exercise = "mosaic" /\ MosaicNext /\ UNCHANGED <<recognitionVars, faceTrackVars>>
MCSpec == MCInit /\ [][MCNext]_<<exercise, recognitionVars, faceTrackVars, mosaicVars>>
=============================================================================
