----------------------------- MODULE BrowserForms -----------------------------
(***************************************************************************)
(* web/app.js, the two forms of class App that send files: one image for      *)
(* inference, shown as three pictures, and a list of faces to enroll, shown    *)
(* with the state of each.  Both are answered late, and nothing keeps the      *)
(* user from choosing other files meanwhile: the pickers are never locked.     *)
(* A file is a number, the same file chosen again is another one.              *)
(***************************************************************************)
EXTENDS Naturals, Sequences

CONSTANTS
    Pictures,       \* bound: files chosen for inference
    Faces,          \* bound: files chosen for enrollment
    AtOnce          \* bound: files of one choice

ASSUME FormsAssumption == {Pictures, Faces, AtOnce} \subseteq Nat

VARIABLES
    pictures,       \* files chosen for inference so far
    picture,        \* this.inferenceFile, 0 for null
    original,       \* the file of inference-original, 0 for none
    result,         \* the file whose model input and result are in place
    visible,        \* inference-viewers is not hidden
    inferring,      \* the file inferSelectedImage has sent, 0 for none
    faces,          \* files chosen for enrollment so far
    chosen,         \* this.selectedWhitelistFiles
    rows,           \* this.enrollmentFileStates: a file and what is said of it
    sending,        \* the files of enrollWhitelist, <<>> if it does not run
    at,             \* the index it has come to
    handing,        \* "preparing", "uploading" or "status"
    enrolled,       \* the files the gateway has taken
    removing,       \* deletingWhitelistEntryId is not null
    crossed         \* history: the pickers whose choice was made while the one
                    \* before it was sent

pictureVars == <<pictures, picture, original, result, visible, inferring>>
faceVars == <<faces, chosen, rows, sending, at, handing, enrolled, removing>>
formVars == <<pictureVars, faceVars, crossed>>

Row == [file : 1..Faces, says : {"ready", "preparing", "uploading", "success", "error"}]

FormsInit ==
    /\ pictures = 0 /\ picture = 0 /\ original = 0 /\ result = 0
    /\ visible = FALSE /\ inferring = 0
    /\ faces = 0 /\ chosen = <<>> /\ rows = <<>>
    /\ sending = <<>> /\ at = 0 /\ handing = "status" /\ enrolled = {} /\ removing = FALSE
    /\ crossed = {}

\* A choice of a picker, crossing what it has sent or not.
Chooses(picker, crosses) ==
    crossed' = (crossed \ {picker}) \cup {p \in {picker} : crosses}

-----------------------------------------------------------------------------
(* One image: setInferenceFile, inferSelectedImage.                            *)

\* Mutant of Hides: a new image leaves the viewers open.
Leaves == visible' = visible

Hides == visible' = FALSE

\* An image: shown as the original, once the viewers are.
ChooseImage ==
    /\ Chooses("image", inferring # 0)
    /\ pictures < Pictures
    /\ pictures' = pictures + 1
    /\ picture' = pictures + 1 /\ original' = pictures + 1
    /\ Hides
    /\ UNCHANGED <<result, inferring, faceVars>>

\* No file, or no image; then the original's picture stays behind the curtain.
ChooseNoImage(isFile) ==
    /\ Chooses("image", inferring # 0)
    /\ picture' = 0
    /\ original' = IF isFile THEN original ELSE 0
    /\ Hides
    /\ UNCHANGED <<pictures, result, inferring, faceVars>>

\* updateInferenceButton and the first line of inferSelectedImage.
RunInference ==
    /\ inferring = 0 /\ picture # 0
    /\ inferring' = picture
    /\ UNCHANGED <<pictures, picture, original, result, visible, faceVars, crossed>>

\* inferImage has returned a valid answer.
InferenceShown ==
    /\ inferring # 0
    /\ result' = inferring /\ visible' = TRUE
    /\ inferring' = 0
    /\ UNCHANGED <<pictures, picture, original, faceVars, crossed>>

\* Not an image after all, an error of the gateway, an answer of another
\* session or a malformed one: the message is shown, the viewers stay.
InferenceFails ==
    /\ inferring # 0
    /\ inferring' = 0
    /\ UNCHANGED <<pictures, picture, original, result, visible, faceVars, crossed>>

-----------------------------------------------------------------------------
(* The faces: setWhitelistFiles, enrollWhitelist, addWhitelistFiles.           *)

ChooseFaces(n) ==
    /\ Chooses("faces", sending # <<>>)
    /\ faces + n <= Faces
    /\ faces' = faces + n
    /\ chosen' = [i \in 1..n |-> faces + i]
    /\ rows' = [i \in 1..n |-> [file |-> faces + i, says |-> "ready"]]
    /\ UNCHANGED <<pictureVars, sending, at, handing, enrolled, removing>>

\* updateEnrollmentProgress: the row of that index, whatever file it is of.
Says(what) ==
    rows' = IF at \in DOMAIN rows THEN [rows EXCEPT ![at].says = what] ELSE rows

\* updateEnrollmentButton: not while a face is removed.
EnrollChosen ==
    /\ sending = <<>> /\ ~removing /\ chosen # <<>>
    /\ sending' = chosen
    /\ at' = 1 /\ handing' = "preparing"
    /\ rows' = [rows EXCEPT ![1].says = "preparing"]
    /\ UNCHANGED <<pictureVars, faces, chosen, enrolled, removing, crossed>>

\* normalizeWhitelistImage has made a JPEG of it.
FacePrepared ==
    /\ sending # <<>> /\ handing = "preparing"
    /\ handing' = "uploading"
    /\ Says("uploading")
    /\ UNCHANGED <<pictureVars, faces, chosen, sending, at, enrolled, removing, crossed>>

\* The row says how it went, and the next one that its file is prepared.
Goes(what, row) ==
    IF row \notin DOMAIN rows THEN "none"
    ELSE IF row = at THEN what
    ELSE IF row = at + 1 /\ at < Len(sending) THEN "preparing"
    ELSE rows[row].says

NextFace(what) ==
    /\ rows' = [i \in DOMAIN rows |-> [rows[i] EXCEPT !.says = Goes(what, i)]]
    /\ IF at < Len(sending)
       THEN at' = at + 1 /\ handing' = "preparing"
       ELSE handing' = "status" /\ UNCHANGED at

\* The gateway answers that it has the face.
FaceUploaded ==
    /\ sending # <<>> /\ handing = "uploading"
    /\ enrolled' = enrolled \cup {sending[at]}
    /\ NextFace("success")
    /\ UNCHANGED <<pictureVars, faces, chosen, sending, removing, crossed>>

\* It cannot be decoded, or not be sent, or the gateway refuses it; or its
\* answer is lost after it has taken it.
FaceFails ==
    /\ sending # <<>> /\ handing # "status"
    /\ \/ UNCHANGED enrolled
       \/ handing = "uploading" /\ enrolled' = enrolled \cup {sending[at]}
    /\ NextFace("error")
    /\ UNCHANGED <<pictureVars, faces, chosen, sending, removing, crossed>>

\* The status of the session is asked for, then finally: nothing is chosen
\* any more, also when the user has chosen since.
EnrollmentEnds ==
    /\ sending # <<>> /\ handing = "status"
    /\ sending' = <<>> /\ chosen' = <<>> /\ at' = 0
    /\ UNCHANGED <<pictureVars, faces, rows, handing, enrolled, removing, crossed>>

\* removeWhitelistEntry, from its request to its end: not while faces are sent.
Removal ==
    /\ removing \/ sending = <<>>
    /\ removing' = ~removing
    /\ UNCHANGED <<pictureVars, faces, chosen, rows, sending, at, handing, enrolled, crossed>>

FormsNext ==
    \/ ChooseImage \/ (\E isFile \in BOOLEAN : ChooseNoImage(isFile))
    \/ RunInference \/ InferenceShown \/ InferenceFails
    \/ \E n \in 0..AtOnce : ChooseFaces(n)
    \/ EnrollChosen \/ FacePrepared \/ FaceUploaded \/ FaceFails \/ EnrollmentEnds
    \/ Removal

FormsSpec == FormsInit /\ [][FormsNext]_formVars

-----------------------------------------------------------------------------
(* Properties *)

FormsTypeOK ==
    /\ {pictures, picture, original, result, inferring} \subseteq 0..Pictures
    /\ {visible, removing} \subseteq BOOLEAN
    /\ faces \in 0..Faces
    /\ chosen \in Seq(1..Faces) /\ sending \in Seq(1..Faces)
    /\ rows \in Seq(Row)
    /\ at \in 0..AtOnce /\ handing \in {"preparing", "uploading", "status"}
    /\ enrolled \subseteq 1..Faces /\ crossed \subseteq {"image", "faces"}

(* What the page says of a file is true of that file: the pictures that are     *)
(* shown together are of one image (README.md:119), and a face that counts as   *)
(* enrolled is one the gateway has taken, unless the user has chosen the image  *)
(* or the faces while the ones before were sent (app.js:964, app.js:1038).      *)
SaysTrue ==
    /\ visible /\ "image" \notin crossed => original = result
    /\ "faces" \notin crossed =>
          \A i \in DOMAIN rows : rows[i].says = "success" => rows[i].file \in enrolled
=============================================================================
