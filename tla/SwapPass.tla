------------------------------- MODULE SwapPass -------------------------------
(***************************************************************************)
(* The composition of one frame in experiments/trt_swap_client/app.py:       *)
(* _compose_sync sorts the frame's objects, InSwapper.apply_many takes the   *)
(* faces to swap through alignment, preparation, one batched forward with a  *)
(* retry per face, and pasting, and what was not swapped is blurred.  Three   *)
(* numberings meet: the objects of the frame, the positions among the swap   *)
(* candidates, and the rows of the faces that are still in the batch.         *)
(*                                                                          *)
(* The networks answer or fail face by face; landmarks found for a box are    *)
(* those of its face.  "canvas" says what covers each object.                 *)
(***************************************************************************)
EXTENDS Naturals, Sequences, FiniteSets, SequencesExt

CONSTANTS
    Count,      \* bound: objects of the frame
    MaxRows     \* max_batch of the generator's engine

ASSUME SwapPassAssumption == Count \in Nat /\ MaxRows \in Nat \ {0}

VARIABLES
    pass,          \* the next stage
    kind,          \* what each object is
    candidates,    \* swap_candidates
    targets,       \* positions of candidates whose landmarks were found
    prepared,      \* positions of the prepared faces, in order
    fakes,         \* the rows of the forward: whose synthetic face each one is
    succeeded,     \* positions of the candidates that were swapped
    canvas         \* "plain", "blur", or whose synthetic face covers the object

passVars == <<pass, kind, candidates, targets, prepared, fakes, succeeded, canvas>>

Objects == 1..Count
Fake(o) == <<"fake", o>>
Plain == <<"plain", 0>>
Blur == <<"blur", 0>>
Bare == [o \in Objects |-> Plain]
Positions == DOMAIN candidates

PassTypeOK ==
    /\ pass \in {"sorting", "aligning", "preparing", "forwarding", "pasting", "blurring", "done"}
    /\ kind \in [Objects -> {"plate", "approved", "small", "face"}]
    /\ candidates \in Seq(Objects) /\ fakes \in Seq(Objects)
    /\ targets \subseteq Positions /\ succeeded \subseteq Positions
    /\ prepared \in Seq(Positions)
    /\ canvas \in [Objects -> {Plain, Blur} \cup {Fake(o) : o \in Objects}]

\* "small" also stands for held faces and masks without an area.
PassInit ==
    /\ pass = "sorting"
    /\ kind \in [Objects -> {"plate", "approved", "small", "face"}]
    /\ candidates = <<>> /\ prepared = <<>> /\ fakes = <<>>
    /\ targets = {} /\ succeeded = {}
    /\ canvas = Bare

\* A set of numbers as a list, in their order; there is one.
InOrder(ps) ==
    {s \in [1..Cardinality(ps) -> ps] : \A i, j \in DOMAIN s : i < j => s[i] < s[j]}

Sorted ==
    /\ pass = "sorting"
    /\ candidates' \in InOrder({o \in Objects : kind[o] = "face"})
    /\ pass' = IF candidates' = <<>> THEN "blurring" ELSE "aligning"
    /\ UNCHANGED <<kind, targets, prepared, fakes, succeeded, canvas>>

\* _target_faces: YuNet finds some, the analysis of the whole frame others.
Aligned ==
    /\ pass = "aligning"
    /\ \E yunet \in SUBSET Positions : \E analysed \in SUBSET (Positions \ yunet) :
          targets' = yunet \cup analysed
    /\ pass' = IF targets' = {} THEN "blurring" ELSE "preparing"
    /\ UNCHANGED <<kind, candidates, prepared, fakes, succeeded, canvas>>

\* Preparations run on a pool; those that fail are left out, the others sorted.
Prepared ==
    /\ pass = "preparing"
    /\ \E good \in SUBSET targets : prepared' \in InOrder(good)
    /\ pass' = IF prepared' = <<>> THEN "blurring" ELSE "forwarding"
    /\ UNCHANGED <<kind, candidates, targets, fakes, succeeded, canvas>>

\* forward_batch: chunks of the engine's size, their rows put together again.
Rows(faces) ==
    LET chunks == [k \in 1..((Len(faces) + MaxRows - 1) \div MaxRows) |->
                      SubSeq(faces, (k - 1) * MaxRows + 1, Min({k * MaxRows, Len(faces)}))]
    IN FlattenSeq(chunks)

\* One row that is not finite fails the batch; then each face is tried alone
\* and those that succeed are kept.
Forwarded ==
    /\ pass = "forwarding"
    /\ LET Of(rows) == [k \in DOMAIN rows |-> candidates[rows[k]]] IN
          \/ prepared' = prepared /\ fakes' = Of(Rows(prepared))
          \/ \E bad \in SUBSET ToSet(prepared) :
                /\ bad # {}
                /\ prepared' \in InOrder(ToSet(prepared) \ bad)
                /\ fakes' = Of(prepared')
    /\ pass' = IF prepared' = <<>> THEN "blurring" ELSE "pasting"
    /\ UNCHANGED <<kind, candidates, targets, succeeded, canvas>>

\* Mutant of Pasted: the row is taken for the candidate's position.
PastedByRow ==
    /\ pass = "pasting"
    /\ Len(fakes) = Len(prepared)
    /\ \E good \in SUBSET DOMAIN prepared :
          /\ succeeded' = good
          /\ canvas' = [o \in Objects |->
                IF \E k \in good : candidates[prepared[k]] = o
                THEN Fake(fakes[CHOOSE k \in good : candidates[prepared[k]] = o])
                ELSE canvas[o]]
    /\ pass' = "blurring"
    /\ UNCHANGED <<kind, candidates, targets, prepared, fakes>>

\* _paste_prepared: zip(strict=True), one face after the other.
Pasted ==
    /\ pass = "pasting"
    /\ Len(fakes) = Len(prepared)
    /\ \E good \in SUBSET DOMAIN prepared :
          /\ succeeded' = {prepared[k] : k \in good}
          /\ canvas' = [o \in Objects |->
                IF \E k \in good : candidates[prepared[k]] = o
                THEN Fake(fakes[CHOOSE k \in good : candidates[prepared[k]] = o])
                ELSE canvas[o]]
    /\ pass' = "blurring"
    /\ UNCHANGED <<kind, candidates, targets, prepared, fakes>>

\* apply_many raises: the frame it was to replace is kept.
SwapRaises ==
    /\ pass \in {"aligning", "preparing", "forwarding", "pasting"}
    /\ pass' = "blurring"
    /\ UNCHANGED <<kind, candidates, targets, prepared, fakes, succeeded, canvas>>

\* Plates, small faces and candidates that were not swapped, whose synthetic
\* face the blur would cover as well.
Blurred ==
    /\ pass = "blurring"
    /\ LET left == {candidates[p] : p \in Positions \ succeeded}
           fallback == {o \in Objects : kind[o] \in {"plate", "small"}} \cup left
       IN canvas' = [o \in Objects |-> IF o \in fallback THEN Blur ELSE canvas[o]]
    /\ pass' = "done"
    /\ UNCHANGED <<kind, candidates, targets, prepared, fakes, succeeded>>

PassNext ==
    \/ Sorted \/ Aligned \/ Prepared \/ Forwarded \/ Pasted \/ SwapRaises \/ Blurred

PassSpec == PassInit /\ [][PassNext]_passVars

-----------------------------------------------------------------------------
(* Whichever faces of a frame fail at whichever stage, the whitelisted ones are *)
(* untouched and every other object is blurred or covered by the face that was   *)
(* synthesized for it (app.py:1485, 1506): rows, positions and objects stay in    *)
(* step.                                                                         *)
EveryFaceIsCovered ==
    pass = "done" => \A o \in Objects :
        canvas[o] \in (IF kind[o] = "approved" THEN {Plain} ELSE {Blur, Fake(o)})
=============================================================================
