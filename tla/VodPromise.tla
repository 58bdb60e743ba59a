------------------------------ MODULE VodPromise ------------------------------
(***************************************************************************)
(* What a VOD job promises, whatever pauses, cancels or kills it: frames    *)
(* become durable in order and stay so until the work directory is purged,  *)
(* and the output appears only when every frame of the input is durable.    *)
(***************************************************************************)
EXTENDS Naturals

CONSTANT Frames          \* frames of the input

VARIABLES
    durable,             \* frames 1..durable are in segments that a checkpoint lists
    published            \* the output file has been put in place

promiseVars == <<durable, published>>

PromiseInit == durable = 0 /\ published = FALSE

Commit ==
    /\ durable' \in (durable + 1)..Frames
    /\ UNCHANGED published

Publish ==
    /\ durable = Frames
    /\ published' = TRUE
    /\ UNCHANGED durable

Discard ==
    /\ durable' = 0
    /\ UNCHANGED published

PromiseNext == Commit \/ Publish \/ Discard

PromiseSpec == PromiseInit /\ [][PromiseNext]_promiseVars
=============================================================================
