------------------------- MODULE MCInferenceRuntime -------------------------
(* Frames that wait for one GPU, one of three in each behaviour.            *)
(* "runtime": three live callers, one of them the recovery's self_check,     *)
(* which can be cancelled, and two VOD callers: a queue of two behind an     *)
(* owner in the live class, cancellations at either end of a queue, and a    *)
(* frame that one VOD job abandons while a second owns the lane and live     *)
(* frames wait.  "lab": three tracks of one peer, so that two jobs of a      *)
(* stream are pending when a third comes, and a socket, over a queue and     *)
(* batches of two.  "pass": three objects in one frame of the lab, two rows  *)
(* to a batch of the engine.                                                 *)
EXTENDS InferenceRuntime, SwapLab, SwapPass

CONSTANTS frame, other, selfCheck, v1, v2, track1, track2, track3, socket

MCLive == {frame, other, selfCheck}
MCVod == {v1, v2}
MCCancellable == {selfCheck, v1, v2}
MCClients == {track1, track2, track3, socket}
MCSockets == {socket}
MCStreamOf == [c \in MCClients |-> IF c = socket THEN "socket" ELSE "peer"]

VARIABLE exercise    \* "runtime", "lab" or "pass"

MCInit ==
    /\ exercise \in {"runtime", "lab", "pass"}
    /\ RuntimeInit /\ LabInit /\ PassInit
    /\ exercise # "pass" => kind = [o \in Objects |-> "face"]
MCNext ==
    /\ UNCHANGED exercise
    /\ \/ exercise = "runtime" /\ RuntimeNext /\ UNCHANGED <<labVars, passVars>>
       \/ exercise = "lab" /\ LabNext /\ UNCHANGED <<runtimeVars, passVars>>
       \/ exercise = "pass" /\ PassNext /\ UNCHANGED <<runtimeVars, labVars>>

\* The actions that are asked to happen are enabled in their own exercise only.
MCSpec ==
    /\ MCInit /\ [][MCNext]_<<exercise, runtimeVars, labVars, passVars>>
    /\ RuntimeFairness /\ LabFairness
=============================================================================
