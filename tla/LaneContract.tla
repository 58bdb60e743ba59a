---------------------------- MODULE LaneContract ----------------------------
(***************************************************************************)
(* What service/runtime.py's PriorityLane promises its callers, without    *)
(* futures, wake-ups or cancelled entries: one owner at a time, two lines  *)
(* of callers, the live line served first and each line in arrival order.  *)
(* PriorityLane is shown to implement this module.                         *)
(***************************************************************************)

CONSTANTS Live,   \* callers of acquire(live=True): live frames, self_check
          Vod     \* callers of acquire(live=False): VOD frames

VARIABLES owner,   \* the caller that owns the lane, {} when it is free
          line,    \* the callers in line, of both classes
          ahead    \* ahead[t]: those of t's class that came to the line before t

vars == <<owner, line, ahead>>

Callers == Live \cup Vod
Class(t) == IF t \in Live THEN Live ELSE Vod

Init ==
    /\ owner = {}
    /\ line = {}
    /\ ahead = [t \in Callers |-> {}]

\* A free lane with nobody in line is taken at once.
Enter(t) ==
    /\ owner = {}
    /\ line = {}
    /\ owner' = {t}
    /\ UNCHANGED <<line, ahead>>

\* Everybody else joins the end of the line of its class.
Join(t) ==
    /\ owner # {}
    /\ t \notin owner \cup line
    /\ line' = line \cup {t}
    /\ ahead' = [ahead EXCEPT ![t] = line \cap Class(t)]
    /\ UNCHANGED owner

\* t steps out of the line, and the others keep their order.
StepOut(t) ==
    /\ t \in line
    /\ line' = line \ {t}
    /\ ahead' = [s \in Callers |-> IF s = t THEN {} ELSE ahead[s] \ {t}]

\* A caller that is cancelled.
Leave(t) == StepOut(t) /\ UNCHANGED owner

\* The owner hands the lane to the first live caller, failing that to the
\* first VOD caller, failing that to nobody: the lane is never left free
\* with somebody in line.
HandOverTo(t) ==
    /\ ahead[t] = {}
    /\ t \in Live \/ line \cap Live = {}
    /\ StepOut(t)
    /\ owner' = {t}

HandOver ==
    /\ owner # {}
    /\ \/ \E t \in line : HandOverTo(t)
       \/ line = {} /\ owner' = {} /\ UNCHANGED <<line, ahead>>

Next ==
    \/ \E t \in Callers : Enter(t) \/ Join(t) \/ Leave(t)
    \/ HandOver

Spec == Init /\ [][Next]_vars
=============================================================================
