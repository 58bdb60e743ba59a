--------------------------- MODULE MCLiveStreams ---------------------------
(* Two streams, one of which may be cancelled, and one composition slot.     *)
EXTENDS LiveStreams

CONSTANTS s1, s2

MCStreams == {s1, s2}
MCImpatient == {s1}
=============================================================================
