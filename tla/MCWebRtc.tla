------------------------------- MODULE MCWebRtc -------------------------------
(* Two starts of one page and room for one peer: a suspended offer meets the   *)
(* next one at the second capacity check, and each start outlives a stop.       *)
EXTENDS WebRtcDemo

MCOffers == 1..2
=============================================================================
