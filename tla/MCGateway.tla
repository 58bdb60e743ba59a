------------------------------- MODULE MCGateway -------------------------------
(* Three frames over a window of two: the queue, the client's window and the  *)
(* worker hold frames at the same time, and the receiver waits for a slot.     *)
EXTENDS GatewaySession

MCFrameIds == 1..3
=============================================================================
