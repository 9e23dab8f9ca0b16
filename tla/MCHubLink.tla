------------------------------ MODULE MCHubLink -------------------------------
(***************************************************************************)
(* HubLink on a small instance.  A socket per connection: one more than   *)
(* the cuts.  A queue of two, so that three frames overflow it.            *)
(***************************************************************************)
EXTENDS HubLink

CONSTANTS MaxSockets

MCClient == {Daemon}
MCSocket == 1..MaxSockets
===============================================================================
