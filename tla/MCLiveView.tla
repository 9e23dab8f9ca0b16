------------------------------ MODULE MCLiveView ------------------------------
(***************************************************************************)
(* One viewer of a session whose log grows to three entries, in pages of   *)
(* two.  Two mishaps are enough for a second one to hit what the first     *)
(* left behind: a hello that waits for the next socket, a room without     *)
(* its host, a client that has just been replaced.                         *)
(***************************************************************************)
EXTENDS LiveView

CONSTANTS g1

MCGuest == {g1}
===============================================================================
