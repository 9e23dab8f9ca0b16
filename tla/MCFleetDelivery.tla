--------------------------- MODULE MCFleetDelivery ---------------------------
(***************************************************************************)
(* Two requests of one worker, one option, one answer under way at a time. *)
(***************************************************************************)
EXTENDS FleetDelivery

MCRequest == 1..2
MCOption == {"a"}
===============================================================================
