----------------------------- MODULE MCSessionLoop -----------------------------
(* SessionLoop with two prompts, one of which can replace the other. *)
EXTENDS SessionLoop, TLC

CONSTANTS p1, p2
MCPrompt == {p1, p2}
===============================================================================
