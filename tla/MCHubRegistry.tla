---------------------------- MODULE MCHubRegistry -----------------------------
(***************************************************************************)
(* HubRegistry on a small instance.  Two sessions are enough for a record  *)
(* that is in a plan, an exempt set or a grace window beside one that is   *)
(* not; two sockets for a daemon and its replacement or reconnect.         *)
(***************************************************************************)
EXTENDS HubRegistry, TLC

CONSTANTS s1, s2, k1, k2, f1

MCSession == {s1, s2}
MCSocket == {k1, k2}
MCFile == {f1}

\* Ids are interchangeable: no formula names one.
Symmetric == Permutations(MCSession) \cup Permutations(MCSocket)
===============================================================================
