------------------------------ MODULE MCHubAgent ------------------------------
(***************************************************************************)
(* HubAgent on small instances; the configurations choose the requests     *)
(* users make and how much goes wrong.                                     *)
(***************************************************************************)
EXTENDS HubAgent

CONSTANTS s1, MaxChildren, MaxSockets

OneSession == {s1}
MCChild == 1..MaxChildren
MCSocket == 1..MaxSockets

RestartOps == {"create", "restart-daemon"}
LifecycleOps == {"create", "stop", "restart", "delete"}
NoMishaps == {}
AllMishaps == {"cut", "blip", "crash", "child", "timer", "hand-off"}
AllOps == LifecycleOps \cup RestartOps
===============================================================================
