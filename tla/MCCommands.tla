------------------------------ MODULE MCCommands ------------------------------
(***************************************************************************)
(* Commands on a small instance: two children contend for a table entry or *)
(* for an old transcript; two daemons for a hand-off; one request goes     *)
(* through all of it.                                                      *)
(***************************************************************************)
EXTENDS Commands, TLC

CONSTANTS s1, s2, c1, c2, f1, q1

MCSession == {s1, s2}
MCChild == {c1, c2}
MCFile == MCChild \cup {f1}
MCRequest == {q1}

\* The second daemon stays.  Once the request has come to rest, what
\* the machine goes on to do has been seen from before it was sent.
MCNext ==
  /\ CmdNext
  /\ phase'[2] \in {"unborn", "up"}
  /\ \E q \in Request : req[q].hub \in {"none", "open"} \/ ~Resting(req[q])
MCSpec == CmdInit /\ [][MCNext]_cmdVars

\* Ids are interchangeable: no formula names one.
Symmetric == Permutations(MCSession) \cup Permutations(MCChild)
===============================================================================
