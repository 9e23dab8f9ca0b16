----------------------------- MODULE SessionStore -----------------------------
(***************************************************************************)
(* One record of the hub's session registry and the mutators SessionStore  *)
(* applies to it (packages/hub/src/sessions.ts).  The module has no state: *)
(* every mutator is a function from record to record, early returns        *)
(* included.  Kept of a record: its status, the session file session-ready *)
(* attached, whether exitReason is the "daemon upgrade" marker a resume    *)
(* plan looks for, the unreachable flag, and whether reissue's grace       *)
(* window is open.  Names, links, activity and clocks are left out.        *)
(***************************************************************************)
CONSTANTS
  File,      \* session files on the machine
  NoFile     \* record.sessionFile / start.sessionFile left undefined

ASSUME NoFileAssumption == NoFile \notin File

ActiveStatus == {"starting", "live"}
TerminalStatus == {"exited", "failed"}

\* "unused": an id not minted yet; "deleted": an id that left the registry.
Record ==
  [status      : ActiveStatus \cup TerminalStatus \cup {"unused", "deleted"},
   sessionFile : File \cup {NoFile},
   upgrade     : BOOLEAN,
   unreachable : BOOLEAN,
   grace       : BOOLEAN]

Active(r) == r.status \in ActiveStatus
Terminal(r) == r.status \in TerminalStatus
Exists(r) == Active(r) \/ Terminal(r)

\* An id outside the registry carries no other information.
Outside(status) ==
  [status |-> status, sessionFile |-> NoFile, upgrade |-> FALSE,
   unreachable |-> FALSE, grace |-> FALSE]

NewRecord == [Outside("unused") EXCEPT !.status = "starting"]

MarkReady(r, file) ==
  IF ~Active(r) THEN r
  ELSE [r EXCEPT !.status = "live",
                 !.sessionFile = IF file = NoFile THEN @ ELSE file,
                 !.unreachable = FALSE]

SetActivity(r) == IF ~Active(r) THEN r ELSE [r EXCEPT !.unreachable = FALSE]

MarkFailed(r) ==
  IF ~Active(r) THEN r
  ELSE [r EXCEPT !.status = "failed", !.unreachable = FALSE]

\* Mutant: the last report wins.
MarkExitedLast(r, upgrade) ==
  IF ~Exists(r) THEN r
  ELSE [r EXCEPT !.status = "exited", !.upgrade = upgrade, !.unreachable = FALSE]

MarkExited(r, upgrade) ==
  IF ~Active(r) THEN r
  ELSE [r EXCEPT !.status = "exited", !.upgrade = upgrade, !.unreachable = FALSE]

\* Mutant: no grace window.
ReissueNoGrace(r, requireSessionFile) ==
  IF ~Exists(r) \/ (requireSessionFile /\ r.sessionFile = NoFile) THEN r
  ELSE [r EXCEPT !.status = "starting", !.upgrade = FALSE, !.unreachable = FALSE]

Reissue(r, requireSessionFile) ==
  IF ~Exists(r) \/ (requireSessionFile /\ r.sessionFile = NoFile) THEN r
  ELSE [r EXCEPT !.status = "starting", !.upgrade = FALSE,
                 !.unreachable = FALSE, !.grace = TRUE]

\* Mutant: a session that has not reported ready is left alone.
MarkUnreachableLive(r) == IF r.status # "live" THEN r ELSE [r EXCEPT !.unreachable = TRUE]

MarkUnreachable(r) == IF ~Active(r) THEN r ELSE [r EXCEPT !.unreachable = TRUE]

\* exitSessionsFor: unlike MarkExited it leaves the unreachable flag as it was.
ExitForUpgrade(r) ==
  IF ~Active(r) THEN r ELSE [r EXCEPT !.status = "exited", !.upgrade = TRUE]
===============================================================================
