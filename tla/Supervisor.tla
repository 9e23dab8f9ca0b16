------------------------------ MODULE Supervisor ------------------------------
(***************************************************************************)
(* The session children of one machine and the daemons that supervise them *)
(* (packages/agent/src/supervisor.ts, main.ts, daemon-restart.ts).         *)
(*                                                                         *)
(* Daemons are numbered in the order they are started; two overlap while   *)
(* one hands off to its replacement.  A start names a session id and,      *)
(* possibly, a session file to resume; a child without one mints its own,  *)
(* the file that bears its name here.                                      *)
(*                                                                         *)
(* spawn is asynchronous: it checks for the id, awaits the checks of the   *)
(* directory and the profile, and only then looks at the files in use and  *)
(* adds the child to the table.  Other frames are handled in between, so a *)
(* child that is being spawned is a state of its own.                      *)
(***************************************************************************)
EXTENDS Naturals, FiniteSets

CONSTANTS
  Session,      \* session ids
  Child,        \* child processes that may come to exist
  File,         \* session files
  NoFile,       \* start.sessionFile left undefined
  MaxDaemons,   \* bound: daemons started in a behaviour
  MaxSessions   \* --max-sessions

ASSUME SupervisorAssumption ==
  /\ Child \subseteq File
  /\ NoFile \notin File
  /\ MaxDaemons \in Nat \ {0}
  /\ MaxSessions \in Nat \ {0}

VARIABLES
  phase,    \* each daemon: "unborn", "up", "stopping" (restarting is set),
            \* "handing" (replacement spawned, 100 ms to live), "dead"
  child     \* each child process

supVars == <<phase, child>>

Daemon == 1..MaxDaemons
Alive(d) == phase[d] \in {"up", "stopping", "handing"}

\* mapped: #children holds this record under its id; awaited: stopAll of a
\* restart is waiting for it.  A child is "failed" from its error to its exit.
NoChild == [st |-> "unused", host |-> 0, id |-> NoFile, resume |-> NoFile,
            stop |-> "none", mapped |-> FALSE, awaited |-> FALSE]
ChildRecord ==
  [st     : {"unused", "spawning", "starting", "live", "failed", "gone"},
   host   : 0..MaxDaemons,
   id     : Session \cup {NoFile},
   resume : File \cup {NoFile},
   stop   : {"none", "user", "upgrade"},
   mapped : BOOLEAN,
   awaited : BOOLEAN]

\* All that is left of a child is the file it wrote.
Ended(c) == [NoChild EXCEPT !.st = "gone", !.resume = child[c].resume]

\* A process that exists and may write its session file.
Running(c) == child[c].st \in {"starting", "live", "failed"}

\* Mutant: a resumed child reports a transcript of its own.
WritesOwn(c) == c

Writes(c) == IF child[c].resume = NoFile THEN c ELSE child[c].resume

Mapped(d) == {c \in Child : child[c].mapped /\ child[c].host = d}
Slots(d) == {c \in Mapped(d) : child[c].st \in {"starting", "live"}}
Has(d, s) == \E c \in Mapped(d) : child[c].id = s

\* Files a start can name: old transcripts, and what a child minted once it said
\* it was ready (or ended; nobody writes that file then).
OnDisk == {f \in File : f \in Child => child[f].st \in {"live", "gone"} /\ child[f].resume = NoFile}

\* Supervisor.status(): the heartbeat's sessions.
Status(d) ==
  [s \in Session |->
     IF Has(d, s) THEN child[CHOOSE c \in Mapped(d) : child[c].id = s].st ELSE "none"]

SupInit ==
  /\ phase = [d \in Daemon |-> IF d = 1 THEN "up" ELSE "unborn"]
  /\ child = [c \in Child |-> NoChild]
-------------------------------------------------------------------------------
(***************************************************************************)
(* Frames from the hub.                                                    *)
(***************************************************************************)

\* onStart, then spawn up to its first await.
Accepts(d, s) == /\ phase[d] = "up"
                 /\ Cardinality(Slots(d)) < MaxSessions
                 /\ ~Has(d, s)

StartAccepted(d, s, file, c) ==
  /\ Accepts(d, s)
  /\ child[c].st = "unused"
  /\ child' = [child EXCEPT ![c] =
       [NoChild EXCEPT !.st = "spawning", !.host = d, !.id = s, !.resume = file]]
  /\ UNCHANGED phase

\* Restarting, no slot, or "already running": a session-error and nothing else.
StartRefused(d, s) ==
  /\ Alive(d)
  /\ ~Accepts(d, s)
  /\ UNCHANGED <<phase, child>>

\* The first reason given is the one the exit reports.
Stopped(r, reason) == IF r.stop = "none" THEN [r EXCEPT !.stop = reason] ELSE r

Stop(d, s) ==
  /\ Alive(d)
  /\ child' = [c \in Child |->
       IF c \in Mapped(d) /\ child[c].id = s THEN Stopped(child[c], "user") ELSE child[c]]
  /\ UNCHANGED phase

\* restartDaemonCmd: stopAll takes the children in the table now.
RestartAccepted(d) ==
  /\ phase[d] = "up"
  /\ phase' = [phase EXCEPT ![d] = "stopping"]
  /\ child' = [c \in Child |->
       IF c \in Mapped(d) THEN [Stopped(child[c], "upgrade") EXCEPT !.awaited = TRUE]
       ELSE child[c]]

RestartRefused(d) ==
  /\ phase[d] \in {"stopping", "handing"}
  /\ UNCHANGED <<phase, child>>

(***************************************************************************)
(* Child processes.                                                        *)
(***************************************************************************)

\* Mutant: a child holds its file only once it is live.
InUseLive(d, file) == \E c \in Mapped(d) : child[c].st = "live" /\ child[c].resume = file

\* The double-open guard: the files the children in the table were told to
\* resume.  A file a fresh child minted is not among them.
InUse(d, file) == \E c \in Slots(d) : child[c].resume = file

\* Mutant: the table is a list.
SpawnDoneBeside(c) ==
  LET d == child[c].host IN
  /\ child[c].st = "spawning"
  /\ Alive(d)
  /\ child[c].resume = NoFile \/ ~InUse(d, child[c].resume)
  /\ child' = [child EXCEPT ![c].st = "starting", ![c].mapped = TRUE]
  /\ UNCHANGED phase

\* The table has one record per id: a second one takes the first one's place.
SpawnDone(c) ==
  LET d == child[c].host IN
  /\ child[c].st = "spawning"
  /\ Alive(d)
  /\ child[c].resume = NoFile \/ ~InUse(d, child[c].resume)
  /\ child' = [x \in Child |->
       IF x = c THEN [child[c] EXCEPT !.st = "starting", !.mapped = TRUE]
       ELSE IF x \in Mapped(d) /\ child[x].id = child[c].id
       THEN [child[x] EXCEPT !.mapped = FALSE]
       ELSE child[x]]
  /\ UNCHANGED phase

\* No such directory or profile, file in use, or Bun.spawn threw.
SpawnFails(c) ==
  /\ child[c].st = "spawning"
  /\ Alive(child[c].host)
  /\ child' = [child EXCEPT ![c] = Ended(c)]
  /\ UNCHANGED phase

ChildReady(c) ==
  /\ child[c].st = "starting"
  /\ child' = [child EXCEPT ![c].st = "live"]
  /\ UNCHANGED phase

ChildFails(c) ==
  /\ child[c].st = "starting"
  /\ child' = [child EXCEPT ![c].st = "failed"]
  /\ UNCHANGED phase

\* #watchExit deletes the table entry of the id, whichever record it holds.
ChildExits(c) ==
  LET d == child[c].host IN
  /\ Running(c)
  /\ child' = [x \in Child |->
       IF x = c THEN Ended(c)
       ELSE IF Alive(d) /\ x \in Mapped(d) /\ child[x].id = child[c].id
       THEN [child[x] EXCEPT !.mapped = FALSE]
       ELSE child[x]]
  /\ UNCHANGED phase

(***************************************************************************)
(* Daemon processes.                                                       *)
(***************************************************************************)

\* Children stopAll waits for; SIGKILL ends each within its bound.
Awaited(d) == {c \in Child : child[c].host = d /\ child[c].awaited /\ Running(c)}

Boots(d) == phase[d] = "unborn" /\ \A e \in Daemon : e < d => phase[e] # "unborn"

HandOff(d, e) ==
  /\ phase[d] = "stopping"
  /\ Awaited(d) = {}
  /\ Boots(e)
  /\ phase' = [phase EXCEPT ![d] = "handing", ![e] = "up"]
  /\ UNCHANGED child

\* Spawning the replacement threw: the daemon stays and takes starts again.
HandOffFails(d) ==
  /\ phase[d] = "stopping"
  /\ Awaited(d) = {}
  /\ phase' = [phase EXCEPT ![d] = "up"]
  /\ UNCHANGED child

\* exit(0) after the hand-off, or a crash.  A spawn in progress dies with its
\* daemon; a running child outlives it until it has read the end of its stdin.
DaemonEnds(d) ==
  /\ phase' = [phase EXCEPT ![d] = "dead"]
  /\ child' = [c \in Child |->
       IF child[c].host # d THEN child[c]
       ELSE IF child[c].st = "spawning" THEN Ended(c)
       ELSE [child[c] EXCEPT !.mapped = FALSE]]

DaemonExits(d) == phase[d] = "handing" /\ DaemonEnds(d)
Crash(d) == Alive(d) /\ DaemonEnds(d)

\* The service manager, or the operator, starts a daemon on a bare machine.
Boot(d) ==
  /\ \A e \in Daemon : ~Alive(e)
  /\ Boots(d)
  /\ phase' = [phase EXCEPT ![d] = "up"]
  /\ UNCHANGED child
-------------------------------------------------------------------------------
Frames(d) ==
  \/ \E s \in Session :
       \/ \E file \in OnDisk \cup {NoFile}, c \in Child : StartAccepted(d, s, file, c)
       \/ StartRefused(d, s)
       \/ Stop(d, s)
  \/ RestartAccepted(d) \/ RestartRefused(d)

Children ==
  \E c \in Child : SpawnDone(c) \/ SpawnFails(c) \/ ChildReady(c) \/ ChildFails(c) \/ ChildExits(c)

Daemons ==
  \E d \in Daemon :
    \/ \E e \in Daemon : HandOff(d, e)
    \/ HandOffFails(d) \/ DaemonExits(d) \/ Crash(d) \/ Boot(d)

SupNext == (\E d \in Daemon : Frames(d)) \/ Children \/ Daemons
SupSpec == SupInit /\ [][SupNext]_supVars
-------------------------------------------------------------------------------
\* Daemons and children keep their types.
SupTypeOK ==
  /\ phase \in [Daemon -> {"unborn", "up", "stopping", "handing", "dead"}]
  /\ child \in [Child -> ChildRecord]

\* The table is a map, and only living records of living daemons are in it: one
\* entry per id, however starts, exits and hand-offs interleave.
TableIsMap ==
  \A c \in Child : child[c].mapped =>
    /\ Alive(child[c].host) /\ Running(c)
    /\ \A x \in Mapped(child[c].host) : child[x].id = child[c].id => x = c

\* Two children in one daemon's table never resume the same session file: the
\* guard runs after the last await of spawn, so no start slips past it.
ResumedOnce ==
  \A d \in Daemon : \A a, b \in Slots(d) :
    child[a].resume # NoFile /\ child[a].resume = child[b].resume => a = b
===============================================================================
