------------------------------- MODULE HubAgent -------------------------------
(***************************************************************************)
(* One machine end to end: the hub's registry (HubRegistry), the daemons'  *)
(* socket clients (HubClient) and session supervisors (Supervisor), joined *)
(* the way packages/agent/src/main.ts joins them, over WebSockets that     *)
(* deliver in order and may be cut at any moment.                          *)
(*                                                                         *)
(* Budgets bound a behaviour: user requests, heartbeats that race other    *)
(* steps (one is written anyway whenever all is quiet) and faults.  A      *)
(* fault is a cut, a crash, a child ending or failing by itself, and a hub *)
(* timer that fires although what it waits for is on its way; a timer      *)
(* whose wait has become hopeless fires for free.  session-activity and    *)
(* session-event frames are left to HubRegistry and HubLink.               *)
(***************************************************************************)
EXTENDS HubRegistry

CONSTANTS
  Child, MaxDaemons, MaxSessions,   \* of Supervisor
  MaxQueued,                        \* of HubClient
  MaxOps,      \* bound: user requests
  MaxFaults,   \* bound: faults
  MaxBeats,    \* bound: heartbeats written while something else is going on
  UserOps,     \* the kinds of request users make
  Mishaps      \* the kinds of fault that happen

ASSUME AgentAssumption ==
  /\ Child \subseteq File
  /\ MaxDaemons \in Nat \ {0} /\ MaxSessions \in Nat \ {0} /\ MaxQueued \in Nat \ {0}

VARIABLES phase, child, socket, closed, pending, unacked, up, ops, faults, beats

Client == 1..MaxDaemons
INSTANCE Supervisor
INSTANCE HubClient

machineVars == <<phase, child>>
linkVars == <<socket, closed, pending, unacked, up>>
budget == <<ops, faults, beats>>
sysVars == <<hubVars, machineVars, linkVars, budget>>

HbFrame(d) == [t |-> "hb", sessions |-> Status(d)]
ReadyFrame(c) == [t |-> "ready", id |-> child[c].id, file |-> Writes(c)]
ErrorFrame(s) == [t |-> "error", id |-> s]
ExitFrame(c) == [t |-> "exit", id |-> child[c].id, upgrade |-> child[c].stop = "upgrade"]
ResultFrame(reqId, ok) == [t |-> "result", reqId |-> reqId, ok |-> ok]

\* No hub handler runs.
HubRests == UNCHANGED hubVars

Free == UNCHANGED budget
Fault(kind) ==
  kind \in Mishaps /\ faults < MaxFaults /\ faults' = faults + 1 /\ UNCHANGED <<ops, beats>>
Op(kind) == kind \in UserOps /\ ops < MaxOps /\ ops' = ops + 1 /\ UNCHANGED <<faults, beats>>
Racing == beats < MaxBeats /\ beats' = beats + 1 /\ UNCHANGED <<ops, faults>>

SysInit ==
  /\ HubInit /\ SupInit /\ ClientInit
  /\ ops = 0 /\ faults = 0 /\ beats = 0

\* Sockets and child processes are taken in a fixed order: they are all alike.
NextSocket(k) == \A j \in Socket : j < k => ws[j] # "unused"
NextChild(c) == \A x \in Child : x < c => child[x].st # "unused"
-------------------------------------------------------------------------------
(***************************************************************************)
(* The daemon.                                                             *)
(***************************************************************************)

\* A client that is neither connected nor closed keeps trying.
DaemonConnects(d) ==
  /\ Alive(d)
  /\ \E k \in Socket : NextSocket(k) /\ Upgrade(k) /\ ClientOpens(d, k, HbFrame(d))
  /\ UNCHANGED machineVars /\ Free

\* One heartbeat in flight at a time: the interval is 15 s.
DaemonBeats(d) ==
  /\ Alive(d)
  /\ Connected(d)
  /\ \A i \in DOMAIN up[socket[d]] : up[socket[d]][i].t # "hb"
  /\ ClientHeartbeat(d, HbFrame(d))
  /\ HubRests /\ UNCHANGED machineVars

OnStart(d, s, file) ==
  \/ /\ \E c \in Child : NextChild(c) /\ StartAccepted(d, s, file, c)
     /\ UNCHANGED linkVars
  \/ StartRefused(d, s) /\ ClientSend(d, ErrorFrame(s))

OnStop(d, s) == Stop(d, s) /\ UNCHANGED linkVars

OnRestart(d, reqId) ==
  \/ RestartAccepted(d) /\ ClientSend(d, ResultFrame(reqId, TRUE))
  \/ RestartRefused(d) /\ ClientSend(d, ResultFrame(reqId, FALSE))

DaemonHandles(d) ==
  /\ Alive(d)
  /\ Connected(d)
  /\ DaemonReads(socket[d])
  /\ LET frame == Head(down[socket[d]])
     IN \/ frame.t = "start" /\ OnStart(d, frame.id, frame.file)
        \/ frame.t = "stop" /\ OnStop(d, frame.id)
        \/ frame.t = "restart-daemon" /\ OnRestart(d, frame.reqId)
  /\ Free

\* The close arrives behind the frames the hub had written.
DaemonSeesClose(d) ==
  /\ Alive(d)
  /\ Connected(d)
  /\ ws[socket[d]] \in {"closed", "replaced"}
  /\ down[socket[d]] = <<>>
  /\ ClientLoses(d, ws[socket[d]] = "replaced")
  /\ HubRests /\ UNCHANGED <<machineVars, up>> /\ Free

\* A child's news reaches the hub only through a daemon that is still there.
Reports(c, frame) ==
  IF Alive(child[c].host) THEN ClientSend(child[c].host, frame) ELSE UNCHANGED linkVars

ChildSteps(c) ==
  /\ \/ SpawnDone(c) /\ UNCHANGED linkVars /\ Free
     \/ /\ SpawnFails(c)
        /\ child[c].resume # NoFile /\ InUse(child[c].host, child[c].resume)
        /\ Reports(c, ErrorFrame(child[c].id)) /\ Free
     \/ ChildReady(c) /\ Reports(c, ReadyFrame(c)) /\ Free
     \/ /\ ChildExits(c)
        /\ child[c].stop # "none" \/ child[c].st = "failed" \/ ~Alive(child[c].host)
        /\ Reports(c, ExitFrame(c)) /\ Free
  /\ HubRests

ChildMishap(c) ==
  /\ \/ SpawnFails(c) /\ Reports(c, ErrorFrame(child[c].id))
     \/ ChildFails(c) /\ Reports(c, ErrorFrame(child[c].id))
     \/ child[c].stop = "none" /\ ChildExits(c) /\ Reports(c, ExitFrame(c))
  /\ HubRests /\ Fault("child")

DaemonHandsOff(d) ==
  /\ \/ \E e \in Daemon : HandOff(d, e) /\ UNCHANGED linkVars /\ Free
     \/ HandOffFails(d) /\ ClientSend(d, ResultFrame(lastReqId, FALSE)) /\ Fault("hand-off")
  /\ HubRests

\* A process that is gone reads nothing; what it had written may be cut short.
Gone(d, kept) ==
  /\ socket' = [socket EXCEPT ![d] = NoSocket]
  /\ up' = IF Connected(d) THEN [up EXCEPT ![socket[d]] = SubSeq(@, 1, kept)] ELSE up
  /\ pending' = [pending EXCEPT ![d] = <<>>]
  /\ unacked' = [unacked EXCEPT ![d] = <<>>]
  /\ closed' = [closed EXCEPT ![d] = TRUE]

Unread(d) == IF Connected(d) THEN Len(up[socket[d]]) ELSE 0

DaemonDies(d) ==
  /\ \/ DaemonExits(d) /\ Gone(d, Unread(d)) /\ Free
     \/ \E kept \in 0..Unread(d) : Crash(d) /\ Gone(d, kept) /\ Fault("crash")
  /\ HubRests

DaemonBoots(d) == Boot(d) /\ HubRests /\ UNCHANGED linkVars /\ Free

(***************************************************************************)
(* The network.                                                            *)
(***************************************************************************)

\* The daemon's end breaks; what was on its way up may be cut short.  A "blip"
\* breaks a socket on which nothing was.
Cut(d) ==
  /\ Alive(d)
  /\ Connected(d)
  /\ \/ \E kept \in 0..Unread(d) : up' = [up EXCEPT ![socket[d]] = SubSeq(@, 1, kept)] /\ Fault("cut")
     \/ Unread(d) = 0 /\ UNCHANGED up /\ Fault("blip")
  /\ ClientLoses(d, FALSE)
  /\ HubRests /\ UNCHANGED machineVars

Held(k) == \E d \in Daemon : socket[d] = k

\* The hub hears that the daemon's end is closed after the frames that made it.
HubSeesClose(k) ==
  /\ ~Held(k)
  /\ up[k] = <<>>
  /\ HandleClose(k)
  /\ UNCHANGED <<machineVars, linkVars>> /\ Free

(***************************************************************************)
(* The hub.                                                                *)
(***************************************************************************)

HubReads(k) ==
  /\ up[k] # <<>>
  /\ up' = [up EXCEPT ![k] = Tail(@)]
  /\ LET frame == Head(up[k])
     IN \/ frame.t = "hello" /\ Hello(k)
        \/ frame.t = "hb" /\ Room /\ Heartbeat(k, frame.sessions)
        \/ frame.t = "ready" /\ SessionReady(k, frame.id, frame.file)
        \/ frame.t = "error" /\ SessionError(k, frame.id)
        \/ frame.t = "exit" /\ SessionExit(k, frame.id, frame.upgrade)
        \/ frame.t = "result" /\ RestartResult(k, frame.reqId, frame.ok)
  /\ UNCHANGED <<socket, closed, pending, unacked, machineVars>> /\ Free

\* A socket the hub closed is never registered again: no frame on it is obeyed.
HubIgnores(k) ==
  /\ ws[k] \in {"closed", "replaced"}
  /\ up[k] # <<>>
  /\ up' = [up EXCEPT ![k] = <<>>]
  /\ HubRests /\ UNCHANGED <<socket, closed, pending, unacked, machineVars>> /\ Free

HubReceives(k) == HubReads(k) \/ HubIgnores(k) \/ HubSeesClose(k)

\* A child the machine still tracks runs for the session.
Backed(s) == \E d \in Daemon, c \in Child : c \in Mapped(d) /\ child[c].id = s

\* What a timer waits for can still come.
AgentListens == conn # NoSocket /\ Held(conn)
RestartUnderWay ==
  \/ AgentListens /\ \E i \in DOMAIN down[conn] : down[conn][i].t = "restart-daemon"
  \/ \E d \in Daemon : phase[d] \in {"stopping", "handing"}
  \/ conn # NoSocket /\ ~Held(conn)
SpawnUnderWay(s) ==
  \/ AgentListens /\ \E i \in DOMAIN down[conn] : down[conn][i] \in {StartFrame(s, f) : f \in File \cup {NoFile}}
  \/ \E c \in Child : child[c].st = "spawning" /\ child[c].id = s
\* Heartbeats come often enough that none is unread for the whole of a grace window.
StaleHeartbeat(s) ==
  \E k \in Socket : /\ ws[k] \in {"open", "agent"}
                   /\ \E i \in DOMAIN up[k] : up[k][i].t = "hb" /\ up[k][i].sessions[s] \notin {"starting", "live"}

HubTimer ==
  /\ \/ Offline /\ IF AgentListens THEN Fault("timer") ELSE Free
     \/ CmdTimeout /\ Fault("timer")
     \/ ExpireRestart /\ IF RestartUnderWay THEN Fault("timer") ELSE Free
     \/ ExpirePlan /\ IF \E d \in Daemon : Alive(d) /\ ~closed[d] THEN Fault("timer") ELSE Free
     \/ \E s \in Session : GraceExpires(s) /\ IF SpawnUnderWay(s) \/ StaleHeartbeat(s) THEN Fault("timer") ELSE Free
  /\ UNCHANGED <<machineVars, linkVars>>

UserRequest ==
  /\ Room
  /\ \/ \E s \in Session :
          \/ CreateSession(s, NoFile) /\ Op("create")
          \/ StopSession(s) /\ Op("stop")
          \/ RestartSession(s) /\ Op("restart")
          \/ DeleteSession(s) /\ Op("delete")
     \/ RestartDaemon /\ Op("restart-daemon")
  /\ UNCHANGED <<machineVars, linkVars>>
-------------------------------------------------------------------------------
\* What the processes and the hub's timers do of their own accord.
Work ==
  \/ \E d \in Daemon :
       \/ DaemonConnects(d) \/ DaemonHandles(d) \/ DaemonSeesClose(d)
       \/ ((DaemonHandsOff(d) \/ DaemonDies(d) \/ DaemonBoots(d)) /\ Free)
  \/ \E c \in Child : ChildSteps(c)
  \/ \E k \in Socket : HubReceives(k)
  \/ (HubTimer /\ Free)

IdleBeat == \E d \in Daemon : DaemonBeats(d) /\ ~ENABLED Work /\ Free

Accidents ==
  /\ \/ \E d \in Daemon : Cut(d) \/ DaemonHandsOff(d) \/ DaemonDies(d)
     \/ \E c \in Child : ChildMishap(c)
     \/ HubTimer
  /\ faults' # faults

SysNext ==
  \/ Work \/ IdleBeat \/ Accidents
  \/ \E d \in Daemon : DaemonBeats(d) /\ Racing
  \/ UserRequest

SysSpec == SysInit /\ [][SysNext]_sysVars

\* No process that has something to do is stalled for good, and a machine that has
\* nothing else to do sends its heartbeat.  The work between two requests or faults
\* is finite, so fairness of the whole is fairness to each.
FairSpec == SysSpec /\ WF_sysVars(Work \/ IdleBeat)
-------------------------------------------------------------------------------
Settled == ~restartingSince /\ resumePlan = NoPlan

\* The registry never claims a task that no longer exists: once requests and
\* faults are over, every session shown as running either has a child the machine
\* tracks or is shown unreachable (agents.ts, #reconcileSessions: else the record
\* would be "staying live forever").
PhantomsRetire ==
  <>[](\A s \in Session : Active(sessions[s]) => sessions[s].unreachable \/ Backed(s))

\* A planned restart never stays armed: the machine leaves "restarting" again
\* whatever becomes of the command, the hand-off or the connection.
RestartEnds == []<>Settled

Recovered(s) == Settled /\ sessions[s].status = "live" /\ Backed(s)

\* Documented: after restart-daemon "sessions recover with full history"
\* (docs/protocol.md).  A session with a transcript that was running when the
\* restart was requested runs again once the restart is over.
SessionsRecover ==
  \A s \in Session : (s \in resumeIds /\ sessions[s].sessionFile # NoFile) ~> Recovered(s)

\* Every transcript the hub would have a daemon resume, from its records or in a
\* start that is on its way, is one that a child has written: a resumed session
\* never opens a file of its own making, or one another child is still to mint.
TranscriptsExist ==
  /\ \A s \in Session : sessions[s].sessionFile \in OnDisk \cup {NoFile}
  /\ \A k \in Socket : \A i \in DOMAIN down[k] :
       down[k][i].t = "start" => down[k][i].file \in OnDisk \cup {NoFile}

HeartbeatRead(k) == up[k] # <<>> /\ Head(up[k]).t = "hb" /\ up'[k] = Tail(up[k])
Coming(k, s) ==
  \E d \in Daemon, c \in Child :
    /\ socket[d] = k /\ child[c].host = d /\ child[c].id = s
    /\ child[c].st \in {"spawning", "starting", "live"}

\* A heartbeat never retires a session whose child is running, or being spawned,
\* on the daemon that sent it: "the heartbeat racing the fresh child's spawn cannot
\* retire it" (docs/protocol.md, POST /api/sessions/:id/restart).
NoFalseRetirement ==
  [][\A k \in Socket, s \in Session :
       HeartbeatRead(k) /\ Coming(k, s) /\ Active(sessions[s]) => Active(sessions'[s])]_sysVars

\* At any moment a session file is written by one process at most: "two live
\* writers would corrupt the transcript" (docs/protocol.md).
OneWriterPerFile ==
  \A a, b \in Child : Running(a) /\ Running(b) /\ Writes(a) = Writes(b) => a = b
===============================================================================
