----------------------------- MODULE HubRegistry ------------------------------
(***************************************************************************)
(* The hub's agent registry (packages/hub/src/agents.ts) and the session   *)
(* routes that dispatch to a daemon (packages/hub/src/api.ts), for one     *)
(* machine: every handler touches only the records whose machineId is that *)
(* of the frame's connection, so machines do not interact here.            *)
(*                                                                         *)
(* The module is an OPEN system.  HubNext lets the daemon side send any    *)
(* frame at any time on a registered socket, so what holds here holds for  *)
(* every daemon; HubAgent closes the system with the real one.             *)
(*                                                                         *)
(* One handler is one step: the hub is single-threaded and every handler   *)
(* below runs without an await.  restartDaemon is the exception: it awaits *)
(* its cmd round trip, so it has a step for the request and one for each   *)
(* way the command settles.  Fleet operators (superagent records and their *)
(* inbox) are not part of this module; derived holds the lifecycle events  *)
(* the last step handed to them.                                           *)
(***************************************************************************)
EXTENDS SessionStore, Naturals, Sequences, FiniteSets

CONSTANTS
  Session,      \* session ids; create draws a fresh one
  Socket,       \* agent WebSockets
  NoSocket,
  NoPlan,       \* machine.resumePlan left undefined
  SessionCap,   \* SESSION_CAP, the pruning cap
  MaxRestarts,  \* bound: restart-daemon requests in a behaviour
  MaxDown       \* bound: unread frames on a socket towards the daemon

ASSUME HubAssumption ==
  /\ NoSocket \notin Socket
  /\ \A ids \in SUBSET Session : ids # NoPlan
  /\ IsFiniteSet(Session)
  /\ SessionCap \in Nat /\ MaxRestarts \in Nat /\ MaxDown \in Nat

VARIABLES
  sessions,         \* SessionStore.#sessions
  ws,               \* each socket: "unused", "open" (before hello), "agent"
                    \* (ws.data.machineId set), "closed", "replaced" (4000)
  conn,             \* #connections.get(machineId).ws
  preexistingIds,   \* that connection's preexistingIds
  restartingSince,  \* machine.restartingSince is set
  resumeIds,        \* machine.resumeIds
  resumePlan,       \* machine.resumePlan.ids, or NoPlan
  restartCmd,       \* reqId of the pending restart-daemon command, 0 if none
  lastReqId,        \* restart-daemon commands issued so far
  down,             \* per socket, frames written and not yet read
  derived           \* lifecycle events the last hub step derived

planVars == <<restartingSince, resumeIds, resumePlan, restartCmd, lastReqId>>
hubVars == <<sessions, ws, conn, preexistingIds, planVars, down, derived>>

StartFrame(s, file) == [t |-> "start", id |-> s, file |-> file]
StopFrame(s) == [t |-> "stop", id |-> s]
RestartFrame(reqId) == [t |-> "restart-daemon", reqId |-> reqId]
HubFrame ==
  [t : {"start"}, id : Session, file : File \cup {NoFile}]
    \cup [t : {"stop"}, id : Session]
    \cup [t : {"restart-daemon"}, reqId : Nat]

\* What a heartbeat may say of a session; "none" when it does not list it.
Reported == {"none", "starting", "live", "exited", "failed"}
Event == [id : Session, kind : {"session_exited", "session_failed", "session_unreachable"}]
Events(ids, kind) == {[id |-> s, kind |-> kind] : s \in ids}

ActiveIds == {s \in Session : Active(sessions[s])}
Room == \A k \in Socket : Len(down[k]) < MaxDown
Send(frame) == down' = [down EXCEPT ![conn] = Append(@, frame)]
-------------------------------------------------------------------------------
HubInit ==
  /\ sessions = [s \in Session |-> Outside("unused")]
  /\ ws = [k \in Socket |-> "unused"]
  /\ conn = NoSocket
  /\ preexistingIds = {}
  /\ restartingSince = FALSE
  /\ resumeIds = {}
  /\ resumePlan = NoPlan
  /\ restartCmd = 0
  /\ lastReqId = 0
  /\ down = [k \in Socket |-> <<>>]
  /\ derived = {}

(***************************************************************************)
(* Connections.                                                            *)
(***************************************************************************)

\* Mutant: what the handover itself ended is not resumed.
ResumableRunning == {s \in resumeIds : sessions[s].sessionFile # NoFile /\ Active(sessions[s])}

\* #armResumePlan: the request-time ids that still have a transcript to
\* resume and did not end for a reason of their own.
ResumableIds ==
  {s \in resumeIds : /\ sessions[s].sessionFile # NoFile
                     /\ Terminal(sessions[s]) => sessions[s].upgrade}

\* The daemon link is gone: pending commands fail, an armed restart becomes a
\* resume plan, and the machine's sessions exit for the upgrade or turn
\* unreachable.  restartDaemon's continuation runs in the same turn; it finds
\* the flags it would clear already consumed.
LinkLost ==
  /\ restartCmd' = 0
  /\ IF restartingSince
     THEN /\ restartingSince' = FALSE
          /\ resumeIds' = {}
          /\ resumePlan' = ResumableIds
          /\ sessions' = [s \in Session |-> ExitForUpgrade(sessions[s])]
     ELSE /\ UNCHANGED <<restartingSince, resumeIds, resumePlan>>
          /\ sessions' = [s \in Session |-> MarkUnreachable(sessions[s])]
  /\ derived' = Events({s \in Session : sessions'[s].unreachable}, "session_unreachable")

Upgrade(k) ==
  /\ ws[k] = "unused"
  /\ ws' = [ws EXCEPT ![k] = "open"]
  /\ derived' = {}
  /\ UNCHANGED <<sessions, conn, preexistingIds, planVars, down>>

\* Mutant: the previous socket is not closed.
HelloBeside(k) ==
  /\ ws[k] = "open"
  /\ conn' = k
  /\ ws' = [ws EXCEPT ![k] = "agent"]
  /\ IF conn = NoSocket
     THEN /\ derived' = {}
          /\ UNCHANGED <<sessions, restartingSince, resumeIds, resumePlan, restartCmd>>
     ELSE LinkLost
  /\ preexistingIds' = {s \in Session : Active(sessions'[s])}
  /\ UNCHANGED <<lastReqId, down>>

Hello(k) ==
  /\ ws[k] = "open"
  /\ conn' = k
  /\ IF conn = NoSocket
     THEN /\ ws' = [ws EXCEPT ![k] = "agent"]
          /\ derived' = {}
          /\ UNCHANGED <<sessions, restartingSince, resumeIds, resumePlan, restartCmd>>
     ELSE /\ ws' = [ws EXCEPT ![conn] = "replaced", ![k] = "agent"]
          /\ LinkLost
  /\ preexistingIds' = {s \in Session : Active(sessions'[s])}
  /\ UNCHANGED <<lastReqId, down>>

\* The socket's close event, whoever closed it; a protocol error the hub
\* answers with a close runs the same handler.
HandleClose(k) ==
  /\ ws[k] \in {"open", "agent"}
  /\ ws' = [ws EXCEPT ![k] = "closed"]
  /\ IF conn = k
     THEN conn' = NoSocket /\ preexistingIds' = {} /\ LinkLost
     ELSE /\ derived' = {}
          /\ UNCHANGED <<sessions, conn, preexistingIds, restartingSince, resumeIds,
                         resumePlan, restartCmd>>
  /\ UNCHANGED <<lastReqId, down>>

\* #sweep found the connection silent for HB_TIMEOUT_MS and takes it offline.
Offline ==
  /\ conn # NoSocket
  /\ ws' = [ws EXCEPT ![conn] = "closed"]
  /\ conn' = NoSocket
  /\ preexistingIds' = {}
  /\ LinkLost
  /\ UNCHANGED <<lastReqId, down>>

(***************************************************************************)
(* Frames from the daemon; k is the registered connection.                 *)
(***************************************************************************)

\* #resumePlannedSessions: planned sessions with a transcript whose child this
\* daemon does not report.  st is hb.sessions.
Resumed(st) ==
  IF resumePlan = NoPlan THEN {}
  ELSE {s \in resumePlan : sessions[s].sessionFile # NoFile /\ st[s] = "none"}

\* Mutant: records that have ended are judged too.
JudgedAll(st) == {s \in preexistingIds \ Resumed(st) : Exists(sessions[s]) /\ ~sessions[s].grace}

\* #reconcileSessions: what the heartbeat says of the records it may judge.
Judged(st) ==
  {s \in preexistingIds \ Resumed(st) : Active(sessions[s]) /\ ~sessions[s].grace}

\* Mutant: a session the heartbeat does not list is given the benefit of the doubt.
ReconciledListed(r, reported) ==
  IF reported = "exited" THEN MarkExited(r, FALSE)
  ELSE IF reported = "failed" THEN MarkFailed(r)
  ELSE [r EXCEPT !.unreachable = FALSE]

Reconciled(r, reported) ==
  IF reported \in {"none", "exited"} THEN MarkExited(r, FALSE)
  ELSE IF reported = "failed" THEN MarkFailed(r)
  ELSE [r EXCEPT !.unreachable = FALSE]

AfterHeartbeat(st, s) ==
  IF s \in Resumed(st) THEN Reissue(sessions[s], TRUE)
  ELSE IF s \in Judged(st) THEN Reconciled(sessions[s], st[s])
  ELSE sessions[s]

\* The starts of the plan go out in plan order, which is left open here.
StartsFor(ids) ==
  {[i \in DOMAIN order |-> StartFrame(order[i], sessions[order[i]].sessionFile)] :
     order \in {f \in [1..Cardinality(ids) -> ids] : \A s \in ids : \E i \in DOMAIN f : f[i] = s}}

Heartbeat(k, st) ==
  /\ conn = k
  /\ sessions' = [s \in Session |-> AfterHeartbeat(st, s)]
  /\ resumePlan' = NoPlan
  /\ preexistingIds' = preexistingIds \cup Resumed(st)
  /\ \E starts \in StartsFor(Resumed(st)) : down' = [down EXCEPT ![k] = @ \o starts]
  /\ derived' = Events({s \in Judged(st) : st[s] \in {"none", "exited"}}, "session_exited")
                  \cup Events({s \in Judged(st) : st[s] = "failed"}, "session_failed")
  /\ UNCHANGED <<ws, conn, restartingSince, resumeIds, restartCmd, lastReqId>>

\* A session frame about s: the record it leaves and the end it announces.
SessionFrame(k, s, after, kind) ==
  /\ conn = k
  /\ sessions' = [sessions EXCEPT ![s] = after]
  /\ derived' = IF Active(sessions[s]) /\ Terminal(after) THEN Events({s}, kind) ELSE {}
  /\ UNCHANGED <<ws, conn, preexistingIds, planVars, down>>

SessionReady(k, s, file) == SessionFrame(k, s, MarkReady(sessions[s], file), "none")
SessionActivity(k, s) == SessionFrame(k, s, SetActivity(sessions[s]), "none")
SessionError(k, s) == SessionFrame(k, s, MarkFailed(sessions[s]), "session_failed")
SessionExit(k, s, upgrade) == SessionFrame(k, s, MarkExited(sessions[s], upgrade), "session_exited")

\* Mutant: the request-time snapshot stays behind.
DisarmFlag == restartingSince' = FALSE /\ UNCHANGED resumeIds

\* restartDaemon's continuation after a definitive refusal.
DisarmRestart == restartingSince' = FALSE /\ resumeIds' = {}

\* cmd-result of a restart-daemon command; an answer nobody waits for is stale.
RestartResult(k, reqId, ok) ==
  /\ conn = k
  /\ IF restartCmd # 0 /\ restartCmd = reqId
     THEN /\ restartCmd' = 0
          /\ IF ok THEN UNCHANGED <<restartingSince, resumeIds>> ELSE DisarmRestart
     ELSE UNCHANGED <<restartCmd, restartingSince, resumeIds>>
  /\ derived' = {}
  /\ UNCHANGED <<sessions, ws, conn, preexistingIds, resumePlan, lastReqId, down>>

(***************************************************************************)
(* Requests from the HTTP API.                                             *)
(***************************************************************************)

\* SessionStore.prune after a create: oldest terminal records over the cap go.
Pruned(all, drop) ==
  LET kept == {s \in Session : Exists(all[s])}
      terminal == {s \in kept : Terminal(all[s])}
      excess == IF Cardinality(kept) > SessionCap THEN Cardinality(kept) - SessionCap ELSE 0
  IN /\ drop \subseteq terminal
     /\ Cardinality(drop) = IF excess < Cardinality(terminal) THEN excess ELSE Cardinality(terminal)

CreateSession(s, file) ==
  LET all == [sessions EXCEPT ![s] = NewRecord]
  IN /\ sessions[s].status = "unused"
     /\ conn # NoSocket
     /\ \E drop \in SUBSET Session :
          /\ Pruned(all, drop)
          /\ sessions' = [x \in Session |-> IF x \in drop THEN Outside("deleted") ELSE all[x]]
     /\ Send(StartFrame(s, file))
     /\ derived' = {}
     /\ UNCHANGED <<ws, conn, preexistingIds, planVars>>

StopSession(s) ==
  /\ Active(sessions[s])
  /\ conn # NoSocket
  /\ Send(StopFrame(s))
  /\ derived' = {}
  /\ UNCHANGED <<sessions, ws, conn, preexistingIds, planVars>>

\* Mutant: a fresh start although the record has a transcript.
RestartSessionBlank(s) ==
  /\ Terminal(sessions[s])
  /\ conn # NoSocket
  /\ Send(StartFrame(s, NoFile))
  /\ sessions' = [sessions EXCEPT ![s] = Reissue(@, FALSE)]
  /\ preexistingIds' = preexistingIds \cup {s}
  /\ derived' = {}
  /\ UNCHANGED <<ws, conn, planVars>>

RestartSession(s) ==
  /\ Terminal(sessions[s])
  /\ conn # NoSocket
  /\ Send(StartFrame(s, sessions[s].sessionFile))
  /\ sessions' = [sessions EXCEPT ![s] = Reissue(@, FALSE)]
  /\ preexistingIds' = preexistingIds \cup {s}
  /\ derived' = {}
  /\ UNCHANGED <<ws, conn, planVars>>

DeleteSession(s) ==
  /\ Exists(sessions[s])
  /\ IF Active(sessions[s]) /\ conn # NoSocket THEN Send(StopFrame(s)) ELSE UNCHANGED down
  /\ sessions' = [sessions EXCEPT ![s] = Outside("deleted")]
  /\ derived' = {}
  /\ UNCHANGED <<ws, conn, preexistingIds, planVars>>

RestartDaemon ==
  /\ ~restartingSince
  /\ resumePlan = NoPlan
  /\ conn # NoSocket
  /\ lastReqId < MaxRestarts
  /\ resumeIds' = ActiveIds
  /\ restartingSince' = TRUE
  /\ lastReqId' = lastReqId + 1
  /\ restartCmd' = lastReqId'
  /\ Send(RestartFrame(lastReqId'))
  /\ derived' = {}
  /\ UNCHANGED <<sessions, ws, conn, preexistingIds, resumePlan>>

(***************************************************************************)
(* Timers.                                                                 *)
(***************************************************************************)
CmdTimeout ==
  /\ restartCmd # 0
  /\ restartCmd' = 0
  /\ DisarmRestart
  /\ derived' = {}
  /\ UNCHANGED <<sessions, ws, conn, preexistingIds, resumePlan, lastReqId, down>>

\* Mutant: the sweep looks at machines that are offline only.
ExpireRestartOffline ==
  /\ restartingSince
  /\ restartCmd = 0
  /\ conn = NoSocket
  /\ DisarmRestart
  /\ derived' = {}
  /\ UNCHANGED <<sessions, ws, conn, preexistingIds, resumePlan, restartCmd, lastReqId, down>>

\* #sweep: RESTART_FLAG_TTL_MS (90 s) outlasts the 15 s a command may pend.
ExpireRestart ==
  /\ restartingSince
  /\ restartCmd = 0
  /\ DisarmRestart
  /\ derived' = {}
  /\ UNCHANGED <<sessions, ws, conn, preexistingIds, resumePlan, restartCmd, lastReqId, down>>

ExpirePlan ==
  /\ resumePlan # NoPlan
  /\ resumePlan' = NoPlan
  /\ derived' = {}
  /\ UNCHANGED <<sessions, ws, conn, preexistingIds, restartingSince, resumeIds,
                 restartCmd, lastReqId, down>>

\* RESTART_GRACE_MS after a reissue.
GraceExpires(s) ==
  /\ sessions[s].grace
  /\ sessions' = [sessions EXCEPT ![s].grace = FALSE]
  /\ derived' = {}
  /\ UNCHANGED <<ws, conn, preexistingIds, planVars, down>>
-------------------------------------------------------------------------------
\* The other end of socket k reads a frame.
DaemonReads(k) ==
  /\ down[k] # <<>>
  /\ down' = [down EXCEPT ![k] = Tail(@)]
  /\ derived' = {}
  /\ UNCHANGED <<sessions, ws, conn, preexistingIds, planVars>>

Connections == (\E k \in Socket : Upgrade(k) \/ Hello(k) \/ HandleClose(k)) \/ Offline

DaemonFrames ==
  \E k \in Socket :
    \/ \E st \in [Session -> Reported] : Room /\ Heartbeat(k, st)
    \/ \E s \in Session :
         \/ \E file \in File \cup {NoFile} : SessionReady(k, s, file)
         \/ SessionActivity(k, s)
         \/ SessionError(k, s)
         \/ \E upgrade \in BOOLEAN : SessionExit(k, s, upgrade)
    \/ \E reqId \in 1..lastReqId, ok \in BOOLEAN : RestartResult(k, reqId, ok)

Requests ==
  /\ Room
  /\ \/ \E s \in Session :
          \/ \E file \in File \cup {NoFile} : CreateSession(s, file)
          \/ StopSession(s) \/ RestartSession(s) \/ DeleteSession(s)
     \/ RestartDaemon

Timers == CmdTimeout \/ ExpireRestart \/ ExpirePlan \/ \E s \in Session : GraceExpires(s)

HubNext == Connections \/ DaemonFrames \/ Requests \/ Timers \/ \E k \in Socket : DaemonReads(k)
HubSpec == HubInit /\ [][HubNext]_hubVars
-------------------------------------------------------------------------------
\* The registry's records, sockets and timers keep their types; down holds frames
\* the daemon understands.
HubTypeOK ==
  /\ sessions \in [Session -> Record]
  /\ ws \in [Socket -> {"unused", "open", "agent", "closed", "replaced"}]
  /\ conn \in Socket \cup {NoSocket}
  /\ preexistingIds \in SUBSET Session
  /\ restartingSince \in BOOLEAN
  /\ resumeIds \in SUBSET Session
  /\ resumePlan = NoPlan \/ resumePlan \in SUBSET Session
  /\ restartCmd \in Nat /\ lastReqId \in Nat
  /\ down \in [Socket -> Seq(HubFrame)]
  /\ derived \in SUBSET Event

(***************************************************************************)
(* What the registry promises whatever the daemon sends.                   *)
(***************************************************************************)

\* "The hello race must not end with two daemons" (agents.ts, #offline): the
\* socket of the connection entry is the only one whose frames are obeyed, a
\* daemon that was replaced, closed or swept never gets its say again.
OneAgent == \A k \in Socket : ws[k] = "agent" <=> conn = k

\* The restart flag, its request-time snapshot, the pending command and the
\* resume plan are cleared from five places (close, replacement, sweep, command
\* settlement, expiry).  None of them leaves a fragment of one restart behind
\* that the next one, or a heartbeat, would take for its own.
RestartConsistent ==
  /\ restartingSince => resumePlan = NoPlan
  /\ resumeIds # {} => restartingSince
  /\ restartCmd # 0 => restartingSince /\ conn # NoSocket /\ restartCmd = lastReqId

\* With the daemon gone every session that has not ended is shown unreachable;
\* and while it is connected, each record still shown so is one the heartbeat
\* reconcile may judge, or it would stay unreachable for good.
UnreachableIsResolvable ==
  \A s \in Session : Active(sessions[s]) =>
    IF conn = NoSocket THEN sessions[s].unreachable
    ELSE sessions[s].unreachable => s \in preexistingIds

StartsSent(s) ==
  conn' # NoSocket /\ \E i \in DOMAIN down'[conn'] :
    i > Len(down[conn']) /\ down'[conn'][i] = StartFrame(s, sessions[s].sessionFile)

\* A record comes back from the dead exactly when a start for its id, naming its
\* own transcript, is written to the current connection: a record never waits
\* for a child nobody was asked to spawn.
RevivalIsDispatched ==
  [][\A s \in Session : Terminal(sessions[s]) /\ Active(sessions'[s]) => StartsSent(s)]_hubVars

\* Every path that ends a session hands exactly one end event to the fleet, and
\* never for a session that had ended before.  The exception is the blanket
\* exit of a planned restart (exitSessionsFor), which announces nothing.
EndIsAnnouncedOnce ==
  [][\A s \in Session :
       LET ends == {e \in derived' : e.id = s /\ e.kind # "session_unreachable"}
       IN /\ ends # {} => Active(sessions[s]) /\ Terminal(sessions'[s]) /\ Cardinality(ends) = 1
          /\ Active(sessions[s]) /\ Terminal(sessions'[s]) /\ ends = {} =>
               restartingSince /\ ~restartingSince' /\ sessions'[s].upgrade]_hubVars

\* "A terminal record keeps its first terminal state" (sessions.ts, markExited):
\* late frames, heartbeats and disconnects never rewrite how a session ended,
\* nor forget the transcript it would resume.
FirstEndSticks ==
  [][\A s \in Session : Terminal(sessions[s]) /\ Terminal(sessions'[s]) =>
       /\ sessions'[s].status = sessions[s].status
       /\ sessions'[s].upgrade = sessions[s].upgrade
       /\ sessions'[s].sessionFile = sessions[s].sessionFile]_hubVars
===============================================================================
