---------------------------- MODULE HubAgentProofs ----------------------------
(***************************************************************************)
(* Proofs about HubRegistry, for every set of sessions and sockets and     *)
(* every daemon behaviour, and about HubAgent, which closes it.            *)
(*                                                                         *)
(* The registry.  The inductive invariant is the conjunction of the type   *)
(* invariant and the three state invariants: none of the three is          *)
(* inductive without the types, and the types alone say nothing.  The      *)
(* action properties follow from the types, step by step: the lemmas       *)
(* OtherSteps, FrameEnds, LinkLostEnds, HeartbeatStarts and HeartbeatEnds  *)
(* say of each kind of step what it ends and what it brings back.          *)
(*                                                                         *)
(* The whole.  SysValid says that every frame on its way, every record and *)
(* every child names only sessions, transcripts and commands that exist.   *)
(* It is what makes a step of the whole a step of the open registry and of *)
(* the open supervisor, so that what is proved of each holds of both       *)
(* together.                                                               *)
(*                                                                         *)
(* Heartbeats.  CalmInv follows each session through the pipe between the  *)
(* hub and its agent: starts going down, children, ends and heartbeats     *)
(* coming up.  Either there is one life of the session in it at most       *)
(* (Single), or every one resumes the session's one transcript (Uniform)   *)
(* and the table of children keeps all but one out; so a heartbeat that    *)
(* denies the child is on its way up only if the hub may not judge the     *)
(* record, or if there is no child (Judgement).  The lemmas Pipe... say    *)
(* that of one session and one kind of step, the lemmas ...Calm of whole   *)
(* steps.                                                                  *)
(***************************************************************************)
EXTENDS FiniteSetTheorems, SequenceTheorems, HubAgent, TLAPS


\* Every mutator of SessionStore maps records to records.
LEMMA MutatorTypes ==
  ASSUME NEW r \in Record, NEW file \in File \cup {NoFile}, NEW b \in BOOLEAN
  PROVE  /\ MarkReady(r, file) \in Record
         /\ SetActivity(r) \in Record
         /\ MarkFailed(r) \in Record
         /\ MarkExited(r, b) \in Record
         /\ Reissue(r, b) \in Record
         /\ MarkUnreachable(r) \in Record
         /\ ExitForUpgrade(r) \in Record
         /\ [r EXCEPT !.unreachable = FALSE] \in Record
         /\ [r EXCEPT !.grace = FALSE] \in Record
         /\ r.sessionFile \in File \cup {NoFile}
  BY DEF Record, Active, Exists, Terminal, MarkReady, SetActivity, MarkFailed, MarkExited,
         Reissue, MarkUnreachable, ExitForUpgrade, ActiveStatus, TerminalStatus

\* The constant records are records, and none but the new one is active.
LEMMA RecordConstants ==
  /\ NewRecord \in Record
  /\ Outside("unused") \in Record
  /\ Outside("deleted") \in Record
  /\ ~Active(Outside("unused")) /\ ~Active(Outside("deleted"))
  /\ ~NewRecord.unreachable
  BY DEF NewRecord, Outside, Record, Active, ActiveStatus, TerminalStatus

\* What a mutator does to an end and to the unreachable flag: only a reissue
\* leaves a terminal status, and none sets the flag but MarkUnreachable.
LEMMA MutatorEffects ==
  ASSUME NEW r \in Record, NEW file \in File \cup {NoFile}, NEW b \in BOOLEAN
  PROVE  /\ ~Active(r) => /\ MarkReady(r, file) = r /\ SetActivity(r) = r
                          /\ MarkFailed(r) = r /\ MarkExited(r, b) = r
                          /\ MarkUnreachable(r) = r /\ ExitForUpgrade(r) = r
         /\ Active(MarkReady(r, file)) => Active(r) /\ ~MarkReady(r, file).unreachable
         /\ Active(SetActivity(r)) => Active(r) /\ ~SetActivity(r).unreachable
         /\ ~Active(MarkFailed(r)) /\ ~Active(MarkExited(r, b)) /\ ~Active(ExitForUpgrade(r))
         /\ Active(MarkUnreachable(r)) => MarkUnreachable(r).unreachable
         /\ Reissue(r, b) = r \/ ~Reissue(r, b).unreachable
  BY DEF Record, Active, Exists, Terminal, MarkReady, SetActivity, MarkFailed, MarkExited,
         Reissue, MarkUnreachable, ExitForUpgrade, ActiveStatus, TerminalStatus

\* The events derived for a set of sessions are events.
LEMMA EventsTypes ==
  ASSUME NEW ids \in SUBSET Session,
         NEW kind \in {"session_exited", "session_failed", "session_unreachable"}
  PROVE  Events(ids, kind) \subseteq Event
  BY DEF Events, Event

\* Writing frames on one socket keeps every socket's queue a sequence of frames.
LEMMA SendTypes ==
  ASSUME NEW k \in Socket, down \in [Socket -> Seq(HubFrame)], NEW frames \in Seq(HubFrame),
         down' = [down EXCEPT ![k] = @ \o frames]
  PROVE  down' \in [Socket -> Seq(HubFrame)]
  OBVIOUS

\* Likewise for one frame on the current connection.
LEMMA SendOneTypes ==
  ASSUME NEW frame \in HubFrame, down \in [Socket -> Seq(HubFrame)], conn \in Socket, Send(frame)
  PROVE  down' \in [Socket -> Seq(HubFrame)]
  BY DEF Send

\* Losing the link keeps the types and leaves every active record unreachable.
LEMMA LinkLostTypes ==
  ASSUME HubTypeOK, LinkLost
  PROVE  /\ sessions' \in [Session -> Record]
         /\ restartCmd' = 0
         /\ restartingSince' \in BOOLEAN
         /\ resumeIds' \in SUBSET Session
         /\ resumePlan' = NoPlan \/ resumePlan' \in SUBSET Session
         /\ derived' \in SUBSET Event
         /\ \A s \in Session : Active(sessions'[s]) => sessions'[s].unreachable
<1> USE DEF HubTypeOK
<1>1. sessions' \in [Session -> Record] /\ derived' \in SUBSET Event
  <2>1. \A s \in Session : ExitForUpgrade(sessions[s]) \in Record /\ MarkUnreachable(sessions[s]) \in Record
    BY MutatorTypes
  <2>2. sessions' \in [Session -> Record]
    BY <2>1 DEF LinkLost
  <2>3. derived' = Events({s \in Session : sessions'[s].unreachable}, "session_unreachable")
    BY DEF LinkLost
  <2> QED BY <2>2, <2>3, EventsTypes
<1>2. resumePlan' = NoPlan \/ resumePlan' \in SUBSET Session
  BY DEF LinkLost, ResumableIds
<1>3. \A s \in Session : Active(sessions'[s]) => sessions'[s].unreachable
  <2>1. \A s \in Session : /\ ~Active(ExitForUpgrade(sessions[s]))
                           /\ Active(MarkUnreachable(sessions[s])) => MarkUnreachable(sessions[s]).unreachable
    BY MutatorEffects
  <2> QED BY <2>1 DEF LinkLost
<1> QED BY <1>1, <1>2, <1>3 DEF LinkLost

-------------------------------------------------------------------------------
\* A heartbeat keeps the types: the plan it replays is finite, so its starts form
\* a sequence.
LEMMA HeartbeatTypes ==
  ASSUME HubTypeOK, NEW k \in Socket, NEW st \in [Session -> Reported], Heartbeat(k, st)
  PROVE  HubTypeOK'
<1> USE DEF HubTypeOK
<1>1. Resumed(st) \in SUBSET Session /\ Judged(st) \in SUBSET Session
  BY DEF Resumed, Judged
<1>2. sessions' \in [Session -> Record]
  <2>1. \A s \in Session : AfterHeartbeat(st, s) \in Record
    BY MutatorTypes DEF AfterHeartbeat, Reconciled
  <2> QED BY <2>1 DEF Heartbeat
<1>3. down' \in [Socket -> Seq(HubFrame)]
  <2>1. Cardinality(Resumed(st)) \in Nat
    BY <1>1, HubAssumption, FS_Subset, FS_CardinalityType
  <2>2. \A s \in Session : StartFrame(s, sessions[s].sessionFile) \in HubFrame
    BY MutatorTypes DEF StartFrame, HubFrame
  <2>3. PICK order \in [1..Cardinality(Resumed(st)) -> Resumed(st)] :
          down' = [down EXCEPT ![k] = @ \o
            [i \in DOMAIN order |-> StartFrame(order[i], sessions[order[i]].sessionFile)]]
    BY DEF Heartbeat, StartsFor
  <2> DEFINE frames == [i \in DOMAIN order |-> StartFrame(order[i], sessions[order[i]].sessionFile)]
  <2>4. frames \in [1..Cardinality(Resumed(st)) -> HubFrame]
    BY <1>1, <2>2
  <2>5. down' = [down EXCEPT ![k] = @ \o frames]
    BY <2>3
  <2> HIDE DEF frames
  <2>6. frames \in Seq(HubFrame)
    <3>1. PICK n \in Nat : frames \in [1..n -> HubFrame]
      BY <2>1, <2>4
    <3> QED BY <3>1, SeqDef
  <2> QED BY <2>5, <2>6, SendTypes
<1>4. derived' \in SUBSET Event
  <2> DEFINE exited == {s \in Judged(st) : st[s] \in {"none", "exited"}}
             failed == {s \in Judged(st) : st[s] = "failed"}
  <2>1. exited \in SUBSET Session /\ failed \in SUBSET Session
    BY <1>1
  <2>2. derived' = Events(exited, "session_exited") \cup Events(failed, "session_failed")
    BY DEF Heartbeat
  <2> HIDE DEF exited, failed
  <2> QED BY <2>1, <2>2, EventsTypes
<1> QED BY <1>1, <1>2, <1>3, <1>4 DEF Heartbeat

\* No step leaves the types.
LEMMA HubTypeStep ==
  ASSUME HubTypeOK, [HubNext]_hubVars
  PROVE  HubTypeOK'
<1>1. ASSUME NEW k \in Socket, Upgrade(k) PROVE HubTypeOK'
  BY <1>1 DEF HubTypeOK, Upgrade, planVars
<1>2. ASSUME NEW k \in Socket, Hello(k) PROVE HubTypeOK'
  <2>1. CASE conn = NoSocket
    BY <1>2, <2>1 DEF HubTypeOK, Hello
  <2>2. CASE conn # NoSocket
    <3>1. LinkLost
      BY <1>2, <2>2 DEF Hello
    <3>2. ws' \in [Socket -> {"unused", "open", "agent", "closed", "replaced"}]
      BY <1>2, <2>2 DEF HubTypeOK, Hello
    <3>3. conn' \in Socket /\ preexistingIds' \in SUBSET Session /\ UNCHANGED <<lastReqId, down>>
      BY <1>2 DEF Hello
    <3>4. restartCmd' \in Nat
      BY <3>1, LinkLostTypes
    <3> QED BY <3>1, <3>2, <3>3, <3>4, LinkLostTypes DEF HubTypeOK
  <2> QED BY <2>1, <2>2
<1>3. ASSUME NEW k \in Socket, HandleClose(k) PROVE HubTypeOK'
  <2>1. CASE conn = k
    <3>1. LinkLost
      BY <1>3, <2>1 DEF HandleClose
    <3> QED BY <1>3, <2>1, <3>1, LinkLostTypes DEF HubTypeOK, HandleClose
  <2>2. CASE conn # k
    BY <1>3, <2>2 DEF HubTypeOK, HandleClose
  <2> QED BY <2>1, <2>2
<1>4. CASE Offline
  BY <1>4, LinkLostTypes DEF HubTypeOK, Offline
<1>5. ASSUME NEW k \in Socket, NEW st \in [Session -> Reported], Heartbeat(k, st)
      PROVE  HubTypeOK'
  BY <1>5, HeartbeatTypes
<1>6. ASSUME NEW k \in Socket, NEW s \in Session, NEW after \in Record,
             NEW kind \in {"session_exited", "session_failed", "none"},
             kind = "none" => ~(Active(sessions[s]) /\ Terminal(after)),
             SessionFrame(k, s, after, kind)
      PROVE  HubTypeOK'
  <2>1. sessions' \in [Session -> Record]
    BY <1>6 DEF HubTypeOK, SessionFrame
  <2>2. derived' \in SUBSET Event
    BY <1>6, EventsTypes DEF SessionFrame
  <2> QED BY <1>6, <2>1, <2>2 DEF HubTypeOK, SessionFrame, planVars
<1>7. ASSUME NEW k \in Socket, NEW s \in Session, NEW file \in File \cup {NoFile},
             SessionReady(k, s, file)
      PROVE  HubTypeOK'
  <2>1. MarkReady(sessions[s], file) \in Record /\ SetActivity(sessions[s]) \in Record
    BY MutatorTypes DEF HubTypeOK
  <2>2. ~(Active(sessions[s]) /\ Terminal(MarkReady(sessions[s], file)))
    BY DEF HubTypeOK, Record, Active, Terminal, MarkReady, ActiveStatus, TerminalStatus
  <2> QED BY <1>6, <1>7, <2>1, <2>2 DEF SessionReady
<1>8. ASSUME NEW k \in Socket, NEW s \in Session, SessionActivity(k, s) PROVE HubTypeOK'
  <2>1. SetActivity(sessions[s]) \in Record
    BY MutatorTypes DEF HubTypeOK
  <2>2. ~(Active(sessions[s]) /\ Terminal(SetActivity(sessions[s])))
    BY DEF HubTypeOK, Record, Active, Terminal, SetActivity, ActiveStatus, TerminalStatus
  <2> QED BY <1>6, <1>8, <2>1, <2>2 DEF SessionActivity
<1>9. ASSUME NEW k \in Socket, NEW s \in Session, SessionError(k, s) PROVE HubTypeOK'
  BY <1>6, <1>9, MutatorTypes DEF HubTypeOK, SessionError
<1>10. ASSUME NEW k \in Socket, NEW s \in Session, NEW b \in BOOLEAN, SessionExit(k, s, b)
       PROVE  HubTypeOK'
  BY <1>6, <1>10, MutatorTypes DEF HubTypeOK, SessionExit
<1>11. ASSUME NEW k \in Socket, NEW reqId \in 1..lastReqId, NEW ok \in BOOLEAN,
              RestartResult(k, reqId, ok)
       PROVE  HubTypeOK'
  <2>1. restartingSince' \in BOOLEAN
    BY <1>11 DEF HubTypeOK, RestartResult, DisarmRestart
  <2>2. restartCmd' \in Nat /\ resumeIds' \in SUBSET Session /\ derived' = {}
    BY <1>11 DEF HubTypeOK, RestartResult, DisarmRestart
  <2> QED BY <1>11, <2>1, <2>2 DEF HubTypeOK, RestartResult
<1>12. ASSUME NEW s \in Session, NEW file \in File \cup {NoFile}, CreateSession(s, file)
       PROVE  HubTypeOK'
  <2>1. sessions' \in [Session -> Record]
    BY <1>12, RecordConstants DEF HubTypeOK, CreateSession
  <2>2. StartFrame(s, file) \in HubFrame
    BY DEF StartFrame, HubFrame
  <2>3. down' \in [Socket -> Seq(HubFrame)]
    BY <1>12, <2>2, SendOneTypes DEF HubTypeOK, CreateSession
  <2> QED BY <1>12, <2>1, <2>3 DEF HubTypeOK, CreateSession, planVars
<1>13. ASSUME NEW s \in Session, StopSession(s) PROVE HubTypeOK'
  <2>1. StopFrame(s) \in HubFrame
    BY DEF StopFrame, HubFrame
  <2>2. down' \in [Socket -> Seq(HubFrame)]
    BY <1>13, <2>1, SendOneTypes DEF HubTypeOK, StopSession
  <2> QED BY <1>13, <2>2 DEF HubTypeOK, StopSession, planVars
<1>14. ASSUME NEW s \in Session, RestartSession(s) PROVE HubTypeOK'
  <2>1. StartFrame(s, sessions[s].sessionFile) \in HubFrame
    BY MutatorTypes DEF StartFrame, HubFrame, HubTypeOK
  <2>2. down' \in [Socket -> Seq(HubFrame)]
    BY <1>14, <2>1, SendOneTypes DEF HubTypeOK, RestartSession
  <2> QED BY <1>14, <2>2, MutatorTypes DEF HubTypeOK, RestartSession, planVars
<1>15. ASSUME NEW s \in Session, DeleteSession(s) PROVE HubTypeOK'
  <2>1. StopFrame(s) \in HubFrame
    BY DEF StopFrame, HubFrame
  <2>2. down' \in [Socket -> Seq(HubFrame)]
    BY <1>15, <2>1, SendOneTypes DEF HubTypeOK, DeleteSession
  <2> QED BY <1>15, <2>2, RecordConstants DEF HubTypeOK, DeleteSession, planVars
<1>16. CASE RestartDaemon
  <2>1. lastReqId' \in Nat /\ RestartFrame(lastReqId') \in HubFrame
    BY <1>16 DEF RestartDaemon, RestartFrame, HubFrame, HubTypeOK
  <2>2. down' \in [Socket -> Seq(HubFrame)]
    BY <1>16, <2>1, SendOneTypes DEF HubTypeOK, RestartDaemon
  <2> QED BY <1>16, <2>1, <2>2 DEF HubTypeOK, RestartDaemon, ActiveIds
<1>17. CASE Timers
  <2>1. ASSUME NEW s \in Session, GraceExpires(s) PROVE HubTypeOK'
    BY <2>1, MutatorTypes DEF HubTypeOK, GraceExpires, planVars
  <2>2. CASE CmdTimeout \/ ExpireRestart
    <3>1. restartingSince' \in BOOLEAN
      BY <2>2 DEF CmdTimeout, ExpireRestart, DisarmRestart
    <3>2. restartCmd' \in Nat /\ resumeIds' = {} /\ derived' = {}
      BY <2>2 DEF HubTypeOK, CmdTimeout, ExpireRestart, DisarmRestart
    <3> QED BY <2>2, <3>1, <3>2 DEF HubTypeOK, CmdTimeout, ExpireRestart
  <2>3. CASE ExpirePlan
    BY <2>3 DEF HubTypeOK, ExpirePlan
  <2> QED BY <1>17, <2>1, <2>2, <2>3 DEF Timers
<1>18. ASSUME NEW k \in Socket, DaemonReads(k) PROVE HubTypeOK'
  BY <1>18 DEF HubTypeOK, DaemonReads, planVars
<1>19. CASE UNCHANGED hubVars
  BY <1>19 DEF HubTypeOK, hubVars, planVars
<1> QED
  BY <1>1, <1>2, <1>3, <1>4, <1>5, <1>7, <1>8, <1>9, <1>10, <1>11, <1>12, <1>13, <1>14,
     <1>15, <1>16, <1>17, <1>18, <1>19
  DEF HubNext, Connections, DaemonFrames, Requests

\* The registry starts with them.
LEMMA HubTypeStarts == HubInit => HubTypeOK
<1> SUFFICES ASSUME HubInit PROVE HubTypeOK
  OBVIOUS
<1>1. sessions \in [Session -> Record] /\ ws \in [Socket -> {"unused", "open", "agent", "closed", "replaced"}]
  BY RecordConstants DEF HubInit
<1>2. down \in [Socket -> Seq(HubFrame)]
  BY DEF HubInit
<1>3. conn = NoSocket /\ preexistingIds = {} /\ resumeIds = {} /\ resumePlan = NoPlan
  BY DEF HubInit
<1>4. restartingSince \in BOOLEAN
  BY DEF HubInit
<1>5. restartCmd \in Nat /\ lastReqId \in Nat
  BY DEF HubInit
<1>6. derived = {}
  BY DEF HubInit
<1> QED BY <1>1, <1>2, <1>3, <1>4, <1>5, <1>6 DEF HubTypeOK

\* HubTypeOK is an invariant of the open hub: whatever frames a daemon sends and
\* however connections come and go.
THEOREM TypeCorrect == HubSpec => []HubTypeOK
BY HubTypeStarts, HubTypeStep, PTL DEF HubSpec

-------------------------------------------------------------------------------
\* At most one socket speaks for the machine: a replaced, closed or swept daemon
\* is never obeyed again (the hello race cannot end with two daemons).
THEOREM OneAgentCorrect == HubSpec => []OneAgent
<1>1. HubInit => OneAgent
  BY HubAssumption DEF HubInit, OneAgent
<1>2. HubTypeOK /\ OneAgent /\ [HubNext]_hubVars => OneAgent'
  <2> SUFFICES ASSUME HubTypeOK, OneAgent, [HubNext]_hubVars PROVE OneAgent'
    OBVIOUS
  <2>1. ASSUME NEW k \in Socket, Upgrade(k) PROVE OneAgent'
    BY <2>1 DEF HubTypeOK, OneAgent, Upgrade
  <2>2. ASSUME NEW k \in Socket, Hello(k) PROVE OneAgent'
    <3>1. conn' = k /\ ws[k] = "open"
      BY <2>2 DEF Hello
    <3>2. \A x \in Socket : x # k => ws'[x] # "agent"
      <4>1. CASE conn = NoSocket
        BY <2>2, <4>1, HubAssumption DEF HubTypeOK, OneAgent, Hello
      <4>2. CASE conn # NoSocket
        <5>1. ws' = [ws EXCEPT ![conn] = "replaced", ![k] = "agent"]
          BY <2>2, <4>2 DEF Hello
        <5> QED BY <5>1 DEF HubTypeOK, OneAgent
      <4> QED BY <4>1, <4>2
    <3>3. ws'[k] = "agent"
      BY <2>2 DEF HubTypeOK, Hello
    <3> QED BY <3>1, <3>2, <3>3 DEF OneAgent
  <2>3. ASSUME NEW k \in Socket, HandleClose(k) PROVE OneAgent'
    BY <2>3, HubAssumption DEF HubTypeOK, OneAgent, HandleClose
  <2>4. CASE Offline
    BY <2>4, HubAssumption DEF HubTypeOK, OneAgent, Offline
  <2>5. CASE UNCHANGED <<ws, conn>>
    BY <2>5 DEF OneAgent
  <2>6. DaemonFrames \/ Requests \/ Timers => UNCHANGED <<ws, conn>>
    BY DEF DaemonFrames, Requests, Timers, Heartbeat, SessionReady, SessionActivity, SessionError,
           SessionExit, SessionFrame, RestartResult, CreateSession, StopSession, RestartSession,
           DeleteSession, RestartDaemon, CmdTimeout, ExpireRestart, ExpirePlan, GraceExpires
  <2>7. (\E k \in Socket : DaemonReads(k)) \/ UNCHANGED hubVars => UNCHANGED <<ws, conn>>
    BY DEF DaemonReads, hubVars
  <2> QED BY <2>1, <2>2, <2>3, <2>4, <2>5, <2>6, <2>7 DEF HubNext, Connections
<1> QED BY <1>1, <1>2, TypeCorrect, PTL DEF HubSpec

\* What a lost link leaves of a restart: nothing but its plan.
LEMMA LinkLostRestart ==
  ASSUME LinkLost, RestartConsistent
  PROVE  restartCmd' = 0 /\ resumeIds' = {} /\ ~restartingSince'
  BY DEF LinkLost, RestartConsistent

\* No path out of a planned restart leaves a fragment of it behind.
THEOREM RestartConsistentCorrect == HubSpec => []RestartConsistent
<1>1. HubInit => RestartConsistent
  BY DEF HubInit, RestartConsistent
<1>2. HubTypeOK /\ RestartConsistent /\ [HubNext]_hubVars => RestartConsistent'
  <2> SUFFICES ASSUME HubTypeOK, RestartConsistent, [HubNext]_hubVars PROVE RestartConsistent'
    OBVIOUS
  <2>1. ASSUME NEW k \in Socket, Upgrade(k) PROVE RestartConsistent'
    BY <2>1 DEF RestartConsistent, Upgrade, planVars
  <2>2. ASSUME NEW k \in Socket, Hello(k) PROVE RestartConsistent'
    <3>1. CASE conn = NoSocket
      BY <2>2, <3>1 DEF RestartConsistent, Hello
    <3>2. CASE conn # NoSocket
      BY <2>2, <3>2, LinkLostRestart DEF RestartConsistent, Hello
    <3> QED BY <3>1, <3>2
  <2>3. ASSUME NEW k \in Socket, HandleClose(k) PROVE RestartConsistent'
    <3>1. CASE conn = k
      BY <2>3, <3>1, LinkLostRestart DEF RestartConsistent, HandleClose
    <3>2. CASE conn # k
      BY <2>3, <3>2 DEF RestartConsistent, HandleClose
    <3> QED BY <3>1, <3>2
  <2>4. CASE Offline
    BY <2>4, LinkLostRestart DEF RestartConsistent, Offline
  <2>5. ASSUME NEW k \in Socket, NEW st \in [Session -> Reported], Heartbeat(k, st)
        PROVE  RestartConsistent'
    BY <2>5 DEF RestartConsistent, Heartbeat
  <2>6. ASSUME NEW k \in Socket, NEW reqId \in 1..lastReqId, NEW ok \in BOOLEAN,
               RestartResult(k, reqId, ok)
        PROVE  RestartConsistent'
    BY <2>6 DEF RestartConsistent, RestartResult, DisarmRestart
  <2>7. CASE RestartDaemon
    BY <2>7 DEF RestartConsistent, RestartDaemon
  <2>8. CASE CmdTimeout \/ ExpireRestart \/ ExpirePlan
    BY <2>8 DEF RestartConsistent, CmdTimeout, ExpireRestart, ExpirePlan, DisarmRestart
  <2>9. CASE UNCHANGED <<planVars, conn>>
    BY <2>9 DEF RestartConsistent, planVars
  <2>10. ASSUME NEW k \in Socket, NEW s \in Session,
                \/ \E file \in File \cup {NoFile} : SessionReady(k, s, file)
                \/ SessionActivity(k, s) \/ SessionError(k, s)
                \/ \E b \in BOOLEAN : SessionExit(k, s, b)
         PROVE  RestartConsistent'
    <3>1. UNCHANGED <<planVars, conn>>
      BY <2>10 DEF SessionReady, SessionActivity, SessionError, SessionExit, SessionFrame
    <3> QED BY <2>9, <3>1
  <2>11. ASSUME NEW s \in Session,
                \/ \E file \in File \cup {NoFile} : CreateSession(s, file)
                \/ StopSession(s) \/ RestartSession(s) \/ DeleteSession(s) \/ GraceExpires(s)
         PROVE  RestartConsistent'
    <3>1. UNCHANGED <<planVars, conn>>
      BY <2>11 DEF CreateSession, StopSession, RestartSession, DeleteSession, GraceExpires
    <3> QED BY <2>9, <3>1
  <2>12. (\E k \in Socket : DaemonReads(k)) \/ UNCHANGED hubVars => UNCHANGED <<planVars, conn>>
    BY DEF DaemonReads, hubVars
  <2>13. CASE Connections
    BY <2>13, <2>1, <2>2, <2>3, <2>4 DEF Connections
  <2>14. CASE DaemonFrames
    BY <2>14, <2>5, <2>6, <2>10 DEF DaemonFrames
  <2>15. CASE Requests
    BY <2>15, <2>7, <2>11 DEF Requests
  <2>16. CASE Timers
    BY <2>16, <2>8, <2>11 DEF Timers
  <2> QED BY <2>9, <2>12, <2>13, <2>14, <2>15, <2>16 DEF HubNext
<1> QED BY <1>1, <1>2, TypeCorrect, PTL DEF HubSpec

-------------------------------------------------------------------------------
\* After the machine's link is lost every session that has not ended is shown
\* unreachable, and none is shown so behind the back of the heartbeat reconcile.
THEOREM UnreachableIsResolvableCorrect == HubSpec => []UnreachableIsResolvable
<1>1. HubInit => UnreachableIsResolvable
  BY RecordConstants DEF HubInit, UnreachableIsResolvable
<1>2. HubTypeOK /\ UnreachableIsResolvable /\ [HubNext]_hubVars => UnreachableIsResolvable'
  <2> SUFFICES ASSUME HubTypeOK, UnreachableIsResolvable, [HubNext]_hubVars
               PROVE  UnreachableIsResolvable'
    OBVIOUS
  <2>1. ASSUME NEW k \in Socket, Upgrade(k) PROVE UnreachableIsResolvable'
    BY <2>1 DEF UnreachableIsResolvable, Upgrade
  <2>2. ASSUME NEW k \in Socket, Hello(k) PROVE UnreachableIsResolvable'
    \* Everything still active is a candidate of the new connection.
    BY <2>2, HubAssumption DEF UnreachableIsResolvable, Hello
  <2>3. ASSUME NEW k \in Socket, HandleClose(k) PROVE UnreachableIsResolvable'
    <3>1. CASE conn = k
      <4>1. LinkLost /\ conn' = NoSocket
        BY <2>3, <3>1 DEF HandleClose
      <4> QED BY <4>1, LinkLostTypes DEF UnreachableIsResolvable
    <3>2. CASE conn # k
      BY <2>3, <3>2 DEF UnreachableIsResolvable, HandleClose
    <3> QED BY <3>1, <3>2
  <2>4. CASE Offline
    <3>1. LinkLost /\ conn' = NoSocket
      BY <2>4 DEF Offline
    <3> QED BY <3>1, LinkLostTypes DEF UnreachableIsResolvable
  <2>5. ASSUME NEW k \in Socket, NEW st \in [Session -> Reported], Heartbeat(k, st)
        PROVE  UnreachableIsResolvable'
    <3>1. conn # NoSocket /\ conn' = conn /\ preexistingIds \subseteq preexistingIds'
      BY <2>5, HubAssumption DEF Heartbeat
    <3>2. ASSUME NEW s \in Session
          PROVE  AfterHeartbeat(st, s).unreachable =>
                   AfterHeartbeat(st, s) = sessions[s] \/ s \in Resumed(st)
      <4>1. ~MarkExited(sessions[s], FALSE).unreachable \/ MarkExited(sessions[s], FALSE) = sessions[s]
        BY DEF HubTypeOK, Record, MarkExited
      <4>2. ~MarkFailed(sessions[s]).unreachable \/ MarkFailed(sessions[s]) = sessions[s]
        BY DEF HubTypeOK, Record, MarkFailed
      <4> QED BY <4>1, <4>2 DEF AfterHeartbeat, Reconciled, HubTypeOK, Record
    <3>3. Resumed(st) \subseteq preexistingIds'
      BY <2>5 DEF Heartbeat
    <3>4. \A s \in Session : sessions'[s] = AfterHeartbeat(st, s)
      BY <2>5 DEF Heartbeat
    <3> QED BY <3>1, <3>2, <3>3, <3>4 DEF UnreachableIsResolvable
  <2>6. ASSUME NEW k \in Socket, NEW s \in Session, NEW after, NEW kind, conn = k,
               Active(after) => Active(sessions[s]) /\ ~after.unreachable,
               SessionFrame(k, s, after, kind)
        PROVE  UnreachableIsResolvable'
    BY <2>6, HubAssumption DEF UnreachableIsResolvable, SessionFrame, HubTypeOK
  <2>7. ASSUME NEW k \in Socket, NEW s \in Session,
               \/ \E file \in File \cup {NoFile} : SessionReady(k, s, file)
               \/ SessionActivity(k, s) \/ SessionError(k, s)
               \/ \E b \in BOOLEAN : SessionExit(k, s, b)
        PROVE  UnreachableIsResolvable'
    <3>1. sessions[s] \in Record
      BY DEF HubTypeOK
    <3>2. ASSUME NEW file \in File \cup {NoFile}, SessionReady(k, s, file)
          PROVE  UnreachableIsResolvable'
      <4>1. Active(MarkReady(sessions[s], file)) =>
              Active(sessions[s]) /\ ~MarkReady(sessions[s], file).unreachable
        BY <3>1, MutatorEffects
      <4> QED BY <2>6, <3>2, <4>1 DEF SessionReady, SessionFrame
    <3>3. CASE SessionActivity(k, s)
      <4>1. Active(SetActivity(sessions[s])) =>
              Active(sessions[s]) /\ ~SetActivity(sessions[s]).unreachable
        BY <3>1, MutatorEffects
      <4> QED BY <2>6, <3>3, <4>1 DEF SessionActivity, SessionFrame
    <3>4. CASE SessionError(k, s)
      <4>1. ~Active(MarkFailed(sessions[s]))
        BY <3>1, MutatorEffects
      <4> QED BY <2>6, <3>4, <4>1 DEF SessionError, SessionFrame
    <3>5. ASSUME NEW b \in BOOLEAN, SessionExit(k, s, b) PROVE UnreachableIsResolvable'
      <4>1. ~Active(MarkExited(sessions[s], b))
        BY <3>1, MutatorEffects
      <4> QED BY <2>6, <3>5, <4>1 DEF SessionExit, SessionFrame
    <3> QED BY <2>7, <3>2, <3>3, <3>4, <3>5
  <2>8. ASSUME NEW k \in Socket, NEW reqId \in 1..lastReqId, NEW ok \in BOOLEAN,
               RestartResult(k, reqId, ok)
        PROVE  UnreachableIsResolvable'
    BY <2>8 DEF UnreachableIsResolvable, RestartResult
  <2>9. ASSUME NEW s \in Session, NEW file \in File \cup {NoFile}, CreateSession(s, file)
        PROVE  UnreachableIsResolvable'
    <3>1. \A x \in Session : \/ sessions'[x] = sessions[x]
                             \/ sessions'[x] = NewRecord
                             \/ sessions'[x] = Outside("deleted")
      BY <2>9 DEF CreateSession, HubTypeOK
    <3>2. conn # NoSocket /\ UNCHANGED <<conn, preexistingIds>>
      BY <2>9 DEF CreateSession
    <3> QED BY <3>1, <3>2, RecordConstants DEF UnreachableIsResolvable
  <2>10. ASSUME NEW s \in Session, RestartSession(s) PROVE UnreachableIsResolvable'
    <3>1. \A x \in Session : x # s => sessions'[x] = sessions[x]
      BY <2>10 DEF RestartSession, HubTypeOK
    <3>2. conn # NoSocket /\ UNCHANGED conn /\ preexistingIds' = preexistingIds \cup {s}
      BY <2>10 DEF RestartSession
    <3> QED BY <3>1, <3>2 DEF UnreachableIsResolvable
  <2>11. ASSUME NEW s \in Session, DeleteSession(s) PROVE UnreachableIsResolvable'
    BY <2>11, RecordConstants DEF UnreachableIsResolvable, DeleteSession, HubTypeOK
  <2>12. ASSUME NEW s \in Session, GraceExpires(s) PROVE UnreachableIsResolvable'
    <3>1. /\ Active([sessions[s] EXCEPT !.grace = FALSE]) = Active(sessions[s])
          /\ [sessions[s] EXCEPT !.grace = FALSE].unreachable = sessions[s].unreachable
      BY DEF Active, HubTypeOK, Record
    <3> QED BY <2>12, <3>1 DEF UnreachableIsResolvable, GraceExpires, HubTypeOK
  <2>13. CASE UNCHANGED <<sessions, conn, preexistingIds>>
    BY <2>13 DEF UnreachableIsResolvable
  <2>14. \/ \E s \in Session : StopSession(s)
         \/ RestartDaemon \/ CmdTimeout \/ ExpireRestart \/ ExpirePlan
         \/ \E k \in Socket : DaemonReads(k)
         \/ UNCHANGED hubVars
         => UNCHANGED <<sessions, conn, preexistingIds>>
    BY DEF StopSession, RestartDaemon, CmdTimeout, ExpireRestart, ExpirePlan, DaemonReads, hubVars
  <2> QED
    BY <2>1, <2>2, <2>3, <2>4, <2>5, <2>7, <2>8, <2>9, <2>10, <2>11, <2>12, <2>13, <2>14
    DEF HubNext, Connections, DaemonFrames, Requests, Timers
<1> QED BY <1>1, <1>2, TypeCorrect, PTL DEF HubSpec

-------------------------------------------------------------------------------
\* How a session first ended is never rewritten by a late frame, a heartbeat or
\* a disconnect; only an explicit reissue or a delete leaves that state.
THEOREM FirstEndSticksCorrect == HubSpec => FirstEndSticks
<1> DEFINE SameEnd(r, t) == Terminal(r) /\ Terminal(t) =>
                              /\ t.status = r.status
                              /\ t.upgrade = r.upgrade
                              /\ t.sessionFile = r.sessionFile
           EndsStick == \A s \in Session : SameEnd(sessions[s], sessions'[s])
<1>1. ASSUME HubTypeOK, [HubNext]_hubVars PROVE EndsStick
  <2>1. \A s \in Session : Terminal(sessions[s]) => ~Active(sessions[s]) /\ sessions[s] \in Record
    BY <1>1 DEF HubTypeOK, Terminal, Active, TerminalStatus, ActiveStatus
  <2>2. ASSUME NEW s \in Session, NEW b \in BOOLEAN
        PROVE  SameEnd(sessions[s], Reissue(sessions[s], b))
    BY <1>1 DEF HubTypeOK, Record, Reissue, Terminal, TerminalStatus
  <2>3. CASE LinkLost
    <3>1. \A s \in Session : Terminal(sessions[s]) => sessions'[s] = sessions[s]
      BY <2>1, <2>3 DEF LinkLost, ExitForUpgrade, MarkUnreachable
    <3> QED BY <3>1
  <2>4. ASSUME NEW k \in Socket, NEW st \in [Session -> Reported], Heartbeat(k, st)
        PROVE  EndsStick
    <3>1. \A s \in Session : sessions'[s] = AfterHeartbeat(st, s)
      BY <2>4 DEF Heartbeat
    <3>2. \A s \in Session : Terminal(sessions[s]) => s \notin Judged(st)
      BY <2>1 DEF Judged
    <3>3. \A s \in Session : Terminal(sessions[s]) =>
            AfterHeartbeat(st, s) = sessions[s] \/ AfterHeartbeat(st, s) = Reissue(sessions[s], TRUE)
      BY <3>2 DEF AfterHeartbeat
    <3> QED BY <2>2, <3>1, <3>3
  <2>5. ASSUME NEW k \in Socket, NEW s \in Session,
               \/ \E file \in File \cup {NoFile} : SessionReady(k, s, file)
               \/ SessionActivity(k, s) \/ SessionError(k, s)
               \/ \E b \in BOOLEAN : SessionExit(k, s, b)
        PROVE  EndsStick
    <3>1. ASSUME NEW kind, SessionFrame(k, s, sessions[s], kind)
          PROVE  sessions' = sessions
      BY <1>1, <3>1 DEF SessionFrame, HubTypeOK
    <3>2. ASSUME Terminal(sessions[s]) PROVE sessions' = sessions
      <4>1. /\ \A file \in File \cup {NoFile} : MarkReady(sessions[s], file) = sessions[s]
            /\ SetActivity(sessions[s]) = sessions[s]
            /\ MarkFailed(sessions[s]) = sessions[s]
            /\ \A b \in BOOLEAN : MarkExited(sessions[s], b) = sessions[s]
        BY <2>1, <3>2 DEF MarkReady, SetActivity, MarkFailed, MarkExited
      <4> QED BY <2>5, <3>1, <4>1 DEF SessionReady, SessionActivity, SessionError, SessionExit
    <3>3. \A x \in Session : x # s => sessions'[x] = sessions[x]
      BY <1>1, <2>5 DEF SessionReady, SessionActivity, SessionError, SessionExit, SessionFrame, HubTypeOK
    <3> QED BY <3>2, <3>3
  <2>6. ASSUME NEW s \in Session, NEW file \in File \cup {NoFile}, CreateSession(s, file)
        PROVE  EndsStick
    <3>1. \A x \in Session : \/ sessions'[x] = sessions[x]
                             \/ sessions'[x] = NewRecord
                             \/ sessions'[x] = Outside("deleted")
      BY <1>1, <2>6 DEF CreateSession, HubTypeOK
    <3>2. ~Terminal(NewRecord) /\ ~Terminal(Outside("deleted"))
      BY DEF NewRecord, Outside, Terminal, TerminalStatus
    <3> QED BY <3>1, <3>2
  <2>7. ASSUME NEW s \in Session, RestartSession(s) PROVE EndsStick
    <3>1. \A x \in Session : sessions'[x] = sessions[x] \/ sessions'[x] = Reissue(sessions[x], FALSE)
      BY <1>1, <2>7 DEF RestartSession, HubTypeOK
    <3> QED BY <2>2, <3>1
  <2>8. ASSUME NEW s \in Session, DeleteSession(s) PROVE EndsStick
    <3>1. \A x \in Session : sessions'[x] = sessions[x] \/ sessions'[x] = Outside("deleted")
      BY <1>1, <2>8 DEF DeleteSession, HubTypeOK
    <3>2. ~Terminal(Outside("deleted"))
      BY DEF Outside, Terminal, TerminalStatus
    <3> QED BY <3>1, <3>2
  <2>9. ASSUME NEW s \in Session, GraceExpires(s) PROVE EndsStick
    BY <1>1, <2>9 DEF GraceExpires, HubTypeOK, Record
  <2>10. CASE UNCHANGED sessions
    BY <2>10
  <2>11. ASSUME NEW k \in Socket, NEW ok \in BOOLEAN, NEW reqId \in 1..lastReqId,
                \/ Upgrade(k) \/ RestartResult(k, reqId, ok) \/ DaemonReads(k)
         PROVE  EndsStick
    BY <2>10, <2>11 DEF Upgrade, RestartResult, DaemonReads
  <2>12. CASE Connections
    BY <2>3, <2>10, <2>12 DEF Connections, Upgrade, Hello, HandleClose, Offline
  <2>13. CASE DaemonFrames
    BY <2>4, <2>5, <2>11, <2>13 DEF DaemonFrames
  <2>14. CASE Requests
    <3>1. (\E s \in Session : StopSession(s)) \/ RestartDaemon => UNCHANGED sessions
      BY DEF StopSession, RestartDaemon
    <3> QED BY <2>6, <2>7, <2>8, <2>10, <2>14, <3>1 DEF Requests
  <2>15. CASE Timers
    <3>1. CmdTimeout \/ ExpireRestart \/ ExpirePlan => UNCHANGED sessions
      BY DEF CmdTimeout, ExpireRestart, ExpirePlan
    <3> QED BY <2>9, <2>10, <2>15, <3>1 DEF Timers
  <2>16. (\E k \in Socket : DaemonReads(k)) \/ UNCHANGED hubVars => UNCHANGED sessions
    BY DEF DaemonReads, hubVars
  <2> QED BY <1>1, <2>10, <2>12, <2>13, <2>14, <2>15, <2>16 DEF HubNext
<1>2. HubTypeOK /\ [HubNext]_hubVars => [EndsStick]_hubVars
  BY <1>1
<1> QED BY <1>2, TypeCorrect, PTL DEF HubSpec, FirstEndSticks
-------------------------------------------------------------------------------
\* What a step can do to a record that has ended or is active: the steps that are not a
\* heartbeat, a session frame, a restart or the loss of the link bring nothing back and
\* end nothing.
LEMMA OtherSteps ==
  ASSUME HubTypeOK,
         \/ \E k \in Socket : Upgrade(k) \/ DaemonReads(k)
         \/ \E k \in Socket, reqId \in 1..lastReqId, ok \in BOOLEAN : RestartResult(k, reqId, ok)
         \/ \E s \in Session, file \in File \cup {NoFile} : CreateSession(s, file)
         \/ \E s \in Session : StopSession(s) \/ DeleteSession(s) \/ GraceExpires(s)
         \/ RestartDaemon \/ CmdTimeout \/ ExpireRestart \/ ExpirePlan
  PROVE  /\ \A s \in Session : Terminal(sessions[s]) => ~Active(sessions'[s])
         /\ \A s \in Session : Active(sessions[s]) => ~Terminal(sessions'[s])
         /\ derived' = {}
<1>1. \A s \in Session : ~(Active(sessions[s]) /\ Terminal(sessions[s]))
  BY DEF Active, Terminal, ActiveStatus, TerminalStatus
<1>2. /\ ~Terminal(NewRecord) /\ ~Active(Outside("deleted")) /\ ~Terminal(Outside("deleted"))
  BY DEF NewRecord, Outside, Active, Terminal, ActiveStatus, TerminalStatus
<1>3. CASE UNCHANGED sessions /\ derived' = {}
  BY <1>1, <1>3
<1>4. ASSUME NEW s \in Session, NEW file \in File \cup {NoFile}, CreateSession(s, file)
      PROVE  /\ \A x \in Session : Terminal(sessions[x]) => ~Active(sessions'[x])
             /\ \A x \in Session : Active(sessions[x]) => ~Terminal(sessions'[x])
             /\ derived' = {}
  <2>1. \A x \in Session : \/ sessions'[x] = sessions[x]
                           \/ x = s /\ sessions'[x] = NewRecord
                           \/ sessions'[x] = Outside("deleted")
    BY <1>4 DEF CreateSession, HubTypeOK
  <2>2. ~Terminal(sessions[s]) /\ derived' = {}
    BY <1>4 DEF CreateSession, Terminal, TerminalStatus
  <2> QED BY <1>1, <1>2, <2>1, <2>2
<1>5. ASSUME NEW s \in Session, DeleteSession(s)
      PROVE  /\ \A x \in Session : Terminal(sessions[x]) => ~Active(sessions'[x])
             /\ \A x \in Session : Active(sessions[x]) => ~Terminal(sessions'[x])
             /\ derived' = {}
  BY <1>1, <1>2, <1>5 DEF DeleteSession, HubTypeOK
<1>6. ASSUME NEW s \in Session, GraceExpires(s)
      PROVE  /\ \A x \in Session : Terminal(sessions[x]) => ~Active(sessions'[x])
             /\ \A x \in Session : Active(sessions[x]) => ~Terminal(sessions'[x])
             /\ derived' = {}
  <2>1. \A x \in Session : sessions'[x].status = sessions[x].status
    BY <1>6 DEF GraceExpires, HubTypeOK, Record
  <2> QED BY <1>1, <1>6, <2>1 DEF Active, Terminal, GraceExpires
<1> QED
  BY <1>3, <1>4, <1>5, <1>6
  DEF Upgrade, DaemonReads, RestartResult, StopSession, RestartDaemon, CmdTimeout, ExpireRestart, ExpirePlan

\* Likewise for a session frame: it brings nothing back, and what it ends it announces.
LEMMA FrameEnds ==
  ASSUME HubTypeOK, NEW k \in Socket, NEW s \in Session,
         \/ \E file \in File \cup {NoFile} : SessionReady(k, s, file)
         \/ SessionActivity(k, s) \/ SessionError(k, s)
         \/ \E b \in BOOLEAN : SessionExit(k, s, b)
  PROVE  /\ \A x \in Session : Terminal(sessions[x]) => ~Active(sessions'[x])
         /\ \A x \in Session : Active(sessions[x]) /\ Terminal(sessions'[x]) => x = s
         /\ IF Active(sessions[s]) /\ Terminal(sessions'[s])
            THEN \E kind \in {"session_exited", "session_failed"} : derived' = Events({s}, kind)
            ELSE derived' = {}
<1>1. \A x \in Session : ~(Active(sessions[x]) /\ Terminal(sessions[x]))
  BY DEF Active, Terminal, ActiveStatus, TerminalStatus
<1>2. PICK after, kind :
        /\ SessionFrame(k, s, after, kind)
        /\ Active(after) => Active(sessions[s])
        /\ Terminal(after) /\ Active(sessions[s]) => kind \in {"session_exited", "session_failed"}
  <2>1. /\ \A file \in File \cup {NoFile} :
             /\ Active(MarkReady(sessions[s], file)) => Active(sessions[s])
             /\ ~(Active(sessions[s]) /\ Terminal(MarkReady(sessions[s], file)))
        /\ Active(SetActivity(sessions[s])) => Active(sessions[s])
        /\ ~(Active(sessions[s]) /\ Terminal(SetActivity(sessions[s])))
        /\ ~Active(MarkFailed(sessions[s]))
        /\ \A b \in BOOLEAN : ~Active(MarkExited(sessions[s], b))
    <3>1. sessions[s] \in Record
      BY DEF HubTypeOK
    <3> HIDE DEF HubTypeOK
    <3>2. \A file \in File \cup {NoFile} : ~(Active(sessions[s]) /\ Terminal(MarkReady(sessions[s], file)))
      BY <3>1 DEF Record, Active, Terminal, MarkReady, ActiveStatus, TerminalStatus
    <3>3. ~(Active(sessions[s]) /\ Terminal(SetActivity(sessions[s])))
      BY <3>1 DEF Record, Active, Terminal, SetActivity, ActiveStatus, TerminalStatus
    <3> QED BY <3>1, <3>2, <3>3, MutatorEffects
  <2> QED BY <2>1 DEF SessionReady, SessionActivity, SessionError, SessionExit
<1>3. /\ \A x \in Session : x # s => sessions'[x] = sessions[x]
      /\ sessions'[s] = after
      /\ derived' = IF Active(sessions[s]) /\ Terminal(after) THEN Events({s}, kind) ELSE {}
  BY <1>2 DEF SessionFrame, HubTypeOK
<1> QED BY <1>1, <1>2, <1>3 DEF Active, Terminal, ActiveStatus, TerminalStatus

\* Losing the link brings nothing back; it ends sessions only for a planned restart.
LEMMA LinkLostEnds ==
  ASSUME HubTypeOK, LinkLost
  PROVE  /\ \A s \in Session : Terminal(sessions[s]) => ~Active(sessions'[s])
         /\ \A s \in Session : Active(sessions[s]) /\ Terminal(sessions'[s]) =>
              restartingSince /\ ~restartingSince' /\ sessions'[s].upgrade
         /\ \A e \in derived' : e.kind = "session_unreachable"
<1>1. \A s \in Session : sessions[s] \in Record
  BY DEF HubTypeOK
<1>2. ASSUME NEW s \in Session
      PROVE  /\ Terminal(sessions[s]) => /\ ~Active(ExitForUpgrade(sessions[s]))
                                         /\ ~Active(MarkUnreachable(sessions[s]))
             /\ Active(sessions[s]) => /\ ExitForUpgrade(sessions[s]).upgrade
                                       /\ ~Terminal(MarkUnreachable(sessions[s]))
  BY <1>1 DEF Record, Active, Terminal, ActiveStatus, TerminalStatus, ExitForUpgrade, MarkUnreachable
<1>3. \A e \in derived' : e.kind = "session_unreachable"
  BY DEF LinkLost, Events
<1>4. CASE restartingSince
  BY <1>2, <1>3, <1>4 DEF LinkLost
<1>5. CASE ~restartingSince
  BY <1>2, <1>3, <1>5 DEF LinkLost
<1> QED BY <1>4, <1>5

\* The starts of a plan: one for every id of it, behind what the socket already carries.
LEMMA HeartbeatStarts ==
  ASSUME HubTypeOK, NEW k \in Socket, NEW st \in [Session -> Reported], Heartbeat(k, st),
         NEW s \in Resumed(st)
  PROVE  \E i \in DOMAIN down'[k] :
           i > Len(down[k]) /\ down'[k][i] = StartFrame(s, sessions[s].sessionFile)
<1> DEFINE n == Cardinality(Resumed(st))
<1>1. Resumed(st) \in SUBSET Session
  BY DEF Resumed, HubTypeOK
<1>2. n \in Nat
  BY <1>1, HubAssumption, FS_Subset, FS_CardinalityType
<1>3. PICK order \in [1..n -> Resumed(st)] :
        /\ \A x \in Resumed(st) : \E i \in DOMAIN order : order[i] = x
        /\ down' = [down EXCEPT ![k] = @ \o
             [i \in DOMAIN order |-> StartFrame(order[i], sessions[order[i]].sessionFile)]]
  BY DEF Heartbeat, StartsFor
<1> DEFINE frames == [i \in 1..n |-> StartFrame(order[i], sessions[order[i]].sessionFile)]
<1>4. PICK i \in 1..n : order[i] = s
  BY <1>3
<1>5. down'[k] = down[k] \o frames
  BY <1>3 DEF HubTypeOK
<1>6. down[k] \in Seq(HubFrame)
  BY DEF HubTypeOK
<1>7. frames \in Seq({frames[j] : j \in 1..n}) /\ Len(frames) = n
  BY <1>2, SeqDef
<1>8. frames[i] = StartFrame(s, sessions[s].sessionFile)
  BY <1>4
<1> HIDE DEF frames, n
<1>9. Len(down[k]) + i \in DOMAIN down'[k] /\ down'[k][Len(down[k]) + i] = frames[i]
  BY <1>2, <1>4, <1>5, <1>6, <1>7
<1> QED BY <1>2, <1>4, <1>6, <1>8, <1>9

\* A record that has ended becomes active again only with a start for its own transcript
\* on the connection, whatever plans, heartbeats and requests race.
THEOREM RevivalIsDispatchedCorrect == HubSpec => RevivalIsDispatched
<1> DEFINE Dispatched == \A s \in Session :
             Terminal(sessions[s]) /\ Active(sessions'[s]) => StartsSent(s)
<1>1. ASSUME HubTypeOK, [HubNext]_hubVars PROVE Dispatched
  <2>1. CASE \A s \in Session : Terminal(sessions[s]) => ~Active(sessions'[s])
    BY <2>1
  <2>2. ASSUME NEW k \in Socket, NEW st \in [Session -> Reported], Heartbeat(k, st)
        PROVE  Dispatched
    <3>1. conn' = k /\ k # NoSocket
      BY <2>2, HubAssumption DEF Heartbeat
    <3>2. ASSUME NEW s \in Session, Terminal(sessions[s]), Active(sessions'[s])
          PROVE  s \in Resumed(st)
      <4>1. sessions'[s] = AfterHeartbeat(st, s)
        BY <2>2 DEF Heartbeat
      <4>2. s \notin Judged(st) /\ ~Active(sessions[s])
        BY <3>2 DEF Judged, Active, Terminal, ActiveStatus, TerminalStatus
      <4> QED BY <3>2, <4>1, <4>2 DEF AfterHeartbeat
    <3> QED BY <1>1, <2>2, <3>1, <3>2, HeartbeatStarts DEF StartsSent
  <2>3. ASSUME NEW s \in Session, RestartSession(s) PROVE Dispatched
    <3>1. \A x \in Session : x # s => sessions'[x] = sessions[x]
      BY <1>1, <2>3 DEF RestartSession, HubTypeOK
    <3>2. conn' = conn /\ conn \in Socket /\ conn # NoSocket
      BY <1>1, <2>3, HubAssumption DEF RestartSession, HubTypeOK
    <3>3. down'[conn] = Append(down[conn], StartFrame(s, sessions[s].sessionFile))
      BY <1>1, <2>3, <3>2 DEF RestartSession, HubTypeOK, Send
    <3>4. down[conn] \in Seq(HubFrame)
      BY <1>1, <3>2 DEF HubTypeOK
    <3>5. StartsSent(s)
      <4>1. /\ Len(down[conn]) + 1 \in DOMAIN down'[conn]
            /\ down'[conn][Len(down[conn]) + 1] = StartFrame(s, sessions[s].sessionFile)
            /\ Len(down[conn]) + 1 > Len(down[conn])
        BY <3>3, <3>4
      <4> QED BY <3>2, <4>1 DEF StartsSent
    <3>6. \A x \in Session : ~(Active(sessions[x]) /\ Terminal(sessions[x]))
      BY DEF Active, Terminal, ActiveStatus, TerminalStatus
    <3> QED BY <3>1, <3>5, <3>6
  <2>4. CASE Connections
    <3>1. UNCHANGED sessions => Dispatched
      BY DEF Active, Terminal, ActiveStatus, TerminalStatus
    <3>2. LinkLost => Dispatched
      BY <1>1, LinkLostEnds
    <3> QED BY <2>4, <3>1, <3>2 DEF Connections, Upgrade, Hello, HandleClose, Offline
  <2>5. CASE DaemonFrames
    BY <1>1, <2>1, <2>2, <2>5, FrameEnds, OtherSteps DEF DaemonFrames
  <2>6. CASE Requests
    BY <1>1, <2>1, <2>3, <2>6, OtherSteps DEF Requests
  <2>7. CASE Timers \/ \E k \in Socket : DaemonReads(k)
    BY <1>1, <2>1, <2>7, OtherSteps DEF Timers
  <2>8. CASE UNCHANGED hubVars
    BY <2>8 DEF hubVars, Active, Terminal, ActiveStatus, TerminalStatus
  <2> QED BY <1>1, <2>4, <2>5, <2>6, <2>7, <2>8 DEF HubNext
<1>2. HubTypeOK /\ [HubNext]_hubVars => [Dispatched]_hubVars
  BY <1>1
<1> QED BY <1>2, TypeCorrect, PTL DEF HubSpec, RevivalIsDispatched

\* What one step announces of a record agrees with what it does to it.
EndsMatch == \A s \in Session :
  LET ends == {e \in derived' : e.id = s /\ e.kind # "session_unreachable"}
  IN /\ ends # {} => Active(sessions[s]) /\ Terminal(sessions'[s]) /\ Cardinality(ends) = 1
     /\ Active(sessions[s]) /\ Terminal(sessions'[s]) /\ ends = {} =>
          restartingSince /\ ~restartingSince' /\ sessions'[s].upgrade

\* A heartbeat announces one end for each record it judges dead, and for no other.
LEMMA HeartbeatEnds ==
  ASSUME HubTypeOK, NEW k \in Socket, NEW st \in [Session -> Reported], Heartbeat(k, st)
  PROVE  EndsMatch
<1> SUFFICES ASSUME NEW s \in Session
             PROVE  LET ends == {e \in derived' : e.id = s /\ e.kind # "session_unreachable"}
                    IN /\ ends # {} => /\ Active(sessions[s]) /\ Terminal(sessions'[s])
                                       /\ Cardinality(ends) = 1
                       /\ ~(Active(sessions[s]) /\ Terminal(sessions'[s]) /\ ends = {})
  BY DEF EndsMatch
<1> DEFINE ends == {e \in derived' : e.id = s /\ e.kind # "session_unreachable"}
<1>1. sessions[s] \in Record /\ sessions'[s] = AfterHeartbeat(st, s)
  BY DEF Heartbeat, HubTypeOK
<1>2. derived' = Events({x \in Judged(st) : st[x] \in {"none", "exited"}}, "session_exited")
                   \cup Events({x \in Judged(st) : st[x] = "failed"}, "session_failed")
  BY DEF Heartbeat
<1>3. CASE s \in Judged(st) /\ st[s] \in {"none", "exited", "failed"}
  <2>1. PICK e : e = [id |-> s, kind |-> IF st[s] = "failed" THEN "session_failed"
                                                            ELSE "session_exited"]
    OBVIOUS
  <2>2. ends = {e}
    BY <1>2, <1>3, <2>1 DEF Events
  <2>3. Cardinality(ends) = 1
    BY <2>2, FS_Singleton
  <2>4. Active(sessions[s]) /\ s \notin Resumed(st)
    BY <1>3 DEF Judged
  <2>5. Terminal(sessions'[s])
    <3>1. sessions'[s] = Reconciled(sessions[s], st[s])
      BY <1>1, <1>3, <2>4 DEF AfterHeartbeat
    <3> QED BY <1>1, <1>3, <2>4, <3>1
        DEF Reconciled, MarkExited, MarkFailed, Record, Active, Terminal, ActiveStatus, TerminalStatus
  <2> QED BY <2>2, <2>3, <2>4, <2>5
<1>4. CASE ~(s \in Judged(st) /\ st[s] \in {"none", "exited", "failed"})
  <2>1. ends = {}
    BY <1>2, <1>4 DEF Events
  <2>2. ~(Active(sessions[s]) /\ Terminal(sessions'[s]))
    <3>1. CASE s \in Resumed(st)
      BY <1>1, <3>1 DEF AfterHeartbeat, Reissue, Record, Active, Terminal, ActiveStatus, TerminalStatus
    <3>2. CASE s \notin Resumed(st) /\ s \in Judged(st)
      BY <1>1, <1>4, <3>2
      DEF AfterHeartbeat, Reconciled, Record, Active, Terminal, ActiveStatus, TerminalStatus
    <3>3. CASE s \notin Resumed(st) /\ s \notin Judged(st)
      BY <1>1, <3>3 DEF AfterHeartbeat, Active, Terminal, ActiveStatus, TerminalStatus
    <3> QED BY <3>1, <3>2, <3>3
  <2> QED BY <2>1, <2>2
<1> QED BY <1>3, <1>4

\* Every way a session ends is announced once, and only then; the planned restart's exit
\* is the one that goes unannounced.
THEOREM EndIsAnnouncedOnceCorrect == HubSpec => EndIsAnnouncedOnce
<1>1. ASSUME HubTypeOK, [HubNext]_hubVars PROVE EndsMatch \/ UNCHANGED hubVars
  <2>1. (/\ \A s \in Session : Active(sessions[s]) => ~Terminal(sessions'[s])
         /\ derived' = {}) => EndsMatch
    BY DEF EndsMatch
  <2>2. \A s \in Session : ~(Active(sessions[s]) /\ Terminal(sessions[s]))
    BY DEF Active, Terminal, ActiveStatus, TerminalStatus
  <2>3. UNCHANGED sessions /\ derived' = {} => EndsMatch
    BY <2>1, <2>2
  <2>4. LinkLost => EndsMatch
    BY <1>1, LinkLostEnds DEF EndsMatch
  <2>5. CASE Connections
    BY <2>3, <2>4, <2>5 DEF Connections, Upgrade, Hello, HandleClose, Offline
  <2>6. ASSUME NEW k \in Socket, NEW s \in Session,
               \/ \E file \in File \cup {NoFile} : SessionReady(k, s, file)
               \/ SessionActivity(k, s) \/ SessionError(k, s)
               \/ \E b \in BOOLEAN : SessionExit(k, s, b)
        PROVE  EndsMatch
    <3>1. /\ \A x \in Session : Active(sessions[x]) /\ Terminal(sessions'[x]) => x = s
          /\ IF Active(sessions[s]) /\ Terminal(sessions'[s])
             THEN \E kind \in {"session_exited", "session_failed"} : derived' = Events({s}, kind)
             ELSE derived' = {}
      BY <1>1, <2>6, FrameEnds
    <3>2. CASE Active(sessions[s]) /\ Terminal(sessions'[s])
      <4>1. PICK kind \in {"session_exited", "session_failed"} : derived' = Events({s}, kind)
        BY <3>1, <3>2
      <4>2. derived' = {[id |-> s, kind |-> kind]}
        BY <4>1 DEF Events
      <4>3. Cardinality(derived') = 1
        BY <4>2, FS_Singleton
      <4>4. \A x \in Session : {e \in derived' : e.id = x /\ e.kind # "session_unreachable"}
                                 = IF x = s THEN derived' ELSE {}
        BY <4>1, <4>2
      <4> QED BY <3>1, <3>2, <4>2, <4>3, <4>4 DEF EndsMatch
    <3>3. CASE ~(Active(sessions[s]) /\ Terminal(sessions'[s]))
      BY <2>1, <3>1, <3>3
    <3> QED BY <3>2, <3>3
  <2>7. CASE DaemonFrames
    <3>1. ASSUME NEW k \in Socket, NEW reqId \in 1..lastReqId, NEW ok \in BOOLEAN,
                 RestartResult(k, reqId, ok)
          PROVE  EndsMatch
      BY <1>1, <2>1, <3>1, OtherSteps
    <3> QED BY <1>1, <2>6, <2>7, <3>1, HeartbeatEnds DEF DaemonFrames
  <2>8. ASSUME NEW s \in Session, RestartSession(s) PROVE EndsMatch
    <3>1. \A x \in Session : sessions'[x] = IF x = s THEN Reissue(sessions[s], FALSE) ELSE sessions[x]
      BY <1>1, <2>8 DEF RestartSession, HubTypeOK
    <3>2. ~Active(sessions[s]) /\ derived' = {}
      BY <2>8 DEF RestartSession, Active, Terminal, ActiveStatus, TerminalStatus
    <3> QED BY <2>1, <2>2, <3>1, <3>2
  <2>9. CASE Requests
    BY <1>1, <2>1, <2>8, <2>9, OtherSteps DEF Requests
  <2>10. CASE Timers \/ \E k \in Socket : DaemonReads(k)
    BY <1>1, <2>1, <2>10, OtherSteps DEF Timers
  <2>11. CASE UNCHANGED hubVars
    BY <2>11
  <2> QED BY <1>1, <2>5, <2>7, <2>9, <2>10, <2>11 DEF HubNext
<1>2. HubTypeOK /\ [HubNext]_hubVars => [EndsMatch]_hubVars
  BY <1>1
<1> QED BY <1>2, TypeCorrect, PTL DEF HubSpec, EndIsAnnouncedOnce, EndsMatch
-------------------------------------------------------------------------------
(***************************************************************************)
(* The whole machine                                                       *)
(***************************************************************************)

\* Frames that may be on their way, given the sessions there have been, what is on the disk
\* and how many restarts were asked for.
Minted == {s \in Session : sessions[s].status # "unused"}
Known == OnDisk \cup {NoFile}
UpFrame ==
  [t : {"hello"}]
    \cup [t : {"hb"}, sessions : [Session -> Reported]]
    \cup [t : {"ready"}, id : Minted, file : OnDisk]
    \cup [t : {"error"}, id : Minted]
    \cup [t : {"exit"}, id : Minted, upgrade : BOOLEAN]
    \cup [t : {"result"}, reqId : 1..lastReqId, ok : BOOLEAN]
DownFrame ==
  [t : {"start"}, id : Minted, file : Known]
    \cup [t : {"stop"}, id : Session]
    \cup [t : {"restart-daemon"}, reqId : 1..lastReqId]

ClientsValid ==
  /\ socket \in [Daemon -> Socket \cup {NoSocket}]
  /\ closed \in [Daemon -> BOOLEAN]
  /\ pending \in [Daemon -> Seq(UpFrame)]
  /\ unacked = [d \in Daemon |-> <<>>]
  /\ up \in [Socket -> Seq(UpFrame)]
HubFramesValid == down \in [Socket -> Seq(DownFrame)]

\* A child that exists is for a session and of a daemon; what is in a table runs.
KidsValid ==
  \A c \in Child :
    /\ child[c].mapped => Running(c)
    /\ child[c].st \notin {"unused", "gone"} => child[c].id \in Session /\ child[c].host \in Daemon
    /\ child[c].resume \in Known

\* Nobody has heard of a session that was not minted.
KidsMinted == \A c \in Child : child[c].st \notin {"unused", "gone"} => child[c].id \in Minted
IdsValid ==
  /\ preexistingIds \subseteq Minted /\ resumeIds \subseteq Minted
  /\ resumePlan # NoPlan => resumePlan \subseteq Minted

RecordsValid == \A s \in Session : sessions[s].sessionFile \in Known
PhasesValid == \A d \in Daemon : phase[d] \in {"stopping", "handing"} => lastReqId > 0

SysValid ==
  /\ HubTypeOK /\ SupTypeOK /\ ClientsValid /\ HubFramesValid
  /\ KidsValid /\ KidsMinted /\ IdsValid /\ RecordsValid /\ PhasesValid

\* Sessions and transcripts do not go away, and requests are not taken back.
Grows ==
  /\ Minted \subseteq Minted' /\ OnDisk \subseteq OnDisk'
  /\ lastReqId \in Nat /\ lastReqId' \in Nat /\ lastReqId <= lastReqId'

\* What was valid stays so.
LEMMA Widens ==
  ASSUME Grows
  PROVE  /\ Known \subseteq Known' /\ UpFrame \subseteq UpFrame' /\ DownFrame \subseteq DownFrame'
         /\ Seq(UpFrame) \subseteq Seq(UpFrame') /\ Seq(DownFrame) \subseteq Seq(DownFrame')
<1>1. Known \subseteq Known' /\ OnDisk \subseteq OnDisk' /\ Minted \subseteq Minted'
  BY DEF Known, Grows
<1>2. 1..lastReqId \subseteq 1..lastReqId'
  BY DEF Grows
<1>3. UpFrame \subseteq UpFrame'
  BY <1>1, <1>2 DEF UpFrame
<1>4. DownFrame \subseteq DownFrame'
  BY <1>1, <1>2 DEF DownFrame
<1>5. \A S, T : S \subseteq T => Seq(S) \subseteq Seq(T)
  OBVIOUS
<1> QED BY <1>1, <1>3, <1>4, <1>5

\* What a machine writes.
LEMMA FramesMade ==
  /\ HelloFrame \in UpFrame
  /\ \A st \in [Session -> Reported] : [t |-> "hb", sessions |-> st] \in UpFrame
  /\ \A s \in Session : StopFrame(s) \in DownFrame
  /\ \A s \in Minted : /\ ErrorFrame(s) \in UpFrame
                       /\ \A file \in OnDisk : [t |-> "ready", id |-> s, file |-> file] \in UpFrame
                       /\ \A b \in BOOLEAN : [t |-> "exit", id |-> s, upgrade |-> b] \in UpFrame
                       /\ \A file \in Known : StartFrame(s, file) \in DownFrame
  /\ \A reqId \in 1..lastReqId : /\ RestartFrame(reqId) \in DownFrame
                                 /\ \A b \in BOOLEAN : ResultFrame(reqId, b) \in UpFrame
BY DEF UpFrame, DownFrame, HelloFrame, ErrorFrame, StopFrame, StartFrame, RestartFrame, ResultFrame

\* Likewise after a step.
LEMMA FramesMadeNext ==
  /\ HelloFrame \in UpFrame'
  /\ \A st \in [Session -> Reported] : [t |-> "hb", sessions |-> st] \in UpFrame'
  /\ \A s \in Session : StopFrame(s) \in DownFrame'
  /\ \A s \in Minted' : /\ ErrorFrame(s) \in UpFrame'
                        /\ \A file \in OnDisk' : [t |-> "ready", id |-> s, file |-> file] \in UpFrame'
                        /\ \A b \in BOOLEAN : [t |-> "exit", id |-> s, upgrade |-> b] \in UpFrame'
                        /\ \A file \in Known' : StartFrame(s, file) \in DownFrame'
  /\ \A reqId \in 1..lastReqId' : /\ RestartFrame(reqId) \in DownFrame'
                                  /\ \A b \in BOOLEAN : ResultFrame(reqId, b) \in UpFrame'
BY DEF UpFrame, DownFrame, HelloFrame, ErrorFrame, StopFrame, StartFrame, RestartFrame, ResultFrame

\* What each kind of frame carries.
LEMMA FramesRead ==
  /\ \A f \in UpFrame :
       /\ f.t \in {"hello", "hb", "ready", "error", "exit", "result"}
       /\ f.t = "hb" => f.sessions \in [Session -> Reported]
       /\ f.t = "ready" => f.id \in Minted /\ f.file \in OnDisk
       /\ f.t = "error" => f.id \in Minted
       /\ f.t = "exit" => f.id \in Minted /\ f.upgrade \in BOOLEAN
       /\ f.t = "result" => f.reqId \in 1..lastReqId /\ f.ok \in BOOLEAN
  /\ \A f \in DownFrame :
       /\ f.t \in {"start", "stop", "restart-daemon"}
       /\ f.t = "start" => f.id \in Minted /\ f.file \in Known
       /\ f.t = "stop" => f.id \in Session
       /\ f.t = "restart-daemon" => f.reqId \in 1..lastReqId
BY DEF UpFrame, DownFrame

\* A step of the machine that only lets what is on its way grow.
LEMMA ClientsKeep ==
  ASSUME ClientsValid, Grows, UNCHANGED <<socket, closed, pending, unacked, up>>
  PROVE  ClientsValid'
BY Widens DEF ClientsValid

\* A client sends a frame.
LEMMA SendKeeps ==
  ASSUME ClientsValid, Grows, NEW d \in Daemon, NEW frame \in UpFrame', frame.t # "event",
         ClientSend(d, frame)
  PROVE  ClientsValid'
<1>1. /\ pending \in [Daemon -> Seq(UpFrame')] /\ up \in [Socket -> Seq(UpFrame')]
      /\ UNCHANGED <<socket, closed, unacked>>
  BY Widens DEF ClientsValid, ClientSend
<1>2. Queued(pending[d], frame) \in Seq(UpFrame')
  <2>1. pending[d] \in Seq(UpFrame')
    BY <1>1
  <2>2. Len(pending[d]) < MaxQueued \/ pending[d] # <<>>
    BY AgentAssumption, <2>1
  <2>3. pending[d] # <<>> => Tail(pending[d]) \in Seq(UpFrame')
    BY <2>1
  <2> QED BY <2>1, <2>2, <2>3 DEF Queued
<1>3. pending' \in [Daemon -> Seq(UpFrame')]
  BY <1>1, <1>2 DEF ClientSend
<1>4. up' \in [Socket -> Seq(UpFrame')]
  <2>1. CASE up' = up
    BY <1>1, <2>1
  <2>2. CASE up' # up
    <3>1. Connected(d) /\ up' = [up EXCEPT ![socket[d]] = @ \o <<frame>>]
      BY <2>2 DEF ClientSend, Write
    <3>2. socket[d] \in Socket
      BY <3>1 DEF ClientsValid, Connected
    <3>3. up[socket[d]] \o <<frame>> \in Seq(UpFrame')
      BY <1>1, <3>2
    <3> QED BY <1>1, <3>1, <3>2, <3>3
  <2> QED BY <2>1, <2>2
<1> QED BY <1>1, <1>3, <1>4 DEF ClientsValid

-------------------------------------------------------------------------------
\* The record a child leaves behind, and a stopped record, are child records.
LEMMA KidRecords ==
  ASSUME SupTypeOK, NEW c \in Child
  PROVE  /\ NoChild \in ChildRecord
         /\ Ended(c) \in ChildRecord
         /\ child[c] \in ChildRecord
         /\ \A reason \in {"user", "upgrade"} : Stopped(child[c], reason) \in ChildRecord
         /\ \A b \in BOOLEAN : [child[c] EXCEPT !.mapped = b] \in ChildRecord
<1> USE DEF SupTypeOK, ChildRecord
<1>1. NoChild \in ChildRecord
  BY AgentAssumption DEF NoChild
<1>2. child[c] \in ChildRecord
  OBVIOUS
<1>3. Ended(c) \in ChildRecord
  BY <1>1, <1>2 DEF Ended, NoChild
<1>4. \A reason \in {"user", "upgrade"} : Stopped(child[c], reason) \in ChildRecord
  BY <1>2 DEF Stopped
<1>5. \A b \in BOOLEAN : [child[c] EXCEPT !.mapped = b] \in ChildRecord
  BY <1>2
<1> QED BY <1>1, <1>2, <1>3, <1>4, <1>5

\* What a step of the machine does to one child: it stays as it was but for marks, starts,
\* comes up, says it is ready, fails or ends; and no step takes a transcript away.
KidStep(c) ==
  LET old == child[c]
      new == child'[c]
  IN /\ new \in ChildRecord
     /\ \/ new.st = old.st /\ new.id = old.id /\ new.host = old.host /\ new.resume = old.resume
           /\ (new.mapped => old.mapped)
        \/ old.st = "unused" /\ new.st = "spawning" /\ new.id \in Session /\ new.host \in Daemon
           /\ new.resume \in Known /\ ~new.mapped
        \/ old.st = "spawning" /\ new.st = "starting" /\ new.id = old.id /\ new.host = old.host
           /\ new.resume = old.resume /\ new.mapped
        \/ old.st = "starting" /\ new.st \in {"live", "failed"} /\ new.id = old.id
           /\ new.host = old.host /\ new.resume = old.resume /\ (new.mapped => old.mapped)
        \/ old.st \notin {"unused"} /\ new.st = "gone" /\ new.resume = old.resume /\ ~new.mapped

\* Every step of the supervisor is made of such.
LEMMA KidSteps ==
  ASSUME SupTypeOK, SupNext, NEW c \in Child
  PROVE  KidStep(c)
<1> USE DEF SupTypeOK, ChildRecord, KidStep
<1>0. \A d \in Daemon : d \in 0..MaxDaemons
  BY AgentAssumption DEF Daemon
<1>1. ASSUME NEW d \in Daemon, NEW s \in Session, NEW file \in OnDisk \cup {NoFile},
             NEW x \in Child, StartAccepted(d, s, file, x)
      PROVE KidStep(c)
  <2>1. file \in File \cup {NoFile} /\ file \in Known
    BY AgentAssumption DEF OnDisk, Known
  <2>2. CASE x = c
    <3>1. child'[c] = [NoChild EXCEPT !.st = "spawning", !.host = d, !.id = s, !.resume = file]
      BY <1>1, <2>2 DEF StartAccepted
    <3> QED BY <1>0, <1>1, <2>1, <2>2, <3>1 DEF NoChild, StartAccepted
  <2>3. CASE x # c
    BY <1>1, <2>3 DEF StartAccepted
  <2> QED BY <2>2, <2>3
<1>2. ASSUME UNCHANGED child PROVE KidStep(c)
  BY <1>2
<1>t. child[c] \in ChildRecord
  OBVIOUS
<1>3. ASSUME NEW reason \in {"user", "upgrade"}, NEW b \in BOOLEAN,
             child'[c] = [Stopped(child[c], reason) EXCEPT !.awaited = b]
      PROVE  KidStep(c)
  <2>1. PICK r : r = Stopped(child[c], reason)
    OBVIOUS
  <2>2. /\ r \in ChildRecord /\ r.st = child[c].st /\ r.id = child[c].id /\ r.host = child[c].host
        /\ r.resume = child[c].resume /\ r.mapped = child[c].mapped
    BY <1>t, <2>1 DEF Stopped
  <2> QED BY <1>3, <2>1, <2>2
<1>4. ASSUME NEW d \in Daemon, NEW s \in Session, Stop(d, s) PROVE KidStep(c)
  <2>1. child'[c] = Stopped(child[c], "user") \/ child'[c] = child[c]
    BY <1>4 DEF Stop
  <2>2. CASE child'[c] = child[c]
    BY <1>t, <2>2
  <2>3. CASE child'[c] = Stopped(child[c], "user")
    <3>1. PICK r : r = Stopped(child[c], "user")
      OBVIOUS
    <3>2. r \in ChildRecord
      BY <1>t, <3>1 DEF Stopped
    <3>3. r = [r EXCEPT !.awaited = r.awaited] /\ r.awaited \in BOOLEAN
      BY <3>2
    <3> QED BY <1>3, <2>3, <3>1, <3>3
  <2> QED BY <2>1, <2>2, <2>3
<1>5. ASSUME NEW d \in Daemon, RestartAccepted(d) PROVE KidStep(c)
  <2>1. child'[c] = [Stopped(child[c], "upgrade") EXCEPT !.awaited = TRUE] \/ child'[c] = child[c]
    BY <1>5 DEF RestartAccepted
  <2> QED BY <1>t, <1>3, <2>1
<1>e. ASSUME child[c].st # "unused", child'[c] = Ended(c) PROVE KidStep(c)
  <2>1. Ended(c) \in ChildRecord
    BY KidRecords
  <2>2. Ended(c).st = "gone" /\ Ended(c).resume = child[c].resume /\ ~Ended(c).mapped
    BY DEF Ended, NoChild
  <2> QED BY <1>e, <2>1, <2>2
<1>m. ASSUME child'[c] = [child[c] EXCEPT !.mapped = FALSE] \/ child'[c] = child[c] PROVE KidStep(c)
  BY <1>t, <1>m
<1>6. ASSUME NEW x \in Child, SpawnDone(x) PROVE KidStep(c)
  <2>1. CASE x = c
    <3>1. child'[c] = [child[c] EXCEPT !.st = "starting", !.mapped = TRUE] /\ child[c].st = "spawning"
      BY <1>6, <2>1 DEF SpawnDone
    <3> QED BY <1>t, <3>1
  <2>2. CASE x # c
    BY <1>6, <1>m, <2>2 DEF SpawnDone
  <2> QED BY <2>1, <2>2
<1>7. ASSUME NEW x \in Child, SpawnFails(x) PROVE KidStep(c)
  BY <1>7, <1>e, <1>m DEF SpawnFails
<1>8. ASSUME NEW x \in Child, ChildReady(x) PROVE KidStep(c)
  BY <1>8 DEF ChildReady
<1>9. ASSUME NEW x \in Child, ChildFails(x) PROVE KidStep(c)
  BY <1>9 DEF ChildFails
<1>10. ASSUME NEW x \in Child, ChildExits(x) PROVE KidStep(c)
  <2>1. CASE x = c
    BY <1>10, <1>e, <2>1 DEF ChildExits, Running
  <2>2. CASE x # c
    BY <1>10, <1>m, <2>2 DEF ChildExits
  <2> QED BY <2>1, <2>2
<1>13. ASSUME NEW d \in Daemon, DaemonEnds(d) PROVE KidStep(c)
  <2>1. \/ child'[c] = Ended(c) /\ child[c].st = "spawning"
        \/ child'[c] = [child[c] EXCEPT !.mapped = FALSE]
        \/ child'[c] = child[c]
    BY <1>13 DEF DaemonEnds
  <2> QED BY <1>e, <1>m, <2>1
<1> QED BY <1>1, <1>2, <1>4, <1>5, <1>6, <1>7, <1>8, <1>9, <1>10, <1>13
        DEF SupNext, Frames, Children, Daemons, StartRefused, RestartRefused, HandOff, HandOffFails,
            DaemonExits, Crash, Boot

\* What that means for the invariants.
LEMMA KidsKeep ==
  ASSUME SupTypeOK, KidsValid, SupNext \/ UNCHANGED supVars
  PROVE  OnDisk \subseteq OnDisk' /\ KidsValid' /\ SupTypeOK'
<1>1. CASE UNCHANGED supVars
  <2>1. OnDisk' = OnDisk /\ Known' = Known
    BY <1>1 DEF supVars, OnDisk, Known
  <2> QED BY <1>1, <2>1 DEF supVars, KidsValid, SupTypeOK, Running
<1>2. CASE SupNext
  <2>1. \A c \in Child : KidStep(c)
    BY <1>2, KidSteps
  <2>2. OnDisk \subseteq OnDisk'
    BY <2>1 DEF OnDisk, KidStep
  <2>3. KidsValid'
    <3>1. Known \subseteq Known'
      BY <2>2 DEF Known
    <3> QED BY <2>1, <3>1 DEF KidsValid, KidStep, Running
  <2>4. child' \in [Child -> ChildRecord]
    <3>1. child' = [c \in Child |-> child'[c]]
      BY <1>2 DEF SupTypeOK, SupNext, Frames, Children, Daemons, StartAccepted, StartRefused, Stop, RestartAccepted,
            RestartRefused, SpawnDone, SpawnFails, ChildReady, ChildFails, ChildExits, HandOff, HandOffFails,
            DaemonExits, Crash, Boot, DaemonEnds
    <3> QED BY <2>1, <3>1 DEF KidStep
  <2>5. phase' \in [Daemon -> {"unborn", "up", "stopping", "handing", "dead"}]
    BY <1>2 DEF SupTypeOK, SupNext, Frames, Children, Daemons, StartAccepted, StartRefused, Stop, RestartAccepted,
            RestartRefused, SpawnDone, SpawnFails, ChildReady, ChildFails, ChildExits, HandOff, HandOffFails,
            DaemonExits, Crash, Boot, DaemonEnds
  <2> QED BY <2>2, <2>3, <2>4, <2>5 DEF SupTypeOK
<1> QED BY <1>1, <1>2

-------------------------------------------------------------------------------
\* The hub's steps as HubAgent takes them.
HubDoes ==
  \/ \E k \in Socket : Upgrade(k) \/ Hello(k) \/ HandleClose(k) \/ DaemonReads(k)
  \/ \E k \in Socket, st \in [Session -> Reported] : Room /\ Heartbeat(k, st)
  \/ \E k \in Socket, s \in Session :
       \/ \E file \in OnDisk : SessionReady(k, s, file)
       \/ SessionError(k, s)
       \/ \E b \in BOOLEAN : SessionExit(k, s, b)
  \/ \E k \in Socket, reqId \in 1..lastReqId, ok \in BOOLEAN : RestartResult(k, reqId, ok)
  \/ Room /\ \E s \in Session : CreateSession(s, NoFile) \/ StopSession(s) \/ RestartSession(s) \/ DeleteSession(s)
  \/ Room /\ RestartDaemon
  \/ Offline \/ Timers

\* No mutator but markReady attaches a transcript.
LEMMA MutatorFiles ==
  ASSUME NEW r \in Record
  PROVE  /\ MarkFailed(r).sessionFile = r.sessionFile
         /\ \A b \in BOOLEAN : MarkExited(r, b).sessionFile = r.sessionFile
         /\ \A b \in BOOLEAN : Reissue(r, b).sessionFile = r.sessionFile
         /\ MarkUnreachable(r).sessionFile = r.sessionFile
         /\ ExitForUpgrade(r).sessionFile = r.sessionFile
         /\ \A reported \in Reported : Reconciled(r, reported).sessionFile = r.sessionFile
         /\ [r EXCEPT !.grace = FALSE].sessionFile = r.sessionFile
BY DEF Record, MarkFailed, MarkExited, Reissue, MarkUnreachable, ExitForUpgrade, Reconciled

\* No mutator makes an id one that was never minted.
LEMMA MutatorsMint ==
  ASSUME NEW r \in Record, r.status # "unused"
  PROVE  /\ \A file \in File : MarkReady(r, file).status # "unused"
         /\ MarkFailed(r).status # "unused"
         /\ \A b \in BOOLEAN : MarkExited(r, b).status # "unused"
         /\ \A b \in BOOLEAN : Reissue(r, b).status # "unused"
         /\ MarkUnreachable(r).status # "unused"
         /\ ExitForUpgrade(r).status # "unused"
         /\ \A reported \in Reported : Reconciled(r, reported).status # "unused"
         /\ [r EXCEPT !.grace = FALSE].status # "unused"
BY DEF Record, MarkReady, MarkFailed, MarkExited, Reissue, MarkUnreachable, ExitForUpgrade, Reconciled

\* A step of the hub leaves a record its transcript, or takes it with the record; the
\* transcripts its records gain are those a child was ready with.  A session that was minted
\* stays so.
LEMMA HubRecords ==
  ASSUME SysValid, OnDisk \subseteq OnDisk', HubDoes, NEW s \in Session
  PROVE  /\ sessions'[s].sessionFile \in {sessions[s].sessionFile, NoFile} \cup OnDisk
         /\ sessions[s].status # "unused" => sessions'[s].status # "unused"
<1>t. /\ sessions \in [Session -> Record] /\ sessions[s] \in Record
      /\ \A x \in Session : sessions[x] \in Record
  BY DEF SysValid, HubTypeOK
<1> DEFINE Goal == /\ sessions'[s].sessionFile \in {sessions[s].sessionFile, NoFile} \cup OnDisk
                   /\ sessions[s].status # "unused" => sessions'[s].status # "unused"
<1>1. ASSUME UNCHANGED sessions PROVE Goal
  BY <1>1
<1>2. ASSUME LinkLost PROVE Goal
  <2>1. sessions'[s] = ExitForUpgrade(sessions[s]) \/ sessions'[s] = MarkUnreachable(sessions[s])
    BY <1>2 DEF LinkLost
  <2> QED BY <1>t, <2>1, MutatorFiles, MutatorsMint
<1>3. ASSUME Offline \/ \E k \in Socket : Upgrade(k) \/ Hello(k) \/ HandleClose(k) \/ DaemonReads(k) PROVE Goal
  BY <1>1, <1>2, <1>3 DEF Upgrade, Hello, HandleClose, DaemonReads, Offline
<1>4. ASSUME NEW k \in Socket, NEW st \in [Session -> Reported], Heartbeat(k, st) PROVE Goal
  <2>1. sessions'[s] = AfterHeartbeat(st, s)
    BY <1>4 DEF Heartbeat
  <2>2. Reissue(sessions[s], TRUE).sessionFile = sessions[s].sessionFile
    BY <1>t, MutatorFiles
  <2>3. Reconciled(sessions[s], st[s]).sessionFile = sessions[s].sessionFile
    BY <1>t, MutatorFiles
  <2>4. sessions[s].status # "unused" =>
          Reissue(sessions[s], TRUE).status # "unused" /\ Reconciled(sessions[s], st[s]).status # "unused"
    BY <1>t, MutatorsMint
  <2> QED BY <2>1, <2>2, <2>3, <2>4 DEF AfterHeartbeat
<1>5. ASSUME NEW k \in Socket, NEW x \in Session,
             \/ \E file \in OnDisk : SessionReady(k, x, file)
             \/ SessionError(k, x)
             \/ \E b \in BOOLEAN : SessionExit(k, x, b)
      PROVE  Goal
  <2>1. PICK after \in {MarkReady(sessions[x], f) : f \in OnDisk} \cup {MarkFailed(sessions[x])}
                         \cup {MarkExited(sessions[x], b) : b \in BOOLEAN} :
          sessions' = [sessions EXCEPT ![x] = after]
    BY <1>5 DEF SessionReady, SessionError, SessionExit, SessionFrame
  <2>2. \A file \in OnDisk : MarkReady(sessions[x], file).sessionFile \in {sessions[x].sessionFile, file}
    BY <1>t DEF MarkReady, Record
  <2>3. after.sessionFile \in {sessions[x].sessionFile, NoFile} \cup OnDisk
    BY <1>t, <2>2, MutatorFiles
  <2>4. sessions[x].status # "unused" => after.status # "unused"
    BY <1>t, MutatorsMint DEF OnDisk
  <2> QED BY <1>t, <2>1, <2>3, <2>4
<1>6. ASSUME NEW x \in Session, CreateSession(x, NoFile) PROVE Goal
  <2>1. sessions'[s] \in {Outside("deleted"), NewRecord, sessions[s]}
    BY <1>t, <1>6 DEF CreateSession
  <2> QED BY <2>1 DEF Outside, NewRecord
<1>7. ASSUME NEW x \in Session, RestartSession(x) \/ DeleteSession(x) PROVE Goal
  <2>1. sessions'[s] \in {Outside("deleted"), Reissue(sessions[s], FALSE), sessions[s]}
    BY <1>t, <1>7 DEF RestartSession, DeleteSession
  <2>2. Reissue(sessions[s], FALSE).sessionFile = sessions[s].sessionFile
    BY <1>t, MutatorFiles
  <2>3. Outside("deleted").sessionFile = NoFile /\ Outside("deleted").status # "unused"
    BY DEF Outside
  <2>4. sessions[s].status # "unused" => Reissue(sessions[s], FALSE).status # "unused"
    BY <1>t, MutatorsMint
  <2> QED BY <2>1, <2>2, <2>3, <2>4
<1>8. ASSUME Timers PROVE Goal
  <2>1. sessions'[s] = sessions[s] \/ sessions'[s] = [sessions[s] EXCEPT !.grace = FALSE]
    BY <1>t, <1>8 DEF Timers, CmdTimeout, ExpireRestart, ExpirePlan, GraceExpires
  <2> QED BY <1>t, <2>1, MutatorFiles, MutatorsMint
<1>9. ASSUME NEW k \in Socket, NEW reqId \in 1..lastReqId, NEW ok \in BOOLEAN, RestartResult(k, reqId, ok) PROVE Goal
  BY <1>1, <1>9 DEF RestartResult
<1>10. ASSUME RestartDaemon \/ \E x \in Session : StopSession(x) PROVE Goal
  BY <1>1, <1>10 DEF StopSession, RestartDaemon
<1> QED BY <1>3, <1>4, <1>5, <1>6, <1>7, <1>8, <1>9, <1>10 DEF HubDoes

\* Writing valid frames.
LEMMA DownKeeps ==
  ASSUME HubFramesValid, Grows, NEW k \in Socket, NEW frames \in Seq(DownFrame'),
         down' = [down EXCEPT ![k] = @ \o frames]
  PROVE  HubFramesValid'
<1>1. down \in [Socket -> Seq(DownFrame')]
  BY Widens DEF HubFramesValid
<1>2. down[k] \o frames \in Seq(DownFrame')
  BY <1>1
<1> QED BY <1>1, <1>2 DEF HubFramesValid

\* Writing one on the current connection.
LEMMA DownOneKeeps ==
  ASSUME HubFramesValid, Grows, conn \in Socket, NEW frame \in DownFrame', Send(frame)
  PROVE  HubFramesValid'
<1>1. down' = [down EXCEPT ![conn] = @ \o <<frame>>]
  <2>1. \A k \in Socket : Append(down[k], frame) = down[k] \o <<frame>>
    BY DEF HubFramesValid
  <2>2. down' = [down EXCEPT ![conn] = Append(down[conn], frame)]
    BY DEF Send
  <2> QED BY <2>1, <2>2
<1>2. <<frame>> \in Seq(DownFrame')
  OBVIOUS
<1> QED BY <1>1, <1>2, DownKeeps

\* A step of the hub that writes nothing.
LEMMA DownSame ==
  ASSUME HubFramesValid, Grows, UNCHANGED down
  PROVE  HubFramesValid'
BY Widens DEF HubFramesValid

\* What it writes is valid.
LEMMA HubFrames ==
  ASSUME SysValid, Grows, HubDoes
  PROVE  HubFramesValid'
<1>t. /\ HubFramesValid /\ RecordsValid /\ HubTypeOK /\ Known \subseteq Known'
      /\ \A x \in Session : sessions[x].sessionFile \in Known'
  BY Widens DEF SysValid, RecordsValid
<1>c. conn # NoSocket => conn \in Socket
  BY <1>t DEF HubTypeOK
<1>m. Minted \subseteq Minted' /\ \A x \in Session : Terminal(sessions[x]) => x \in Minted
  BY DEF Grows, Minted, Terminal, TerminalStatus
<1>f. /\ \A x \in Session : StopFrame(x) \in DownFrame'
      /\ \A x \in Minted' : /\ StartFrame(x, sessions[x].sessionFile) \in DownFrame'
                            /\ StartFrame(x, NoFile) \in DownFrame'
      /\ \A reqId \in 1..lastReqId' : RestartFrame(reqId) \in DownFrame'
  BY <1>t, FramesMadeNext DEF Known, Minted
<1>1. ASSUME UNCHANGED down PROVE HubFramesValid'
  BY <1>1, <1>t, DownSame
<1>2. ASSUME NEW k \in Socket, DaemonReads(k) PROVE HubFramesValid'
  <2>1. down \in [Socket -> Seq(DownFrame')] /\ down[k] # <<>> /\ down' = [down EXCEPT ![k] = Tail(@)]
    BY <1>2, <1>t, Widens DEF DaemonReads, HubFramesValid
  <2>2. Tail(down[k]) \in Seq(DownFrame')
    BY <2>1
  <2> QED BY <2>1, <2>2 DEF HubFramesValid
<1>3. ASSUME Offline \/ \E k \in Socket : Upgrade(k) \/ Hello(k) \/ HandleClose(k) PROVE HubFramesValid'
  BY <1>1, <1>3 DEF Upgrade, Hello, HandleClose, Offline
<1>4. ASSUME NEW k \in Socket, NEW st \in [Session -> Reported], Heartbeat(k, st) PROVE HubFramesValid'
  <2>1. Resumed(st) \in SUBSET Session /\ Resumed(st) \subseteq Minted'
    BY <1>t, <1>m DEF Resumed, HubTypeOK, SysValid, IdsValid
  <2>2. Cardinality(Resumed(st)) \in Nat
    <3>1. IsFiniteSet(Session)
      BY HubAssumption
    <3>2. IsFiniteSet(Resumed(st))
      BY <2>1, <3>1, FS_Subset
    <3> QED BY <3>2, FS_CardinalityType
  <2>3. PICK order \in [1..Cardinality(Resumed(st)) -> Resumed(st)] :
          down' = [down EXCEPT ![k] = @ \o
            [i \in DOMAIN order |-> StartFrame(order[i], sessions[order[i]].sessionFile)]]
    BY <1>4 DEF Heartbeat, StartsFor
  <2> DEFINE frames == [i \in DOMAIN order |-> StartFrame(order[i], sessions[order[i]].sessionFile)]
  <2>4. frames \in [1..Cardinality(Resumed(st)) -> DownFrame']
    BY <1>f, <2>1
  <2>5. down' = [down EXCEPT ![k] = @ \o frames]
    BY <2>3
  <2> HIDE DEF frames
  <2>6. PICK n \in Nat : frames \in [1..n -> DownFrame']
    BY <2>2, <2>4
  <2>7. frames \in Seq(DownFrame')
    BY <2>6, SeqDef
  <2> QED BY <1>t, <2>5, <2>7, DownKeeps
<1>5. ASSUME NEW k \in Socket, NEW x \in Session,
             \/ \E file \in OnDisk : SessionReady(k, x, file)
             \/ SessionError(k, x)
             \/ \E b \in BOOLEAN : SessionExit(k, x, b)
      PROVE  HubFramesValid'
  BY <1>1, <1>5 DEF SessionReady, SessionError, SessionExit, SessionFrame
<1>6. ASSUME NEW x \in Session, CreateSession(x, NoFile) \/ StopSession(x) \/ RestartSession(x) \/ DeleteSession(x)
      PROVE  HubFramesValid'
  <2>1. \/ UNCHANGED down
        \/ conn # NoSocket /\ Send(StartFrame(x, NoFile)) /\ x \in Minted'
        \/ conn # NoSocket /\ Send(StartFrame(x, sessions[x].sessionFile)) /\ x \in Minted'
        \/ conn # NoSocket /\ Send(StopFrame(x))
    <3>1. CASE CreateSession(x, NoFile)
      <4>1. sessions'[x] \in {Outside("deleted"), NewRecord}
        BY <1>t, <3>1 DEF CreateSession, HubTypeOK
      <4>2. x \in Minted'
        BY <4>1 DEF Minted, Outside, NewRecord
      <4> QED BY <3>1, <4>2 DEF CreateSession
    <3>2. CASE RestartSession(x)
      BY <1>m, <3>2 DEF RestartSession
    <3>3. CASE StopSession(x) \/ DeleteSession(x)
      BY <3>3 DEF StopSession, DeleteSession
    <3> QED BY <1>6, <3>1, <3>2, <3>3
  <2> QED BY <1>1, <1>t, <1>c, <1>f, <2>1, DownOneKeeps
<1>7. ASSUME RestartDaemon PROVE HubFramesValid'
  <2>1. lastReqId' = lastReqId + 1 /\ lastReqId \in Nat /\ conn # NoSocket /\ Send(RestartFrame(lastReqId'))
    BY <1>7, <1>t DEF RestartDaemon, HubTypeOK
  <2>2. lastReqId' \in 1..lastReqId'
    BY <2>1
  <2> QED BY <1>t, <1>c, <1>f, <2>1, <2>2, DownOneKeeps
<1>8. ASSUME Timers PROVE HubFramesValid'
  BY <1>1, <1>8 DEF Timers, CmdTimeout, ExpireRestart, ExpirePlan, GraceExpires
<1>9. ASSUME NEW k \in Socket, NEW reqId \in 1..lastReqId, NEW ok \in BOOLEAN, RestartResult(k, reqId, ok) PROVE HubFramesValid'
  BY <1>1, <1>9 DEF RestartResult
<1> QED BY <1>2, <1>3, <1>4, <1>5, <1>6, <1>7, <1>8, <1>9 DEF HubDoes

\* They are steps that the open registry allows, and requests are only added.
LEMMA HubAllows ==
  ASSUME SysValid, HubDoes
  PROVE  HubNext /\ lastReqId' \in Nat /\ lastReqId <= lastReqId'
<1>1. HubNext
  <2>1. OnDisk \subseteq File /\ NoFile \in File \cup {NoFile}
    BY DEF OnDisk
  <2> QED BY <2>1 DEF HubDoes, HubNext, Connections, DaemonFrames, Requests
<1>2. lastReqId' = lastReqId \/ lastReqId' = lastReqId + 1
  BY DEF HubDoes, Upgrade, Hello, HandleClose, DaemonReads, Heartbeat, SessionReady, SessionError, SessionExit,
         SessionFrame, RestartResult, CreateSession, StopSession, RestartSession, DeleteSession, RestartDaemon,
         Offline, Timers, CmdTimeout, ExpireRestart, ExpirePlan, GraceExpires, planVars
<1>3. lastReqId \in Nat
  BY DEF SysValid, HubTypeOK
<1> QED BY <1>1, <1>2, <1>3

\* What the hub keeps are ids it minted.
LEMMA HubIds ==
  ASSUME SysValid, HubDoes, Minted \subseteq Minted'
  PROVE  IdsValid'
<1>t. /\ HubTypeOK /\ preexistingIds \subseteq Minted' /\ resumeIds \subseteq Minted'
      /\ resumePlan # NoPlan => resumePlan \subseteq Minted'
  BY DEF SysValid, IdsValid
<1>a. /\ \A x \in Session : Exists(sessions[x]) => x \in Minted'
      /\ \A x \in Session : Active(sessions'[x]) => x \in Minted'
  BY DEF Minted, Exists, Active, Terminal, ActiveStatus, TerminalStatus
<1>l. ASSUME LinkLost
      PROVE  resumeIds' \subseteq Minted' /\ (resumePlan' # NoPlan => resumePlan' \subseteq Minted')
  BY <1>t, <1>l DEF LinkLost, ResumableIds
<1>1. ASSUME UNCHANGED <<preexistingIds, resumePlan>>, resumeIds' \in {resumeIds, {}, ActiveIds} PROVE IdsValid'
  BY <1>t, <1>a, <1>1 DEF IdsValid, ActiveIds, Exists
<1>2. ASSUME NEW k \in Socket, Hello(k) PROVE IdsValid'
  BY <1>t, <1>a, <1>l, <1>2 DEF Hello, IdsValid
<1>3. ASSUME Offline \/ \E k \in Socket : HandleClose(k) PROVE IdsValid'
  BY <1>t, <1>l, <1>3 DEF HandleClose, Offline, IdsValid
<1>4. ASSUME NEW k \in Socket, NEW st \in [Session -> Reported], Heartbeat(k, st) PROVE IdsValid'
  BY <1>t, <1>4 DEF Heartbeat, Resumed, IdsValid
<1>5. ASSUME NEW x \in Session, RestartSession(x) PROVE IdsValid'
  BY <1>t, <1>a, <1>5 DEF RestartSession, IdsValid, Exists, planVars
<1>6. ASSUME Timers PROVE IdsValid'
  <2>1. CASE ExpirePlan
    BY <1>t, <2>1 DEF ExpirePlan, IdsValid
  <2> QED BY <1>1, <1>6, <2>1 DEF Timers, CmdTimeout, ExpireRestart, GraceExpires, DisarmRestart, planVars
<1>7. ASSUME \/ \E k \in Socket : Upgrade(k) \/ DaemonReads(k)
             \/ \E k \in Socket, s \in Session :
                  \/ \E file \in OnDisk : SessionReady(k, s, file)
                  \/ SessionError(k, s)
                  \/ \E b \in BOOLEAN : SessionExit(k, s, b)
             \/ \E k \in Socket, reqId \in 1..lastReqId, ok \in BOOLEAN : RestartResult(k, reqId, ok)
             \/ \E s \in Session : CreateSession(s, NoFile) \/ StopSession(s) \/ DeleteSession(s)
             \/ RestartDaemon
      PROVE  IdsValid'
  BY <1>1, <1>7 DEF Upgrade, DaemonReads, SessionReady, SessionError, SessionExit, SessionFrame, RestartResult,
                    CreateSession, StopSession, DeleteSession, RestartDaemon, DisarmRestart, planVars
<1> QED BY <1>2, <1>3, <1>4, <1>5, <1>6, <1>7 DEF HubDoes

\* What a step of the whole amounts to for the two parts that are proved about above and elsewhere.
PartsStep == (HubDoes \/ UNCHANGED hubVars) /\ (SupNext \/ UNCHANGED supVars)

LEMMA PartsGrow ==
  ASSUME SysValid, PartsStep
  PROVE  Grows /\ lastReqId <= lastReqId'
<1>1. OnDisk \subseteq OnDisk'
  BY KidsKeep DEF SysValid, PartsStep
<1>2. lastReqId \in Nat /\ lastReqId' \in Nat /\ lastReqId <= lastReqId'
  BY HubAllows DEF SysValid, HubTypeOK, PartsStep, hubVars, planVars
<1>3. Minted \subseteq Minted'
  <2>1. \A s \in Session : sessions[s].status # "unused" => sessions'[s].status # "unused"
    BY <1>1, HubRecords DEF PartsStep, hubVars
  <2> QED BY <2>1 DEF Minted
<1> QED BY <1>1, <1>2, <1>3 DEF Grows

\* It keeps everything valid if the links and the phases stay so.
LEMMA PartsKeep ==
  ASSUME SysValid, PartsStep, ClientsValid', KidsMinted', PhasesValid'
  PROVE  SysValid'
<1>1. HubTypeOK'
  BY HubTypeStep, HubAllows DEF SysValid, PartsStep
<1>2. SupTypeOK' /\ KidsValid' /\ OnDisk \subseteq OnDisk'
  BY KidsKeep DEF SysValid, PartsStep
<1>3. HubFramesValid'
  BY HubFrames, PartsGrow, DownSame DEF SysValid, PartsStep, hubVars
<1>4. RecordsValid'
  <2>1. \A s \in Session : sessions'[s].sessionFile \in {sessions[s].sessionFile, NoFile} \cup OnDisk
    BY <1>2, HubRecords DEF PartsStep, hubVars
  <2> QED BY <1>2, <2>1 DEF SysValid, RecordsValid, Known
<1>5. IdsValid'
  <2>1. Minted \subseteq Minted'
    BY PartsGrow DEF Grows
  <2> QED BY <2>1, HubIds DEF SysValid, PartsStep, IdsValid, hubVars, planVars
<1> QED BY <1>1, <1>2, <1>3, <1>4, <1>5 DEF SysValid

-------------------------------------------------------------------------------
\* What every step of the whole is shown to be.
Sound == PartsStep /\ ClientsValid' /\ KidsMinted' /\ PhasesValid'

\* A heartbeat lists children that run.
LEMMA StatusTypes ==
  ASSUME SysValid, NEW d \in Daemon
  PROVE  Status(d) \in [Session -> Reported]
<1>1. \A c \in Mapped(d) : child[c].st \in {"starting", "live", "failed"}
  BY DEF SysValid, KidsValid, Mapped, Running
<1>2. ASSUME NEW s \in Session, Has(d, s)
      PROVE  child[CHOOSE c \in Mapped(d) : child[c].id = s].st \in {"starting", "live", "failed"}
  <2>1. (CHOOSE c \in Mapped(d) : child[c].id = s) \in Mapped(d)
    BY <1>2 DEF Has
  <2> QED BY <1>1, <2>1
<1> QED BY <1>2 DEF Status, Reported

\* Phases that do not change, or not to a restart's.
LEMMA PhasesKeep ==
  ASSUME SysValid, PartsStep,
         \A d \in Daemon : phase'[d] \in {"stopping", "handing"} =>
           phase[d] \in {"stopping", "handing"} \/ lastReqId > 0
  PROVE  PhasesValid'
<1>1. lastReqId \in Nat /\ lastReqId' \in Nat /\ lastReqId <= lastReqId'
  BY PartsGrow DEF Grows
<1> QED BY <1>1 DEF SysValid, PhasesValid

LEMMA PhasesRest ==
  ASSUME SysValid, PartsStep, UNCHANGED phase
  PROVE  PhasesValid'
BY PhasesKeep

\* A step in which no child is born.
LEMMA MintedKeep ==
  ASSUME SysValid, PartsStep,
         \/ UNCHANGED child
         \/ \E d \in Daemon : DaemonEnds(d) \/ RestartAccepted(d) \/ \E s \in Session : Stop(d, s)
         \/ \E c \in Child : SpawnDone(c) \/ SpawnFails(c) \/ ChildReady(c) \/ ChildFails(c) \/ ChildExits(c)
  PROVE  KidsMinted'
<1>1. child \in [Child -> ChildRecord] /\ Minted \subseteq Minted' /\ KidsMinted
  BY PartsGrow DEF SysValid, SupTypeOK, Grows
<1>2. ASSUME NEW x \in Child
      PROVE  child'[x].st \in {"unused", "gone"} \/ (child[x].st \notin {"unused", "gone"} /\ child'[x].id = child[x].id)
  <2>t. child[x] \in ChildRecord /\ Ended(x).st = "gone"
    BY <1>1 DEF Ended, NoChild
  <2>1. CASE UNCHANGED child
    BY <2>1
  <2>2. CASE \E d \in Daemon : DaemonEnds(d) \/ RestartAccepted(d) \/ \E s \in Session : Stop(d, s)
    <3>1. \A reason \in {"user", "upgrade"} : /\ Stopped(child[x], reason).st = child[x].st
                                             /\ Stopped(child[x], reason).id = child[x].id
      BY <2>t DEF Stopped, ChildRecord
    <3>2. \A reason \in {"user", "upgrade"} :
            /\ [Stopped(child[x], reason) EXCEPT !.awaited = TRUE].st = child[x].st
            /\ [Stopped(child[x], reason) EXCEPT !.awaited = TRUE].id = child[x].id
      BY <2>t DEF Stopped, ChildRecord
    <3>3. \/ child'[x] \in {child[x], Ended(x), Stopped(child[x], "user"), [child[x] EXCEPT !.mapped = FALSE]}
          \/ child'[x] = [Stopped(child[x], "upgrade") EXCEPT !.awaited = TRUE]
      BY <2>2 DEF DaemonEnds, RestartAccepted, Stop
    <3>4. [child[x] EXCEPT !.mapped = FALSE].st = child[x].st /\ [child[x] EXCEPT !.mapped = FALSE].id = child[x].id
      BY <2>t DEF ChildRecord
    <3> QED BY <2>t, <3>1, <3>2, <3>3, <3>4
  <2>3. ASSUME NEW c \in Child, SpawnDone(c) \/ SpawnFails(c) \/ ChildReady(c) \/ ChildFails(c) \/ ChildExits(c)
        PROVE  child'[x].st \in {"unused", "gone"} \/ (child[x].st \notin {"unused", "gone"} /\ child'[x].id = child[x].id)
    <3>1. CASE SpawnDone(c)
      <4>1. \/ child'[x] \in {child[x], [child[x] EXCEPT !.mapped = FALSE]}
            \/ child'[x] = [child[x] EXCEPT !.st = "starting", !.mapped = TRUE] /\ child[x].st = "spawning"
        BY <3>1 DEF SpawnDone
      <4> QED BY <2>t, <4>1 DEF ChildRecord
    <3>2. CASE ChildExits(c)
      BY <2>t, <3>2 DEF ChildExits, ChildRecord
    <3>3. CASE SpawnFails(c) \/ ChildReady(c) \/ ChildFails(c)
      BY <1>1, <2>t, <3>3 DEF SpawnFails, ChildReady, ChildFails, ChildRecord
    <3> QED BY <2>3, <3>1, <3>2, <3>3
  <2> QED BY <2>1, <2>2, <2>3
<1> QED BY <1>1, <1>2 DEF KidsMinted

\* Cutting short what is on a socket.
LEMMA CutKeeps ==
  ASSUME NEW q, NEW S, q \in Seq(S), NEW n \in 0..Len(q)
  PROVE  SubSeq(q, 1, n) \in Seq(S)
OBVIOUS

\* A daemon connects.
LEMMA ConnectsSound ==
  ASSUME SysValid, NEW d \in Daemon, DaemonConnects(d)
  PROVE  Sound
<1>1. PICK k \in Socket : Upgrade(k) /\ ClientOpens(d, k, HbFrame(d))
  BY DEF DaemonConnects
<1>2. UNCHANGED supVars
  BY DEF DaemonConnects, machineVars, supVars
<1>3. PartsStep
  BY <1>1, <1>2 DEF PartsStep, HubDoes
<1>4. ClientsValid'
  <2>1. /\ socket' = [socket EXCEPT ![d] = k]
        /\ up' = [up EXCEPT ![k] = <<HelloFrame, HbFrame(d)>> \o pending[d] \o unacked[d]]
        /\ pending' = [pending EXCEPT ![d] = <<>>]
        /\ UNCHANGED <<closed, unacked>>
    BY <1>1 DEF ClientOpens
  <2>2. Seq(UpFrame) \subseteq Seq(UpFrame') /\ UpFrame \subseteq UpFrame'
    BY <1>3, PartsGrow, Widens
  <2>3. /\ pending \in [Daemon -> Seq(UpFrame')] /\ up \in [Socket -> Seq(UpFrame')]
        /\ unacked[d] = <<>>
    BY <2>2 DEF SysValid, ClientsValid
  <2>4. HelloFrame \in UpFrame' /\ HbFrame(d) \in UpFrame'
    BY StatusTypes, FramesMadeNext DEF HbFrame
  <2>5. <<HelloFrame, HbFrame(d)>> \o pending[d] \o unacked[d] \in Seq(UpFrame')
    BY <2>3, <2>4
  <2>6. up' \in [Socket -> Seq(UpFrame')] /\ pending' \in [Daemon -> Seq(UpFrame')]
    BY <2>1, <2>3, <2>5
  <2> QED BY <2>1, <2>6 DEF SysValid, ClientsValid
<1> QED BY <1>2, <1>3, <1>4, PhasesRest, MintedKeep DEF Sound, supVars

\* A daemon sends a heartbeat.
LEMMA BeatsSound ==
  ASSUME SysValid, NEW d \in Daemon, DaemonBeats(d)
  PROVE  Sound
<1>1. UNCHANGED supVars /\ UNCHANGED hubVars
  BY DEF DaemonBeats, machineVars, supVars, HubRests
<1>2. PartsStep
  BY <1>1 DEF PartsStep
<1>3. ClientsValid'
  <2>1. /\ socket[d] \in Socket
        /\ up' = [up EXCEPT ![socket[d]] = @ \o (<<HbFrame(d)>> \o unacked[d])]
        /\ UNCHANGED <<socket, closed, pending, unacked>>
    BY DEF DaemonBeats, ClientHeartbeat, Connected, Write, SysValid, ClientsValid
  <2>2. Seq(UpFrame) \subseteq Seq(UpFrame')
    BY <1>2, PartsGrow, Widens
  <2>3. /\ pending \in [Daemon -> Seq(UpFrame')] /\ up \in [Socket -> Seq(UpFrame')]
        /\ unacked[d] = <<>>
    BY <2>2 DEF SysValid, ClientsValid
  <2>4. HbFrame(d) \in UpFrame'
    BY StatusTypes, FramesMadeNext DEF HbFrame
  <2>5. up[socket[d]] \o (<<HbFrame(d)>> \o unacked[d]) \in Seq(UpFrame')
    BY <2>1, <2>3, <2>4
  <2>6. up' \in [Socket -> Seq(UpFrame')]
    BY <2>1, <2>3, <2>5
  <2> QED BY <2>1, <2>3, <2>6 DEF SysValid, ClientsValid
<1> QED BY <1>1, <1>2, <1>3, PhasesRest, MintedKeep DEF Sound, supVars

\* A daemon reads a frame of the hub.
LEMMA HandlesSound ==
  ASSUME SysValid, NEW d \in Daemon, DaemonHandles(d)
  PROVE  Sound
<1> DEFINE frame == Head(down[socket[d]])
<1>1. socket[d] \in Socket /\ DaemonReads(socket[d]) /\ down[socket[d]] # <<>>
  BY DEF DaemonHandles, Connected, SysValid, ClientsValid, DaemonReads
<1>2. frame \in DownFrame
  BY <1>1 DEF SysValid, HubFramesValid
<1>3. HubDoes
  BY <1>1 DEF HubDoes
<1>4. ASSUME SupNext, UNCHANGED linkVars \/ \E f : /\ f.t # "event" /\ ClientSend(d, f)
                                                   /\ f \in UpFrame' \/ f \in UpFrame
      PROVE  PartsStep /\ ClientsValid'
  <2>1. PartsStep
    BY <1>3, <1>4 DEF PartsStep
  <2>2. Grows /\ UpFrame \subseteq UpFrame'
    BY <2>1, PartsGrow, Widens
  <2> QED BY <1>4, <2>1, <2>2, ClientsKeep, SendKeeps DEF SysValid, linkVars
<1>5. ASSUME frame.t = "start", OnStart(d, frame.id, frame.file) PROVE Sound
  <2>1. frame.id \in Minted /\ frame.id \in Session /\ frame.file \in OnDisk \cup {NoFile}
    BY <1>2, <1>5, FramesRead DEF Known, Minted
  <2>2. CASE \E c \in Child : StartAccepted(d, frame.id, frame.file, c) /\ UNCHANGED linkVars
    <3>1. SupNext
      BY <2>1, <2>2 DEF SupNext, Frames
    <3>2. PartsStep /\ ClientsValid' /\ Minted \subseteq Minted'
      BY <1>4, <2>2, <3>1, PartsGrow DEF Grows
    <3>3. KidsMinted'
      <4>1. PICK c \in Child : StartAccepted(d, frame.id, frame.file, c)
        BY <2>2
      <4>2. \A x \in Child : x # c => child'[x] = child[x]
        BY <4>1 DEF StartAccepted, SysValid, SupTypeOK
      <4>3. child'[c].id = frame.id
        BY <4>1 DEF StartAccepted, SysValid, SupTypeOK, NoChild
      <4> QED BY <2>1, <3>2, <4>2, <4>3 DEF SysValid, KidsMinted
    <3> QED BY <2>2, <3>2, <3>3, PhasesRest DEF Sound, StartAccepted
  <2>3. CASE StartRefused(d, frame.id) /\ ClientSend(d, ErrorFrame(frame.id))
    <3>1. SupNext
      BY <2>1, <2>3 DEF SupNext, Frames
    <3>2. ErrorFrame(frame.id) \in UpFrame /\ ErrorFrame(frame.id).t # "event"
      BY <2>1, FramesMade DEF ErrorFrame
    <3> QED BY <1>4, <2>3, <3>1, <3>2, PhasesRest, MintedKeep DEF Sound, StartRefused
  <2> QED BY <1>5, <2>2, <2>3 DEF OnStart
<1>6. ASSUME frame.t = "stop", OnStop(d, frame.id) PROVE Sound
  <2>1. SupNext
    BY <1>2, <1>6, FramesRead DEF SupNext, Frames, OnStop
  <2>2. PartsStep /\ ClientsValid' /\ frame.id \in Session
    BY <1>2, <1>4, <1>6, <2>1, FramesRead DEF OnStop
  <2> QED BY <1>6, <2>2, PhasesRest, MintedKeep DEF Sound, OnStop, Stop
<1>7. ASSUME frame.t = "restart-daemon", OnRestart(d, frame.reqId) PROVE Sound
  <2>1. frame.reqId \in 1..lastReqId /\ lastReqId \in Nat
    BY <1>2, <1>7, FramesRead DEF SysValid, HubTypeOK
  <2>2. \A b \in BOOLEAN : ResultFrame(frame.reqId, b) \in UpFrame /\ ResultFrame(frame.reqId, b).t # "event"
    BY <2>1, FramesMade DEF ResultFrame
  <2>3. SupNext
    BY <1>7 DEF SupNext, Frames, OnRestart
  <2>4. PartsStep /\ ClientsValid'
    BY <1>4, <1>7, <2>2, <2>3 DEF OnRestart
  <2>5. PhasesValid'
    BY <2>1, <2>4, PhasesKeep
  <2>6. KidsMinted'
    BY <1>7, <2>4, MintedKeep DEF OnRestart, RestartRefused
  <2> QED BY <2>4, <2>5, <2>6 DEF Sound
<1> QED BY <1>5, <1>6, <1>7 DEF DaemonHandles

\* A daemon notices that the hub closed its socket, or the network cuts it.
LEMMA LosesSound ==
  ASSUME SysValid, NEW d \in Daemon, DaemonSeesClose(d) \/ Cut(d)
  PROVE  Sound
<1>1. UNCHANGED supVars /\ UNCHANGED hubVars
  BY DEF DaemonSeesClose, Cut, machineVars, supVars, HubRests
<1>2. PartsStep
  BY <1>1 DEF PartsStep
<1>3. PICK b \in BOOLEAN : ClientLoses(d, b)
  <2>1. (ws[socket[d]] = "replaced") \in BOOLEAN
    OBVIOUS
  <2> QED BY <2>1 DEF DaemonSeesClose, Cut
<1>4. up' \in [Socket -> Seq(UpFrame)]
  <2>1. socket[d] \in Socket /\ up[socket[d]] \in Seq(UpFrame)
    BY DEF DaemonSeesClose, Cut, Connected, SysValid, ClientsValid
  <2>2. \A kept \in 0..Unread(d) : SubSeq(up[socket[d]], 1, kept) \in Seq(UpFrame)
    BY <2>1, CutKeeps DEF Unread, DaemonSeesClose, Cut
  <2> QED BY <2>1, <2>2 DEF DaemonSeesClose, Cut, SysValid, ClientsValid
<1>5. ClientsValid'
  <2>1. Seq(UpFrame) \subseteq Seq(UpFrame')
    BY <1>2, PartsGrow, Widens
  <2>2. /\ socket' = [socket EXCEPT ![d] = NoSocket]
        /\ closed' = [closed EXCEPT ![d] = @ \/ b]
        /\ UNCHANGED <<pending, unacked>>
    BY <1>3 DEF ClientLoses
  <2>3. (closed[d] \/ b) \in BOOLEAN
    OBVIOUS
  <2>4. closed' \in [Daemon -> BOOLEAN]
    BY <2>2, <2>3 DEF SysValid, ClientsValid
  <2> QED BY <1>4, <2>1, <2>2, <2>4 DEF SysValid, ClientsValid
<1> QED BY <1>1, <1>2, <1>5, PhasesRest, MintedKeep DEF Sound, supVars

\* A child's news, if the hub rests and the frame is one that may be sent then.
LEMMA ReportsSound ==
  ASSUME SysValid, SupNext, UNCHANGED hubVars, NEW c \in Child, child[c].host \in Daemon,
         NEW frame, frame \in UpFrame', frame.t # "event", Reports(c, frame)
  PROVE  PartsStep /\ ClientsValid'
<1>1. PartsStep
  BY DEF PartsStep
<1>2. Grows
  BY <1>1, PartsGrow
<1> QED BY <1>1, <1>2, ClientsKeep, SendKeeps DEF SysValid, Reports, linkVars

\* A child comes up, reports or ends.
LEMMA ChildSound ==
  ASSUME SysValid, NEW c \in Child, ChildSteps(c) \/ ChildMishap(c)
  PROVE  Sound
<1>1. UNCHANGED hubVars
  BY DEF ChildSteps, ChildMishap, HubRests
<1>2. /\ SpawnDone(c) \/ SpawnFails(c) \/ ChildReady(c) \/ ChildExits(c) \/ ChildFails(c)
      /\ \/ SpawnDone(c) /\ UNCHANGED linkVars
         \/ (SpawnFails(c) \/ ChildFails(c)) /\ Reports(c, ErrorFrame(child[c].id))
         \/ ChildReady(c) /\ Reports(c, ReadyFrame(c))
         \/ ChildExits(c) /\ Reports(c, ExitFrame(c))
  BY DEF ChildSteps, ChildMishap
<1>3. SupNext
  BY <1>2 DEF SupNext, Children
<1>4. child[c].id \in Minted /\ child[c].host \in Daemon
  BY <1>2 DEF SysValid, KidsValid, KidsMinted, SpawnDone, SpawnFails, ChildReady, ChildExits, ChildFails, Running
<1>5. PartsStep
  BY <1>1, <1>3 DEF PartsStep
<1>m. child[c].id \in Minted'
  BY <1>4, <1>5, PartsGrow DEF Grows
<1>6. ErrorFrame(child[c].id) \in UpFrame' /\ ErrorFrame(child[c].id).t # "event"
  BY <1>m, FramesMadeNext DEF ErrorFrame
<1>7. ExitFrame(c) \in UpFrame' /\ ExitFrame(c).t # "event"
  <2>1. (child[c].stop = "upgrade") \in BOOLEAN
    OBVIOUS
  <2> QED BY <1>m, <2>1, FramesMadeNext DEF ExitFrame
<1>8. ASSUME ChildReady(c) PROVE ReadyFrame(c) \in UpFrame' /\ ReadyFrame(c).t # "event"
  <2>1. Writes(c) \in OnDisk'
    <3>1. CASE child[c].resume = NoFile
      <4>1. child'[c].st = "live" /\ child'[c].resume = NoFile
        BY <1>8, <3>1 DEF ChildReady, SysValid, SupTypeOK, ChildRecord
      <4> QED BY <3>1, <4>1, AgentAssumption DEF OnDisk, Writes
    <3>2. CASE child[c].resume # NoFile
      BY <1>5, <3>2, PartsGrow DEF Grows, Known, Writes, SysValid, KidsValid
    <3> QED BY <3>1, <3>2
  <2> QED BY <1>m, <2>1, FramesMadeNext DEF ReadyFrame
<1>9. ClientsValid'
  <2>1. CASE SpawnDone(c) /\ UNCHANGED linkVars
    BY <1>5, <2>1, PartsGrow, ClientsKeep DEF SysValid, linkVars
  <2> QED BY <1>1, <1>2, <1>3, <1>4, <1>6, <1>7, <1>8, <2>1, ReportsSound
<1>10. UNCHANGED phase
  BY <1>2 DEF SpawnDone, SpawnFails, ChildReady, ChildExits, ChildFails
<1>11. KidsMinted'
  BY <1>2, <1>5, MintedKeep
<1> QED BY <1>5, <1>9, <1>10, <1>11, PhasesRest DEF Sound

\* A daemon hands off to its replacement, or fails to.
LEMMA HandsOffSound ==
  ASSUME SysValid, NEW d \in Daemon, DaemonHandsOff(d)
  PROVE  Sound
<1>1. UNCHANGED hubVars
  BY DEF DaemonHandsOff, HubRests
<1>2. SupNext
  BY DEF DaemonHandsOff, SupNext, Daemons
<1>3. PartsStep
  BY <1>1, <1>2 DEF PartsStep
<1>4. phase[d] = "stopping" /\ lastReqId \in 1..lastReqId
  <2>1. phase[d] = "stopping"
    BY DEF DaemonHandsOff, HandOff, HandOffFails
  <2>2. lastReqId \in Nat
    BY DEF SysValid, HubTypeOK
  <2>3. lastReqId > 0
    BY <2>1 DEF SysValid, PhasesValid
  <2> QED BY <2>1, <2>2, <2>3
<1>5. ResultFrame(lastReqId, FALSE) \in UpFrame' /\ ResultFrame(lastReqId, FALSE).t # "event"
  <2>1. lastReqId \in 1..lastReqId'
    BY <1>1, <1>4 DEF hubVars, planVars
  <2> QED BY <2>1, FramesMadeNext DEF ResultFrame
<1>6. ClientsValid'
  BY <1>3, <1>5, PartsGrow, ClientsKeep, SendKeeps DEF DaemonHandsOff, SysValid, linkVars
<1>7. PhasesValid'
  BY <1>3, <1>4, PhasesKeep DEF SysValid, PhasesValid
<1>8. KidsMinted'
  BY <1>3, MintedKeep DEF DaemonHandsOff, HandOff, HandOffFails
<1> QED BY <1>3, <1>6, <1>7, <1>8 DEF Sound

\* A daemon exits or crashes.
LEMMA DiesSound ==
  ASSUME SysValid, NEW d \in Daemon, DaemonDies(d)
  PROVE  Sound
<1>1. UNCHANGED hubVars
  BY DEF DaemonDies, HubRests
<1>2. PICK kept \in 0..Unread(d) : Gone(d, kept) /\ (DaemonExits(d) \/ Crash(d))
  <2>1. Unread(d) \in Nat
    BY DEF Unread, Connected, SysValid, ClientsValid
  <2>2. Unread(d) \in 0..Unread(d)
    BY <2>1
  <2> QED BY <2>2 DEF DaemonDies
<1>3. SupNext
  BY <1>2 DEF SupNext, Daemons
<1>4. PartsStep
  BY <1>1, <1>3 DEF PartsStep
<1>5. up' \in [Socket -> Seq(UpFrame)]
  <2>1. CASE Connected(d)
    <3>1. socket[d] \in Socket /\ up[socket[d]] \in Seq(UpFrame) /\ kept \in 0..Len(up[socket[d]])
      BY <2>1 DEF Connected, Unread, SysValid, ClientsValid
    <3>2. SubSeq(up[socket[d]], 1, kept) \in Seq(UpFrame)
      BY <3>1, CutKeeps
    <3> QED BY <1>2, <2>1, <3>1, <3>2 DEF Gone, SysValid, ClientsValid
  <2>2. CASE ~Connected(d)
    BY <1>2, <2>2 DEF Gone, SysValid, ClientsValid
  <2> QED BY <2>1, <2>2
<1>6. ClientsValid'
  <2>1. Seq(UpFrame) \subseteq Seq(UpFrame')
    BY <1>4, PartsGrow, Widens
  <2>2. /\ socket' = [socket EXCEPT ![d] = NoSocket] /\ closed' = [closed EXCEPT ![d] = TRUE]
        /\ pending' = [pending EXCEPT ![d] = <<>>] /\ unacked' = [unacked EXCEPT ![d] = <<>>]
    BY <1>2 DEF Gone
  <2>3. socket' \in [Daemon -> Socket \cup {NoSocket}] /\ closed' \in [Daemon -> BOOLEAN]
    BY <2>2 DEF SysValid, ClientsValid
  <2>4. pending' \in [Daemon -> Seq(UpFrame')] /\ unacked' = [e \in Daemon |-> <<>>]
    BY <2>1, <2>2 DEF SysValid, ClientsValid
  <2> QED BY <1>5, <2>1, <2>3, <2>4 DEF ClientsValid
<1>7. PhasesValid'
  <2>1. phase' = [phase EXCEPT ![d] = "dead"]
    BY <1>2 DEF DaemonExits, Crash, DaemonEnds
  <2> QED BY <1>4, <2>1, PhasesKeep DEF SysValid, SupTypeOK
<1>8. KidsMinted'
  BY <1>2, <1>4, MintedKeep DEF DaemonExits, Crash
<1> QED BY <1>4, <1>6, <1>7, <1>8 DEF Sound

\* A daemon is booted.
LEMMA BootsSound ==
  ASSUME SysValid, NEW d \in Daemon, DaemonBoots(d)
  PROVE  Sound
<1>1. UNCHANGED hubVars /\ UNCHANGED linkVars
  BY DEF DaemonBoots, HubRests
<1>2. SupNext
  BY DEF DaemonBoots, SupNext, Daemons
<1>3. PartsStep
  BY <1>1, <1>2 DEF PartsStep
<1>4. ClientsValid'
  BY <1>1, <1>3, PartsGrow, ClientsKeep DEF SysValid, linkVars
<1>5. PhasesValid'
  BY <1>3, PhasesKeep DEF DaemonBoots, Boot, SysValid, SupTypeOK
<1>6. KidsMinted'
  BY <1>3, MintedKeep DEF DaemonBoots, Boot
<1> QED BY <1>3, <1>4, <1>5, <1>6 DEF Sound

\* The hub reads a frame, throws away what a closed socket still carries, or notices a close.
LEMMA ReceivesSound ==
  ASSUME SysValid, NEW k \in Socket, HubReceives(k)
  PROVE  Sound
<1>1. UNCHANGED supVars
  BY DEF HubReceives, HubReads, HubIgnores, HubSeesClose, machineVars, supVars
<1>2. UNCHANGED <<socket, closed, pending, unacked>>
  BY DEF HubReceives, HubReads, HubIgnores, HubSeesClose, linkVars
<1>3. up[k] \in Seq(UpFrame)
  BY DEF SysValid, ClientsValid
<1>4. HubDoes \/ UNCHANGED hubVars
  <2>1. CASE HubReads(k)
    <3> DEFINE frame == Head(up[k])
    <3>1. frame \in UpFrame
      BY <1>3, <2>1 DEF HubReads
    <3>2. \/ frame.t = "hello" /\ Hello(k)
          \/ frame.t = "hb" /\ Room /\ Heartbeat(k, frame.sessions)
          \/ frame.t = "ready" /\ SessionReady(k, frame.id, frame.file)
          \/ frame.t = "error" /\ SessionError(k, frame.id)
          \/ frame.t = "exit" /\ SessionExit(k, frame.id, frame.upgrade)
          \/ frame.t = "result" /\ RestartResult(k, frame.reqId, frame.ok)
      BY <2>1 DEF HubReads
    <3> HIDE DEF frame
    <3>3. CASE frame.t = "hb" /\ Room /\ Heartbeat(k, frame.sessions)
      BY <3>1, <3>3, FramesRead DEF HubDoes
    <3>4. CASE frame.t = "result" /\ RestartResult(k, frame.reqId, frame.ok)
      BY <3>1, <3>4, FramesRead DEF HubDoes
    <3>5. CASE frame.t = "hello" /\ Hello(k)
      BY <3>5 DEF HubDoes
    <3>6. CASE \/ frame.t = "ready" /\ SessionReady(k, frame.id, frame.file)
               \/ frame.t = "error" /\ SessionError(k, frame.id)
               \/ frame.t = "exit" /\ SessionExit(k, frame.id, frame.upgrade)
      BY <3>1, <3>6, FramesRead DEF HubDoes, Minted
    <3> QED BY <3>2, <3>3, <3>4, <3>5, <3>6
  <2>2. CASE HubIgnores(k)
    BY <2>2 DEF HubIgnores, HubRests
  <2>3. CASE HubSeesClose(k)
    BY <2>3 DEF HubSeesClose, HubDoes
  <2> QED BY <2>1, <2>2, <2>3 DEF HubReceives
<1>5. PartsStep
  BY <1>1, <1>4 DEF PartsStep
<1>6. up' \in [Socket -> Seq(UpFrame)]
  <2>1. up[k] # <<>> => Tail(up[k]) \in Seq(UpFrame)
    BY <1>3
  <2>2. up \in [Socket -> Seq(UpFrame)]
    BY DEF SysValid, ClientsValid
  <2>3. \/ up[k] # <<>> /\ up' = [up EXCEPT ![k] = Tail(@)]
        \/ up' = [up EXCEPT ![k] = <<>>]
        \/ up' = up
    BY DEF HubReceives, HubReads, HubIgnores, HubSeesClose, linkVars
  <2>4. <<>> \in Seq(UpFrame)
    OBVIOUS
  <2> QED BY <2>1, <2>2, <2>3, <2>4
<1>7. ClientsValid'
  <2>1. Seq(UpFrame) \subseteq Seq(UpFrame')
    BY <1>5, PartsGrow, Widens
  <2> QED BY <1>2, <1>6, <2>1 DEF SysValid, ClientsValid
<1> QED BY <1>1, <1>5, <1>7, PhasesRest, MintedKeep DEF Sound, supVars

\* A timer of the hub fires, or a user asks for something.
LEMMA HubSound ==
  ASSUME SysValid, HubTimer \/ UserRequest
  PROVE  Sound
<1>1. UNCHANGED supVars /\ UNCHANGED linkVars
  BY DEF HubTimer, UserRequest, machineVars, supVars
<1>2. HubDoes
  <2>1. CASE HubTimer
    BY <2>1 DEF HubTimer, HubDoes, Timers
  <2>2. CASE UserRequest
    BY <2>2 DEF UserRequest, HubDoes
  <2> QED BY <2>1, <2>2
<1>3. PartsStep
  BY <1>1, <1>2 DEF PartsStep
<1>4. ClientsValid'
  BY <1>1, <1>3, PartsGrow, ClientsKeep DEF SysValid, linkVars
<1> QED BY <1>1, <1>3, <1>4, PhasesRest, MintedKeep DEF Sound, supVars

\* What the whole may do in a step.
SysDoes ==
  \/ \E d \in Daemon : \/ DaemonConnects(d) \/ DaemonBeats(d) \/ DaemonHandles(d) \/ DaemonSeesClose(d)
                       \/ Cut(d) \/ DaemonHandsOff(d) \/ DaemonDies(d) \/ DaemonBoots(d)
  \/ \E c \in Child : ChildSteps(c) \/ ChildMishap(c)
  \/ \E k \in Socket : HubReceives(k)
  \/ HubTimer \/ UserRequest

LEMMA SysSteps == SysNext => SysDoes
<1>1. Work => SysDoes
  BY DEF Work, SysDoes
<1>2. IdleBeat => SysDoes
  BY DEF IdleBeat, SysDoes
<1>3. Accidents => SysDoes
  BY DEF Accidents, SysDoes
<1>4. (\E d \in Daemon : DaemonBeats(d) /\ Racing) \/ UserRequest => SysDoes
  BY DEF SysDoes
<1> QED BY <1>1, <1>2, <1>3, <1>4 DEF SysNext

LEMMA SysSound ==
  ASSUME SysValid, [SysNext]_sysVars
  PROVE  SysValid' /\ [HubNext]_hubVars /\ [SupNext]_supVars
<1>1. CASE SysNext
  <2>1. Sound
    BY <1>1, SysSteps, ConnectsSound, BeatsSound, HandlesSound, LosesSound, HandsOffSound, DiesSound,
       BootsSound, ChildSound, ReceivesSound, HubSound DEF SysDoes
  <2> QED BY <2>1, PartsKeep, HubAllows DEF Sound, PartsStep
<1>2. CASE UNCHANGED sysVars
  <2>1. UNCHANGED hubVars /\ UNCHANGED supVars /\ UNCHANGED linkVars
    BY <1>2 DEF sysVars, machineVars, supVars
  <2>2. PartsStep
    BY <2>1 DEF PartsStep
  <2>3. ClientsValid' /\ KidsMinted' /\ PhasesValid'
    BY <2>1, <2>2, PartsGrow, ClientsKeep, PhasesRest, MintedKeep DEF SysValid, linkVars, supVars
  <2> QED BY <2>1, <2>2, <2>3, PartsKeep
<1> QED BY <1>1, <1>2

LEMMA SysStarts == SysInit => SysValid /\ HubInit /\ SupInit
<1> SUFFICES ASSUME SysInit PROVE SysValid
  BY DEF SysInit
<1>1. HubTypeOK
  BY HubTypeStarts DEF SysInit
<1>2. SupTypeOK
  BY AgentAssumption DEF SysInit, SupInit, SupTypeOK, Daemon, NoChild, ChildRecord
<1>3. ClientsValid
  <2>1. /\ socket = [d \in Daemon |-> NoSocket] /\ closed = [d \in Daemon |-> FALSE]
        /\ pending = [d \in Daemon |-> <<>>] /\ unacked = [d \in Daemon |-> <<>>]
        /\ up = [k \in Socket |-> <<>>]
    BY DEF SysInit, ClientInit, Client, Daemon
  <2> QED BY <2>1 DEF ClientsValid
<1>4. HubFramesValid
  BY DEF SysInit, HubInit, HubFramesValid
<1>5. KidsValid /\ KidsMinted /\ PhasesValid
  BY DEF SysInit, SupInit, KidsValid, KidsMinted, PhasesValid, NoChild, Known
<1>6. RecordsValid
  BY DEF SysInit, HubInit, RecordsValid, Outside, Known
<1>7. IdsValid
  BY DEF SysInit, HubInit, IdsValid
<1> QED BY <1>1, <1>2, <1>3, <1>4, <1>5, <1>6, <1>7 DEF SysValid

\* Every frame, record and child of the whole is valid.
THEOREM SysTypeCorrect == SysSpec => []SysValid
BY SysStarts, SysSound, PTL DEF SysSpec

\* The registry inside the whole implements the open registry, so that what is proved of it for any
\* daemon holds of it with this one.
THEOREM RegistryImplements == SysSpec => HubSpec
BY SysTypeCorrect, SysStarts, SysSound, PTL DEF SysSpec, HubSpec

\* Likewise the daemons inside the whole, whatever the hub sends and the network does, are the
\* supervisor's.
THEOREM MachineImplements == SysSpec => SupSpec
BY SysTypeCorrect, SysStarts, SysSound, PTL DEF SysSpec, SupSpec

\* The hub names no transcript that no child has written.
THEOREM TranscriptsExistCorrect == SysSpec => []TranscriptsExist
<1>1. SysValid => TranscriptsExist
  <2> SUFFICES ASSUME SysValid PROVE TranscriptsExist
    OBVIOUS
  <2>1. ASSUME NEW k \in Socket, NEW i \in DOMAIN down[k], down[k][i].t = "start"
        PROVE  down[k][i].file \in OnDisk \cup {NoFile}
    <3>1. down[k] \in Seq(DownFrame)
      BY DEF SysValid, HubFramesValid
    <3>2. down[k][i] \in DownFrame
      BY <3>1
    <3> QED BY <2>1, <3>2, FramesRead DEF Known
  <2> QED BY <2>1 DEF SysValid, RecordsValid, TranscriptsExist, Known
<1> QED BY <1>1, SysTypeCorrect, PTL

\* What the registry promises to any daemon it keeps in the whole.
THEOREM WholeKeepsPromises ==
  SysSpec => /\ [](HubTypeOK /\ OneAgent /\ RestartConsistent /\ UnreachableIsResolvable)
             /\ RevivalIsDispatched /\ EndIsAnnouncedOnce /\ FirstEndSticks
BY RegistryImplements, TypeCorrect, OneAgentCorrect, RestartConsistentCorrect,
   UnreachableIsResolvableCorrect, RevivalIsDispatchedCorrect, EndIsAnnouncedOnceCorrect,
   FirstEndSticksCorrect, PTL

-------------------------------------------------------------------------------
(***************************************************************************)
(* No heartbeat retires a session whose child there is.                    *)
(***************************************************************************)

\* Queues: whether a frame of a set is on it, and in which order.
None(q, S) == \A i \in DOMAIN q : q[i] \notin S
AtMostOne(q, S) == \A i, j \in DOMAIN q : q[i] \in S /\ q[j] \in S => i = j
NotBehind(q, A, B) == \A i, j \in DOMAIN q : i < j /\ q[i] \in A => q[j] \notin B

\* The frames that give a session a life, end one and name its transcript, and the heartbeats
\* that do not list it.
StartsOf(s) == [t : {"start"}, id : {s}, file : File \cup {NoFile}]
OtherStarts(s, file) == [t : {"start"}, id : {s}, file : (File \cup {NoFile}) \ {file}]
EndsOf(s) == [t : {"error"}, id : {s}] \cup [t : {"exit"}, id : {s}, upgrade : BOOLEAN]
OtherReadies(s, file) == [t : {"ready"}, id : {s}, file : File \ {file}]
Denials(s) == [t : {"hb"}, sessions : {st \in [Session -> Reported] : st[s] = "none"}]

\* The children of daemon d for session s, and those in or past its table.
Kids(d, s) == {c \in Child : child[c].host = d /\ child[c].id = s
                             /\ child[c].st \in {"spawning", "starting", "live"}}
Spawned(d, s) == {c \in Kids(d, s) : child[c].st # "spawning"}

\* A daemon the hub has not heard of yet, and one without children.
Unheard(d) == ~closed[d] /\ (socket[d] = NoSocket \/ ws[socket[d]] = "open")
HostsNone(d) == \A c \in Child : child[c].host # d

\* Each daemon has a socket of its own, one at most in its life; until the hub has heard its
\* hello it has no children, and nothing but greetings and heartbeats are on its socket.
SocketsOK ==
  /\ \A d, e \in Daemon : socket[d] = socket[e] /\ socket[d] # NoSocket => d = e
  /\ \A d \in Daemon : socket[d] # NoSocket =>
       Alive(d) /\ ~closed[d] /\ ws[socket[d]] \notin {"unused", "closed"}
  /\ \A d \in Daemon : pending[d] = <<>>
  /\ \A d \in Daemon : Unheard(d) => HostsNone(d) /\ phase[d] \in {"unborn", "up"}
  /\ \A k \in Socket : ws[k] \in {"unused", "open"} => down[k] = <<>>
  /\ \A k \in Socket : ws[k] = "open" => \A i \in DOMAIN up[k] : up[k][i].t \in {"hello", "hb"}

\* No child fails, and no heartbeat says that one did.
NoneFail ==
  /\ \A c \in Child : child[c].st # "failed"
  /\ \A k \in Socket : \A i \in DOMAIN up[k] :
       up[k][i].t = "hb" => \A s \in Session : up[k][i].sessions[s] \in {"none", "starting", "live"}

\* What is not in the registry has no transcript, and what is in a plan has one.
Resumable ==
  /\ \A s \in Session : ~Exists(sessions[s]) => sessions[s].sessionFile = NoFile
  /\ resumePlan # NoPlan => \A s \in resumePlan : Exists(sessions[s]) => sessions[s].sessionFile # NoFile

Judgeable(s) == Active(sessions[s]) /\ s \in preexistingIds /\ ~sessions[s].grace

\* One life of the session at most between the hub and daemon d: a start on its way, a child,
\* or an end on its way; none once the hub knows of the end.
Single(d, s) ==
  /\ AtMostOne(down[conn], StartsOf(s)) /\ AtMostOne(up[conn], EndsOf(s))
  /\ \A a, b \in Kids(d, s) : a = b
  /\ None(down[conn], StartsOf(s)) \/ (None(up[conn], EndsOf(s)) /\ Kids(d, s) = {})
  /\ None(up[conn], EndsOf(s)) \/ Kids(d, s) = {}
  /\ Terminal(sessions[s]) =>
       None(down[conn], StartsOf(s)) /\ None(up[conn], EndsOf(s)) /\ Kids(d, s) = {}

\* Or there are any number, but all resume its one transcript.
Uniform(d, s) ==
  /\ sessions[s].sessionFile # NoFile
  /\ None(down[conn], OtherStarts(s, sessions[s].sessionFile))
  /\ None(up[conn], OtherReadies(s, sessions[s].sessionFile))
  /\ \A c \in Kids(d, s) : child[c].resume = sessions[s].sessionFile

\* So at most one is in the table, and every one that is past spawning.
Tabled(d, s) ==
  /\ \A c \in Spawned(d, s) : child[c].mapped
  /\ \A a, b \in Spawned(d, s) : a = b

\* A record a heartbeat may judge has its child in the table; no heartbeat on its way denies
\* that, nor one that is ahead of the child's end.
Judgement(d, s) ==
  Judgeable(s) =>
    /\ None(down[conn], StartsOf(s))
    /\ Kids(d, s) = Spawned(d, s)
    /\ Kids(d, s) # {} => None(up[conn], Denials(s))
    /\ NotBehind(up[conn], Denials(s), EndsOf(s))

\* What the hub, its agent and the frames between them know of one session.
PipeOK(d, s) ==
  /\ Single(d, s) \/ Uniform(d, s)
  /\ resumePlan # NoPlan /\ s \in resumePlan => Uniform(d, s)
  /\ Tabled(d, s)
  /\ Judgement(d, s)
PipesOK ==
  \A d \in Daemon : conn # NoSocket /\ socket[d] = conn =>
    \A s \in Session : Exists(sessions[s]) => PipeOK(d, s)

CalmInv == SysValid /\ OneAgent /\ SocketsOK /\ NoneFail /\ Resumable /\ PipesOK

\* What the queues' reader leaves of them.
LEMMA TailKeeps ==
  ASSUME NEW F, NEW q \in Seq(F), q # <<>>, NEW S
  PROVE  /\ None(q, S) => None(Tail(q), S)
         /\ AtMostOne(q, S) => AtMostOne(Tail(q), S)
         /\ AtMostOne(q, S) /\ Head(q) \in S => None(Tail(q), S)
         /\ \A B : NotBehind(q, S, B) => NotBehind(Tail(q), S, B)
         /\ \A B : NotBehind(q, S, B) /\ Head(q) \in S => None(Tail(q), B)
         /\ None(q, S) => Head(q) \notin S
<1>1. /\ Len(q) \in Nat /\ Len(q) > 0 /\ DOMAIN q = 1..Len(q) /\ Head(q) = q[1] /\ 1 \in DOMAIN q
      /\ Len(Tail(q)) = Len(q) - 1 /\ DOMAIN Tail(q) = 1..(Len(q) - 1)
      /\ \A i \in 1..(Len(q) - 1) : Tail(q)[i] = q[i + 1]
  OBVIOUS
<1>2. \A i \in DOMAIN Tail(q) : i \in Nat /\ i + 1 \in DOMAIN q /\ Tail(q)[i] = q[i + 1] /\ i + 1 # 1 /\ 1 < i + 1
  BY <1>1
<1>3. \A i, j \in DOMAIN Tail(q) : (i + 1 = j + 1 => i = j) /\ (i < j => i + 1 < j + 1)
  BY <1>1
<1> HIDE <1>1
<1>4. None(q, S) => None(Tail(q), S)
  BY <1>2 DEF None
<1>5. AtMostOne(q, S) => AtMostOne(Tail(q), S)
  BY <1>2, <1>3 DEF AtMostOne
<1>6. AtMostOne(q, S) /\ Head(q) \in S => None(Tail(q), S)
  BY <1>1, <1>2 DEF AtMostOne, None
<1>7. ASSUME NEW B, NotBehind(q, S, B) PROVE NotBehind(Tail(q), S, B)
  BY <1>2, <1>3, <1>7 DEF NotBehind
<1>8. ASSUME NEW B, NotBehind(q, S, B), Head(q) \in S PROVE None(Tail(q), B)
  BY <1>1, <1>2, <1>8 DEF NotBehind, None
<1>9. None(q, S) => Head(q) \notin S
  BY <1>1 DEF None
<1> QED BY <1>4, <1>5, <1>6, <1>7, <1>8, <1>9

\* What a writer adds to them.
LEMMA ConcatKeeps ==
  ASSUME NEW F, NEW q \in Seq(F), NEW r \in Seq(F), NEW S
  PROVE  /\ None(q, S) /\ None(r, S) => None(q \o r, S)
         /\ AtMostOne(q, S) /\ None(r, S) => AtMostOne(q \o r, S)
         /\ None(q, S) /\ AtMostOne(r, S) => AtMostOne(q \o r, S)
         /\ \A B : NotBehind(q, S, B) /\ None(r, B) => NotBehind(q \o r, S, B)
<1>1. /\ Len(q) \in Nat /\ Len(r) \in Nat /\ DOMAIN q = 1..Len(q) /\ DOMAIN r = 1..Len(r)
      /\ DOMAIN (q \o r) = 1..(Len(q) + Len(r))
      /\ \A i \in 1..(Len(q) + Len(r)) : (q \o r)[i] = IF i <= Len(q) THEN q[i] ELSE r[i - Len(q)]
  OBVIOUS
<1> DEFINE n == Len(q)
<1>2. \A i \in DOMAIN (q \o r) :
        /\ i \in Nat
        /\ \/ i \in DOMAIN q /\ (q \o r)[i] = q[i] /\ i <= n
           \/ i - n \in DOMAIN r /\ (q \o r)[i] = r[i - n] /\ i > n
  BY <1>1
<1>3. n \in Nat
  BY <1>1
<1>i. \A i, j \in DOMAIN (q \o r) : i - n = j - n => i = j
  BY <1>2, <1>3
<1> HIDE DEF n
<1>4. None(q, S) /\ None(r, S) => None(q \o r, S)
  BY <1>2 DEF None
<1>5. AtMostOne(q, S) /\ None(r, S) => AtMostOne(q \o r, S)
  BY <1>2 DEF None, AtMostOne
<1>6. None(q, S) /\ AtMostOne(r, S) => AtMostOne(q \o r, S)
  BY <1>2, <1>i DEF None, AtMostOne
<1>7. \A B : NotBehind(q, S, B) /\ None(r, B) => NotBehind(q \o r, S, B)
  <2> SUFFICES ASSUME NEW B, NotBehind(q, S, B), None(r, B), NEW i \in DOMAIN (q \o r), NEW j \in DOMAIN (q \o r),
                      i < j, (q \o r)[i] \in S
               PROVE  (q \o r)[j] \notin B
    BY DEF NotBehind
  <2>1. CASE j - n \in DOMAIN r /\ (q \o r)[j] = r[j - n]
    BY <2>1 DEF None
  <2>2. CASE j \in DOMAIN q /\ (q \o r)[j] = q[j] /\ j <= n
    <3>1. i \in DOMAIN q /\ (q \o r)[i] = q[i]
      BY <1>2, <1>3, <2>2
    <3> QED BY <2>2, <3>1 DEF NotBehind
  <2> QED BY <1>2, <2>1, <2>2
<1> QED BY <1>4, <1>5, <1>6, <1>7

\* Adding one frame.
LEMMA OneKeeps ==
  ASSUME NEW F, NEW q \in Seq(F), NEW f \in F, NEW S
  PROVE  /\ None(q, S) /\ f \notin S => None(q \o <<f>>, S)
         /\ AtMostOne(q, S) /\ f \notin S => AtMostOne(q \o <<f>>, S)
         /\ None(q, S) => AtMostOne(q \o <<f>>, S)
         /\ \A B : NotBehind(q, S, B) /\ f \notin B => NotBehind(q \o <<f>>, S, B)
<1>1. <<f>> \in Seq(F) /\ DOMAIN <<f>> = {1} /\ <<f>>[1] = f
  OBVIOUS
<1>2. AtMostOne(<<f>>, S) /\ (f \notin S => None(<<f>>, S)) /\ (\A B : f \notin B => None(<<f>>, B))
  BY <1>1 DEF None, AtMostOne
<1> QED BY <1>1, <1>2, ConcatKeeps

\* The simple facts about them.
LEMMA NoneFacts ==
  ASSUME NEW q, NEW S, None(q, S)
  PROVE  AtMostOne(q, S) /\ \A B : NotBehind(q, S, B) /\ NotBehind(q, B, S)
BY DEF None, AtMostOne, NotBehind

LEMMA EmptyFacts ==
  ASSUME NEW S
  PROVE  None(<<>>, S)
BY DEF None

\* Which frames belong to which sets.
LEMMA FramesAre ==
  ASSUME SysValid, NEW s \in Session
  PROVE  /\ \A f \in DownFrame : /\ f \in StartsOf(s) <=> f.t = "start" /\ f.id = s
                                 /\ \A file \in Known :
                                      f \in OtherStarts(s, file) <=> f.t = "start" /\ f.id = s /\ f.file # file
         /\ \A f \in UpFrame : /\ f \in EndsOf(s) <=> f.t \in {"error", "exit"} /\ f.id = s
                               /\ f \in Denials(s) <=> f.t = "hb" /\ f.sessions[s] = "none"
                               /\ \A file \in Known :
                                    f \in OtherReadies(s, file) <=> f.t = "ready" /\ f.id = s /\ f.file # file
<1>1. Known \subseteq File \cup {NoFile} /\ OnDisk \subseteq File
  BY DEF Known, OnDisk
<1>2. ASSUME NEW f \in DownFrame, NEW file \in Known
      PROVE  /\ f \in StartsOf(s) <=> f.t = "start" /\ f.id = s
             /\ f \in OtherStarts(s, file) <=> f.t = "start" /\ f.id = s /\ f.file # file
  BY <1>1 DEF DownFrame, StartsOf, OtherStarts
<1>3. ASSUME NEW f \in UpFrame, NEW file \in Known
      PROVE  f \in OtherReadies(s, file) <=> f.t = "ready" /\ f.id = s /\ f.file # file
  BY <1>1 DEF UpFrame, OtherReadies
<1>4. ASSUME NEW f \in UpFrame
      PROVE  f \in EndsOf(s) <=> f.t \in {"error", "exit"} /\ f.id = s
  BY DEF UpFrame, EndsOf
<1>5. ASSUME NEW f \in UpFrame
      PROVE  f \in Denials(s) <=> f.t = "hb" /\ f.sessions[s] = "none"
  BY DEF UpFrame, Denials
<1>6. NoFile \in Known
  BY DEF Known
<1> QED BY <1>2, <1>3, <1>4, <1>5, <1>6

\* A queue on which there is nothing that was not there, in the order it was in.
Less(q, r) ==
  \A S : /\ None(q, S) => None(r, S)
         /\ AtMostOne(q, S) => AtMostOne(r, S)
         /\ \A B : NotBehind(q, S, B) => NotBehind(r, S, B)

LEMMA TailLess ==
  ASSUME NEW F, NEW q \in Seq(F), q # <<>>
  PROVE  Less(q, Tail(q))
<1> SUFFICES ASSUME NEW S, NEW B
             PROVE  /\ None(q, S) => None(Tail(q), S)
                    /\ AtMostOne(q, S) => AtMostOne(Tail(q), S)
                    /\ NotBehind(q, S, B) => NotBehind(Tail(q), S, B)
  BY DEF Less
<1> QED BY TailKeeps

LEMMA SameLess == ASSUME NEW q PROVE Less(q, q)
BY DEF Less

\* What a step may leave as it was, for the pipe between the hub and daemon d: what the hub
\* knows of session s, the starts on their way, the news on its way, the children.
HubStill(s) ==
  /\ Active(sessions'[s]) <=> Active(sessions[s])
  /\ Terminal(sessions'[s]) <=> Terminal(sessions[s])
  /\ sessions'[s].sessionFile = sessions[s].sessionFile /\ sessions'[s].grace = sessions[s].grace
  /\ s \in preexistingIds' => s \in preexistingIds
  /\ resumePlan' # NoPlan /\ s \in resumePlan' => resumePlan # NoPlan /\ s \in resumePlan
DownStill(s) ==
  /\ None(down[conn], StartsOf(s)) => None(down'[conn], StartsOf(s))
  /\ AtMostOne(down[conn], StartsOf(s)) => AtMostOne(down'[conn], StartsOf(s))
  /\ None(down[conn], OtherStarts(s, sessions[s].sessionFile)) =>
       None(down'[conn], OtherStarts(s, sessions[s].sessionFile))
UpStill(d, s) ==
  /\ None(up[conn], EndsOf(s)) => None(up'[conn], EndsOf(s))
  /\ AtMostOne(up[conn], EndsOf(s)) => AtMostOne(up'[conn], EndsOf(s))
  /\ Uniform(d, s) => None(up'[conn], OtherReadies(s, sessions[s].sessionFile))
  /\ Judgeable(s) /\ Kids(d, s) # {} => None(up'[conn], Denials(s))
  /\ Judgeable(s) => NotBehind(up'[conn], Denials(s), EndsOf(s))
KidsStill(d, s) ==
  /\ Kids(d, s)' = Kids(d, s)
  /\ Spawned(d, s)' = Spawned(d, s)
  /\ \A c \in Kids(d, s) : child'[c].resume = child[c].resume /\ (child[c].mapped => child'[c].mapped)

\* A step that leaves it all.
LEMMA PipeRests ==
  ASSUME NEW d \in Daemon, NEW s \in Session, PipeOK(d, s), conn' = conn,
         HubStill(s), DownStill(s), UpStill(d, s), KidsStill(d, s)
  PROVE  PipeOK(d, s)'
<1>1. Judgeable(s)' => Judgeable(s)
  BY DEF HubStill, Judgeable
<1>2. Spawned(d, s) \subseteq Kids(d, s)
  BY DEF Spawned
<1>3. Single(d, s) => Single(d, s)'
  BY DEF Single, HubStill, DownStill, UpStill, KidsStill
<1>4. Uniform(d, s) => Uniform(d, s)'
  BY DEF Uniform, HubStill, DownStill, UpStill, KidsStill
<1>5. Tabled(d, s)'
  BY <1>2 DEF PipeOK, Tabled, KidsStill
<1>6. Judgement(d, s)'
  BY <1>1 DEF PipeOK, Judgement, DownStill, UpStill, KidsStill
<1> QED BY <1>3, <1>4, <1>5, <1>6 DEF PipeOK, HubStill

\* The daemon reads a start and refuses it.
LEMMA PipeRefuses ==
  ASSUME NEW d \in Daemon, NEW s \in Session, PipeOK(d, s), SysValid, conn' = conn, conn # NoSocket,
         HubStill(s), KidsStill(d, s),
         down[conn] # <<>>, Head(down[conn]) \in StartsOf(s), down'[conn] = Tail(down[conn]),
         up'[conn] = up[conn] \o <<ErrorFrame(s)>>, s \in Minted
  PROVE  PipeOK(d, s)'
<1>t. /\ down[conn] \in Seq(DownFrame) /\ up[conn] \in Seq(UpFrame) /\ ErrorFrame(s) \in UpFrame
      /\ sessions[s].sessionFile \in Known
  BY FramesMade DEF SysValid, HubTypeOK, HubFramesValid, ClientsValid, RecordsValid
<1>1. ~None(down[conn], StartsOf(s))
  BY <1>t, TailKeeps
<1>2. ~Judgeable(s)'
  BY <1>1 DEF PipeOK, Judgement, HubStill, Judgeable
<1>3. Single(d, s) => Single(d, s)'
  <2> SUFFICES ASSUME Single(d, s) PROVE Single(d, s)'
    OBVIOUS
  <2>1. None(up[conn], EndsOf(s)) /\ Kids(d, s) = {} /\ ~Terminal(sessions[s]) /\ AtMostOne(down[conn], StartsOf(s))
    BY <1>1 DEF Single
  <2>2. None(down'[conn], StartsOf(s)) /\ AtMostOne(down'[conn], StartsOf(s))
    BY <1>t, <2>1, TailKeeps
  <2>3. AtMostOne(up'[conn], EndsOf(s))
    BY <1>t, <2>1, OneKeeps
  <2> QED BY <2>1, <2>2, <2>3 DEF Single, HubStill, KidsStill
<1>4. Uniform(d, s) => Uniform(d, s)'
  <2> SUFFICES ASSUME Uniform(d, s) PROVE Uniform(d, s)'
    OBVIOUS
  <2>u. None(down[conn], OtherStarts(s, sessions[s].sessionFile))
    BY DEF Uniform
  <2>1. None(down'[conn], OtherStarts(s, sessions[s].sessionFile))
    BY <1>t, <2>u, TailKeeps
  <2>2. ErrorFrame(s) \notin OtherReadies(s, sessions[s].sessionFile)
    BY DEF ErrorFrame, OtherReadies
  <2>3. None(up'[conn], OtherReadies(s, sessions[s].sessionFile))
    <3>1. None(up[conn], OtherReadies(s, sessions[s].sessionFile))
      BY DEF Uniform
    <3> QED BY <1>t, <2>2, <3>1, OneKeeps
  <2> QED BY <2>1, <2>3 DEF Uniform, HubStill, KidsStill
<1>5. Tabled(d, s)'
  BY DEF PipeOK, Tabled, KidsStill, Spawned
<1>6. Judgement(d, s)'
  BY <1>2 DEF Judgement
<1> QED BY <1>3, <1>4, <1>5, <1>6 DEF PipeOK, HubStill

\* The daemon reads a start and obeys it.
LEMMA PipeAccepts ==
  ASSUME NEW d \in Daemon, NEW s \in Session, NEW c \in Child, PipeOK(d, s), SysValid, conn' = conn,
         conn # NoSocket, HubStill(s),
         down[conn] # <<>>, Head(down[conn]) \in StartsOf(s), down'[conn] = Tail(down[conn]),
         up'[conn] = up[conn],
         c \notin Kids(d, s), Kids(d, s)' = Kids(d, s) \cup {c}, Spawned(d, s)' = Spawned(d, s),
         child'[c].resume = Head(down[conn]).file, \A x \in Child \ {c} : child'[x] = child[x]
  PROVE  PipeOK(d, s)'
<1>t. /\ down[conn] \in Seq(DownFrame) /\ up[conn] \in Seq(UpFrame)
      /\ sessions[s].sessionFile \in Known
  BY DEF SysValid, HubTypeOK, HubFramesValid, ClientsValid, RecordsValid
<1>k. Spawned(d, s) \subseteq Kids(d, s) /\ Kids(d, s) \subseteq Child
  BY DEF Spawned, Kids
<1>1. ~None(down[conn], StartsOf(s))
  BY <1>t, TailKeeps
<1>2. ~Judgeable(s)'
  BY <1>1 DEF PipeOK, Judgement, HubStill, Judgeable
<1>3. Single(d, s) => Single(d, s)'
  <2> SUFFICES ASSUME Single(d, s) PROVE Single(d, s)'
    OBVIOUS
  <2>1. None(up[conn], EndsOf(s)) /\ Kids(d, s) = {} /\ ~Terminal(sessions[s]) /\ AtMostOne(down[conn], StartsOf(s))
        /\ AtMostOne(up[conn], EndsOf(s))
    BY <1>1 DEF Single
  <2>2. None(down'[conn], StartsOf(s)) /\ AtMostOne(down'[conn], StartsOf(s))
    BY <1>t, <2>1, TailKeeps
  <2> QED BY <2>1, <2>2 DEF Single, HubStill
<1>4. Uniform(d, s) => Uniform(d, s)'
  <2> SUFFICES ASSUME Uniform(d, s) PROVE Uniform(d, s)'
    OBVIOUS
  <2>u. None(down[conn], OtherStarts(s, sessions[s].sessionFile))
    BY DEF Uniform
  <2>1. None(down'[conn], OtherStarts(s, sessions[s].sessionFile))
    BY <1>t, <2>u, TailKeeps
  <2>2. Head(down[conn]).file = sessions[s].sessionFile
    <3>1. Head(down[conn]) \notin OtherStarts(s, sessions[s].sessionFile)
      BY <1>t, TailKeeps DEF Uniform
    <3>2. Head(down[conn]) \in DownFrame
      BY <1>t
    <3> QED BY <1>t, <3>1, <3>2, FramesAre
  <2> QED BY <1>k, <2>1, <2>2 DEF Uniform, HubStill
<1>5. Tabled(d, s)'
  <2>1. \A x \in Spawned(d, s) : child'[x] = child[x]
    BY <1>k
  <2> QED BY <2>1 DEF PipeOK, Tabled
<1>6. Judgement(d, s)'
  BY <1>2 DEF Judgement
<1> QED BY <1>3, <1>4, <1>5, <1>6 DEF PipeOK, HubStill

\* A child gets past spawning.
LEMMA PipeSpawns ==
  ASSUME NEW d \in Daemon, NEW s \in Session, NEW c \in Kids(d, s), PipeOK(d, s), SysValid,
         conn' = conn, conn # NoSocket, HubStill(s), DownStill(s), UpStill(d, s),
         child[c].st = "spawning", child[c].resume # NoFile => ~InUse(d, child[c].resume),
         Kids(d, s)' = Kids(d, s), Spawned(d, s)' = Spawned(d, s) \cup {c}, child'[c].mapped,
         \A x \in Kids(d, s) : child'[x].resume = child[x].resume
  PROVE  PipeOK(d, s)'
<1>t. Spawned(d, s) \subseteq Kids(d, s) /\ Kids(d, s) \subseteq Child /\ c \notin Spawned(d, s)
  BY DEF Spawned, Kids
<1>1. ~Judgeable(s)'
  BY <1>t DEF PipeOK, Judgement, HubStill, Judgeable
<1>2. Spawned(d, s) = {}
  <2>1. CASE Single(d, s)
    BY <1>t, <2>1 DEF Single
  <2>2. CASE Uniform(d, s)
    <3> SUFFICES ASSUME NEW x \in Spawned(d, s) PROVE FALSE
      OBVIOUS
    <3>1. child[c].resume # NoFile /\ child[x].resume = child[c].resume
      BY <1>t, <2>2 DEF Uniform
    <3>2. child[x].mapped
      BY DEF PipeOK, Tabled
    <3>3. x \in Slots(d)
      BY <1>t, <3>2 DEF Slots, Mapped, Spawned, Kids
    <3> QED BY <3>1, <3>3 DEF InUse
  <2> QED BY <2>1, <2>2 DEF PipeOK
<1>3. Single(d, s) => Single(d, s)'
  BY DEF Single, HubStill, DownStill, UpStill
<1>4. Uniform(d, s) => Uniform(d, s)'
  BY DEF Uniform, HubStill, DownStill, UpStill
<1>5. Tabled(d, s)'
  BY <1>2 DEF Tabled
<1>6. Judgement(d, s)'
  BY <1>1 DEF Judgement
<1> QED BY <1>3, <1>4, <1>5, <1>6 DEF PipeOK, HubStill

\* A child's life ends, and news of that is on its way.
LEMMA PipeEnds ==
  ASSUME NEW d \in Daemon, NEW s \in Session, NEW c \in Kids(d, s), NEW f \in EndsOf(s), PipeOK(d, s),
         SysValid, conn' = conn, conn # NoSocket, HubStill(s), DownStill(s),
         up'[conn] = up[conn] \o <<f>>,
         Kids(d, s)' = Kids(d, s) \ {c}, Spawned(d, s)' = Spawned(d, s) \ {c},
         \A x \in Kids(d, s) \ {c} : child'[x].resume = child[x].resume,
         c \in Spawned(d, s) \/ \A x \in Kids(d, s) \ {c} : child'[x].mapped = child[x].mapped
  PROVE  PipeOK(d, s)'
<1>t. up[conn] \in Seq(UpFrame \cup {f}) /\ Spawned(d, s) \subseteq Kids(d, s)
  BY DEF SysValid, HubTypeOK, ClientsValid, Spawned
<1>1. Judgeable(s)' => Judgeable(s)
  BY DEF HubStill, Judgeable
<1>3. Single(d, s) => Single(d, s)'
  <2> SUFFICES ASSUME Single(d, s) PROVE Single(d, s)'
    OBVIOUS
  <2>1. /\ None(down[conn], StartsOf(s)) /\ None(up[conn], EndsOf(s)) /\ Kids(d, s) = {c}
        /\ ~Terminal(sessions[s]) /\ AtMostOne(down[conn], StartsOf(s))
    BY DEF Single
  <2>2. None(down'[conn], StartsOf(s)) /\ AtMostOne(down'[conn], StartsOf(s))
    BY <2>1 DEF DownStill
  <2>3. AtMostOne(up'[conn], EndsOf(s))
    BY <1>t, <2>1, OneKeeps
  <2> QED BY <2>1, <2>2, <2>3 DEF Single, HubStill
<1>4. Uniform(d, s) => Uniform(d, s)'
  <2> SUFFICES ASSUME Uniform(d, s) PROVE Uniform(d, s)'
    OBVIOUS
  <2>1. None(up[conn], OtherReadies(s, sessions[s].sessionFile)) /\ f \notin OtherReadies(s, sessions[s].sessionFile)
    BY DEF Uniform, EndsOf, OtherReadies
  <2>2. None(up'[conn], OtherReadies(s, sessions[s].sessionFile))
    BY <1>t, <2>1, OneKeeps
  <2> QED BY <2>2 DEF Uniform, HubStill, DownStill
<1>5. Tabled(d, s)'
  BY <1>t DEF PipeOK, Tabled
<1>6. Judgement(d, s)'
  <2> SUFFICES ASSUME Judgeable(s)
               PROVE  /\ None(down'[conn], StartsOf(s))
                      /\ Kids(d, s)' = Spawned(d, s)'
                      /\ None(up'[conn], Denials(s))
                      /\ NotBehind(up'[conn], Denials(s), EndsOf(s))
    BY <1>1 DEF Judgement
  <2>1. None(down[conn], StartsOf(s)) /\ Kids(d, s) = Spawned(d, s) /\ None(up[conn], Denials(s))
    BY DEF PipeOK, Judgement
  <2>2. f \notin Denials(s)
    BY DEF EndsOf, Denials
  <2>3. None(up'[conn], Denials(s))
    BY <1>t, <2>1, <2>2, OneKeeps
  <2> QED BY <2>1, <2>3, NoneFacts DEF DownStill
<1> QED BY <1>3, <1>4, <1>5, <1>6 DEF PipeOK, HubStill

\* What the hub's own steps leave alone.
KidsRest(d, s) ==
  /\ Kids(d, s)' = Kids(d, s) /\ Spawned(d, s)' = Spawned(d, s)
  /\ \A c \in Kids(d, s) : child'[c] = child[c]
PlanStill(s) == resumePlan' # NoPlan /\ s \in resumePlan' => resumePlan # NoPlan /\ s \in resumePlan

\* The hub hears that a child's life ended.
LEMMA PipeHears ==
  ASSUME NEW d \in Daemon, NEW s \in Session, PipeOK(d, s), SysValid, conn' = conn, conn # NoSocket,
         KidsRest(d, s), PlanStill(s), DownStill(s),
         up[conn] # <<>>, Head(up[conn]) \in EndsOf(s), up'[conn] = Tail(up[conn]),
         Exists(sessions[s]), ~Active(sessions'[s]), sessions'[s].sessionFile = sessions[s].sessionFile
  PROVE  PipeOK(d, s)'
<1>t. /\ up[conn] \in Seq(UpFrame) /\ Spawned(d, s) \subseteq Kids(d, s)
  BY DEF SysValid, HubTypeOK, ClientsValid, Spawned
<1>1. ~None(up[conn], EndsOf(s))
  BY <1>t, TailKeeps
<1>3. Single(d, s) => Single(d, s)'
  <2> SUFFICES ASSUME Single(d, s) PROVE Single(d, s)'
    OBVIOUS
  <2>1. None(down[conn], StartsOf(s)) /\ Kids(d, s) = {} /\ AtMostOne(up[conn], EndsOf(s))
        /\ AtMostOne(down[conn], StartsOf(s))
    BY <1>1 DEF Single
  <2>2. None(up'[conn], EndsOf(s)) /\ AtMostOne(up'[conn], EndsOf(s))
    BY <1>t, <2>1, TailKeeps
  <2> QED BY <2>1, <2>2 DEF Single, DownStill, KidsRest
<1>4. Uniform(d, s) => Uniform(d, s)'
  <2> SUFFICES ASSUME Uniform(d, s) PROVE Uniform(d, s)'
    OBVIOUS
  <2>1. None(up[conn], OtherReadies(s, sessions[s].sessionFile))
    BY DEF Uniform
  <2>2. None(up'[conn], OtherReadies(s, sessions[s].sessionFile))
    BY <1>t, <2>1, TailKeeps
  <2> QED BY <2>2 DEF Uniform, DownStill, KidsRest
<1>5. Tabled(d, s)'
  BY <1>t DEF PipeOK, Tabled, KidsRest
<1>6. Judgement(d, s)'
  BY DEF Judgement, Judgeable
<1> QED BY <1>3, <1>4, <1>5, <1>6 DEF PipeOK, PlanStill

\* The hub hears that a child is ready, and with which transcript.
LEMMA PipeReady ==
  ASSUME NEW d \in Daemon, NEW s \in Session, NEW file \in OnDisk, PipeOK(d, s), SysValid,
         conn' = conn, conn # NoSocket, KidsRest(d, s), PlanStill(s),
         s \in preexistingIds' => s \in preexistingIds, down' = down,
         up[conn] # <<>>, Head(up[conn]) = [t |-> "ready", id |-> s, file |-> file],
         up'[conn] = Tail(up[conn]), sessions'[s] = MarkReady(sessions[s], file)
  PROVE  PipeOK(d, s)'
<1>t. /\ up[conn] \in Seq(UpFrame) /\ Spawned(d, s) \subseteq Kids(d, s) /\ sessions[s] \in Record
      /\ Head(up[conn]) \in UpFrame /\ file # NoFile /\ sessions[s].sessionFile \in Known
  BY AgentAssumption, NoFileAssumption DEF SysValid, HubTypeOK, ClientsValid, RecordsValid, Spawned, OnDisk
<1>1. /\ Active(sessions'[s]) <=> Active(sessions[s])
      /\ Terminal(sessions'[s]) <=> Terminal(sessions[s])
      /\ sessions'[s].grace = sessions[s].grace
      /\ sessions'[s].sessionFile \in {sessions[s].sessionFile, file}
  BY <1>t DEF Record, MarkReady, Active, Terminal, ActiveStatus, TerminalStatus
<1>2. Judgeable(s)' => Judgeable(s)
  BY <1>1 DEF Judgeable
<1>3. Less(up[conn], up'[conn])
  BY <1>t, TailLess
<1>4. Single(d, s) => Single(d, s)'
  BY <1>1, <1>3 DEF Single, Less, KidsRest
<1>5. Uniform(d, s) => Uniform(d, s)'
  <2> SUFFICES ASSUME Uniform(d, s) PROVE Uniform(d, s)'
    OBVIOUS
  <2>1. None(up[conn], OtherReadies(s, sessions[s].sessionFile))
    BY DEF Uniform
  <2>2. Head(up[conn]) \notin OtherReadies(s, sessions[s].sessionFile)
    BY <1>t, <2>1, TailKeeps
  <2>3. sessions'[s].sessionFile = sessions[s].sessionFile
    BY <1>t, <1>1, <2>2, FramesAre
  <2> QED BY <1>3, <2>3 DEF Uniform, Less, KidsRest
<1>6. Tabled(d, s)'
  BY <1>t DEF PipeOK, Tabled, KidsRest
<1>7. Judgement(d, s)'
  BY <1>2, <1>3 DEF PipeOK, Judgement, Less, KidsRest
<1> QED BY <1>4, <1>5, <1>6, <1>7 DEF PipeOK, PlanStill

\* The hub asks for the first life of a session.
LEMMA PipeBegins ==
  ASSUME NEW d \in Daemon, NEW s \in Session, SysValid, conn' = conn, conn # NoSocket,
         KidsRest(d, s), UNCHANGED <<preexistingIds, resumePlan, up>>,
         s \notin Minted, sessions'[s] = NewRecord,
         down'[conn] = down[conn] \o <<StartFrame(s, NoFile)>>, StartFrame(s, NoFile) \in DownFrame'
  PROVE  PipeOK(d, s)'
<1>t. /\ down[conn] \in Seq(DownFrame) /\ up[conn] \in Seq(UpFrame)
      /\ down[conn] \in Seq(DownFrame \cup DownFrame')
  BY DEF SysValid, HubTypeOK, HubFramesValid, ClientsValid
<1>1. None(down[conn], StartsOf(s)) /\ None(up[conn], EndsOf(s))
  <2>1. \A i \in DOMAIN down[conn] : down[conn][i] \in DownFrame
    BY <1>t
  <2>2. \A i \in DOMAIN up[conn] : up[conn][i] \in UpFrame
    BY <1>t
  <2> QED BY <2>1, <2>2, FramesAre, FramesRead DEF None
<1>2. Kids(d, s) = {} /\ Spawned(d, s) = {}
  BY DEF SysValid, KidsMinted, Kids, Spawned
<1>3. ~Terminal(sessions'[s])
  BY DEF NewRecord, Outside, Terminal, TerminalStatus
<1>4. ~Judgeable(s)' /\ (resumePlan # NoPlan => s \notin resumePlan)
  BY DEF SysValid, IdsValid, Judgeable
<1>5. AtMostOne(down'[conn], StartsOf(s))
  BY <1>t, <1>1, OneKeeps
<1>6. Single(d, s)'
  BY <1>1, <1>2, <1>3, <1>5, NoneFacts DEF Single, KidsRest
<1>7. Tabled(d, s)' /\ Judgement(d, s)'
  BY <1>2, <1>4 DEF Tabled, Judgement, KidsRest
<1> QED BY <1>4, <1>6, <1>7 DEF PipeOK

\* The hub asks for another life of a session that has ended.
LEMMA PipeReissues ==
  ASSUME NEW d \in Daemon, NEW s \in Session, PipeOK(d, s), SysValid, conn' = conn, conn # NoSocket,
         KidsRest(d, s), PlanStill(s), up' = up,
         Terminal(sessions[s]), sessions'[s] = Reissue(sessions[s], FALSE),
         down'[conn] = down[conn] \o <<StartFrame(s, sessions[s].sessionFile)>>
  PROVE  PipeOK(d, s)'
<1> DEFINE f == StartFrame(s, sessions[s].sessionFile)
<1>t. /\ down[conn] \in Seq(DownFrame) /\ sessions[s] \in Record /\ f \in DownFrame
      /\ Spawned(d, s) \subseteq Kids(d, s) /\ sessions[s].sessionFile \in Known
  <2>1. s \in Minted
    BY DEF Minted, Terminal, TerminalStatus
  <2>2. sessions[s].sessionFile \in Known
    BY DEF SysValid, RecordsValid
  <2> QED BY <2>1, <2>2, FramesMade DEF SysValid, HubTypeOK, HubFramesValid, Spawned
<1>1. /\ ~Terminal(sessions'[s]) /\ sessions'[s].grace /\ sessions'[s].sessionFile = sessions[s].sessionFile
  BY <1>t DEF Record, Reissue, Exists, Terminal, TerminalStatus
<1>2. f \notin OtherStarts(s, sessions[s].sessionFile)
  BY DEF StartFrame, OtherStarts
<1> HIDE DEF f
<1>3. down'[conn] = down[conn] \o <<f>>
  BY DEF f
<1>4. Single(d, s) => Single(d, s)'
  <2> SUFFICES ASSUME Single(d, s) PROVE Single(d, s)'
    OBVIOUS
  <2>1. None(down[conn], StartsOf(s)) /\ None(up[conn], EndsOf(s)) /\ Kids(d, s) = {}
    BY DEF Single
  <2>2. AtMostOne(down'[conn], StartsOf(s))
    BY <1>t, <1>3, <2>1, OneKeeps
  <2> QED BY <1>1, <2>1, <2>2, NoneFacts DEF Single, KidsRest
<1>5. Uniform(d, s) => Uniform(d, s)'
  <2> SUFFICES ASSUME Uniform(d, s) PROVE Uniform(d, s)'
    OBVIOUS
  <2>1. None(down[conn], OtherStarts(s, sessions[s].sessionFile))
    BY DEF Uniform
  <2>2. None(down'[conn], OtherStarts(s, sessions[s].sessionFile))
    BY <1>t, <1>2, <1>3, <2>1, OneKeeps
  <2> QED BY <1>1, <2>2 DEF Uniform, KidsRest
<1>6. Tabled(d, s)'
  BY <1>t DEF PipeOK, Tabled, KidsRest
<1>7. Judgement(d, s)'
  BY <1>1 DEF Judgement, Judgeable
<1> QED BY <1>4, <1>5, <1>6, <1>7 DEF PipeOK, PlanStill

\* The hub has the daemon resume what was planned.
LEMMA PipeResumes ==
  ASSUME NEW d \in Daemon, NEW s \in Session, NEW starts \in Seq(DownFrame), PipeOK(d, s), SysValid,
         conn' = conn, conn # NoSocket, KidsRest(d, s), resumePlan # NoPlan, s \in resumePlan,
         up[conn] # <<>>, up'[conn] = Tail(up[conn]),
         sessions'[s].grace, sessions'[s].sessionFile = sessions[s].sessionFile,
         down'[conn] = down[conn] \o starts, None(starts, OtherStarts(s, sessions[s].sessionFile))
  PROVE  PipeOK(d, s)'
<1>t. /\ down[conn] \in Seq(DownFrame) /\ up[conn] \in Seq(UpFrame) /\ Spawned(d, s) \subseteq Kids(d, s)
  BY DEF SysValid, HubTypeOK, HubFramesValid, ClientsValid, Spawned
<1>1. Less(up[conn], up'[conn])
  BY <1>t, TailLess
<1>2. Uniform(d, s)
  BY DEF PipeOK
<1>3. None(down[conn], OtherStarts(s, sessions[s].sessionFile))
  BY <1>2 DEF Uniform
<1>4. None(down'[conn], OtherStarts(s, sessions[s].sessionFile))
  BY <1>t, <1>3, ConcatKeeps
<1>5. Uniform(d, s)'
  BY <1>1, <1>2, <1>4 DEF Uniform, Less, KidsRest
<1>6. Tabled(d, s)'
  BY <1>t DEF PipeOK, Tabled, KidsRest
<1>7. Judgement(d, s)'
  BY DEF Judgement, Judgeable
<1> QED BY <1>5, <1>6, <1>7 DEF PipeOK

\* The hub retires a session that the heartbeat it reads does not list.
LEMMA PipeRetires ==
  ASSUME NEW d \in Daemon, NEW s \in Session, PipeOK(d, s), SysValid, conn' = conn, conn # NoSocket,
         KidsRest(d, s), PlanStill(s), DownStill(s), Judgeable(s),
         up[conn] # <<>>, Head(up[conn]) \in Denials(s), up'[conn] = Tail(up[conn]),
         ~Active(sessions'[s]), sessions'[s].sessionFile = sessions[s].sessionFile
  PROVE  PipeOK(d, s)'
<1>t. /\ up[conn] \in Seq(UpFrame) /\ Spawned(d, s) \subseteq Kids(d, s)
  BY DEF SysValid, HubTypeOK, ClientsValid, Spawned
<1>1. Kids(d, s) = {} /\ None(down[conn], StartsOf(s)) /\ NotBehind(up[conn], Denials(s), EndsOf(s))
  <2>1. ~None(up[conn], Denials(s))
    BY <1>t, TailKeeps
  <2> QED BY <2>1 DEF PipeOK, Judgement
<1>2. None(up'[conn], EndsOf(s)) /\ None(down'[conn], StartsOf(s))
  BY <1>t, <1>1, TailKeeps DEF DownStill
<1>3. Single(d, s)'
  BY <1>1, <1>2, NoneFacts DEF Single, KidsRest
<1>4. Uniform(d, s) => Uniform(d, s)'
  <2> SUFFICES ASSUME Uniform(d, s) PROVE Uniform(d, s)'
    OBVIOUS
  <2>1. None(up[conn], OtherReadies(s, sessions[s].sessionFile))
    BY DEF Uniform
  <2>2. None(up'[conn], OtherReadies(s, sessions[s].sessionFile))
    BY <1>t, <2>1, TailKeeps
  <2> QED BY <2>2 DEF Uniform, DownStill, KidsRest
<1>5. Tabled(d, s)' /\ Judgement(d, s)'
  BY <1>t, <1>1 DEF Tabled, Judgement, Judgeable, KidsRest
<1> QED BY <1>3, <1>4, <1>5 DEF PipeOK, PlanStill

\* The grace of a session runs out: its child is in the table, or nowhere.
LEMMA PipeGrace ==
  ASSUME NEW d \in Daemon, NEW s \in Session, PipeOK(d, s), SysValid, OneAgent, socket[d] = conn, conn # NoSocket,
         GraceExpires(s), KidsRest(d, s), up' = up, ~SpawnUnderWay(s), ~StaleHeartbeat(s)
  PROVE  PipeOK(d, s)'
<1>t. /\ down[conn] \in Seq(DownFrame) /\ up[conn] \in Seq(UpFrame) /\ conn \in Socket
      /\ Spawned(d, s) \subseteq Kids(d, s) /\ ws[conn] = "agent" /\ sessions[s] \in Record
  BY DEF SysValid, HubTypeOK, HubFramesValid, ClientsValid, Spawned, OneAgent
<1>1. /\ UNCHANGED <<conn, preexistingIds, resumePlan, down>>
      /\ sessions'[s] = [sessions[s] EXCEPT !.grace = FALSE]
  BY DEF GraceExpires, planVars, SysValid, HubTypeOK
<1>2. /\ Active(sessions'[s]) <=> Active(sessions[s]) 
      /\ Terminal(sessions'[s]) <=> Terminal(sessions[s])
      /\ sessions'[s].sessionFile = sessions[s].sessionFile
  BY <1>t, <1>1 DEF Record, Active, Terminal
<1>3. None(down[conn], StartsOf(s))
  <2> SUFFICES ASSUME NEW i \in DOMAIN down[conn], down[conn][i] \in StartsOf(s) PROVE FALSE
    BY DEF None
  <2>1. down[conn][i] \in {StartFrame(s, f) : f \in File \cup {NoFile}}
    BY DEF StartsOf, StartFrame
  <2>2. AgentListens
    BY DEF AgentListens, Held
  <2> QED BY <2>1, <2>2 DEF SpawnUnderWay
<1>4. Kids(d, s) = Spawned(d, s)
  BY DEF SpawnUnderWay, Kids, Spawned
<1>5. None(up[conn], Denials(s))
  <2>1. \A i \in DOMAIN up[conn] : ~(up[conn][i].t = "hb" /\ up[conn][i].sessions[s] = "none")
    BY <1>t DEF StaleHeartbeat
  <2>2. \A i \in DOMAIN up[conn] : up[conn][i] \in UpFrame
    BY <1>t
  <2> QED BY <2>1, <2>2, FramesAre DEF None
<1>6. Judgement(d, s)'
  BY <1>1, <1>3, <1>4, <1>5, NoneFacts DEF Judgement, KidsRest
<1>7. Single(d, s) => Single(d, s)'
  BY <1>1, <1>2 DEF Single, KidsRest
<1>8. Uniform(d, s) => Uniform(d, s)'
  BY <1>1, <1>2 DEF Uniform, KidsRest
<1>9. Tabled(d, s)'
  BY <1>t DEF PipeOK, Tabled, KidsRest
<1> QED BY <1>1, <1>6, <1>7, <1>8, <1>9 DEF PipeOK

\* The hub takes a daemon that has no children for its agent.
LEMMA PipeOpens ==
  ASSUME NEW d \in Daemon, NEW s \in Session, NEW k \in Socket, SysValid, SocketsOK, conn' = k, socket[d] = k,
         ws[k] = "open", k # NoSocket, UNCHANGED <<down, child>>, up[k] # <<>>, up'[k] = Tail(up[k]),
         resumePlan' # NoPlan /\ s \in resumePlan' => sessions'[s].sessionFile # NoFile
  PROVE  PipeOK(d, s)'
<1>t. up[k] \in Seq(UpFrame)
  BY DEF SysValid, ClientsValid
<1>1. Kids(d, s)' = {} /\ Spawned(d, s)' = {}
  <2>1. HostsNone(d)
    BY DEF SocketsOK, Unheard
  <2> QED BY <2>1 DEF HostsNone, Kids, Spawned
<1>2. down'[k] = <<>>
  BY DEF SocketsOK
<1>3. /\ None(up[k], EndsOf(s))
      /\ \A file : None(up[k], OtherReadies(s, file))
  BY DEF SocketsOK, None, EndsOf, OtherReadies
<1>4. /\ None(up'[k], EndsOf(s))
      /\ \A file : None(up'[k], OtherReadies(s, file))
  BY <1>t, <1>3, TailKeeps
<1>5. Single(d, s)'
  BY <1>1, <1>2, <1>4, EmptyFacts, NoneFacts DEF Single
<1>6. sessions'[s].sessionFile # NoFile => Uniform(d, s)'
  BY <1>1, <1>2, <1>4, EmptyFacts DEF Uniform
<1>7. Tabled(d, s)'
  BY <1>1 DEF Tabled
<1>8. Judgement(d, s)'
  BY <1>1, <1>2, <1>4, EmptyFacts, NoneFacts DEF Judgement
<1> QED BY <1>5, <1>6, <1>7, <1>8 DEF PipeOK

\* A step of others.
LEMMA KidsAway ==
  ASSUME NEW d \in Daemon, NEW s \in Session,
         \A c \in Child : child[c].host = d \/ child'[c].host = d => child'[c] = child[c]
  PROVE  KidsRest(d, s)
BY DEF KidsRest, Kids, Spawned

LEMMA KidsRestStill ==
  ASSUME NEW d \in Daemon, NEW s \in Session, KidsRest(d, s)
  PROVE  KidsStill(d, s)
BY DEF KidsRest, KidsStill

\* At most, frames are read that are not about the session.
LEMMA PipeHeard ==
  ASSUME NEW d \in Daemon, NEW s \in Session, PipeOK(d, s), conn' = conn, HubStill(s),
         DownStill(s), Less(up[conn], up'[conn]), KidsStill(d, s)
  PROVE  PipeOK(d, s)'
<1>1. UpStill(d, s)
  <2>1. Judgement(d, s)
    BY DEF PipeOK
  <2>2. Uniform(d, s) => None(up[conn], OtherReadies(s, sessions[s].sessionFile))
    BY DEF Uniform
  <2> QED BY <2>1, <2>2 DEF Less, UpStill, Judgement
<1> QED BY <1>1, PipeRests

LEMMA PipeLess ==
  ASSUME NEW d \in Daemon, NEW s \in Session, PipeOK(d, s), conn' = conn, HubStill(s),
         Less(down[conn], down'[conn]), Less(up[conn], up'[conn]), KidsStill(d, s)
  PROVE  PipeOK(d, s)'
BY PipeHeard DEF DownStill, Less

\* The daemon says something else.
LEMMA PipeSays ==
  ASSUME NEW d \in Daemon, NEW s \in Session, PipeOK(d, s), SysValid, conn' = conn, conn # NoSocket,
         HubStill(s), Less(down[conn], down'[conn]), KidsStill(d, s),
         NEW f, up'[conn] = up[conn] \o <<f>>, f \notin EndsOf(s),
         f \in Denials(s) => ~Judgeable(s) \/ Kids(d, s) = {},
         Uniform(d, s) => f \notin OtherReadies(s, sessions[s].sessionFile)
  PROVE  PipeOK(d, s)'
<1>t. up[conn] \in Seq(UpFrame \cup {f})
  BY DEF SysValid, HubTypeOK, ClientsValid
<1>1. DownStill(s)
  BY DEF DownStill, Less
<1>2. UpStill(d, s)
  <2>1. Uniform(d, s) => None(up'[conn], OtherReadies(s, sessions[s].sessionFile))
    <3>1. Uniform(d, s) => None(up[conn], OtherReadies(s, sessions[s].sessionFile))
      BY DEF Uniform
    <3> QED BY <1>t, <3>1, OneKeeps
  <2>2. /\ None(up[conn], EndsOf(s)) => None(up'[conn], EndsOf(s))
        /\ AtMostOne(up[conn], EndsOf(s)) => AtMostOne(up'[conn], EndsOf(s))
    BY <1>t, OneKeeps
  <2>3. Judgeable(s) => /\ Kids(d, s) # {} => None(up[conn], Denials(s))
                        /\ NotBehind(up[conn], Denials(s), EndsOf(s))
    BY DEF PipeOK, Judgement
  <2>4. Judgeable(s) => /\ Kids(d, s) # {} => None(up'[conn], Denials(s))
                        /\ NotBehind(up'[conn], Denials(s), EndsOf(s))
    BY <1>t, <2>3, OneKeeps
  <2> QED BY <2>1, <2>2, <2>4 DEF UpStill
<1> QED BY <1>1, <1>2, PipeRests

\* Where the frames on a queue come from.
LEMMA OnQueue ==
  ASSUME NEW F, NEW q \in Seq(F), NEW f \in F
  PROVE  /\ \A i \in DOMAIN (q \o <<f>>) : (q \o <<f>>)[i] = f \/ \E j \in DOMAIN q : (q \o <<f>>)[i] = q[j]
         /\ q # <<>> => \A i \in DOMAIN Tail(q) : \E j \in DOMAIN q : Tail(q)[i] = q[j]
         /\ \A n \in 0..Len(q) : \A i \in DOMAIN SubSeq(q, 1, n) : \E j \in DOMAIN q : SubSeq(q, 1, n)[i] = q[j]
<1>1. ASSUME NEW i \in DOMAIN (q \o <<f>>)
      PROVE  (q \o <<f>>)[i] = f \/ \E j \in DOMAIN q : (q \o <<f>>)[i] = q[j]
  <2>1. DOMAIN q = 1..Len(q) /\ Len(q) \in Nat /\ DOMAIN (q \o <<f>>) = 1..(Len(q) + 1)
    OBVIOUS
  <2>2. CASE i <= Len(q)
    BY <2>1, <2>2
  <2>3. CASE i = Len(q) + 1
    BY <2>1, <2>3
  <2> QED BY <2>1, <2>2, <2>3
<1>2. ASSUME q # <<>>, NEW i \in DOMAIN Tail(q) PROVE \E j \in DOMAIN q : Tail(q)[i] = q[j]
  <2>1. i + 1 \in DOMAIN q /\ Tail(q)[i] = q[i + 1]
    BY <1>2
  <2> QED BY <2>1
<1>3. ASSUME NEW n \in 0..Len(q), NEW i \in DOMAIN SubSeq(q, 1, n)
      PROVE  \E j \in DOMAIN q : SubSeq(q, 1, n)[i] = q[j]
  <2>1. i \in DOMAIN q /\ SubSeq(q, 1, n)[i] = q[i]
    OBVIOUS
  <2> QED BY <2>1
<1> QED BY <1>1, <1>2, <1>3

\* No news on any socket but frames of S.
OnlyNew(S) ==
  \A k \in Socket : \A i \in DOMAIN up'[k] : up'[k][i] \in S \/ \E j \in DOMAIN up[k] : up'[k][i] = up[k][j]

\* What a client's sending amounts to: a daemon that has something to say is connected, or
\* knows that it has been replaced.
LEMMA SendsAre ==
  ASSUME SysValid, SocketsOK, NEW d \in Daemon, NEW f, f.t # "event", ClientSend(d, f),
         Connected(d) \/ ~Unheard(d)
  PROVE  /\ UNCHANGED <<socket, closed, pending, unacked>>
         /\ up' = IF Connected(d) THEN [up EXCEPT ![socket[d]] = @ \o <<f>>] ELSE up
         /\ OnlyNew({f})
<1>1. Connected(d) => ~closed[d]
  BY DEF SocketsOK, Connected
<1>2. ~Connected(d) => closed[d]
  BY DEF Unheard, Connected
<1>3. /\ UNCHANGED <<socket, closed, pending, unacked>>
      /\ up' = IF Connected(d) THEN [up EXCEPT ![socket[d]] = @ \o <<f>>] ELSE up
  BY <1>1, <1>2 DEF ClientSend, Write
<1>4. up \in [Socket -> Seq(UpFrame)]
  BY DEF SysValid, ClientsValid
<1>5. OnlyNew({f})
  <2> SUFFICES ASSUME NEW k \in Socket, NEW i \in DOMAIN up'[k], up'[k] # up[k]
               PROVE  up'[k][i] = f \/ \E j \in DOMAIN up[k] : up'[k][i] = up[k][j]
    BY DEF OnlyNew
  <2>1. up'[k] = up[k] \o <<f>>
    BY <1>3, <1>4
  <2>2. up[k] \in Seq(UpFrame \cup {f})
    BY <1>4
  <2> QED BY <2>1, <2>2, OnQueue
<1> QED BY <1>3, <1>5

\* Nothing fails as long as no child does.
Unfailing(f) == f.t = "hb" => \A s \in Session : f.sessions[s] \in {"none", "starting", "live"}

LEMMA NoneFailKeeps ==
  ASSUME NoneFail, \A c \in Child : child'[c].st # "failed", NEW S, OnlyNew(S), \A f \in S : Unfailing(f)
  PROVE  NoneFail'
<1> SUFFICES ASSUME NEW k \in Socket, NEW i \in DOMAIN up'[k] PROVE Unfailing(up'[k][i])
  BY DEF NoneFail, Unfailing
<1>1. \A j \in DOMAIN up[k] : Unfailing(up[k][j])
  BY DEF NoneFail, Unfailing
<1> QED BY <1>1 DEF OnlyNew

\* What a heartbeat says of a session.
LEMMA StatusSays ==
  ASSUME SysValid, NoneFail, NEW d \in Daemon
  PROVE  /\ Unfailing(HbFrame(d)) /\ HbFrame(d) \in UpFrame
         /\ \A s \in Session : Has(d, s) => HbFrame(d) \notin Denials(s)
<1>1. HbFrame(d) \in UpFrame
  BY StatusTypes, FramesMade DEF HbFrame
<1>2. ASSUME NEW s \in Session
      PROVE  /\ Status(d)[s] \in {"none", "starting", "live"}
             /\ Has(d, s) => Status(d)[s] # "none"
  <2>1. CASE Has(d, s)
    <3>1. PICK c : c = (CHOOSE x \in Mapped(d) : child[x].id = s)
      OBVIOUS
    <3>2. c \in Mapped(d)
      BY <2>1, <3>1 DEF Has
    <3>3. child[c].st \in {"starting", "live"}
      BY <3>2 DEF Mapped, SysValid, KidsValid, NoneFail, Running
    <3> QED BY <2>1, <3>1, <3>3 DEF Status
  <2> QED BY <2>1 DEF Status
<1>3. HbFrame(d).t = "hb" /\ HbFrame(d).sessions = Status(d)
  BY DEF HbFrame
<1> QED BY <1>1, <1>2, <1>3, FramesAre DEF Unfailing

-------------------------------------------------------------------------------
\* What every step is shown to keep.
Calmed == SocketsOK' /\ NoneFail' /\ Resumable' /\ PipesOK'

\* The hub as far as it matters here.
HubSame == UNCHANGED <<sessions, ws, conn, preexistingIds, resumePlan>>

LEMMA HubSameStill ==
  ASSUME HubSame, NEW s \in Session
  PROVE  HubStill(s) /\ PlanStill(s) /\ (Resumable => Resumable')
BY DEF HubSame, HubStill, PlanStill, Resumable

\* A machine that is in touch: the socket of its agent is the hub's.
LEMMA AgentIs ==
  ASSUME CalmInv, conn # NoSocket
  PROVE  conn \in Socket /\ ws[conn] = "agent" /\ down[conn] \in Seq(DownFrame) /\ up[conn] \in Seq(UpFrame)
BY DEF CalmInv, SysValid, HubTypeOK, OneAgent, HubFramesValid, ClientsValid

\* The pipes of daemons that a step does not touch.
LEMMA PipeAway ==
  ASSUME CalmInv, HubSame, NEW d \in Daemon, NEW s \in Session, conn # NoSocket, socket[d] = conn,
         down'[conn] = down[conn], up'[conn] = up[conn], Exists(sessions'[s]), KidsStill(d, s)
  PROVE  PipeOK(d, s)'
<1>1. PipeOK(d, s) /\ conn' = conn
  BY DEF CalmInv, PipesOK, HubSame
<1>2. HubStill(s)
  BY HubSameStill
<1> QED BY <1>1, <1>2, SameLess, PipeLess

\* A daemon connects.
LEMMA ConnectsCalm ==
  ASSUME CalmInv, NEW d \in Daemon, DaemonConnects(d)
  PROVE  Calmed
<1>1. PICK k \in Socket : Upgrade(k) /\ ClientOpens(d, k, HbFrame(d))
  BY DEF DaemonConnects
<1>t. /\ ws \in [Socket -> {"unused", "open", "agent", "closed", "replaced"}]
      /\ socket \in [Daemon -> Socket \cup {NoSocket}] /\ closed \in [Daemon -> BOOLEAN]
      /\ pending = [e \in Daemon |-> <<>>] /\ unacked = [e \in Daemon |-> <<>>]
      /\ up \in [Socket -> Seq(UpFrame)] /\ NoSocket \notin Socket
  BY HubAssumption DEF CalmInv, SysValid, HubTypeOK, ClientsValid, SocketsOK
<1>2. /\ ws[k] = "unused" /\ ws' = [ws EXCEPT ![k] = "open"]
      /\ UNCHANGED <<sessions, conn, preexistingIds, planVars, down, child, phase, closed, unacked>>
      /\ ~closed[d] /\ socket[d] = NoSocket
      /\ socket' = [socket EXCEPT ![d] = k]
      /\ pending' = pending
      /\ up' = [up EXCEPT ![k] = <<HelloFrame, HbFrame(d)>>]
  <2>1. <<HelloFrame, HbFrame(d)>> \o pending[d] \o unacked[d] = <<HelloFrame, HbFrame(d)>>
    BY <1>t
  <2> QED BY <1>1, <1>t, <2>1 DEF Upgrade, ClientOpens, Connected, DaemonConnects, machineVars
<1>3. Alive(d) /\ Unheard(d) /\ HostsNone(d)
  BY <1>2 DEF DaemonConnects, Unheard, CalmInv, SocketsOK
<1>4. SocketsOK'
  <2> USE <1>t, <1>2 DEF CalmInv, SocketsOK
  <2>1. ASSUME NEW a \in Daemon, NEW b \in Daemon, socket'[a] = socket'[b], socket'[a] # NoSocket PROVE a = b
    <3>1. socket[a] # k /\ socket[b] # k
      OBVIOUS
    <3> QED BY <2>1, <3>1
  <2>2. ASSUME NEW a \in Daemon, socket'[a] # NoSocket
        PROVE  Alive(a)' /\ ~closed'[a] /\ ws'[socket'[a]] \notin {"unused", "closed"}
    BY <1>3, <2>2 DEF Alive
  <2>3. ASSUME NEW a \in Daemon, Unheard(a)' PROVE HostsNone(a)' /\ phase'[a] \in {"unborn", "up"}
    BY <1>3, <2>3 DEF Unheard, HostsNone
  <2>4. ASSUME NEW j \in Socket, ws'[j] = "open" PROVE \A i \in DOMAIN up'[j] : up'[j][i].t \in {"hello", "hb"}
    BY <2>4 DEF HelloFrame, HbFrame
  <2>5. \A j \in Socket : ws'[j] \in {"unused", "open"} => down'[j] = <<>>
    OBVIOUS
  <2>6. \A a \in Daemon : pending'[a] = <<>>
    OBVIOUS
  <2> QED BY <2>1, <2>2, <2>3, <2>4, <2>5, <2>6
<1>5. NoneFail'
  <2>1. OnlyNew({HelloFrame, HbFrame(d)})
    BY <1>t, <1>2 DEF OnlyNew
  <2>2. Unfailing(HelloFrame) /\ Unfailing(HbFrame(d))
    BY StatusSays DEF CalmInv, Unfailing, HelloFrame
  <2> QED BY <1>2, <2>1, <2>2, NoneFailKeeps DEF CalmInv, NoneFail
<1>6. Resumable'
  BY <1>2 DEF CalmInv, Resumable, planVars
<1>7. PipesOK'
  <2> SUFFICES ASSUME NEW e \in Daemon, conn' # NoSocket, socket'[e] = conn', NEW s \in Session, Exists(sessions'[s])
               PROVE  PipeOK(e, s)'
    BY DEF PipesOK
  <2>1. conn' = conn /\ conn \in Socket /\ conn # k
    BY <1>2, AgentIs
  <2>2. socket[e] = conn
    BY <1>t, <1>2, <2>1
  <2>3. up'[conn] = up[conn]
    BY <1>t, <1>2, <2>1
  <2>4. PipeOK(e, s) /\ HubStill(s) /\ KidsRest(e, s)
    BY <1>2, <2>1, <2>2, KidsAway DEF CalmInv, PipesOK, HubStill, planVars
  <2> QED BY <1>2, <2>1, <2>3, <2>4, SameLess, PipeLess, KidsRestStill
<1> QED BY <1>4, <1>5, <1>6, <1>7 DEF Calmed

\* Steps of a daemon and its children that leave the sockets as they are.
LEMMA SocketsStay ==
  ASSUME CalmInv, UNCHANGED <<ws, socket, closed, pending>>,
         \A e \in Daemon : Alive(e) => Alive(e)',
         \A e \in Daemon : Unheard(e) => HostsNone(e)' /\ phase'[e] \in {"unborn", "up"},
         \A k \in Socket : down[k] = <<>> => down'[k] = <<>>,
         \A k \in Socket : ws[k] = "open" => \A i \in DOMAIN up'[k] : up'[k][i].t \in {"hello", "hb"}
  PROVE  SocketsOK'
BY DEF CalmInv, SocketsOK, Unheard

\* What only daemons that were heard say is not on the sockets of others.
LEMMA GreetingsStay ==
  ASSUME CalmInv, NEW d \in Daemon, ~Unheard(d), Connected(d), NEW q,
         up' = [up EXCEPT ![socket[d]] = q]
  PROVE  \A k \in Socket : ws[k] = "open" => \A i \in DOMAIN up'[k] : up'[k][i].t \in {"hello", "hb"}
<1>1. \A k \in Socket : ws[k] = "open" => k # socket[d]
  BY DEF CalmInv, SocketsOK, Connected, Unheard
<1>2. \A k \in Socket : ws[k] = "open" => up'[k] = up[k]
  BY <1>1 DEF CalmInv, SysValid, ClientsValid
<1> QED BY <1>2 DEF CalmInv, SocketsOK

\* A daemon sends a heartbeat.
LEMMA BeatsCalm ==
  ASSUME CalmInv, NEW d \in Daemon, DaemonBeats(d)
  PROVE  Calmed
<1>t. /\ socket \in [Daemon -> Socket \cup {NoSocket}] /\ unacked = [e \in Daemon |-> <<>>]
      /\ up \in [Socket -> Seq(UpFrame)] /\ NoSocket \notin Socket
  BY HubAssumption DEF CalmInv, SysValid, HubTypeOK, ClientsValid
<1>1. /\ Alive(d) /\ Connected(d) /\ UNCHANGED <<hubVars, child, phase, socket, closed, pending, unacked>>
      /\ up' = [up EXCEPT ![socket[d]] = @ \o <<HbFrame(d)>>]
  <2>1. <<HbFrame(d)>> \o unacked[d] = <<HbFrame(d)>>
    BY <1>t
  <2> QED BY <2>1 DEF DaemonBeats, ClientHeartbeat, Write, HubRests, machineVars
<1>2. HubSame /\ UNCHANGED down
  BY <1>1 DEF HubSame, hubVars, planVars
<1>h. HbFrame(d) \in UpFrame /\ Unfailing(HbFrame(d)) /\ HbFrame(d).t = "hb"
  BY StatusSays DEF CalmInv, HbFrame
<1>n. OnlyNew({HbFrame(d)})
  <2> SUFFICES ASSUME NEW k \in Socket, NEW i \in DOMAIN up'[k], up'[k] # up[k]
               PROVE  up'[k][i] = HbFrame(d) \/ \E j \in DOMAIN up[k] : up'[k][i] = up[k][j]
    BY DEF OnlyNew
  <2>1. up'[k] = up[k] \o <<HbFrame(d)>>
    BY <1>t, <1>1
  <2> QED BY <1>t, <1>h, <2>1, OnQueue
<1>3. SocketsOK'
  <2>1. \A k \in Socket : ws[k] = "open" => \A i \in DOMAIN up'[k] : up'[k][i].t \in {"hello", "hb"}
    BY <1>n, <1>h DEF OnlyNew, CalmInv, SocketsOK
  <2>2. \A e \in Daemon : Alive(e) => Alive(e)'
    BY <1>1 DEF Alive
  <2>3. \A e \in Daemon : Unheard(e) => HostsNone(e)' /\ phase'[e] \in {"unborn", "up"}
    BY <1>1 DEF CalmInv, SocketsOK, HostsNone
  <2> QED BY <1>1, <1>2, <2>1, <2>2, <2>3, SocketsStay DEF HubSame
<1>4. NoneFail'
  BY <1>1, <1>n, <1>h, NoneFailKeeps DEF CalmInv, NoneFail
<1>5. Resumable'
  BY <1>2, HubSameStill DEF CalmInv, Resumable, HubSame
<1>6. PipesOK'
  <2> SUFFICES ASSUME NEW e \in Daemon, conn # NoSocket, socket[e] = conn, NEW s \in Session, Exists(sessions'[s])
               PROVE  PipeOK(e, s)'
    BY <1>1, <1>2 DEF PipesOK, HubSame
  <2>1. /\ conn \in Socket /\ conn' = conn /\ PipeOK(e, s) /\ HubStill(s) /\ KidsRest(e, s)
    BY <1>1, <1>2, AgentIs, KidsAway, HubSameStill DEF CalmInv, PipesOK, HubSame
  <2>2. CASE e = d
    <3>1. up'[conn] = up[conn] \o <<HbFrame(d)>>
      BY <1>t, <1>1, <2>1, <2>2
    <3>2. HbFrame(d) \notin EndsOf(s) /\ \A file : HbFrame(d) \notin OtherReadies(s, file)
      BY <1>h DEF EndsOf, OtherReadies
    <3>3. HbFrame(d) \in Denials(s) => ~Judgeable(s) \/ Kids(d, s) = {}
      <4> SUFFICES ASSUME Judgeable(s), NEW c \in Kids(d, s) PROVE Has(d, s)
        BY StatusSays DEF CalmInv
      <4>1. c \in Spawned(d, s) /\ child[c].mapped
        BY <2>1, <2>2 DEF PipeOK, Judgement, Tabled
      <4> QED BY <4>1 DEF Has, Mapped, Kids
    <3> QED BY <1>2, <1>h, <2>1, <2>2, <3>1, <3>2, <3>3, SameLess, PipeSays, KidsRestStill DEF CalmInv
  <2>3. CASE e # d
    <3>1. socket[d] # conn
      BY <2>3 DEF CalmInv, SocketsOK
    <3>2. up'[conn] = up[conn]
      BY <1>t, <1>1, <2>1, <3>1
    <3> QED BY <1>1, <1>2, <2>1, <3>2, PipeAway, KidsRestStill
  <2> QED BY <2>2, <2>3
<1> QED BY <1>3, <1>4, <1>5, <1>6 DEF Calmed

\* Being told to stop marks a child and no more.
LEMMA MarksAre ==
  ASSUME SysValid, NEW d \in Daemon, RestartAccepted(d) \/ \E s \in Session : Stop(d, s)
  PROVE  /\ \A c \in Child : /\ child'[c].st = child[c].st /\ child'[c].id = child[c].id
                             /\ child'[c].host = child[c].host /\ child'[c].resume = child[c].resume
                             /\ child'[c].mapped = child[c].mapped
         /\ \A e \in Daemon, s \in Session : KidsStill(e, s)
<1>1. ASSUME NEW c \in Child
      PROVE  /\ child'[c].st = child[c].st /\ child'[c].id = child[c].id
             /\ child'[c].host = child[c].host /\ child'[c].resume = child[c].resume
             /\ child'[c].mapped = child[c].mapped
  <2>1. child[c] \in ChildRecord
    BY DEF SysValid, SupTypeOK
  <2>2. ASSUME NEW reason \in {"user", "upgrade"}
        PROVE  /\ Stopped(child[c], reason).st = child[c].st /\ Stopped(child[c], reason).id = child[c].id
               /\ Stopped(child[c], reason).host = child[c].host
               /\ Stopped(child[c], reason).resume = child[c].resume
               /\ Stopped(child[c], reason).mapped = child[c].mapped
               /\ Stopped(child[c], reason) \in ChildRecord
    BY <2>1 DEF Stopped, ChildRecord
  <2>4. CASE RestartAccepted(d)
    <3>1. PICK r \in ChildRecord : r = Stopped(child[c], "upgrade")
      BY <2>2
    <3>2. child'[c] = [r EXCEPT !.awaited = TRUE] \/ child'[c] = child[c]
      BY <2>4, <3>1 DEF RestartAccepted
    <3>3. /\ r.st = child[c].st /\ r.id = child[c].id /\ r.host = child[c].host
          /\ r.resume = child[c].resume /\ r.mapped = child[c].mapped
      BY <2>2, <3>1
    <3> QED BY <3>2, <3>3 DEF ChildRecord
  <2>5. ASSUME NEW s \in Session, Stop(d, s)
        PROVE  child'[c] = child[c] \/ child'[c] = Stopped(child[c], "user")
    BY <2>5 DEF Stop
  <2> QED BY <2>2, <2>4, <2>5
<1>2. ASSUME NEW e \in Daemon, NEW s \in Session PROVE KidsStill(e, s)
  <2>1. Kids(e, s)' = Kids(e, s)
    BY <1>1 DEF Kids
  <2>2. Spawned(e, s)' = Spawned(e, s)
    BY <1>1, <2>1 DEF Spawned, Kids
  <2> QED BY <1>1, <2>1, <2>2 DEF KidsStill, Kids
<1> QED BY <1>1, <1>2

\* A daemon reads a frame.
LEMMA HandlesCalm ==
  ASSUME CalmInv, NEW d \in Daemon, DaemonHandles(d)
  PROVE  Calmed
<1> DEFINE k == socket[d]
           frame == Head(down[k])
<1>t. /\ socket \in [Daemon -> Socket \cup {NoSocket}]
      /\ up \in [Socket -> Seq(UpFrame)] /\ down \in [Socket -> Seq(DownFrame)]
      /\ child \in [Child -> ChildRecord] /\ phase \in [Daemon -> {"unborn", "up", "stopping", "handing", "dead"}]
  BY DEF CalmInv, SysValid, ClientsValid, HubFramesValid, SupTypeOK
<1>1. /\ Alive(d) /\ Connected(d) /\ k \in Socket /\ down[k] # <<>> /\ down' = [down EXCEPT ![k] = Tail(@)]
      /\ HubSame /\ frame \in DownFrame
  BY <1>t DEF DaemonHandles, DaemonReads, HubSame, planVars, Connected
<1>2. ~Unheard(d)
  BY <1>1 DEF Unheard, Connected, CalmInv, SocketsOK
<1>3. \/ frame.t = "start" /\ OnStart(d, frame.id, frame.file)
      \/ frame.t = "stop" /\ OnStop(d, frame.id)
      \/ frame.t = "restart-daemon" /\ OnRestart(d, frame.reqId)
  BY DEF DaemonHandles
<1>f. /\ frame.t = "start" => frame.id \in Minted /\ frame.id \in Session /\ frame.file \in Known
      /\ frame.t = "stop" => frame.id \in Session
      /\ frame.t = "restart-daemon" => frame.reqId \in 1..lastReqId
      /\ \A s \in Session : frame \in StartsOf(s) <=> frame.t = "start" /\ frame.id = s
  BY <1>1, FramesRead, FramesAre DEF CalmInv, Minted
<1> HIDE DEF frame
<1>p. HubSame /\ (Resumable => Resumable')
  BY <1>1, HubSameStill DEF HubSame, Resumable
\* What is to be shown of a step that makes the daemon say at most f.
<1>c. ASSUME UNCHANGED <<socket, closed, pending>>, phase' = phase \/ phase' = [phase EXCEPT ![d] = "stopping"],
             \A c \in Child : child'[c].st # "failed" /\ child'[c].host \in {child[c].host, d},
             NEW f \in UpFrame, Unfailing(f), OnlyNew({f}),
             up' = up \/ up' = [up EXCEPT ![k] = @ \o <<f>>],
             \A e \in Daemon, s \in Session : e # d => KidsStill(e, s),
             \A s \in Session : PipeOK(d, s) /\ k = conn /\ k' = k /\ conn' = conn /\ HubStill(s)
                                  /\ Less(down[conn], down'[conn]) => PipeOK(d, s)'
      PROVE  Calmed
  <2>1. SocketsOK'
    <3>1. \A e \in Daemon : Alive(e) => Alive(e)'
      BY <1>c, <1>t DEF Alive
    <3>2. \A e \in Daemon : Unheard(e) => HostsNone(e)' /\ phase'[e] \in {"unborn", "up"}
      <4> SUFFICES ASSUME NEW e \in Daemon, Unheard(e) PROVE HostsNone(e)' /\ phase'[e] \in {"unborn", "up"}
        OBVIOUS
      <4>1. e # d /\ HostsNone(e) /\ phase[e] \in {"unborn", "up"}
        BY <1>2 DEF CalmInv, SocketsOK
      <4>2. HostsNone(e)'
        <5>1. \A c \in Child : child'[c].host \in {child[c].host, d}
          BY <1>c
        <5> QED BY <4>1, <5>1 DEF HostsNone
      <4>3. phase'[e] = phase[e]
        <5>1. phase' = phase \/ phase' = [phase EXCEPT ![d] = "stopping"]
          BY <1>c
        <5> QED BY <1>t, <4>1, <5>1
      <4> QED BY <4>1, <4>2, <4>3
    <3>3. \A j \in Socket : ws[j] = "open" => \A i \in DOMAIN up'[j] : up'[j][i].t \in {"hello", "hb"}
      <4>1. CASE up' = up
        BY <4>1 DEF CalmInv, SocketsOK
      <4>2. CASE up' = [up EXCEPT ![k] = @ \o <<f>>]
        <5>1. up' = [up EXCEPT ![socket[d]] = up[k] \o <<f>>]
          BY <4>2
        <5> QED BY <1>1, <1>2, <5>1, GreetingsStay
      <4> QED BY <1>c, <4>1, <4>2
    <3>4. \A j \in Socket : down[j] = <<>> => down'[j] = <<>>
      BY <1>1, <1>t
    <3> QED BY <1>1, <1>c, <3>1, <3>2, <3>3, <3>4, SocketsStay DEF HubSame
  <2>2. NoneFail'
    BY <1>c, NoneFailKeeps DEF CalmInv
  <2>3. PipesOK'
    <3> SUFFICES ASSUME NEW e \in Daemon, conn # NoSocket, socket[e] = conn, NEW s \in Session, Exists(sessions'[s])
                 PROVE  PipeOK(e, s)'
      BY <1>c, <1>1 DEF PipesOK, HubSame
    <3>1. CASE e = d
      <4>1. PipeOK(d, s) /\ conn' = conn /\ HubStill(s)
        BY <1>1, <3>1, HubSameStill DEF CalmInv, PipesOK, HubSame
      <4>2. Less(down[conn], down'[conn])
        BY <1>t, <1>1, <3>1, TailLess
      <4> QED BY <1>c, <3>1, <4>1, <4>2
    <3>2. CASE e # d
      <4>1. k # conn /\ conn \in Socket
        BY <3>2, AgentIs DEF CalmInv, SocketsOK
      <4>2. down'[conn] = down[conn] /\ up'[conn] = up[conn]
        BY <1>t, <1>1, <1>c, <4>1
      <4> QED BY <1>1, <1>c, <3>2, <4>2, PipeAway
    <3> QED BY <3>1, <3>2
  <2> QED BY <1>p, <2>1, <2>2, <2>3 DEF Calmed, CalmInv
<1>s. ASSUME NEW f \in UpFrame, ClientSend(d, f), f.t \in {"error", "result"}
      PROVE  /\ UNCHANGED <<socket, closed, pending>> /\ Unfailing(f) /\ OnlyNew({f})
             /\ up' = [up EXCEPT ![k] = @ \o <<f>>]
  BY <1>1, <1>s, SendsAre DEF CalmInv, Unfailing
<1>r. /\ \A e \in Daemon, s \in Session : UNCHANGED child => KidsStill(e, s)
      /\ UNCHANGED child => \A c \in Child : child'[c].st # "failed" /\ child'[c].host \in {child[c].host, d}
  BY KidsAway, KidsRestStill DEF CalmInv, NoneFail
<1>o. OnlyNew({HelloFrame}) \/ up' # up
  BY DEF OnlyNew
<1>e. HelloFrame \in UpFrame /\ Unfailing(HelloFrame)
  BY FramesMade DEF Unfailing, HelloFrame
<1>4. ASSUME frame.t = "start", NEW c \in Child, StartAccepted(d, frame.id, frame.file, c), UNCHANGED linkVars
      PROVE  Calmed
  <2>1. /\ child[c].st = "unused" /\ phase' = phase
        /\ child' = [child EXCEPT ![c] = [NoChild EXCEPT !.st = "spawning", !.host = d, !.id = frame.id, !.resume = frame.file]]
    BY <1>4 DEF StartAccepted
  <2>2. /\ child'[c].st = "spawning" /\ child'[c].host = d /\ child'[c].id = frame.id /\ child'[c].resume = frame.file
        /\ \A x \in Child \ {c} : child'[x] = child[x]
    BY <1>t, <2>1 DEF NoChild
  <2>3. \A x \in Child : child'[x].st # "failed" /\ child'[x].host \in {child[x].host, d}
    BY <2>2 DEF CalmInv, NoneFail
  <2>4. ASSUME NEW e \in Daemon, NEW s \in Session, e # d \/ s # frame.id PROVE KidsStill(e, s)
    BY <2>1, <2>2, <2>4 DEF KidsStill, Kids, Spawned
  <2>5. ASSUME NEW s \in Session, PipeOK(d, s), k = conn, conn' = conn, HubStill(s), Less(down[conn], down'[conn])
        PROVE  PipeOK(d, s)'
    <3>1. CASE s = frame.id
      <4>1. c \notin Kids(d, s) /\ Kids(d, s)' = Kids(d, s) \cup {c} /\ Spawned(d, s)' = Spawned(d, s)
        BY <2>1, <2>2, <3>1 DEF Kids, Spawned
      <4>2. down[conn] # <<>> /\ Head(down[conn]) \in StartsOf(s) /\ down'[conn] = Tail(down[conn]) /\ conn # NoSocket
            /\ Head(down[conn]).file = frame.file
        BY <1>t, <1>1, <1>f, <1>4, <2>5, <3>1 DEF frame, Connected
      <4> QED BY <1>4, <2>2, <2>5, <4>1, <4>2, PipeAccepts DEF CalmInv, linkVars
    <3>2. CASE s # frame.id
      <4>1. Less(up[conn], up'[conn])
        BY <1>4, SameLess DEF linkVars
      <4> QED BY <2>4, <2>5, <3>2, <4>1, PipeLess
    <3> QED BY <3>1, <3>2
  <2>6. OnlyNew({HelloFrame}) /\ UNCHANGED <<socket, closed, pending, up>>
    BY <1>4, <1>o DEF linkVars
  <2> QED BY <1>c, <1>e, <2>1, <2>3, <2>4, <2>5, <2>6
<1>5. ASSUME frame.t = "start", StartRefused(d, frame.id), ClientSend(d, ErrorFrame(frame.id)) PROVE Calmed
  <2> DEFINE f == ErrorFrame(frame.id)
  <2>1. UNCHANGED <<phase, child>>
    BY <1>5 DEF StartRefused
  <2>2. f \in UpFrame /\ f.t = "error" /\ f.id = frame.id
    BY <1>5, <1>f, FramesMade DEF ErrorFrame
  <2>3. /\ UNCHANGED <<socket, closed, pending>> /\ Unfailing(f) /\ OnlyNew({f})
        /\ up' = [up EXCEPT ![k] = @ \o <<f>>]
    BY <1>5, <1>s, <2>2
  <2>4. ASSUME NEW s \in Session, PipeOK(d, s), k = conn, conn' = conn, HubStill(s), Less(down[conn], down'[conn])
        PROVE  PipeOK(d, s)'
    <3>1. up'[conn] = up[conn] \o <<f>> /\ KidsStill(d, s) /\ conn # NoSocket
      BY <1>t, <1>1, <1>r, <2>1, <2>3, <2>4 DEF Connected
    <3>2. CASE s = frame.id
      <4>1. down[conn] # <<>> /\ Head(down[conn]) \in StartsOf(s) /\ down'[conn] = Tail(down[conn])
        BY <1>t, <1>1, <1>f, <1>5, <2>4, <3>2 DEF frame
      <4> QED BY <1>f, <1>5, <2>4, <3>1, <3>2, <4>1, PipeRefuses DEF CalmInv
    <3>3. CASE s # frame.id
      <4>1. f \notin EndsOf(s) /\ f \notin Denials(s) /\ \A file : f \notin OtherReadies(s, file)
        BY <3>3 DEF ErrorFrame, EndsOf, Denials, OtherReadies
      <4> QED BY <2>2, <2>4, <3>1, <4>1, PipeSays DEF CalmInv
    <3> QED BY <3>2, <3>3
  <2> HIDE DEF f
  <2> QED BY <1>c, <1>r, <2>1, <2>2, <2>3, <2>4
<1>6. ASSUME frame.t = "stop", OnStop(d, frame.id) PROVE Calmed
  <2>1. Stop(d, frame.id) /\ UNCHANGED linkVars /\ UNCHANGED phase
    BY <1>6 DEF OnStop, Stop
  <2>2. /\ \A c \in Child : child'[c].st # "failed" /\ child'[c].host \in {child[c].host, d}
        /\ \A e \in Daemon, s \in Session : KidsStill(e, s)
    BY <1>6, <1>f, <2>1, MarksAre DEF CalmInv, NoneFail
  <2>3. OnlyNew({HelloFrame}) /\ UNCHANGED <<socket, closed, pending, up>>
    BY <1>o, <2>1 DEF linkVars
  <2>4. ASSUME NEW s \in Session, PipeOK(d, s), k = conn, conn' = conn, HubStill(s), Less(down[conn], down'[conn])
        PROVE  PipeOK(d, s)'
    BY <2>2, <2>3, <2>4, SameLess, PipeLess
  <2> QED BY <1>c, <1>e, <2>1, <2>2, <2>3, <2>4
<1>7. ASSUME frame.t = "restart-daemon", OnRestart(d, frame.reqId) PROVE Calmed
  <2>1. PICK b \in BOOLEAN : /\ RestartAccepted(d) \/ RestartRefused(d)
                             /\ ClientSend(d, ResultFrame(frame.reqId, b))
    BY <1>7 DEF OnRestart
  <2> DEFINE f == ResultFrame(frame.reqId, b)
  <2>2. f \in UpFrame /\ f.t = "result"
    BY <1>7, <1>f, FramesMade DEF ResultFrame
  <2>3. /\ UNCHANGED <<socket, closed, pending>> /\ Unfailing(f) /\ OnlyNew({f})
        /\ up' = [up EXCEPT ![k] = @ \o <<f>>]
    BY <1>s, <2>1, <2>2
  <2>4. /\ phase' = phase \/ phase' = [phase EXCEPT ![d] = "stopping"]
        /\ \A c \in Child : child'[c].st # "failed" /\ child'[c].host \in {child[c].host, d}
        /\ \A e \in Daemon, s \in Session : KidsStill(e, s)
    <3>1. CASE RestartAccepted(d)
      BY <3>1, MarksAre DEF CalmInv, NoneFail, RestartAccepted
    <3>2. CASE RestartRefused(d)
      BY <1>r, <3>2 DEF RestartRefused
    <3> QED BY <2>1, <3>1, <3>2
  <2>5. ASSUME NEW s \in Session, PipeOK(d, s), k = conn, conn' = conn, HubStill(s), Less(down[conn], down'[conn])
        PROVE  PipeOK(d, s)'
    <3>1. up'[conn] = up[conn] \o <<f>> /\ conn # NoSocket
      BY <1>t, <1>1, <2>3, <2>5 DEF Connected
    <3>2. f \notin EndsOf(s) /\ f \notin Denials(s) /\ \A file : f \notin OtherReadies(s, file)
      BY DEF ResultFrame, EndsOf, Denials, OtherReadies
    <3> QED BY <2>2, <2>4, <2>5, <3>1, <3>2, PipeSays DEF CalmInv
  <2> HIDE DEF f
  <2> QED BY <1>c, <2>2, <2>3, <2>4, <2>5
<1> QED BY <1>3, <1>4, <1>5, <1>6, <1>7 DEF OnStart

\* A daemon that has been replaced loses its socket.
LEMMA LosesCalm ==
  ASSUME CalmInv, NEW d \in Daemon, DaemonSeesClose(d)
  PROVE  Calmed
<1>t. /\ socket \in [Daemon -> Socket \cup {NoSocket}] /\ closed \in [Daemon -> BOOLEAN]
      /\ up \in [Socket -> Seq(UpFrame)] /\ NoSocket \notin Socket
  BY HubAssumption DEF CalmInv, SysValid, ClientsValid
<1>1. /\ Connected(d) /\ ws[socket[d]] = "replaced"
      /\ socket' = [socket EXCEPT ![d] = NoSocket] /\ closed' = [closed EXCEPT ![d] = TRUE]
      /\ UNCHANGED <<hubVars, child, phase, pending, up>>
  BY <1>t DEF DaemonSeesClose, ClientLoses, CalmInv, SocketsOK, Connected, HubRests, machineVars
<1>2. HubSame /\ UNCHANGED down
  BY <1>1 DEF HubSame, hubVars, planVars
<1>3. SocketsOK'
  <2> USE <1>t, <1>1, <1>2 DEF CalmInv, SocketsOK, HubSame
  <2>1. ASSUME NEW a \in Daemon, NEW b \in Daemon, socket'[a] = socket'[b], socket'[a] # NoSocket PROVE a = b
    BY <2>1
  <2>2. ASSUME NEW a \in Daemon, socket'[a] # NoSocket
        PROVE  Alive(a)' /\ ~closed'[a] /\ ws'[socket'[a]] \notin {"unused", "closed"}
    BY <2>2 DEF Alive
  <2>3. ASSUME NEW a \in Daemon, Unheard(a)' PROVE HostsNone(a)' /\ phase'[a] \in {"unborn", "up"}
    BY <2>3 DEF Unheard, HostsNone
  <2> QED BY <2>1, <2>2, <2>3
<1>4. NoneFail' /\ Resumable'
  BY <1>1, <1>2 DEF CalmInv, NoneFail, Resumable, HubSame
<1>5. PipesOK'
  <2> SUFFICES ASSUME NEW e \in Daemon, conn # NoSocket, socket'[e] = conn, NEW s \in Session, Exists(sessions'[s])
               PROVE  PipeOK(e, s)'
    BY <1>2 DEF PipesOK, HubSame
  <2>1. socket[e] = conn
    BY <1>t, <1>1, <1>2
  <2>2. KidsStill(e, s)
    BY <1>1, KidsAway, KidsRestStill
  <2> QED BY <1>1, <1>2, <2>1, <2>2, PipeAway
<1> QED BY <1>3, <1>4, <1>5 DEF Calmed

\* A hand-off ends, well or not.
LEMMA HandsOffCalm ==
  ASSUME CalmInv, NEW d \in Daemon, DaemonHandsOff(d)
  PROVE  Calmed
<1>t. /\ socket \in [Daemon -> Socket \cup {NoSocket}] /\ up \in [Socket -> Seq(UpFrame)]
      /\ phase \in [Daemon -> {"unborn", "up", "stopping", "handing", "dead"}]
      /\ child \in [Child -> ChildRecord]
  BY DEF CalmInv, SysValid, SupTypeOK, ClientsValid
<1>h. HubSame /\ UNCHANGED <<down, child>>
  BY DEF DaemonHandsOff, HubRests, HubSame, hubVars, planVars, HandOff, HandOffFails
<1>k. \A e \in Daemon, s \in Session : KidsStill(e, s)
  BY <1>h, KidsAway, KidsRestStill
<1>r. Resumable'
  BY <1>h DEF CalmInv, Resumable, HubSame
<1>1. ASSUME NEW e \in Daemon, HandOff(d, e), UNCHANGED linkVars PROVE Calmed
  <2>1. UNCHANGED <<socket, closed, pending, up>>
    BY <1>1 DEF linkVars
  <2>2. SocketsOK'
    <3>1. \A a \in Daemon : Alive(a) => Alive(a)'
      BY <1>t, <1>1 DEF HandOff, Alive, Boots
    <3>2. \A a \in Daemon : Unheard(a) => HostsNone(a)' /\ phase'[a] \in {"unborn", "up"}
      BY <1>t, <1>1, <1>h DEF HandOff, Boots, CalmInv, SocketsOK, HostsNone
    <3> QED BY <1>h, <2>1, <3>1, <3>2, SocketsStay DEF HubSame, CalmInv, SocketsOK
  <2>3. NoneFail'
    BY <1>h, <2>1 DEF CalmInv, NoneFail
  <2>4. PipesOK'
    BY <1>h, <1>k, <2>1, PipeAway DEF PipesOK, HubSame
  <2> QED BY <1>r, <2>2, <2>3, <2>4 DEF Calmed
<1>2. ASSUME HandOffFails(d), ClientSend(d, ResultFrame(lastReqId, FALSE)) PROVE Calmed
  <2> DEFINE f == ResultFrame(lastReqId, FALSE)
  <2>f. f.t = "result" /\ Unfailing(f)
    BY DEF ResultFrame, Unfailing
  <2>n. \A s \in Session : f \notin EndsOf(s) /\ f \notin Denials(s) /\ \A file : f \notin OtherReadies(s, file)
    BY DEF ResultFrame, EndsOf, Denials, OtherReadies
  <2> HIDE DEF f
  <2>u. ~Unheard(d)
    BY <1>2 DEF HandOffFails, CalmInv, SocketsOK
  <2>1. /\ UNCHANGED <<socket, closed, pending>> /\ OnlyNew({f})
        /\ up' = IF Connected(d) THEN [up EXCEPT ![socket[d]] = @ \o <<f>>] ELSE up
    BY <1>2, <2>f, <2>u, SendsAre DEF CalmInv, f
  <2>2. SocketsOK'
    <3>1. \A a \in Daemon : Alive(a) => Alive(a)'
      BY <1>t, <1>2 DEF HandOffFails, Alive
    <3>2. \A a \in Daemon : Unheard(a) => HostsNone(a)' /\ phase'[a] \in {"unborn", "up"}
      BY <1>t, <1>2, <1>h DEF HandOffFails, CalmInv, SocketsOK, HostsNone
    <3>3. \A k \in Socket : ws[k] = "open" => \A i \in DOMAIN up'[k] : up'[k][i].t \in {"hello", "hb"}
      <4>1. CASE up' = up
        BY <4>1 DEF CalmInv, SocketsOK
      <4>2. CASE Connected(d)
        <5>1. up' = [up EXCEPT ![socket[d]] = up[socket[d]] \o <<f>>]
          BY <2>1, <4>2
        <5> QED BY <2>u, <4>2, <5>1, GreetingsStay
      <4> QED BY <2>1, <4>1, <4>2
    <3> QED BY <1>h, <2>1, <3>1, <3>2, <3>3, SocketsStay DEF HubSame
  <2>3. NoneFail'
    BY <1>h, <2>1, <2>f, NoneFailKeeps DEF CalmInv, NoneFail
  <2>4. PipesOK'
    <3> SUFFICES ASSUME NEW e \in Daemon, conn # NoSocket, socket[e] = conn, NEW s \in Session, Exists(sessions'[s])
                 PROVE  PipeOK(e, s)'
      BY <1>h, <2>1 DEF PipesOK, HubSame
    <3>0. conn \in Socket
      BY AgentIs
    <3>1. CASE e = d
      <4>1. up'[conn] = up[conn] \o <<f>>
        BY <1>t, <2>1, <3>0, <3>1 DEF Connected
      <4>2. PipeOK(d, s) /\ conn' = conn /\ HubStill(s)
        BY <1>h, <3>1, HubSameStill DEF CalmInv, PipesOK, HubSame
      <4> QED BY <1>h, <1>k, <2>n, <3>1, <4>1, <4>2, SameLess, PipeSays DEF CalmInv
    <3>2. CASE e # d
      <4>1. socket[d] # conn
        BY <3>2 DEF CalmInv, SocketsOK
      <4>2. up'[conn] = up[conn]
        BY <1>t, <2>1, <3>0, <4>1
      <4> QED BY <1>h, <1>k, <4>2, PipeAway
    <3> QED BY <3>1, <3>2
  <2> QED BY <1>r, <2>2, <2>3, <2>4 DEF Calmed
<1> QED BY <1>1, <1>2 DEF DaemonHandsOff

\* A daemon is no more.
LEMMA DiesCalm ==
  ASSUME CalmInv, NEW d \in Daemon, DaemonDies(d)
  PROVE  Calmed
<1>t. /\ socket \in [Daemon -> Socket \cup {NoSocket}] /\ closed \in [Daemon -> BOOLEAN]
      /\ up \in [Socket -> Seq(UpFrame)] /\ NoSocket \notin Socket
      /\ phase \in [Daemon -> {"unborn", "up", "stopping", "handing", "dead"}]
      /\ child \in [Child -> ChildRecord] /\ pending \in [Daemon -> Seq(UpFrame)]
  BY HubAssumption DEF CalmInv, SysValid, SupTypeOK, ClientsValid
<1>h. HubSame /\ UNCHANGED down
  BY DEF DaemonDies, HubRests, HubSame, hubVars, planVars
<1>1. PICK kept \in 0..Unread(d) : Gone(d, kept) /\ DaemonEnds(d)
  <2>1. Unread(d) \in Nat
    BY <1>t DEF Unread, Connected
  <2>2. Unread(d) \in 0..Unread(d)
    BY <2>1
  <2> QED BY <2>2 DEF DaemonDies, DaemonExits, Crash
<1>2. /\ socket' = [socket EXCEPT ![d] = NoSocket] /\ closed' = [closed EXCEPT ![d] = TRUE]
      /\ pending' = [pending EXCEPT ![d] = <<>>] /\ phase' = [phase EXCEPT ![d] = "dead"]
  BY <1>1 DEF Gone, DaemonEnds
<1>3. ASSUME NEW c \in Child
      PROVE  /\ child'[c].st \in {child[c].st, "gone"} /\ child'[c].host \in {child[c].host, 0}
             /\ child[c].host # d => child'[c] = child[c]
  <2>1. \/ child'[c] = child[c]
        \/ child'[c] = Ended(c) /\ child[c].host = d
        \/ child'[c] = [child[c] EXCEPT !.mapped = FALSE] /\ child[c].host = d
    BY <1>1 DEF DaemonEnds
  <2> QED BY <1>t, <2>1 DEF Ended, NoChild, ChildRecord
<1>o. OnlyNew({})
  <2> SUFFICES ASSUME NEW k \in Socket, NEW i \in DOMAIN up'[k], up'[k] # up[k]
               PROVE  \E j \in DOMAIN up[k] : up'[k][i] = up[k][j]
    BY DEF OnlyNew
  <2>1. Connected(d) /\ k = socket[d] /\ up'[k] = SubSeq(up[k], 1, kept) /\ kept \in 0..Len(up[k])
    BY <1>t, <1>1 DEF Gone, Unread, Connected
  <2>2. PICK g : g \in UpFrame
    BY FramesMade
  <2> QED BY <1>t, <2>1, <2>2, OnQueue
<1>4. SocketsOK'
  <2>0. ASSUME NEW a \in Daemon, a # d
        PROVE  socket'[a] = socket[a] /\ closed'[a] = closed[a] /\ phase'[a] = phase[a] /\ (HostsNone(a) => HostsNone(a)')
    <3>1. a # 0
      BY AgentAssumption DEF Daemon
    <3> QED BY <1>t, <1>2, <1>3, <2>0, <3>1 DEF HostsNone
  <2>d. socket'[d] = NoSocket /\ closed'[d] /\ ~Unheard(d)'
    BY <1>t, <1>2 DEF Unheard
  <2>1. ASSUME NEW a \in Daemon, NEW b \in Daemon, socket'[a] = socket'[b], socket'[a] # NoSocket PROVE a = b
    BY <2>0, <2>1, <2>d DEF CalmInv, SocketsOK
  <2>2. ASSUME NEW a \in Daemon, socket'[a] # NoSocket
        PROVE  Alive(a)' /\ ~closed'[a] /\ ws'[socket'[a]] \notin {"unused", "closed"}
    BY <1>h, <2>0, <2>2, <2>d DEF CalmInv, SocketsOK, Alive, HubSame
  <2>3. ASSUME NEW a \in Daemon, Unheard(a)' PROVE HostsNone(a)' /\ phase'[a] \in {"unborn", "up"}
    <3>1. a # d /\ Unheard(a)
      BY <1>h, <2>0, <2>3, <2>d DEF Unheard, HubSame
    <3> QED BY <2>0, <3>1 DEF CalmInv, SocketsOK
  <2>4. \A k \in Socket : ws'[k] = "open" => \A i \in DOMAIN up'[k] : up'[k][i].t \in {"hello", "hb"}
    BY <1>h, <1>o DEF OnlyNew, CalmInv, SocketsOK, HubSame
  <2>5. \A a \in Daemon : pending'[a] = <<>>
    BY <1>t, <1>2 DEF CalmInv, SocketsOK
  <2>6. \A k \in Socket : ws'[k] \in {"unused", "open"} => down'[k] = <<>>
    BY <1>h DEF CalmInv, SocketsOK, HubSame
  <2> QED BY <2>1, <2>2, <2>3, <2>4, <2>5, <2>6 DEF SocketsOK
<1>5. NoneFail'
  BY <1>3, <1>o, NoneFailKeeps DEF CalmInv, NoneFail
<1>6. Resumable'
  BY <1>h DEF CalmInv, Resumable, HubSame
<1>7. PipesOK'
  <2> SUFFICES ASSUME NEW e \in Daemon, conn # NoSocket, socket'[e] = conn, NEW s \in Session, Exists(sessions'[s])
               PROVE  PipeOK(e, s)'
    BY <1>h DEF PipesOK, HubSame
  <2>0. conn \in Socket
    BY AgentIs
  <2>1. e # d /\ socket[e] = conn /\ socket[d] # conn
    BY <1>t, <1>2 DEF CalmInv, SocketsOK
  <2>2. up'[conn] = up[conn]
    BY <1>t, <1>1, <2>0, <2>1 DEF Gone
  <2>3. KidsStill(e, s)
    <3>1. e # 0
      BY AgentAssumption DEF Daemon
    <3>2. \A c \in Child : child[c].host = e \/ child'[c].host = e => child'[c] = child[c]
      BY <1>3, <2>1, <3>1
    <3> QED BY <3>2, KidsAway, KidsRestStill
  <2> QED BY <1>h, <2>1, <2>2, <2>3, PipeAway
<1> QED BY <1>4, <1>5, <1>6, <1>7 DEF Calmed

\* A daemon is booted.
LEMMA BootsCalm ==
  ASSUME CalmInv, NEW d \in Daemon, DaemonBoots(d)
  PROVE  Calmed
<1>t. phase \in [Daemon -> {"unborn", "up", "stopping", "handing", "dead"}]
  BY DEF CalmInv, SysValid, SupTypeOK
<1>1. /\ HubSame /\ UNCHANGED <<down, child, socket, closed, pending, up>>
      /\ phase[d] = "unborn" /\ phase' = [phase EXCEPT ![d] = "up"]
  BY DEF DaemonBoots, HubRests, HubSame, hubVars, planVars, Boot, Boots, linkVars
<1>2. SocketsOK'
  <2>1. \A a \in Daemon : Alive(a) => Alive(a)'
    BY <1>t, <1>1 DEF Alive
  <2>2. \A a \in Daemon : Unheard(a) => HostsNone(a)' /\ phase'[a] \in {"unborn", "up"}
    BY <1>t, <1>1 DEF CalmInv, SocketsOK, HostsNone
  <2> QED BY <1>1, <2>1, <2>2, SocketsStay DEF HubSame, CalmInv, SocketsOK
<1>3. NoneFail' /\ Resumable'
  BY <1>1 DEF CalmInv, NoneFail, Resumable, HubSame
<1>4. PipesOK'
  BY <1>1, KidsAway, KidsRestStill, PipeAway DEF PipesOK, HubSame
<1> QED BY <1>2, <1>3, <1>4 DEF Calmed

\* A step of a child that makes its daemon say at most f.
LEMMA ChildCalm ==
  ASSUME CalmInv, NEW d \in Daemon, HubRests, UNCHANGED phase, ~HostsNone(d),
         \A x \in Child : child'[x].st # "failed" /\ child'[x].host \in {child[x].host, 0},
         NEW f, f.t \notin {"hb", "event"},
         UNCHANGED linkVars \/ (Alive(d) /\ ClientSend(d, f)),
         \A e \in Daemon, s \in Session : e # d => KidsStill(e, s),
         \A s \in Session : /\ PipeOK(d, s) /\ Alive(d) /\ conn # NoSocket /\ socket[d] = conn
                            /\ UNCHANGED <<conn, down>> /\ HubStill(s)
                            /\ ClientSend(d, f) => up'[conn] = up[conn] \o <<f>>
                            => PipeOK(d, s)'
  PROVE  Calmed
<1>t. /\ socket \in [Daemon -> Socket \cup {NoSocket}] /\ up \in [Socket -> Seq(UpFrame)]
  BY DEF CalmInv, SysValid, ClientsValid
<1>h. HubSame /\ UNCHANGED down
  BY DEF HubRests, HubSame, hubVars, planVars
<1>u. ~Unheard(d)
  BY DEF CalmInv, SocketsOK
<1>s. ClientSend(d, f) =>
        /\ UNCHANGED <<socket, closed, pending>> /\ OnlyNew({f})
        /\ up' = IF Connected(d) THEN [up EXCEPT ![socket[d]] = @ \o <<f>>] ELSE up
  BY <1>u, SendsAre DEF CalmInv
<1>1. UNCHANGED <<socket, closed, pending>> /\ OnlyNew({f})
  <2>1. UNCHANGED linkVars => UNCHANGED <<socket, closed, pending>> /\ OnlyNew({f})
    BY DEF linkVars, OnlyNew
  <2> QED BY <1>s, <2>1
<1>2. SocketsOK'
  <2>1. \A e \in Daemon : Alive(e) => Alive(e)'
    BY DEF Alive
  <2>2. \A e \in Daemon : Unheard(e) => HostsNone(e)' /\ phase'[e] \in {"unborn", "up"}
    <3> SUFFICES ASSUME NEW e \in Daemon, Unheard(e) PROVE HostsNone(e)' /\ phase'[e] \in {"unborn", "up"}
      OBVIOUS
    <3>1. HostsNone(e) /\ phase[e] \in {"unborn", "up"} /\ e # 0
      BY AgentAssumption DEF CalmInv, SocketsOK, Daemon
    <3>2. \A x \in Child : child'[x].host \in {child[x].host, 0}
      OBVIOUS
    <3> QED BY <3>1, <3>2 DEF HostsNone
  <2>3. \A j \in Socket : ws[j] = "open" => \A i \in DOMAIN up'[j] : up'[j][i].t \in {"hello", "hb"}
    <3>1. CASE up' = up
      BY <3>1 DEF CalmInv, SocketsOK
    <3>2. CASE Connected(d) /\ up' = [up EXCEPT ![socket[d]] = @ \o <<f>>]
      <4>1. up' = [up EXCEPT ![socket[d]] = up[socket[d]] \o <<f>>]
        BY <3>2
      <4> QED BY <1>u, <3>2, <4>1, GreetingsStay
    <3> QED BY <1>s, <3>1, <3>2 DEF linkVars
  <2> QED BY <1>h, <1>1, <2>1, <2>2, <2>3, SocketsStay DEF HubSame
<1>3. NoneFail'
  BY <1>1, NoneFailKeeps DEF CalmInv, Unfailing
<1>4. Resumable'
  BY <1>h DEF CalmInv, Resumable, HubSame
<1>5. PipesOK'
  <2> SUFFICES ASSUME NEW e \in Daemon, conn # NoSocket, socket[e] = conn, NEW s \in Session, Exists(sessions'[s])
               PROVE  PipeOK(e, s)'
    BY <1>h, <1>1 DEF PipesOK, HubSame
  <2>0. conn \in Socket
    BY AgentIs
  <2>1. CASE e = d
    <3>1. PipeOK(d, s) /\ conn' = conn /\ HubStill(s) /\ Alive(d)
      BY <1>h, <2>1, HubSameStill DEF CalmInv, PipesOK, HubSame, SocketsOK
    <3>2. ClientSend(d, f) => up'[conn] = up[conn] \o <<f>>
      BY <1>s, <1>t, <2>0, <2>1 DEF Connected
    <3> QED BY <1>h, <2>1, <3>1, <3>2
  <2>2. CASE e # d
    <3>1. socket[d] # conn
      BY <2>2 DEF CalmInv, SocketsOK
    <3>2. up'[conn] = up[conn]
      BY <1>s, <1>t, <2>0, <3>1 DEF linkVars
    <3>3. KidsStill(e, s)
      BY <2>2
    <3> QED BY <1>h, <3>2, <3>3, PipeAway
  <2> QED BY <2>1, <2>2
<1> QED BY <1>2, <1>3, <1>4, <1>5 DEF Calmed

\* Children of others, and for other sessions, are as they were.
LEMMA KidsOthers ==
  ASSUME NEW d \in Daemon, NEW t, NEW e \in Daemon, NEW s \in Session, e # d \/ s # t,
         \A x \in Child : \/ child'[x] = child[x]
                          \/ child[x].host = d /\ child[x].id = t
                             /\ \/ child'[x].host = d /\ child'[x].id = t
                                \/ child'[x].st \in {"unused", "gone"}
  PROVE  KidsStill(e, s)
<1>1. \A x \in Child : x \in Kids(e, s) => child'[x] = child[x]
  BY DEF Kids
<1>2. Kids(e, s)' = Kids(e, s)
  BY <1>1 DEF Kids
<1>3. Spawned(e, s)' = Spawned(e, s)
  BY <1>1, <1>2 DEF Spawned, Kids
<1> QED BY <1>1, <1>2, <1>3 DEF KidsStill, Kids

\* A child takes a step of its own.
LEMMA ChildStepsCalm ==
  ASSUME CalmInv, NEW c \in Child, ChildSteps(c)
  PROVE  Calmed
<1>t. /\ child \in [Child -> ChildRecord] /\ SysValid
      /\ up \in [Socket -> Seq(UpFrame)]
  BY DEF CalmInv, SysValid, SupTypeOK, ClientsValid
<1>c. child[c].st \in {"spawning", "starting", "live"} /\ (child[c].st # "starting" \/ Running(c))
  BY DEF ChildSteps, SpawnDone, SpawnFails, ChildReady, ChildExits, Running, CalmInv, NoneFail
<1>p. PICK d \in Daemon, t \in Session : d = child[c].host /\ t = child[c].id
  BY <1>c DEF CalmInv, SysValid, KidsValid
<1>d. t \in Minted /\ ~HostsNone(d) /\ c \in Kids(d, t) /\ d # 0
  BY <1>c, <1>p, AgentAssumption DEF CalmInv, SysValid, KidsMinted, HostsNone, Kids, Daemon
<1>h. HubRests
  BY DEF ChildSteps
<1>e. /\ Ended(c).st = "gone" /\ Ended(c).host = 0
      /\ \A x \in Child : /\ [child[x] EXCEPT !.mapped = FALSE].st = child[x].st
                            /\ [child[x] EXCEPT !.mapped = FALSE].host = child[x].host
                            /\ [child[x] EXCEPT !.mapped = FALSE].id = child[x].id
                            /\ [child[x] EXCEPT !.mapped = FALSE].resume = child[x].resume
  BY <1>t DEF Ended, NoChild, ChildRecord
<1>n. \A x \in Child : child[x].st # "failed"
  BY DEF CalmInv, NoneFail
<1>k. Kids(d, t) \subseteq Child /\ Spawned(d, t) \subseteq Kids(d, t)
  BY DEF Kids, Spawned
<1> USE <1>p
<1>1. ASSUME SpawnDone(c), UNCHANGED linkVars PROVE Calmed
  <2>1. /\ UNCHANGED phase /\ child[c].st = "spawning" /\ Alive(d)
        /\ child[c].resume # NoFile => ~InUse(d, child[c].resume)
        /\ child' = [x \in Child |->
             IF x = c THEN [child[c] EXCEPT !.st = "starting", !.mapped = TRUE]
             ELSE IF x \in Mapped(d) /\ child[x].id = t
             THEN [child[x] EXCEPT !.mapped = FALSE]
             ELSE child[x]]
    BY <1>1 DEF SpawnDone
  <2>2. /\ child'[c].st = "starting" /\ child'[c].mapped
        /\ child'[c].host = d /\ child'[c].id = t /\ child'[c].resume = child[c].resume
    BY <1>t, <2>1 DEF ChildRecord
  <2>3. ASSUME NEW x \in Child, x # c
        PROVE  /\ child'[x].st = child[x].st /\ child'[x].host = child[x].host /\ child'[x].id = child[x].id
               /\ child'[x].resume = child[x].resume
               /\ child'[x] = child[x] \/ (child[x].host = d /\ child[x].id = t)
    <3>1. \/ child'[x] = child[x]
          \/ child'[x] = [child[x] EXCEPT !.mapped = FALSE] /\ child[x].host = d /\ child[x].id = t
      BY <2>1, <2>3 DEF Mapped
    <3> QED BY <1>t, <3>1 DEF ChildRecord
  <2>4. \A e \in Daemon, s \in Session : e # d \/ s # t => KidsStill(e, s)
    <3>1. \A x \in Child : \/ child'[x] = child[x]
                           \/ child[x].host = d /\ child[x].id = t /\ child'[x].host = d /\ child'[x].id = t
      BY <2>2, <2>3
    <3> QED BY <1>d, <3>1, KidsOthers
  <2>5. Kids(d, t)' = Kids(d, t) /\ Spawned(d, t)' = Spawned(d, t) \cup {c}
    <3>1. Kids(d, t)' = Kids(d, t)
      BY <1>d, <2>1, <2>2, <2>3 DEF Kids
    <3> QED BY <1>d, <1>k, <2>2, <2>3, <3>1 DEF Spawned
  <2>6. \A x \in Kids(d, t) : child'[x].resume = child[x].resume
    BY <1>k, <2>2, <2>3
  <2>7. ASSUME NEW s \in Session, PipeOK(d, s), conn # NoSocket, UNCHANGED <<conn, down>>, HubStill(s)
        PROVE  PipeOK(d, s)'
    <3>1. Less(up[conn], up'[conn]) /\ Less(down[conn], down'[conn]) /\ up' = up
      BY <1>1, <2>7, SameLess DEF linkVars
    <3>2. CASE s = t
      <4>1. DownStill(s)
        BY <3>1 DEF DownStill, Less
      <4>2. UpStill(d, s)
        <5>1. Judgement(d, s) /\ (Uniform(d, s) => None(up[conn], OtherReadies(s, sessions[s].sessionFile)))
          BY <2>7 DEF PipeOK, Uniform
        <5> QED BY <3>1, <5>1 DEF UpStill, Judgement
      <4> QED BY <1>t, <1>d, <2>1, <2>2, <2>5, <2>6, <2>7, <3>2, <4>1, <4>2, PipeSpawns
    <3>3. CASE s # t
      BY <1>d, <2>4, <2>7, <3>1, <3>3, PipeLess
    <3> QED BY <3>2, <3>3
  <2>8. \A x \in Child : child'[x].st # "failed" /\ child'[x].host \in {child[x].host, 0}
    BY <1>n, <2>2, <2>3
  <2>9. HelloFrame.t \notin {"hb", "event"}
    BY DEF HelloFrame
  <2> QED BY <1>1, <1>d, <1>h, <2>1, <2>4, <2>7, <2>8, <2>9, ChildCalm
\* The end of the child, told or not.
<1>2. ASSUME UNCHANGED phase, child'[c] = Ended(c), NEW f \in EndsOf(t), Reports(c, f),
             child[c].st # "spawning" \/ \A x \in Child \ {c} : child'[x] = child[x],
             \A x \in Child \ {c} : \/ child'[x] = child[x]
                                    \/ /\ child'[x] = [child[x] EXCEPT !.mapped = FALSE]
                                       /\ child[x].host = d /\ child[x].id = t
      PROVE  Calmed
  <2>1. ASSUME NEW x \in Child, x # c
        PROVE  /\ child'[x].st = child[x].st /\ child'[x].host = child[x].host /\ child'[x].id = child[x].id
               /\ child'[x].resume = child[x].resume
    BY <1>2, <1>e, <2>1
  <2>2. \A e \in Daemon, s \in Session : e # d \/ s # t => KidsStill(e, s)
    <3>1. \A x \in Child : \/ child'[x] = child[x]
                           \/ child[x].host = d /\ child[x].id = t
                              /\ ((child'[x].host = d /\ child'[x].id = t) \/ child'[x].st = "gone")
      BY <1>2, <1>e, <2>1
    <3> QED BY <1>d, <3>1, KidsOthers
  <2>3. Kids(d, t)' = Kids(d, t) \ {c} /\ Spawned(d, t)' = Spawned(d, t) \ {c}
    <3>1. Kids(d, t)' = Kids(d, t) \ {c}
      BY <1>2, <1>e, <2>1 DEF Kids
    <3> QED BY <2>1, <3>1, <1>k DEF Spawned
  <2>4. child[c].st # "spawning" => c \in Spawned(d, t)
    BY <1>d DEF Spawned
  <2>f. f.t \in {"error", "exit"} /\ f.id = t
    BY DEF EndsOf
  <2>5. ASSUME NEW s \in Session, PipeOK(d, s), Alive(d), conn # NoSocket, UNCHANGED <<conn, down>>, HubStill(s),
               ClientSend(d, f) => up'[conn] = up[conn] \o <<f>>
        PROVE  PipeOK(d, s)'
    <3>1. up'[conn] = up[conn] \o <<f>> /\ Less(down[conn], down'[conn])
      BY <1>2, <2>5, SameLess DEF Reports
    <3>2. CASE s = t
      <4>1. DownStill(s)
        BY <3>1 DEF DownStill, Less
      <4>2. /\ \A x \in Kids(d, t) \ {c} : child'[x].resume = child[x].resume
            /\ c \in Spawned(d, t) \/ \A x \in Kids(d, t) \ {c} : child'[x].mapped = child[x].mapped
        BY <1>2, <1>k, <2>1, <2>4
      <4> QED BY <1>t, <1>d, <2>3, <2>5, <3>1, <3>2, <4>1, <4>2, PipeEnds
    <3>3. CASE s # t
      <4>1. f \notin EndsOf(s) /\ f \notin Denials(s) /\ \A file : f \notin OtherReadies(s, file)
        BY <2>f, <3>3 DEF EndsOf, Denials, OtherReadies
      <4> QED BY <1>t, <1>d, <2>2, <2>5, <3>1, <3>3, <4>1, PipeSays
    <3> QED BY <3>2, <3>3
  <2>6. \A x \in Child : child'[x].st # "failed" /\ child'[x].host \in {child[x].host, 0}
    BY <1>2, <1>e, <1>n, <2>1
  <2>7. UNCHANGED linkVars \/ (Alive(d) /\ ClientSend(d, f))
    BY <1>2 DEF Reports
  <2> QED BY <1>2, <1>d, <1>h, <2>2, <2>5, <2>6, <2>7, <2>f, ChildCalm
<1>3. ASSUME SpawnFails(c), Reports(c, ErrorFrame(child[c].id)) PROVE Calmed
  <2>1. ErrorFrame(child[c].id) \in EndsOf(t)
    BY DEF ErrorFrame, EndsOf
  <2>2. UNCHANGED phase /\ child' = [child EXCEPT ![c] = Ended(c)]
    BY <1>3 DEF SpawnFails
  <2> QED BY <1>2, <1>3, <1>t, <2>1, <2>2
<1>4. ASSUME ChildExits(c), Reports(c, ExitFrame(c)) PROVE Calmed
  <2>1. ExitFrame(c) \in EndsOf(t)
    BY DEF ExitFrame, EndsOf
  <2>2. UNCHANGED phase /\ child'[c] = Ended(c) /\ child[c].st # "spawning"
    BY <1>4 DEF ChildExits, Running
  <2>3. \A x \in Child \ {c} : \/ child'[x] = child[x]
                               \/ /\ child'[x] = [child[x] EXCEPT !.mapped = FALSE]
                                  /\ child[x].host = d /\ child[x].id = t
    BY <1>4 DEF ChildExits, Mapped
  <2> QED BY <1>2, <1>4, <2>1, <2>2, <2>3
<1>5. ASSUME ChildReady(c), Reports(c, ReadyFrame(c)) PROVE Calmed
  <2> DEFINE f == ReadyFrame(c)
  <2>1. UNCHANGED phase /\ child[c].st = "starting" /\ child' = [child EXCEPT ![c].st = "live"]
    BY <1>5 DEF ChildReady
  <2>2. /\ child'[c].st = "live" /\ child'[c].host = d /\ child'[c].id = t
        /\ child'[c].resume = child[c].resume /\ child'[c].mapped = child[c].mapped
        /\ \A x \in Child \ {c} : child'[x] = child[x]
    BY <1>t, <2>1 DEF ChildRecord
  <2>3. \A e \in Daemon, s \in Session : KidsStill(e, s)
    <3> SUFFICES ASSUME NEW e \in Daemon, NEW s \in Session PROVE KidsStill(e, s)
      OBVIOUS
    <3>1. Kids(e, s)' = Kids(e, s)
      BY <2>1, <2>2 DEF Kids
    <3>2. Spawned(e, s)' = Spawned(e, s)
      BY <2>1, <2>2, <3>1 DEF Spawned, Kids
    <3> QED BY <2>2, <3>1, <3>2 DEF KidsStill, Kids
  <2>f. f.t = "ready" /\ f.id = t /\ f.file = Writes(c)
    BY DEF ReadyFrame
  <2>4. ASSUME NEW s \in Session, PipeOK(d, s), Alive(d), conn # NoSocket, UNCHANGED <<conn, down>>, HubStill(s),
               ClientSend(d, f) => up'[conn] = up[conn] \o <<f>>
        PROVE  PipeOK(d, s)'
    <3>1. up'[conn] = up[conn] \o <<f>> /\ Less(down[conn], down'[conn])
      BY <1>5, <2>4, SameLess DEF Reports
    <3>2. f \notin EndsOf(s) /\ f \notin Denials(s)
      BY <2>f DEF EndsOf, Denials
    <3>3. Uniform(d, s) => f \notin OtherReadies(s, sessions[s].sessionFile)
      <4>1. CASE s = t
        <5>1. Uniform(d, s) => child[c].resume = sessions[s].sessionFile /\ sessions[s].sessionFile # NoFile
          BY <1>d, <4>1 DEF Uniform
        <5> QED BY <2>f, <5>1 DEF OtherReadies, Writes
      <4>2. CASE s # t
        BY <2>f, <4>2 DEF OtherReadies
      <4> QED BY <4>1, <4>2
    <3> QED BY <1>t, <1>d, <2>3, <2>4, <3>1, <3>2, <3>3, PipeSays
  <2>5. \A x \in Child : child'[x].st # "failed" /\ child'[x].host \in {child[x].host, 0}
    BY <1>n, <2>2
  <2>6. UNCHANGED linkVars \/ (Alive(d) /\ ClientSend(d, f))
    BY <1>5 DEF Reports
  <2> HIDE DEF f
  <2> QED BY <1>d, <1>h, <2>1, <2>3, <2>4, <2>5, <2>6, <2>f, ChildCalm
<1> QED BY <1>1, <1>3, <1>4, <1>5 DEF ChildSteps

-------------------------------------------------------------------------------
\* The hub asks the daemon for something else, or for nothing.
LEMMA PipeAsks ==
  ASSUME NEW d \in Daemon, NEW s \in Session, PipeOK(d, s), SysValid, conn' = conn, conn # NoSocket, HubStill(s),
         KidsRest(d, s), up' = up, NEW f, f \notin StartsOf(s),
         down'[conn] = down[conn] \/ down'[conn] = down[conn] \o <<f>>
  PROVE  PipeOK(d, s)'
<1>1. down[conn] \in Seq(DownFrame \cup {f})
  BY DEF SysValid, HubTypeOK, HubFramesValid
<1>2. f \notin OtherStarts(s, sessions[s].sessionFile)
  BY DEF StartsOf, OtherStarts
<1>3. DownStill(s)
  <2>1. CASE down'[conn] = down[conn]
    BY <2>1 DEF DownStill
  <2>2. CASE down'[conn] = down[conn] \o <<f>>
    BY <1>1, <1>2, <2>2, OneKeeps DEF DownStill
  <2> QED BY <2>1, <2>2
<1> QED BY <1>3, PipeHeard, SameLess, KidsRestStill

\* What the hub does to a record: it changes without leaving the registry or losing its
\* transcript, goes, or is a new one.
RecordKept(s) ==
  /\ Exists(sessions'[s]) <=> Exists(sessions[s])
  /\ \/ sessions'[s].sessionFile = sessions[s].sessionFile
     \/ Exists(sessions[s]) /\ sessions'[s].sessionFile # NoFile
RecordStep(s) ==
  \/ RecordKept(s)
  \/ sessions'[s] = Outside("deleted")
  \/ s \notin Minted /\ sessions'[s] = NewRecord

LEMMA MutatorsKeep ==
  ASSUME NEW r \in Record
  PROVE  /\ Exists(MarkFailed(r)) <=> Exists(r)
         /\ \A b \in BOOLEAN : Exists(MarkExited(r, b)) <=> Exists(r)
         /\ \A b \in BOOLEAN : Exists(Reissue(r, b)) <=> Exists(r)
         /\ Exists(MarkUnreachable(r)) <=> Exists(r)
         /\ Exists(ExitForUpgrade(r)) <=> Exists(r)
         /\ \A reported \in Reported : Exists(Reconciled(r, reported)) <=> Exists(r)
         /\ Exists([r EXCEPT !.grace = FALSE]) <=> Exists(r)
         /\ \A file \in File : Exists(MarkReady(r, file)) <=> Exists(r)
BY DEF Record, MarkReady, MarkFailed, MarkExited, Reissue, MarkUnreachable, ExitForUpgrade, Reconciled,
       Exists, Active, Terminal, ActiveStatus, TerminalStatus

\* So every record in the registry that is in a plan keeps its transcript.
LEMMA ResumableKeeps ==
  ASSUME CalmInv, \A s \in Session : RecordStep(s), resumePlan' \in {resumePlan, NoPlan, ResumableIds}
  PROVE  Resumable'
<1>1. ASSUME NEW s \in Session, ~Exists(sessions'[s]) PROVE sessions'[s].sessionFile = NoFile
  <2>1. ~Exists(NewRecord) /\ s \notin Minted => FALSE
    BY DEF NewRecord, Outside, Exists, Active, ActiveStatus
  <2>2. Exists(NewRecord)
    BY DEF NewRecord, Outside, Exists, Active, ActiveStatus
  <2> QED BY <1>1, <2>2 DEF RecordStep, RecordKept, CalmInv, Resumable, Outside
<1>2. ASSUME resumePlan' # NoPlan, NEW s \in Session, s \in resumePlan', Exists(sessions'[s])
      PROVE  sessions'[s].sessionFile # NoFile
  <2>1. s \in Minted
    BY <1>2 DEF CalmInv, SysValid, IdsValid, ResumableIds
  <2>2. ~Exists(Outside("deleted"))
    BY DEF Outside, Exists, Active, Terminal, ActiveStatus, TerminalStatus
  <2>3. RecordKept(s)
    BY <1>2, <2>1, <2>2 DEF RecordStep
  <2>4. sessions[s].sessionFile # NoFile
    BY <1>2, <2>3 DEF CalmInv, Resumable, ResumableIds, RecordKept
  <2> QED BY <2>3, <2>4 DEF RecordKept
<1>3. resumePlan' # NoPlan => resumePlan' \subseteq Session
  BY DEF CalmInv, SysValid, HubTypeOK, ResumableIds
<1> QED BY <1>1, <1>2, <1>3 DEF Resumable

\* The sockets through a step of the hub.
LEMMA HubSockets ==
  ASSUME CalmInv, UNCHANGED <<socket, closed, pending, phase, child>>, OnlyNew({}),
         \A d \in Daemon : socket[d] # NoSocket => ws'[socket[d]] \notin {"unused", "closed"},
         \A k \in Socket : ws'[k] \in {"unused", "open"} => ws'[k] = ws[k] /\ down'[k] = down[k]
  PROVE  SocketsOK' /\ NoneFail'
<1>1. socket \in [Daemon -> Socket \cup {NoSocket}]
  BY DEF CalmInv, SysValid, ClientsValid
<1>2. \A d \in Daemon : Unheard(d)' => Unheard(d)
  BY <1>1 DEF Unheard
<1>3. \A d \in Daemon : Unheard(d)' => HostsNone(d)' /\ phase'[d] \in {"unborn", "up"}
  BY <1>2 DEF CalmInv, SocketsOK, HostsNone
<1>4. \A k \in Socket : ws'[k] = "open" => \A i \in DOMAIN up'[k] : up'[k][i].t \in {"hello", "hb"}
  BY DEF OnlyNew, CalmInv, SocketsOK
<1>5. \A d \in Daemon : Alive(d)' <=> Alive(d)
  BY DEF Alive
<1>6. SocketsOK'
  BY <1>3, <1>4, <1>5 DEF CalmInv, SocketsOK
<1>7. NoneFail'
  BY NoneFailKeeps DEF CalmInv, NoneFail
<1> QED BY <1>6, <1>7

LEMMA HubSocketsSame ==
  ASSUME CalmInv, UNCHANGED <<socket, closed, pending, phase, child, ws>>, OnlyNew({}),
         \A k \in Socket : k # conn => down'[k] = down[k]
  PROVE  SocketsOK' /\ NoneFail'
<1>1. \A d \in Daemon : socket[d] # NoSocket => ws'[socket[d]] \notin {"unused", "closed"}
  BY DEF CalmInv, SocketsOK
<1>2. \A k \in Socket : ws'[k] \in {"unused", "open"} => ws'[k] = ws[k] /\ down'[k] = down[k]
  BY DEF CalmInv, OneAgent
<1> QED BY <1>1, <1>2, HubSockets

\* A link that is lost takes no record out of the registry.
LEMMA LostKeeps ==
  ASSUME CalmInv, LinkLost
  PROVE  (\A s \in Session : RecordStep(s)) /\ resumePlan' \in {resumePlan, NoPlan, ResumableIds}
<1>1. ASSUME NEW s \in Session PROVE RecordStep(s)
  <2>1. sessions[s] \in Record
    BY DEF CalmInv, SysValid, HubTypeOK
  <2>2. sessions'[s] = ExitForUpgrade(sessions[s]) \/ sessions'[s] = MarkUnreachable(sessions[s])
    BY DEF LinkLost
  <2>3. /\ Exists(ExitForUpgrade(sessions[s])) <=> Exists(sessions[s])
        /\ Exists(MarkUnreachable(sessions[s])) <=> Exists(sessions[s])
        /\ ExitForUpgrade(sessions[s]).sessionFile = sessions[s].sessionFile
        /\ MarkUnreachable(sessions[s]).sessionFile = sessions[s].sessionFile
    BY <2>1, MutatorFiles, MutatorsKeep
  <2>4. RecordKept(s)
    BY <2>2, <2>3 DEF RecordKept
  <2> QED BY <2>4 DEF RecordStep
<1> QED BY <1>1 DEF LinkLost

LEMMA SameKeeps ==
  ASSUME UNCHANGED sessions
  PROVE  \A s \in Session : RecordStep(s)
BY DEF RecordStep, RecordKept

\* What the hub's reading does to the sockets' queues.
LEMMA ReadsAre ==
  ASSUME CalmInv, NEW k \in Socket, \/ up' = up
                                    \/ up' = [up EXCEPT ![k] = <<>>]
                                    \/ up[k] # <<>> /\ up' = [up EXCEPT ![k] = Tail(@)]
  PROVE  OnlyNew({})
<1>t. up \in [Socket -> Seq(UpFrame)]
  BY DEF CalmInv, SysValid, ClientsValid
<1> SUFFICES ASSUME NEW j \in Socket, NEW i \in DOMAIN up'[j], up'[j] # up[j]
             PROVE  \E x \in DOMAIN up[j] : up'[j][i] = up[j][x]
  BY DEF OnlyNew
<1>1. up'[j] = <<>> \/ (up[j] # <<>> /\ up'[j] = Tail(up[j]))
  BY <1>t
<1>2. PICK g : g \in UpFrame
  BY FramesMade
<1> QED BY <1>t, <1>1, <1>2, OnQueue

\* The hub hears a daemon's hello.
LEMMA HelloCalm ==
  ASSUME CalmInv, NEW k \in Socket, Hello(k), up[k] # <<>>, up' = [up EXCEPT ![k] = Tail(@)],
         UNCHANGED <<socket, closed, pending, phase, child>>
  PROVE  Calmed
<1>t. /\ ws \in [Socket -> {"unused", "open", "agent", "closed", "replaced"}] /\ k # NoSocket
      /\ up \in [Socket -> Seq(UpFrame)]
  BY HubAssumption DEF CalmInv, SysValid, HubTypeOK, ClientsValid
<1>1. /\ ws[k] = "open" /\ conn' = k /\ down' = down
      /\ ws' = [ws EXCEPT ![k] = "agent"] \/ ws' = [ws EXCEPT ![conn] = "replaced", ![k] = "agent"]
      /\ UNCHANGED <<sessions, resumePlan>> \/ LinkLost
  BY DEF Hello
<1>2. SocketsOK' /\ NoneFail'
  <2>1. \A j \in Socket : ws'[j] \in {ws[j], "agent", "replaced"}
    BY <1>t, <1>1
  <2>2. \A d \in Daemon : socket[d] # NoSocket => socket[d] \in Socket
    BY DEF CalmInv, SysValid, ClientsValid
  <2>3. \A d \in Daemon : socket[d] # NoSocket => ws'[socket[d]] \notin {"unused", "closed"}
    BY <2>1, <2>2 DEF CalmInv, SocketsOK
  <2>4. OnlyNew({})
    BY ReadsAre
  <2> QED BY <1>1, <2>1, <2>3, <2>4, HubSockets
<1>3. Resumable'
  BY <1>1, LostKeeps, SameKeeps, ResumableKeeps
<1>4. PipesOK'
  <2> SUFFICES ASSUME NEW d \in Daemon, socket[d] = k, NEW s \in Session, Exists(sessions'[s])
               PROVE  PipeOK(d, s)'
    BY <1>1 DEF PipesOK
  <2>1. up'[k] = Tail(up[k])
    BY <1>t
  <2>2. resumePlan' # NoPlan /\ s \in resumePlan' => sessions'[s].sessionFile # NoFile
    BY <1>3 DEF Resumable
  <2> QED BY <1>t, <1>1, <2>1, <2>2, PipeOpens DEF CalmInv
<1> QED BY <1>2, <1>3, <1>4 DEF Calmed

\* The starts of a plan: one for every session it resumes, naming its own transcript.
LEMMA StartsMade ==
  ASSUME SysValid, NEW st \in [Session -> Reported], NEW starts \in StartsFor(Resumed(st))
  PROVE  /\ starts \in Seq(DownFrame)
         /\ \A s \in Session : /\ None(starts, OtherStarts(s, sessions[s].sessionFile))
                               /\ s \notin Resumed(st) => None(starts, StartsOf(s))
<1> DEFINE ids == Resumed(st)
           made(x) == StartFrame(x, sessions[x].sessionFile)
<1>1. ids \subseteq Minted /\ ids \subseteq Session
  BY DEF Resumed, SysValid, HubTypeOK, IdsValid
<1>2. Cardinality(ids) \in Nat
  <2>1. IsFiniteSet(ids)
    BY <1>1, HubAssumption, FS_Subset
  <2> QED BY <2>1, FS_CardinalityType
<1>3. PICK order \in [1..Cardinality(ids) -> ids] : starts = [i \in DOMAIN order |-> made(order[i])]
  BY DEF StartsFor
<1>4. \A x \in ids : made(x) \in DownFrame
  BY <1>1, FramesMade DEF SysValid, RecordsValid
<1>5. \A i \in DOMAIN starts : \E x \in ids : starts[i] = made(x)
  BY <1>3
<1>6. starts \in Seq(DownFrame)
  <2>1. starts \in [1..Cardinality(ids) -> DownFrame]
    BY <1>3, <1>4
  <2>2. PICK n \in Nat : starts \in [1..n -> DownFrame]
    BY <1>2, <2>1
  <2> QED BY <2>2, SeqDef
<1> HIDE DEF ids
<1>7. ASSUME NEW s \in Session
      PROVE  /\ None(starts, OtherStarts(s, sessions[s].sessionFile))
             /\ s \notin ids => None(starts, StartsOf(s))
  <2>1. \A x : /\ made(x) \notin OtherStarts(s, sessions[s].sessionFile)
               /\ made(x) \in StartsOf(s) => x = s
    BY DEF StartFrame, OtherStarts, StartsOf
  <2> HIDE DEF made
  <2> QED BY <1>5, <2>1 DEF None
<1> QED BY <1>6, <1>7 DEF ids

\* What a heartbeat that reports no failure does to a record.
LEMMA HeartbeatDoes ==
  ASSUME CalmInv, NEW k \in Socket, NEW st \in [Session -> Reported], Heartbeat(k, st),
         \A s \in Session : st[s] \in {"none", "starting", "live"}, NEW s \in Session
  PROVE  /\ RecordKept(s) /\ sessions'[s].sessionFile = sessions[s].sessionFile
         /\ s \in Resumed(st) =>
              /\ resumePlan # NoPlan /\ s \in resumePlan
              /\ Active(sessions'[s]) /\ sessions'[s].grace
         /\ s \notin Resumed(st) =>
              \/ s \in Judged(st) /\ st[s] = "none" /\ ~Active(sessions'[s])
              \/ /\ Active(sessions'[s]) <=> Active(sessions[s])
                 /\ Terminal(sessions'[s]) <=> Terminal(sessions[s])
                 /\ sessions'[s].grace = sessions[s].grace
<1>1. sessions[s] \in Record /\ sessions'[s] = AfterHeartbeat(st, s) /\ st[s] \in Reported
  BY DEF Heartbeat, CalmInv, SysValid, HubTypeOK
<1>2. CASE s \in Resumed(st)
  <2>1. /\ resumePlan # NoPlan /\ s \in resumePlan /\ sessions[s].sessionFile # NoFile
        /\ sessions'[s] = Reissue(sessions[s], TRUE)
    BY <1>1, <1>2 DEF Resumed, AfterHeartbeat
  <2>2. Exists(sessions[s])
    BY <2>1 DEF CalmInv, Resumable
  <2>3. /\ Active(sessions'[s]) /\ sessions'[s].grace /\ sessions'[s].sessionFile = sessions[s].sessionFile
    BY <1>1, <2>1, <2>2 DEF Record, Reissue, Active, ActiveStatus
  <2> QED BY <1>2, <2>1, <2>2, <2>3 DEF RecordKept, Exists
<1>3. CASE s \notin Resumed(st) /\ s \in Judged(st)
  <2>1. sessions'[s] = Reconciled(sessions[s], st[s]) /\ Active(sessions[s])
    BY <1>1, <1>3 DEF AfterHeartbeat, Judged
  <2>2. RecordKept(s) /\ sessions'[s].sessionFile = sessions[s].sessionFile
    <3>1. /\ Exists(Reconciled(sessions[s], st[s])) <=> Exists(sessions[s])
          /\ Reconciled(sessions[s], st[s]).sessionFile = sessions[s].sessionFile
      BY <1>1, MutatorFiles, MutatorsKeep
    <3> QED BY <2>1, <3>1 DEF RecordKept
  <2>3. CASE st[s] = "none"
    <3>1. sessions'[s] = MarkExited(sessions[s], FALSE)
      BY <2>1, <2>3 DEF Reconciled
    <3>2. ~Active(sessions'[s])
      BY <1>1, <2>1, <3>1 DEF MarkExited, Record, Active, ActiveStatus
    <3> QED BY <1>3, <2>2, <2>3, <3>2
  <2>4. CASE st[s] # "none"
    <3>1. sessions'[s] = [sessions[s] EXCEPT !.unreachable = FALSE]
      BY <2>1, <2>4 DEF Reconciled
    <3>2. /\ Active(sessions'[s]) <=> Active(sessions[s])
          /\ Terminal(sessions'[s]) <=> Terminal(sessions[s])
          /\ sessions'[s].grace = sessions[s].grace
      BY <1>1, <3>1 DEF Record, Active, Terminal
    <3> QED BY <1>3, <2>2, <3>2
  <2> QED BY <2>3, <2>4
<1>4. CASE s \notin Resumed(st) /\ s \notin Judged(st)
  <2>1. sessions'[s] = sessions[s]
    BY <1>1, <1>4 DEF AfterHeartbeat
  <2> QED BY <1>4, <2>1 DEF RecordKept
<1> QED BY <1>2, <1>3, <1>4

\* The hub reads a heartbeat.
LEMMA HeartbeatCalm ==
  ASSUME CalmInv, NEW k \in Socket, up[k] # <<>>, up' = [up EXCEPT ![k] = Tail(@)],
         Head(up[k]).t = "hb", Heartbeat(k, Head(up[k]).sessions),
         UNCHANGED <<socket, closed, pending, phase, child>>
  PROVE  Calmed
<1>1. PICK st : st = Head(up[k]).sessions
  OBVIOUS
<1>t. /\ up \in [Socket -> Seq(UpFrame)] /\ up[k] \in Seq(UpFrame) /\ Head(up[k]) \in UpFrame
      /\ down \in [Socket -> Seq(DownFrame)]
  BY DEF CalmInv, SysValid, ClientsValid, HubFramesValid
<1>2. st \in [Session -> Reported] /\ \A s \in Session : st[s] \in {"none", "starting", "live"}
  <2>1. Head(up[k]) = up[k][1] /\ 1 \in DOMAIN up[k]
    BY <1>t
  <2> QED BY <1>1, <1>t, <2>1, FramesRead DEF CalmInv, NoneFail
<1>3. PICK starts \in StartsFor(Resumed(st)) : down' = [down EXCEPT ![k] = @ \o starts]
  BY <1>1 DEF Heartbeat
<1>4. /\ conn = k /\ resumePlan' = NoPlan /\ preexistingIds' = preexistingIds \cup Resumed(st)
      /\ UNCHANGED <<ws, conn>> /\ Heartbeat(k, st)
  BY <1>1 DEF Heartbeat
<1>5. SocketsOK' /\ NoneFail'
  <2>1. OnlyNew({})
    BY ReadsAre
  <2>2. \A j \in Socket : j # conn => down'[j] = down[j]
    BY <1>t, <1>3, <1>4
  <2> QED BY <1>4, <2>1, <2>2, HubSocketsSame
<1>6. Resumable'
  <2>1. \A s \in Session : RecordStep(s)
    BY <1>2, <1>4, HeartbeatDoes DEF RecordStep
  <2> QED BY <1>4, <2>1, ResumableKeeps
<1>7. PipesOK'
  <2> SUFFICES ASSUME NEW d \in Daemon, conn' # NoSocket, socket'[d] = conn', NEW s \in Session, Exists(sessions'[s])
               PROVE  PipeOK(d, s)'
    BY DEF PipesOK
  <2>1. /\ conn # NoSocket /\ conn' = conn /\ socket[d] = conn /\ conn \in Socket
    BY <1>4
  <2>2. RecordKept(s) /\ sessions'[s].sessionFile = sessions[s].sessionFile
    BY <1>2, <1>4, HeartbeatDoes
  <2>3. PipeOK(d, s) /\ Exists(sessions[s])
    BY <2>1, <2>2 DEF CalmInv, PipesOK, RecordKept
  <2>4. KidsRest(d, s) /\ KidsStill(d, s)
    BY KidsAway, KidsRestStill
  <2>5. /\ up'[conn] = Tail(up[conn]) /\ up[conn] # <<>> /\ down'[conn] = down[conn] \o starts
        /\ down[conn] \in Seq(DownFrame)
    BY <1>t, <1>3, <1>4
  <2>6. /\ starts \in Seq(DownFrame)
        /\ None(starts, OtherStarts(s, sessions[s].sessionFile))
        /\ s \notin Resumed(st) => None(starts, StartsOf(s))
    BY <1>2, StartsMade DEF CalmInv
  <2>7. CASE s \in Resumed(st)
    <3>1. /\ resumePlan # NoPlan /\ s \in resumePlan /\ sessions'[s].grace
      BY <1>2, <1>4, <2>7, HeartbeatDoes
    <3> QED BY <2>1, <2>2, <2>3, <2>4, <2>5, <2>6, <3>1, PipeResumes DEF CalmInv
  <2>8. CASE s \notin Resumed(st)
    <3>1. DownStill(s)
      BY <2>5, <2>6, <2>8, ConcatKeeps DEF DownStill
    <3>2. PlanStill(s) /\ (s \in preexistingIds' => s \in preexistingIds)
      BY <1>4, <2>8 DEF PlanStill
    <3>3. CASE s \in Judged(st) /\ st[s] = "none" /\ ~Active(sessions'[s])
      <4>1. Judgeable(s)
        BY <3>3 DEF Judged, Judgeable
      <4>2. Head(up[conn]) \in Denials(s)
        BY <1>1, <1>t, <1>4, <3>3, FramesAre DEF CalmInv
      <4> QED BY <2>1, <2>2, <2>3, <2>4, <2>5, <3>1, <3>2, <3>3, <4>1, <4>2, PipeRetires DEF CalmInv
    <3>4. CASE /\ Active(sessions'[s]) <=> Active(sessions[s])
               /\ Terminal(sessions'[s]) <=> Terminal(sessions[s])
               /\ sessions'[s].grace = sessions[s].grace
      <4>1. HubStill(s)
        BY <2>2, <3>2, <3>4 DEF HubStill, PlanStill
      <4>2. Less(up[conn], up'[conn])
        BY <1>t, <2>1, <2>5, TailLess
      <4> QED BY <2>1, <2>3, <2>4, <3>1, <4>1, <4>2, PipeHeard
    <3> QED BY <1>2, <1>4, <2>8, <3>3, <3>4, HeartbeatDoes
  <2> QED BY <2>7, <2>8
<1> QED BY <1>5, <1>6, <1>7 DEF Calmed

\* The hub reads a frame about one session.
LEMMA FrameCalm ==
  ASSUME CalmInv, NEW k \in Socket, up[k] # <<>>, up' = [up EXCEPT ![k] = Tail(@)],
         UNCHANGED <<socket, closed, pending, phase, child>>,
         NEW s \in Session, NEW after, NEW kind, SessionFrame(k, s, after, kind), RecordKept(s),
         \A d \in Daemon : socket[d] = conn /\ Exists(sessions[s]) => PipeOK(d, s)'
  PROVE  Calmed
<1>t. up \in [Socket -> Seq(UpFrame)] /\ up[k] \in Seq(UpFrame) /\ sessions \in [Session -> Record]
  BY DEF CalmInv, SysValid, HubTypeOK, ClientsValid
<1>1. /\ conn = k /\ UNCHANGED <<ws, conn, preexistingIds, resumePlan, down>>
      /\ \A x \in Session : x # s => sessions'[x] = sessions[x]
  BY <1>t DEF SessionFrame, planVars
<1>2. SocketsOK' /\ NoneFail'
  BY <1>1, ReadsAre, HubSocketsSame
<1>3. Resumable'
  <2>1. \A x \in Session : RecordStep(x)
    BY <1>1 DEF RecordStep, RecordKept
  <2> QED BY <1>1, <2>1, ResumableKeeps
<1>4. PipesOK'
  <2> SUFFICES ASSUME NEW d \in Daemon, conn # NoSocket, socket[d] = conn, NEW x \in Session, Exists(sessions'[x])
               PROVE  PipeOK(d, x)'
    BY <1>1 DEF PipesOK
  <2>1. CASE x = s
    BY <2>1 DEF RecordKept
  <2>2. CASE x # s
    <3>1. PipeOK(d, x) /\ HubStill(x) /\ down'[conn] = down[conn]
      BY <1>1, <2>2 DEF CalmInv, PipesOK, HubStill
    <3>2. KidsStill(d, x)
      BY KidsAway, KidsRestStill
    <3>3. Less(up[conn], up'[conn])
      <4>1. up'[conn] = Tail(up[conn]) /\ up[conn] # <<>> /\ up[conn] \in Seq(UpFrame)
        BY <1>t, <1>1
      <4> QED BY <4>1, TailLess
    <3> QED BY <1>1, <3>1, <3>2, <3>3, SameLess, PipeLess
  <2> QED BY <2>1, <2>2
<1> QED BY <1>2, <1>3, <1>4 DEF Calmed

\* The hub hears that a child is ready.
LEMMA ReadyCalm ==
  ASSUME CalmInv, NEW k \in Socket, up[k] # <<>>, up' = [up EXCEPT ![k] = Tail(@)],
         UNCHANGED <<socket, closed, pending, phase, child>>,
         NEW s \in Session, NEW file \in OnDisk, Head(up[k]) = [t |-> "ready", id |-> s, file |-> file],
         SessionReady(k, s, file)
  PROVE  Calmed
<1>t. /\ up \in [Socket -> Seq(UpFrame)] /\ sessions \in [Session -> Record] /\ sessions[s] \in Record
      /\ file \in File /\ file # NoFile
  BY AgentAssumption, NoFileAssumption DEF CalmInv, SysValid, HubTypeOK, ClientsValid, OnDisk
<1>1. /\ conn = k /\ UNCHANGED <<ws, conn, preexistingIds, resumePlan, down>>
      /\ sessions'[s] = MarkReady(sessions[s], file)
      /\ SessionFrame(k, s, MarkReady(sessions[s], file), "none")
  BY <1>t DEF SessionReady, SessionFrame, planVars
<1>2. RecordKept(s)
  <2>1. Exists(MarkReady(sessions[s], file)) <=> Exists(sessions[s])
    BY <1>t, MutatorsKeep
  <2>2. \/ MarkReady(sessions[s], file).sessionFile = sessions[s].sessionFile
        \/ Exists(sessions[s]) /\ MarkReady(sessions[s], file).sessionFile # NoFile
    BY <1>t DEF MarkReady, Record, Exists
  <2> QED BY <1>1, <2>1, <2>2 DEF RecordKept
<1>3. ASSUME NEW d \in Daemon, socket[d] = conn, Exists(sessions[s]) PROVE PipeOK(d, s)'
  <2>1. conn # NoSocket
    BY <1>1, HubAssumption
  <2>2. PipeOK(d, s) /\ KidsRest(d, s) /\ PlanStill(s)
    BY <1>1, <1>3, <2>1, KidsAway DEF CalmInv, PipesOK, PlanStill
  <2>3. /\ up'[conn] = Tail(up[conn]) /\ up[conn] # <<>>
        /\ Head(up[conn]) = [t |-> "ready", id |-> s, file |-> file]
    BY <1>t, <1>1
  <2> QED BY <1>1, <2>1, <2>2, <2>3, PipeReady DEF CalmInv
<1> QED BY <1>1, <1>2, <1>3, FrameCalm

\* The hub hears that a child's life has ended.
LEMMA EndCalm ==
  ASSUME CalmInv, NEW k \in Socket, up[k] # <<>>, up' = [up EXCEPT ![k] = Tail(@)],
         UNCHANGED <<socket, closed, pending, phase, child>>,
         NEW s \in Session, Head(up[k]) \in EndsOf(s), NEW kind,
         NEW after \in {MarkFailed(sessions[s])} \cup {MarkExited(sessions[s], b) : b \in BOOLEAN},
         SessionFrame(k, s, after, kind)
  PROVE  Calmed
<1>t. /\ up \in [Socket -> Seq(UpFrame)] /\ sessions \in [Session -> Record] /\ sessions[s] \in Record
  BY DEF CalmInv, SysValid, HubTypeOK, ClientsValid
<1>1. /\ conn = k /\ UNCHANGED <<ws, conn, preexistingIds, resumePlan, down>> /\ sessions'[s] = after
  BY <1>t DEF SessionFrame, planVars
<1>e. after = MarkFailed(sessions[s]) \/ \E b \in BOOLEAN : after = MarkExited(sessions[s], b)
  OBVIOUS
<1>2. /\ Exists(after) <=> Exists(sessions[s])
      /\ after.sessionFile = sessions[s].sessionFile
  <2>1. CASE after = MarkFailed(sessions[s])
    BY <1>t, <2>1, MutatorsKeep, MutatorFiles
  <2>2. ASSUME NEW b \in BOOLEAN, after = MarkExited(sessions[s], b) PROVE (Exists(after) <=> Exists(sessions[s])) /\ after.sessionFile = sessions[s].sessionFile
    BY <1>t, <2>2, MutatorsKeep, MutatorFiles
  <2> QED BY <1>e, <2>1, <2>2
<1>3. ~Active(after)
  <2>1. NoFile \in File \cup {NoFile}
    OBVIOUS
  <2>2. ~Active(MarkFailed(sessions[s])) /\ \A b \in BOOLEAN : ~Active(MarkExited(sessions[s], b))
    BY <1>t, <2>1, MutatorEffects
  <2> QED BY <1>e, <2>2
<1>4. RecordKept(s)
  BY <1>1, <1>2 DEF RecordKept
<1>5. ASSUME NEW d \in Daemon, socket[d] = conn, Exists(sessions[s]) PROVE PipeOK(d, s)'
  <2>1. conn # NoSocket
    BY <1>1, HubAssumption
  <2>2. PipeOK(d, s) /\ KidsRest(d, s) /\ PlanStill(s) /\ DownStill(s)
    BY <1>1, <1>5, <2>1, KidsAway DEF CalmInv, PipesOK, PlanStill, DownStill
  <2>3. up'[conn] = Tail(up[conn]) /\ up[conn] # <<>> /\ Head(up[conn]) \in EndsOf(s)
    BY <1>t, <1>1
  <2> QED BY <1>1, <1>2, <1>3, <1>5, <2>1, <2>2, <2>3, PipeHears DEF CalmInv
<1> QED BY <1>4, <1>5, FrameCalm

\* The hub reads a frame that changes no record, or throws away what a closed socket carries.
LEMMA QuietCalm ==
  ASSUME CalmInv, NEW k \in Socket, UNCHANGED <<socket, closed, pending, phase, child>>,
         HubSame, UNCHANGED down,
         \/ up' = [up EXCEPT ![k] = <<>>] /\ k # conn
         \/ up[k] # <<>> /\ up' = [up EXCEPT ![k] = Tail(@)]
  PROVE  Calmed
<1>t. up \in [Socket -> Seq(UpFrame)]
  BY DEF CalmInv, SysValid, ClientsValid
<1>1. SocketsOK' /\ NoneFail'
  BY ReadsAre, HubSocketsSame DEF HubSame
<1>2. Resumable'
  BY DEF HubSame, CalmInv, Resumable
<1>3. PipesOK'
  <2> SUFFICES ASSUME NEW d \in Daemon, conn # NoSocket, socket[d] = conn, NEW s \in Session, Exists(sessions'[s])
               PROVE  PipeOK(d, s)'
    BY DEF HubSame, PipesOK
  <2>1. PipeOK(d, s) /\ HubStill(s) /\ conn' = conn /\ conn \in Socket
    BY AgentIs, HubSameStill DEF HubSame, CalmInv, PipesOK
  <2>2. KidsStill(d, s)
    BY KidsAway, KidsRestStill
  <2>3. Less(up[conn], up'[conn])
    <3>1. up'[conn] = up[conn] \/ (up[conn] # <<>> /\ up'[conn] = Tail(up[conn]))
      BY <1>t, <2>1
    <3>2. up[conn] \in Seq(UpFrame)
      BY <1>t, <2>1
    <3> QED BY <3>1, <3>2, SameLess, TailLess
  <2> QED BY <2>1, <2>2, <2>3, SameLess, PipeLess
<1> QED BY <1>1, <1>2, <1>3 DEF Calmed

\* A socket that no daemon holds any more is closed.
LEMMA ClosesCalm ==
  ASSUME CalmInv, NEW k \in Socket, HubSeesClose(k)
  PROVE  Calmed
<1>t. /\ ws \in [Socket -> {"unused", "open", "agent", "closed", "replaced"}]
      /\ socket \in [Daemon -> Socket \cup {NoSocket}]
  BY DEF CalmInv, SysValid, HubTypeOK, ClientsValid
<1>1. /\ ~Held(k) /\ HandleClose(k) /\ UNCHANGED <<phase, child, socket, closed, pending, up, down>>
  BY DEF HubSeesClose, HandleClose, machineVars, linkVars
<1>2. ws' = [ws EXCEPT ![k] = "closed"]
  BY <1>1 DEF HandleClose
<1>3. SocketsOK' /\ NoneFail'
  <2>1. \A d \in Daemon : socket[d] # k
    BY <1>1 DEF Held
  <2>2. \A d \in Daemon : socket[d] # NoSocket => socket[d] \in Socket /\ ws'[socket[d]] = ws[socket[d]]
    BY <1>t, <1>2, <2>1
  <2>3. \A d \in Daemon : socket[d] # NoSocket => ws'[socket[d]] \notin {"unused", "closed"}
    BY <2>2 DEF CalmInv, SocketsOK
  <2>4. \A j \in Socket : ws'[j] \in {"unused", "open"} => ws'[j] = ws[j] /\ down'[j] = down[j]
    BY <1>t, <1>1, <1>2
  <2> QED BY <1>1, <2>3, <2>4, ReadsAre, HubSockets
<1>4. Resumable'
  BY <1>1, LostKeeps, SameKeeps, ResumableKeeps DEF HandleClose
<1>5. PipesOK'
  <2>1. CASE conn = k
    BY <1>1, <2>1 DEF HandleClose, PipesOK
  <2>2. CASE conn # k
    <3>1. UNCHANGED <<sessions, conn, preexistingIds, resumePlan>>
      BY <1>1, <2>2 DEF HandleClose
    <3> SUFFICES ASSUME NEW d \in Daemon, conn # NoSocket, socket[d] = conn, NEW s \in Session, Exists(sessions'[s])
                 PROVE  PipeOK(d, s)'
      BY <1>1, <3>1 DEF PipesOK
    <3>2. PipeOK(d, s) /\ HubStill(s) /\ KidsStill(d, s)
      BY <1>1, <3>1, KidsAway, KidsRestStill DEF CalmInv, PipesOK, HubStill
    <3> QED BY <1>1, <3>1, <3>2, SameLess, PipeLess
  <2> QED BY <2>1, <2>2
<1> QED BY <1>3, <1>4, <1>5 DEF Calmed

\* The hub reads a frame, throws some away or notices a close.
LEMMA ReceivesCalm ==
  ASSUME CalmInv, NEW k \in Socket, HubReceives(k)
  PROVE  Calmed
<1>1. CASE HubReads(k)
  <2> DEFINE frame == Head(up[k])
  <2>1. /\ up[k] # <<>> /\ up' = [up EXCEPT ![k] = Tail(@)]
        /\ UNCHANGED <<socket, closed, pending, phase, child>>
    BY <1>1 DEF HubReads, machineVars
  <2>2. frame \in UpFrame
    BY <2>1 DEF CalmInv, SysValid, ClientsValid
  <2>3. \/ frame.t = "hello" /\ Hello(k)
        \/ frame.t = "hb" /\ Heartbeat(k, frame.sessions)
        \/ frame.t = "ready" /\ SessionReady(k, frame.id, frame.file)
        \/ frame.t = "error" /\ SessionError(k, frame.id)
        \/ frame.t = "exit" /\ SessionExit(k, frame.id, frame.upgrade)
        \/ frame.t = "result" /\ RestartResult(k, frame.reqId, frame.ok)
    BY <1>1 DEF HubReads
  <2>4. CASE frame.t = "hello" /\ Hello(k)
    BY <2>1, <2>4, HelloCalm
  <2>5. CASE frame.t = "hb" /\ Heartbeat(k, frame.sessions)
    BY <2>1, <2>5, HeartbeatCalm
  <2>6. CASE frame.t = "ready" /\ SessionReady(k, frame.id, frame.file)
    <3>1. frame.id \in Session /\ frame.file \in OnDisk /\ frame = [t |-> "ready", id |-> frame.id, file |-> frame.file]
      BY <2>2, <2>6 DEF UpFrame, Minted
    <3> QED BY <2>1, <2>6, <3>1, ReadyCalm
  <2>7. CASE frame.t = "error" /\ SessionError(k, frame.id)
    <3>1. frame.id \in Session /\ frame \in EndsOf(frame.id)
      BY <2>2, <2>7 DEF UpFrame, Minted, EndsOf
    <3> QED BY <2>1, <2>7, <3>1, EndCalm DEF SessionError
  <2>8. CASE frame.t = "exit" /\ SessionExit(k, frame.id, frame.upgrade)
    <3>1. frame.id \in Session /\ frame.upgrade \in BOOLEAN /\ frame \in EndsOf(frame.id)
      BY <2>2, <2>8 DEF UpFrame, Minted, EndsOf
    <3> QED BY <2>1, <2>8, <3>1, EndCalm DEF SessionExit
  <2>9. CASE frame.t = "result" /\ RestartResult(k, frame.reqId, frame.ok)
    <3>1. HubSame /\ UNCHANGED down
      BY <2>9 DEF RestartResult, HubSame
    <3> QED BY <2>1, <3>1, QuietCalm
  <2> QED BY <2>3, <2>4, <2>5, <2>6, <2>7, <2>8, <2>9
<1>2. CASE HubIgnores(k)
  <2>1. /\ HubSame /\ UNCHANGED <<down, socket, closed, pending, phase, child>>
        /\ up' = [up EXCEPT ![k] = <<>>] /\ ws[k] # "agent"
    BY <1>2 DEF HubIgnores, HubRests, HubSame, hubVars, planVars, machineVars
  <2>2. k # conn
    BY <2>1 DEF CalmInv, OneAgent
  <2> QED BY <2>1, <2>2, QuietCalm
<1>3. CASE HubSeesClose(k)
  BY <1>3, ClosesCalm
<1> QED BY <1>1, <1>2, <1>3 DEF HubReceives

-------------------------------------------------------------------------------
\* A timer of the hub or a request that leaves the connection as it is.
LEMMA HubCalm ==
  ASSUME CalmInv, UNCHANGED <<socket, closed, pending, up, phase, child, ws, conn>>,
         \A k \in Socket : k # conn => down'[k] = down[k],
         \A s \in Session : RecordStep(s), resumePlan' \in {resumePlan, NoPlan},
         \A d \in Daemon, s \in Session :
           conn # NoSocket /\ socket[d] = conn /\ Exists(sessions'[s]) => PipeOK(d, s)'
  PROVE  Calmed
<1>1. SocketsOK' /\ NoneFail'
  <2>1. OnlyNew({})
    BY DEF OnlyNew
  <2> QED BY <2>1, HubSocketsSame
<1>2. Resumable'
  BY ResumableKeeps
<1>3. PipesOK'
  BY DEF PipesOK
<1> QED BY <1>1, <1>2, <1>3 DEF Calmed

\* The sessions that such a step is not about.
LEMMA OthersStay ==
  ASSUME CalmInv, NEW d \in Daemon, NEW s \in Session, conn # NoSocket, socket[d] = conn,
         UNCHANGED <<up, child, conn>>, sessions'[s] = sessions[s], Exists(sessions'[s]),
         s \in preexistingIds' => s \in preexistingIds, resumePlan' \in {resumePlan, NoPlan},
         NEW f, f \notin StartsOf(s), down'[conn] = down[conn] \/ down'[conn] = down[conn] \o <<f>>
  PROVE  PipeOK(d, s)'
<1>1. PipeOK(d, s) /\ HubStill(s)
  BY DEF CalmInv, PipesOK, HubStill
<1>2. KidsRest(d, s)
  BY KidsAway
<1> QED BY <1>1, <1>2, PipeAsks DEF CalmInv

\* What the hub sends is the last frame of its queue.
LEMMA SentLast ==
  ASSUME CalmInv, conn # NoSocket, NEW f, Send(f)
  PROVE  /\ down'[conn] = down[conn] \o <<f>>
         /\ \A k \in Socket : k # conn => down'[k] = down[k]
<1>1. down \in [Socket -> Seq(DownFrame)] /\ conn \in Socket
  BY AgentIs DEF CalmInv, SysValid, HubFramesValid
<1>2. Append(down[conn], f) = down[conn] \o <<f>>
  BY <1>1
<1> QED BY <1>1, <1>2 DEF Send

\* The machine whose daemon is gone is taken offline.
LEMMA OfflineCalm ==
  ASSUME CalmInv, Offline, ~AgentListens, UNCHANGED <<socket, closed, pending, up, phase, child>>
  PROVE  Calmed
<1>t. /\ ws \in [Socket -> {"unused", "open", "agent", "closed", "replaced"}]
      /\ socket \in [Daemon -> Socket \cup {NoSocket}]
  BY DEF CalmInv, SysValid, HubTypeOK, ClientsValid
<1>1. /\ conn # NoSocket /\ conn \in Socket /\ conn' = NoSocket /\ ws' = [ws EXCEPT ![conn] = "closed"]
      /\ LinkLost /\ down' = down /\ \A d \in Daemon : socket[d] # conn
  BY AgentIs DEF Offline, AgentListens, Held
<1>2. SocketsOK' /\ NoneFail'
  <2>1. \A d \in Daemon : socket[d] # NoSocket => socket[d] \in Socket /\ ws'[socket[d]] = ws[socket[d]]
    BY <1>t, <1>1
  <2>2. \A d \in Daemon : socket[d] # NoSocket => ws'[socket[d]] \notin {"unused", "closed"}
    BY <2>1 DEF CalmInv, SocketsOK
  <2>3. \A j \in Socket : ws'[j] \in {"unused", "open"} => ws'[j] = ws[j] /\ down'[j] = down[j]
    BY <1>t, <1>1
  <2> QED BY <1>1, <2>2, <2>3, ReadsAre, HubSockets
<1>3. Resumable'
  BY <1>1, LostKeeps, ResumableKeeps
<1>4. PipesOK'
  BY <1>1 DEF PipesOK
<1> QED BY <1>2, <1>3, <1>4 DEF Calmed

\* A grace window runs out when neither a child of the session nor a heartbeat from before
\* its start is under way.
LEMMA GraceCalm ==
  ASSUME CalmInv, NEW s \in Session, GraceExpires(s), ~SpawnUnderWay(s), ~StaleHeartbeat(s),
         UNCHANGED <<socket, closed, pending, up, phase, child>>
  PROVE  Calmed
<1>t. sessions \in [Session -> Record]
  BY DEF CalmInv, SysValid, HubTypeOK
<1>1. /\ UNCHANGED <<ws, conn, preexistingIds, resumePlan, down>>
      /\ \A x \in Session : x # s => sessions'[x] = sessions[x]
      /\ sessions'[s] = [sessions[s] EXCEPT !.grace = FALSE]
  BY <1>t DEF GraceExpires, planVars
<1>2. \A x \in Session : RecordKept(x)
  <2>1. /\ Exists([sessions[s] EXCEPT !.grace = FALSE]) <=> Exists(sessions[s])
        /\ [sessions[s] EXCEPT !.grace = FALSE].sessionFile = sessions[s].sessionFile
    BY <1>t, MutatorsKeep, MutatorFiles
  <2> QED BY <1>1, <2>1 DEF RecordKept
<1>3. ASSUME NEW d \in Daemon, NEW x \in Session, conn # NoSocket, socket[d] = conn, Exists(sessions'[x])
      PROVE  PipeOK(d, x)'
  <2>1. CASE x = s
    <3>1. PipeOK(d, s) /\ KidsRest(d, s)
      BY <1>2, <1>3, <2>1, KidsAway DEF CalmInv, PipesOK, RecordKept
    <3> QED BY <1>3, <2>1, <3>1, PipeGrace DEF CalmInv
  <2>2. CASE x # s
    <3>1. StopFrame(s) \notin StartsOf(x)
      BY DEF StopFrame, StartsOf
    <3> QED BY <1>1, <1>3, <2>2, <3>1, OthersStay
  <2> QED BY <2>1, <2>2
<1> QED BY <1>1, <1>2, <1>3, HubCalm DEF RecordStep

\* Timers that fire when what they wait for cannot come any more.
CalmTimer ==
  /\ \/ Offline /\ ~AgentListens
     \/ ExpireRestart \/ ExpirePlan
     \/ \E s \in Session : GraceExpires(s) /\ ~SpawnUnderWay(s) /\ ~StaleHeartbeat(s)
  /\ UNCHANGED <<machineVars, linkVars>>

LEMMA TimersCalm ==
  ASSUME CalmInv, CalmTimer
  PROVE  Calmed
<1>1. UNCHANGED <<socket, closed, pending, up, phase, child>>
  BY DEF CalmTimer, machineVars, linkVars
<1>2. CASE ExpireRestart \/ ExpirePlan
  <2>1. /\ UNCHANGED <<sessions, ws, conn, preexistingIds, down>> /\ resumePlan' \in {resumePlan, NoPlan}
    BY <1>2 DEF ExpireRestart, ExpirePlan
  <2>2. ASSUME NEW d \in Daemon, NEW s \in Session, conn # NoSocket, socket[d] = conn, Exists(sessions'[s])
        PROVE  PipeOK(d, s)'
    <3>1. StopFrame(s) \notin StartsOf(s)
      BY DEF StopFrame, StartsOf
    <3> QED BY <1>1, <2>1, <2>2, <3>1, OthersStay
  <2> QED BY <1>1, <2>1, <2>2, SameKeeps, HubCalm
<1> QED BY <1>1, <1>2, OfflineCalm, GraceCalm DEF CalmTimer

\* A user creates a session.
LEMMA CreateCalm ==
  ASSUME CalmInv, NEW s \in Session, CreateSession(s, NoFile),
         UNCHANGED <<socket, closed, pending, up, phase, child>>
  PROVE  Calmed
<1>t. sessions \in [Session -> Record]
  BY DEF CalmInv, SysValid, HubTypeOK
<1> DEFINE all == [sessions EXCEPT ![s] = NewRecord]
<1>1. PICK drop \in SUBSET Session :
        /\ Pruned(all, drop)
        /\ sessions' = [x \in Session |-> IF x \in drop THEN Outside("deleted") ELSE all[x]]
  BY DEF CreateSession
<1>2. /\ sessions[s].status = "unused" /\ conn # NoSocket /\ Send(StartFrame(s, NoFile))
      /\ UNCHANGED <<ws, conn, preexistingIds, resumePlan>>
  BY DEF CreateSession, planVars
<1>3. s \notin drop
  <2>1. all[s] = NewRecord
    BY <1>t
  <2>2. ~Terminal(all[s])
    BY <2>1 DEF NewRecord, Outside, Terminal, TerminalStatus
  <2> QED BY <1>1, <2>2 DEF Pruned
<1>4. /\ sessions'[s] = NewRecord /\ s \notin Minted
      /\ \A x \in Session : x # s => sessions'[x] \in {sessions[x], Outside("deleted")}
  BY <1>t, <1>1, <1>2, <1>3 DEF Minted
<1>5. /\ down'[conn] = down[conn] \o <<StartFrame(s, NoFile)>>
      /\ \A k \in Socket : k # conn => down'[k] = down[k]
  BY <1>2, SentLast
<1>6. \A x \in Session : RecordStep(x)
  BY <1>4 DEF RecordStep, RecordKept
<1>7. ASSUME NEW d \in Daemon, NEW x \in Session, conn # NoSocket, socket[d] = conn, Exists(sessions'[x])
      PROVE  PipeOK(d, x)'
  <2>1. CASE x = s
    <3>1. KidsRest(d, s)
      BY KidsAway
    <3>2. StartFrame(s, NoFile) \in DownFrame'
      <4>1. s \in Minted' /\ NoFile \in Known'
        BY <1>4 DEF Minted, NewRecord, Outside, Known
      <4> QED BY <4>1, FramesMadeNext
    <3> QED BY <1>2, <1>4, <1>5, <2>1, <3>1, <3>2, PipeBegins DEF CalmInv
  <2>2. CASE x # s
    <3>1. StartFrame(s, NoFile) \notin StartsOf(x)
      BY <2>2 DEF StartFrame, StartsOf
    <3>2. sessions'[x] = sessions[x]
      BY <1>4, <1>7, <2>2 DEF Outside, Exists, Active, Terminal, ActiveStatus, TerminalStatus
    <3> QED BY <1>2, <1>5, <1>7, <3>1, <3>2, OthersStay
  <2> QED BY <2>1, <2>2
<1> QED BY <1>2, <1>5, <1>6, <1>7, HubCalm

\* A user restarts a session that has ended.
LEMMA RestartCalm ==
  ASSUME CalmInv, NEW s \in Session, RestartSession(s),
         UNCHANGED <<socket, closed, pending, up, phase, child>>
  PROVE  Calmed
<1>t. sessions \in [Session -> Record]
  BY DEF CalmInv, SysValid, HubTypeOK
<1>1. PICK f : f = StartFrame(s, sessions[s].sessionFile)
  OBVIOUS
<1>2. /\ Terminal(sessions[s]) /\ conn # NoSocket /\ Send(f)
      /\ UNCHANGED <<ws, conn, resumePlan>> /\ preexistingIds' = preexistingIds \cup {s}
      /\ sessions'[s] = Reissue(sessions[s], FALSE)
      /\ \A x \in Session : x # s => sessions'[x] = sessions[x]
  BY <1>t, <1>1 DEF RestartSession, planVars
<1>3. /\ down'[conn] = down[conn] \o <<f>>
      /\ \A k \in Socket : k # conn => down'[k] = down[k]
  BY <1>2, SentLast
<1>4. \A x \in Session : RecordKept(x)
  <2>1. /\ Exists(Reissue(sessions[s], FALSE)) <=> Exists(sessions[s])
        /\ Reissue(sessions[s], FALSE).sessionFile = sessions[s].sessionFile
    BY <1>t, MutatorsKeep, MutatorFiles
  <2> QED BY <1>2, <2>1 DEF RecordKept
<1>5. ASSUME NEW d \in Daemon, NEW x \in Session, conn # NoSocket, socket[d] = conn, Exists(sessions'[x])
      PROVE  PipeOK(d, x)'
  <2>1. CASE x = s
    <3>1. PipeOK(d, s) /\ KidsRest(d, s) /\ PlanStill(s)
      BY <1>2, <1>4, <1>5, <2>1, KidsAway DEF CalmInv, PipesOK, RecordKept, PlanStill
    <3> QED BY <1>1, <1>2, <1>3, <1>5, <2>1, <3>1, PipeReissues DEF CalmInv
  <2>2. CASE x # s
    <3>1. f \notin StartsOf(x)
      BY <1>1, <2>2 DEF StartFrame, StartsOf
    <3> QED BY <1>2, <1>3, <1>5, <2>2, <3>1, OthersStay
  <2> QED BY <2>1, <2>2
<1> QED BY <1>2, <1>3, <1>4, <1>5, HubCalm DEF RecordStep

\* A user asks for something else, for which the hub starts no child.
LEMMA OtherRequestsCalm ==
  ASSUME CalmInv, UNCHANGED <<socket, closed, pending, up, phase, child, ws, conn, preexistingIds, resumePlan>>,
         \A s \in Session : sessions'[s] \in {sessions[s], Outside("deleted")},
         NEW f, \A s \in Session : f \notin StartsOf(s), UNCHANGED down \/ (conn # NoSocket /\ Send(f))
  PROVE  Calmed
<1>1. /\ conn # NoSocket => down'[conn] = down[conn] \/ down'[conn] = down[conn] \o <<f>>
      /\ \A k \in Socket : k # conn => down'[k] = down[k]
  BY SentLast
<1>2. ASSUME NEW d \in Daemon, NEW s \in Session, conn # NoSocket, socket[d] = conn, Exists(sessions'[s])
      PROVE  PipeOK(d, s)'
  <2>1. sessions'[s] = sessions[s]
    BY <1>2 DEF Outside, Exists, Active, Terminal, ActiveStatus, TerminalStatus
  <2> QED BY <1>1, <1>2, <2>1, OthersStay
<1>3. \A s \in Session : RecordStep(s)
  BY DEF RecordStep, RecordKept
<1> QED BY <1>1, <1>2, <1>3, HubCalm

LEMMA RequestsCalm ==
  ASSUME CalmInv, UserRequest
  PROVE  Calmed
<1>1. UNCHANGED <<socket, closed, pending, up, phase, child>>
  BY DEF UserRequest, machineVars, linkVars
<1>t. sessions \in [Session -> Record]
  BY DEF CalmInv, SysValid, HubTypeOK
<1>2. ASSUME NEW s \in Session, StopSession(s) \/ DeleteSession(s) PROVE Calmed
  <2>1. /\ UNCHANGED <<ws, conn, preexistingIds, resumePlan>> /\ (UNCHANGED down \/ (conn # NoSocket /\ Send(StopFrame(s))))
        /\ \A x \in Session : sessions'[x] \in {sessions[x], Outside("deleted")}
    BY <1>t, <1>2 DEF StopSession, DeleteSession, planVars
  <2>2. \A x \in Session : StopFrame(s) \notin StartsOf(x)
    BY DEF StopFrame, StartsOf
  <2> QED BY <1>1, <2>1, <2>2, OtherRequestsCalm
<1>3. CASE RestartDaemon
  <2>1. PICK f : f = RestartFrame(lastReqId')
    OBVIOUS
  <2>2. /\ UNCHANGED <<sessions, ws, conn, preexistingIds, resumePlan>> /\ conn # NoSocket /\ Send(f)
    BY <1>3, <2>1 DEF RestartDaemon
  <2>3. \A x \in Session : f \notin StartsOf(x)
    BY <2>1 DEF RestartFrame, StartsOf
  <2> QED BY <1>1, <2>2, <2>3, OtherRequestsCalm
<1> QED BY <1>1, <1>2, <1>3, CreateCalm, RestartCalm DEF UserRequest

\* What the whole does when no link is cut, no child goes wrong by itself and no timer is early.
CalmDoes ==
  \/ \E d \in Daemon : \/ DaemonConnects(d) \/ DaemonBeats(d) \/ DaemonHandles(d) \/ DaemonSeesClose(d)
                       \/ DaemonHandsOff(d) \/ DaemonDies(d) \/ DaemonBoots(d)
  \/ \E c \in Child : ChildSteps(c)
  \/ \E k \in Socket : HubReceives(k)
  \/ CalmTimer \/ UserRequest

LEMMA CalmSteps ==
  ASSUME Mishaps \subseteq {"crash", "hand-off"}, SysNext
  PROVE  CalmDoes
<1>1. ~Fault("cut") /\ ~Fault("blip") /\ ~Fault("child") /\ ~Fault("timer")
  BY DEF Fault
<1>2. /\ \A d \in Daemon : ~Cut(d)
      /\ \A c \in Child : ~ChildMishap(c)
  BY <1>1 DEF Cut, ChildMishap
<1>3. HubTimer => CalmTimer
  BY <1>1 DEF HubTimer, CalmTimer
<1> QED BY <1>2, <1>3, SysSteps DEF SysDoes, CalmDoes

\* What holds when the whole starts is kept by its steps.
LEMMA CalmStarts == SysInit => CalmInv
<1> SUFFICES ASSUME SysInit PROVE CalmInv
  OBVIOUS
<1>1. SysValid /\ HubInit /\ SupInit
  BY SysStarts
<1>2. OneAgent
  BY <1>1, HubAssumption DEF HubInit, OneAgent
<1>3. /\ socket = [d \in Daemon |-> NoSocket] /\ pending = [d \in Daemon |-> <<>>]
      /\ up = [k \in Socket |-> <<>>] /\ down = [k \in Socket |-> <<>>] /\ conn = NoSocket /\ resumePlan = NoPlan
      /\ \A s \in Session : sessions[s] = Outside("unused")
  BY <1>1 DEF SysInit, ClientInit, Client, Daemon, HubInit
<1>4. /\ \A c \in Child : child[c] = NoChild
      /\ \A d \in Daemon : phase[d] \in {"unborn", "up"}
  BY <1>1 DEF SupInit
<1>5. SocketsOK
  <2>1. \A d \in Daemon : HostsNone(d)
    BY <1>4, AgentAssumption DEF HostsNone, NoChild, Daemon
  <2> QED BY <1>3, <1>4, <2>1 DEF SocketsOK
<1>6. NoneFail
  BY <1>3, <1>4 DEF NoneFail, NoChild
<1>7. Resumable
  BY <1>3 DEF Resumable, Outside
<1>8. PipesOK
  BY <1>3 DEF PipesOK
<1> QED BY <1>1, <1>2, <1>5, <1>6, <1>7, <1>8 DEF CalmInv

LEMMA CalmKept ==
  ASSUME Mishaps \subseteq {"crash", "hand-off"}, CalmInv, OneAgent', [SysNext]_sysVars
  PROVE  CalmInv'
<1>1. SysValid'
  BY SysSound DEF CalmInv
<1>2. CASE SysNext
  <2>1. Calmed
    BY <1>2, CalmSteps, ConnectsCalm, BeatsCalm, HandlesCalm, LosesCalm, HandsOffCalm, DiesCalm, BootsCalm,
       ChildStepsCalm, ReceivesCalm, TimersCalm, RequestsCalm DEF CalmDoes
  <2> QED BY <1>1, <2>1 DEF CalmInv, Calmed
<1>3. CASE UNCHANGED sysVars
  <2>1. /\ UNCHANGED <<socket, closed, pending, up, phase, child, ws, conn, sessions, resumePlan, preexistingIds, down>>
    BY <1>3 DEF sysVars, hubVars, planVars, machineVars, linkVars
  <2>2. ASSUME NEW d \in Daemon, NEW s \in Session, conn # NoSocket, socket[d] = conn, Exists(sessions'[s])
        PROVE  PipeOK(d, s)'
    <3>1. HubSame /\ KidsStill(d, s)
      BY <2>1, KidsAway, KidsRestStill DEF HubSame
    <3> QED BY <2>1, <2>2, <3>1, PipeAway
  <2>3. Calmed
    BY <2>1, <2>2, SameKeeps, HubCalm
  <2> QED BY <1>1, <2>3 DEF CalmInv, Calmed
<1> QED BY <1>2, <1>3

LEMMA CalmAlways ==
  ASSUME Mishaps \subseteq {"crash", "hand-off"}
  PROVE  SysSpec => []CalmInv
<1>1. CalmInv /\ OneAgent' /\ [SysNext]_sysVars => CalmInv'
  BY CalmKept
<1> QED BY <1>1, CalmStarts, RegistryImplements, OneAgentCorrect, PTL DEF SysSpec

\* The records change in the step that reads a heartbeat by that heartbeat alone.
LEMMA OnlyHeartbeats ==
  ASSUME CalmInv, CalmDoes, NEW k \in Socket, HeartbeatRead(k)
  PROVE  UNCHANGED sessions \/ (up[k] # <<>> /\ Heartbeat(k, Head(up[k]).sessions))
<1>t. up \in [Socket -> Seq(UpFrame)] /\ up[k] \in Seq(UpFrame)
  BY DEF CalmInv, SysValid, ClientsValid
<1>1. up[k] # <<>> /\ Head(up[k]).t = "hb" /\ up'[k] # up[k]
  <2>1. up[k] # <<>> => Tail(up[k]) # up[k]
    <3> SUFFICES ASSUME up[k] # <<>> PROVE Len(Tail(up[k])) # Len(up[k])
      OBVIOUS
    <3>1. Len(Tail(up[k])) = Len(up[k]) - 1 /\ Len(up[k]) \in Nat
      BY <1>t
    <3> QED BY <3>1
  <2> QED BY <2>1 DEF HeartbeatRead
<1>2. ASSUME NEW d \in Daemon, \/ DaemonConnects(d) \/ DaemonBeats(d) \/ DaemonHandles(d) \/ DaemonSeesClose(d)
                               \/ DaemonHandsOff(d) \/ DaemonDies(d) \/ DaemonBoots(d)
      PROVE  UNCHANGED sessions
  BY <1>2 DEF DaemonConnects, Upgrade, DaemonBeats, DaemonHandles, DaemonReads, DaemonSeesClose,
              DaemonHandsOff, DaemonDies, DaemonBoots, HubRests, hubVars
<1>3. ASSUME NEW c \in Child, ChildSteps(c) PROVE UNCHANGED sessions
  BY <1>3 DEF ChildSteps, HubRests, hubVars
<1>4. ~CalmTimer /\ ~UserRequest
  BY <1>1 DEF CalmTimer, UserRequest, linkVars
<1>5. ASSUME NEW j \in Socket, HubReceives(j)
      PROVE  UNCHANGED sessions \/ Heartbeat(k, Head(up[k]).sessions)
  <2>1. ~HubSeesClose(j)
    BY <1>1 DEF HubSeesClose, linkVars
  <2>2. HubIgnores(j) => UNCHANGED sessions
    BY DEF HubIgnores, HubRests, hubVars
  <2>3. CASE HubReads(j)
    <3>1. j = k
      BY <1>t, <1>1, <2>3 DEF HubReads
    <3> QED BY <1>1, <2>3, <3>1 DEF HubReads
  <2> QED BY <1>5, <2>1, <2>2, <2>3 DEF HubReceives
<1> QED BY <1>1, <1>2, <1>3, <1>4, <1>5 DEF CalmDoes

\* The heartbeat that is read spares a session that has a child.
LEMMA HeartbeatSpares ==
  ASSUME CalmInv, NEW k \in Socket, NEW s \in Session, HeartbeatRead(k), Coming(k, s), Active(sessions[s]),
         Heartbeat(k, Head(up[k]).sessions)
  PROVE  Active(sessions'[s])
<1>1. PICK st : st = Head(up[k]).sessions
  OBVIOUS
<1>2. /\ up[k] # <<>> /\ up[k] \in Seq(UpFrame) /\ Head(up[k]) \in UpFrame /\ Head(up[k]).t = "hb"
      /\ Head(up[k]) = up[k][1] /\ 1 \in DOMAIN up[k]
  <2>1. up[k] # <<>> /\ up[k] \in Seq(UpFrame) /\ Head(up[k]).t = "hb"
    BY DEF HeartbeatRead, CalmInv, SysValid, ClientsValid
  <2> QED BY <2>1
<1>3. st \in [Session -> Reported] /\ \A x \in Session : st[x] \in {"none", "starting", "live"}
  BY <1>1, <1>2, FramesRead DEF CalmInv, NoneFail
<1>4. PICK d \in Daemon : socket[d] = k /\ Kids(d, s) # {}
  BY DEF Coming, Kids
<1>5. conn = k /\ conn # NoSocket
  BY HubAssumption DEF Heartbeat
<1>6. Judgement(d, s)
  BY <1>4, <1>5 DEF CalmInv, PipesOK, PipeOK, Exists
<1>7. ASSUME s \in Judged(st), st[s] = "none" PROVE FALSE
  <2>1. Judgeable(s)
    BY <1>7 DEF Judged, Judgeable
  <2>2. Head(up[k]) \notin Denials(s)
    BY <1>2, <1>4, <1>5, <1>6, <2>1 DEF Judgement, None
  <2> QED BY <1>1, <1>2, <1>7, <2>2, FramesAre DEF CalmInv
<1> QED BY <1>1, <1>3, <1>7, HeartbeatDoes

\* No heartbeat retires a session whose child is running, or being spawned, on the daemon that
\* sent it, when the only faults are daemons that crash and hand-offs that fail.
THEOREM NoFalseRetirementCorrect ==
  ASSUME Mishaps \subseteq {"crash", "hand-off"}
  PROVE  SysSpec => NoFalseRetirement
<1> DEFINE Spares ==
      \A k \in Socket, s \in Session :
        HeartbeatRead(k) /\ Coming(k, s) /\ Active(sessions[s]) => Active(sessions'[s])
<1>1. CalmInv /\ [SysNext]_sysVars => [Spares]_sysVars
  <2> SUFFICES ASSUME CalmInv, SysNext, NEW k \in Socket, NEW s \in Session,
                      HeartbeatRead(k), Coming(k, s), Active(sessions[s])
               PROVE  Active(sessions'[s])
    OBVIOUS
  <2> QED BY CalmSteps, OnlyHeartbeats, HeartbeatSpares
<1> QED BY <1>1, CalmAlways, PTL DEF SysSpec, NoFalseRetirement
===============================================================================
