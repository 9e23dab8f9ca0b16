---------------------------- MODULE CommandsProofs ----------------------------
(***************************************************************************)
(* Proofs about Supervisor and about Commands, which extends it, for every *)
(* set of requests, sessions, children and files and every number of       *)
(* daemons.                                                                *)
(*                                                                         *)
(* Of the supervisor: types, then what a record in a table stands for      *)
(* (TableInv), then the files resumed, which only the end of a spawn can   *)
(* add to.                                                                 *)
(*                                                                         *)
(* Of the commands: every request is replied to at most once per daemon    *)
(* entry, and the tables of hub, daemon and child together implement       *)
(* RequestBook.  Each step is a step of one request, of all those that     *)
(* wait for a connection, or of all those a process takes with it.  So the *)
(* invariant and the abstract step are stated of one request's record      *)
(* (RequestOK and Allowed), shown for what each action makes of a record,  *)
(* and lifted once.                                                        *)
(***************************************************************************)
EXTENDS Commands, SequenceTheorems, TLAPS

(***************************************************************************)
(* The supervisor                                                          *)
(***************************************************************************)

\* The record a child leaves behind, and a stopped record, are child records.
LEMMA ChildRecords ==
  ASSUME SupTypeOK, NEW c \in Child
  PROVE  /\ NoChild \in ChildRecord
         /\ Ended(c) \in ChildRecord
         /\ child[c] \in ChildRecord
         /\ \A reason \in {"user", "upgrade"} : Stopped(child[c], reason) \in ChildRecord
         /\ \A b \in BOOLEAN : [child[c] EXCEPT !.mapped = b] \in ChildRecord
<1> USE DEF SupTypeOK, ChildRecord
<1>1. NoChild \in ChildRecord
  BY SupervisorAssumption DEF NoChild
<1>2. child[c] \in ChildRecord
  OBVIOUS
<1>3. Ended(c) \in ChildRecord
  BY <1>1, <1>2 DEF Ended, NoChild
<1>4. \A reason \in {"user", "upgrade"} : Stopped(child[c], reason) \in ChildRecord
  BY <1>2 DEF Stopped
<1>5. \A b \in BOOLEAN : [child[c] EXCEPT !.mapped = b] \in ChildRecord
  BY <1>2
<1> QED BY <1>1, <1>2, <1>3, <1>4, <1>5

\* No step of a daemon or a child leaves the types.
LEMMA SupTypeStep ==
  ASSUME SupTypeOK, [SupNext]_supVars
  PROVE  SupTypeOK'
<1> USE DEF SupTypeOK
<1>1. ASSUME NEW d \in Daemon, NEW s \in Session, NEW file \in OnDisk \cup {NoFile},
             NEW c \in Child, StartAccepted(d, s, file, c)
      PROVE SupTypeOK'
  <2>1. file \in File \cup {NoFile} /\ d \in 0..MaxDaemons
    BY SupervisorAssumption DEF OnDisk, Daemon
  <2> QED BY <2>1, <1>1 DEF StartAccepted, ChildRecord, NoChild
<1>2. ASSUME NEW d \in Daemon, NEW s \in Session, StartRefused(d, s) PROVE SupTypeOK'
  BY <1>2 DEF StartRefused
<1>3. ASSUME NEW d \in Daemon, NEW s \in Session, Stop(d, s) PROVE SupTypeOK'
  BY <1>3, ChildRecords DEF Stop
<1>4. ASSUME NEW d \in Daemon, RestartAccepted(d) PROVE SupTypeOK'
  <2>1. \A c \in Child : Stopped(child[c], "upgrade") \in ChildRecord
    BY ChildRecords
  <2>2. \A r \in ChildRecord : [r EXCEPT !.awaited = TRUE] \in ChildRecord
    BY DEF ChildRecord
  <2> QED BY <2>1, <2>2, <1>4 DEF RestartAccepted
<1>5. ASSUME NEW d \in Daemon, RestartRefused(d) PROVE SupTypeOK'
  BY <1>5 DEF RestartRefused
<1>6. ASSUME NEW c \in Child, SpawnDone(c) PROVE SupTypeOK'
  <2>1. [child[c] EXCEPT !.st = "starting", !.mapped = TRUE] \in ChildRecord
    <3>1. [child[c] EXCEPT !.st = "starting"] \in ChildRecord
      BY ChildRecords DEF ChildRecord
    <3>2. [[child[c] EXCEPT !.st = "starting"] EXCEPT !.mapped = TRUE] \in ChildRecord
      BY <3>1 DEF ChildRecord
    <3> QED BY <3>2, ChildRecords DEF ChildRecord
  <2> QED BY <2>1, <1>6, ChildRecords DEF SpawnDone
<1>7. ASSUME NEW c \in Child, SpawnFails(c) PROVE SupTypeOK'
  BY <1>7, ChildRecords DEF SpawnFails
<1>8. ASSUME NEW c \in Child, ChildReady(c) PROVE SupTypeOK'
  BY <1>8 DEF ChildReady, ChildRecord
<1>9. ASSUME NEW c \in Child, ChildFails(c) PROVE SupTypeOK'
  BY <1>9 DEF ChildFails, ChildRecord
<1>10. ASSUME NEW c \in Child, ChildExits(c) PROVE SupTypeOK'
  BY <1>10, ChildRecords DEF ChildExits
<1>11. ASSUME NEW d \in Daemon, NEW e \in Daemon, HandOff(d, e) PROVE SupTypeOK'
  BY <1>11 DEF HandOff
<1>12. ASSUME NEW d \in Daemon, HandOffFails(d) PROVE SupTypeOK'
  BY <1>12 DEF HandOffFails
<1>13. ASSUME NEW d \in Daemon, DaemonExits(d) \/ Crash(d) PROVE SupTypeOK'
  BY <1>13, ChildRecords DEF DaemonExits, Crash, DaemonEnds
<1>14. ASSUME NEW d \in Daemon, Boot(d) PROVE SupTypeOK'
  BY <1>14 DEF Boot
<1>15. CASE UNCHANGED supVars
  BY <1>15 DEF supVars
<1> QED BY <1>1, <1>2, <1>3, <1>4, <1>5, <1>6, <1>7, <1>8, <1>9, <1>10, <1>11, <1>12,
           <1>13, <1>14, <1>15 DEF SupNext, Frames, Children, Daemons

\* SupTypeOK is an invariant.
THEOREM SupTypeCorrect == SupSpec => []SupTypeOK
<1>1. SupInit => SupTypeOK
  BY SupervisorAssumption DEF SupInit, SupTypeOK, Daemon, NoChild, ChildRecord
<1> QED BY <1>1, SupTypeStep, PTL DEF SupSpec

-------------------------------------------------------------------------------
\* A child without a daemon is not in a table and will not get there.
Hosted == \A c \in Child : child[c].host = 0 => child[c].st \in {"unused", "gone"} /\ ~child[c].mapped

\* The inductive strengthening of TableIsMap: phase is only known of Daemon, and a
\* record with no daemon (host 0) must not come up in a step that adds to a table.
TableInv == TableIsMap /\ Hosted

\* The end of a daemon: what is left in a table is another daemon's, untouched.
LEMMA EndKeepsOthers ==
  ASSUME SupTypeOK, NEW d \in Daemon, DaemonEnds(d), NEW c \in Child
  PROVE  /\ child'[c].mapped => child'[c] = child[c] /\ child[c].host # d
         /\ child'[c].host = 0 => child'[c] = child[c] \/ (child'[c].st = "gone" /\ ~child'[c].mapped)
         /\ child[c].host # d => child'[c] = child[c]
<1> USE DEF SupTypeOK, ChildRecord, DaemonEnds
<1>1. CASE child[c].host # d
  BY <1>1
<1>2. CASE child[c].host = d /\ child[c].st = "spawning"
  <2>1. child'[c] = Ended(c)
    BY <1>2
  <2> QED BY <1>2, <2>1 DEF Ended, NoChild
<1>3. CASE child[c].host = d /\ child[c].st # "spawning"
  <2>1. child'[c] = [child[c] EXCEPT !.mapped = FALSE]
    BY <1>3
  <2>2. child[c] \in ChildRecord
    OBVIOUS
  <2>3. ~child'[c].mapped /\ child'[c].host = d /\ d # 0
    BY <1>3, <2>1, <2>2, SupervisorAssumption DEF Daemon
  <2> QED BY <1>3, <2>3
<1> QED BY <1>1, <1>2, <1>3

\* However starts, exits, stops and hand-offs interleave, the table of a daemon has
\* one record per id, and only children that run under a daemon that lives.
THEOREM TableIsMapCorrect == SupSpec => []TableIsMap
<1>1. SupInit => TableInv
  BY DEF TableInv, SupInit, TableIsMap, Hosted, NoChild
<1>2. SupTypeOK /\ TableInv /\ [SupNext]_supVars => TableInv'
  <2> SUFFICES ASSUME SupTypeOK, TableInv, [SupNext]_supVars PROVE TableInv'
    OBVIOUS
  <2> USE DEF SupTypeOK, ChildRecord, TableInv, TableIsMap, Hosted, Daemon, Mapped, Running, Alive
  <2>1. ASSUME NEW d \in Daemon, NEW s \in Session, NEW file \in OnDisk \cup {NoFile},
               NEW c \in Child, StartAccepted(d, s, file, c)
        PROVE TableInv'
    BY <2>1 DEF StartAccepted, NoChild
  <2>2. ASSUME NEW d \in Daemon, NEW s \in Session, StartRefused(d, s) PROVE TableInv'
    BY <2>2 DEF StartRefused
  <2>3. ASSUME NEW d \in Daemon, NEW s \in Session, Stop(d, s) PROVE TableInv'
    BY <2>3 DEF Stop, Stopped
  <2>4. ASSUME NEW d \in Daemon, RestartAccepted(d) PROVE TableInv'
    BY <2>4 DEF RestartAccepted, Stopped
  <2>5. ASSUME NEW d \in Daemon, RestartRefused(d) PROVE TableInv'
    BY <2>5 DEF RestartRefused
  <2>6. ASSUME NEW c \in Child, SpawnDone(c) PROVE TableInv'
    BY <2>6 DEF SpawnDone
  <2>7. ASSUME NEW c \in Child, SpawnFails(c) PROVE TableInv'
    BY <2>7 DEF SpawnFails, Ended, NoChild
  <2>8. ASSUME NEW c \in Child, ChildReady(c) PROVE TableInv'
    BY <2>8 DEF ChildReady
  <2>9. ASSUME NEW c \in Child, ChildFails(c) PROVE TableInv'
    BY <2>9 DEF ChildFails
  <2>10. ASSUME NEW c \in Child, ChildExits(c) PROVE TableInv'
    BY <2>10 DEF ChildExits, Ended, NoChild
  <2>11. ASSUME NEW d \in Daemon, NEW e \in Daemon, HandOff(d, e) PROVE TableInv'
    BY <2>11 DEF HandOff, Boots
  <2>12. ASSUME NEW d \in Daemon, HandOffFails(d) PROVE TableInv'
    BY <2>12 DEF HandOffFails
  <2>13. ASSUME NEW d \in Daemon, DaemonExits(d) \/ Crash(d) PROVE TableInv'
    <3>1. DaemonEnds(d)
      BY <2>13 DEF DaemonExits, Crash
    <3>2. phase' = [phase EXCEPT ![d] = "dead"]
      BY <3>1 DEF DaemonEnds
    <3> QED BY <3>1, <3>2, EndKeepsOthers
  <2>14. ASSUME NEW d \in Daemon, Boot(d) PROVE TableInv'
    BY <2>14 DEF Boot, Boots
  <2>15. CASE UNCHANGED supVars
    BY <2>15 DEF supVars
  <2> QED BY <2>1, <2>2, <2>3, <2>4, <2>5, <2>6, <2>7, <2>8, <2>9, <2>10, <2>11, <2>12,
             <2>13, <2>14, <2>15 DEF SupNext, Frames, Children, Daemons
<1>3. TableInv => TableIsMap
  BY DEF TableInv
<1> QED BY SupTypeCorrect, <1>1, <1>2, <1>3, PTL DEF SupSpec

-------------------------------------------------------------------------------
\* No step but the end of a spawn gives a child a slot, and none changes the file a
\* child in a slot resumes.
SlotsOnlyShrink ==
  \A c \in Child : child'[c].mapped /\ child'[c].st \in {"starting", "live"} =>
    /\ child[c].mapped /\ child[c].st \in {"starting", "live"}
    /\ child'[c].host = child[c].host /\ child'[c].resume = child[c].resume

\* A step that only shrinks the slots keeps ResumedOnce.
LEMMA ShrinkKeepsResumed ==
  ASSUME ResumedOnce, SlotsOnlyShrink
  PROVE  ResumedOnce'
BY DEF ResumedOnce, SlotsOnlyShrink, Slots, Mapped

\* No two children in one daemon's slots were told to resume the same file: the guard
\* runs after the last await of spawn.
THEOREM ResumedOnceCorrect == SupSpec => []ResumedOnce
<1>1. SupInit => ResumedOnce
  BY DEF SupInit, ResumedOnce, Slots, Mapped, NoChild
<1>2. SupTypeOK /\ TableIsMap /\ ResumedOnce /\ [SupNext]_supVars => ResumedOnce'
  <2> SUFFICES ASSUME SupTypeOK, TableIsMap, ResumedOnce, [SupNext]_supVars PROVE ResumedOnce'
    OBVIOUS
  <2>1. ASSUME NEW c \in Child, SpawnDone(c) PROVE ResumedOnce'
    <3> SUFFICES ASSUME NEW d \in Daemon, NEW a \in Slots(d)', NEW b \in Slots(d)',
                        child'[a].resume # NoFile, child'[a].resume = child'[b].resume
                 PROVE  a = b
      BY DEF ResumedOnce
    <3>1. \A x \in Slots(d)' : x # c => x \in Slots(d) /\ child'[x].resume = child[x].resume
      BY <2>1 DEF SpawnDone, Slots, Mapped, SupTypeOK, ChildRecord
    <3>2. child'[c].resume = child[c].resume /\ child'[c].host = child[c].host
      BY <2>1 DEF SpawnDone, SupTypeOK, ChildRecord
    <3>3. c \in Slots(d)' => d = child[c].host
      BY <3>2 DEF Slots, Mapped
    <3>4. child[c].resume # NoFile => \A x \in Slots(child[c].host) : child[x].resume # child[c].resume
      BY <2>1 DEF SpawnDone, InUse
    <3> QED BY <3>1, <3>2, <3>3, <3>4 DEF ResumedOnce
  <2>2. CASE ~\E c \in Child : SpawnDone(c)
    <3> SUFFICES SlotsOnlyShrink
      BY ShrinkKeepsResumed
    <3> USE DEF SupTypeOK, ChildRecord, SlotsOnlyShrink
    <3>1. ASSUME NEW d \in Daemon, NEW s \in Session, NEW file \in OnDisk \cup {NoFile},
                 NEW c \in Child, StartAccepted(d, s, file, c)
          PROVE SlotsOnlyShrink
      BY <3>1 DEF StartAccepted, NoChild
    <3>2. ASSUME NEW d \in Daemon, NEW s \in Session, Stop(d, s) PROVE SlotsOnlyShrink
      BY <3>2 DEF Stop, Stopped
    <3>3. ASSUME NEW d \in Daemon, RestartAccepted(d) PROVE SlotsOnlyShrink
      BY <3>3 DEF RestartAccepted, Stopped
    <3>4. ASSUME NEW c \in Child, SpawnFails(c) PROVE SlotsOnlyShrink
      BY <3>4 DEF SpawnFails, Ended, NoChild
    <3>5. ASSUME NEW c \in Child, ChildReady(c) PROVE SlotsOnlyShrink
      BY <3>5 DEF ChildReady
    <3>6. ASSUME NEW c \in Child, ChildFails(c) PROVE SlotsOnlyShrink
      BY <3>6 DEF ChildFails
    <3>7. ASSUME NEW c \in Child, ChildExits(c) PROVE SlotsOnlyShrink
      <4>1. ~child'[c].mapped
        BY <3>7 DEF ChildExits, Ended, NoChild
      <4>2. \A x \in Child : x # c /\ child'[x].mapped => child'[x] = child[x]
        BY <3>7 DEF ChildExits
      <4> QED BY <4>1, <4>2
    <3>8. ASSUME NEW d \in Daemon, DaemonExits(d) \/ Crash(d) PROVE SlotsOnlyShrink
      <4>1. DaemonEnds(d)
        BY <3>8 DEF DaemonExits, Crash
      <4> QED BY <4>1, EndKeepsOthers
    <3>9. CASE UNCHANGED child
      BY <3>9
    <3> QED BY <2>2, <3>1, <3>2, <3>3, <3>4, <3>5, <3>6, <3>7, <3>8, <3>9
            DEF SupNext, Frames, Children, Daemons, StartRefused, RestartRefused, HandOff,
                HandOffFails, Boot, supVars
  <2> QED BY <2>1, <2>2
<1> QED BY SupTypeCorrect, TableIsMapCorrect, <1>1, <1>2, PTL DEF SupSpec

(***************************************************************************)
(* The commands                                                            *)
(***************************************************************************)
USE DEF Daemon

\* Nothing but word of an unknown outcome is on its way.
OnlyUnknown(r) == \A i \in DOMAIN r.up : r.up[i] = "unknown"

\* What the tables and pipes hold of a request before it is carried out.
NotYetRun(r) ==
  /\ r.hub = "none" => r.at = "none" /\ r.c = NoFile /\ r.replies = 0
  /\ r.at = "none" => r.hub \in {"none", "refused"} /\ r.up = <<>> /\ ~r.owed /\ ~r.ran
  /\ r.at = "down" => ~r.owed /\ r.replies = 0 /\ r.up = <<>> /\ r.c = NoFile /\ r.to # 0
  /\ r.at = "stdin" => r.target \in Session
  /\ r.at \in {"down", "stdin"} => ~r.ran /\ r.hub \in {"open", "unknown"} /\ OnlyUnknown(r)

\* What they hold of one that runs; the restart of the daemon is answered at once.
Runs(r) ==
  /\ r.at = "running" => r.ran /\ r.hub # "refused"
  /\ r.at = "running" /\ r.target \in Session => OnlyUnknown(r)
  /\ r.at = "running" /\ r.target = Machine => r.owed /\ r.c = NoFile
  /\ r.at = "running" /\ r.target = Restart =>
       /\ ~r.owed /\ r.c = NoFile /\ Len(r.up) <= 1
       /\ r.hub = "open" => r.up = <<"answered">>

\* An entry is there until the reply; results tell the truth, but for the failure of
\* a restart that was acknowledged before.
Results(r) ==
  /\ r.owed => r.up = <<>> /\ r.replies = 0 /\ r.at \in {"stdin", "running", "over"} /\ r.target # Restart
  /\ r.replies <= 1 /\ Len(r.up) <= 2
  /\ \A i \in DOMAIN r.up : r.up[i] = "answered" => r.ran
  /\ \A i \in DOMAIN r.up : r.up[i] = "refused" =>
       \/ ~r.ran /\ r.at = "over"
       \/ r.hub = "open" => i = 2 /\ r.up[1] = "answered"

\* Only requests of the current connection are open.
Current(r, k) == r.hub = "open" /\ ~Resting(r) => r.to = k

RequestOK(r, k) ==
  r \in RequestRecord /\ NotYetRun(r) /\ Runs(r) /\ Results(r) /\ Current(r, k)

CmdInv ==
  /\ conn \in 0..MaxDaemons
  /\ req \in [Request -> RequestRecord]
  /\ \A q \in Request : RequestOK(req[q], conn)

\* A step of RequestBook, said of the record.
Allowed(r, s) ==
  \/ s.hub = r.hub /\ s.ran = r.ran
  \/ r.hub = "none" /\ s.hub = "open" /\ s.ran = r.ran
  \/ s.hub = r.hub /\ r.hub \in {"open", "unknown"} /\ ~r.ran /\ s.ran
  \/ /\ r.hub = "open" \/ (r.hub = "none" /\ s.hub = "refused")
     /\ s.hub \in {"answered", "refused", "unknown"}
     /\ s.hub = "answered" => r.ran
     /\ s.hub = "refused" => ~r.ran
     /\ s.ran = r.ran

USE DEF OnlyUnknown, NotYetRun, Runs, Results, Current
-------------------------------------------------------------------------------
(***************************************************************************)
(* Lemmas about one record.                                                *)
(***************************************************************************)

\* Forgetting where a resting request went disturbs nothing.
LEMMA AtRestKeeps ==
  ASSUME NEW r, NEW k, RequestOK(r, k)
  PROVE  RequestOK(AtRest(r), k) /\ AtRest(r).hub = r.hub /\ AtRest(r).ran = r.ran
<1> DEFINE s == [r EXCEPT !.target = NoTarget, !.to = 0, !.replies = 0]
<1>0. r \in RequestRecord /\ NotYetRun(r) /\ Runs(r) /\ Results(r) /\ Current(r, k)
  BY DEF RequestOK
<1>1. CASE ~Resting(r)
  BY <1>0, <1>1 DEF AtRest, RequestOK
<1>2. CASE Resting(r)
  <2>1. AtRest(r) = s
    BY <1>2 DEF AtRest
  <2>2. s \in RequestRecord
    <3>1. 0 \in 0..MaxDaemons /\ 0 \in 0..2
      BY SupervisorAssumption
    <3>2. [r EXCEPT !.target = NoTarget] \in RequestRecord
      BY <1>0 DEF RequestRecord
    <3>3. [[r EXCEPT !.target = NoTarget] EXCEPT !.to = 0] \in RequestRecord
      BY <3>1, <3>2 DEF RequestRecord
    <3> QED BY <3>1, <3>3, <1>0 DEF RequestRecord
  <2>3. /\ s.target = NoTarget /\ s.to = 0 /\ s.replies = 0
        /\ s.hub = r.hub /\ s.at = r.at /\ s.c = r.c /\ s.late = r.late
        /\ s.owed = r.owed /\ s.up = r.up /\ s.ran = r.ran
    BY <1>0 DEF RequestRecord
  <2>4. r.at \in {"none", "over"} /\ ~r.owed /\ r.up = <<>>
    BY <1>2 DEF Resting
  <2>6. NotYetRun(s)
    BY <1>0, <2>3, <2>4
  <2>7. Runs(s)
    BY <1>0, <2>3, <2>4
  <2>8. Results(s)
    BY <1>0, <2>3, <2>4
  <2>9. Current(s, k)
    <3>1. Resting(s)
      BY <2>3, <2>4 DEF Resting
    <3> QED BY <3>1
  <2> QED BY <2>1, <2>2, <2>3, <2>6, <2>7, <2>8, <2>9 DEF RequestOK
<1> QED BY <1>1, <1>2

\* What one action makes of one request is lifted to all.
LEMMA OneRequest ==
  ASSUME CmdInv, NEW q \in Request, NEW r, RequestOK(r, conn), Allowed(req[q], r),
         Becomes(q, r), UNCHANGED conn
  PROVE  CmdInv' /\ \A p \in Request : Allowed(req[p], req'[p])
<1>1. /\ RequestOK(AtRest(r), conn)
      /\ AtRest(r).hub = r.hub /\ AtRest(r).ran = r.ran
  BY AtRestKeeps
<1>2. req' = [req EXCEPT ![q] = AtRest(r)]
  BY DEF Becomes
<1>3. Allowed(req[q], AtRest(r))
  BY <1>1 DEF Allowed
<1>4. AtRest(r) \in RequestRecord
  BY <1>1 DEF RequestOK
<1>5. CmdInv'
  <2>1. conn' \in 0..MaxDaemons /\ req' \in [Request -> RequestRecord]
    BY <1>2, <1>4 DEF CmdInv
  <2>2. \A p \in Request : RequestOK(req'[p], conn')
    BY <1>1, <1>2 DEF CmdInv
  <2> QED BY <2>1, <2>2 DEF CmdInv
<1>6. ASSUME NEW p \in Request PROVE Allowed(req[p], req'[p])
  <2>1. CASE p = q
    BY <2>1, <1>2, <1>3 DEF CmdInv
  <2>2. CASE p # q
    BY <2>2, <1>2 DEF CmdInv, Allowed
  <2> QED BY <2>1, <2>2
<1> QED BY <1>5, <1>6

LEMMA HubActions ==
  ASSUME CmdInv, NEW q \in Request,
         HubStep(q)
  PROVE  CmdInv' /\ \A p \in Request : Allowed(req[p], req'[p])
<1> DEFINE r == req[q]
<1>0. RequestOK(r, conn)
  BY DEF CmdInv
<1>1. CASE SendRefused(q)
  <2> DEFINE n == [r EXCEPT !.hub = "refused"]
  <2>1. RequestOK(n, conn)
    BY <1>0, <1>1 DEF SendRefused, RequestOK, RequestRecord, Resting
  <2>2. Allowed(r, n)
    BY <1>0, <1>1 DEF SendRefused, RequestOK, RequestRecord, Allowed
  <2> QED BY <1>1, <2>1, <2>2, OneRequest DEF SendRefused, Others
<1>2. ASSUME NEW t \in Session \cup {Machine, Restart}, Send(q, t)
      PROVE  CmdInv' /\ \A p \in Request : Allowed(req[p], req'[p])
  <2> DEFINE n == [r EXCEPT !.hub = "open", !.target = t, !.to = conn, !.at = "down"]
  <2>1. RequestOK(n, conn)
    <3>1. /\ r \in RequestRecord /\ r.at = "none" /\ r.replies = 0 /\ r.c = NoFile
          /\ ~r.ran /\ ~r.owed /\ r.up = <<>>
      BY <1>0, <1>2 DEF Send, RequestOK
    <3>2. conn \in 0..MaxDaemons /\ conn # 0
      BY <1>2 DEF CmdInv, Send
    <3>3. n \in RequestRecord
      BY <3>1, <3>2 DEF RequestRecord
    <3>4. /\ n.hub = "open" /\ n.target = t /\ n.to = conn /\ n.at = "down" /\ n.replies = 0
          /\ n.c = NoFile /\ ~n.ran /\ ~n.owed /\ n.up = <<>>
      BY <3>1 DEF RequestRecord
    <3> HIDE DEF n
    <3> QED BY <3>2, <3>3, <3>4, CommandsAssumption DEF RequestOK
  <2>2. Allowed(r, n)
    BY <1>0, <1>2 DEF Send, RequestOK, RequestRecord, Allowed
  <2> QED BY <1>2, <2>1, <2>2, OneRequest DEF Send, Others
<1>3. CASE Deliver(q)
  <2> DEFINE n == [r EXCEPT !.hub = IF @ = "open" THEN Head(r.up) ELSE @, !.up = Tail(@)]
  <2>1. RequestOK(n, conn)
    <3>1. /\ r \in RequestRecord /\ NotYetRun(r) /\ Runs(r) /\ Results(r) /\ Current(r, conn)
          /\ r.up # <<>>
      BY <1>0, <1>3 DEF Deliver, RequestOK
    <3>2. /\ r.up \in Seq({"answered", "refused", "unknown"}) /\ Len(r.up) \in 1..2
          /\ Head(r.up) = r.up[1] /\ Head(r.up) \in {"answered", "refused", "unknown"}
          /\ Tail(r.up) \in Seq({"answered", "refused", "unknown"})
          /\ Len(Tail(r.up)) = Len(r.up) - 1
          /\ \A i \in DOMAIN Tail(r.up) : i + 1 \in DOMAIN r.up /\ Tail(r.up)[i] = r.up[i + 1]
      <4> DEFINE u == r.up
      <4>1. u \in Seq({"answered", "refused", "unknown"}) /\ Len(u) <= 2 /\ u # <<>>
        BY <3>1 DEF RequestRecord
      <4> HIDE DEF u
      <4>2. Len(u) \in 1..2 /\ DOMAIN u = 1..Len(u)
        <5>1. Len(u) \in Nat /\ DOMAIN u = 1..Len(u)
          BY <4>1
        <5>2. Len(u) # 0
          BY <4>1, EmptySeq
        <5> QED BY <4>1, <5>1, <5>2
      <4>3. /\ Head(u) = u[1] /\ Head(u) \in {"answered", "refused", "unknown"}
            /\ Tail(u) \in Seq({"answered", "refused", "unknown"})
            /\ Len(Tail(u)) = Len(u) - 1
            /\ \A i \in 1..Len(Tail(u)) : Tail(u)[i] = u[i + 1]
        BY <4>1, <4>2
      <4>4. DOMAIN Tail(u) = 1..Len(Tail(u))
        BY <4>3
      <4> QED BY <4>1, <4>2, <4>3, <4>4 DEF u
    <3>3. n \in RequestRecord
      <4>1. [r EXCEPT !.hub = IF @ = "open" THEN Head(r.up) ELSE @] \in RequestRecord
        BY <3>1, <3>2 DEF RequestRecord
      <4> QED BY <3>2, <4>1 DEF RequestRecord
    <3>4. /\ n.hub = IF r.hub = "open" THEN r.up[1] ELSE r.hub
          /\ n.up = Tail(r.up)
          /\ n.target = r.target /\ n.to = r.to /\ n.at = r.at /\ n.c = r.c
          /\ n.owed = r.owed /\ n.ran = r.ran /\ n.replies = r.replies
      BY <3>1, <3>2 DEF RequestRecord
    <3>5. NotYetRun(n)
      BY <3>1, <3>2, <3>4
    <3>6. Runs(n)
      BY <3>1, <3>2, <3>4
    <3>7. Results(n)
      BY <3>1, <3>2, <3>4
    <3>8. Current(n, conn)
      BY <3>1, <3>2, <3>4 DEF Resting
    <3> QED BY <3>3, <3>5, <3>6, <3>7, <3>8 DEF RequestOK
  <2>2. Allowed(r, n)
    BY <1>0, <1>3 DEF Deliver, RequestOK, RequestRecord, Allowed
  <2> QED BY <1>3, <2>1, <2>2, OneRequest DEF Deliver, Others
<1>4. CASE HubTimeout(q)
  <2> DEFINE n == [r EXCEPT !.hub = "unknown"]
  <2>1. RequestOK(n, conn)
    BY <1>0, <1>4 DEF HubTimeout, RequestOK, RequestRecord, Resting
  <2>2. Allowed(r, n)
    BY <1>0, <1>4 DEF HubTimeout, RequestOK, RequestRecord, Allowed
  <2> QED BY <1>4, <2>1, <2>2, OneRequest DEF HubTimeout, Others
<1>5. CASE CommandLost(q)
  <2>1. RequestOK(Over(r), conn)
    BY <1>0, <1>5 DEF CommandLost, Over, RequestOK, RequestRecord, Resting
  <2>2. Allowed(r, Over(r))
    BY <1>0, <1>5 DEF CommandLost, Over, RequestOK, RequestRecord, Allowed
  <2> QED BY <1>5, <2>1, <2>2, OneRequest DEF CommandLost, Others
<1>6. CASE ResultLost(q)
  <2> DEFINE n == [r EXCEPT !.up = <<>>]
  <2>1. RequestOK(n, conn)
    <3>1. /\ r \in RequestRecord /\ NotYetRun(r) /\ Runs(r) /\ Results(r) /\ Current(r, conn)
          /\ r.up # <<>> /\ conn # r.to
      BY <1>0, <1>6 DEF ResultLost, RequestOK
    <3>2. r.hub # "open"
      BY <3>1 DEF Resting
    <3>3. n \in RequestRecord
      <4>1. <<>> \in Seq({"answered", "refused", "unknown"})
        OBVIOUS
      <4> QED BY <3>1, <4>1 DEF RequestRecord
    <3>4. /\ n.up = <<>>
          /\ n.hub = r.hub /\ n.target = r.target /\ n.to = r.to /\ n.at = r.at /\ n.c = r.c
          /\ n.owed = r.owed /\ n.ran = r.ran /\ n.replies = r.replies
      BY <3>1 DEF RequestRecord
    <3> QED BY <3>1, <3>2, <3>3, <3>4 DEF RequestOK
  <2>2. Allowed(r, n)
    BY <1>0, <1>6 DEF ResultLost, RequestOK, RequestRecord, Allowed
  <2> QED BY <1>6, <2>1, <2>2, OneRequest DEF ResultLost, Others
<1> QED BY <1>1, <1>2, <1>3, <1>4, <1>5, <1>6 DEF HubStep

-------------------------------------------------------------------------------
(***************************************************************************)
(* The daemon and the child.                                               *)
(***************************************************************************)

\* A dropped frame leaves its entry and its results alone.
LEMMA OverFields ==
  ASSUME NEW r \in RequestRecord
  PROVE  /\ Over(r) \in RequestRecord
         /\ Over(r).at = "over" /\ Over(r).c = NoFile
         /\ Over(r).hub = r.hub /\ Over(r).target = r.target /\ Over(r).to = r.to
         /\ Over(r).owed = r.owed /\ Over(r).up = r.up /\ Over(r).ran = r.ran
         /\ Over(r).replies = r.replies
<1>1. [r EXCEPT !.at = "over"] \in RequestRecord
  BY DEF RequestRecord
<1>2. [[r EXCEPT !.at = "over"] EXCEPT !.c = NoFile] \in RequestRecord
  BY <1>1 DEF RequestRecord
<1>3. Over(r) \in RequestRecord
  BY <1>1, <1>2 DEF RequestRecord, Over
<1> QED BY <1>3 DEF RequestRecord, Over

\* A reply drops the entry and puts one result on its way.
LEMMA ReplyFields ==
  ASSUME NEW r \in RequestRecord, NEW how \in {"answered", "refused", "unknown"},
         r.replies = 0
  PROVE  /\ Reply(r, how) \in RequestRecord
         /\ ~Reply(r, how).owed /\ Reply(r, how).up = Append(r.up, how)
         /\ Reply(r, how).replies = 1
         /\ Reply(r, how).hub = r.hub /\ Reply(r, how).target = r.target
         /\ Reply(r, how).to = r.to /\ Reply(r, how).at = r.at /\ Reply(r, how).c = r.c
         /\ Reply(r, how).ran = r.ran
<1>1. Append(r.up, how) \in Seq({"answered", "refused", "unknown"})
  BY DEF RequestRecord
<1>2. [r EXCEPT !.owed = FALSE] \in RequestRecord
  BY DEF RequestRecord
<1> DEFINE m == [[r EXCEPT !.owed = FALSE] EXCEPT !.up = Append(r.up, how)]
<1>3. m \in RequestRecord
  BY <1>1, <1>2 DEF RequestRecord
<1>4. /\ m.replies = 0 /\ ~m.owed /\ m.up = Append(r.up, how) /\ m.hub = r.hub
      /\ m.target = r.target /\ m.to = r.to /\ m.at = r.at /\ m.c = r.c /\ m.ran = r.ran
  BY DEF RequestRecord
<1>5. Reply(r, how) = [m EXCEPT !.replies = @ + 1]
  BY DEF Reply
<1> HIDE DEF m
<1>6. [m EXCEPT !.replies = @ + 1] = [m EXCEPT !.replies = 1]
  BY <1>4
<1>7. [m EXCEPT !.replies = 1] \in RequestRecord
  BY <1>3 DEF RequestRecord
<1> QED BY <1>3, <1>4, <1>5, <1>6, <1>7 DEF RequestRecord

\* The first reply to a request that ends with it.
LEMMA FirstReply ==
  ASSUME NEW r, NEW k, RequestOK(r, k), NEW how \in {"answered", "refused", "unknown"},
         r.at \in {"down", "stdin", "running"}, r.up = <<>>, r.replies = 0,
         how = "answered" => r.ran,
         how = "refused" => ~r.ran
  PROVE  RequestOK(Reply(Over(r), how), k) /\ Allowed(r, Reply(Over(r), how))
<1> DEFINE n == Reply(Over(r), how)
<1>1. r \in RequestRecord /\ NotYetRun(r) /\ Runs(r) /\ Results(r) /\ Current(r, k)
  BY DEF RequestOK
<1>2. /\ n \in RequestRecord
      /\ n.at = "over" /\ n.c = NoFile /\ ~n.owed /\ n.up = <<how>> /\ n.replies = 1
      /\ n.hub = r.hub /\ n.target = r.target /\ n.to = r.to /\ n.ran = r.ran
  <2> DEFINE o == Over(r)
  <2>1. /\ o \in RequestRecord /\ o.at = "over" /\ o.c = NoFile /\ o.hub = r.hub
        /\ o.target = r.target /\ o.to = r.to /\ o.up = <<>> /\ o.ran = r.ran /\ o.replies = 0
    BY <1>1, OverFields
  <2> HIDE DEF o
  <2>2. Append(o.up, how) = <<how>>
    BY <2>1
  <2> QED BY <2>1, <2>2, ReplyFields DEF o
<1>3. r.hub # "none" /\ (r.hub = "open" => r.to = k)
  BY <1>1 DEF Resting
<1> HIDE DEF n
<1>4. Len(n.up) = 1 /\ DOMAIN n.up = {1} /\ n.up[1] = how
  BY <1>2
<1>5. NotYetRun(n) /\ Runs(n)
  BY <1>2, <1>3
<1>6. Results(n)
  BY <1>2, <1>3, <1>4
<1>7. Current(n, k)
  BY <1>2, <1>3
<1>8. RequestOK(n, k) /\ Allowed(r, n)
  BY <1>2, <1>5, <1>6, <1>7 DEF RequestOK, Allowed
<1> QED BY <1>8 DEF n

LEMMA DaemonActions ==
  ASSUME CmdInv, SupTypeOK, NEW q \in Request, DaemonStep(q)
  PROVE  CmdInv' /\ \A p \in Request : Allowed(req[p], req'[p])
<1> DEFINE r == req[q]
<1>0. /\ RequestOK(r, conn)
      /\ r \in RequestRecord /\ NotYetRun(r) /\ Runs(r) /\ Results(r) /\ Current(r, conn)
  BY DEF CmdInv, RequestOK
<1>1. Arrives(q) => /\ r.at = "down" /\ ~r.owed /\ r.replies = 0 /\ r.up = <<>> /\ ~r.ran
                    /\ r.c = NoFile /\ r.hub \in {"open", "unknown"}
                    /\ r.hub = "open" => r.to = conn
  BY <1>0 DEF Arrives, Resting
<1>2. CASE CmdToChild(q)
  <2> DEFINE c == Holder(q)
             n == [r EXCEPT !.at = "stdin", !.c = c, !.owed = TRUE, !.late = child[c].stop # "none"]
  <2>1. c \in Child
    BY <1>2 DEF CmdToChild, Has, Mapped, Holder
  <2>2. n \in RequestRecord
    <3>1. [r EXCEPT !.at = "stdin"] \in RequestRecord
      BY <1>0 DEF RequestRecord
    <3>2. [[r EXCEPT !.at = "stdin"] EXCEPT !.c = c] \in RequestRecord
      BY <2>1, <3>1 DEF RequestRecord
    <3>3. [[[r EXCEPT !.at = "stdin"] EXCEPT !.c = c] EXCEPT !.owed = TRUE] \in RequestRecord
      BY <3>2 DEF RequestRecord
    <3>4. (child[c].stop # "none") \in BOOLEAN
      OBVIOUS
    <3> HIDE DEF c
    <3> QED BY <3>3, <3>4, <2>1 DEF RequestRecord
  <2>3. /\ n.at = "stdin" /\ n.owed /\ n.target = r.target /\ n.up = <<>> /\ n.replies = 0
        /\ n.hub = r.hub /\ n.to = r.to /\ n.ran = r.ran
    BY <1>0, <1>1, <1>2 DEF RequestRecord, CmdToChild
  <2>4. r.target \in Session /\ Arrives(q) /\ Becomes(q, n) /\ UNCHANGED conn
    BY <1>2 DEF CmdToChild, Others
  <2> HIDE DEF n
  <2>5. NotYetRun(n) /\ Runs(n) /\ Current(n, conn)
    BY <1>1, <2>3, <2>4
  <2>6. Results(n)
    BY <1>1, <2>3, <2>4, CommandsAssumption
  <2>7. RequestOK(n, conn) /\ Allowed(r, n)
    BY <2>2, <2>3, <2>5, <2>6 DEF RequestOK, Allowed
  <2> QED BY <2>4, <2>7, OneRequest
<1>3. CASE CmdWriteFails(q)
  BY <1>0, <1>1, <1>3, FirstReply, OneRequest DEF CmdWriteFails, Others
<1>4. CASE CmdUnknownSession(q)
  BY <1>0, <1>1, <1>4, FirstReply, OneRequest DEF CmdUnknownSession, Others
<1>5. CASE CmdToMachine(q)
  <2> DEFINE n == [r EXCEPT !.at = "running", !.owed = TRUE, !.ran = TRUE]
  <2>1. n \in RequestRecord
    <3>1. [r EXCEPT !.at = "running"] \in RequestRecord
      BY <1>0 DEF RequestRecord
    <3>2. [[r EXCEPT !.at = "running"] EXCEPT !.owed = TRUE] \in RequestRecord
      BY <3>1 DEF RequestRecord
    <3> QED BY <3>2 DEF RequestRecord
  <2>2. /\ n.at = "running" /\ n.owed /\ n.ran /\ n.target = r.target /\ n.up = <<>>
        /\ n.replies = 0 /\ n.hub = r.hub /\ n.to = r.to /\ n.c = r.c
    BY <1>0, <1>1, <1>5 DEF RequestRecord, CmdToMachine
  <2>3. r.target = Machine /\ Arrives(q) /\ Becomes(q, n) /\ UNCHANGED conn
    BY <1>5 DEF CmdToMachine, Others
  <2> HIDE DEF n
  <2>4. NotYetRun(n) /\ Runs(n) /\ Current(n, conn)
    BY <1>1, <2>2, <2>3, CommandsAssumption
  <2>5. Results(n)
    BY <1>1, <2>2, <2>3, CommandsAssumption
  <2>6. RequestOK(n, conn) /\ Allowed(r, n)
    BY <1>1, <2>1, <2>2, <2>3, <2>4, <2>5 DEF RequestOK, Allowed
  <2> QED BY <2>3, <2>6, OneRequest
<1>6. CASE MachineAnswers(q)
  <2>1. r.at = "running" /\ r.ran /\ r.up = <<>> /\ r.replies = 0
    BY <1>0, <1>6 DEF MachineAnswers
  <2> QED BY <1>0, <1>6, <2>1, FirstReply, OneRequest DEF MachineAnswers, Others
<1>7. CASE CmdRestarts(q)
  <2> DEFINE m == [r EXCEPT !.at = "running", !.ran = TRUE]
             n == Reply(m, "answered")
  <2>1. /\ m \in RequestRecord
        /\ m.at = "running" /\ m.ran /\ m.replies = 0 /\ m.up = <<>> /\ m.target = r.target
        /\ m.hub = r.hub /\ m.to = r.to /\ m.c = r.c
    <3>1. [r EXCEPT !.at = "running"] \in RequestRecord
      BY <1>0 DEF RequestRecord
    <3>2. m \in RequestRecord
      BY <3>1 DEF RequestRecord
    <3> QED BY <1>0, <1>1, <1>7, <3>2 DEF RequestRecord, CmdRestarts
  <2>2. r.target = Restart /\ Arrives(q) /\ Becomes(q, n) /\ UNCHANGED conn
    BY <1>7 DEF CmdRestarts
  <2> HIDE DEF m
  <2>3. /\ n \in RequestRecord
        /\ n.at = "running" /\ ~n.owed /\ n.ran /\ n.target = r.target /\ n.up = <<"answered">>
        /\ n.replies = 1 /\ n.hub = r.hub /\ n.to = r.to /\ n.c = r.c
    BY <2>1, ReplyFields
  <2> HIDE DEF n
  <2>4. Len(n.up) = 1 /\ DOMAIN n.up = {1} /\ n.up[1] = "answered"
    BY <2>3
  <2>5. NotYetRun(n) /\ Runs(n) /\ Current(n, conn)
    BY <1>1, <2>2, <2>3, <2>4, CommandsAssumption
  <2>6. Results(n)
    BY <2>3, <2>4
  <2>7. RequestOK(n, conn) /\ Allowed(r, n)
    BY <1>1, <2>2, <2>3, <2>5, <2>6 DEF RequestOK, Allowed
  <2> QED BY <2>2, <2>7, OneRequest
<1>8. CASE CmdRestartRefused(q)
  BY <1>0, <1>1, <1>8, FirstReply, OneRequest DEF CmdRestartRefused
<1> QED BY <1>2, <1>3, <1>4, <1>5, <1>6, <1>7, <1>8 DEF DaemonStep

\* A result for an entry that is gone changes nothing but the frame.
LEMMA ResultOfChild ==
  ASSUME NEW r, NEW k, RequestOK(r, k), NEW how \in {"answered", "refused"},
         r.at \in {"stdin", "running"}, r.target \in Session,
         how = "answered" <=> r.ran
  PROVE  RequestOK(Result(r, how), k) /\ Allowed(r, Result(r, how))
<1>1. r \in RequestRecord /\ NotYetRun(r) /\ Runs(r) /\ Results(r) /\ Current(r, k)
  BY DEF RequestOK
<1>2. CASE r.owed
  <2>1. r.up = <<>> /\ r.replies = 0
    BY <1>1, <1>2
  <2> QED BY <1>2, <2>1, FirstReply DEF Result
<1>3. CASE ~r.owed
  <2> DEFINE n == Over(r)
  <2>1. /\ n \in RequestRecord /\ n.at = "over" /\ n.c = NoFile /\ n.hub = r.hub
        /\ n.target = r.target /\ n.to = r.to /\ n.owed = r.owed /\ n.up = r.up
        /\ n.ran = r.ran /\ n.replies = r.replies
    BY <1>1, OverFields
  <2>2. r.hub # "none" /\ OnlyUnknown(r) /\ (r.hub = "open" => r.to = k)
    BY <1>1 DEF Resting
  <2> HIDE DEF n
  <2>3. NotYetRun(n) /\ Runs(n) /\ Results(n) /\ Current(n, k)
    BY <1>1, <1>3, <2>1, <2>2
  <2> QED BY <1>3, <2>1, <2>3 DEF RequestOK, Allowed, Result, n
<1> QED BY <1>2, <1>3

LEMMA ChildActions ==
  ASSUME CmdInv, NEW q \in Request, ChildStep(q)
  PROVE  CmdInv' /\ \A p \in Request : Allowed(req[p], req'[p])
<1> DEFINE r == req[q]
<1>0. /\ RequestOK(r, conn)
      /\ r \in RequestRecord /\ NotYetRun(r) /\ Runs(r) /\ Results(r) /\ Current(r, conn)
  BY DEF CmdInv, RequestOK
<1>1. CASE ChildRefuses(q)
  <2>1. r.at = "stdin" /\ r.target \in Session /\ ~r.ran
    BY <1>0, <1>1 DEF ChildRefuses, InStdin
  <2> QED BY <1>0, <1>1, <2>1, ResultOfChild, OneRequest DEF ChildRefuses, Others
<1>2. CASE ChildRuns(q)
  <2> DEFINE n == [r EXCEPT !.at = "running", !.ran = TRUE]
  <2>1. /\ r.at = "stdin" /\ r.target \in Session /\ ~r.ran /\ r.hub \in {"open", "unknown"}
        /\ OnlyUnknown(r) /\ (r.hub = "open" => r.to = conn)
    BY <1>0, <1>2 DEF ChildRuns, InStdin, Resting
  <2>2. /\ n \in RequestRecord /\ n.at = "running" /\ n.ran /\ n.hub = r.hub
        /\ n.target = r.target /\ n.to = r.to /\ n.owed = r.owed /\ n.up = r.up
        /\ n.replies = r.replies
    <3>1. [r EXCEPT !.at = "running"] \in RequestRecord
      BY <1>0 DEF RequestRecord
    <3>2. n \in RequestRecord
      BY <3>1 DEF RequestRecord
    <3> QED BY <1>0, <3>2 DEF RequestRecord
  <2> HIDE DEF n
  <2>3. NotYetRun(n) /\ Runs(n) /\ Results(n) /\ Current(n, conn)
    BY <1>0, <2>1, <2>2, CommandsAssumption
  <2>4. RequestOK(n, conn) /\ Allowed(r, n)
    BY <2>1, <2>2, <2>3 DEF RequestOK, Allowed
  <2> QED BY <1>2, <2>4, OneRequest DEF ChildRuns, Others, n
<1>3. CASE ChildAnswers(q)
  <2>1. r.at = "running" /\ r.target \in Session /\ r.ran
    BY <1>0, <1>3 DEF ChildAnswers
  <2> QED BY <1>0, <1>3, <2>1, ResultOfChild, OneRequest DEF ChildAnswers, Others
<1> QED BY <1>1, <1>2, <1>3 DEF ChildStep
-------------------------------------------------------------------------------
(***************************************************************************)
(* Steps that concern many requests.                                       *)
(***************************************************************************)

\* Requests may come to rest in such a step.
LEMMA RestAllowed ==
  ASSUME NEW r, NEW n, NEW k, RequestOK(n, k), Allowed(r, n)
  PROVE  /\ AtRest(n) \in RequestRecord /\ RequestOK(AtRest(n), k)
         /\ Allowed(r, AtRest(n))
<1>1. RequestOK(AtRest(n), k) /\ AtRest(n).hub = n.hub /\ AtRest(n).ran = n.ran
  BY AtRestKeeps
<1>2. AtRest(n) \in RequestRecord
  BY <1>1 DEF RequestOK
<1>3. Allowed(r, AtRest(n))
  BY <1>1 DEF Allowed
<1> QED BY <1>1, <1>2, <1>3

LEMMA NoConnection ==
  ASSUME CmdInv, FailPending, conn' \in 0..MaxDaemons
  PROVE  CmdInv' /\ \A q \in Request : Allowed(req[q], req'[q])
<1>1. ASSUME NEW q \in Request
      PROVE  /\ req'[q] \in RequestRecord /\ RequestOK(req'[q], conn')
             /\ Allowed(req[q], req'[q])
  <2> DEFINE r == req[q]
  <2>0. r \in RequestRecord /\ NotYetRun(r) /\ Runs(r) /\ Results(r)
    BY DEF CmdInv, RequestOK
  <2>1. CASE r.hub # "open"
    <3>1. req'[q] = r
      BY <2>1 DEF FailPending
    <3> QED BY <2>0, <2>1, <3>1 DEF RequestOK, Allowed
  <2>2. CASE r.hub = "open"
    <3> DEFINE n == [r EXCEPT !.hub = "unknown"]
    <3>1. req'[q] = n
      BY <2>2 DEF FailPending
    <3>2. /\ n \in RequestRecord /\ n.hub = "unknown" /\ n.at = r.at /\ n.c = r.c
          /\ n.target = r.target /\ n.to = r.to /\ n.owed = r.owed /\ n.up = r.up
          /\ n.ran = r.ran /\ n.replies = r.replies
      BY <2>0 DEF RequestRecord
    <3> HIDE DEF n
    <3>3. NotYetRun(n) /\ Runs(n) /\ Results(n) /\ Current(n, conn')
      BY <2>0, <2>2, <3>2
    <3> QED BY <2>2, <3>1, <3>2, <3>3 DEF RequestOK, Allowed
  <2> QED BY <2>1, <2>2
<1>2. req' \in [Request -> RequestRecord]
  BY <1>1 DEF FailPending
<1> QED BY <1>1, <1>2 DEF CmdInv

LEMMA RestartFails ==
  ASSUME CmdInv, NEW d \in Daemon, CmdHandOffFails(d)
  PROVE  CmdInv' /\ \A q \in Request : Allowed(req[q], req'[q])
<1>1. ASSUME NEW q \in Request
      PROVE  /\ req'[q] \in RequestRecord /\ RequestOK(req'[q], conn')
             /\ Allowed(req[q], req'[q])
  <2> DEFINE r == req[q]
  <2>0. /\ RequestOK(r, conn)
        /\ r \in RequestRecord /\ NotYetRun(r) /\ Runs(r) /\ Results(r) /\ Current(r, conn)
    BY DEF CmdInv, RequestOK
  <2>1. req'[q] = RestartReported(r, d) /\ conn' = conn
    BY DEF CmdHandOffFails
  <2>2. CASE ~(r.target = Restart /\ r.to = d /\ r.at = "running")
    BY <2>0, <2>1, <2>2 DEF RestartReported, Allowed
  <2>3. CASE r.target = Restart /\ r.to = d /\ r.at = "running"
    <3> DEFINE n == [Over(r) EXCEPT !.up = Append(@, "refused")]
    <3>1. req'[q] = n
      BY <2>1, <2>3 DEF RestartReported
    <3>2. /\ r.up \in Seq({"answered", "refused", "unknown"}) /\ Len(r.up) <= 1
          /\ Append(r.up, "refused") \in Seq({"answered", "refused", "unknown"})
          /\ Len(Append(r.up, "refused")) = Len(r.up) + 1
          /\ \A i \in DOMAIN r.up : Append(r.up, "refused")[i] = r.up[i]
          /\ Append(r.up, "refused")[Len(r.up) + 1] = "refused"
      BY <2>0, <2>3 DEF RequestRecord
    <3>3. /\ n \in RequestRecord /\ n.at = "over" /\ n.up = Append(r.up, "refused")
          /\ n.hub = r.hub /\ n.target = r.target /\ n.to = r.to /\ n.owed = r.owed
          /\ n.ran = r.ran /\ n.replies = r.replies
      <4>1. /\ Over(r) \in RequestRecord /\ Over(r).at = "over" /\ Over(r).up = r.up
            /\ Over(r).hub = r.hub /\ Over(r).target = r.target /\ Over(r).to = r.to
            /\ Over(r).owed = r.owed /\ Over(r).ran = r.ran /\ Over(r).replies = r.replies
        BY <2>0, OverFields
      <4> QED BY <3>2, <4>1 DEF RequestRecord
    <3> HIDE DEF n
    <3>4. ~r.owed /\ r.ran /\ r.hub # "none" /\ (r.hub = "open" => r.up = <<"answered">> /\ r.to = conn)
      BY <2>0, <2>3 DEF Resting
    <3>5. NotYetRun(n) /\ Runs(n) /\ Current(n, conn)
      BY <2>3, <3>3, <3>4
    <3>6. Results(n)
      BY <2>0, <3>2, <3>3, <3>4
    <3> QED BY <2>1, <3>1, <3>3, <3>5, <3>6 DEF RequestOK, Allowed
  <2> QED BY <2>2, <2>3
<1>2. conn' \in 0..MaxDaemons /\ req' \in [Request -> RequestRecord]
  BY <1>1 DEF CmdHandOffFails, CmdInv
<1> QED BY <1>1, <1>2 DEF CmdInv

LEMMA ExitRejects ==
  ASSUME CmdInv, SupTypeOK, NEW c \in Child, CmdChildExits(c)
  PROVE  CmdInv' /\ \A q \in Request : Allowed(req[q], req'[q])
<1>1. ASSUME NEW q \in Request
      PROVE  /\ req'[q] \in RequestRecord /\ RequestOK(req'[q], conn')
             /\ Allowed(req[q], req'[q])
  <2> DEFINE r == req[q]
             n == Rejected(r, c)
             kept == IF r.c = c THEN Over(r) ELSE r
  <2>0. /\ RequestOK(r, conn)
        /\ r \in RequestRecord /\ NotYetRun(r) /\ Runs(r) /\ Results(r) /\ Current(r, conn)
    BY DEF CmdInv, RequestOK
  <2>1. req'[q] = AtRest(n) /\ conn' = conn
    BY DEF CmdChildExits
  <2>2. c # NoFile /\ child[c].id \in Session \cup {NoFile}
    BY SupervisorAssumption DEF SupTypeOK, ChildRecord
  <2>3. /\ kept \in RequestRecord
        /\ r.c = c => kept.at = "over" /\ kept.c = NoFile
        /\ r.c # c => kept.at = r.at /\ kept.c = r.c
        /\ kept.hub = r.hub /\ kept.target = r.target /\ kept.to = r.to
        /\ kept.owed = r.owed /\ kept.up = r.up /\ kept.ran = r.ran /\ kept.replies = r.replies
    BY <2>0, OverFields
  <2> HIDE DEF kept
  <2>4. CASE r.owed /\ r.to = child[c].host /\ r.target = child[c].id /\ Alive(r.to)
    <3>1. n = Reply(kept, "unknown")
      BY <2>4 DEF Rejected, kept
    <3>2. /\ r.up = <<>> /\ r.replies = 0 /\ r.at \in {"stdin", "running", "over"}
          /\ r.target \notin {Machine, Restart} /\ r.hub # "none" /\ (r.hub = "open" => r.to = conn)
      BY <2>0, <2>2, <2>4, CommandsAssumption DEF Resting
    <3>3. /\ n \in RequestRecord /\ n.at = kept.at /\ n.c = kept.c /\ n.hub = r.hub
          /\ n.target = r.target /\ n.to = r.to /\ ~n.owed /\ n.up = <<"unknown">>
          /\ n.ran = r.ran /\ n.replies = 1
      BY <2>3, <3>1, <3>2, ReplyFields
    <3> HIDE DEF n
    <3>4. Len(n.up) = 1 /\ DOMAIN n.up = {1} /\ n.up[1] = "unknown"
      BY <3>3
    <3>5. n.at \in {r.at, "over"}
      BY <2>3, <3>3
    <3>6. NotYetRun(n) /\ Runs(n) /\ Results(n) /\ Current(n, conn)
      BY <2>0, <3>2, <3>3, <3>4, <3>5
    <3>7. RequestOK(n, conn) /\ Allowed(r, n)
      BY <3>3, <3>6 DEF RequestOK, Allowed
    <3> QED BY <2>1, <3>7, RestAllowed
  <2>5. CASE ~(r.owed /\ r.to = child[c].host /\ r.target = child[c].id /\ Alive(r.to))
    <3>1. n = kept
      BY <2>5 DEF Rejected, kept
    <3>2. r.c = c => /\ r.hub # "none"
                     /\ r.at = "running" => r.target \notin {Machine, Restart}
      BY <2>0, <2>2, CommandsAssumption
    <3>3. NotYetRun(kept) /\ Runs(kept)
      BY <2>0, <2>3, <3>2
    <3>4. Results(kept)
      BY <2>0, <2>3, <3>2
    <3>5. Current(kept, conn)
      BY <2>0, <2>3 DEF Resting
    <3>6. Allowed(r, kept)
      BY <2>3 DEF Allowed
    <3>7. RequestOK(n, conn) /\ Allowed(r, n)
      BY <2>3, <3>1, <3>3, <3>4, <3>5, <3>6 DEF RequestOK
    <3> QED BY <2>1, <3>7, RestAllowed
  <2> QED BY <2>4, <2>5
<1>2. conn' \in 0..MaxDaemons /\ req' \in [Request -> RequestRecord]
  BY <1>1 DEF CmdChildExits, CmdInv
<1> QED BY <1>1, <1>2 DEF CmdInv

LEMMA EndOrphans ==
  ASSUME CmdInv, NEW d \in Daemon, CmdDaemonEnds(d)
  PROVE  CmdInv' /\ \A q \in Request : Allowed(req[q], req'[q])
<1>1. ASSUME NEW q \in Request
      PROVE  /\ req'[q] \in RequestRecord /\ RequestOK(req'[q], conn')
             /\ Allowed(req[q], req'[q])
  <2> DEFINE r == req[q]
             left == [r EXCEPT !.owed = FALSE, !.up = <<>>]
             n == Orphaned(r, d)
  <2>0. /\ RequestOK(r, conn)
        /\ r \in RequestRecord /\ NotYetRun(r) /\ Runs(r) /\ Results(r) /\ Current(r, conn)
    BY DEF CmdInv, RequestOK
  <2>1. req'[q] = AtRest(n) /\ conn' = conn
    BY DEF CmdDaemonEnds
  <2>2. CASE r.to # d
    <3>1. n = r /\ Allowed(r, r)
      BY <2>2 DEF Orphaned, Allowed
    <3> QED BY <2>0, <2>1, <3>1, RestAllowed
  <2>3. CASE r.to = d
    <3>1. /\ left \in RequestRecord /\ left.hub = r.hub /\ left.target = r.target
          /\ left.to = r.to /\ left.at = r.at /\ left.c = r.c /\ ~left.owed
          /\ left.up = <<>> /\ left.ran = r.ran /\ left.replies = r.replies
      <4>1. <<>> \in Seq({"answered", "refused", "unknown"})
        OBVIOUS
      <4>2. [r EXCEPT !.owed = FALSE] \in RequestRecord
        BY <2>0 DEF RequestRecord
      <4>3. left \in RequestRecord
        BY <4>1, <4>2 DEF RequestRecord
      <4> QED BY <2>0, <4>3 DEF RequestRecord
    <3>2. n = IF r.at = "down" \/ (r.at = "running" /\ r.c = NoFile) THEN Over(left) ELSE left
      BY <2>3 DEF Orphaned
    <3> HIDE DEF left
    <3>3. /\ n \in RequestRecord /\ n.hub = r.hub /\ n.target = r.target
          /\ n.to = r.to /\ ~n.owed /\ n.up = <<>> /\ n.ran = r.ran /\ n.replies = r.replies
          /\ n.c = r.c \/ (n.c = NoFile /\ r.at # "none")
          /\ IF r.at = "down" \/ (r.at = "running" /\ r.c = NoFile)
             THEN n.at = "over" ELSE n.at = r.at
      BY <3>1, <3>2, OverFields
    <3> HIDE DEF n
    <3>4. r.target \in Session => r.target \notin {Machine, Restart}
      BY CommandsAssumption
    <3>5. NotYetRun(n) /\ Runs(n)
      BY <2>0, <3>3, <3>4
    <3>6. Results(n)
      BY <2>0, <3>3
    <3>7. Current(n, conn)
      BY <2>0, <3>3 DEF Resting
    <3>8. RequestOK(n, conn) /\ Allowed(r, n)
      BY <3>3, <3>5, <3>6, <3>7 DEF RequestOK, Allowed
    <3> QED BY <2>1, <3>8, RestAllowed
  <2> QED BY <2>2, <2>3
<1>2. conn' \in 0..MaxDaemons /\ req' \in [Request -> RequestRecord]
  <2> DEFINE f == [q \in Request |-> AtRest(Orphaned(req[q], d))]
  <2>1. req' = f /\ conn' = conn
    BY DEF CmdDaemonEnds
  <2> QED BY <1>1, <2>1 DEF CmdInv
<1> QED BY <1>1, <1>2 DEF CmdInv
-------------------------------------------------------------------------------
(***************************************************************************)
(* Every step, and the theorems.                                           *)
(***************************************************************************)

\* Whatever happens to requests, the machine makes steps of Supervisor.
LEMMA MachineSteps ==
  ASSUME CmdInv, CmdNext PROVE [SupNext]_supVars
<1>1. CASE MachineStep
  BY <1>1 DEF MachineStep, Children, Daemons, SupNext
<1>2. ASSUME NEW q \in Request, HubStep(q) PROVE UNCHANGED supVars
  BY <1>2 DEF HubStep, Others, SendRefused, Send, Deliver, HubTimeout, CommandLost, ResultLost
<1>3. ASSUME NEW q \in Request, ChildStep(q) PROVE UNCHANGED supVars
  BY <1>3 DEF ChildStep, Others, ChildRefuses, ChildRuns, ChildAnswers
<1>4. ASSUME NEW q \in Request, DaemonStep(q) PROVE [SupNext]_supVars
  <2>1. CASE CmdRestarts(q) \/ CmdRestartRefused(q)
    <3>1. req[q].to \in Daemon
      <4>1. req[q].at = "down"
        BY <2>1 DEF CmdRestarts, CmdRestartRefused, Arrives
      <4>2. req[q].to \in 0..MaxDaemons /\ req[q].to # 0
        BY <4>1 DEF CmdInv, RequestOK, RequestRecord
      <4> QED BY <4>2, SupervisorAssumption
    <3> QED BY <2>1, <3>1 DEF CmdRestarts, CmdRestartRefused, SupNext, Frames
  <2>2. CASE UNCHANGED supVars
    BY <2>2
  <2> QED BY <1>4, <2>1, <2>2 DEF DaemonStep, Others, CmdToChild, CmdWriteFails,
             CmdUnknownSession, CmdToMachine, MachineAnswers
<1>5. ASSUME NEW d \in Daemon, CmdHandOffFails(d) \/ CmdDaemonEnds(d) PROVE SupNext
  BY <1>5 DEF CmdHandOffFails, CmdDaemonEnds, SupNext, Daemons
<1>6. ASSUME NEW c \in Child, CmdChildExits(c) PROVE SupNext
  BY <1>6 DEF CmdChildExits, SupNext, Children
<1>7. CASE UNCHANGED supVars
  BY <1>7
<1> QED BY <1>1, <1>2, <1>3, <1>4, <1>5, <1>6, <1>7 DEF CmdNext, Connect, Disconnect

LEMMA InitOK == CmdInit => CmdInv
<1> SUFFICES ASSUME CmdInit PROVE CmdInv
  OBVIOUS
<1>1. Unsent \in RequestRecord
  <2>1. <<>> \in Seq({"answered", "refused", "unknown"}) /\ 0 \in 0..MaxDaemons /\ 0 \in 0..2
    BY SupervisorAssumption
  <2> QED BY <2>1 DEF Unsent, RequestRecord
<1>2. RequestOK(Unsent, conn)
  BY <1>1 DEF RequestOK, Unsent
<1>3. conn \in 0..MaxDaemons
  BY SupervisorAssumption DEF CmdInit
<1> QED BY <1>1, <1>2, <1>3 DEF CmdInit, CmdInv

LEMMA StepOK ==
  ASSUME CmdInv, SupTypeOK, [CmdNext]_cmdVars
  PROVE  CmdInv' /\ \A q \in Request : Allowed(req[q], req'[q])
<1>1. CASE UNCHANGED <<conn, req>>
  BY <1>1 DEF CmdInv, Allowed
<1>2. ASSUME NEW q \in Request, HubStep(q) \/ DaemonStep(q) \/ ChildStep(q)
      PROVE  CmdInv' /\ \A p \in Request : Allowed(req[p], req'[p])
  BY <1>2, HubActions, DaemonActions, ChildActions
<1>3. ASSUME NEW d \in Daemon, CmdHandOffFails(d) \/ CmdDaemonEnds(d)
      PROVE  CmdInv' /\ \A q \in Request : Allowed(req[q], req'[q])
  BY <1>3, RestartFails, EndOrphans
<1>4. ASSUME NEW d \in Daemon, Connect(d)
      PROVE  CmdInv' /\ \A q \in Request : Allowed(req[q], req'[q])
  <2>1. conn' \in 0..MaxDaemons
    BY <1>4, SupervisorAssumption DEF Connect
  <2> QED BY <1>4, <2>1, NoConnection DEF Connect
<1>5. ASSUME NEW c \in Child, CmdChildExits(c)
      PROVE  CmdInv' /\ \A q \in Request : Allowed(req[q], req'[q])
  BY <1>5, ExitRejects
<1>6. CASE Disconnect
  <2>1. conn' \in 0..MaxDaemons
    BY <1>6, SupervisorAssumption DEF Disconnect
  <2> QED BY <1>6, <2>1, NoConnection DEF Disconnect
<1> QED BY <1>1, <1>2, <1>3, <1>4, <1>5, <1>6 DEF CmdNext, cmdVars

\* The records of requests keep what the lemmas need of them.
THEOREM CmdInvCorrect == CmdSpec => [](CmdInv /\ SupTypeOK)
<1>1. CmdInit => SupTypeOK
  BY SupervisorAssumption DEF CmdInit, SupInit, SupTypeOK, NoChild, ChildRecord
<1>2. CmdInv /\ SupTypeOK /\ [CmdNext]_cmdVars => CmdInv' /\ SupTypeOK'
  <2>1. CmdInv /\ [CmdNext]_cmdVars => [SupNext]_supVars
    BY MachineSteps DEF cmdVars, supVars
  <2> QED BY <2>1, StepOK, SupTypeStep
<1> QED BY <1>1, <1>2, InitOK, PTL DEF CmdSpec

\* Whatever is asked of it, a machine behaves as Supervisor says: what is proved of
\* its tables holds with commands in flight.
THEOREM MachineIsSupervised == CmdSpec => SupSpec
<1>1. CmdInit => SupInit
  BY DEF CmdInit
<1>2. CmdInv /\ [CmdNext]_cmdVars => [SupNext]_supVars
  BY MachineSteps DEF cmdVars, supVars
<1> QED BY <1>1, <1>2, CmdInvCorrect, PTL DEF CmdSpec, SupSpec

\* Requests keep their types; at most two results are on their way.
THEOREM CmdTypeCorrect == CmdSpec => []CmdTypeOK
<1>1. CmdInv => CmdTypeOK
  BY DEF CmdInv, RequestOK, CmdTypeOK
<1> QED BY <1>1, CmdInvCorrect, PTL

\* A daemon answers a command once, however the exit of the child, a failing write and
\* the answer itself race for the entry.
THEOREM RepliesOnceCorrect == CmdSpec => []RepliesOnce
<1>1. CmdInv => RepliesOnce
  BY DEF CmdInv, RequestOK, RepliesOnce
<1> QED BY <1>1, CmdInvCorrect, PTL

\* A step that is allowed of each record is a step of RequestBook.
LEMMA BookStep ==
  ASSUME CmdInv, CmdInv', \A q \in Request : Allowed(req[q], req'[q])
  PROVE  Book!BookNext
<1> DEFINE out == [q \in Request |-> req[q].hub]
           ran == [q \in Request |-> req[q].ran]
<1>1. \A q \in Request : req[q] \in RequestRecord /\ req'[q] \in RequestRecord
  BY DEF CmdInv
<1>2. out' \in [Request -> Book!Outcome] /\ ran' \in [Request -> BOOLEAN]
  BY <1>1 DEF RequestRecord, Book!Outcome
<1>3. ASSUME NEW q \in Request
      PROVE  Book!Stays(q) \/ Book!Opens(q) \/ Book!CarriedOut(q) \/ Book!Settles(q)
  <2>1. Allowed(req[q], req'[q])
    OBVIOUS
  <2>2. req[q].ran \in BOOLEAN /\ req'[q].ran \in BOOLEAN
    BY <1>1 DEF RequestRecord
  <2> QED BY <2>1, <2>2 DEF Allowed, Book!Stays, Book!Opens, Book!CarriedOut, Book!Settles, Book!Same
<1> QED BY <1>2, <1>3 DEF Book!BookNext

\* The tables of hub, daemon and child keep what RequestBook promises the callers.
THEOREM SettledTruthfullyCorrect == CmdSpec => SettledTruthfully
<1>1. CmdInit => Book!BookInit
  BY DEF CmdInit, Unsent, Book!BookInit
<1>2. CmdInv /\ SupTypeOK /\ [CmdNext]_cmdVars => [Book!BookNext]_(Book!bookVars)
  BY StepOK, BookStep
<1> QED BY <1>1, <1>2, CmdInvCorrect, PTL
        DEF CmdSpec, SettledTruthfully, Book!BookSpec

===============================================================================
