------------------------------- MODULE Commands -------------------------------
(***************************************************************************)
(* Commands of the hub to a machine and its sessions, from sendCmd of the  *)
(* hub (packages/hub/src/agents.ts) over the daemon (main.ts,              *)
(* supervisor.ts of packages/agent/src) and a child's standard input to    *)
(* the session host (session-host.ts), and the results on their way back,  *)
(* while daemons hand over to each other and children come and go.         *)
(*                                                                         *)
(* Three tables hold a request at a time: #pending of the hub, #pending of *)
(* the supervisor, and the running executeCommand.  Each drops an entry    *)
(* for reasons of its own (a timeout, a closed socket, the exit of the     *)
(* child), and what comes later for it is to be dropped as well.           *)
(***************************************************************************)
EXTENDS Supervisor, Sequences

CONSTANTS
  Request,    \* reqIds
  Machine,    \* the target of a command without an id, and of a usage-req
  Restart,    \* the command restart-daemon
  NoTarget

ASSUME CommandsAssumption ==
  /\ Machine # Restart /\ Machine # NoTarget /\ Restart # NoTarget
  /\ {Machine, Restart, NoTarget} \cap (Session \cup {NoFile}) = {}

VARIABLES
  conn,   \* the daemon the hub holds a connection of, 0 if none
  req     \* each request

cmdVars == <<supVars, conn, req>>

\* hub: what the caller has been told.  at: how far the frame has come ("stdin" is the
\* pipe of child c; late says that a stop was written before it).  owed: the daemon
\* holds an entry.  up: results on their way to the hub.  ran, replies: history.
Unsent == [hub |-> "none", target |-> NoTarget, to |-> 0, at |-> "none", c |-> NoFile,
           late |-> FALSE, owed |-> FALSE, up |-> <<>>, ran |-> FALSE, replies |-> 0]
RequestRecord ==
  [hub : {"none", "open", "answered", "refused", "unknown"},
   target : Session \cup {Machine, Restart, NoTarget},
   to : 0..MaxDaemons,
   at : {"none", "down", "stdin", "running", "over"},
   c : Child \cup {NoFile},
   late : BOOLEAN, owed : BOOLEAN,
   up : Seq({"answered", "refused", "unknown"}),
   ran : BOOLEAN, replies : 0..2]

CmdInit ==
  /\ SupInit
  /\ conn = 1
  /\ req = [q \in Request |-> Unsent]

\* A request that is in no table and no pipe has only its outcome left.
Resting(r) == r.at \in {"none", "over"} /\ ~r.owed /\ r.up = <<>>
AtRest(r) ==
  IF Resting(r)
  THEN [r EXCEPT !.target = NoTarget, !.to = 0, !.replies = 0] ELSE r

Becomes(q, r) == req' = [req EXCEPT ![q] = AtRest(r)]
Others == UNCHANGED <<supVars, conn>>

\* client.send of a result: queued while the daemon has no connection.
Reply(r, how) == [r EXCEPT !.owed = FALSE, !.up = Append(@, how), !.replies = @ + 1]

\* A frame that was dropped, in whatever pipe it was.
Over(r) == [r EXCEPT !.at = "over", !.c = NoFile, !.late = FALSE]
-------------------------------------------------------------------------------
(***************************************************************************)
(* The hub.                                                                *)
(***************************************************************************)

\* sendCmd, sendUsageRequest: no connection, or its send throws.
SendRefused(q) ==
  /\ req[q].hub = "none"
  /\ Becomes(q, [req[q] EXCEPT !.hub = "refused"])
  /\ Others

Send(q, target) ==
  /\ req[q].hub = "none" /\ conn # 0
  /\ Becomes(q, [req[q] EXCEPT !.hub = "open", !.target = target, !.to = conn, !.at = "down"])
  /\ Others

\* Mutant: whatever arrives for a reqId is the outcome.
DeliverAgain(q) ==
  /\ req[q].up # <<>> /\ conn = req[q].to
  /\ Becomes(q, [req[q] EXCEPT !.hub = Head(req[q].up), !.up = Tail(@)])
  /\ Others

\* cmd-result, usage-res: a request that is no longer pending is left alone.
Deliver(q) ==
  /\ req[q].up # <<>> /\ conn = req[q].to
  /\ Becomes(q, [req[q] EXCEPT !.hub = IF @ = "open" THEN Head(req[q].up) ELSE @, !.up = Tail(@)])
  /\ Others

\* The timer of cmdTimeoutMs.
HubTimeout(q) ==
  /\ req[q].hub = "open"
  /\ Becomes(q, [req[q] EXCEPT !.hub = "unknown"])
  /\ Others

\* #failPending.  The machine may have the request; what it sends is dropped.
FailPending ==
  req' = [q \in Request |-> IF req[q].hub = "open" THEN [req[q] EXCEPT !.hub = "unknown"] ELSE req[q]]

\* handleClose, the watchdog's #offline.
Disconnect ==
  /\ conn # 0
  /\ conn' = 0
  /\ FailPending /\ UNCHANGED supVars

\* A hello: the connection it replaces, if any, is done with.
Connect(d) ==
  /\ Alive(d) /\ d # conn
  /\ conn' = d
  /\ FailPending /\ UNCHANGED supVars

\* What a socket that breaks, or a queue that overflows, takes with it.
CommandLost(q) ==
  /\ req[q].at = "down" /\ req[q].hub # "open"
  /\ Becomes(q, Over(req[q])) /\ Others

ResultLost(q) ==
  /\ req[q].up # <<>> /\ conn # req[q].to
  /\ Becomes(q, [req[q] EXCEPT !.up = <<>>]) /\ Others

(***************************************************************************)
(* The daemon.                                                             *)
(***************************************************************************)

Arrives(q) == req[q].at = "down" /\ Alive(req[q].to)
Holder(q) == CHOOSE c \in Mapped(req[q].to) : child[c].id = req[q].target

\* handleCmdFrame, supervisor.cmd: the entry exists before the write.
CmdToChild(q) ==
  /\ Arrives(q) /\ req[q].target \in Session /\ Has(req[q].to, req[q].target)
  /\ LET c == Holder(q) IN
     Becomes(q, [req[q] EXCEPT !.at = "stdin", !.c = c, !.owed = TRUE, !.late = child[c].stop # "none"])
  /\ Others

\* The write or its flush fails: the child may have ended unnoticed.
CmdWriteFails(q) ==
  /\ Arrives(q) /\ req[q].target \in Session /\ Has(req[q].to, req[q].target)
  /\ Becomes(q, Reply(Over(req[q]), "unknown"))
  /\ Others

CmdUnknownSession(q) ==
  /\ Arrives(q) /\ req[q].target \in Session /\ ~Has(req[q].to, req[q].target)
  /\ Becomes(q, Reply(Over(req[q]), "refused"))
  /\ Others

\* handleMachineCmd and the usage proxy answer by themselves, some time later.
CmdToMachine(q) ==
  /\ Arrives(q) /\ req[q].target = Machine
  /\ Becomes(q, [req[q] EXCEPT !.at = "running", !.owed = TRUE, !.ran = TRUE])
  /\ Others

MachineAnswers(q) ==
  /\ req[q].target = Machine /\ req[q].at = "running" /\ Alive(req[q].to)
  /\ Becomes(q, Reply(Over(req[q]), "answered"))
  /\ Others

\* restartDaemonCmd acknowledges first.
CmdRestarts(q) ==
  /\ Arrives(q) /\ req[q].target = Restart
  /\ RestartAccepted(req[q].to)
  /\ Becomes(q, Reply([req[q] EXCEPT !.at = "running", !.ran = TRUE], "answered"))
  /\ UNCHANGED conn

CmdRestartRefused(q) ==
  /\ Arrives(q) /\ req[q].target = Restart
  /\ RestartRefused(req[q].to)
  /\ Becomes(q, Reply(Over(req[q]), "refused"))
  /\ UNCHANGED conn

\* The restart failed: a second result for a request answered long ago.
RestartReported(r, d) ==
  IF r.target = Restart /\ r.to = d /\ r.at = "running"
  THEN [Over(r) EXCEPT !.up = Append(@, "refused")] ELSE r

CmdHandOffFails(d) ==
  /\ HandOffFails(d)
  /\ req' = [q \in Request |-> RestartReported(req[q], d)]
  /\ UNCHANGED conn

(***************************************************************************)
(* The child.                                                              *)
(***************************************************************************)

InStdin(q) == req[q].at = "stdin" /\ Running(req[q].c)

\* Mutant: the supervisor keeps the entry of a command that was answered.
ResultKeeps(r, how) == IF r.owed THEN [Reply(Over(r), how) EXCEPT !.owed = TRUE] ELSE Over(r)

\* A cmd-result for an entry that is gone is dropped with a warning.
Result(r, how) == IF r.owed THEN Reply(Over(r), how) ELSE Over(r)

\* "session is not ready", or "session is stopping": a stop read before, a signal, or
\* the end of the input.
ChildRefuses(q) ==
  /\ InStdin(q)
  /\ LET c == req[q].c
     IN child[c].st # "live" \/ child[c].stop # "none" \/ ~Alive(child[c].host)
  /\ Becomes(q, Result(req[q], "refused"))
  /\ Others

\* runCommand.  The host serves commands from its ready frame on, which the
\* supervisor may not have read yet.
ChildRuns(q) ==
  /\ InStdin(q) /\ child[req[q].c].st \in {"starting", "live"}
  /\ ~req[q].late
  /\ Becomes(q, [req[q] EXCEPT !.at = "running", !.ran = TRUE])
  /\ Others

\* executeCommand returned or threw, a stop may have been read meanwhile.
ChildAnswers(q) ==
  /\ req[q].at = "running" /\ req[q].target \in Session /\ Running(req[q].c)
  /\ Becomes(q, Result(req[q], "answered"))
  /\ Others

\* #rejectSessionCommands goes by the session id; frames end with the process they went to.
Rejected(r, c) ==
  LET kept == IF r.c = c THEN Over(r) ELSE r
  IN IF r.owed /\ r.to = child[c].host /\ r.target = child[c].id /\ Alive(r.to)
     THEN Reply(kept, "unknown") ELSE kept

CmdChildExits(c) ==
  /\ ChildExits(c)
  /\ req' = [q \in Request |-> AtRest(Rejected(req[q], c))]
  /\ UNCHANGED conn

\* A daemon ends with its entries, its queue and what it was doing itself; frames in
\* the pipes of its children are still read.
Orphaned(r, d) ==
  IF r.to # d THEN r
  ELSE LET left == [r EXCEPT !.owed = FALSE, !.up = <<>>]
       IN IF r.at = "down" \/ (r.at = "running" /\ r.c = NoFile) THEN Over(left) ELSE left

CmdDaemonEnds(d) ==
  /\ DaemonExits(d) \/ Crash(d)
  /\ req' = [q \in Request |-> AtRest(Orphaned(req[q], d))]
  /\ UNCHANGED conn
-------------------------------------------------------------------------------
\* Steps of the machine that concern no request.
MachineStep ==
  \/ \E d \in Daemon :
       \/ Frames(d) \/ Boot(d)
       \/ \E e \in Daemon : HandOff(d, e)
  \/ \E c \in Child : SpawnDone(c) \/ SpawnFails(c) \/ ChildReady(c) \/ ChildFails(c)

HubStep(q) ==
  \/ SendRefused(q) \/ (\E t \in Session \cup {Machine, Restart} : Send(q, t))
  \/ Deliver(q) \/ HubTimeout(q) \/ CommandLost(q) \/ ResultLost(q)

DaemonStep(q) ==
  \/ CmdToChild(q) \/ CmdWriteFails(q) \/ CmdUnknownSession(q)
  \/ CmdToMachine(q) \/ MachineAnswers(q) \/ CmdRestarts(q) \/ CmdRestartRefused(q)

ChildStep(q) == ChildRefuses(q) \/ ChildRuns(q) \/ ChildAnswers(q)

CmdNext ==
  \/ MachineStep /\ UNCHANGED <<conn, req>>
  \/ \E q \in Request : HubStep(q) \/ DaemonStep(q) \/ ChildStep(q)
  \/ \E d \in Daemon : CmdHandOffFails(d) \/ CmdDaemonEnds(d) \/ Connect(d)
  \/ \E c \in Child : CmdChildExits(c)
  \/ Disconnect

CmdSpec == CmdInit /\ [][CmdNext]_cmdVars
-------------------------------------------------------------------------------
\* Requests keep their types: at most two results are ever on their way.
CmdTypeOK ==
  /\ conn \in 0..MaxDaemons
  /\ req \in [Request -> RequestRecord]
  /\ \A q \in Request : Len(req[q].up) <= 2

\* A daemon answers a command once ("every path replies exactly once", main.ts): an
\* answer, the exit of the child and a failing write compete for one entry.  (A restart
\* that fails after it was acknowledged is reported besides.)
RepliesOnce == \A q \in Request : req[q].replies <= 1

\* What callers are told is what RequestBook promises, however late or often a result
\* comes: settled once, answered only if carried out, refused only if it never is.
Book == INSTANCE RequestBook
  WITH outcome <- [q \in Request |-> req[q].hub], done <- [q \in Request |-> req[q].ran]
SettledTruthfully == Book!BookSpec
===============================================================================
