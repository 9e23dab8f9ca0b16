---------------------------- MODULE FleetDelivery ----------------------------
(***************************************************************************)
(* A worker's question on its way to the operator that watches it, and the *)
(* answer on its way back: the worker's dialogs (InputBridge), the hub's   *)
(* inbox and its fence against repeated deliveries (hub agents.ts), the    *)
(* operator's daemon (main.ts, supervisor.ts) and the operator's child     *)
(* (session-host.ts), which puts each event into its transcript.           *)
(*                                                                         *)
(* HubLink shows that a session event is committed once, whatever happens  *)
(* between the worker and the hub, and in order unless the store fails;    *)
(* here it is committed some time after it was emitted.  The connection of *)
(* the operator's machine breaks, its daemon is upgraded, its session      *)
(* ends.  Turns of the model and the room are external.                    *)
(***************************************************************************)
EXTENDS InputBridge, SequencesExt

CONSTANTS
  ReplayLimit,   \* events(): the unread events a heartbeat replays (200)
  MaxMishaps    \* bound: broken connections, daemon upgrades and failures together

VARIABLES
  emitted,    \* events the worker's host has written and the hub has not committed, in order
  operator,   \* the operator's record in the registry
  inbox,      \* its unread events, oldest first
  fence,      \* #fleetDelivered: sent over this connection
  linked,     \* the operator's machine is connected
  wire,       \* notifications on the socket
  child,      \* the operator's process
  branch,     \* fleet notifications in its transcript
  noticed,    \* events whose injection failed, with an error notice
  mishaps

deliveryVars == <<emitted, operator, inbox, fence, linked, wire, child, branch, noticed,
                  mishaps>>
fleetVars == <<bridgeVars, deliveryVars>>

Event == {"required", "resolved"} \X Request

NoChild == [st |-> "none", stdin |-> <<>>, delivered |-> {}, queue |-> <<>>, busy |-> FALSE]

DeliveryInit ==
  /\ BridgeInit
  /\ emitted = <<>>
  /\ operator = "live" /\ inbox = <<>> /\ fence = {}
  /\ linked = TRUE /\ wire = <<>>
  /\ child = [NoChild EXCEPT !.st = "up"]
  /\ branch = <<>> /\ noticed = {}
  /\ mishaps = 0

Unread(e) == Contains(inbox, e)
InBranch(e) == Contains(branch, e)
-------------------------------------------------------------------------------
(***************************************************************************)
(* The worker and the hub's store.                                         *)
(***************************************************************************)

\* The end of a request is announced, then the request that follows it.
Announced ==
  SetToSeq({<<"resolved", r>> : r \in {q \in Request : result[q] # result'[q]}})
    \o SetToSeq({<<"required", r>> : r \in (minted + 1)..minted'})

WorkerSteps ==
  /\ BridgeSteps
  /\ emitted' = emitted \o Announced
  /\ UNCHANGED <<operator, inbox, fence, linked, wire, child, branch, noticed, mishaps>>

\* notifyFleet for the events of a sequence: each is sent once per connection.
Notified(events) ==
  LET new == SelectSeq(events, LAMBDA e : e \notin fence)
  IN IF operator = "live" /\ linked
     THEN wire' = wire \o new /\ fence' = fence \cup ToSet(new)
     ELSE UNCHANGED <<wire, fence>>

\* #queueFleetEvent: a row if the watching operator is live just now.
Commit ==
  /\ emitted # <<>>
  /\ emitted' = Tail(emitted)
  /\ IF operator = "live"
     THEN inbox' = Append(inbox, Head(emitted)) /\ Notified(<<Head(emitted)>>)
     ELSE UNCHANGED <<inbox, wire, fence>>
  /\ UNCHANGED <<bridgeVars, operator, linked, child, branch, noticed, mishaps>>

\* The store fails: a later heartbeat brings the event again, behind those that follow it.
CommitFails ==
  /\ emitted # <<>> /\ mishaps < MaxMishaps
  /\ mishaps' = mishaps + 1
  /\ emitted' = Append(Tail(emitted), Head(emitted))
  /\ UNCHANGED <<bridgeVars, operator, inbox, fence, linked, wire, child, branch, noticed>>

\* #replayFleet on a heartbeat: what is unread and was not sent over this connection.
Replay ==
  /\ linked /\ operator = "live"
  /\ Notified(SubSeq(inbox, 1, IF Len(inbox) < ReplayLimit THEN Len(inbox) ELSE ReplayLimit))
  /\ UNCHANGED <<bridgeVars, emitted, operator, inbox, linked, child, branch, noticed, mishaps>>

(***************************************************************************)
(* The connection.                                                         *)
(***************************************************************************)

\* Mutant: the fence outlives the connection.
UnfenceNothing == UNCHANGED fence

\* #fleetDisconnected: what was sent over a connection that is gone may have been lost.
Unfence == fence' = {}

LinkBreaks ==
  /\ linked /\ mishaps < MaxMishaps
  /\ mishaps' = mishaps + 1
  /\ linked' = FALSE /\ wire' = <<>>
  /\ Unfence
  /\ UNCHANGED <<bridgeVars, emitted, operator, inbox, child, branch, noticed>>

LinkReturns ==
  /\ ~linked
  /\ linked' = TRUE
  /\ UNCHANGED <<bridgeVars, emitted, operator, inbox, fence, wire, child, branch, noticed, mishaps>>

\* A planned restart of the daemon whose socket drops before the child's exit is reported:
\* the record ends and keeps its inbox, to be resumed.
Upgrade ==
  /\ linked /\ operator = "live" /\ mishaps < MaxMishaps
  /\ mishaps' = mishaps + 1
  /\ operator' = "planned"
  /\ linked' = FALSE /\ wire' = <<>>
  /\ Unfence
  /\ child' = NoChild
  /\ UNCHANGED <<bridgeVars, emitted, inbox, branch, noticed>>

\* The fresh daemon's first heartbeat resumes the session on its transcript.
Resume ==
  /\ linked /\ operator = "planned"
  /\ operator' = "starting"
  /\ child' = [NoChild EXCEPT !.st = "starting"]
  /\ UNCHANGED <<bridgeVars, emitted, inbox, fence, linked, wire, branch, noticed, mishaps>>

\* The session ends in any other way: removeOwner takes its watches and its inbox.
OperatorEnds ==
  /\ linked /\ operator = "live"
  /\ operator' = "ended"
  /\ inbox' = <<>>
  /\ child' = NoChild
  /\ UNCHANGED <<bridgeVars, emitted, fence, linked, wire, branch, noticed, mishaps>>

\* The daemon hands a notification to a child that is live, and drops any other.
DaemonReads ==
  /\ wire # <<>>
  /\ wire' = Tail(wire)
  /\ child' = IF child.st = "up" THEN [child EXCEPT !.stdin = Append(@, Head(wire))] ELSE child
  /\ UNCHANGED <<bridgeVars, emitted, operator, inbox, fence, linked, branch, noticed, mishaps>>
-------------------------------------------------------------------------------
(***************************************************************************)
(* The operator's child.                                                   *)
(***************************************************************************)

\* Mutant: a resumed child remembers nothing of its transcript.
KnownBlank == {}

\* The ids of the fleet notifications on the branch that was resumed.
Known == ToSet(branch)

\* The transcript is open; the daemon and the hub learn that the child is live.
Ready ==
  /\ child.st = "starting" /\ linked
  /\ child' = [child EXCEPT !.st = "up", !.delivered = Known]
  /\ operator' = "live"
  /\ UNCHANGED <<bridgeVars, emitted, inbox, fence, linked, wire, branch, noticed, mishaps>>

\* sendCustomMessage as a follow-up: into the transcript, with a turn of its own, or behind
\* the turn that runs.
Inject(c, e) ==
  IF c.busy
  THEN child' = [c EXCEPT !.queue = Append(@, e)] /\ UNCHANGED branch
  ELSE child' = [c EXCEPT !.busy = TRUE] /\ branch' = Append(branch, e)

Deliver ==
  /\ child.st = "up" /\ child.stdin # <<>>
  /\ LET e == Head(child.stdin)
         read == [child EXCEPT !.stdin = Tail(@), !.delivered = @ \cup {e}]
     IN \/ e \in child.delivered /\ child' = read /\ UNCHANGED <<branch, noticed, mishaps>>
        \/ e \notin child.delivered /\ Inject(read, e) /\ UNCHANGED <<noticed, mishaps>>
        \/ /\ e \notin child.delivered
           /\ mishaps < MaxMishaps /\ mishaps' = mishaps + 1
           /\ child' = read /\ noticed' = noticed \cup {e} /\ UNCHANGED branch
  /\ UNCHANGED <<bridgeVars, emitted, operator, inbox, fence, linked, wire>>

\* The turn ends; a queued notification starts the next one.
TurnEnds ==
  /\ child.st = "up" /\ child.busy
  /\ IF child.queue = <<>>
     THEN child' = [child EXCEPT !.busy = FALSE] /\ UNCHANGED branch
     ELSE /\ child' = [child EXCEPT !.queue = Tail(@)]
          /\ branch' = Append(branch, Head(child.queue))
  /\ UNCHANGED <<bridgeVars, emitted, operator, inbox, fence, linked, wire, noticed, mishaps>>

\* fleet_ack_event: the row and its mark in the fence go.
Acknowledge(e) ==
  /\ operator = "live" /\ linked /\ InBranch(e) /\ Unread(e)
  /\ inbox' = SelectSeq(inbox, LAMBDA x : x # e)
  /\ fence' = fence \ {e}
  /\ UNCHANGED <<bridgeVars, emitted, operator, linked, wire, child, branch, noticed, mishaps>>

\* In a turn the operator answers a request it was told of, open or not by now.
AnswersAsk ==
  /\ child.st = "up" /\ child.busy /\ operator = "live" /\ linked
  /\ \E r \in Request :
       /\ InBranch(<<"required", r>>)
       /\ \E choice \in Option \cup {"other", "next", "text"} : Send(r, choice)
  /\ UNCHANGED deliveryVars
-------------------------------------------------------------------------------
DeliveryNext ==
  \/ WorkerSteps \/ Commit \/ CommitFails \/ Replay \/ (\E e \in Event : Acknowledge(e))
  \/ LinkBreaks \/ LinkReturns \/ Upgrade \/ Resume \/ OperatorEnds
  \/ DaemonReads \/ Ready \/ Deliver \/ TurnEnds \/ AnswersAsk

DeliverySpec == DeliveryInit /\ [][DeliveryNext]_fleetVars

\* Machines reconnect and beat, processes read what they are sent, turns end, and the
\* operator acknowledges what it has read.
FairDeliverySpec ==
  /\ DeliverySpec
  /\ WF_fleetVars(LinkReturns) /\ WF_fleetVars(Replay) /\ WF_fleetVars(Resume) /\ WF_fleetVars(Ready)
  /\ WF_fleetVars(DaemonReads) /\ WF_fleetVars(Deliver) /\ WF_fleetVars(TurnEnds)
  /\ WF_fleetVars(\E e \in Event : Acknowledge(e))
-------------------------------------------------------------------------------
\* An operator reads each event once, however often the hub sends it again: over a new
\* connection, or to the child that resumed the transcript (the `delivered` set of
\* session-host.ts, rebuilt from the branch).
InjectedOnce == IsInjective(branch)

\* "At-least-once delivery" (docs/protocol.md): an unread event of a live operator comes
\* into its transcript, or fails there with a notice; a broken connection, an upgrade that
\* kills the child with the event still queued, or a full replay only delay it.
EventsReach ==
  \A e \in Event : Unread(e) ~> (InBranch(e) \/ e \in noticed \/ operator = "ended")
===============================================================================
