-------------------------------- MODULE HubLink --------------------------------
(***************************************************************************)
(* One HubClient and the hub's end of its sockets                          *)
(* (packages/hub/src/agents.ts, fleet-state.ts), over a network that       *)
(* delivers each socket in order, may break one at any moment and may let  *)
(* an old socket's frames arrive after those of the next; with LateHello   *)
(* even its hello.  Sockets are numbered as they are opened, session       *)
(* frames and session events as the daemon produces them; what they say is *)
(* HubAgent's business.                                                    *)
(***************************************************************************)
EXTENDS HubClient, FiniteSets

CONSTANTS
  Daemon,      \* the client
  MaxFrames,   \* bound: session frames produced
  MaxEvents,   \* bound: session events produced
  MaxCuts,     \* bound: breaks of the connection, or sweeps of it by the hub
  MaxFailures, \* bound: failures of the hub's fleet store
  LateHello    \* whether an old socket's hello may arrive after a newer one's

ASSUME HubLinkAssumption ==
  /\ Client = {Daemon}
  /\ Socket \subseteq Nat \ {0}
  /\ LateHello \in BOOLEAN
  /\ MaxFrames \in Nat /\ MaxEvents \in Nat /\ MaxCuts \in Nat /\ MaxFailures \in Nat

VARIABLES
  ws,            \* each socket at the hub, as in HubRegistry
  conn,          \* the registered socket, or NoSocket
  acks,          \* per socket, session-event-acks the client has not read
  got,           \* session frames the hub obeyed, in order
  sourceEvents,  \* the receipts the fleet store keeps of events
  inbox,         \* events the store put in an operator's inbox, in order
  produced, emitted,   \* session frames and events produced so far
  cuts, failures

hubSide == <<ws, conn, acks, got, sourceEvents, inbox>>
counts == <<produced, emitted, cuts, failures>>
linkVars == <<clientVars, hubSide, counts>>

SessionFrame(n) == [t |-> "frame", n |-> n]
EventFrame(n) == [t |-> "event", eventId |-> n]
HbFrame == [t |-> "hb"]

LinkInit ==
  /\ ClientInit
  /\ ws = [k \in Socket |-> "unused"]
  /\ conn = NoSocket
  /\ acks = [k \in Socket |-> <<>>]
  /\ got = <<>>
  /\ sourceEvents = {}
  /\ inbox = <<>>
  /\ produced = 0 /\ emitted = 0 /\ cuts = 0 /\ failures = 0
-------------------------------------------------------------------------------
(***************************************************************************)
(* The daemon.                                                             *)
(***************************************************************************)
Produce ==
  /\ produced < MaxFrames
  /\ produced' = produced + 1
  /\ ClientSend(Daemon, SessionFrame(produced'))
  /\ UNCHANGED <<hubSide, emitted, cuts, failures>>

\* Only a client that is still in service takes an event.
Emit ==
  /\ emitted < MaxEvents
  /\ ~closed[Daemon]
  /\ emitted' = emitted + 1
  /\ ClientSend(Daemon, EventFrame(emitted'))
  /\ UNCHANGED <<hubSide, produced, cuts, failures>>

Open(k) ==
  /\ ws[k] = "unused" /\ \A j \in Socket : j < k => ws[j] # "unused"
  /\ ClientOpens(Daemon, k, HbFrame)
  /\ ws' = [ws EXCEPT ![k] = "open"]
  /\ UNCHANGED <<conn, acks, got, sourceEvents, inbox, counts>>

\* By the next interval the socket has drained.
Beat ==
  /\ Connected(Daemon)
  /\ up[socket[Daemon]] = <<>> /\ acks[socket[Daemon]] = <<>>
  /\ ClientHeartbeat(Daemon, HbFrame)
  /\ UNCHANGED <<hubSide, counts>>

ReadAck ==
  LET k == socket[Daemon] IN
  /\ Connected(Daemon)
  /\ acks[k] # <<>>
  /\ ClientAcked(Daemon, Head(acks[k]))
  /\ acks' = [acks EXCEPT ![k] = Tail(@)]
  /\ UNCHANGED <<ws, conn, got, sourceEvents, inbox, counts>>

SeeClose ==
  LET k == socket[Daemon] IN
  /\ Connected(Daemon)
  /\ ws[k] \in {"closed", "replaced"}
  /\ acks[k] = <<>>
  /\ ClientLoses(Daemon, ws[k] = "replaced")
  /\ UNCHANGED <<up, hubSide, counts>>

\* SIGTERM.
Shutdown == ClientCloses(Daemon) /\ UNCHANGED <<hubSide, counts>>

\* The connection breaks; what is on its way up may be cut short.
Cut ==
  LET k == socket[Daemon] IN
  /\ Connected(Daemon)
  /\ cuts < MaxCuts
  /\ cuts' = cuts + 1
  /\ \E kept \in 0..Len(up[k]) : up' = [up EXCEPT ![k] = SubSeq(@, 1, kept)]
  /\ ClientLoses(Daemon, FALSE)
  /\ UNCHANGED <<hubSide, produced, emitted, failures>>

(***************************************************************************)
(* The hub.                                                                *)
(***************************************************************************)
Reads(k) == up[k] # <<>> /\ up' = [up EXCEPT ![k] = Tail(@)]

Hello(k) ==
  /\ ws[k] = "open"
  /\ LateHello \/ \A j \in Socket : j < k => ws[j] # "open" \/ up[j] = <<>>
  /\ conn' = k
  /\ ws' = [[ws EXCEPT ![k] = "agent"] EXCEPT ![conn] = "replaced"]
  /\ UNCHANGED <<acks, got, sourceEvents, inbox, failures>>

Obey(n) ==
  /\ got' = Append(got, n)
  /\ UNCHANGED <<ws, conn, acks, sourceEvents, inbox, failures>>

\* enqueue: the receipt makes a resend harmless; the ack is sent either way.
Commit(k, e) ==
  /\ sourceEvents' = sourceEvents \cup {e}
  /\ inbox' = IF e \in sourceEvents THEN inbox ELSE Append(inbox, e)
  /\ acks' = [acks EXCEPT ![k] = Append(@, e)]
  /\ UNCHANGED <<ws, conn, got, failures>>

\* The store threw: no receipt, no ack.
StoreFails ==
  /\ failures < MaxFailures
  /\ failures' = failures + 1
  /\ UNCHANGED hubSide

HubReads(k) ==
  /\ Reads(k)
  /\ LET frame == Head(up[k])
     IN \/ frame.t = "hello" /\ Hello(k)
        \/ conn = k /\ frame.t = "hb" /\ UNCHANGED <<hubSide, failures>>
        \/ conn = k /\ frame.t = "frame" /\ Obey(frame.n)
        \/ conn = k /\ frame.t = "event" /\ Commit(k, frame.eventId)
        \/ conn = k /\ frame.t = "event" /\ StoreFails
        \/ conn # k /\ ws[k] \in {"closed", "replaced"} /\ UNCHANGED <<hubSide, failures>>
  /\ UNCHANGED <<socket, closed, pending, unacked, produced, emitted, cuts>>

\* The watchdog gives up on a silent client and closes its socket, with 1001.
Sweep ==
  /\ conn # NoSocket
  /\ cuts < MaxCuts
  /\ cuts' = cuts + 1
  /\ ws' = [ws EXCEPT ![conn] = "closed"]
  /\ conn' = NoSocket
  /\ UNCHANGED <<clientVars, acks, got, sourceEvents, inbox, produced, emitted, failures>>

HubSeesClose(k) ==
  /\ socket[Daemon] # k
  /\ up[k] = <<>>
  /\ ws[k] \in {"open", "agent"}
  /\ ws' = [ws EXCEPT ![k] = "closed"]
  /\ conn' = IF conn = k THEN NoSocket ELSE conn
  /\ UNCHANGED <<clientVars, acks, got, sourceEvents, inbox, counts>>
-------------------------------------------------------------------------------
Work ==
  \/ \E k \in Socket : Open(k) \/ HubReads(k) \/ HubSeesClose(k)
  \/ ReadAck \/ SeeClose
LinkNext == Work \/ Beat \/ Produce \/ Emit \/ Shutdown \/ Cut \/ Sweep
LinkSpec == LinkInit /\ [][LinkNext]_linkVars

\* Both event loops run, and the heartbeat timer fires.
FairLinkSpec ==
  LinkSpec /\ WF_linkVars(Beat) /\ WF_linkVars(ReadAck)
    /\ WF_linkVars(SeeClose \/ \E k \in Socket : Open(k))
    /\ WF_linkVars(\E k \in Socket : HubReads(k) \/ HubSeesClose(k))
-------------------------------------------------------------------------------
SentEvent == [t : {"event"}, eventId : Nat]
Frame == {HelloFrame, HbFrame} \cup [t : {"frame"}, n : Nat] \cup SentEvent

\* The client, the frames on their way, the hub's sockets and its store keep their types.
LinkTypeOK ==
  /\ socket \in [Client -> Socket \cup {NoSocket}] /\ closed \in [Client -> BOOLEAN]
  /\ pending \in [Client -> Seq(Frame)] /\ unacked \in [Client -> Seq(SentEvent)]
  /\ up \in [Socket -> Seq(Frame)]
  /\ ws \in [Socket -> {"unused", "open", "agent", "replaced", "closed"}]
  /\ conn \in Socket \cup {NoSocket} /\ acks \in [Socket -> Seq(Nat)]
  /\ got \in Seq(Nat) /\ sourceEvents \in SUBSET Nat /\ inbox \in Seq(Nat)
  /\ produced \in Nat /\ emitted \in Nat /\ cuts \in Nat /\ failures \in Nat

\* Session frames reach the hub in the order they were produced and at most once,
\* through the queue, its overflow and any number of reconnects: the hub never acts
\* on a session-ready it has already seen, or after that child's session-exit.
FramesInOrder == \A i, j \in DOMAIN got : i < j => got[i] < got[j]

\* An event is never lost between the two stores: while the client is in service
\* it is in unackedEvents or the hub has committed it, whatever was cut, and an
\* ack lost on the way cannot bring it back into an inbox.
KeptUntilCommitted ==
  /\ \A e \in 1..emitted : \/ e \in sourceEvents
                           \/ closed[Daemon]
                           \/ \E i \in DOMAIN unacked[Daemon] : unacked[Daemon][i] = EventFrame(e)
  /\ \A i, j \in DOMAIN inbox : inbox[i] = inbox[j] => i = j

\* A transient failure of the store, a lost ack or a broken socket only delays an
\* event: the daemon resends it "until the hub commits" (docs/protocol.md), unless
\* its client has gone out of service.
EventsDelivered == \A e \in 1..MaxEvents : (emitted >= e) ~> (e \in sourceEvents \/ closed[Daemon])

\* "Open the socket and keep it open until close" (hub-client.ts, start): a lone
\* client that nobody shut down is never told for good that it was replaced, not
\* even by the hello of its own next connection.  LateHello breaks this.
KeepsOpen == [][closed[Daemon]' /\ ~closed[Daemon] => Shutdown]_linkVars
===============================================================================
