------------------------------- MODULE HubClient ------------------------------
(***************************************************************************)
(* The daemon's end of the agent WebSocket                                 *)
(* (packages/agent/src/hub-client.ts): the frames it writes, queues while  *)
(* the socket is down, and keeps until the hub has acknowledged them.      *)
(* A frame is a record with a field t; an "event" frame also has an        *)
(* eventId.  What a cut does to frames already written is the network's    *)
(* business, not this module's.                                            *)
(***************************************************************************)
EXTENDS Naturals, Sequences

LOCAL INSTANCE SequencesExt

CONSTANTS
  Client,     \* the HubClient of each daemon process
  Socket,
  NoSocket,
  MaxQueued   \* MAX_QUEUED_FRAMES

ASSUME HubClientAssumption == NoSocket \notin Socket /\ MaxQueued \in Nat \ {0}

VARIABLES
  socket,    \* #socket of each client once it is open, or NoSocket
  closed,    \* #closed: gave up on a fatal close, or shut down
  pending,   \* #pending: frames waiting for a socket
  unacked,   \* #unackedEvents, oldest first
  up         \* per socket, frames written and not yet read by the hub

clientVars == <<socket, closed, pending, unacked, up>>

HelloFrame == [t |-> "hello"]

ClientInit ==
  /\ socket = [d \in Client |-> NoSocket]
  /\ closed = [d \in Client |-> FALSE]
  /\ pending = [d \in Client |-> <<>>]
  /\ unacked = [d \in Client |-> <<>>]
  /\ up = [k \in Socket |-> <<>>]

\* The queue drops its oldest frame to make room for a new one.
Queued(queue, frame) ==
  Append(IF Len(queue) < MaxQueued THEN queue ELSE Tail(queue), frame)

Connected(d) == socket[d] # NoSocket
Write(d, frames) == up' = [up EXCEPT ![socket[d]] = @ \o frames]

\* send: a closed client drops the frame, an event is kept until acknowledged,
\* any other frame is queued only while there is no socket.
ClientSend(d, frame) ==
  /\ IF closed[d] THEN UNCHANGED <<pending, unacked, up>>
     ELSE /\ unacked' = IF frame.t = "event" THEN [unacked EXCEPT ![d] = Append(@, frame)]
                        ELSE unacked
          /\ IF Connected(d) THEN Write(d, <<frame>>) /\ UNCHANGED pending
             ELSE /\ UNCHANGED up
                  /\ pending' = IF frame.t = "event" THEN pending
                                ELSE [pending EXCEPT ![d] = Queued(@, frame)]
  /\ UNCHANGED <<socket, closed>>

\* Mutant: the queue is flushed but not emptied.
ClientOpensAgain(d, k, hb) ==
  /\ ~closed[d]
  /\ ~Connected(d)
  /\ socket' = [socket EXCEPT ![d] = k]
  /\ up' = [up EXCEPT ![k] = <<HelloFrame, hb>> \o pending[d] \o unacked[d]]
  /\ UNCHANGED <<closed, pending, unacked>>

\* Mutant: an event counts as delivered once it has been resent.
ClientOpensForgets(d, k, hb) ==
  /\ ~closed[d]
  /\ ~Connected(d)
  /\ socket' = [socket EXCEPT ![d] = k]
  /\ up' = [up EXCEPT ![k] = <<HelloFrame, hb>> \o pending[d] \o unacked[d]]
  /\ pending' = [pending EXCEPT ![d] = <<>>]
  /\ unacked' = [unacked EXCEPT ![d] = <<>>]
  /\ UNCHANGED closed

\* onopen: hello, a first heartbeat, the queue, then every unacknowledged event.
ClientOpens(d, k, hb) ==
  /\ ~closed[d]
  /\ ~Connected(d)
  /\ socket' = [socket EXCEPT ![d] = k]
  /\ up' = [up EXCEPT ![k] = <<HelloFrame, hb>> \o pending[d] \o unacked[d]]
  /\ pending' = [pending EXCEPT ![d] = <<>>]
  /\ UNCHANGED <<closed, unacked>>

\* Mutant: events are resent on reconnect only.
ClientHeartbeatBare(d, hb) ==
  /\ Connected(d)
  /\ Write(d, <<hb>>)
  /\ UNCHANGED <<socket, closed, pending, unacked>>

\* The interval: a heartbeat, then every unacknowledged event again.
ClientHeartbeat(d, hb) ==
  /\ Connected(d)
  /\ Write(d, <<hb>> \o unacked[d])
  /\ UNCHANGED <<socket, closed, pending, unacked>>

\* Mutant: the client gives up after any close.
ClientLosesForGood(d, fatal) ==
  /\ Connected(d)
  /\ socket' = [socket EXCEPT ![d] = NoSocket]
  /\ closed' = [closed EXCEPT ![d] = TRUE]
  /\ UNCHANGED <<pending, unacked>>

\* onclose; 4000 is fatal.
ClientLoses(d, fatal) ==
  /\ Connected(d)
  /\ socket' = [socket EXCEPT ![d] = NoSocket]
  /\ closed' = [closed EXCEPT ![d] = @ \/ fatal]
  /\ UNCHANGED <<pending, unacked>>

\* The map of unacknowledged events without the event of that id.
Deleted(events, eventId) ==
  LET at == {i \in DOMAIN events : events[i].eventId = eventId}
  IN IF at = {} THEN events ELSE RemoveAt(events, CHOOSE i \in at : TRUE)

\* session-event-ack.
ClientAcked(d, eventId) ==
  /\ unacked' = [unacked EXCEPT ![d] = Deleted(@, eventId)]
  /\ UNCHANGED <<socket, closed, pending, up>>

\* close(): nothing queued survives, and nothing is sent any more.
ClientCloses(d) ==
  /\ ~closed[d]
  /\ closed' = [closed EXCEPT ![d] = TRUE]
  /\ socket' = [socket EXCEPT ![d] = NoSocket]
  /\ pending' = [pending EXCEPT ![d] = <<>>]
  /\ unacked' = [unacked EXCEPT ![d] = <<>>]
  /\ UNCHANGED up
===============================================================================
