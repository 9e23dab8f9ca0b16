--------------------------------- MODULE Relay ---------------------------------
(***************************************************************************)
(* One room of the collab relay (packages/hub/src/relay.ts): a host, the   *)
(* guests with their peer ids, and the frames on their way from the host.  *)
(* The relay sees ciphertext and routes by peer id; a room lives and dies  *)
(* with its host's socket, or with the hub.                                *)
(*                                                                         *)
(* Frames from guests are read off the relay by the host without a step in *)
(* between, and peer-joined and peer-left tell the host nothing it acts on *)
(* here.  A hot reload hands the rooms over within one turn of the event   *)
(* loop (drainRooms, adoptRooms) and changes nothing.  A guest's close is  *)
(* reported before its peer id can be given out again.                     *)
(***************************************************************************)
EXTENDS Naturals, Sequences

CONSTANTS
  Guest,
  MaxDown   \* bound: frames to a guest on their way

VARIABLES
  room,     \* [open, next]: the entry of rooms, and the peer id of the next guest
  peer,     \* the peer id of each guest's socket, 0 if the room does not have it
  host,     \* the host's end: "open", "down" (it will retry) or "gone"
  toRelay,  \* frames the host has sent
  down      \* frames the relay has sent to each guest

relayVars == <<room, peer, host, toRelay, down>>

NoRoom == [open |-> FALSE, next |-> 1]
RoomClosed == [t |-> "room-closed"]
Everyone == 0
To(p, frame) == [to |-> p, frame |-> frame]

RelayInit ==
  /\ room = [open |-> TRUE, next |-> 1]
  /\ peer = [g \in Guest |-> 0]
  /\ host = "open"
  /\ toRelay = <<>>
  /\ down = [g \in Guest |-> <<>>]

\* handleOpen of the host's socket: a second host is turned away (4009), for good.
HostOpens ==
  /\ host = "down"
  /\ IF room.open THEN host' = "gone" /\ UNCHANGED <<room, toRelay>>
     ELSE host' = "open" /\ room' = [open |-> TRUE, next |-> 1] /\ toRelay' = <<>>
  /\ UNCHANGED <<peer, down>>

\* handleOpen of a guest's socket.
GuestJoins(g) ==
  /\ room.open
  /\ peer' = [peer EXCEPT ![g] = room.next]
  /\ room' = [room EXCEPT !.next = @ + 1]
  /\ down' = [down EXCEPT ![g] = <<>>]
  /\ UNCHANGED <<host, toRelay>>

\* handleMessage of the host's socket; a peer that has left gets nothing.
Route ==
  /\ room.open /\ toRelay # <<>>
  /\ LET m == Head(toRelay) IN
     down' = [g \in Guest |->
       IF peer[g] # 0 /\ m.to \in {Everyone, peer[g]} THEN Append(down[g], m.frame) ELSE down[g]]
  /\ toRelay' = Tail(toRelay)
  /\ UNCHANGED <<room, peer, host>>

\* The guests are told that the room is closed, as the last thing they are told.
TellClosed ==
  /\ down' = [g \in Guest |-> IF peer[g] # 0 THEN Append(down[g], RoomClosed) ELSE down[g]]
  /\ peer' = [g \in Guest |-> 0]
  /\ room' = NoRoom

\* handleClose of the host's socket, behind what the host had sent.
HostCloses ==
  /\ room.open /\ host # "open" /\ toRelay = <<>>
  /\ TellClosed
  /\ UNCHANGED <<host, toRelay>>

\* The host's socket breaks; the relay learns of it later.
HostBreaks ==
  /\ host = "open"
  /\ host' = "down"
  /\ \E n \in 0..Len(toRelay) : toRelay' = SubSeq(toRelay, 1, n)
  /\ UNCHANGED <<room, peer, down>>

Dropped == IF host = "open" THEN "down" ELSE host

\* closeAll: the hub restarts.
CloseAll ==
  /\ room.open
  /\ TellClosed
  /\ host' = Dropped /\ toRelay' = <<>>

\* The hub dies and tells nobody.
HubDies ==
  /\ room.open
  /\ room' = NoRoom /\ peer' = [g \in Guest |-> 0]
  /\ host' = Dropped /\ toRelay' = <<>>
  /\ \E n \in [Guest -> 0..MaxDown] :
       /\ \A g \in Guest : n[g] <= Len(down[g])
       /\ down' = [g \in Guest |-> SubSeq(down[g], 1, n[g])]

\* A guest's socket breaks or is closed by the guest, with the first n frames arrived.
GuestLeaves(g, n) ==
  /\ peer' = [peer EXCEPT ![g] = 0]
  /\ down' = [down EXCEPT ![g] = SubSeq(@, 1, n)]
  /\ UNCHANGED <<room, host, toRelay>>
===============================================================================
