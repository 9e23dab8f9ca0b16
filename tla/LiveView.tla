------------------------------- MODULE LiveView -------------------------------
(***************************************************************************)
(* A session as a guest of its collab room sees it: the replica that the   *)
(* panel keeps (packages/web/src/lib/client.ts, socket.ts, with the rejoin *)
(* of hub/client-pool.ts), over the relay, against the host's answers (the *)
(* patch of the SDK's collab host in packages/agent/patches).              *)
(*                                                                         *)
(* Entries are numbered as the host's log holds them.  A guest is given    *)
(* the newest of them in a train of chunks, then each entry as it is       *)
(* written, and asks for older pages.  Sockets break at any moment, in     *)
(* both directions; what the client has not sent by then it sends first    *)
(* over the next connection, where the host does not know it yet.          *)
(*                                                                         *)
(* What a frame says besides entries is left out, and so are the full      *)
(* snapshot of logs without ids and the rewind that shortens the replica   *)
(* by hand (dropEntriesFrom).                                              *)
(***************************************************************************)
EXTENDS Relay, FiniteSets, SequencesExt

CONSTANTS
  PageSize,    \* HISTORY_PAGE_SIZE, MAX_HISTORY_ENTRIES
  MaxEntries,  \* bound: entries of the log
  MaxAsks,     \* bound: older pages asked for
  MaxMishaps   \* bound: what breaks, hellos refused and timers that fire too early

ASSUME ViewAssumption ==
  /\ PageSize \in Nat \ {0}
  /\ {MaxEntries, MaxAsks, MaxMishaps, MaxDown} \subseteq Nat

VARIABLES
  log,         \* how many entries the host's log has
  known,       \* the guests the host has welcomed on their present connections
  sock,        \* a client's socket: "none", "away" (it will dial), "open", "broken"
  client,      \* a client
  out,         \* what it has sent or has yet to send
  refused,     \* (history) a refusal was taken for a notice on this connection
  asks, mishaps

guestVars == <<sock, client, out, refused>>
viewVars == <<relayVars, log, known, guestVars, asks, mishaps>>

\* more: hasMoreHistory; pending, before: the older page asked for; seq: reqSeq.
Fresh ==
  [phase |-> "connecting", everConnected |-> FALSE, welcomed |-> FALSE, entries |-> <<>>,
   more |-> FALSE, pending |-> 0, before |-> 0, seq |-> 0,
   welcomeTimer |-> TRUE, snapshotTimer |-> FALSE]

ViewInit ==
  /\ RelayInit
  /\ log \in 0..MaxEntries - 1
  /\ known = {}
  /\ sock = [g \in Guest |-> "away"]
  /\ client = [g \in Guest |-> Fresh]
  /\ out = [g \in Guest |-> <<>>]
  /\ refused = [g \in Guest |-> FALSE]
  /\ asks = 0 /\ mishaps = 0

Mishap == mishaps < MaxMishaps /\ mishaps' = mishaps + 1
Calm == UNCHANGED mishaps

Welcome(count, more) == [t |-> "welcome", count |-> count, more |-> more]
Chunk(e, final) == [t |-> "snapshot-chunk", entries |-> <<e>>, final |-> final]
Entry(e) == [t |-> "entry", entry |-> e]
History(reqId, entries, more) == [t |-> "history", reqId |-> reqId, entries |-> entries, more |-> more]
Error == [t |-> "error"]
Hello == [t |-> "hello"]
FetchHistory(reqId, before) == [t |-> "fetch-history", reqId |-> reqId, before |-> before]

Numbers(first, last) == [i \in 1..(last + 1 - first) |-> first + i - 1]
-------------------------------------------------------------------------------
(***************************************************************************)
(* The host.                                                               *)
(***************************************************************************)

\* An entry is broadcast as it is appended; without a socket nobody is there to hear it.
Appends ==
  /\ log < MaxEntries /\ log' = log + 1
  /\ toRelay' = IF host = "open" THEN Append(toRelay, To(Everyone, Entry(log + 1))) ELSE toRelay
  /\ UNCHANGED <<room, peer, host, down, known, guestVars, asks>> /\ Calm

\* #historyPage: what of the newest entries below `before` fits, one at least.
Pages(before) ==
  {Numbers(first, before - 1) :
     first \in {f \in 1..before : before - f <= PageSize /\ (before > 1 => f < before)}}

Older(page) == page # <<>> /\ page[1] > 1

\* A chunk holds one entry; the last one ends the train.
Train(p, page) == [i \in DOMAIN page |-> To(p, Chunk(page[i], i = Len(page)))]

\* What the guest has sent is read on its present connection.
HostReads(g) ==
  /\ host = "open" /\ room.open /\ peer[g] # 0 /\ out[g] # <<>>
  /\ out' = [out EXCEPT ![g] = Tail(@)]
  /\ UNCHANGED <<room, peer, host, down, log, sock, client, refused, asks>>

\* #handleHello: the snapshot is queued as a whole, live entries come behind it.
Welcomes(g) ==
  /\ HostReads(g) /\ Head(out[g]) = Hello
  /\ \E page \in Pages(log + 1) :
       toRelay' = toRelay \o <<To(peer[g], Welcome(Len(page), Older(page)))>> \o Train(peer[g], page)
  /\ known' = known \cup {g}
  /\ Calm

\* The session is being replaced just now (isSessionTransitioning).
RefusesHello(g) ==
  /\ HostReads(g) /\ Head(out[g]) = Hello
  /\ toRelay' = Append(toRelay, To(peer[g], Error))
  /\ UNCHANGED known
  /\ Mishap

\* #handleFetchHistory: a peer that has not said hello is ignored.
ServesHistory(g) ==
  /\ HostReads(g) /\ Head(out[g]).t = "fetch-history"
  /\ LET f == Head(out[g]) IN
     IF g \notin known THEN UNCHANGED toRelay
     ELSE \E page \in Pages(f.before) :
            toRelay' = Append(toRelay, To(peer[g], History(f.reqId, page, Older(page))))
  /\ UNCHANGED known
  /\ Calm
-------------------------------------------------------------------------------
(***************************************************************************)
(* What a client makes of a frame.                                         *)
(***************************************************************************)

\* Mutant: a second welcome adds to what is there.
TakeWelcomeKeeps(c, f) ==
  [c EXCEPT !.pending = 0, !.more = f.more, !.welcomed = TRUE,
            !.welcomeTimer = FALSE, !.snapshotTimer = f.count # 0,
            !.phase = IF f.count = 0 THEN "live" ELSE @]

TakeWelcome(c, f) ==
  [c EXCEPT !.entries = <<>>, !.pending = 0, !.more = f.more, !.welcomed = TRUE,
            !.welcomeTimer = FALSE, !.snapshotTimer = f.count # 0,
            !.phase = IF f.count = 0 THEN "live" ELSE @]

TakeChunk(c, f) ==
  [c EXCEPT !.entries = @ \o f.entries, !.snapshotTimer = ~f.final,
            !.phase = IF f.final THEN "live" ELSE @]

TakeHistory(c, f) ==
  IF c.pending # f.reqId THEN c
  ELSE IF c.entries # <<>> /\ c.entries[1] = c.before
  THEN [c EXCEPT !.pending = 0, !.entries = f.entries \o @, !.more = f.more]
  ELSE [c EXCEPT !.pending = 0]

\* #applyFrame.  An error after the welcome is a notice.
Take(c, f) ==
  CASE f.t = "welcome"        -> TakeWelcome(c, f)
    [] f.t = "snapshot-chunk" -> TakeChunk(c, f)
    [] f.t = "entry"          -> [c EXCEPT !.entries = Append(@, f.entry)]
    [] f.t = "history"        -> TakeHistory(c, f)
    [] OTHER                  -> c
-------------------------------------------------------------------------------
(***************************************************************************)
(* The client.                                                             *)
(***************************************************************************)

Connected(g) == sock[g] \in {"open", "broken"}

\* #end closes the socket for good; the relay finds its peer gone.
Ends(g) ==
  /\ client' = [client EXCEPT ![g].phase = "ended", ![g].welcomeTimer = FALSE,
                              ![g].snapshotTimer = FALSE, ![g].pending = 0]
  /\ sock' = [sock EXCEPT ![g] = "none"]
  /\ out' = [out EXCEPT ![g] = <<>>]
  /\ known' = known \ {g}
  /\ GuestLeaves(g, 0)
  /\ UNCHANGED <<log, refused, asks>>

GuestReads(g) ==
  /\ Connected(g) /\ down[g] # <<>> /\ Head(down[g]) # RoomClosed
  /\ LET f == Head(down[g]) IN
     /\ f = Error => client[g].welcomed
     /\ client' = [client EXCEPT ![g] = Take(@, f)]
     /\ refused' = [refused EXCEPT ![g] = @ \/ f = Error]
  /\ down' = [down EXCEPT ![g] = Tail(@)]
  /\ UNCHANGED <<room, peer, host, toRelay, log, known, sock, out, asks>> /\ Calm

\* An error before the welcome ends the join.
JoinRefused(g) ==
  /\ Connected(g) /\ down[g] # <<>> /\ Head(down[g]) = Error /\ ~client[g].welcomed
  /\ Ends(g) /\ Calm

\* room-closed is no sealed frame and passes those that are being opened.
RoomEnds(g) ==
  /\ Connected(g) /\ down[g] # <<>> /\ Last(down[g]) = RoomClosed
  /\ Ends(g) /\ Calm

\* A room that is not there (4004) ends the client at once.
Opens(g) ==
  /\ sock[g] = "away"
  /\ IF room.open
     THEN /\ GuestJoins(g)
          /\ sock' = [sock EXCEPT ![g] = "open"]
          /\ out' = [out EXCEPT ![g] = Append(@, Hello)]
          /\ client' = [client EXCEPT
               ![g].phase = IF client[g].everConnected THEN "reconnecting" ELSE "waiting",
               ![g].everConnected = TRUE]
          /\ refused' = [refused EXCEPT ![g] = FALSE]
          /\ UNCHANGED <<log, known, asks>>
     ELSE Ends(g)
  /\ Calm

\* The socket breaks: of what was on its way some had arrived, and what was not yet
\* sealed waits for the next one.
Cut(g) ==
  /\ sock[g] = "open" /\ Mishap
  /\ \E n \in 0..Len(down[g]) : GuestLeaves(g, n)
  /\ \E n \in 0..Len(out[g]) : out' = [out EXCEPT ![g] = SubSeq(@, n + 1, Len(@))]
  /\ sock' = [sock EXCEPT ![g] = "broken"]
  /\ known' = known \ {g}
  /\ UNCHANGED <<log, client, refused, asks>>

\* Mutant: a transient drop is final.
NoticeForGood(g) ==
  /\ sock[g] = "broken"
  /\ sock' = [sock EXCEPT ![g] = "none"]
  /\ client' = [client EXCEPT ![g].phase = "reconnecting", ![g].pending = 0, ![g].snapshotTimer = FALSE]
  /\ down' = [down EXCEPT ![g] = <<>>]
  /\ UNCHANGED <<room, peer, host, toRelay, log, known, out, refused, asks>> /\ Calm

\* onclose of a transient drop; frames that are still being opened are dropped.
Notice(g) ==
  /\ sock[g] = "broken"
  /\ sock' = [sock EXCEPT ![g] = "away"]
  /\ client' = [client EXCEPT ![g].phase = "reconnecting", ![g].pending = 0, ![g].snapshotTimer = FALSE]
  /\ down' = [down EXCEPT ![g] = <<>>]
  /\ UNCHANGED <<room, peer, host, toRelay, log, known, out, refused, asks>> /\ Calm

\* A timer that fires although its answer may be on the way.
TimesOut(g) ==
  /\ client[g].welcomeTimer \/ client[g].snapshotTimer
  /\ Ends(g) /\ Mishap

HistoryTimesOut(g) ==
  /\ client[g].pending # 0
  /\ client' = [client EXCEPT ![g].pending = 0]
  /\ UNCHANGED <<relayVars, log, known, sock, out, refused, asks>> /\ Mishap

LoadOlder(g) ==
  LET c == client[g] IN
  /\ c.phase = "live" /\ c.more /\ c.pending = 0 /\ c.entries # <<>>
  /\ asks < MaxAsks /\ asks' = asks + 1
  /\ client' = [client EXCEPT ![g].seq = @ + 1, ![g].pending = c.seq + 1, ![g].before = c.entries[1]]
  /\ out' = IF sock[g] = "open"
            THEN [out EXCEPT ![g] = Append(@, FetchHistory(c.seq + 1, c.entries[1]))] ELSE out
  /\ UNCHANGED <<relayVars, log, known, sock, refused>> /\ Calm

\* While the registry says that the session is live, the panel mints a new client.
Rejoins(g) ==
  /\ client[g].phase = "ended"
  /\ client' = [client EXCEPT ![g] = Fresh]
  /\ sock' = [sock EXCEPT ![g] = "away"]
  /\ UNCHANGED <<relayVars, log, known, out, refused, asks>> /\ Calm
-------------------------------------------------------------------------------
(***************************************************************************)
(* The room.                                                               *)
(***************************************************************************)

Unwatched == UNCHANGED <<log, guestVars, asks>>

Routes == Route /\ Unwatched /\ UNCHANGED known /\ Calm
HostReturns == HostOpens /\ Unwatched /\ known' = {} /\ Calm
HostIsMissed == HostCloses /\ Unwatched /\ known' = {} /\ Calm
HostIsLost == HostBreaks /\ Unwatched /\ UNCHANGED known /\ Mishap
HubStops == CloseAll /\ Unwatched /\ known' = {} /\ Mishap

HubIsGone ==
  /\ HubDies /\ Mishap
  /\ sock' = [g \in Guest |-> IF sock[g] = "open" THEN "broken" ELSE sock[g]]
  /\ known' = {}
  /\ UNCHANGED <<log, client, out, refused, asks>>
-------------------------------------------------------------------------------
Host(g) == Welcomes(g) \/ ServesHistory(g)
Reads(g) == GuestReads(g) \/ JoinRefused(g) \/ RoomEnds(g)

ViewNext ==
  \/ \E g \in Guest :
       \/ Host(g) \/ RefusesHello(g) \/ Reads(g) \/ Opens(g) \/ Cut(g) \/ Notice(g)
       \/ TimesOut(g) \/ HistoryTimesOut(g) \/ LoadOlder(g) \/ Rejoins(g)
  \/ Appends \/ Routes \/ HostReturns \/ HostIsMissed
  \/ HostIsLost \/ HubStops \/ HubIsGone

ViewSpec == ViewInit /\ [][ViewNext]_viewVars

\* Frames are read and routed, sockets that break are noticed and dialled again, and
\* the panel polls the registry; nothing need break, time out or be refused.
FairViewSpec ==
  /\ ViewSpec
  /\ WF_viewVars(Routes) /\ WF_viewVars(HostReturns) /\ WF_viewVars(HostIsMissed)
  /\ \A g \in Guest :
       /\ WF_viewVars(Host(g)) /\ WF_viewVars(Reads(g))
       /\ WF_viewVars(Opens(g)) /\ WF_viewVars(Notice(g)) /\ WF_viewVars(Rejoins(g))
-------------------------------------------------------------------------------
EntryId == Nat \ {0}
ViewFrame ==
  [t : {"welcome"}, count : Nat, more : BOOLEAN]
    \cup [t : {"snapshot-chunk"}, entries : Seq(EntryId), final : BOOLEAN]
    \cup [t : {"entry"}, entry : EntryId]
    \cup [t : {"history"}, reqId : Nat \ {0}, entries : Seq(EntryId), more : BOOLEAN]
    \cup {Error, RoomClosed}
GuestFrame == {Hello} \cup [t : {"fetch-history"}, reqId : Nat \ {0}, before : EntryId]
ClientRecord ==
  [phase : {"connecting", "waiting", "reconnecting", "live", "ended"}, everConnected : BOOLEAN,
   welcomed : BOOLEAN, entries : Seq(EntryId), more : BOOLEAN, pending : Nat, before : Nat,
   seq : Nat, welcomeTimer : BOOLEAN, snapshotTimer : BOOLEAN]

\* Room, frames, sockets and clients keep their types.
ViewTypeOK ==
  /\ room \in [open : BOOLEAN, next : Nat \ {0}]
  /\ peer \in [Guest -> Nat] /\ host \in {"open", "down", "gone"}
  /\ toRelay \in Seq([to : Nat, frame : ViewFrame])
  /\ down \in [Guest -> Seq(ViewFrame)]
  /\ log \in Nat /\ known \in SUBSET Guest
  /\ sock \in [Guest -> {"none", "away", "open", "broken"}]
  /\ client \in [Guest -> ClientRecord]
  /\ out \in [Guest -> Seq(GuestFrame)]
  /\ refused \in [Guest -> BOOLEAN]
  /\ asks \in Nat /\ mishaps \in Nat

\* What is on its way to a guest, in the order it will be read; what of it is for
\* others says nothing to it.
NotForMe == [t |-> "none"]
Heard(p, m) == IF m.to \in {Everyone, p} THEN m.frame ELSE NotForMe
ComingTo(p, d, t) == d \o (IF p = 0 THEN <<>> ELSE [i \in DOMAIN t |-> Heard(p, t[i])])
Coming(g) == ComingTo(peer[g], down[g], toRelay)

Contiguous(entries) == \A i \in 1..Len(entries) - 1 : entries[i + 1] = entries[i] + 1

\* A live client shows a gapless run of the log, each entry once, however trains, live
\* entries and older pages follow each other and whatever connection they come from;
\* while its connection holds, what is on its way completes the run up to the newest
\* entry, and older entries are offered exactly if there are some.
ReplicaFaithful ==
  \A g \in Guest :
    client[g].phase = "live" =>
      /\ Contiguous(client[g].entries)
      /\ sock[g] = "open" /\ peer[g] # 0 /\ host = "open" =>
           LET c == FoldLeft(Take, client[g], Coming(g)) IN
           /\ Contiguous(c.entries)
           /\ IF c.entries = <<>> THEN log = 0 ELSE Last(c.entries) = log
           /\ c.more = Older(c.entries)

\* A viewer that is not live becomes live again, whatever broke, unless the host has
\* given its room up or has refused a hello that was not the client's first.
LiveAgain ==
  \A g \in Guest :
    client[g].phase # "live" ~> client[g].phase = "live" \/ refused[g] \/ host = "gone"
===============================================================================
