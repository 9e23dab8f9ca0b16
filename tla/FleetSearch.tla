----------------------------- MODULE FleetSearch -----------------------------
(***************************************************************************)
(* Search over the sessions of a namespace (packages/hub/src/              *)
(* fleet-search.ts; the worker's half is searchFleetMessages of            *)
(* packages/agent/src/fleet-client.ts).                                    *)
(*                                                                         *)
(* The hub keeps no transcript.  The first page freezes who takes part and *)
(* on which leaf of its branch each stood; a cursor keeps that and the     *)
(* last hit returned, and every page asks each participant again for what  *)
(* its frozen branch holds below that hit.  Branches grow and are rewound  *)
(* between pages, machines drop out, and memberships change.               *)
(*                                                                         *)
(* Every session has a machine of its own.  A worker reads its branch when *)
(* it is asked: what happens to the branch while the answer is under way   *)
(* might as well have happened later.                                      *)
(***************************************************************************)
EXTENDS Integers, Sequences, FiniteSets, FiniteSetsExt

CONSTANTS
  Session,          \* ids, numbered: hits of one time are ordered by them
  Operator,         \* the sessions that search
  Request,          \* searches that may be under way at once
  Kind,             \* messages: when they were written and whether they match
  PageLimit,        \* limit
  Fanout,           \* FANOUT
  MaxCursors,       \* MAX_CURSORS
  MaxParticipants,  \* MAX_CURSOR_PARTICIPANTS
  MaxBranch,        \* bound: messages on a branch
  MaxSearches,      \* bound: searches begun without a cursor
  MaxChanges        \* bound: changes of branches, machines and memberships

ASSUME SearchAssumption ==
  /\ Session \subseteq Nat /\ IsFiniteSet(Session)
  /\ Operator \subseteq Session
  /\ Kind \subseteq [time : Nat, match : BOOLEAN]
  /\ {PageLimit, Fanout, MaxCursors, MaxParticipants, MaxBranch} \subseteq Nat \ {0}
  /\ MaxSearches \in Nat /\ MaxChanges \in Nat

VARIABLES
  branch,      \* each session's active branch
  minted,      \* messages ever written to it: the next one's id is one more
  membership,  \* in the namespace or not, and the membership version
  online,      \* the machines that are connected
  cursors,     \* the cursor store, oldest entry first
  held,        \* its count of participants
  req,         \* what the closure of each search holds
  clock,       \* searches whose five minutes are over
  searches, changes   \* budgets

worldVars == <<branch, minted, membership, online>>
searchVars == <<worldVars, cursors, held, req, clock, searches, changes>>

\* Newer of two hits: by time, session id and place on the branch.
Newer(a, b) ==
  \/ a.time > b.time
  \/ a.time = b.time /\ a.session > b.session
  \/ a.time = b.time /\ a.session = b.session /\ a.sequence > b.sequence

Newest(hits, n) == {h \in hits : Cardinality({g \in hits : Newer(g, h)}) < n}
Oldest(hits) == CHOOSE h \in hits : \A g \in hits \ {h} : Newer(g, h)

\* No leaf chosen yet; NullLeaf is the leaf of an empty branch.
Unfrozen == -1
NullLeaf == 0
Beyond == MaxBranch

\* What a worker's answer to a search says, or that there is none.
Reply(t, hits, more, leaf, all) == [t |-> t, hits |-> hits, more |-> more, leaf |-> leaf, all |-> all]
NoReply == Reply("none", {}, FALSE, NullLeaf, {})
LostReply == Reply("lost", {}, FALSE, NullLeaf, {})
RewoundReply == Reply("rewound", {}, FALSE, NullLeaf, {})

\* all: (history) the matches of the frozen branch.
Outside == [st |-> "outside", version |-> 0, leaf |-> Unfrozen, all |-> {}, reply |-> NoReply]

Message(id, k) == [id |-> id, time |-> k.time, match |-> k.match]
Branches(n) ==
  {b \in UNION {[1..m -> [id : 1..n, time : {k.time : k \in Kind}, match : BOOLEAN]] : m \in 0..n} :
     \A i \in DOMAIN b : b[i].id = i /\ \E k \in Kind : b[i] = Message(i, k)}

NoRequest == [owner |-> 0]

SearchInit ==
  /\ branch \in [Session -> Branches(MaxBranch - 1)]
  /\ minted = [s \in Session |-> Len(branch[s])]
  /\ membership = [s \in Session |-> [in |-> TRUE, version |-> 0]]
  /\ online \in SUBSET Session
  /\ cursors = <<>> /\ held = 0
  /\ req = [r \in Request |-> NoRequest]
  /\ clock = 0 /\ searches = 0 /\ changes = 0
-------------------------------------------------------------------------------
(***************************************************************************)
(* The worker.                                                             *)
(***************************************************************************)

LeafOf(b) == IF b = <<>> THEN NullLeaf ELSE b[Len(b)].id

OnBranch(b, leaf) == \E i \in DOMAIN b : b[i].id = leaf

\* Mutant: a later page sees what was written since.
SnapshotBranchGrown(s, leaf) == branch[s]

\* The branch up to the leaf the search froze; the whole of it if it froze none.
SnapshotBranch(s, leaf) ==
  IF leaf = Unfrozen THEN branch[s]
  ELSE SubSeq(branch[s], 1, CHOOSE i \in DOMAIN branch[s] : branch[s][i].id = leaf)

Matches(s, b) ==
  {[time |-> b[i].time, session |-> s, sequence |-> i - 1] : i \in {j \in DOMAIN b : b[j].match}}

\* The worker compares times, then places on its own branch.
Below(h, before) == h.time < before.time \/ (h.time = before.time /\ h.sequence < before.sequence)

WorkerPage(s, leaf, before) ==
  LET b == SnapshotBranch(s, leaf)
      hits == {h \in Matches(s, b) : before = {} \/ \A x \in before : Below(h, x)}
  IN Reply("page", Newest(hits, PageLimit), Cardinality(hits) > PageLimit,
           IF leaf = Unfrozen THEN LeafOf(b) ELSE leaf, Matches(s, b))

Answer(s, leaf, before) ==
  IF leaf = NullLeaf THEN Reply("page", {}, FALSE, NullLeaf, {})
  ELSE IF leaf = Unfrozen \/ OnBranch(branch[s], leaf) THEN WorkerPage(s, leaf, before)
  ELSE RewoundReply

(***************************************************************************)
(* The cursor store.                                                       *)
(***************************************************************************)

Size(c) == Cardinality({s \in Session : c.part[s].st # "outside"})
Sizes(store, at) == Cardinality({e \in at \X Session : store[e[1]].part[e[2]].st # "outside"})
Expired(c) == c.born <= clock

\* storeFor: entries whose time is up go first, the others keep their order.
Dead == {i \in DOMAIN cursors : Expired(cursors[i])}
Ascending(at) == CHOOSE f \in [1..Cardinality(at) -> at] : \A i, j \in DOMAIN f : i < j => f[i] < f[j]
Live == LET f == Ascending(DOMAIN cursors \ Dead) IN [i \in DOMAIN f |-> cursors[f[i]]]
LiveHeld == held - Sizes(cursors, Dead)

Fits(store, count, c) == Len(store) < MaxCursors /\ count + Size(c) <= MaxParticipants

\* Mutant: entries go, their participants stay counted.
SaveCursorUncounted(c) ==
  LET keep == Min({k \in 0..Len(Live) :
                    Fits(SubSeq(Live, k + 1, Len(Live)), LiveHeld - Sizes(Live, 1..k), c)})
  IN /\ cursors' = Append(SubSeq(Live, keep + 1, Len(Live)), c)
     /\ held' = LiveHeld + Size(c)

\* saveCursor: the oldest entries make room.
SaveCursor(c) ==
  LET Kept(k) == SubSeq(Live, k + 1, Len(Live))
      HeldAfter(k) == LiveHeld - Sizes(Live, 1..k)
      k == Min({n \in 0..Len(Live) : Fits(Kept(n), HeldAfter(n), c)})
  IN /\ cursors' = Append(Kept(k), c)
     /\ held' = HeldAfter(k) + Size(c)
-------------------------------------------------------------------------------
(***************************************************************************)
(* The hub.                                                                *)
(***************************************************************************)

Idle(r) == req[r] = NoRequest
Takes(r) == {s \in Session : req[r].part[s].st # "outside"}
InState(r, st) == {s \in Session : req[r].part[s].st = st}
AllIn(r) == ~Idle(r) /\ InState(r, "waiting") \cup InState(r, "asked") = {}

OwnerAllowed(r) ==
  LET o == req[r].owner
  IN o \in online /\ membership[o] = [in |-> TRUE, version |-> req[r].version]

ParticipantAllowed(r, s) == membership[s] = [in |-> TRUE, version |-> req[r].part[s].version]

\* assertScope
InScope(r, S) == OwnerAllowed(r) /\ \A s \in S : ParticipantAllowed(r, s)

Drop(r) == req' = [req EXCEPT ![r] = NoRequest]
SetPart(r, s, p) == req' = [req EXCEPT ![r].part[s] = p]

\* A search without a cursor: the members of the namespace take part, those that
\* cannot be asked have failed already.
Search(r, o) ==
  /\ Idle(r)
  /\ o \in online /\ membership[o].in
  /\ searches < MaxSearches
  /\ req' = [req EXCEPT ![r] =
       [owner |-> o, version |-> membership[o].version, born |-> searches + 1, before |-> {},
        seen |-> {}, hits |-> {}, more |-> FALSE, late |-> FALSE,
        part |-> [s \in Session |->
                    IF ~membership[s].in THEN Outside
                    ELSE [Outside EXCEPT !.st = IF s \in online THEN "waiting" ELSE "failed",
                                         !.version = membership[s].version]]]]
  /\ searches' = searches + 1
  /\ UNCHANGED <<worldVars, cursors, held, clock, changes>>

\* A session that failed on an earlier page is not asked again.
Resumed(c) == [s \in Session |->
  IF c.part[s].st \in {"outside", "failed"} THEN c.part[s] ELSE [c.part[s] EXCEPT !.st = "waiting"]]

\* A search with a cursor of its own; storeFor purges the store first.
Continue(r, i) ==
  /\ Idle(r)
  /\ i \in DOMAIN Live
  /\ LET c == Live[i] IN
     /\ c.owner \in online
     /\ membership[c.owner] = [in |-> TRUE, version |-> c.version]
     /\ req' = [req EXCEPT ![r] =
          [owner |-> c.owner, version |-> c.version, born |-> c.born, before |-> {c.before},
           seen |-> c.seen, hits |-> {}, more |-> FALSE, late |-> FALSE, part |-> Resumed(c)]]
  /\ cursors' = Live /\ held' = LiveHeld
  /\ UNCHANGED <<worldVars, clock, searches, changes>>

\* Mutant: the boundary as it is, whoever is asked.
PerSessionBeforePlain(b, s) == [time |-> b.time, sequence |-> b.sequence]

\* What lies below the boundary, said in the terms of one session.
PerSessionBefore(b, s) ==
  [time |-> b.time,
   sequence |-> IF s = b.session THEN b.sequence ELSE IF s > b.session THEN -1 ELSE Beyond]

\* The next participant in line is asked, if it still may and can be.
Ask(r) ==
  /\ ~Idle(r)
  /\ InState(r, "waiting") # {}
  /\ Cardinality(InState(r, "asked")) < Fanout
  /\ LET s == Min(InState(r, "waiting"))
         p == req[r].part[s]
     IN IF ~InScope(r, {s}) THEN Drop(r)
        ELSE IF s \notin online \/ req[r].late THEN SetPart(r, s, [p EXCEPT !.st = "failed"])
        ELSE SetPart(r, s, [p EXCEPT !.st = "asked",
               !.reply = Answer(s, p.leaf, {PerSessionBefore(b, s) : b \in req[r].before})])
  /\ UNCHANGED <<worldVars, cursors, held, clock, searches, changes>>

\* The answer is believed if it fits the frozen branch and the boundary.
Acceptable(r, s, page) ==
  /\ page.hits # {} => page.leaf # NullLeaf
  /\ page.more => page.hits # {}
  /\ req[r].before # {} => page.leaf = req[r].part[s].leaf
  /\ \A h \in page.hits, b \in req[r].before : Newer(b, h)

\* The newest of all hits so far, no more than a page.
Merged(r, page) == Newest(req[r].hits \cup page.hits, PageLimit)

\* The continuation of sendCmd.
Receive(r, s) ==
  /\ ~Idle(r) /\ s \in InState(r, "asked")
  /\ LET p == [req[r].part[s] EXCEPT !.reply = NoReply]
         page == req[r].part[s].reply
     IN IF ~InScope(r, {s}) \/ page.t = "rewound" THEN Drop(r)
        ELSE IF page.t = "lost" THEN SetPart(r, s, [p EXCEPT !.st = "failed"])
        ELSE IF ~Acceptable(r, s, page) THEN SetPart(r, s, [p EXCEPT !.st = "failed"])
        ELSE req' = [req EXCEPT
               ![r].part[s] = [p EXCEPT !.st = "done", !.leaf = page.leaf,
                                        !.all = IF p.leaf = Unfrozen THEN page.all ELSE @],
               ![r].hits = Merged(r, page),
               ![r].more = @ \/ page.more \/ Cardinality(req[r].hits \cup page.hits) > PageLimit]
  /\ UNCHANGED <<worldVars, cursors, held, clock, searches, changes>>

\* The cursor points behind the last hit of the page.
Boundary(hits) == Oldest(hits)

CursorOf(r) ==
  [owner |-> req[r].owner, version |-> req[r].version, born |-> req[r].born,
   part |-> req[r].part, before |-> Boundary(req[r].hits), seen |-> req[r].seen \cup req[r].hits]

\* Everyone has answered or failed: the page goes out, with a cursor if there is more.
Finish(r) ==
  /\ AllIn(r)
  /\ IF /\ InScope(r, Takes(r))
        /\ req[r].before # {} => req[r].born > clock
        /\ req[r].more /\ req[r].hits # {}
        /\ Size(CursorOf(r)) <= MaxParticipants
     THEN SaveCursor(CursorOf(r))
     ELSE UNCHANGED <<cursors, held>>
  /\ Drop(r)
  /\ UNCHANGED <<worldVars, clock, searches, changes>>

\* Mutant: nobody is asked any more, but those asked are waited for.
DeadlineWaits(r) ==
  /\ ~Idle(r) /\ ~req[r].late /\ ~AllIn(r)
  /\ req' = [req EXCEPT ![r].late = TRUE]
  /\ UNCHANGED <<worldVars, cursors, held, clock, searches, changes>>

\* The budget of a request is spent: the commands in flight end with "cmd timeout".
Deadline(r) ==
  /\ ~Idle(r) /\ ~req[r].late /\ ~AllIn(r)
  /\ req' = [req EXCEPT ![r].late = TRUE,
               ![r].part = [s \in Session |->
                  IF @[s].st = "asked" THEN [@[s] EXCEPT !.reply = LostReply] ELSE @[s]]]
  /\ UNCHANGED <<worldVars, cursors, held, clock, searches, changes>>

\* Five minutes after a search began; later searches end later.
TimePasses ==
  /\ clock < searches
  /\ clock' = clock + 1
  /\ UNCHANGED <<worldVars, cursors, held, req, searches, changes>>

(***************************************************************************)
(* The sessions meanwhile.                                                 *)
(***************************************************************************)

Changing == changes < MaxChanges /\ changes' = changes + 1 /\ UNCHANGED <<cursors, held, clock, searches>>

Writes(s, k) ==
  /\ Len(branch[s]) < MaxBranch
  /\ branch' = [branch EXCEPT ![s] = Append(@, Message(minted[s] + 1, k))]
  /\ minted' = [minted EXCEPT ![s] = @ + 1]
  /\ Changing /\ UNCHANGED <<membership, online, req>>

Rewinds(s) ==
  /\ \E n \in 0..Len(branch[s]) - 1 : branch' = [branch EXCEPT ![s] = SubSeq(@, 1, n)]
  /\ Changing /\ UNCHANGED <<minted, membership, online, req>>

Moves(s) ==
  /\ membership' = [membership EXCEPT ![s] = [in |-> ~@.in, version |-> @.version + 1]]
  /\ Changing /\ UNCHANGED <<branch, minted, online, req>>

\* A machine that disconnects owes no answers: its commands fail.
Disconnects(s) ==
  /\ s \in online
  /\ online' = online \ {s}
  /\ req' = [r \in Request |->
       IF ~Idle(r) /\ req[r].part[s].st = "asked" THEN [req[r] EXCEPT !.part[s].reply = LostReply]
       ELSE req[r]]
  /\ Changing /\ UNCHANGED <<branch, minted, membership>>

Reconnects(s) ==
  /\ s \notin online
  /\ online' = online \cup {s}
  /\ Changing /\ UNCHANGED <<branch, minted, membership, req>>
-------------------------------------------------------------------------------
Progress(r) == Ask(r) \/ Finish(r) \/ Deadline(r) \/ \E s \in Session : Receive(r, s)

\* What needs no machine: a worker that was asked may never answer.
HubProgress(r) ==
  \/ Ask(r) \/ Finish(r) \/ Deadline(r)
  \/ \E s \in Session : ~Idle(r) /\ req[r].part[s].reply.t = "lost" /\ Receive(r, s)

Begin(r) == (\E o \in Operator : Search(r, o)) \/ (\E i \in 1..MaxCursors : Continue(r, i))

World(s) == (\E k \in Kind : Writes(s, k)) \/ Rewinds(s) \/ Moves(s) \/ Disconnects(s) \/ Reconnects(s)

SearchNext ==
  \/ \E r \in Request : Begin(r) \/ Progress(r)
  \/ TimePasses
  \/ \E s \in Session : World(s)

SearchSpec == SearchInit /\ [][SearchNext]_searchVars
FairSearchSpec == SearchSpec /\ \A r \in Request : WF_searchVars(HubProgress(r))
-------------------------------------------------------------------------------
MessageRecord == [id : Nat \ {0}, time : Nat, match : BOOLEAN]
Hit == [time : Nat, session : Session, sequence : Nat]
ReplyRecord ==
  [t : {"none", "page", "lost", "rewound"}, hits : SUBSET Hit, more : BOOLEAN, leaf : Nat, all : SUBSET Hit]
PartRecord ==
  [st : {"outside", "waiting", "asked", "done", "failed"}, version : Nat, leaf : Nat \cup {Unfrozen},
   all : SUBSET Hit, reply : ReplyRecord]
SearchRecord ==
  [owner : Operator, version : Nat, born : Nat, before : SUBSET Hit, seen : SUBSET Hit, hits : SUBSET Hit,
   more : BOOLEAN, late : BOOLEAN, part : [Session -> PartRecord]]
CursorRecord ==
  [owner : Operator, version : Nat, born : Nat, part : [Session -> PartRecord], before : Hit,
   seen : SUBSET Hit]

SearchTypeOK ==
  /\ branch \in [Session -> Seq(MessageRecord)] /\ minted \in [Session -> Nat]
  /\ membership \in [Session -> [in : BOOLEAN, version : Nat]] /\ online \subseteq Session
  /\ cursors \in Seq(CursorRecord) /\ held \in Nat
  /\ req \in [Request -> SearchRecord \cup {NoRequest}]
  /\ clock \in Nat /\ searches \in Nat /\ changes \in Nat

\* The cursor store stays within both of its limits, and its count of participants
\* is the one its entries add up to (saveCursor, storeFor).
StoreBounded ==
  /\ Len(cursors) <= MaxCursors
  /\ held = Sizes(cursors, DOMAIN cursors) /\ held <= MaxParticipants

\* Each page lies below everything its search returned before, so that no hit is
\* returned twice and none out of order ("newest-first", docs/protocol.md), and shows
\* the first page's moment: what is written later is on none of its pages, and nothing
\* it has frozen changes under it (snapshotLeafId).
PagesSound ==
  \A r \in Request : ~Idle(r) =>
    \A h \in req[r].hits :
      /\ \A g \in req[r].seen : Newer(g, h)
      /\ h \in req[r].part[h.session].all

\* No match is skipped: when a page is complete, all matches a participant's frozen
\* branch holds above the end of the page were returned, on the last page simply
\* all; only sessions reported as failed are excepted ("partial" is not "absent").
PagesComplete ==
  \A r \in Request : AllIn(r) =>
    \A s \in InState(r, "done") : \A h \in req[r].part[s].all :
      \/ h \in req[r].seen \cup req[r].hits
      \/ req[r].more /\ req[r].hits # {} /\ Newer(Oldest(req[r].hits), h)

\* Every search is answered, whether the machines it asks answer or not.
SearchEnds == \A r \in Request : ~Idle(r) ~> Idle(r)
===============================================================================
