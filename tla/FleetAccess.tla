----------------------------- MODULE FleetAccess -----------------------------
(***************************************************************************)
(* What operators and administrators do to the fleet: the fleet routes and *)
(* namespace moves (packages/hub/src/api.ts), the mutation gates           *)
(* (fleet-state.ts), the release of an operator that ended (agents.ts) and *)
(* the membership the registry caches (sessions.ts).  A handler is one     *)
(* action up to its next await.                                            *)
(***************************************************************************)
EXTENDS FleetStore, FiniteSets

CONSTANTS
  Request, Move,   \* fleet requests, and moves, under way at a time
  MaxOps,          \* bound: requests of users, and ends, events and losses of sessions
  MaxFailures      \* bound: failures of the store

ASSUME AccessAssumption ==
  /\ IsFiniteSet(Request) /\ IsFiniteSet(Move)
  /\ MaxOps \in Nat /\ MaxFailures \in Nat

VARIABLES
  session,   \* status of each session in the registry
  store,     \* the SQLite store
  cached,    \* namespaceId, membershipVersion and controllerId of the registry's records
  gate,      \* #mutationGates; an absent one is NoGate
  request,   \* fleet requests between two awaits
  move,      \* moves that wait for commands in flight
  cleanup,   \* #pendingOwnerCleanup
  ops, failures

fleetVars == <<session, store, cached, gate, request, move, cleanup, ops, failures>>

Known(s) == session[s] \in {"starting", "live", "ended"}
NoGate == [inFlight |-> 0, moving |-> FALSE]

\* A request is in "body" while it awaits its body, "asked" while a command outside the
\* gates is, and "flying" while one inside is.  ns and the versions are what it has seen.
NoRequest == [st |-> "free", kind |-> "watch", owner |-> None, worker |-> None, ns |-> None,
              ownerVersion |-> 0, version |-> 0]
NoMove == [st |-> "free", id |-> None, ns |-> None, expected |-> None, affected |-> {}, pending |-> {}]

\* A hub that boots restores its sessions and memberships, control included.
FleetInit ==
  /\ session \in [Session -> {"unused", "live"}]
  /\ cached \in [Session -> {Unassigned} \cup [ns : Namespace, version : {1}, controller : Operator \cup {None}]]
  /\ \A s \in Session : session[s] = "unused" => cached[s] = Unassigned
  /\ \A o \in Operator : session[o] = "live" => cached[o].ns # None
  /\ \A s \in Session : LET o == cached[s].controller IN
       o # None => s \in Worker /\ session[o] = "live" /\ cached[o].ns = cached[s].ns
  /\ store = [member |-> cached, watches |-> {}, inbox |-> {}]
  /\ gate = [s \in Session |-> NoGate]
  /\ request = [i \in Request |-> NoRequest]
  /\ move = [m \in Move |-> NoMove]
  /\ cleanup = {} /\ ops = 0 /\ failures = 0

Spend == ops < MaxOps /\ ops' = ops + 1
UserOp == Spend /\ UNCHANGED failures
NoUserOp == UNCHANGED <<ops, failures>>

Refreshed(S) == [s \in Session |-> IF s \in S THEN store'.member[s] ELSE cached[s]]
ControlledBy(o) == {w \in Worker : Known(w) /\ cached[w].controller = o}

\* Mutant: the workers of an operator that moves or goes are forgotten.
FollowersNone(id) == {}

Followers(id) == IF id \in Operator THEN ControlledBy(id) ELSE {}

\* Live operators of a namespace, as the registry knows them.
LiveIn(records, ns) == {o \in Operator : session[o] = "live" /\ ns # None /\ records[o].ns = ns}
-------------------------------------------------------------------------------
(***************************************************************************)
(* Sessions come and go.                                                   *)
(***************************************************************************)

\* createSession by an administrator; operators of the namespace hear of a worker.
CreateSession(s, ns) ==
  /\ UserOp
  /\ session[s] = "unused"
  /\ s \in Operator => ns # None
  /\ session' = [session EXCEPT ![s] = "starting"]
  /\ store' = Enqueue(Assign(store, s, ns), IF s \in Worker THEN LiveIn(cached, ns) ELSE {}, s, "news")
  /\ cached' = Refreshed({s})
  /\ UNCHANGED <<gate, request, move, cleanup>>

Started(st, o, w, ns) == Watch(Claim(Assign(st, w, ns), w, o), o, w)

\* What an operator has to be when its request for a new session has been read.
MayStart(o) ==
  session[o] = "live" /\ store.member[o].ns # None /\ store.member[o].ns = cached[o].ns

\* createSession by an operator.
StartWorker(o, w) ==
  /\ UserOp
  /\ session[w] = "unused" /\ MayStart(o)
  /\ session' = [session EXCEPT ![w] = "starting"]
  /\ store' = Started(store, o, w, cached[o].ns)
  /\ cached' = Refreshed({w})
  /\ UNCHANGED <<gate, request, move, cleanup>>

Ready(s) ==
  /\ session[s] = "starting"
  /\ session' = [session EXCEPT ![s] = "live"]
  /\ NoUserOp /\ UNCHANGED <<store, cached, gate, request, move, cleanup>>

\* #queueFleetEvent: watchers that are live and in the session's namespace.
Recipients(s) == Watchers(store, s) \cap LiveIn(store.member, store.member[s].ns)

Event(s) ==
  /\ UserOp
  /\ session[s] = "live"
  /\ store' = Enqueue(store, Recipients(s), s, "news")
  /\ UNCHANGED <<session, cached, gate, request, move, cleanup>>

\* #releaseOwner.  When the store fails, in the transaction or while the memberships of the
\* workers are read back one by one, a sweep tries again.
ReleaseOwner(st, o) ==
  \/ /\ store' = RemoveOwner(st, o)
     /\ cached' = Refreshed(ControlledBy(o))
     /\ cleanup' = cleanup \ {o}
     /\ UNCHANGED failures
  \/ /\ failures < MaxFailures /\ failures' = failures + 1
     /\ cleanup' = cleanup \cup {o}
     /\ \/ store' = st /\ UNCHANGED cached
        \/ /\ store' = RemoveOwner(st, o)
           /\ \E read \in SUBSET ControlledBy(o) \ {ControlledBy(o)} : cached' = Refreshed(read)

\* The child exits or fails: #sessionEnded.
Ends(s) ==
  /\ Spend
  /\ session[s] \in {"starting", "live"}
  /\ session' = [session EXCEPT ![s] = "ended"]
  /\ LET told == Enqueue(store, Recipients(s), s, "news")
     IN  IF s \in Operator THEN ReleaseOwner(told, s)
         ELSE store' = told /\ UNCHANGED <<cached, cleanup, failures>>
  /\ UNCHANGED <<gate, request, move>>

RetryRelease(o) ==
  /\ o \in cleanup
  /\ ReleaseOwner(store, o)
  /\ UNCHANGED <<session, gate, request, move, ops>>

RestartSession(s) ==
  /\ UserOp
  /\ session[s] = "ended"
  /\ s \in Operator => cached[s].ns # None
  /\ session' = [session EXCEPT ![s] = "starting"]
  /\ UNCHANGED <<store, cached, gate, request, move, cleanup>>

DeleteSession(s) ==
  /\ UserOp
  /\ Known(s)
  /\ session' = [session EXCEPT ![s] = "deleted"]
  /\ store' = RemoveSessions(store, {s})
  /\ cached' = Refreshed(Followers(s))
  /\ UNCHANGED <<gate, request, move, cleanup>>

\* The registry drops an old record; the store follows within the hour.
PruneSession(s) ==
  /\ UserOp
  /\ session[s] = "ended"
  /\ session' = [session EXCEPT ![s] = "deleted"]
  /\ UNCHANGED <<store, cached, gate, request, move, cleanup>>

PruneOrphans ==
  LET orphans == {s \in Session : ~Known(s) /\ store.member[s] # Unassigned}
  IN  /\ orphans # {}
      /\ store' = RemoveSessions(store, orphans)
      /\ NoUserOp /\ UNCHANGED <<session, cached, gate, request, move, cleanup>>
-------------------------------------------------------------------------------
(***************************************************************************)
(* The mutation gates.                                                     *)
(***************************************************************************)

Enter(w) == ~gate[w].moving /\ gate' = [gate EXCEPT ![w].inFlight = @ + 1]

\* Mutant: the last command to settle wakes no move.
LeaveSilently(w) == gate' = [gate EXCEPT ![w].inFlight = @ - 1] /\ UNCHANGED move

\* The last command to settle wakes the moves that wait for it.
Leave(w) ==
  /\ gate' = [gate EXCEPT ![w].inFlight = @ - 1]
  /\ move' = [m \in Move |-> IF gate[w].inFlight = 1
                             THEN [move[m] EXCEPT !.pending = @ \ {w}] ELSE move[m]]

\* assignNamespace once the gates are quiet.  An operator's workers follow it.
Commits(id, expected) == Known(id) /\ expected \in {None, store.member[id].version}

ApplyMove(id, ns, expected) ==
  IF Commits(id, expected)
  THEN LET moved == Assign(store, id, ns)
           changed == ns # cached[id].ns
           revoked == IF changed THEN {cached[id].controller} \ {None} ELSE {}
           attached == IF changed /\ id \in Worker THEN LiveIn(cached, ns) ELSE {}
       IN  /\ store' = Enqueue(Enqueue(moved, revoked, id, "revoked"), attached, id, "news")
           /\ cached' = Refreshed({id} \cup Followers(id))
  ELSE UNCHANGED <<store, cached>>

Affected(id) == {id} \cup Followers(id)

\* assignNamespace and moveSessions, up to the wait if there is one to make.
BeginMove(m, id, ns, expected) ==
  LET pending == {s \in Affected(id) : gate[s].inFlight > 0}
  IN  /\ UserOp
      /\ move[m].st = "free"
      /\ Known(id)
      /\ ~(id \in Operator /\ session[id] = "live" /\ ns \notin {None, cached[id].ns})
      /\ \A s \in Affected(id) : ~gate[s].moving
      /\ \/ /\ pending = {}
            /\ ApplyMove(id, ns, expected)
            /\ UNCHANGED <<gate, move>>
         \/ /\ pending # {}
            /\ gate' = [s \in Session |-> IF s \in Affected(id) THEN [gate[s] EXCEPT !.moving = TRUE] ELSE gate[s]]
            /\ move' = [move EXCEPT ![m] = [st |-> "waiting", id |-> id, ns |-> ns, expected |-> expected,
                                            affected |-> Affected(id), pending |-> pending]]
            /\ UNCHANGED <<store, cached>>
      /\ UNCHANGED <<session, request, cleanup>>

Opened(m) ==
  [s \in Session |-> IF s \in move[m].affected THEN [gate[s] EXCEPT !.moving = FALSE] ELSE gate[s]]

\* Mutant: the move does not wait.
NoneAwaited(m) == TRUE

AllSettled(m) == move[m].pending = {}

EndMove(m) ==
  /\ move[m].st = "waiting" /\ AllSettled(m)
  /\ ApplyMove(move[m].id, move[m].ns, move[m].expected)
  /\ gate' = Opened(m)
  /\ move' = [move EXCEPT ![m] = NoMove]
  /\ NoUserOp /\ UNCHANGED <<session, request, cleanup>>
-------------------------------------------------------------------------------
(***************************************************************************)
(* The fleet routes of an operator.                                        *)
(***************************************************************************)
OperatorReady(o) == session[o] = "live" /\ store.member[o].ns # None
InScope(o, w) == OperatorReady(o) /\ Known(w) /\ store.member[w].ns = store.member[o].ns

Seen(st, kind, o, w) ==
  [st |-> st, kind |-> kind, owner |-> o, worker |-> w, ns |-> store.member[o].ns,
   ownerVersion |-> store.member[o].version, version |-> store.member[w].version]

StillAllowed(r) ==
  /\ session[r.owner] = "live"
  /\ store.member[r.owner].ns = r.ns /\ store.member[r.owner].version = r.ownerVersion
  /\ store.member[r.worker].ns = r.ns /\ store.member[r.worker].version = r.version
  /\ r.kind = "watch" \/ store.member[r.worker].controller = r.owner

\* No gate: a worker can be claimed while it is about to move.
ClaimWorker(o, w) ==
  /\ UserOp
  /\ InScope(o, w) /\ Claimable(store, w, o)
  /\ store' = Claim(store, w, o)
  /\ cached' = Refreshed({w})
  /\ UNCHANGED <<session, gate, request, move, cleanup>>

\* A new subscription to a live worker asks it for its pending input.
WatchWorker(i, o, w) ==
  /\ UserOp
  /\ request[i].st = "free"
  /\ InScope(o, w)
  /\ store' = Watch(store, o, w)
  /\ request' = IF <<o, w>> \notin store.watches /\ session[w] = "live"
                THEN [request EXCEPT ![i] = Seen("asked", "watch", o, w)] ELSE request
  /\ UNCHANGED <<session, cached, gate, move, cleanup>>

\* Mutant: the answer is taken although the memberships may have changed.
AnswerStale(i) ==
  /\ request[i].st = "asked"
  /\ request' = [request EXCEPT ![i] = NoRequest]
  /\ store' \in {store, Enqueue(store, {request[i].owner}, request[i].worker, "news")}
  /\ NoUserOp /\ UNCHANGED <<session, cached, gate, move, cleanup>>

Answer(i) ==
  LET r == request[i]
      told == Enqueue(store, {r.owner} \cap Watchers(store, r.worker), r.worker, "news")
  IN  /\ r.st = "asked"
      /\ request' = [request EXCEPT ![i] = NoRequest]
      /\ store' \in {store} \cup (IF StillAllowed(r) THEN {told} ELSE {})
      /\ NoUserOp /\ UNCHANGED <<session, cached, gate, move, cleanup>>

\* stop, message, interrupt and input of a worker the operator controls.
Mutate(i, o, w) ==
  /\ UserOp
  /\ request[i].st = "free"
  /\ InScope(o, w) /\ store.member[w].controller = o
  /\ request' = [request EXCEPT ![i] = Seen("body", "mutate", o, w)]
  /\ UNCHANGED <<session, store, cached, gate, move, cleanup>>

Fork(i, o, w) ==
  /\ UserOp
  /\ request[i].st = "free"
  /\ OperatorReady(o)
  /\ request' = [request EXCEPT ![i] = Seen("body", "fork", o, w)]
  /\ UNCHANGED <<session, store, cached, gate, move, cleanup>>

MayFork(o, w) ==
  /\ MayStart(o) /\ session[w] = "live"
  /\ store.member[w].ns = store.member[o].ns /\ store.member[w].controller = o

\* The body is there: the request is checked again and goes through the gate, or ends.
Dispatch(i) ==
  LET r == request[i]
      allowed == IF r.kind = "fork" THEN MayFork(r.owner, r.worker) ELSE StillAllowed(r)
  IN  /\ r.st = "body"
      /\ \/ /\ allowed
            /\ Enter(r.worker)
            /\ request' = [request EXCEPT ![i] = Seen("flying", r.kind, r.owner, r.worker)]
         \/ /\ ~allowed \/ gate[r.worker].moving
            /\ request' = [request EXCEPT ![i] = NoRequest]
            /\ UNCHANGED gate
      /\ NoUserOp /\ UNCHANGED <<session, store, cached, move, cleanup>>

\* The command answers, times out or fails.
Settle(i) ==
  /\ request[i].st = "flying"
  /\ request' = [request EXCEPT ![i] = NoRequest]
  /\ Leave(request[i].worker)
  /\ NoUserOp /\ UNCHANGED <<session, store, cached, cleanup>>

\* A fork that succeeds starts its copy before it leaves the gate.
SettleFork(i, copy) ==
  LET r == request[i]
  IN  /\ r.st = "flying" /\ r.kind = "fork"
      /\ session[copy] = "unused"
      /\ session[r.worker] = "live" /\ store.member[r.worker].version = r.version
      /\ session[r.owner] = "live" /\ store.member[r.owner].ns = r.ns
      /\ session' = [session EXCEPT ![copy] = "starting"]
      /\ store' = Started(store, r.owner, copy, r.ns)
      /\ cached' = Refreshed({copy})
      /\ request' = [request EXCEPT ![i] = NoRequest]
      /\ Leave(r.worker)
      /\ NoUserOp /\ UNCHANGED cleanup

Ack(row) ==
  /\ UserOp
  /\ OperatorReady(row.owner) /\ row \in store.inbox
  /\ store' = [store EXCEPT !.inbox = @ \ {row}]
  /\ UNCHANGED <<session, cached, gate, request, move, cleanup>>
-------------------------------------------------------------------------------
Lifecycle ==
  \/ \E s \in Session :
       \/ \E ns \in Namespace \cup {None} : CreateSession(s, ns)
       \/ Ready(s) \/ Event(s) \/ Ends(s) \/ RestartSession(s) \/ DeleteSession(s) \/ PruneSession(s)
  \/ \E o \in Operator, w \in Worker : StartWorker(o, w)
  \/ \E o \in Operator : RetryRelease(o)
  \/ PruneOrphans

Moves ==
  \E m \in Move :
    \/ \E id \in Session, ns \in Namespace \cup {None} :
         \E expected \in {None, store.member[id].version} : BeginMove(m, id, ns, expected)
    \/ EndMove(m)

Routes ==
  \/ \E o \in Operator, w \in Worker :
       \/ ClaimWorker(o, w)
       \/ \E i \in Request : WatchWorker(i, o, w) \/ Mutate(i, o, w) \/ Fork(i, o, w)
  \/ \E i \in Request :
       Dispatch(i) \/ Settle(i) \/ Answer(i) \/ \E copy \in Worker : SettleFork(i, copy)
  \/ \E row \in Row : Ack(row)

FleetNext == Lifecycle \/ Moves \/ Routes

FleetSpec == FleetInit /\ [][FleetNext]_fleetVars
-------------------------------------------------------------------------------
RequestRecord ==
  [st : {"free", "asked", "body", "flying"}, kind : {"watch", "mutate", "fork"},
   owner : Operator \cup {None}, worker : Worker \cup {None}, ns : Namespace \cup {None},
   ownerVersion : Nat, version : Nat]
MoveRecord ==
  [st : {"free", "waiting"}, id : Session \cup {None}, ns : Namespace \cup {None},
   expected : Nat \cup {None}, affected : SUBSET Session, pending : SUBSET Session]

\* Sessions, requests, gates and moves keep their types; nobody controls an operator.
FleetTypeOK ==
  /\ session \in [Session -> {"unused", "starting", "live", "ended", "deleted"}]
  /\ store \in Store
  /\ cached \in Memberships
  /\ gate \in [Session -> [inFlight : Nat, moving : BOOLEAN]]
  /\ request \in [Request -> RequestRecord]
  /\ \A i \in Request : request[i].st # "free" => request[i].owner # None /\ request[i].worker # None
  /\ move \in [Move -> MoveRecord]
  /\ \A m \in Move : move[m].st = "waiting" => move[m].id # None
  /\ cleanup \in SUBSET Operator
  /\ ops \in Nat /\ failures \in Nat

Flying(s) == {i \in Request : request[i].st = "flying" /\ request[i].worker = s}
Movers(s) == {m \in Move : move[m].st = "waiting" /\ s \in move[m].affected}

\* While a command accepted in a namespace is in flight to a session, the session does not
\* change its namespace: a move "waits for commands already dispatched to the worker to
\* acknowledge before committing membership" (docs/protocol.md).
FenceHolds ==
  [][\A s \in Session : Flying(s) # {} /\ Known(s)' => store'.member[s].ns = store.member[s].ns]_fleetVars

\* Only a live operator of its own namespace controls a worker; the exception is one whose
\* release the store refused and a sweep will repeat (agents.ts, #releaseOwner).
ControllerInScope ==
  \A w \in Worker : LET o == store.member[w].controller IN
    o # None => \/ o \in cleanup
                \/ session[o] = "live" /\ store.member[w].ns # None /\ store.member[o].ns = store.member[w].ns

\* Nobody watches, or has unread events of, a session of another namespace, but for the
\* notice that it was revoked (fleet-state.ts, assign: "removes stale watches/inbox
\* entries").
RowsInScope ==
  /\ \A p \in store.watches : store.member[p[1]].ns = store.member[p[2]].ns
  /\ \A r \in store.inbox : r.kind = "news" => store.member[r.owner].ns = store.member[r.session].ns

\* The registry shows the membership of the store, whatever path changed it, unless it waits
\* for a sweep to repeat a release.
CacheFollows ==
  \A s \in Session : Known(s) => cached[s] = store.member[s] \/ cached[s].controller \in cleanup

\* No change of a membership goes unnoticed by a handler that compares versions after an
\* await (api.ts, stillAllowed): every change raises the version.
VersionFences ==
  [][\A s \in Session : Known(s)' /\ store'.member[s] # store.member[s] =>
       store'.member[s].version > store.member[s].version]_fleetVars

\* A gate counts the commands in flight to its session and is closed exactly while one move
\* holds it: no fence outlives its move, and no two moves share one.  A move waits only for
\* commands that are in flight, so that it ends when they have settled: no settlement is
\* missed, and none is waited for twice (fleet-state.ts, mutateWorker, moveSessions).
MovesAreWoken ==
  /\ \A s \in Session :
       /\ gate[s].inFlight = Cardinality(Flying(s))
       /\ Cardinality(Movers(s)) = IF gate[s].moving THEN 1 ELSE 0
  /\ \A m \in Move : \A s \in move[m].pending : Flying(s) # {} /\ gate[s].moving
===============================================================================
