--------------------------- MODULE FleetAccessProofs ---------------------------
(***************************************************************************)
(* Proofs about FleetAccess, for every set of operators, workers and       *)
(* namespaces and every finite number of requests and moves.               *)
(*                                                                         *)
(* The transactions of the store come first: what each does to the         *)
(* memberships and rows, so that the steps of the hub need not be expanded *)
(* into them.  The invariant is then proved in layers, each under those    *)
(* before it: gates with the types, requests, control and the cache, rows. *)
(***************************************************************************)
EXTENDS FleetAccess, FiniteSetTheorems, TLAPS

\* Every row of a store relates sessions of one namespace, but for notices of revocation.
RowsOf(st) ==
  /\ \A p \in st.watches : st.member[p[1]].ns = st.member[p[2]].ns
  /\ \A r \in st.inbox : r.kind = "news" => st.member[r.owner].ns = st.member[r.session].ns

\* A membership that differs from what it was has a higher version.
Raised(old, new) == \A s \in Session : new[s] # old[s] => new[s].version > old[s].version

\* Nobody controls a session but those who did.
NoneClaimed(old, new) == \A s \in Session : new[s].controller \in {None, old[s].controller}

\* No session changes its namespace.
SameNamespaces(old, new) == \A s \in Session : new[s].ns = old[s].ns

\* Ids are of one kind, and None is no id.
LEMMA Ids ==
  /\ \A o \in Operator : o \in Session /\ o \notin Worker /\ o # None
  /\ \A w \in Worker : w \in Session /\ w \notin Operator /\ w # None
  /\ \A s \in Session : (s \in Operator \/ s \in Worker) /\ s # None
  /\ None \notin Namespace
BY FleetAssumption DEF Session

\* Sessions whose controller is in S lose it and are raised; the others keep their row.
LEMMA UncontrolledEffect ==
  ASSUME NEW member \in Memberships, NEW S \in SUBSET Session
  PROVE  LET new == Uncontrolled(member, S)
         IN /\ new \in Memberships
            /\ \A s \in Session : new[s].controller = IF member[s].controller \in S THEN None
                                                      ELSE member[s].controller
            /\ \A s \in Session : member[s].controller \notin S => new[s] = member[s]
            /\ Raised(member, new) /\ SameNamespaces(member, new)
<1> DEFINE new == Uncontrolled(member, S)
<1>1. member \in [Session -> Membership] /\ \A o \in Operator : member[o].controller = None
  BY DEF Memberships
<1>2. new = [s \in Session |-> IF member[s].controller \in S
                               THEN [ns |-> member[s].ns, version |-> member[s].version + 1, controller |-> None]
                               ELSE member[s]]
  BY DEF Uncontrolled
<1>3. \A s \in Session :
        /\ new[s] \in Membership /\ new[s].ns = member[s].ns
        /\ member[s].controller \in S => new[s].controller = None /\ new[s].version > member[s].version
        /\ member[s].controller \notin S => new[s] = member[s]
  BY <1>1, <1>2 DEF Membership
<1>4. new \in Memberships
  BY <1>1, <1>2, <1>3, Ids DEF Memberships
<1> HIDE DEF new
<1> QED BY <1>3, <1>4 DEF Raised, SameNamespaces, new

\* A session that is given another namespace is nobody's and controls nobody, and its rows
\* are gone; one that is in the namespace already is left alone.
LEMMA AssignEffect ==
  ASSUME NEW st \in Store, NEW s \in Session, NEW ns \in Namespace \cup {None}
  PROVE  LET new == Assign(st, s, ns)
         IN /\ new \in Store
            /\ new.member[s].ns = ns
            /\ \A x \in Session \ {s} : new.member[x].ns = st.member[x].ns
            /\ \A x \in Session : st.member[x].controller # s /\ x # s => new.member[x] = st.member[x]
            /\ NoneClaimed(st.member, new.member)
            /\ Raised(st.member, new.member)
            /\ RowsOf(st) => RowsOf(new)
            /\ \/ new = st /\ st.member[s].ns = ns
               \/ new.member[s].controller = None /\ \A x \in Session : new.member[x].controller # s
<1> DEFINE new == Assign(st, s, ns)
<1>1. CASE st.member[s].ns = ns
  BY <1>1 DEF Assign, NoneClaimed, Raised
<1>2. CASE st.member[s].ns # ns
  <2> DEFINE left == [st.member EXCEPT ![s] = [ns |-> ns, version |-> @.version + 1, controller |-> None]]
  <2>1. left \in Memberships /\ Raised(st.member, left) /\ NoneClaimed(st.member, left)
    <3>1. st.member \in [Session -> Membership] /\ \A o \in Operator : st.member[o].controller = None
      BY DEF Store, Memberships
    <3>2. \A x \in Session :
            /\ left[x] \in Membership
            /\ x = s => left[x].controller = None /\ left[x].version > st.member[x].version
            /\ x # s => left[x] = st.member[x]
      BY <3>1 DEF Membership
    <3>3. left \in Memberships
      BY <3>1, <3>2, Ids DEF Memberships
    <3> QED BY <3>2, <3>3 DEF Raised, NoneClaimed
  <2>2. left[s].ns = ns /\ left[s].controller = None /\ \A x \in Session \ {s} : left[x] = st.member[x]
    BY DEF Store, Memberships
  <2>3. /\ new.member = Uncontrolled(left, {s})
        /\ new.watches = NoWatchOf(st.watches, {s}) /\ new.inbox = NoRowOf(st.inbox, {s})
        /\ new = [member |-> new.member, watches |-> new.watches, inbox |-> new.inbox]
    BY <1>2 DEF Assign, Moved
  <2>4. /\ new.member \in Memberships
        /\ \A x \in Session : new.member[x].controller = IF left[x].controller \in {s} THEN None
                                                         ELSE left[x].controller
        /\ \A x \in Session : left[x].controller \notin {s} => new.member[x] = left[x]
        /\ Raised(left, new.member) /\ SameNamespaces(left, new.member)
    <3>1. {s} \in SUBSET Session
      OBVIOUS
    <3> HIDE DEF left
    <3> QED BY <3>1, <2>1, <2>3, UncontrolledEffect
  <2> HIDE DEF left
  <2>5. new \in Store
    BY <2>3, <2>4 DEF Store, NoWatchOf, NoRowOf
  <2>6. Raised(st.member, new.member)
    <3> SUFFICES ASSUME NEW x \in Session, new.member[x] # st.member[x]
                 PROVE  new.member[x].version > st.member[x].version
      BY DEF Raised
    <3>1. new.member[x] \in Membership /\ left[x] \in Membership /\ st.member[x] \in Membership
      BY <2>1, <2>4 DEF Memberships, Store
    <3> QED BY <2>1, <2>4, <3>1 DEF Raised, Membership
  <2>7. NoneClaimed(st.member, new.member)
    BY <2>1, <2>4 DEF NoneClaimed
  <2>8. \A x \in Session \ {s} : new.member[x].ns = st.member[x].ns
    BY <2>2, <2>4 DEF SameNamespaces
  <2>9. RowsOf(st) => RowsOf(new)
    BY <2>3, <2>8 DEF RowsOf, NoWatchOf, NoRowOf, Store, Row, Session
  <2>10. /\ new.member[s].ns = ns /\ new.member[s].controller = None
         /\ \A x \in Session : new.member[x].controller # s
    BY <2>2, <2>4, Ids DEF SameNamespaces
  <2>11. \A x \in Session : st.member[x].controller # s /\ x # s => new.member[x] = st.member[x]
    BY <2>2, <2>4
  <2> QED BY <2>5, <2>6, <2>7, <2>8, <2>9, <2>10, <2>11
<1> QED BY <1>1, <1>2

\* A claim changes one membership, and raises it when it changes hands.
LEMMA ClaimEffect ==
  ASSUME NEW st \in Store, NEW w \in Worker, NEW o \in Operator
  PROVE  LET new == Claim(st, w, o)
         IN /\ new \in Store
            /\ new.member[w].controller = o
            /\ \A x \in Session \ {w} : new.member[x] = st.member[x]
            /\ Raised(st.member, new.member) /\ SameNamespaces(st.member, new.member)
            /\ new.watches = st.watches /\ new.inbox = st.inbox
<1>1. CASE st.member[w].controller = o
  BY <1>1 DEF Claim, Raised, SameNamespaces
<1>2. CASE st.member[w].controller # o
  <2>1. w \in Session /\ w \notin Operator
    BY FleetAssumption DEF Session
  <2>2. st.member[w] \in Membership
    BY <2>1 DEF Store, Memberships
  <2>3. Claim(st, w, o) = [st EXCEPT !.member[w] = [ns |-> @.ns, version |-> @.version + 1, controller |-> o]]
    BY <1>2 DEF Claim
  <2> DEFINE row == [ns |-> st.member[w].ns, version |-> st.member[w].version + 1, controller |-> o]
             member == [st.member EXCEPT ![w] = row]
  <2>4. row \in Membership /\ row.version > st.member[w].version
    BY <2>2 DEF Membership
  <2>5. st.member \in [Session -> Membership] /\ \A x \in Operator : st.member[x].controller = None
    BY DEF Store, Memberships
  <2>6. Claim(st, w, o) = [member |-> member, watches |-> st.watches, inbox |-> st.inbox]
    BY <2>3 DEF Store
  <2>7. member \in Memberships /\ member[w] = row /\ \A x \in Session \ {w} : member[x] = st.member[x]
    BY <2>1, <2>4, <2>5, Ids DEF Memberships
  <2>8. Raised(st.member, member) /\ SameNamespaces(st.member, member)
    BY <2>4, <2>7 DEF Raised, SameNamespaces
  <2> HIDE DEF member
  <2>9. member[w].controller = o
    BY <2>7
  <2>10. [member |-> member, watches |-> st.watches, inbox |-> st.inbox] \in Store
    BY <2>7 DEF Store
  <2> HIDE DEF row
  <2> QED BY <2>6, <2>7, <2>8, <2>9, <2>10
<1> QED BY <1>1, <1>2

\* A watch within a namespace adds a row in scope.
LEMMA WatchEffect ==
  ASSUME NEW st \in Store, NEW w \in Worker, NEW o \in Operator
  PROVE  LET new == Watch(st, o, w)
         IN /\ new \in Store
            /\ new.member = st.member
            /\ RowsOf(st) /\ st.member[o].ns = st.member[w].ns => RowsOf(new)
BY DEF Watch, Store, RowsOf

\* News to operators of the session's namespace adds rows in scope.
LEMMA EnqueueEffect ==
  ASSUME NEW st \in Store, NEW owners \in SUBSET Operator, NEW s \in Session,
         NEW kind \in {"news", "revoked"}, s \in Worker \/ owners = {}
  PROVE  LET new == Enqueue(st, owners, s, kind)
         IN /\ new \in Store
            /\ new.member = st.member
            /\ RowsOf(st) /\ (kind = "news" => \A o \in owners : st.member[o].ns = st.member[s].ns)
                 => RowsOf(new)
<1>1. {[owner |-> o, session |-> s, kind |-> kind] : o \in owners} \in SUBSET Row
  BY DEF Row
<1> QED BY <1>1 DEF Enqueue, Store, RowsOf

\* An operator that is removed controls nobody; nobody else loses or gains control.
LEMMA RemoveOwnerEffect ==
  ASSUME NEW st \in Store, NEW o \in Operator
  PROVE  LET new == RemoveOwner(st, o)
         IN /\ new \in Store
            /\ \A s \in Session : new.member[s].controller # o
            /\ \A s \in Session : st.member[s].controller # o => new.member[s] = st.member[s]
            /\ NoneClaimed(st.member, new.member)
            /\ Raised(st.member, new.member) /\ SameNamespaces(st.member, new.member)
            /\ RowsOf(st) => RowsOf(new)
<1> DEFINE new == RemoveOwner(st, o)
<1>1. new.member = Uncontrolled(st.member, {o}) /\ st.member \in Memberships /\ o \in Session
  BY DEF RemoveOwner, Store, Session
<1>2. /\ new.member \in Memberships
      /\ \A s \in Session : new.member[s].controller = IF st.member[s].controller \in {o} THEN None
                                                       ELSE st.member[s].controller
      /\ \A s \in Session : st.member[s].controller \notin {o} => new.member[s] = st.member[s]
      /\ Raised(st.member, new.member) /\ SameNamespaces(st.member, new.member)
  BY <1>1, UncontrolledEffect
<1>3. new \in Store
  BY <1>2 DEF RemoveOwner, Store
<1>4. RowsOf(st) => RowsOf(new)
  BY <1>2 DEF RemoveOwner, RowsOf, SameNamespaces, Store, Row, Session
<1> QED BY <1>2, <1>3, <1>4, Ids DEF NoneClaimed

\* Sessions that are removed are unassigned and control nobody; the rest keep their namespace.
LEMMA RemoveSessionsEffect ==
  ASSUME NEW st \in Store, NEW S \in SUBSET Session
  PROVE  LET new == RemoveSessions(st, S)
         IN /\ new \in Store
            /\ \A s \in Session : new.member[s].controller \notin S
            /\ \A s \in S : new.member[s] = Unassigned
            /\ \A s \in Session \ S : /\ st.member[s].controller \notin S => new.member[s] = st.member[s]
                                      /\ new.member[s].ns = st.member[s].ns
                                      /\ new.member[s] # st.member[s] =>
                                           new.member[s].version > st.member[s].version
            /\ NoneClaimed(st.member, new.member)
            /\ RowsOf(st) => RowsOf(new)
<1> DEFINE new == RemoveSessions(st, S)
           freed == Uncontrolled(st.member, S)
<1>1. st.member \in Memberships
  BY DEF Store
<1>2. /\ freed \in Memberships
      /\ \A s \in Session : freed[s].controller = IF st.member[s].controller \in S THEN None
                                                  ELSE st.member[s].controller
      /\ \A s \in Session : st.member[s].controller \notin S => freed[s] = st.member[s]
      /\ Raised(st.member, freed) /\ SameNamespaces(st.member, freed)
  BY <1>1, UncontrolledEffect
<1> HIDE DEF freed
<1>3. /\ new.member = [s \in Session |-> IF s \in S THEN Unassigned ELSE freed[s]]
      /\ new.watches = NoWatchOf(st.watches, S) /\ new.inbox = NoRowOf(st.inbox, S)
      /\ new = [member |-> new.member, watches |-> new.watches, inbox |-> new.inbox]
  BY DEF RemoveSessions, freed
<1>4. new.member \in Memberships
  <2>1. freed \in [Session -> Membership] /\ Unassigned \in Membership
    BY <1>2 DEF Memberships, Membership, Unassigned
  <2>2. new.member \in [Session -> Membership]
    BY <2>1, <1>3
  <2> QED BY <1>2, <1>3, <2>2, Ids DEF Memberships, Unassigned
<1>5. new \in Store
  BY <1>3, <1>4 DEF Store, NoWatchOf, NoRowOf
<1>6. \A s \in Session : new.member[s].controller \notin S /\ new.member[s].controller \in {None, st.member[s].controller}
  BY <1>2, <1>3, Ids DEF Unassigned
<1>7. \A s \in Session \ S : new.member[s] = freed[s]
  BY <1>3
<1>8. \A s \in S : new.member[s] = Unassigned
  BY <1>3
<1>9. RowsOf(st) => RowsOf(new)
  <2>1. \A s \in Session \ S : new.member[s].ns = st.member[s].ns
    BY <1>2, <1>7 DEF SameNamespaces
  <2>2. \A p \in new.watches : p \in st.watches /\ p[1] \in Session \ S /\ p[2] \in Session \ S
    BY <1>3, Ids DEF NoWatchOf, Store
  <2>3. \A r \in new.inbox : r \in st.inbox /\ r.owner \in Session \ S /\ r.session \in Session \ S
    BY <1>3, Ids DEF NoRowOf, Store, Row
  <2> QED BY <2>1, <2>2, <2>3 DEF RowsOf
<1> QED BY <1>2, <1>5, <1>6, <1>7, <1>8, <1>9 DEF NoneClaimed, Raised, SameNamespaces

\* A worker an operator starts is the operator's, in the namespace it was started for.
LEMMA StartedEffect ==
  ASSUME NEW st \in Store, NEW o \in Operator, NEW w \in Worker, NEW ns \in Namespace \cup {None}
  PROVE  LET new == Started(st, o, w, ns)
         IN /\ new \in Store
            /\ new.member[w].ns = ns /\ new.member[w].controller = o
            /\ \A x \in Session \ {w} : new.member[x] = st.member[x]
            /\ new.member[w] # st.member[w] => new.member[w].version > st.member[w].version
            /\ RowsOf(st) /\ st.member[o].ns = ns => RowsOf(new)
<1> DEFINE given == Assign(st, w, ns)
           claimed == Claim(given, w, o)
<1>1. w \in Session /\ \A x \in Session : st.member[x] \in Membership /\ st.member[x].controller # w
  BY Ids DEF Store, Memberships, Membership
<1>2. /\ given \in Store /\ given.member[w].ns = ns
      /\ \A x \in Session \ {w} : given.member[x] = st.member[x]
      /\ Raised(st.member, given.member)
      /\ RowsOf(st) => RowsOf(given)
  BY <1>1, AssignEffect
<1> HIDE DEF given
<1>3. /\ claimed \in Store /\ claimed.member[w].controller = o
      /\ \A x \in Session \ {w} : claimed.member[x] = given.member[x]
      /\ Raised(given.member, claimed.member) /\ SameNamespaces(given.member, claimed.member)
      /\ claimed.watches = given.watches /\ claimed.inbox = given.inbox
  BY <1>2, ClaimEffect
<1> HIDE DEF claimed
<1>4. RowsOf(given) => RowsOf(claimed)
  BY <1>3, <1>2, Ids DEF RowsOf, SameNamespaces, Store, Row
<1>5. claimed.member[o].ns = st.member[o].ns /\ claimed.member[w].ns = ns
  BY <1>1, <1>2, <1>3, Ids DEF SameNamespaces
<1>6. claimed.member[w] # st.member[w] => claimed.member[w].version > st.member[w].version
  <2>1. st.member[w] \in Membership /\ given.member[w] \in Membership /\ claimed.member[w] \in Membership
    BY <1>1, <1>2, <1>3 DEF Store, Memberships
  <2> QED BY <1>1, <1>2, <1>3, <2>1 DEF Raised, Membership
<1>7. /\ Watch(claimed, o, w) \in Store /\ Watch(claimed, o, w).member = claimed.member
      /\ RowsOf(claimed) /\ claimed.member[o].ns = claimed.member[w].ns => RowsOf(Watch(claimed, o, w))
  BY <1>3, WatchEffect
<1>8. Started(st, o, w, ns) = Watch(claimed, o, w)
  BY DEF Started, claimed, given
<1> HIDE DEF RowsOf
<1> QED BY <1>1, <1>2, <1>3, <1>4, <1>5, <1>6, <1>7, <1>8

-------------------------------------------------------------------------------
(***************************************************************************)
(* The gates and the types, which say that a command that settles was      *)
(* counted.                                                                *)
(***************************************************************************)

\* A move that waits names its session among those it holds, and waits for exactly the
\* commands in flight to them.
MovesValid ==
  \A m \in Move :
    /\ move[m].st = "free" => move[m] = NoMove
    /\ move[m].st = "waiting" => /\ move[m].id \in move[m].affected
                                 /\ move[m].pending = {s \in move[m].affected : gate[s].inFlight > 0}

\* What the gates count: commands in flight, and the one move that holds a closed gate.
GatesCount ==
  \A s \in Session :
    /\ gate[s].inFlight = Cardinality(Flying(s))
    /\ Cardinality(Movers(s)) = IF gate[s].moving THEN 1 ELSE 0

\* A gate is counted by finite sets: empty, or a mover, exactly when the count says so.
LEMMA CountsMean ==
  ASSUME GatesCount, NEW s \in Session
  PROVE  /\ IsFiniteSet(Flying(s)) /\ IsFiniteSet(Movers(s))
         /\ gate[s].inFlight \in Nat
         /\ gate[s].inFlight > 0 <=> Flying(s) # {}
         /\ gate[s].moving <=> Movers(s) # {}
         /\ \A m, n \in Movers(s) : m = n
<1>1. Flying(s) \in SUBSET Request /\ Movers(s) \in SUBSET Move
  BY DEF Flying, Movers
<1>2. IsFiniteSet(Flying(s)) /\ IsFiniteSet(Movers(s))
  BY <1>1, AccessAssumption, FS_Subset
<1>3. Cardinality(Flying(s)) \in Nat /\ Cardinality(Movers(s)) \in Nat
  BY <1>2, FS_CardinalityType
<1>4. (Cardinality(Flying(s)) = 0 <=> Flying(s) = {}) /\ (Cardinality(Movers(s)) = 0 <=> Movers(s) = {})
  BY <1>2, FS_EmptySet
<1>5. Cardinality(Movers(s)) = 1 <=> \E m : Movers(s) = {m}
  BY <1>2, FS_Singleton
<1> QED BY <1>2, <1>3, <1>4, <1>5 DEF GatesCount

\* One request changes: who is in flight.
LEMMA FlyingChange ==
  ASSUME FleetTypeOK, NEW i \in Request, NEW r, request' = [request EXCEPT ![i] = r], NEW s \in Session
  PROVE  Flying(s)' = IF r.st = "flying" /\ r.worker = s THEN Flying(s) \cup {i} ELSE Flying(s) \ {i}
BY DEF FleetTypeOK, RequestRecord, Flying

\* A command that leaves its gate is counted out, and the moves that wait hear of the last.
LEMMA LeaveStep ==
  ASSUME FleetTypeOK, GatesCount, MovesValid, NEW i \in Request, request[i].st = "flying",
         request' = [request EXCEPT ![i] = NoRequest], Leave(request[i].worker)
  PROVE  /\ gate' \in [Session -> [inFlight : Nat, moving : BOOLEAN]]
         /\ GatesCount' /\ MovesValid'
<1> DEFINE w == request[i].worker
<1>1. w \in Session /\ i \in Flying(w)
  BY Ids DEF FleetTypeOK, RequestRecord, Flying
<1>2. gate[w].inFlight \in Nat /\ gate[w].inFlight > 0
  BY <1>1, CountsMean
<1>3. /\ gate' = [gate EXCEPT ![w].inFlight = @ - 1]
      /\ move' = [m \in Move |-> IF gate[w].inFlight = 1
                                 THEN [move[m] EXCEPT !.pending = @ \ {w}] ELSE move[m]]
  BY DEF Leave
<1>4. \A s \in Session : Flying(s)' = Flying(s) \ {i}
  <2>1. NoRequest.st # "flying"
    BY DEF NoRequest
  <2> QED BY <2>1, FlyingChange
<1>5. \A s \in Session : s # w => i \notin Flying(s)
  BY DEF Flying
<1>6. \A s \in Session : Movers(s)' = Movers(s)
  BY <1>3 DEF Movers, FleetTypeOK, MoveRecord
<1>7. gate' \in [Session -> [inFlight : Nat, moving : BOOLEAN]]
  BY <1>1, <1>2, <1>3 DEF FleetTypeOK
<1>8. \A s \in Session : /\ gate'[s].moving = gate[s].moving
                         /\ gate'[s].inFlight = IF s = w THEN gate[s].inFlight - 1 ELSE gate[s].inFlight
  BY <1>1, <1>3 DEF FleetTypeOK
<1>9. GatesCount'
  <2>1. \A s \in Session : Cardinality(Flying(s) \ {i}) = IF s = w THEN gate[s].inFlight - 1 ELSE gate[s].inFlight
    BY <1>1, <1>5, CountsMean, FS_RemoveElement DEF GatesCount
  <2> QED BY <1>4, <1>6, <1>8, <2>1 DEF GatesCount
<1>10. MovesValid'
  <2> SUFFICES ASSUME NEW m \in Move PROVE
         /\ move'[m].st = "free" => move'[m] = NoMove
         /\ move'[m].st = "waiting" => /\ move'[m].id \in move'[m].affected
                                       /\ move'[m].pending = {s \in move'[m].affected : gate'[s].inFlight > 0}
    BY DEF MovesValid
  <2>1. /\ move'[m].st = move[m].st /\ move'[m].id = move[m].id /\ move'[m].affected = move[m].affected
        /\ move'[m].pending = IF gate[w].inFlight = 1 THEN move[m].pending \ {w} ELSE move[m].pending
        /\ move[m].affected \in SUBSET Session
    BY <1>3 DEF FleetTypeOK, MoveRecord
  <2>2. CASE move[m].st = "free"
    <3>1. move[m] = NoMove
      BY <2>2 DEF MovesValid
    <3>2. NoMove.pending \ {w} = NoMove.pending /\ [NoMove EXCEPT !.pending = NoMove.pending] = NoMove
      BY DEF NoMove
    <3>3. move'[m] = NoMove
      BY <1>3, <3>1, <3>2
    <3> QED BY <2>1, <2>2, <3>3
  <2>3. CASE move[m].st = "waiting"
    <3>1. move[m].id \in move[m].affected /\ move[m].pending = {s \in move[m].affected : gate[s].inFlight > 0}
      BY <2>3 DEF MovesValid
    <3>2. \A s \in Session : gate[s].inFlight \in Nat
      BY CountsMean
    <3>3. move'[m].pending = {s \in move'[m].affected : gate'[s].inFlight > 0}
      BY <1>2, <1>8, <2>1, <3>1, <3>2
    <3> QED BY <2>1, <2>3, <3>1, <3>3
  <2> QED BY <2>2, <2>3 DEF FleetTypeOK, MoveRecord
<1> QED BY <1>7, <1>9, <1>10

-------------------------------------------------------------------------------
(***************************************************************************)
(* What the steps of the hub do to the store and the cache.                *)
(***************************************************************************)

\* A refresh copies the store's membership of the sessions it names.
LEMMA RefreshedEffect ==
  ASSUME store' \in Store, cached \in Memberships, NEW S
  PROVE  /\ Refreshed(S) \in Memberships
         /\ \A s \in Session : Refreshed(S)[s] = IF s \in S THEN store'.member[s] ELSE cached[s]
<1>1. store'.member \in [Session -> Membership] /\ cached \in [Session -> Membership]
  BY DEF Store, Memberships
<1>2. Refreshed(S) \in [Session -> Membership]
  BY <1>1 DEF Refreshed
<1>3. \A s \in Session : Refreshed(S)[s] = IF s \in S THEN store'.member[s] ELSE cached[s]
  BY DEF Refreshed
<1> QED BY <1>2, <1>3, Ids DEF Store, Memberships

\* Only workers are watched.
LEMMA RecipientsAreOperators ==
  ASSUME store \in Store, NEW s \in Session
  PROVE  /\ Recipients(s) \in SUBSET Operator
         /\ s \in Worker \/ Recipients(s) = {}
         /\ \A o \in Recipients(s) : store.member[o].ns = store.member[s].ns
BY DEF Recipients, Watchers, LiveIn, Store

\* A move that is applied assigns its session; rows stay in scope if the cache may be
\* believed about the live operators of the new namespace.
LEMMA MoveEffect ==
  ASSUME FleetTypeOK, NEW id \in Session, NEW ns \in Namespace \cup {None}, NEW expected,
         ApplyMove(id, ns, expected)
  PROVE  \/ UNCHANGED <<store, cached>>
         \/ /\ Known(id) /\ store' \in Store
            /\ cached' = Refreshed({id} \cup Followers(id))
            /\ store'.member = Assign(store, id, ns).member
            /\ RowsOf(store) /\ (\A o \in LiveIn(cached, ns) : store.member[o].ns = ns) => RowsOf(store')
<1> SUFFICES ASSUME Commits(id, expected)
             PROVE  /\ Known(id) /\ store' \in Store
                    /\ cached' = Refreshed({id} \cup Followers(id))
                    /\ store'.member = Assign(store, id, ns).member
                    /\ RowsOf(store) /\ (\A o \in LiveIn(cached, ns) : store.member[o].ns = ns)
                         => RowsOf(store')
  BY DEF ApplyMove
<1> DEFINE moved == Assign(store, id, ns)
           changed == ns # cached[id].ns
           revoked == IF changed THEN {cached[id].controller} \ {None} ELSE {}
           attached == IF changed /\ id \in Worker THEN LiveIn(cached, ns) ELSE {}
           told == Enqueue(moved, revoked, id, "revoked")
           all == Enqueue(told, attached, id, "news")
<1>1. /\ Known(id) /\ store' = all
      /\ cached' = Refreshed({id} \cup Followers(id))
  BY DEF ApplyMove, Commits
<1>2. store \in Store /\ cached \in [Session -> Membership] /\ \A o \in Operator : cached[o].controller = None
  BY DEF FleetTypeOK, Memberships
<1>3. revoked \in SUBSET Operator /\ (id \in Worker \/ revoked = {})
  BY <1>2, Ids DEF Membership
<1>4. attached \in SUBSET Operator /\ (id \in Worker \/ attached = {}) /\ attached \in SUBSET LiveIn(cached, ns)
  BY DEF LiveIn
<1>5. /\ moved \in Store /\ moved.member[id].ns = ns
      /\ \A x \in Session \ {id} : moved.member[x].ns = store.member[x].ns
      /\ RowsOf(store) => RowsOf(moved)
  BY <1>2, AssignEffect
<1> HIDE DEF moved, revoked, attached
<1>6. told \in Store /\ told.member = moved.member /\ (RowsOf(moved) => RowsOf(told))
  <2>1. LET new == Enqueue(moved, revoked, id, "revoked")
        IN /\ new \in Store
           /\ new.member = moved.member
           /\ RowsOf(moved) /\ ("revoked" = "news" => \A o \in revoked : moved.member[o].ns = moved.member[id].ns)
                => RowsOf(new)
    BY <1>3, <1>5, EnqueueEffect
  <2> QED BY <2>1
<1> HIDE DEF told
<1>7. /\ all \in Store /\ all.member = told.member
      /\ RowsOf(told) /\ (\A o \in attached : told.member[o].ns = told.member[id].ns) => RowsOf(all)
  BY <1>4, <1>6, EnqueueEffect
<1>8. ASSUME \A o \in LiveIn(cached, ns) : store.member[o].ns = ns
      PROVE  \A o \in attached : told.member[o].ns = told.member[id].ns
  <2> SUFFICES ASSUME NEW o \in attached PROVE told.member[o].ns = told.member[id].ns
    OBVIOUS
  <2>1. o \in Operator /\ o \in Session /\ o # id /\ store.member[o].ns = ns
    BY <1>4, <1>8, Ids
  <2> QED BY <1>5, <1>6, <2>1
<1> HIDE DEF all, RowsOf
<1> QED BY <1>1, <1>5, <1>6, <1>7, <1>8 DEF moved

\* What each way a release ends does.
LEMMA ReleaseEffect ==
  ASSUME NEW st \in Store, cached \in Memberships, cleanup \in SUBSET Operator,
         NEW o \in Operator, ReleaseOwner(st, o)
  PROVE  /\ store' \in Store /\ cached' \in Memberships /\ cleanup' \in SUBSET Operator
         /\ store' = st \/ store' = RemoveOwner(st, o)
         /\ cleanup' = cleanup \cup {o} \/ (cleanup' = cleanup \ {o} /\ store' = RemoveOwner(st, o))
         /\ \A s \in Session : \/ cached'[s] = cached[s]
                               \/ cached'[s] = store'.member[s]
         /\ o \notin cleanup' => \A s \in ControlledBy(o) : cached'[s] = store'.member[s]
<1>1. RemoveOwner(st, o) \in Store
  BY RemoveOwnerEffect
<1>2. store' \in Store
  BY <1>1 DEF ReleaseOwner
<1>3. \A S : /\ Refreshed(S) \in Memberships
             /\ \A s \in Session : Refreshed(S)[s] = IF s \in S THEN store'.member[s] ELSE cached[s]
  BY <1>2, RefreshedEffect
<1>4. ControlledBy(o) \in SUBSET Session
  BY Ids DEF ControlledBy
<1>5. CASE store' = RemoveOwner(st, o) /\ cached' = Refreshed(ControlledBy(o)) /\ cleanup' = cleanup \ {o}
  BY <1>2, <1>3, <1>4, <1>5
<1>6. CASE cleanup' = cleanup \cup {o} /\ store' = st /\ UNCHANGED cached
  BY <1>2, <1>6
<1>7. CASE /\ cleanup' = cleanup \cup {o} /\ store' = RemoveOwner(st, o)
           /\ \E read \in SUBSET ControlledBy(o) \ {ControlledBy(o)} : cached' = Refreshed(read)
  BY <1>2, <1>3, <1>7
<1> QED BY <1>5, <1>6, <1>7 DEF ReleaseOwner

\* A session an administrator creates is assigned; the operators told of it are those the
\* cache shows live in its namespace.
LEMMA CreateEffect ==
  ASSUME FleetTypeOK, NEW s \in Session, NEW ns \in Namespace \cup {None}, CreateSession(s, ns)
  PROVE  /\ store' \in Store /\ cached' = Refreshed({s})
         /\ store'.member = Assign(store, s, ns).member
         /\ RowsOf(store) /\ (\A o \in LiveIn(cached, ns) : store.member[o].ns = ns) => RowsOf(store')
<1> DEFINE given == Assign(store, s, ns)
           told == IF s \in Worker THEN LiveIn(cached, ns) ELSE {}
<1>1. store \in Store /\ store' = Enqueue(given, told, s, "news") /\ cached' = Refreshed({s})
  BY DEF CreateSession, FleetTypeOK
<1>2. /\ given \in Store /\ given.member[s].ns = ns
      /\ \A x \in Session \ {s} : given.member[x].ns = store.member[x].ns
      /\ RowsOf(store) => RowsOf(given)
  BY <1>1, AssignEffect
<1>3. told \in SUBSET Operator /\ told \in SUBSET LiveIn(cached, ns) /\ (s \in Worker \/ told = {})
  BY DEF LiveIn
<1> HIDE DEF given, told
<1>4. LET new == Enqueue(given, told, s, "news")
      IN /\ new \in Store
         /\ new.member = given.member
         /\ RowsOf(given) /\ ("news" = "news" => \A o \in told : given.member[o].ns = given.member[s].ns)
              => RowsOf(new)
  BY <1>2, <1>3, EnqueueEffect
<1>5. ASSUME \A o \in LiveIn(cached, ns) : store.member[o].ns = ns
      PROVE  \A o \in told : given.member[o].ns = given.member[s].ns
  <2> SUFFICES ASSUME NEW o \in told PROVE given.member[o].ns = given.member[s].ns
    OBVIOUS
  <2>1. o \in Operator /\ o \in Session /\ o # s /\ store.member[o].ns = ns
    BY <1>3, <1>5, Ids
  <2> QED BY <1>2, <2>1
<1> HIDE DEF RowsOf
<1> QED BY <1>1, <1>2, <1>4, <1>5 DEF given

\* The fork of a request is to be its owner's.
LEMMA ForkEffect ==
  ASSUME FleetTypeOK, NEW i \in Request, NEW copy \in Worker, SettleFork(i, copy)
  PROVE  /\ request[i].owner \in Operator /\ request[i].ns \in Namespace \cup {None}
         /\ store' = Started(store, request[i].owner, copy, request[i].ns)
BY DEF SettleFork, FleetTypeOK, RequestRecord

\* Every step leaves the store, the cache and the releases to repeat of their types.
LEMMA StoreTypeStep ==
  ASSUME FleetTypeOK, FleetNext
  PROVE  store' \in Store /\ cached' \in Memberships /\ cleanup' \in SUBSET Operator
<1> DEFINE Typed == store' \in Store /\ cached' \in Memberships /\ cleanup' \in SUBSET Operator
<1>1. store \in Store /\ cached \in Memberships /\ cleanup \in SUBSET Operator
  BY DEF FleetTypeOK
<1>2. ASSUME store' \in Store, NEW S, cached' = Refreshed(S), UNCHANGED cleanup PROVE Typed
  BY <1>1, <1>2, RefreshedEffect
<1>3. UNCHANGED <<store, cached, cleanup>> => Typed
  BY <1>1
<1> HIDE DEF Typed
<1>4. ASSUME NEW s \in Session, NEW ns \in Namespace \cup {None}, CreateSession(s, ns) PROVE Typed
  BY <1>2, <1>4, CreateEffect DEF CreateSession
<1>5. ASSUME NEW o \in Operator, NEW w \in Worker, StartWorker(o, w) PROVE Typed
  <2>1. cached[o].ns \in Namespace \cup {None}
    BY <1>1, Ids DEF Memberships, Membership
  <2>2. store' \in Store
    BY <1>1, <1>5, <2>1, StartedEffect DEF StartWorker
  <2> QED BY <1>2, <1>5, <2>2 DEF StartWorker
<1>6. ASSUME NEW s \in Session, Event(s) PROVE Typed
  <2>1. store' \in Store
    BY <1>1, <1>6, RecipientsAreOperators, EnqueueEffect DEF Event
  <2> QED BY <1>1, <1>6, <2>1 DEF Event, Typed
<1>7. ASSUME NEW s \in Session, Ends(s) PROVE Typed
  <2>1. Enqueue(store, Recipients(s), s, "news") \in Store
    BY <1>1, RecipientsAreOperators, EnqueueEffect
  <2>2. CASE s \in Operator
    BY <1>1, <1>7, <2>1, <2>2, ReleaseEffect DEF Ends, Typed
  <2>3. CASE s \notin Operator
    BY <1>1, <1>7, <2>1, <2>3 DEF Ends, Typed
  <2> QED BY <2>2, <2>3
<1>8. ASSUME NEW o \in Operator, RetryRelease(o) PROVE Typed
  BY <1>1, <1>8, ReleaseEffect DEF RetryRelease, Typed
<1>9. ASSUME NEW s \in Session, DeleteSession(s) PROVE Typed
  BY <1>1, <1>2, <1>9, RemoveSessionsEffect DEF DeleteSession
<1>10. ASSUME PruneOrphans PROVE Typed
  BY <1>1, <1>10, RemoveSessionsEffect DEF PruneOrphans, Typed
<1>11. ASSUME NEW m \in Move, NEW id \in Session, NEW ns \in Namespace \cup {None}, NEW expected,
              BeginMove(m, id, ns, expected)
       PROVE  Typed
  BY <1>2, <1>3, <1>11, MoveEffect DEF BeginMove
<1>12. ASSUME NEW m \in Move, EndMove(m) PROVE Typed
  <2>1. move[m].id \in Session /\ move[m].ns \in Namespace \cup {None}
    BY <1>12 DEF EndMove, FleetTypeOK, MoveRecord
  <2> QED BY <1>2, <1>3, <1>12, <2>1, MoveEffect DEF EndMove
<1>13. ASSUME NEW o \in Operator, NEW w \in Worker, ClaimWorker(o, w) PROVE Typed
  BY <1>1, <1>2, <1>13, ClaimEffect DEF ClaimWorker
<1>14. ASSUME NEW i \in Request, NEW o \in Operator, NEW w \in Worker, WatchWorker(i, o, w) PROVE Typed
  BY <1>1, <1>14, WatchEffect DEF WatchWorker, Typed
<1>15. ASSUME NEW i \in Request, Answer(i) PROVE Typed
  <2>1. request[i].worker \in Worker /\ request[i].worker \in Session
    BY <1>15, Ids DEF Answer, FleetTypeOK, RequestRecord
  <2>2. {request[i].owner} \cap Watchers(store, request[i].worker) \in SUBSET Operator
    BY DEF Watchers
  <2>3. Enqueue(store, {request[i].owner} \cap Watchers(store, request[i].worker), request[i].worker, "news") \in Store
    BY <1>1, <2>1, <2>2, EnqueueEffect
  <2> QED BY <1>1, <1>15, <2>3 DEF Answer, Typed
<1>16. ASSUME NEW i \in Request, NEW copy \in Worker, SettleFork(i, copy) PROVE Typed
  <2>1. store' \in Store
    BY <1>1, <1>16, ForkEffect, StartedEffect
  <2> QED BY <1>2, <1>16, <2>1 DEF SettleFork
<1>17. ASSUME NEW row \in Row, Ack(row) PROVE Typed
  BY <1>1, <1>17 DEF Ack, Typed, Store
<1>18. Typed
  <2>1. CASE Lifecycle
    BY <1>3, <1>4, <1>5, <1>6, <1>7, <1>8, <1>9, <1>10, <2>1 DEF Lifecycle, Ready, RestartSession, PruneSession
  <2>2. CASE Moves
    BY <1>11, <1>12, <2>2 DEF Moves
  <2>3. CASE Routes
    BY <1>3, <1>13, <1>14, <1>15, <1>16, <1>17, <2>3 DEF Routes, Mutate, Fork, Dispatch, Settle
  <2> QED BY <2>1, <2>2, <2>3 DEF FleetNext
<1> QED BY <1>18 DEF Typed

\* What a request sees of the store is of the right type.
LEMMA SeenEffect ==
  ASSUME FleetTypeOK, NEW st \in {"asked", "body", "flying"}, NEW kind \in {"watch", "mutate", "fork"},
         NEW o \in Operator, NEW w \in Worker
  PROVE  LET r == Seen(st, kind, o, w)
         IN r \in RequestRecord /\ r.owner # None /\ r.worker # None /\ r.st = st /\ r.worker = w
<1>1. store.member[o] \in Membership /\ store.member[w] \in Membership
  BY Ids DEF FleetTypeOK, Store, Memberships
<1> QED BY <1>1, Ids DEF Seen, RequestRecord, Membership

\* Where no command takes off or settles and no move begins or ends, the gates count as before.
LEMMA GatesKept ==
  ASSUME GatesCount, MovesValid, UNCHANGED <<gate, move>>,
         \A s \in Session : Flying(s)' = Flying(s)
  PROVE  GatesCount' /\ MovesValid'
BY DEF GatesCount, MovesValid, Movers

\* A move that begins closes open gates only, and waits for what is in flight.
LEMMA BeginMoveGates ==
  ASSUME FleetTypeOK, GatesCount, MovesValid, NEW m \in Move, NEW id \in Session,
         NEW ns \in Namespace \cup {None}, NEW expected \in {None, store.member[id].version},
         BeginMove(m, id, ns, expected)
  PROVE  /\ gate' \in [Session -> [inFlight : Nat, moving : BOOLEAN]]
         /\ move' \in [Move -> MoveRecord] /\ \A n \in Move : move'[n].st = "waiting" => move'[n].id # None
         /\ GatesCount' /\ MovesValid'
<1>1. \A s \in Session : Flying(s)' = Flying(s)
  BY DEF BeginMove, Flying
<1>2. CASE UNCHANGED <<gate, move>>
  BY <1>1, <1>2, GatesKept DEF FleetTypeOK
<1>3. CASE ~ UNCHANGED <<gate, move>>
  <2> DEFINE pending == {s \in Affected(id) : gate[s].inFlight > 0}
             wait == [st |-> "waiting", id |-> id, ns |-> ns, expected |-> expected,
                      affected |-> Affected(id), pending |-> pending]
  <2>1. /\ move[m].st = "free" /\ \A s \in Affected(id) : ~gate[s].moving
        /\ gate' = [s \in Session |-> IF s \in Affected(id) THEN [gate[s] EXCEPT !.moving = TRUE] ELSE gate[s]]
        /\ move' = [move EXCEPT ![m] = wait]
    BY <1>3 DEF BeginMove
  <2>2. Affected(id) \in SUBSET Session /\ id \in Affected(id)
    BY Ids DEF Affected, Followers, ControlledBy
  <2>3. expected \in Nat \cup {None}
    BY DEF FleetTypeOK, Store, Memberships, Membership
  <2>4. wait \in MoveRecord
    BY <2>2, <2>3 DEF MoveRecord
  <2>5. /\ gate' \in [Session -> [inFlight : Nat, moving : BOOLEAN]]
        /\ \A s \in Session : /\ gate'[s].inFlight = gate[s].inFlight
                              /\ gate'[s].moving = (gate[s].moving \/ s \in Affected(id))
    BY <2>1 DEF FleetTypeOK
  <2>6. /\ move' \in [Move -> MoveRecord]
        /\ move'[m] = wait /\ \A n \in Move \ {m} : move'[n] = move[n]
    BY <2>1, <2>4 DEF FleetTypeOK
  <2>7. \A s \in Session : /\ s \in Affected(id) => Movers(s)' = {m} /\ Movers(s) = {}
                           /\ s \notin Affected(id) => Movers(s)' = Movers(s)
    <3> SUFFICES ASSUME NEW s \in Session
                 PROVE  /\ s \in Affected(id) => Movers(s)' = {m} /\ Movers(s) = {}
                        /\ s \notin Affected(id) => Movers(s)' = Movers(s)
      OBVIOUS
    <3>1. s \in Affected(id) => Movers(s) = {}
      BY <2>1, CountsMean
    <3>2. Movers(s)' = IF s \in Affected(id) THEN Movers(s) \cup {m} ELSE Movers(s)
      BY <2>1, <2>6 DEF Movers
    <3> QED BY <3>1, <3>2
  <2>8. GatesCount'
    <3>1. Cardinality({m}) = 1
      BY FS_Singleton
    <3> QED BY <1>1, <2>5, <2>7, <3>1 DEF GatesCount
  <2>9. MovesValid'
    <3> SUFFICES ASSUME NEW n \in Move PROVE
           /\ move'[n].st = "free" => move'[n] = NoMove
           /\ move'[n].st = "waiting" => /\ move'[n].id \in move'[n].affected
                                         /\ move'[n].pending = {s \in move'[n].affected : gate'[s].inFlight > 0}
      BY DEF MovesValid
    <3>1. CASE n = m
      BY <2>2, <2>5, <2>6, <3>1
    <3>2. CASE n # m
      BY <2>5, <2>6, <3>2 DEF MovesValid, FleetTypeOK, MoveRecord
    <3> QED BY <3>1, <3>2
  <2> QED BY <2>2, <2>5, <2>6, <2>8, <2>9, Ids DEF FleetTypeOK
<1> QED BY <1>2, <1>3

\* A move that ends opens the gates it held and no others.
LEMMA EndMoveGates ==
  ASSUME FleetTypeOK, GatesCount, MovesValid, NEW m \in Move, EndMove(m)
  PROVE  /\ gate' \in [Session -> [inFlight : Nat, moving : BOOLEAN]]
         /\ move' \in [Move -> MoveRecord] /\ \A n \in Move : move'[n].st = "waiting" => move'[n].id # None
         /\ GatesCount' /\ MovesValid'
<1>1. /\ move[m].st = "waiting" /\ gate' = Opened(m) /\ move' = [move EXCEPT ![m] = NoMove]
      /\ \A s \in Session : Flying(s)' = Flying(s)
  BY DEF EndMove, Flying
<1>2. move[m].affected \in SUBSET Session
  BY DEF FleetTypeOK, MoveRecord
<1>3. /\ gate' \in [Session -> [inFlight : Nat, moving : BOOLEAN]]
      /\ \A s \in Session : /\ gate'[s].inFlight = gate[s].inFlight
                            /\ gate'[s].moving = (gate[s].moving /\ s \notin move[m].affected)
  BY <1>1 DEF FleetTypeOK, Opened
<1>4. NoMove \in MoveRecord /\ NoMove.st = "free"
  BY DEF NoMove, MoveRecord
<1>5. /\ move' \in [Move -> MoveRecord]
      /\ move'[m] = NoMove /\ \A n \in Move \ {m} : move'[n] = move[n]
  BY <1>1, <1>4 DEF FleetTypeOK
<1>6. \A s \in Session : /\ s \in move[m].affected => gate[s].moving /\ Movers(s)' = {}
                         /\ s \notin move[m].affected => Movers(s)' = Movers(s)
  <2> SUFFICES ASSUME NEW s \in Session
               PROVE  /\ s \in move[m].affected => gate[s].moving /\ Movers(s)' = {}
                      /\ s \notin move[m].affected => Movers(s)' = Movers(s)
    OBVIOUS
  <2>1. s \in move[m].affected => m \in Movers(s)
    BY <1>1 DEF Movers
  <2>2. Movers(s)' = Movers(s) \ {m}
    BY <1>4, <1>5 DEF Movers
  <2>3. s \notin move[m].affected => m \notin Movers(s)
    BY DEF Movers
  <2> QED BY <2>1, <2>2, <2>3, CountsMean
<1>7. GatesCount'
  <2>1. Cardinality({}) = 0
    BY FS_EmptySet
  <2>2. \A s \in Session : Cardinality(Movers(s)') = IF gate'[s].moving THEN 1 ELSE 0
    BY <1>3, <1>6, <2>1 DEF GatesCount, FleetTypeOK
  <2>3. \A s \in Session : gate'[s].inFlight = Cardinality(Flying(s)')
    BY <1>1, <1>3 DEF GatesCount
  <2> QED BY <2>2, <2>3 DEF GatesCount
<1>8. MovesValid'
  <2> SUFFICES ASSUME NEW n \in Move PROVE
         /\ move'[n].st = "free" => move'[n] = NoMove
         /\ move'[n].st = "waiting" => /\ move'[n].id \in move'[n].affected
                                       /\ move'[n].pending = {s \in move'[n].affected : gate'[s].inFlight > 0}
    BY DEF MovesValid
  <2>1. CASE n = m
    BY <1>4, <1>5, <2>1
  <2>2. CASE n # m
    BY <1>3, <1>5, <2>2 DEF MovesValid, FleetTypeOK, MoveRecord
  <2> QED BY <2>1, <2>2
<1> QED BY <1>3, <1>4, <1>5, <1>7, <1>8 DEF FleetTypeOK

\* A request that is dispatched passes an open gate and is counted, or ends.
LEMMA DispatchGates ==
  ASSUME FleetTypeOK, GatesCount, MovesValid, NEW i \in Request, Dispatch(i)
  PROVE  /\ gate' \in [Session -> [inFlight : Nat, moving : BOOLEAN]]
         /\ request' \in [Request -> RequestRecord]
         /\ \A j \in Request : request'[j].st # "free" => request'[j].owner # None /\ request'[j].worker # None
         /\ GatesCount' /\ MovesValid'
<1> DEFINE w == request[i].worker
           seen == Seen("flying", request[i].kind, request[i].owner, w)
<1>1. /\ request[i].st = "body" /\ UNCHANGED move
      /\ \/ Enter(w) /\ request' = [request EXCEPT ![i] = seen]
         \/ request' = [request EXCEPT ![i] = NoRequest] /\ UNCHANGED gate
  BY DEF Dispatch
<1>2. w \in Worker /\ w \in Session /\ request[i].owner \in Operator /\ request[i].kind \in {"watch", "mutate", "fork"}
  BY <1>1, Ids DEF FleetTypeOK, RequestRecord
<1>3. seen \in RequestRecord /\ seen.owner # None /\ seen.worker # None /\ seen.st = "flying" /\ seen.worker = w
  BY <1>2, SeenEffect
<1>4. NoRequest \in RequestRecord /\ NoRequest.st = "free"
  BY DEF NoRequest, RequestRecord
<1>5. \A s \in Session : i \notin Flying(s)
  BY <1>1 DEF Flying
<1> HIDE DEF seen
<1>6. CASE request' = [request EXCEPT ![i] = NoRequest] /\ UNCHANGED gate
  <2>1. \A s \in Session : Flying(s)' = Flying(s) \ {i}
    BY <1>4, <1>6, FlyingChange
  <2>2. GatesCount' /\ MovesValid'
    BY <1>1, <1>5, <1>6, <2>1, GatesKept
  <2> QED BY <1>4, <1>6, <2>2 DEF FleetTypeOK
<1>7. CASE Enter(w) /\ request' = [request EXCEPT ![i] = seen]
  <2>1. \A s \in Session : Flying(s)' = IF s = w THEN Flying(s) \cup {i} ELSE Flying(s)
    <3>1. \A s \in Session : Flying(s)' = IF s = w THEN Flying(s) \cup {i} ELSE Flying(s) \ {i}
      BY <1>3, <1>7, FlyingChange
    <3> QED BY <1>5, <3>1
  <2>2. ~gate[w].moving /\ gate' = [gate EXCEPT ![w].inFlight = @ + 1]
    BY <1>7 DEF Enter
  <2>3. /\ gate' \in [Session -> [inFlight : Nat, moving : BOOLEAN]]
        /\ \A s \in Session : /\ gate'[s].moving = gate[s].moving
                              /\ gate'[s].inFlight = IF s = w THEN gate[s].inFlight + 1 ELSE gate[s].inFlight
    BY <1>2, <2>2 DEF FleetTypeOK
  <2>4. Cardinality(Flying(w) \cup {i}) = Cardinality(Flying(w)) + 1
    BY <1>2, <1>5, CountsMean, FS_AddElement
  <2>5. GatesCount'
    <3>1. \A s \in Session : gate'[s].inFlight = Cardinality(Flying(s)')
      BY <1>2, <2>1, <2>3, <2>4 DEF GatesCount
    <3>2. \A s \in Session : Movers(s)' = Movers(s)
      BY <1>1 DEF Movers
    <3> QED BY <2>3, <3>1, <3>2 DEF GatesCount
  <2>6. MovesValid'
    <3> SUFFICES ASSUME NEW n \in Move, move[n].st = "waiting"
                 PROVE  move[n].pending = {s \in move[n].affected : gate'[s].inFlight > 0}
      BY <1>1 DEF MovesValid
    <3>1. w \notin move[n].affected
      BY <1>2, <2>2, CountsMean DEF Movers
    <3> QED BY <2>3, <3>1 DEF MovesValid, FleetTypeOK, MoveRecord
  <2>7. request' \in [Request -> RequestRecord]
    BY <1>3, <1>7 DEF FleetTypeOK
  <2> QED BY <1>3, <1>7, <2>3, <2>5, <2>6, <2>7 DEF FleetTypeOK
<1> QED BY <1>1, <1>6, <1>7

\* A hub that boots has its types right and its gates open.
LEMMA InitGates == FleetInit => FleetTypeOK /\ GatesCount /\ MovesValid
<1> SUFFICES ASSUME FleetInit PROVE FleetTypeOK /\ GatesCount /\ MovesValid
  OBVIOUS
<1> USE DEF FleetInit
<1>1. cached \in Memberships
  <2>1. Unassigned \in Membership /\ \A c \in [ns : Namespace, version : {1}, controller : Operator \cup {None}] : c \in Membership
    BY DEF Unassigned, Membership
  <2>2. cached \in [Session -> Membership]
    BY <2>1
  <2>3. \A o \in Operator : cached[o].controller = None
    BY Ids
  <2> QED BY <2>2, <2>3 DEF Memberships
<1>2. store \in Store
  BY <1>1 DEF Store
<1>3. gate \in [Session -> [inFlight : Nat, moving : BOOLEAN]] /\ \A s \in Session : gate[s].inFlight = 0 /\ ~gate[s].moving
  BY DEF NoGate
<1>4. request \in [Request -> RequestRecord] /\ \A i \in Request : request[i].st = "free"
  BY DEF NoRequest, RequestRecord
<1>5. move \in [Move -> MoveRecord] /\ \A m \in Move : move[m] = NoMove /\ NoMove.st = "free"
  BY DEF NoMove, MoveRecord
<1>6. FleetTypeOK
  <2>1. session \in [Session -> {"unused", "starting", "live", "ended", "deleted"}]
    OBVIOUS
  <2> QED BY <1>1, <1>2, <1>3, <1>4, <1>5, <2>1 DEF FleetTypeOK
<1>7. \A s \in Session : Flying(s) = {} /\ Movers(s) = {}
  BY <1>4, <1>5 DEF Flying, Movers
<1>8. GatesCount
  <2>1. Cardinality({}) = 0
    BY FS_EmptySet
  <2> QED BY <1>3, <1>7, <2>1 DEF GatesCount
<1>9. MovesValid
  BY <1>5 DEF MovesValid
<1> QED BY <1>6, <1>8, <1>9

\* No step leaves the types, and none miscounts a gate.
LEMMA GatesStep ==
  ASSUME FleetTypeOK, GatesCount, MovesValid, [FleetNext]_fleetVars
  PROVE  FleetTypeOK' /\ GatesCount' /\ MovesValid'
<1> DEFINE Sessions == session' \in [Session -> {"unused", "starting", "live", "ended", "deleted"}]
           Budget == ops' \in Nat /\ failures' \in Nat
           Requests == /\ request' \in [Request -> RequestRecord]
                       /\ \A i \in Request : request'[i].st # "free" => request'[i].owner # None /\ request'[i].worker # None
           Gates == /\ gate' \in [Session -> [inFlight : Nat, moving : BOOLEAN]]
                    /\ move' \in [Move -> MoveRecord] /\ \A n \in Move : move'[n].st = "waiting" => move'[n].id # None
                    /\ GatesCount' /\ MovesValid'
           Good == Sessions /\ Budget /\ Requests /\ Gates
<1>1. Spend \/ UserOp \/ NoUserOp \/ ops' = ops => ops' \in Nat
  BY DEF Spend, UserOp, NoUserOp, FleetTypeOK
<1>2. UserOp \/ NoUserOp \/ failures' = failures \/ failures' = failures + 1 => failures' \in Nat
  BY DEF UserOp, NoUserOp, FleetTypeOK
<1>3. UNCHANGED session => Sessions
  BY DEF FleetTypeOK
<1>4. \A s, st : st \in {"starting", "live", "ended", "deleted"} /\ session' = [session EXCEPT ![s] = st] => Sessions
  BY DEF FleetTypeOK
<1>5. UNCHANGED request => Requests
  BY DEF FleetTypeOK
<1>6. UNCHANGED <<gate, move>> /\ (\A s \in Session : Flying(s)' = Flying(s)) => Gates
  BY GatesKept DEF FleetTypeOK
<1>7. UNCHANGED <<request, gate, move>> => Requests /\ Gates
  BY <1>5, <1>6 DEF Flying
<1>8. ASSUME NEW i \in Request, NEW r \in RequestRecord, r.st # "free" => r.owner # None /\ r.worker # None,
             request' = [request EXCEPT ![i] = r]
      PROVE  Requests
  BY <1>8 DEF FleetTypeOK
<1>9. NoRequest \in RequestRecord /\ NoRequest.st = "free"
  BY DEF NoRequest, RequestRecord
<1>10. ASSUME NEW i \in Request, NEW r \in RequestRecord, r.st # "flying", request[i].st # "flying",
              request' = [request EXCEPT ![i] = r], UNCHANGED <<gate, move>>
       PROVE  Gates
  <2>1. \A s \in Session : Flying(s)' = Flying(s) \ {i}
    BY <1>10, FlyingChange
  <2>2. \A s \in Session : i \notin Flying(s)
    BY <1>10 DEF Flying
  <2> QED BY <1>6, <1>10, <2>1, <2>2
<1> HIDE DEF Sessions, Budget, Requests, Gates
<1>11. ASSUME Lifecycle PROVE Good
  <2>1. ASSUME NEW s \in Session, NEW ns \in Namespace \cup {None}, CreateSession(s, ns) PROVE Good
    BY <1>1, <1>2, <1>4, <1>7, <2>1 DEF CreateSession, Budget
  <2>2. ASSUME NEW s \in Session, Ready(s) \/ Event(s) \/ RestartSession(s) \/ DeleteSession(s) \/ PruneSession(s)
        PROVE  Good
    BY <1>1, <1>2, <1>3, <1>4, <1>7, <2>2
    DEF Ready, Event, RestartSession, DeleteSession, PruneSession, Budget
  <2>3. ASSUME NEW st, NEW o, ReleaseOwner(st, o) PROVE failures' = failures \/ failures' = failures + 1
    BY <2>3 DEF ReleaseOwner
  <2>4. ASSUME NEW s \in Session, Ends(s) PROVE Good
    <3>1. failures' = failures \/ failures' = failures + 1
      BY <2>3, <2>4 DEF Ends
    <3> QED BY <1>1, <1>2, <1>4, <1>7, <2>4, <3>1 DEF Ends, Budget
  <2>5. ASSUME NEW o \in Operator, NEW w \in Worker, StartWorker(o, w) PROVE Good
    BY <1>1, <1>2, <1>4, <1>7, <2>5 DEF StartWorker, Budget
  <2>6. ASSUME NEW o \in Operator, RetryRelease(o) PROVE Good
    BY <1>1, <1>2, <1>3, <1>7, <2>3, <2>6 DEF RetryRelease, Budget
  <2>7. ASSUME PruneOrphans PROVE Good
    BY <1>1, <1>2, <1>3, <1>7, <2>7 DEF PruneOrphans, Budget
  <2> QED BY <1>11, <2>1, <2>2, <2>4, <2>5, <2>6, <2>7 DEF Lifecycle
<1>12. ASSUME Moves PROVE Good
  <2>1. ASSUME NEW m \in Move, NEW id \in Session, NEW ns \in Namespace \cup {None},
               NEW expected \in {None, store.member[id].version}, BeginMove(m, id, ns, expected)
        PROVE  Good
    <3>1. Gates
      BY <2>1, BeginMoveGates DEF Gates
    <3> QED BY <1>1, <1>2, <1>3, <1>5, <2>1, <3>1 DEF BeginMove, Budget
  <2>2. ASSUME NEW m \in Move, EndMove(m) PROVE Good
    <3>1. Gates
      BY <2>2, EndMoveGates DEF Gates
    <3> QED BY <1>1, <1>2, <1>3, <1>5, <2>2, <3>1 DEF EndMove, Budget
  <2> QED BY <1>12, <2>1, <2>2 DEF Moves
<1>13. ASSUME Routes PROVE Good
  <2>1. ASSUME NEW o \in Operator, NEW w \in Worker, ClaimWorker(o, w) PROVE Good
    BY <1>1, <1>2, <1>3, <1>7, <2>1 DEF ClaimWorker, Budget
  <2>2. ASSUME NEW i \in Request, NEW o \in Operator, NEW w \in Worker, WatchWorker(i, o, w) PROVE Good
    <3>1. CASE UNCHANGED request
      BY <1>1, <1>2, <1>3, <1>7, <2>2, <3>1 DEF WatchWorker, Budget
    <3>2. CASE request' = [request EXCEPT ![i] = Seen("asked", "watch", o, w)]
      <4>1. LET r == Seen("asked", "watch", o, w)
            IN r \in RequestRecord /\ r.owner # None /\ r.worker # None /\ r.st = "asked" /\ r.worker = w
        BY SeenEffect
      <4>2. Requests /\ Gates
        BY <1>8, <1>10, <2>2, <3>2, <4>1 DEF WatchWorker
      <4> QED BY <1>1, <1>2, <1>3, <2>2, <4>2 DEF WatchWorker, Budget
    <3> QED BY <2>2, <3>1, <3>2 DEF WatchWorker
  <2>3. ASSUME NEW i \in Request, NEW o \in Operator, NEW w \in Worker, NEW kind \in {"mutate", "fork"},
               request[i].st = "free", request' = [request EXCEPT ![i] = Seen("body", kind, o, w)],
               UNCHANGED <<session, gate, move>>, UserOp
        PROVE  Good
    <3>1. LET r == Seen("body", kind, o, w)
          IN r \in RequestRecord /\ r.owner # None /\ r.worker # None /\ r.st = "body" /\ r.worker = w
      BY SeenEffect
    <3>2. Requests /\ Gates
      BY <1>8, <1>10, <2>3, <3>1
    <3> QED BY <1>1, <1>2, <1>3, <2>3, <3>2 DEF Budget
  <2>4. ASSUME NEW i \in Request, Dispatch(i) PROVE Good
    <3>1. Requests
      BY <2>4, DispatchGates DEF Requests
    <3>2. Gates
      BY <2>4, DispatchGates DEF Gates, Dispatch, FleetTypeOK
    <3> QED BY <1>1, <1>2, <1>3, <2>4, <3>1, <3>2 DEF Dispatch, Budget
  <2>5. ASSUME NEW i \in Request, request[i].st = "flying", request' = [request EXCEPT ![i] = NoRequest],
               Leave(request[i].worker)
        PROVE  Requests /\ Gates
    <3>1. Requests
      BY <1>8, <1>9, <2>5
    <3>2. /\ gate' \in [Session -> [inFlight : Nat, moving : BOOLEAN]]
          /\ GatesCount' /\ MovesValid'
      BY <2>5, LeaveStep
    <3>3. \A m \in Move : /\ move'[m] \in MoveRecord
                          /\ move'[m].st = "waiting" => move'[m].id # None
      BY <2>5 DEF Leave, FleetTypeOK, MoveRecord
    <3>4. move' \in [Move -> MoveRecord]
      BY <2>5, <3>3 DEF Leave
    <3> QED BY <3>1, <3>2, <3>3, <3>4 DEF Gates
  <2>6. ASSUME NEW i \in Request, Settle(i) PROVE Good
    BY <1>1, <1>2, <1>3, <2>5, <2>6 DEF Settle, Budget
  <2>7. ASSUME NEW i \in Request, NEW copy \in Worker, SettleFork(i, copy) PROVE Good
    BY <1>1, <1>2, <1>4, <2>5, <2>7 DEF SettleFork, Budget
  <2>8. ASSUME NEW i \in Request, Answer(i) PROVE Good
    <3>1. Requests /\ Gates
      BY <1>8, <1>9, <1>10, <2>8 DEF Answer
    <3> QED BY <1>1, <1>2, <1>3, <2>8, <3>1 DEF Answer, Budget
  <2>9. ASSUME NEW row \in Row, Ack(row) PROVE Good
    BY <1>1, <1>2, <1>3, <1>7, <2>9 DEF Ack, Budget
  <2> QED BY <1>13, <2>1, <2>2, <2>3, <2>4, <2>6, <2>7, <2>8, <2>9 DEF Routes, Mutate, Fork
<1>14. CASE FleetNext
  <2>1. Good
    BY <1>11, <1>12, <1>13, <1>14 DEF FleetNext
  <2> QED BY <1>14, <2>1, StoreTypeStep DEF FleetTypeOK, Sessions, Budget, Requests, Gates
<1>15. CASE UNCHANGED fleetVars
  <2>1. \A s \in Session : Flying(s)' = Flying(s)
    BY <1>15 DEF fleetVars, Flying
  <2> QED BY <1>15, <2>1, GatesKept DEF fleetVars, FleetTypeOK
<1> QED BY <1>14, <1>15

\* The fleet's state keeps its types, and the gates their count.
THEOREM FleetTypeCorrect == FleetSpec => [](FleetTypeOK /\ GatesCount /\ MovesValid)
<1>1. FleetTypeOK /\ GatesCount /\ MovesValid /\ [FleetNext]_fleetVars
        => (FleetTypeOK /\ GatesCount /\ MovesValid)'
  BY GatesStep
<1> QED BY <1>1, InitGates, PTL DEF FleetSpec

\* Whatever requests, answers and moves interleave, a gate counts the commands in flight to
\* its session and is held by the one move that closed it, and a move waits only for
\* commands that are in flight: none is missed and none waited for twice.
THEOREM MovesAreWokenCorrect == FleetSpec => []MovesAreWoken
<1>1. FleetTypeOK /\ GatesCount /\ MovesValid => MovesAreWoken
  <2> SUFFICES ASSUME FleetTypeOK, GatesCount, MovesValid, NEW m \in Move, NEW s \in move[m].pending
               PROVE  Flying(s) # {} /\ gate[s].moving
    BY DEF MovesAreWoken, GatesCount
  <2>1. move[m].st = "waiting" /\ s \in move[m].affected /\ gate[s].inFlight > 0 /\ s \in Session
    BY DEF MovesValid, FleetTypeOK, MoveRecord, NoMove
  <2> QED BY <2>1, CountsMean DEF Movers
<1> QED BY <1>1, FleetTypeCorrect, PTL

-------------------------------------------------------------------------------
(***************************************************************************)
(* Requests, and what a step may do to a membership.                       *)
(***************************************************************************)

\* A command waits for its body, or flies, for a worker that was once created, and a fork
\* flies for an operator that was in a namespace.
RequestsValid ==
  \A i \in Request : LET r == request[i] IN
    /\ r.st = "body" => r.kind # "watch"
    /\ r.st = "flying" \/ (r.st = "body" /\ r.kind = "mutate") => session[r.worker] # "unused"
    /\ r.st = "flying" /\ r.kind = "fork" => r.ns # None

\* No step makes a session new again.
LEMMA UsedStaysUsed ==
  ASSUME FleetTypeOK, FleetNext, NEW s \in Session, session[s] # "unused"
  PROVE  session'[s] # "unused"
<1>1. ASSUME NEW x, NEW st \in {"starting", "live", "ended", "deleted"}, session' = [session EXCEPT ![x] = st]
      PROVE  session'[s] # "unused"
  BY <1>1 DEF FleetTypeOK
<1>2. CASE UNCHANGED session
  BY <1>2
<1>3. CASE Lifecycle
  BY <1>1, <1>2, <1>3 DEF Lifecycle, CreateSession, StartWorker, Ready, Event, Ends, RetryRelease,
                          RestartSession, DeleteSession, PruneSession, PruneOrphans
<1>4. CASE Moves
  BY <1>2, <1>4 DEF Moves, BeginMove, EndMove
<1>5. CASE Routes
  BY <1>1, <1>2, <1>5 DEF Routes, ClaimWorker, WatchWorker, Mutate, Fork, Dispatch, Settle, Answer, SettleFork, Ack
<1> QED BY <1>3, <1>4, <1>5 DEF FleetNext

\* Requests stay valid.
LEMMA RequestsStep ==
  ASSUME FleetTypeOK, RequestsValid, [FleetNext]_fleetVars
  PROVE  RequestsValid'
<1> DEFINE Valid(r) == /\ r.st = "body" => r.kind # "watch"
                       /\ r.st = "flying" \/ (r.st = "body" /\ r.kind = "mutate") => session'[r.worker] # "unused"
                       /\ r.st = "flying" /\ r.kind = "fork" => r.ns # None
<1>1. \A s \in Session : session[s] # "unused" => session'[s] # "unused"
  <2>1. CASE FleetNext
    BY <2>1, UsedStaysUsed
  <2>2. CASE UNCHANGED fleetVars
    BY <2>2 DEF fleetVars
  <2> QED BY <2>1, <2>2
<1>2. \A i \in Request : Valid(request[i])
  <2> SUFFICES ASSUME NEW i \in Request PROVE Valid(request[i])
    OBVIOUS
  <2>1. request[i].st # "free" => request[i].worker \in Session
    BY Ids DEF FleetTypeOK, RequestRecord
  <2> QED BY <1>1, <2>1 DEF RequestsValid
<1>3. (\A i \in Request : Valid(request'[i])) => RequestsValid'
  BY DEF RequestsValid
<1>4. UNCHANGED request => RequestsValid'
  BY <1>2, <1>3
<1>5. ASSUME NEW i \in Request, NEW r, Valid(r), request' = [request EXCEPT ![i] = r] PROVE RequestsValid'
  <2>1. \A j \in Request : request'[j] = IF j = i THEN r ELSE request[j]
    BY <1>5 DEF FleetTypeOK
  <2> HIDE DEF Valid
  <2> QED BY <1>2, <1>3, <1>5, <2>1
<1>6. Valid(NoRequest)
  BY DEF NoRequest
<1>7. ASSUME NEW i \in Request, Dispatch(i) PROVE RequestsValid'
  <2> DEFINE r == request[i]
             flying == Seen("flying", r.kind, r.owner, r.worker)
  <2>1. CASE request' = [request EXCEPT ![i] = NoRequest]
    BY <1>5, <1>6, <2>1
  <2>2. CASE request' = [request EXCEPT ![i] = flying] /\ request' # [request EXCEPT ![i] = NoRequest]
    <3>1. /\ r.st = "body"
          /\ IF r.kind = "fork" THEN MayFork(r.owner, r.worker) ELSE StillAllowed(r)
      BY <1>7, <2>2 DEF Dispatch
    <3>2. r.worker \in Session /\ r.kind \in {"mutate", "fork"}
      BY <3>1, Ids DEF FleetTypeOK, RequestRecord, RequestsValid
    <3>3. session'[r.worker] # "unused"
      <4>1. CASE r.kind = "fork"
        BY <1>1, <3>1, <3>2, <4>1 DEF MayFork
      <4>2. CASE r.kind = "mutate"
        BY <1>2, <3>1, <4>2
      <4> QED BY <3>2, <4>1, <4>2
    <3>4. flying.st = "flying" /\ flying.kind = r.kind /\ flying.worker = r.worker /\ flying.ns = store.member[r.owner].ns
      BY DEF Seen
    <3>5. r.kind = "fork" => flying.ns # None
      BY <3>1, <3>4 DEF MayFork, MayStart
    <3> HIDE DEF flying
    <3>6. Valid(flying)
      BY <3>3, <3>4, <3>5
    <3> HIDE DEF Valid
    <3> QED BY <1>5, <2>2, <3>6
  <2> QED BY <1>7, <2>1, <2>2 DEF Dispatch
<1>8. ASSUME NEW i \in Request, NEW o \in Operator, NEW w \in Worker,
             WatchWorker(i, o, w) \/ Mutate(i, o, w) \/ Fork(i, o, w)
      PROVE  RequestsValid'
  <2>1. ASSUME NEW st, NEW kind
        PROVE  LET r == Seen(st, kind, o, w) IN r.st = st /\ r.kind = kind /\ r.worker = w
    BY DEF Seen
  <2>2. Valid(Seen("asked", "watch", o, w)) /\ Valid(Seen("body", "fork", o, w))
    BY <2>1
  <2>3. Mutate(i, o, w) => Valid(Seen("body", "mutate", o, w))
    BY <1>1, <2>1, Ids DEF Mutate, InScope, Known
  <2> HIDE DEF Valid
  <2> QED BY <1>4, <1>5, <1>8, <2>2, <2>3 DEF WatchWorker, Mutate, Fork
<1>9. ASSUME NEW i \in Request, request' = [request EXCEPT ![i] = NoRequest] PROVE RequestsValid'
  BY <1>5, <1>6, <1>9
<1> HIDE DEF Valid
<1>10. CASE Lifecycle
  BY <1>4, <1>10 DEF Lifecycle, CreateSession, StartWorker, Ready, Event, Ends, RetryRelease,
                     RestartSession, DeleteSession, PruneSession, PruneOrphans
<1>11. CASE Moves
  BY <1>4, <1>11 DEF Moves, BeginMove, EndMove
<1>12. CASE Routes
  BY <1>4, <1>7, <1>8, <1>9, <1>12 DEF Routes, ClaimWorker, Settle, Answer, SettleFork, Ack
<1>13. CASE UNCHANGED fleetVars
  BY <1>4, <1>13 DEF fleetVars
<1> QED BY <1>10, <1>11, <1>12, <1>13 DEF FleetNext

\* The one step that gives a membership another namespace is a move, of a session no command
\* is in flight to, or the creation of a session; a change raises the version, unless the
\* session is gone.
LEMMA MemberStep ==
  ASSUME FleetTypeOK, GatesCount, MovesValid, FleetNext, NEW s \in Session
  PROVE  \/ ~Known(s)'
         \/ /\ \/ store'.member[s].ns = store.member[s].ns
               \/ session[s] = "unused"
               \/ Flying(s) = {}
            /\ store'.member[s] # store.member[s] => store'.member[s].version > store.member[s].version
<1> DEFINE Held == store'.member[s].ns = store.member[s].ns \/ session[s] = "unused" \/ Flying(s) = {}
           Fresh == store'.member[s] # store.member[s] => store'.member[s].version > store.member[s].version
           Good == ~Known(s)' \/ (Held /\ Fresh)
<1>1. store \in Store
  BY DEF FleetTypeOK
<1>2. store'.member = store.member => Good
  OBVIOUS
<1>3. ASSUME NEW new, Raised(store.member, new), SameNamespaces(store.member, new), store'.member = new PROVE Good
  BY <1>3 DEF Raised, SameNamespaces
<1>4. ASSUME NEW x \in Session, NEW ns \in Namespace \cup {None}, store'.member = Assign(store, x, ns).member,
             x = s => session[s] = "unused" \/ Flying(s) = {}
      PROVE  Good
  <2>1. /\ \A y \in Session \ {x} : store'.member[y].ns = store.member[y].ns
        /\ Raised(store.member, store'.member)
    BY <1>1, <1>4, AssignEffect
  <2> QED BY <1>4, <2>1 DEF Raised
<1>5. ASSUME NEW o \in Operator, NEW w \in Worker, NEW ns \in Namespace \cup {None},
             store' = Started(store, o, w, ns), session[w] = "unused"
      PROVE  Good
  <2>1. /\ \A x \in Session \ {w} : store'.member[x] = store.member[x]
        /\ store'.member[w] # store.member[w] => store'.member[w].version > store.member[w].version
    BY <1>1, <1>5, StartedEffect
  <2> QED BY <1>5, <2>1
<1>6. ASSUME NEW S \in SUBSET Session, store' = RemoveSessions(store, S), s \in S => ~Known(s)' PROVE Good
  <2>1. \A x \in Session \ S : /\ store'.member[x].ns = store.member[x].ns
                               /\ store'.member[x] # store.member[x] =>
                                    store'.member[x].version > store.member[x].version
    BY <1>1, <1>6, RemoveSessionsEffect
  <2> QED BY <1>6, <2>1
<1>7. ASSUME NEW st \in Store, st.member = store.member, NEW o \in Operator, ReleaseOwner(st, o) PROVE Good
  <2>1. store' = st \/ store' = RemoveOwner(st, o)
    BY <1>7 DEF ReleaseOwner
  <2>2. /\ Raised(store.member, RemoveOwner(st, o).member)
        /\ SameNamespaces(store.member, RemoveOwner(st, o).member)
    BY <1>7, RemoveOwnerEffect
  <2> QED BY <1>2, <1>3, <1>7, <2>1, <2>2
<1>8. ASSUME NEW id \in Session, NEW ns \in Namespace \cup {None}, NEW expected, ApplyMove(id, ns, expected),
             Flying(id) = {}
      PROVE  Good
  <2>1. store'.member = store.member \/ store'.member = Assign(store, id, ns).member
    BY <1>8, MoveEffect
  <2> QED BY <1>2, <1>4, <1>8, <2>1
<1> HIDE DEF Good
<1>9. ASSUME NEW x \in Session, NEW ns \in Namespace \cup {None}, CreateSession(x, ns) PROVE Good
  BY <1>4, <1>9, CreateEffect DEF CreateSession
<1>10. ASSUME NEW o \in Operator, NEW w \in Worker, StartWorker(o, w) PROVE Good
  <2>1. cached[o].ns \in Namespace \cup {None}
    BY Ids DEF FleetTypeOK, Memberships, Membership
  <2> QED BY <1>5, <1>10, <2>1 DEF StartWorker
<1>11. ASSUME NEW x \in Session PROVE LET told == Enqueue(store, Recipients(x), x, "news")
                                      IN  told \in Store /\ told.member = store.member
  BY <1>1, RecipientsAreOperators, EnqueueEffect
<1>12. ASSUME NEW x \in Session, Event(x) PROVE Good
  BY <1>2, <1>11, <1>12 DEF Event
<1>13. ASSUME NEW x \in Session, Ends(x) PROVE Good
  BY <1>2, <1>7, <1>11, <1>13 DEF Ends
<1>14. ASSUME NEW o \in Operator, RetryRelease(o) PROVE Good
  BY <1>1, <1>7, <1>14 DEF RetryRelease
<1>15. ASSUME NEW x \in Session, DeleteSession(x) PROVE Good
  <2>1. x = s => ~Known(s)'
    BY <1>15 DEF DeleteSession, Known, FleetTypeOK
  <2> QED BY <1>6, <1>15, <2>1 DEF DeleteSession
<1>16. ASSUME PruneOrphans PROVE Good
  <2> DEFINE orphans == {x \in Session : ~Known(x) /\ store.member[x] # Unassigned}
  <2>1. s \in orphans => ~Known(s)'
    BY <1>16 DEF PruneOrphans, Known
  <2>2. orphans \in SUBSET Session /\ store' = RemoveSessions(store, orphans)
    BY <1>16 DEF PruneOrphans
  <2> HIDE DEF orphans
  <2> QED BY <1>6, <2>1, <2>2
<1>17. ASSUME NEW m \in Move, NEW id \in Session, NEW ns \in Namespace \cup {None}, NEW expected,
              BeginMove(m, id, ns, expected)
       PROVE  Good
  <2>1. CASE ApplyMove(id, ns, expected) /\ {x \in Affected(id) : gate[x].inFlight > 0} = {}
    <3>1. Flying(id) = {}
      BY <2>1, CountsMean DEF Affected
    <3> QED BY <1>8, <2>1, <3>1
  <2>2. CASE UNCHANGED store
    BY <1>2, <2>2
  <2> QED BY <1>17, <2>1, <2>2 DEF BeginMove
<1>18. ASSUME NEW m \in Move, EndMove(m) PROVE Good
  <2>1. move[m].id \in Session /\ move[m].ns \in Namespace \cup {None}
    BY <1>18 DEF EndMove, FleetTypeOK, MoveRecord
  <2>2. Flying(move[m].id) = {}
    BY <1>18, <2>1, CountsMean DEF EndMove, AllSettled, MovesValid
  <2> QED BY <1>8, <1>18, <2>1, <2>2 DEF EndMove
<1>19. ASSUME NEW o \in Operator, NEW w \in Worker, ClaimWorker(o, w) PROVE Good
  <2>1. Raised(store.member, Claim(store, w, o).member) /\ SameNamespaces(store.member, Claim(store, w, o).member)
    BY <1>1, ClaimEffect
  <2> QED BY <1>3, <1>19, <2>1 DEF ClaimWorker
<1>20. ASSUME NEW i \in Request, NEW o \in Operator, NEW w \in Worker, WatchWorker(i, o, w) PROVE Good
  BY <1>1, <1>2, <1>20, WatchEffect DEF WatchWorker
<1>21. ASSUME NEW i \in Request, Answer(i) PROVE Good
  BY <1>1, <1>2, <1>21 DEF Answer, Enqueue, Store
<1>22. ASSUME NEW i \in Request, NEW copy \in Worker, SettleFork(i, copy) PROVE Good
  BY <1>5, <1>22, ForkEffect DEF SettleFork
<1>23. ASSUME NEW row \in Row, Ack(row) PROVE Good
  BY <1>1, <1>2, <1>23 DEF Ack, Store
<1>24. Good
  <2>1. CASE Lifecycle
    BY <1>2, <1>9, <1>10, <1>12, <1>13, <1>14, <1>15, <1>16, <2>1
    DEF Lifecycle, Ready, RestartSession, PruneSession
  <2>2. CASE Moves
    BY <1>17, <1>18, <2>2 DEF Moves
  <2>3. CASE Routes
    BY <1>2, <1>19, <1>20, <1>21, <1>22, <1>23, <2>3 DEF Routes, Mutate, Fork, Dispatch, Settle
  <2> QED BY <2>1, <2>2, <2>3 DEF FleetNext
<1> QED BY <1>24 DEF Good

\* Types, gates and requests together.
Access == FleetTypeOK /\ GatesCount /\ MovesValid /\ RequestsValid

\* They hold together from the boot on.
LEMMA AccessCorrect == FleetSpec => []Access
<1>1. FleetInit => RequestsValid
  BY DEF FleetInit, RequestsValid, NoRequest
<1>2. FleetTypeOK /\ RequestsValid /\ [FleetNext]_fleetVars => RequestsValid'
  BY RequestsStep
<1>3. FleetSpec => []RequestsValid
  BY <1>1, <1>2, FleetTypeCorrect, PTL DEF FleetSpec
<1>4. FleetTypeOK /\ GatesCount /\ MovesValid /\ RequestsValid => Access
  BY DEF Access
<1> QED BY <1>3, <1>4, FleetTypeCorrect, PTL

\* While a command accepted in a namespace is in flight to a session, no step, of a move or
\* of anybody else, gives the session another namespace.
THEOREM FenceHoldsCorrect == FleetSpec => FenceHolds
<1>1. Access /\ [FleetNext]_fleetVars
        => [\A s \in Session : Flying(s) # {} /\ Known(s)' => store'.member[s].ns = store.member[s].ns]_fleetVars
  <2> SUFFICES ASSUME Access, FleetNext, NEW s \in Session, Flying(s) # {}, Known(s)'
               PROVE  store'.member[s].ns = store.member[s].ns
    BY DEF fleetVars
  <2>1. session[s] # "unused"
    BY DEF Flying, Access, RequestsValid
  <2> QED BY <2>1, MemberStep DEF Access
<1> QED BY <1>1, AccessCorrect, PTL DEF FleetSpec, FenceHolds

\* Every change of the membership of a session that stays raises its version, so that a
\* handler that finds the version it saw before an await finds the membership it saw.
THEOREM VersionFencesCorrect == FleetSpec => VersionFences
<1>1. Access /\ [FleetNext]_fleetVars
        => [\A s \in Session : Known(s)' /\ store'.member[s] # store.member[s] =>
              store'.member[s].version > store.member[s].version]_fleetVars
  <2> SUFFICES ASSUME Access, FleetNext, NEW s \in Session, Known(s)', store'.member[s] # store.member[s]
               PROVE  store'.member[s].version > store.member[s].version
    BY DEF fleetVars
  <2> QED BY MemberStep DEF Access
<1> QED BY <1>1, AccessCorrect, PTL DEF FleetSpec, VersionFences

-------------------------------------------------------------------------------
(***************************************************************************)
(* Control, the cache and the rows.  Control needs what requests have      *)
(* seen, the cache needs control, and the rows need the cache.             *)
(***************************************************************************)

\* Every step leaves a worker under nobody's control, or under that of a live operator of its
\* namespace, or of one whose release is to be repeated.
LEMMA ControlStep ==
  ASSUME Access, ControllerInScope, FleetNext
  PROVE  ControllerInScope'
<1> DEFINE Scoped(w, o) == \/ o \in cleanup'
                           \/ /\ session'[o] = "live"
                              /\ store'.member[w].ns # None /\ store'.member[o].ns = store'.member[w].ns
           Kept(w, o) == /\ store.member[w].controller = o
                         /\ store'.member[w].ns = store.member[w].ns /\ store'.member[o].ns = store.member[o].ns
                         /\ session[o] = "live" => session'[o] = "live"
                         /\ o \in cleanup => o \in cleanup'
<1>1. FleetTypeOK /\ store \in Store /\ \A s \in Session : store.member[s] \in Membership
  BY DEF Access, FleetTypeOK, Store, Memberships
<1>2. \A w \in Worker : LET o == store.member[w].controller
                        IN  o # None => /\ o \in Operator /\ o \in Session /\ w \in Session /\ o # w
                                        /\ session[o] = "unused" => o \in cleanup
  BY <1>1, Ids DEF Membership, ControllerInScope
<1>3. ASSUME \A w \in Worker : LET o == store'.member[w].controller
                               IN  o # None => Scoped(w, o) \/ Kept(w, o)
      PROVE  ControllerInScope'
  BY <1>3 DEF ControllerInScope
<1>4. ASSUME NEW s, NEW st, session' = [session EXCEPT ![s] = st], session[s] # "live" \/ st = "live"
      PROVE  \A o \in Operator : session[o] = "live" => session'[o] = "live"
  BY <1>1, <1>4, Ids DEF FleetTypeOK
<1>5. ASSUME store'.member = store.member, cleanup' = cleanup,
             \A o \in Operator : session[o] = "live" => session'[o] = "live"
      PROVE  ControllerInScope'
  BY <1>2, <1>5 DEF ControllerInScope
<1>6. ASSUME NEW s \in Session, NEW ns \in Namespace \cup {None}, store'.member = Assign(store, s, ns).member,
             cleanup' = cleanup, \A o \in Operator : session[o] = "live" => session'[o] = "live"
      PROVE  ControllerInScope'
  <2>1. /\ \A x \in Session \ {s} : store'.member[x].ns = store.member[x].ns
        /\ NoneClaimed(store.member, store'.member)
        /\ \/ store'.member = store.member
           \/ store'.member[s].controller = None /\ \A x \in Session : store'.member[x].controller # s
    BY <1>1, <1>6, AssignEffect
  <2>2. CASE store'.member = store.member
    BY <1>5, <1>6, <2>2
  <2>3. CASE store'.member[s].controller = None /\ \A x \in Session : store'.member[x].controller # s
    <3> SUFFICES ASSUME NEW w \in Worker, store'.member[w].controller # None
                 PROVE  Kept(w, store'.member[w].controller)
      BY <1>3
    <3>1. w \in Session /\ w # s /\ store'.member[w].controller # s
      BY <2>3, Ids
    <3>2. store'.member[w].controller = store.member[w].controller
      BY <2>1, <3>1 DEF NoneClaimed
    <3> QED BY <1>2, <1>6, <2>1, <3>1, <3>2
  <2> QED BY <2>1, <2>2, <2>3
<1>7. ASSUME NEW o \in Operator, NEW w \in Worker, NEW ns \in Namespace \cup {None},
             store' = Started(store, o, w, ns), cleanup' = cleanup,
             session[w] = "unused", session' = [session EXCEPT ![w] = "starting"],
             session[o] = "live", ns # None, store.member[o].ns = ns
      PROVE  ControllerInScope'
  <2>1. /\ store'.member[w].ns = ns /\ store'.member[w].controller = o
        /\ \A x \in Session \ {w} : store'.member[x] = store.member[x]
    BY <1>1, <1>7, StartedEffect
  <2>2. \A x \in Operator : session[x] = "live" => session'[x] = "live"
    BY <1>4, <1>7
  <2>3. o \in Session /\ o # w
    BY Ids
  <2>4. Scoped(w, o)
    BY <1>7, <2>1, <2>2, <2>3
  <2>5. ASSUME NEW v \in Worker, v # w, store'.member[v].controller # None
        PROVE  Kept(v, store'.member[v].controller)
    <3>1. store'.member[v] = store.member[v] /\ store.member[v].controller \in Operator
      BY <1>2, <2>1, <2>5, Ids
    <3>2. store'.member[store.member[v].controller] = store.member[store.member[v].controller]
      BY <2>1, <3>1, Ids
    <3> QED BY <1>7, <2>2, <3>1, <3>2
  <2> HIDE DEF Scoped, Kept
  <2> QED BY <1>3, <2>1, <2>4, <2>5
<1>8. ASSUME NEW S \in SUBSET Session, store' = RemoveSessions(store, S), cleanup' = cleanup,
             \A o \in Operator \ S : session[o] = "live" => session'[o] = "live"
      PROVE  ControllerInScope'
  <2>1. /\ \A x \in Session : store'.member[x].controller \notin S
        /\ \A x \in S : store'.member[x] = Unassigned
        /\ \A x \in Session \ S : store'.member[x].ns = store.member[x].ns
        /\ NoneClaimed(store.member, store'.member)
    BY <1>1, <1>8, RemoveSessionsEffect
  <2> SUFFICES ASSUME NEW w \in Worker, store'.member[w].controller # None
               PROVE  Kept(w, store'.member[w].controller)
    BY <1>3
  <2>2. w \in Session \ S /\ store'.member[w].controller = store.member[w].controller
    BY <2>1, Ids DEF Unassigned, NoneClaimed
  <2>3. store.member[w].controller \in Operator \ S /\ store.member[w].controller \in Session \ S
    BY <1>2, <2>1, <2>2
  <2> QED BY <1>8, <2>1, <2>2, <2>3
<1>9. ASSUME NEW st \in Store, st.member = store.member, NEW o \in Operator, ReleaseOwner(st, o),
             \A x \in Operator \ {o} : session[x] = "live" => session'[x] = "live"
      PROVE  ControllerInScope'
  <2>1. /\ store' = st \/ store' = RemoveOwner(st, o)
        /\ cleanup' = cleanup \cup {o} \/ (cleanup' = cleanup \ {o} /\ store' = RemoveOwner(st, o))
    BY <1>1, <1>9, ReleaseEffect DEF FleetTypeOK
  <2>2. LET new == RemoveOwner(st, o)
        IN /\ \A s \in Session : new.member[s].controller # o
           /\ NoneClaimed(store.member, new.member) /\ SameNamespaces(store.member, new.member)
    BY <1>9, RemoveOwnerEffect
  <2>3. NoneClaimed(store.member, store'.member) /\ SameNamespaces(store.member, store'.member)
    BY <1>9, <2>1, <2>2 DEF NoneClaimed, SameNamespaces
  <2>4. \A s \in Session : store'.member[s].controller = o => o \in cleanup'
    BY <2>1, <2>2
  <2>5. ASSUME NEW w \in Worker, store'.member[w].controller # None
        PROVE  Scoped(w, store'.member[w].controller) \/ Kept(w, store'.member[w].controller)
    <3>1. w \in Session /\ store'.member[w].controller = store.member[w].controller
      BY <2>3, <2>5, Ids DEF NoneClaimed
    <3>2. CASE store'.member[w].controller = o
      BY <2>4, <3>1, <3>2
    <3>3. CASE store'.member[w].controller # o
      BY <1>2, <1>9, <2>1, <2>3, <2>5, <3>1, <3>3 DEF SameNamespaces
    <3> QED BY <3>2, <3>3
  <2> HIDE DEF Scoped, Kept
  <2> QED BY <1>3, <2>5
<1> HIDE DEF Scoped, Kept
<1>10. ASSUME NEW id \in Session, NEW ns \in Namespace \cup {None}, NEW expected, ApplyMove(id, ns, expected),
              UNCHANGED <<session, cleanup>>
       PROVE  ControllerInScope'
  BY <1>1, <1>5, <1>6, <1>10, MoveEffect
<1>11. ASSUME NEW s \in Session, NEW ns \in Namespace \cup {None}, CreateSession(s, ns) PROVE ControllerInScope'
  <2>1. \A o \in Operator : session[o] = "live" => session'[o] = "live"
    BY <1>4, <1>11 DEF CreateSession
  <2> QED BY <1>1, <1>6, <1>11, <2>1, CreateEffect DEF CreateSession
<1>12. ASSUME NEW o \in Operator, NEW w \in Worker, StartWorker(o, w) PROVE ControllerInScope'
  <2>1. cached[o].ns \in Namespace \cup {None}
    BY <1>1, Ids DEF FleetTypeOK, Memberships, Membership
  <2>2. session[o] = "live" /\ cached[o].ns # None /\ store.member[o].ns = cached[o].ns
    BY <1>12 DEF StartWorker, MayStart
  <2> QED BY <1>7, <1>12, <2>1, <2>2 DEF StartWorker
<1>13. ASSUME NEW s \in Session PROVE LET told == Enqueue(store, Recipients(s), s, "news")
                                      IN  told \in Store /\ told.member = store.member
  BY <1>1, RecipientsAreOperators, EnqueueEffect
<1>14. ASSUME NEW s \in Session, Event(s) PROVE ControllerInScope'
  BY <1>5, <1>13, <1>14 DEF Event
<1>15. ASSUME NEW s \in Session, Ready(s) \/ RestartSession(s) \/ PruneSession(s) PROVE ControllerInScope'
  <2>1. \A o \in Operator : session[o] = "live" => session'[o] = "live"
    BY <1>4, <1>15 DEF Ready, RestartSession, PruneSession
  <2> QED BY <1>5, <1>15, <2>1 DEF Ready, RestartSession, PruneSession
<1>16. ASSUME NEW s \in Session, Ends(s) PROVE ControllerInScope'
  <2>1. session' = [session EXCEPT ![s] = "ended"]
    BY <1>16 DEF Ends
  <2>2. \A x \in Operator \ {s} : session'[x] = session[x]
    BY <1>1, <2>1, Ids DEF FleetTypeOK
  <2>3. CASE s \in Operator
    BY <1>9, <1>13, <1>16, <2>2, <2>3 DEF Ends
  <2>4. CASE s \notin Operator
    BY <1>5, <1>13, <1>16, <2>2, <2>4 DEF Ends
  <2> QED BY <2>3, <2>4
<1>17. ASSUME NEW o \in Operator, RetryRelease(o) PROVE ControllerInScope'
  BY <1>1, <1>9, <1>17 DEF RetryRelease
<1>18. ASSUME NEW s \in Session, DeleteSession(s) PROVE ControllerInScope'
  <2>1. \A x \in Operator \ {s} : session'[x] = session[x]
    BY <1>1, <1>18, Ids DEF FleetTypeOK, DeleteSession
  <2> QED BY <1>8, <1>18, <2>1 DEF DeleteSession
<1>19. ASSUME PruneOrphans PROVE ControllerInScope'
  <2> DEFINE orphans == {x \in Session : ~Known(x) /\ store.member[x] # Unassigned}
  <2>1. orphans \in SUBSET Session /\ store' = RemoveSessions(store, orphans) /\ UNCHANGED <<session, cleanup>>
    BY <1>19 DEF PruneOrphans
  <2> HIDE DEF orphans
  <2> QED BY <1>8, <2>1
<1>20. ASSUME NEW m \in Move, NEW id \in Session, NEW ns \in Namespace \cup {None}, NEW expected,
              BeginMove(m, id, ns, expected)
       PROVE  ControllerInScope'
  BY <1>5, <1>10, <1>20 DEF BeginMove
<1>21. ASSUME NEW m \in Move, EndMove(m) PROVE ControllerInScope'
  <2>1. move[m].id \in Session /\ move[m].ns \in Namespace \cup {None}
    BY <1>1, <1>21 DEF EndMove, FleetTypeOK, MoveRecord
  <2> QED BY <1>10, <1>21, <2>1 DEF EndMove
<1>22. ASSUME NEW o \in Operator, NEW w \in Worker, ClaimWorker(o, w) PROVE ControllerInScope'
  <2>1. /\ store'.member[w].controller = o
        /\ \A x \in Session \ {w} : store'.member[x] = store.member[x]
        /\ SameNamespaces(store.member, store'.member)
    BY <1>1, <1>22, ClaimEffect DEF ClaimWorker
  <2>2. Scoped(w, o)
    BY <1>22, <2>1, Ids DEF ClaimWorker, InScope, OperatorReady, SameNamespaces, Scoped
  <2>3. ASSUME NEW v \in Worker, v # w, store'.member[v].controller # None
        PROVE  Kept(v, store'.member[v].controller)
    BY <1>2, <1>22, <2>1, <2>3, Ids DEF ClaimWorker, SameNamespaces, Kept
  <2> QED BY <1>3, <2>1, <2>2, <2>3
<1>23. ASSUME NEW i \in Request, NEW o \in Operator, NEW w \in Worker, WatchWorker(i, o, w) PROVE ControllerInScope'
  BY <1>1, <1>5, <1>23, WatchEffect DEF WatchWorker
<1>24. ASSUME NEW i \in Request, Answer(i) PROVE ControllerInScope'
  <2>1. store'.member = store.member
    BY <1>1, <1>24 DEF Answer, Enqueue, Store
  <2> QED BY <1>5, <1>24, <2>1 DEF Answer
<1>25. ASSUME NEW i \in Request, NEW copy \in Worker, SettleFork(i, copy) PROVE ControllerInScope'
  <2> DEFINE r == request[i]
  <2>1. r.owner \in Operator /\ r.ns \in Namespace \cup {None} /\ store' = Started(store, r.owner, copy, r.ns)
    BY <1>1, <1>25, ForkEffect
  <2>2. r.ns # None
    BY <1>25 DEF SettleFork, Access, RequestsValid
  <2> QED BY <1>7, <1>25, <2>1, <2>2 DEF SettleFork
<1>26. ASSUME NEW row \in Row, Ack(row) PROVE ControllerInScope'
  <2>1. store'.member = store.member
    BY <1>1, <1>26 DEF Ack, Store
  <2> QED BY <1>5, <1>26, <2>1 DEF Ack
<1>27. CASE Lifecycle
  BY <1>11, <1>12, <1>14, <1>15, <1>16, <1>17, <1>18, <1>19, <1>27 DEF Lifecycle
<1>28. CASE Moves
  BY <1>20, <1>21, <1>28 DEF Moves
<1>29. CASE Routes
  <2>1. UNCHANGED <<session, store, cleanup>> => ControllerInScope'
    BY <1>5
  <2> QED BY <1>22, <1>23, <1>24, <1>25, <1>26, <1>29, <2>1 DEF Routes, Mutate, Fork, Dispatch, Settle
<1> QED BY <1>27, <1>28, <1>29 DEF FleetNext

\* Whatever moves, claims, ends and failed releases interleave, a worker is controlled by a
\* live operator of its own namespace, or by one whose release the store refused and a sweep
\* will repeat.
THEOREM ControllerInScopeCorrect == FleetSpec => []ControllerInScope
<1>1. FleetInit => ControllerInScope
  <2> SUFFICES ASSUME FleetInit, NEW w \in Worker, store.member[w].controller # None
               PROVE  LET o == store.member[w].controller
                      IN  session[o] = "live" /\ store.member[w].ns # None /\ store.member[o].ns = store.member[w].ns
    BY DEF ControllerInScope
  <2> DEFINE o == cached[w].controller
  <2>1. w \in Session /\ store.member = cached
    BY Ids DEF FleetInit
  <2>2. session[o] = "live" /\ cached[o].ns = cached[w].ns
    BY <2>1 DEF FleetInit
  <2>3. o \in Operator
    BY <2>1 DEF FleetInit, Unassigned
  <2>4. cached[o].ns # None
    BY <2>2, <2>3 DEF FleetInit
  <2> QED BY <2>1, <2>2, <2>4
<1>2. Access /\ ControllerInScope /\ [FleetNext]_fleetVars => ControllerInScope'
  BY ControlStep DEF fleetVars, ControllerInScope
<1> QED BY <1>1, <1>2, AccessCorrect, PTL DEF FleetSpec

\* Every step leaves the registry's membership of a session that stays equal to the store's,
\* or names a controller whose release is to be repeated.
LEMMA CacheStep ==
  ASSUME Access, ControllerInScope, CacheFollows, FleetNext
  PROVE  CacheFollows'
<1> DEFINE Follows(s) == cached'[s] = store'.member[s] \/ cached'[s].controller \in cleanup'
<1>1. /\ FleetTypeOK /\ store \in Store /\ cached \in Memberships /\ cleanup \in SUBSET Operator
      /\ \A s \in Session : /\ store.member[s] \in Membership /\ cached[s] \in Membership
                            /\ store.member[s].controller # None => s \in Worker
                            /\ cached[s].controller # None => s \in Worker
  BY Ids DEF Access, FleetTypeOK, Store, Memberships
<1>2. (\A s \in Session : Known(s)' => Follows(s)) => CacheFollows'
  BY DEF CacheFollows
<1>3. ASSUME NEW s \in Session, NEW o, store.member[s].controller = o, o \in Session, ~Known(o)
      PROVE  o \in cleanup
  BY <1>1, <1>3, Ids DEF ControllerInScope, Known
<1>4. ASSUME \A s \in Session : Known(s)' => Known(s), UNCHANGED <<cached, cleanup>>, store'.member = store.member
      PROVE  CacheFollows'
  BY <1>2, <1>4 DEF CacheFollows
<1>5. ASSUME NEW S \in SUBSET Session, store' \in Store, cached' = Refreshed(S), UNCHANGED cleanup,
             \A s \in Session \ S : Known(s)' => /\ Known(s)
                                                 /\ \/ store'.member[s] = store.member[s]
                                                    \/ store.member[s].controller \in cleanup
                                                    \/ cached[s] # store.member[s]
      PROVE  CacheFollows'
  <2> SUFFICES ASSUME NEW s \in Session, Known(s)' PROVE Follows(s)
    BY <1>2
  <2>1. cached'[s] = IF s \in S THEN store'.member[s] ELSE cached[s]
    BY <1>1, <1>5, RefreshedEffect
  <2>2. CASE s \in S
    BY <2>1, <2>2
  <2>3. CASE s \notin S
    BY <1>5, <2>1, <2>3 DEF CacheFollows
  <2> QED BY <2>2, <2>3
<1>6. ASSUME NEW o \in Operator, NEW w \in Worker, NEW ns \in Namespace \cup {None},
             store' = Started(store, o, w, ns), cached' = Refreshed({w}), UNCHANGED cleanup,
             session' = [session EXCEPT ![w] = "starting"]
      PROVE  CacheFollows'
  <2>1. store' \in Store /\ \A x \in Session \ {w} : store'.member[x] = store.member[x]
    BY <1>1, <1>6, StartedEffect
  <2>2. \A x \in Session \ {w} : Known(x)' = Known(x)
    BY <1>1, <1>6 DEF Known, FleetTypeOK
  <2> QED BY <1>5, <1>6, <2>1, <2>2, Ids
<1>7. ASSUME NEW st \in Store, st.member = store.member, NEW o \in Operator, ReleaseOwner(st, o),
             \A s \in Session : Known(s)' => Known(s)
      PROVE  CacheFollows'
  <2>1. /\ store' = st \/ store' = RemoveOwner(st, o)
        /\ cleanup' = cleanup \cup {o} \/ (cleanup' = cleanup \ {o} /\ store' = RemoveOwner(st, o))
        /\ \A s \in Session : cached'[s] = cached[s] \/ cached'[s] = store'.member[s]
        /\ o \notin cleanup' => \A s \in ControlledBy(o) : cached'[s] = store'.member[s]
    BY <1>1, <1>7, ReleaseEffect
  <2>2. \A s \in Session : store.member[s].controller # o => RemoveOwner(st, o).member[s] = store.member[s]
    BY <1>7, RemoveOwnerEffect
  <2>3. \A s \in Session : store.member[s].controller # o => store'.member[s] = store.member[s]
    BY <1>7, <2>1, <2>2
  <2> SUFFICES ASSUME NEW s \in Session, Known(s)' PROVE Follows(s)
    BY <1>2
  <2>4. Known(s) /\ (cached[s] = store.member[s] \/ cached[s].controller \in cleanup)
    BY <1>7 DEF CacheFollows
  <2>5. CASE cached[s].controller = o
    <3>1. s \in ControlledBy(o)
      BY <1>1, <2>4, <2>5, Ids DEF ControlledBy
    <3>2. o \in cleanup' \/ cached'[s] = store'.member[s]
      BY <2>1, <3>1
    <3> QED BY <2>1, <2>5, <3>2
  <2>6. CASE cached[s].controller # o
    <3>1. cached[s].controller \in cleanup => cached[s].controller \in cleanup'
      BY <2>1, <2>6
    <3>2. cached[s] = store.member[s] => store'.member[s] = cached[s]
      BY <2>3, <2>6
    <3> QED BY <2>1, <2>4, <3>1, <3>2
  <2> QED BY <2>5, <2>6
<1>8. ASSUME NEW id \in Session, NEW ns \in Namespace \cup {None}, NEW expected, ApplyMove(id, ns, expected),
             UNCHANGED <<session, cleanup>>
      PROVE  CacheFollows'
  <2>1. CASE UNCHANGED <<store, cached>>
    BY <1>4, <1>8, <2>1 DEF Known
  <2>2. CASE /\ store' \in Store /\ cached' = Refreshed({id} \cup Followers(id))
             /\ store'.member = Assign(store, id, ns).member
    <3>1. {id} \cup Followers(id) \in SUBSET Session
      BY Ids DEF Followers, ControlledBy
    <3>2. \A x \in Session : store.member[x].controller # id /\ x # id => store'.member[x] = store.member[x]
      BY <1>1, <2>2, AssignEffect
    <3>3. ASSUME NEW x \in Session, x \notin {id} \cup Followers(id), Known(x), store'.member[x] # store.member[x]
          PROVE  cached[x] # store.member[x]
      <4>1. store.member[x].controller = id /\ id \in Operator /\ x \in Worker
        BY <1>1, <3>2, <3>3, Ids DEF Membership
      <4> QED BY <3>3, <4>1 DEF Followers, ControlledBy
    <3>4. \A x \in Session : Known(x)' = Known(x)
      BY <1>8 DEF Known
    <3> HIDE DEF Follows
    <3> QED BY <1>5, <1>8, <2>2, <3>1, <3>3, <3>4
  <2> QED BY <1>1, <1>8, <2>1, <2>2, MoveEffect
<1>9. ASSUME NEW s \in Session, NEW ns \in Namespace \cup {None}, CreateSession(s, ns) PROVE CacheFollows'
  <2>1. /\ store' \in Store /\ cached' = Refreshed({s}) /\ UNCHANGED cleanup
        /\ store'.member = Assign(store, s, ns).member
    BY <1>1, <1>9, CreateEffect DEF CreateSession
  <2>2. \A x \in Session : store.member[x].controller # s /\ x # s => store'.member[x] = store.member[x]
    BY <1>1, <2>1, AssignEffect
  <2>3. session' = [session EXCEPT ![s] = "starting"] /\ ~Known(s)
    BY <1>9 DEF CreateSession, Known
  <2>4. \A x \in Session \ {s} : Known(x)' = Known(x)
    BY <1>1, <2>3 DEF Known, FleetTypeOK
  <2>5. \A x \in Session : store.member[x].controller = s => s \in cleanup
    BY <1>3, <2>3
  <2> QED BY <1>5, <2>1, <2>2, <2>4, <2>5
<1>10. ASSUME NEW o \in Operator, NEW w \in Worker, StartWorker(o, w) PROVE CacheFollows'
  <2>1. cached[o].ns \in Namespace \cup {None}
    BY <1>1, Ids DEF Membership
  <2> QED BY <1>6, <1>10, <2>1 DEF StartWorker
<1>11. ASSUME NEW s \in Session PROVE LET told == Enqueue(store, Recipients(s), s, "news")
                                      IN  told \in Store /\ told.member = store.member
  BY <1>1, RecipientsAreOperators, EnqueueEffect
<1>12. ASSUME NEW s \in Session, Event(s) PROVE CacheFollows'
  BY <1>4, <1>11, <1>12 DEF Event, Known
<1>13. ASSUME NEW s \in Session, Ready(s) \/ RestartSession(s) \/ PruneSession(s) PROVE CacheFollows'
  <2>1. \A x \in Session : Known(x)' => Known(x)
    BY <1>1, <1>13 DEF Ready, RestartSession, PruneSession, Known, FleetTypeOK
  <2> QED BY <1>4, <1>13, <2>1 DEF Ready, RestartSession, PruneSession
<1>14. ASSUME NEW s \in Session, Ends(s) PROVE CacheFollows'
  <2>1. \A x \in Session : Known(x)' => Known(x)
    BY <1>1, <1>14 DEF Ends, Known, FleetTypeOK
  <2>2. CASE s \in Operator
    BY <1>7, <1>11, <1>14, <2>1, <2>2 DEF Ends
  <2>3. CASE s \notin Operator
    BY <1>4, <1>11, <1>14, <2>1, <2>3 DEF Ends
  <2> QED BY <2>2, <2>3
<1>15. ASSUME NEW o \in Operator, RetryRelease(o) PROVE CacheFollows'
  BY <1>1, <1>7, <1>15 DEF RetryRelease, Known
<1>16. ASSUME NEW s \in Session, DeleteSession(s) PROVE CacheFollows'
  <2>1. \A x \in Session : Known(x)' => Known(x) /\ x # s
    BY <1>1, <1>16 DEF DeleteSession, Known, FleetTypeOK
  <2>2. /\ store' \in Store
        /\ \A x \in Session \ {s} : store.member[x].controller \notin {s} => store'.member[x] = store.member[x]
    BY <1>1, <1>16, RemoveSessionsEffect DEF DeleteSession
  <2>3. ASSUME NEW x \in Session \ Followers(s), Known(x), x # s, store'.member[x] # store.member[x]
        PROVE  cached[x] # store.member[x]
    <3>1. store.member[x].controller = s /\ s \in Operator /\ x \in Worker
      BY <1>1, <2>2, <2>3, Ids DEF Membership
    <3> QED BY <2>3, <3>1 DEF Followers, ControlledBy
  <2>4. Followers(s) \in SUBSET Session
    BY Ids DEF Followers, ControlledBy
  <2> QED BY <1>5, <1>16, <2>1, <2>2, <2>3, <2>4 DEF DeleteSession
<1>17. ASSUME PruneOrphans PROVE CacheFollows'
  <2> DEFINE orphans == {x \in Session : ~Known(x) /\ store.member[x] # Unassigned}
  <2>1. /\ orphans \in SUBSET Session /\ store' = RemoveSessions(store, orphans)
        /\ UNCHANGED <<session, cached, cleanup>> /\ \A x \in orphans : ~Known(x)
    BY <1>17 DEF PruneOrphans
  <2> HIDE DEF orphans
  <2>2. \A x \in Session \ orphans : store.member[x].controller \notin orphans => store'.member[x] = store.member[x]
    BY <1>1, <2>1, RemoveSessionsEffect
  <2> SUFFICES ASSUME NEW s \in Session, Known(s)' PROVE Follows(s)
    BY <1>2
  <2>3. Known(s) /\ s \notin orphans
    BY <2>1 DEF Known
  <2>4. CASE store.member[s].controller \in orphans
    <3>1. store.member[s].controller \in cleanup
      BY <1>3, <2>1, <2>4
    <3> QED BY <2>1, <2>3, <3>1 DEF CacheFollows
  <2>5. CASE store.member[s].controller \notin orphans
    BY <2>1, <2>2, <2>3, <2>5 DEF CacheFollows
  <2> QED BY <2>4, <2>5
<1>18. ASSUME NEW m \in Move, NEW id \in Session, NEW ns \in Namespace \cup {None}, NEW expected,
              BeginMove(m, id, ns, expected)
       PROVE  CacheFollows'
  BY <1>4, <1>8, <1>18 DEF BeginMove, Known
<1>19. ASSUME NEW m \in Move, EndMove(m) PROVE CacheFollows'
  <2>1. move[m].id \in Session /\ move[m].ns \in Namespace \cup {None}
    BY <1>1, <1>19 DEF EndMove, FleetTypeOK, MoveRecord
  <2> QED BY <1>8, <1>19, <2>1 DEF EndMove
<1>20. ASSUME NEW o \in Operator, NEW w \in Worker, ClaimWorker(o, w) PROVE CacheFollows'
  <2>1. store' \in Store /\ \A x \in Session \ {w} : store'.member[x] = store.member[x]
    BY <1>1, <1>20, ClaimEffect DEF ClaimWorker
  <2>2. \A x \in Session : Known(x)' = Known(x)
    BY <1>20 DEF ClaimWorker, Known
  <2> QED BY <1>5, <1>20, <2>1, <2>2, Ids DEF ClaimWorker
<1>21. ASSUME NEW i \in Request, NEW o \in Operator, NEW w \in Worker, WatchWorker(i, o, w) PROVE CacheFollows'
  BY <1>1, <1>4, <1>21, WatchEffect DEF WatchWorker, Known
<1>22. ASSUME NEW i \in Request, Answer(i) PROVE CacheFollows'
  <2>1. store'.member = store.member
    BY <1>1, <1>22 DEF Answer, Enqueue, Store
  <2> QED BY <1>4, <1>22, <2>1 DEF Answer, Known
<1>23. ASSUME NEW i \in Request, NEW copy \in Worker, SettleFork(i, copy) PROVE CacheFollows'
  BY <1>1, <1>6, <1>23, ForkEffect DEF SettleFork
<1>24. ASSUME NEW row \in Row, Ack(row) PROVE CacheFollows'
  <2>1. store'.member = store.member
    BY <1>1, <1>24 DEF Ack, Store
  <2> QED BY <1>4, <1>24, <2>1 DEF Ack, Known
<1>25. CASE Lifecycle
  BY <1>9, <1>10, <1>12, <1>13, <1>14, <1>15, <1>16, <1>17, <1>25 DEF Lifecycle
<1>26. CASE Moves
  BY <1>18, <1>19, <1>26 DEF Moves
<1>27. CASE Routes
  <2>1. UNCHANGED <<session, store, cached, cleanup>> => CacheFollows'
    BY <1>4 DEF Known
  <2> QED BY <1>20, <1>21, <1>22, <1>23, <1>24, <1>27, <2>1 DEF Routes, Mutate, Fork, Dispatch, Settle
<1> QED BY <1>25, <1>26, <1>27 DEF FleetNext

\* The registry, from which the panel and the hub's own checks read, shows the membership of
\* the store whatever path changed it, except where a refused release is to be repeated.
THEOREM CacheFollowsCorrect == FleetSpec => []CacheFollows
<1>1. FleetInit => CacheFollows
  BY DEF FleetInit, CacheFollows
<1>2. Access /\ ControllerInScope /\ CacheFollows /\ [FleetNext]_fleetVars => CacheFollows'
  BY CacheStep DEF fleetVars, CacheFollows, Known
<1> QED BY <1>1, <1>2, AccessCorrect, ControllerInScopeCorrect, PTL DEF FleetSpec

\* Whom the registry shows live in a namespace is there in the store too: nobody controls an
\* operator, so no release can be pending for one.
LEMMA LiveInIsCurrent ==
  ASSUME FleetTypeOK, CacheFollows, NEW ns
  PROVE  \A o \in LiveIn(cached, ns) : store.member[o].ns = ns
<1> SUFFICES ASSUME NEW o \in LiveIn(cached, ns) PROVE store.member[o].ns = ns
  OBVIOUS
<1>1. o \in Operator /\ o \in Session /\ Known(o) /\ cached[o].ns = ns
  BY Ids DEF LiveIn, Known
<1>2. cached[o].controller = None /\ None \notin cleanup
  BY <1>1, Ids DEF FleetTypeOK, Memberships
<1> QED BY <1>1, <1>2 DEF CacheFollows

\* Every step leaves watches and news within a namespace.
LEMMA RowsStep ==
  ASSUME Access, CacheFollows, RowsOf(store), FleetNext
  PROVE  RowsOf(store')
<1>1. FleetTypeOK /\ store \in Store
  BY DEF Access, FleetTypeOK
<1>2. UNCHANGED store => RowsOf(store')
  OBVIOUS
<1>3. ASSUME NEW st \in Store, RowsOf(st), NEW o \in Operator, ReleaseOwner(st, o) PROVE RowsOf(store')
  BY <1>3, RemoveOwnerEffect DEF ReleaseOwner
<1>4. ASSUME NEW s \in Session PROVE LET told == Enqueue(store, Recipients(s), s, "news")
                                     IN  told \in Store /\ RowsOf(told)
  BY <1>1, RecipientsAreOperators, EnqueueEffect
<1>5. ASSUME NEW id \in Session, NEW ns \in Namespace \cup {None}, NEW expected, ApplyMove(id, ns, expected)
      PROVE  RowsOf(store')
  BY <1>1, <1>2, <1>5, MoveEffect, LiveInIsCurrent
<1>6. ASSUME NEW s \in Session, NEW ns \in Namespace \cup {None}, CreateSession(s, ns) PROVE RowsOf(store')
  BY <1>1, <1>6, CreateEffect, LiveInIsCurrent
<1>7. ASSUME NEW o \in Operator, NEW w \in Worker, StartWorker(o, w) PROVE RowsOf(store')
  <2>1. cached[o].ns \in Namespace \cup {None}
    BY <1>1, Ids DEF FleetTypeOK, Memberships, Membership
  <2> QED BY <1>1, <1>7, <2>1, StartedEffect DEF StartWorker, MayStart
<1>8. ASSUME NEW s \in Session, Event(s) \/ Ends(s) PROVE RowsOf(store')
  BY <1>3, <1>4, <1>8 DEF Event, Ends
<1>9. ASSUME NEW o \in Operator, RetryRelease(o) PROVE RowsOf(store')
  BY <1>1, <1>3, <1>9 DEF RetryRelease
<1>10. ASSUME NEW S \in SUBSET Session, store' = RemoveSessions(store, S) PROVE RowsOf(store')
  BY <1>1, <1>10, RemoveSessionsEffect
<1>11. ASSUME NEW m \in Move, EndMove(m) PROVE RowsOf(store')
  <2>1. move[m].id \in Session /\ move[m].ns \in Namespace \cup {None}
    BY <1>1, <1>11 DEF EndMove, FleetTypeOK, MoveRecord
  <2> QED BY <1>5, <1>11, <2>1 DEF EndMove
<1>12. ASSUME NEW o \in Operator, NEW w \in Worker, ClaimWorker(o, w) PROVE RowsOf(store')
  <2>1. /\ SameNamespaces(store.member, store'.member)
        /\ store'.watches = store.watches /\ store'.inbox = store.inbox
    BY <1>1, <1>12, ClaimEffect DEF ClaimWorker
  <2>2. /\ \A p \in store.watches : p[1] \in Session /\ p[2] \in Session
        /\ \A r \in store.inbox : r.owner \in Session /\ r.session \in Session
    BY <1>1, Ids DEF Store, Row
  <2> QED BY <2>1, <2>2 DEF RowsOf, SameNamespaces
<1>13. ASSUME NEW i \in Request, NEW o \in Operator, NEW w \in Worker, WatchWorker(i, o, w) PROVE RowsOf(store')
  BY <1>1, <1>13, WatchEffect DEF WatchWorker, InScope
<1>14. ASSUME NEW i \in Request, Answer(i) PROVE RowsOf(store')
  <2> DEFINE r == request[i]
             owners == {r.owner} \cap Watchers(store, r.worker)
  <2>1. r.worker \in Worker /\ r.worker \in Session
    BY <1>1, <1>14, Ids DEF Answer, FleetTypeOK, RequestRecord
  <2>2. owners \in SUBSET Operator /\ \A o \in owners : store.member[o].ns = store.member[r.worker].ns
    BY DEF Watchers, RowsOf
  <2>3. store' = store \/ store' = Enqueue(store, owners, r.worker, "news")
    BY <1>14 DEF Answer
  <2> HIDE DEF owners, r
  <2>4. RowsOf(Enqueue(store, owners, r.worker, "news"))
    BY <1>1, <2>1, <2>2, EnqueueEffect
  <2> QED BY <2>3, <2>4
<1>15. ASSUME NEW i \in Request, NEW copy \in Worker, SettleFork(i, copy) PROVE RowsOf(store')
  BY <1>1, <1>15, ForkEffect, StartedEffect DEF SettleFork
<1>16. ASSUME NEW row \in Row, Ack(row) PROVE RowsOf(store')
  BY <1>1, <1>16 DEF Ack, Store, RowsOf
<1>17. CASE Lifecycle
  <2>1. ASSUME NEW s \in Session, DeleteSession(s) PROVE RowsOf(store')
    BY <1>10, <2>1 DEF DeleteSession
  <2>2. ASSUME PruneOrphans PROVE RowsOf(store')
    BY <1>10, <2>2 DEF PruneOrphans
  <2> QED BY <1>2, <1>6, <1>7, <1>8, <1>9, <1>17, <2>1, <2>2 DEF Lifecycle, Ready, RestartSession, PruneSession
<1>18. CASE Moves
  BY <1>2, <1>5, <1>11, <1>18 DEF Moves, BeginMove
<1>19. CASE Routes
  BY <1>2, <1>12, <1>13, <1>14, <1>15, <1>16, <1>19 DEF Routes, Mutate, Fork, Dispatch, Settle
<1> QED BY <1>17, <1>18, <1>19 DEF FleetNext

\* Nobody ever watches, or has unread news of, a session of another namespace: not after a
\* move, nor after an answer, a fork or an event that a move overtook.
THEOREM RowsInScopeCorrect == FleetSpec => []RowsInScope
<1>1. RowsInScope <=> RowsOf(store)
  BY DEF RowsInScope, RowsOf
<1>2. FleetInit => RowsOf(store)
  BY DEF FleetInit, RowsOf
<1>3. Access /\ CacheFollows /\ RowsOf(store) /\ [FleetNext]_fleetVars => RowsOf(store)'
  BY RowsStep DEF fleetVars
<1> QED BY <1>1, <1>2, <1>3, AccessCorrect, CacheFollowsCorrect, PTL DEF FleetSpec
===============================================================================
