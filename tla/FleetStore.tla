------------------------------ MODULE FleetStore ------------------------------
(***************************************************************************)
(* The durable store of the fleet (packages/hub/src/fleet-state.ts): which *)
(* namespace a session belongs to, which operator controls it, who watches *)
(* it, and the unread events of each operator.  A store is a record; every *)
(* operator below is one transaction, a function from store to store.      *)
(***************************************************************************)
EXTENDS Naturals

CONSTANTS
  Operator,   \* superagent sessions
  Worker,     \* the other sessions
  Namespace,
  None        \* no namespace, no controller

ASSUME FleetAssumption ==
  /\ Operator \cap Worker = {}
  /\ None \notin Operator \cup Worker \cup Namespace

Session == Operator \cup Worker

\* "revoked" is namespace_revoked, the only event that crosses namespaces.
Row == [owner : Operator, session : Worker, kind : {"news", "revoked"}]

Membership == [ns : Namespace \cup {None}, version : Nat, controller : Operator \cup {None}]
Memberships == {m \in [Session -> Membership] : \A o \in Operator : m[o].controller = None}
Store == [member : Memberships, watches : SUBSET (Operator \X Worker), inbox : SUBSET Row]

\* Also what membership answers for a session without a row.
Unassigned == [ns |-> None, version |-> 0, controller |-> None]

NoWatchOf(watches, S) == {p \in watches : {p[1], p[2]} \cap S = {}}
NoRowOf(inbox, S) == {r \in inbox : {r.owner, r.session} \cap S = {}}

\* UPDATE memberships SET controller_id = NULL, version = version + 1 WHERE controller_id ...
Uncontrolled(member, S) ==
  [s \in Session |-> IF member[s].controller \in S
                     THEN [ns |-> member[s].ns, version |-> member[s].version + 1, controller |-> None]
                     ELSE member[s]]

Moved(member, s, ns) ==
  Uncontrolled([member EXCEPT ![s] = [ns |-> ns, version |-> @.version + 1, controller |-> None]], {s})

Assign(st, s, ns) ==
  IF st.member[s].ns = ns THEN st
  ELSE [member |-> Moved(st.member, s, ns),
        watches |-> NoWatchOf(st.watches, {s}), inbox |-> NoRowOf(st.inbox, {s})]

Claimable(st, w, o) == st.member[w].ns # None /\ st.member[w].controller \in {None, o}

\* Mutant: control changes hands under the same version.
ClaimQuietly(st, w, o) == [st EXCEPT !.member[w].controller = o]

Claim(st, w, o) ==
  IF st.member[w].controller = o THEN st
  ELSE [st EXCEPT !.member[w] = [ns |-> @.ns, version |-> @.version + 1, controller |-> o]]

Watch(st, o, w) == [st EXCEPT !.watches = @ \cup {<<o, w>>}]

\* enqueueFor and enqueue: recipients are chosen by the callers.
Enqueue(st, owners, s, kind) ==
  [st EXCEPT !.inbox = @ \cup {[owner |-> o, session |-> s, kind |-> kind] : o \in owners}]

Watchers(st, s) == {o \in Operator : <<o, s>> \in st.watches}

\* Mutant: the operator's workers stay under its control.
RemoveOwnerOnly(st, o) ==
  [st EXCEPT !.watches = {p \in @ : p[1] # o}, !.inbox = {r \in @ : r.owner # o}]

RemoveOwner(st, o) ==
  [member |-> Uncontrolled(st.member, {o}),
   watches |-> {p \in st.watches : p[1] # o},
   inbox |-> {r \in st.inbox : r.owner # o}]

\* removeSession of each, which is also what pruneOrphans does.
RemoveSessions(st, S) ==
  [member |-> [s \in Session |-> IF s \in S THEN Unassigned ELSE Uncontrolled(st.member, S)[s]],
   watches |-> NoWatchOf(st.watches, S), inbox |-> NoRowOf(st.inbox, S)]
===============================================================================
