----------------------------- MODULE RequestBook -----------------------------
(***************************************************************************)
(* What the hub promises the callers of sendCmd (packages/hub/src/         *)
(* agents.ts: "settles", "never rejects") and what they may conclude from  *)
(* an outcome: a request is settled once and for good; an answer means     *)
(* that it was carried out, a refusal that it was not and never will be,   *)
(* and an unknown outcome neither.                                         *)
(***************************************************************************)
CONSTANT Request

VARIABLES outcome, done

bookVars == <<outcome, done>>

Outcome == {"none", "open", "answered", "refused", "unknown"}

BookInit ==
  /\ outcome = [q \in Request |-> "none"]
  /\ done = [q \in Request |-> FALSE]

Same(f, q) == f'[q] = f[q]

Opens(q) == outcome[q] = "none" /\ outcome'[q] = "open" /\ Same(done, q)

\* At most once, and never after a refusal.
CarriedOut(q) ==
  /\ outcome[q] \in {"open", "unknown"} /\ Same(outcome, q)
  /\ ~done[q] /\ done'[q]

Settles(q) ==
  /\ outcome[q] = "open" \/ (outcome[q] = "none" /\ outcome'[q] = "refused")
  /\ outcome'[q] \in {"answered", "refused", "unknown"}
  /\ outcome'[q] = "answered" => done[q]
  /\ outcome'[q] = "refused" => ~done[q]
  /\ Same(done, q)

Stays(q) == Same(outcome, q) /\ Same(done, q)

\* One event may concern many requests: a connection that breaks settles all it carried.
BookNext ==
  /\ outcome' \in [Request -> Outcome]
  /\ done' \in [Request -> BOOLEAN]
  /\ \A q \in Request : Stays(q) \/ Opens(q) \/ CarriedOut(q) \/ Settles(q)

BookSpec == BookInit /\ [][BookNext]_bookVars
===============================================================================
