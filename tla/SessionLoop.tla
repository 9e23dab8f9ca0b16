------------------------------ MODULE SessionLoop ------------------------------
(***************************************************************************)
(* The prompt loop of one session (packages/agent/src/session-loop.ts): it *)
(* submits its prompt again after every turn until a budget or a condition *)
(* ends it.  An iteration is one action, but for the await of its          *)
(* condition, which splits it: loop commands, turns and timers come in     *)
(* between.  `lost` is a history variable: the last kick led nowhere.      *)
(***************************************************************************)
EXTENDS Naturals

CONSTANTS
  Prompt,
  NoPrompt,
  MaxIterations,  \* bound: the largest iteration budget
  MaxOps,         \* bound: loop commands
  MaxTurns,       \* bound: turns and compactions the loop has not asked for
  LateVerdict,    \* whether an evaluation may answer after its signal was aborted
  Rejects         \* whether the session may reject a prompt

ASSUME LoopAssumption ==
  /\ NoPrompt \notin Prompt
  /\ Prompt \cap {"idle", "user", "work"} = {}
  /\ MaxIterations \in Nat \ {0}
  /\ MaxOps \in Nat /\ MaxTurns \in Nat
  /\ LateVerdict \in BOOLEAN /\ Rejects \in BOOLEAN

VARIABLES
  loop,        \* #enabled, #paused, #prompt, #limit and what is left of it, #condition
  timer,       \* whether #pending is set
  gate,        \* the iteration that awaits its condition (#iterating), if any
  session,     \* "idle", "user" (a user's turn), the prompt of the loop's turn, or
               \* "work" (compaction and post-prompt work: busy, and ends silently)
  subscribed,  \* not disposed
  lost, ops, turns

loopVars == <<loop, timer, gate, session, subscribed, lost, ops, turns>>
counters == <<ops, turns>>

Limit == [kind : {"none", "duration"}, n : {0}] \cup [kind : {"iterations"}, n : 1..MaxIterations]

LoopRecord ==
  [enabled : BOOLEAN, paused : BOOLEAN, prompt : Prompt \cup {NoPrompt}, conditional : BOOLEAN,
   limit : Limit, left : 0..MaxIterations, expired : BOOLEAN]

GateRecord == [open : BOOLEAN, prompt : Prompt \cup {NoPrompt}, aborted : BOOLEAN]

\* left and expired are read under their own kind of limit only.
Off == [enabled |-> FALSE, paused |-> FALSE, prompt |-> NoPrompt, conditional |-> FALSE,
        limit |-> [kind |-> "none", n |-> 0], left |-> 0, expired |-> FALSE]

NoGate == [open |-> FALSE, prompt |-> NoPrompt, aborted |-> FALSE]

Ready == loop.enabled /\ ~loop.paused /\ loop.prompt # NoPrompt
Busy == session # "idle"
InTurn == session \in Prompt \cup {"user"}

LoopInit ==
  /\ loop = Off
  /\ timer = FALSE
  /\ gate = NoGate
  /\ session = "idle"
  /\ subscribed = TRUE
  /\ lost = FALSE /\ ops = 0 /\ turns = 0

\* #schedule
Kick == timer' = TRUE /\ lost' = FALSE

\* #abortCondition
AbortGate == gate' = [gate EXCEPT !.aborted = gate.open]

\* #teardown
Teardown == loop' = Off /\ timer' = FALSE /\ lost' = FALSE
-------------------------------------------------------------------------------
(***************************************************************************)
(* Loop commands.  A stopping session answers none.                        *)
(***************************************************************************)
Command == subscribed /\ ops < MaxOps /\ ops' = ops + 1 /\ UNCHANGED <<session, turns>>

\* An enable without a prompt leaves a timer that is set alone.
Enable(prompt, limit, conditional) ==
  /\ Command
  /\ loop' = [enabled |-> TRUE, paused |-> FALSE, prompt |-> prompt, conditional |-> conditional,
              limit |-> limit, left |-> limit.n, expired |-> FALSE]
  /\ AbortGate
  /\ IF prompt # NoPrompt THEN Kick ELSE UNCHANGED <<timer, lost>>
  /\ UNCHANGED subscribed

Disable ==
  /\ Command
  /\ loop.enabled
  /\ Teardown /\ AbortGate
  /\ UNCHANGED subscribed

Pause ==
  /\ Command
  /\ loop.enabled /\ ~loop.paused
  /\ loop' = [loop EXCEPT !.paused = TRUE]
  /\ timer' = FALSE
  /\ AbortGate
  /\ UNCHANGED <<lost, subscribed>>

Resume ==
  /\ Command
  /\ loop.enabled /\ loop.paused
  /\ loop' = [loop EXCEPT !.paused = FALSE]
  /\ IF loop.prompt # NoPrompt THEN Kick ELSE UNCHANGED <<timer, lost>>
  /\ UNCHANGED <<gate, subscribed>>

\* The session shuts down.
Dispose ==
  /\ Command
  /\ subscribed' = FALSE
  /\ loop' = [loop EXCEPT !.enabled = FALSE]
  /\ timer' = FALSE
  /\ AbortGate
  /\ UNCHANGED lost

(***************************************************************************)
(* Iterations.                                                             *)
(***************************************************************************)
Defer == Busy /\ Kick /\ UNCHANGED <<loop, session>>

\* Mutant: a budget that is never used up.
SubmitFree(prompt) ==
  /\ UNCHANGED loop
  /\ \/ session' = prompt /\ lost' = FALSE
     \/ Rejects /\ UNCHANGED session /\ lost' = TRUE

\* A rejected prompt is logged and starts no turn.
Submit(prompt) ==
  /\ loop' = IF loop.limit.kind = "iterations" THEN [loop EXCEPT !.left = @ - 1] ELSE loop
  /\ \/ session' = prompt /\ lost' = FALSE
     \/ Rejects /\ UNCHANGED session /\ lost' = TRUE

Exhausted == loop.limit.kind = "iterations" /\ loop.left = 0
Expired == loop.limit.kind = "duration" /\ loop.expired

\* The timer fires: #iterate, up to the await of a condition.
Iterate ==
  /\ timer
  /\ \/ /\ gate.open
        /\ timer' = FALSE /\ lost' = TRUE
        /\ UNCHANGED <<loop, gate, session>>
     \/ /\ ~gate.open /\ ~Ready
        /\ timer' = FALSE
        /\ UNCHANGED <<loop, gate, session, lost>>
     \/ ~gate.open /\ Ready /\ Defer /\ UNCHANGED gate
     \/ /\ ~gate.open /\ Ready /\ ~Busy
        /\ Expired \/ Exhausted
        /\ Teardown
        /\ UNCHANGED <<gate, session>>
     \/ /\ ~gate.open /\ Ready /\ ~Busy /\ ~Expired /\ ~Exhausted
        /\ timer' = FALSE
        /\ IF loop.conditional
           THEN /\ gate' = [open |-> TRUE, prompt |-> loop.prompt, aborted |-> FALSE]
                /\ UNCHANGED <<loop, session, lost>>
           ELSE Submit(loop.prompt) /\ UNCHANGED gate
  /\ UNCHANGED <<subscribed, counters>>

Verdicts == IF gate.aborted /\ ~LateVerdict THEN {"aborted"}
            ELSE IF gate.aborted THEN {"aborted", "continue", "halt"}
            ELSE {"continue", "halt"}

\* Mutant: what held before the await is taken to hold after it.
GoOnUnchecked == Submit(gate.prompt) /\ UNCHANGED timer

\* Mutant: an iteration that finds the session busy again is not tried again.
GoOnOrDrop ==
  \/ Busy /\ UNCHANGED <<loop, timer, session, lost>>
  \/ ~Busy /\ Exhausted /\ Teardown /\ UNCHANGED session
  \/ ~Busy /\ ~Exhausted /\ Submit(gate.prompt) /\ UNCHANGED timer

\* The condition lets the iteration go on: what was checked before the await is
\* checked again, but for the deadline.
GoOn ==
  \/ Defer
  \/ ~Busy /\ Exhausted /\ Teardown /\ UNCHANGED session
  \/ ~Busy /\ ~Exhausted /\ Submit(gate.prompt) /\ UNCHANGED timer

\* The evaluation answers: the rest of #iterate.
GateEnds(verdict) ==
  /\ gate.open
  /\ gate' = NoGate
  /\ \/ /\ ~Ready \/ verdict = "aborted" \/ (verdict = "continue" /\ gate.prompt # loop.prompt)
        /\ UNCHANGED <<loop, timer, session, lost>>
     \/ Ready /\ verdict = "halt" /\ Teardown /\ UNCHANGED session
     \/ Ready /\ verdict = "continue" /\ gate.prompt = loop.prompt /\ GoOn
  /\ UNCHANGED <<subscribed, counters>>

(***************************************************************************)
(* The session and the clock.                                              *)
(***************************************************************************)

\* A terminal agent_end; post-prompt work may follow.
TurnEnds ==
  /\ InTurn
  /\ session' \in {"idle", "work"}
  /\ IF subscribed THEN Kick ELSE UNCHANGED <<timer, lost>>
  /\ UNCHANGED <<loop, gate, subscribed, counters>>

WorkEnds ==
  /\ session = "work"
  /\ session' = "idle"
  /\ UNCHANGED <<loop, timer, gate, subscribed, lost, counters>>

\* A user prompts, or the session compacts.
OthersBegin ==
  /\ ~Busy
  /\ turns < MaxTurns
  /\ turns' = turns + 1
  /\ session' \in {"user", "work"}
  /\ UNCHANGED <<loop, timer, gate, subscribed, lost, ops>>

DeadlinePasses ==
  /\ loop.limit.kind = "duration" /\ ~loop.expired
  /\ loop' = [loop EXCEPT !.expired = TRUE]
  /\ UNCHANGED <<timer, gate, session, subscribed, lost, counters>>
-------------------------------------------------------------------------------
Commands ==
  \/ \E prompt \in Prompt \cup {NoPrompt}, limit \in Limit, conditional \in BOOLEAN :
       Enable(prompt, limit, conditional)
  \/ Disable \/ Pause \/ Resume \/ Dispose

LoopNext ==
  \/ Commands
  \/ Iterate \/ \E verdict \in Verdicts : GateEnds(verdict)
  \/ TurnEnds \/ WorkEnds \/ OthersBegin \/ DeadlinePasses

LoopSpec == LoopInit /\ [][LoopNext]_loopVars

\* Timers fire, an evaluation ends (it has a timeout), and so does whatever keeps
\* the session busy.
FairLoopSpec ==
  LoopSpec /\ WF_loopVars(Iterate) /\ WF_loopVars(\E verdict \in Verdicts : GateEnds(verdict))
    /\ WF_loopVars(TurnEnds) /\ WF_loopVars(WorkEnds)
-------------------------------------------------------------------------------
\* Types of the loop and its session; what is left of a budget never drops below zero.
LoopTypeOK ==
  /\ loop \in LoopRecord
  /\ timer \in BOOLEAN /\ subscribed \in BOOLEAN /\ lost \in BOOLEAN
  /\ gate \in GateRecord
  /\ session \in {"idle", "user", "work"} \cup Prompt
  /\ ops \in 0..MaxOps /\ turns \in 0..MaxTurns

\* An iteration never cuts into a turn or a compaction, never runs for a loop that
\* was stopped, paused or given another prompt while its condition was checked, and
\* never runs over the iteration budget: "the pre-await checks are stale"
\* (session-loop.ts, #iterate).
FreshIteration ==
  [][session' \in Prompt /\ session' # session =>
       ~Busy /\ Ready /\ session' = loop.prompt /\ ~Exhausted]_loopVars

\* A running loop always has a cause of its next iteration: a timer, a turn that will
\* end, or a condition that is being checked for it.  The exceptions are a kick that
\* met an iteration in flight and a rejected prompt.
NeverStalls ==
  Ready => timer \/ InTurn \/ (gate.open /\ ~gate.aborted) \/ lost

\* With the same exceptions, a loop with an iteration budget ends, however turns and
\* compactions interfere: "exhaustion/expiry disables the loop" (docs/protocol.md).
Budgeted == Ready /\ loop.limit.kind = "iterations"
BudgetRunsOut == Budgeted ~> ~Budgeted \/ lost
===============================================================================
