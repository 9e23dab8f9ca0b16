----------------------------- MODULE InputBridge -----------------------------
(***************************************************************************)
(* The questions a headless session asks                                   *)
(* (packages/agent/src/ui-bridge.ts): a dialog is a chain of requests,     *)
(* each with an id of its own, and each is settled once, by a fleet        *)
(* controller's command, a writable guest of the collab room, or the abort *)
(* of the turn.  A checkbox dialog asks again after every toggle.          *)
(*                                                                         *)
(* Labels are abstracted to what they make the dialog do; one dialog is    *)
(* open at a time.  The room (CollabHost) is external and open (without it *)
(* a request is denied at once and announced to nobody); it tells the      *)
(* bridge what its guests chose.                                           *)
(***************************************************************************)
EXTENDS Integers, Sequences, FiniteSets

CONSTANTS
  Request,     \* 1..n: the request ids of a run, in the order they are minted
  Option,      \* the labels of a question
  MaxAnswers   \* bound: commands that answer a request

ASSUME BridgeAssumption == Request \subseteq Nat

VARIABLES
  ask,      \* the open dialog
  minted,   \* how many requests there have been; the last one is pending while ask is open
  result,   \* how each request was settled: by a controller with what, or otherwise
  told,     \* the answer a controller was told was accepted, per request
  answers,  \* controllers' commands on their way
  sent      \* how many there have been

bridgeVars == <<ask, minted, result, told, answers, sent>>

NoAsk == [open |-> FALSE]
Ask(multi, stage, selected) == [open |-> TRUE, multi |-> multi, stage |-> stage, selected |-> selected]
Unsettled == [by |-> "nobody"]
Otherwise == [by |-> "other"]
Untold == [answered |-> FALSE]

BridgeInit ==
  /\ ask = NoAsk /\ minted = 0
  /\ result = [r \in Request |-> Unsettled]
  /\ told = [r \in Request |-> Untold]
  /\ answers = {} /\ sent = 0

\* The labels of the pending request; Next only once something is chosen.
Offered ==
  IF ~ask.open THEN {}
  ELSE IF ask.stage = "editor" THEN {"text"}
  ELSE Option \cup {"other", "chat"} \cup (IF ask.multi /\ ask.selected # {} THEN {"next"} ELSE {})

Toggled(x) == IF x \in ask.selected THEN ask.selected \ {x} ELSE ask.selected \cup {x}

\* What the dialog does with an answer; "none" is a cancellation.  A cancelled editor
\* shows the options again, anything else that is not a toggle ends the dialog.
After(choice) ==
  CASE ask.stage = "editor" /\ choice = "none" -> Ask(ask.multi, "select", ask.selected)
    [] ask.stage = "select" /\ choice = "other" -> [ask EXCEPT !.stage = "editor"]
    [] ask.stage = "select" /\ ask.multi /\ choice \in Option -> [ask EXCEPT !.selected = Toggled(choice)]
    [] OTHER -> NoAsk

Minted(dialog) ==
  IF dialog.open THEN minted + 1 \in Request /\ minted' = minted + 1 ELSE UNCHANGED minted

Opens ==
  /\ ~ask.open
  /\ minted + 1 \in Request
  /\ minted' = minted + 1
  /\ \E multi \in BOOLEAN : ask' = Ask(multi, "select", {})
  /\ UNCHANGED <<result, told, answers, sent>>

\* The pending request returns, and the dialog goes on.
Settle(outcome, dialog) ==
  /\ result' = [result EXCEPT ![minted] = outcome]
  /\ ask' = dialog
  /\ Minted(dialog)

Send(r, choice) ==
  /\ sent < MaxAnswers /\ sent' = sent + 1
  /\ answers' = answers \cup {[req |-> r, choice |-> choice]}
  /\ UNCHANGED <<ask, minted, result, told>>

\* answerInput checks a select's answer against its labels; an editor takes any text.
Accepts(choice) == ask.stage = "editor" \/ choice \in Offered

\* Mutant: the answer goes to whatever request is pending.
PendingAny(a) == ask.open /\ Accepts(a.choice)

\* It knows the request by its id.
Pending(a) == ask.open /\ a.req = minted /\ Accepts(a.choice)

\* fleet-answer-input: told whether the answer was taken.
ControllerAnswers(a) ==
  /\ a \in answers
  /\ answers' = answers \ {a}
  /\ IF Pending(a)
     THEN /\ Settle([by |-> "controller", choice |-> a.choice], After(a.choice))
          /\ told' = [told EXCEPT ![a.req] = [answered |-> TRUE, choice |-> a.choice]]
     ELSE UNCHANGED <<ask, minted, result, told>>
  /\ UNCHANGED sent

\* A guest answers or cancels.
GuestAnswers(choice) ==
  /\ ask.open /\ choice \in Offered \cup {"none"}
  /\ Settle(Otherwise, After(choice))
  /\ UNCHANGED <<told, answers, sent>>

\* The turn is interrupted: the pending request returns nothing and so does every later one.
Aborted ==
  /\ ask.open
  /\ Settle(Otherwise, NoAsk)
  /\ UNCHANGED <<told, answers, sent>>

BridgeSteps ==
  Opens \/ (\E a \in answers : ControllerAnswers(a)) \/ (\E choice \in Offered \cup {"none"} : GuestAnswers(choice)) \/ Aborted
-------------------------------------------------------------------------------
Choice == Option \cup {"other", "chat", "next", "text"}
Dialog == [open : {TRUE}, multi : BOOLEAN, stage : {"select", "editor"}, selected : SUBSET Option]
Outcome == {Unsettled, Otherwise} \cup [by : {"controller"}, choice : Choice]
Reply == {Untold} \cup [answered : {TRUE}, choice : Choice]

\* Dialogs, outcomes and answers keep their types.
BridgeTypeOK ==
  /\ ask \in {NoAsk} \cup Dialog /\ minted \in Nat
  /\ result \in [Request -> Outcome] /\ told \in [Request -> Reply]
  /\ answers \in SUBSET [req : Request, choice : Choice] /\ sent \in Nat

\* A controller that is told its answer was accepted is right: that request, not a later
\* one of the same dialog, returned that answer to the tool that asked; a guest who was
\* faster, an abort or a toggle since make it a refusal ("Whoever answers first settles
\* it", ui-bridge.ts).
AnswerCounts ==
  \A r \in Request : told[r].answered =>
    result[r] = [by |-> "controller", choice |-> told[r].choice]
===============================================================================
