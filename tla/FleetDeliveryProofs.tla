--------------------------- MODULE FleetDeliveryProofs -------------------------
(***************************************************************************)
(* Proofs about InputBridge and FleetDelivery, for any requests, options,  *)
(* breaks, upgrades and failures.                                          *)
(*                                                                         *)
(* A reply counts because a request is settled at most once and only while *)
(* it is the pending one.  An event is read once because whatever a child  *)
(* has put into its transcript or queued behind a turn is among those it   *)
(* remembers, and a resumed child remembers its transcript, which is all   *)
(* that is left of its predecessor.                                        *)
(***************************************************************************)
EXTENDS FleetDelivery, SequenceTheorems, TLAPS

\* The pending request is not settled, and neither are those to come.
PendingValid ==
  /\ ask.open => minted \in Request /\ result[minted] = Unsettled
  /\ \A r \in Request : r > minted => result[r] = Unsettled

BridgeInv == BridgeTypeOK /\ PendingValid /\ AnswerCounts

\* What tells the outcomes and the replies apart.
LEMMA Outcomes ==
  /\ Unsettled \in Outcome /\ Otherwise \in Outcome
  /\ Untold \in Reply /\ Untold.answered = FALSE
  /\ NoAsk.open = FALSE /\ \A d \in Dialog : d.open = TRUE
  /\ \A c \in Choice : /\ [by |-> "controller", choice |-> c] \in Outcome
                       /\ [by |-> "controller", choice |-> c] # Unsettled
                       /\ [answered |-> TRUE, choice |-> c] \in Reply
  /\ \A t \in Reply : t.answered => t.choice \in Choice
<1>1. Unsettled \in Outcome /\ Otherwise \in Outcome /\ Unsettled.by = "nobody"
  BY DEF Outcome, Unsettled, Otherwise
<1>2. Untold \in Reply /\ Untold.answered = FALSE
  BY DEF Reply, Untold
<1>3. NoAsk.open = FALSE /\ \A d \in Dialog : d.open = TRUE
  BY DEF NoAsk, Dialog
<1>4. ASSUME NEW c \in Choice
      PROVE  /\ [by |-> "controller", choice |-> c] \in Outcome
             /\ [by |-> "controller", choice |-> c] # Unsettled
             /\ [answered |-> TRUE, choice |-> c] \in Reply
  <2>1. [by |-> "controller", choice |-> c].by = "controller"
    OBVIOUS
  <2>2. [by |-> "controller", choice |-> c] \in Outcome
    BY DEF Outcome
  <2>3. [answered |-> TRUE, choice |-> c] \in Reply
    BY DEF Reply
  <2> QED BY <1>1, <2>1, <2>2, <2>3
<1>5. \A t \in Reply : t.answered => t.choice \in Choice
  BY <1>2 DEF Reply
<1> QED BY <1>1, <1>2, <1>3, <1>4, <1>5

\* The dialog goes on as a dialog, or ends.
LEMMA AfterIsDialog ==
  ASSUME BridgeTypeOK, ask.open, NEW choice
  PROVE  After(choice) \in {NoAsk} \cup Dialog
<1>1. ask \in Dialog
  BY Outcomes DEF BridgeTypeOK
<1>2. /\ [ask EXCEPT !.stage = "editor"] \in Dialog
      /\ Ask(ask.multi, "select", ask.selected) \in Dialog
  BY <1>1 DEF Dialog, Ask
<1>3. ASSUME choice \in Option PROVE [ask EXCEPT !.selected = Toggled(choice)] \in Dialog
  <2>1. Toggled(choice) \in SUBSET Option
    BY <1>1, <1>3 DEF Toggled, Dialog
  <2> QED BY <1>1, <2>1 DEF Dialog
<1>4. \/ After(choice) = NoAsk \/ After(choice) = [ask EXCEPT !.stage = "editor"]
      \/ After(choice) = Ask(ask.multi, "select", ask.selected)
      \/ choice \in Option /\ After(choice) = [ask EXCEPT !.selected = Toggled(choice)]
  <2>1. CASE ask.stage = "editor" /\ choice = "none"
    BY <2>1 DEF After
  <2>2. CASE ask.stage = "editor" /\ choice # "none"
    BY <2>2 DEF After
  <2>3. CASE ask.stage = "select" /\ choice = "other"
    BY <2>3 DEF After
  <2>4. CASE ask.stage = "select" /\ choice # "other"
    BY <2>4 DEF After
  <2> QED BY <1>1, <2>1, <2>2, <2>3, <2>4 DEF Dialog
<1> QED BY <1>2, <1>3, <1>4

\* The pending request is settled: with the answer that the controller is told was taken,
\* or in a way no controller is told of.
LEMMA SettleStep ==
  ASSUME BridgeInv, ask.open, NEW outcome \in Outcome, NEW dialog \in {NoAsk} \cup Dialog,
         Settle(outcome, dialog),
         \/ UNCHANGED told
         \/ \E c \in Choice : /\ outcome = [by |-> "controller", choice |-> c]
                              /\ told' = [told EXCEPT ![minted] = [answered |-> TRUE, choice |-> c]]
  PROVE  /\ ask' \in {NoAsk} \cup Dialog /\ minted' \in Nat
         /\ result' \in [Request -> Outcome] /\ told' \in [Request -> Reply]
         /\ PendingValid' /\ AnswerCounts'
<1>1. /\ minted \in Request /\ minted \in Nat /\ result[minted] = Unsettled
      /\ result \in [Request -> Outcome] /\ told \in [Request -> Reply] /\ Request \subseteq Nat
      /\ \A r \in Request : r > minted => result[r] = Unsettled
  BY BridgeAssumption DEF BridgeInv, BridgeTypeOK, PendingValid
<1>2. /\ result' = [result EXCEPT ![minted] = outcome] /\ ask' = dialog
      /\ (IF dialog.open THEN minted + 1 \in Request /\ minted' = minted + 1 ELSE UNCHANGED minted)
  BY DEF Settle, Minted
<1>3. result'[minted] = outcome /\ \A r \in Request \ {minted} : result'[r] = result[r]
  BY <1>1, <1>2
<1>4. /\ ask' \in {NoAsk} \cup Dialog /\ minted' \in Nat /\ result' \in [Request -> Outcome]
      /\ minted' >= minted
  BY <1>1, <1>2
<1>5. PendingValid'
  <2>1. \A r \in Request : r > minted => r # minted
    BY <1>1
  <2>2. \A r \in Request : r > minted' => r > minted
    BY <1>1, <1>4
  <2>3. ask'.open => minted' \in Request /\ minted' > minted
    BY <1>1, <1>2
  <2> QED BY <1>1, <1>3, <2>1, <2>2, <2>3 DEF PendingValid
<1>6. ~told[minted].answered
  BY <1>1, Outcomes DEF BridgeInv, AnswerCounts
<1>7. CASE UNCHANGED told
  <2>1. AnswerCounts'
    BY <1>3, <1>6, <1>7 DEF BridgeInv, AnswerCounts
  <2> QED BY <1>1, <1>4, <1>5, <1>7, <2>1
<1>8. ASSUME NEW c \in Choice, outcome = [by |-> "controller", choice |-> c],
             told' = [told EXCEPT ![minted] = [answered |-> TRUE, choice |-> c]]
      PROVE  told' \in [Request -> Reply] /\ AnswerCounts'
  <2> DEFINE t == [answered |-> TRUE, choice |-> c]
  <2>1. t \in Reply /\ t.choice = c
    BY Outcomes
  <2> HIDE DEF t
  <2>2. told'[minted] = t /\ \A r \in Request \ {minted} : told'[r] = told[r]
    BY <1>1, <1>8 DEF t
  <2>3. AnswerCounts'
    BY <1>3, <1>8, <2>1, <2>2 DEF BridgeInv, AnswerCounts
  <2>4. told' \in [Request -> Reply]
    BY <1>1, <1>8, <2>1 DEF t
  <2> QED BY <2>3, <2>4
<1> QED BY <1>4, <1>5, <1>7, <1>8

\* Every step of the worker keeps the dialog's invariant.
LEMMA BridgeStep == BridgeInv /\ BridgeSteps => BridgeInv'
<1> SUFFICES ASSUME BridgeInv, BridgeSteps PROVE BridgeInv'
  OBVIOUS
<1>1. BridgeTypeOK /\ PendingValid /\ AnswerCounts
  BY DEF BridgeInv
<1>2. CASE Opens
  <2>1. PICK multi \in BOOLEAN : ask' = Ask(multi, "select", {})
    BY <1>2 DEF Opens
  <2>2. ask' \in Dialog
    BY <2>1 DEF Ask, Dialog
  <2>3. minted + 1 \in Request /\ minted' = minted + 1 /\ UNCHANGED <<result, told, answers, sent>>
    BY <1>2 DEF Opens
  <2>4. PendingValid'
    <3>1. minted \in Nat /\ Request \subseteq Nat
      BY <1>1, BridgeAssumption DEF BridgeTypeOK
    <3> QED BY <1>1, <2>3, <3>1 DEF PendingValid
  <2>5. BridgeTypeOK' /\ AnswerCounts'
    BY <1>1, <2>2, <2>3 DEF BridgeTypeOK, AnswerCounts
  <2> QED BY <2>4, <2>5 DEF BridgeInv
<1>3. ASSUME NEW a \in answers, ControllerAnswers(a) PROVE BridgeInv'
  <2>1. a \in [req : Request, choice : Choice] /\ answers' \in SUBSET [req : Request, choice : Choice]
        /\ sent' \in Nat
    BY <1>1, <1>3 DEF ControllerAnswers, BridgeTypeOK
  <2>2. CASE Pending(a)
    <3> DEFINE c == a.choice
               outcome == [by |-> "controller", choice |-> c]
    <3>1. c \in Choice /\ a.req = minted /\ ask.open
      BY <2>1, <2>2 DEF Pending
    <3>2. /\ Settle(outcome, After(c))
          /\ told' = [told EXCEPT ![minted] = [answered |-> TRUE, choice |-> c]]
      BY <1>3, <2>2, <3>1 DEF ControllerAnswers
    <3>3. outcome \in Outcome /\ After(c) \in {NoAsk} \cup Dialog
      BY <1>1, <3>1, Outcomes, AfterIsDialog
    <3>4. \E x \in Choice : /\ outcome = [by |-> "controller", choice |-> x]
                            /\ told' = [told EXCEPT ![minted] = [answered |-> TRUE, choice |-> x]]
      BY <3>1, <3>2
    <3> HIDE DEF c, outcome
    <3>5. /\ ask' \in {NoAsk} \cup Dialog /\ minted' \in Nat
          /\ result' \in [Request -> Outcome] /\ told' \in [Request -> Reply]
          /\ PendingValid' /\ AnswerCounts'
      BY <3>1, <3>2, <3>3, <3>4, SettleStep
    <3> QED BY <2>1, <3>5 DEF BridgeInv, BridgeTypeOK
  <2>3. CASE ~Pending(a)
    <3>1. UNCHANGED <<ask, minted, result, told>>
      BY <1>3, <2>3 DEF ControllerAnswers
    <3> QED BY <1>1, <2>1, <3>1 DEF BridgeInv, BridgeTypeOK, PendingValid, AnswerCounts
  <2> QED BY <2>2, <2>3
<1>4. ASSUME NEW dialog \in {NoAsk} \cup Dialog, ask.open, Settle(Otherwise, dialog),
             UNCHANGED <<told, answers, sent>>
      PROVE  BridgeInv'
  <2>1. /\ ask' \in {NoAsk} \cup Dialog /\ minted' \in Nat
        /\ result' \in [Request -> Outcome] /\ told' \in [Request -> Reply]
        /\ PendingValid' /\ AnswerCounts'
    BY <1>4, Outcomes, SettleStep
  <2> QED BY <1>1, <1>4, <2>1 DEF BridgeInv, BridgeTypeOK
<1>5. ASSUME NEW choice, GuestAnswers(choice) PROVE BridgeInv'
  <2>1. ask.open /\ Settle(Otherwise, After(choice)) /\ UNCHANGED <<told, answers, sent>>
    BY <1>5 DEF GuestAnswers
  <2>2. After(choice) \in {NoAsk} \cup Dialog
    BY <1>1, <2>1, AfterIsDialog
  <2> QED BY <1>4, <2>1, <2>2
<1>6. CASE Aborted
  BY <1>4, <1>6 DEF Aborted
<1> QED BY <1>2, <1>3, <1>5, <1>6 DEF BridgeSteps
-------------------------------------------------------------------------------
(***************************************************************************)
(* The transcript.                                                         *)
(***************************************************************************)

\* One more event, which was not there.
LEMMA AppendOnce ==
  ASSUME NEW S, NEW s \in Seq(S), NEW e \in S, e \notin ToSet(s), IsInjective(s)
  PROVE  IsInjective(Append(s, e)) /\ ToSet(Append(s, e)) = ToSet(s) \cup {e} /\ Append(s, e) \in Seq(S)
<1> DEFINE u == Append(s, e)
<1>1. /\ u \in Seq(S) /\ Len(s) \in Nat /\ DOMAIN s = 1..Len(s) /\ DOMAIN u = 1..(Len(s) + 1)
      /\ (\A i \in DOMAIN s : u[i] = s[i]) /\ u[Len(s) + 1] = e
  BY AppendProperties
<1> HIDE DEF u
<1>2. /\ \A i \in DOMAIN u : i \in DOMAIN s \/ i = Len(s) + 1
      /\ (\A i \in DOMAIN s : i \in DOMAIN u) /\ Len(s) + 1 \in DOMAIN u
  BY <1>1
<1>3. \A i \in DOMAIN s : s[i] # e
  BY DEF ToSet
<1>4. IsInjective(u)
  BY <1>1, <1>2, <1>3 DEF IsInjective
<1>5. ToSet(u) = ToSet(s) \cup {e}
  BY <1>1, <1>2 DEF ToSet
<1> QED BY <1>1, <1>4, <1>5 DEF u

\* The front of a sequence in which nothing is twice.
LEMMA FrontOnce ==
  ASSUME NEW S, NEW s \in Seq(S), NEW u \in Seq(S), IsInjective(s \o u)
  PROVE  IsInjective(s) /\ ToSet(s) \subseteq ToSet(s \o u)
<1> DEFINE w == s \o u
<1>1. /\ Len(s) \in Nat /\ Len(u) \in Nat /\ DOMAIN s = 1..Len(s) /\ DOMAIN w = 1..(Len(s) + Len(u))
      /\ \A i \in 1..(Len(s) + Len(u)) : w[i] = IF i <= Len(s) THEN s[i] ELSE u[i - Len(s)]
  BY ConcatProperties
<1> HIDE DEF w
<1>2. \A i \in DOMAIN s : i \in DOMAIN w /\ w[i] = s[i]
  BY <1>1
<1>3. IsInjective(w)
  BY DEF w
<1>4. IsInjective(s)
  BY <1>2, <1>3 DEF IsInjective
<1>5. ToSet(s) \subseteq ToSet(w)
  BY <1>2 DEF ToSet
<1> QED BY <1>4, <1>5 DEF w

\* What is first in the queue moves to the end of the transcript.
LEMMA MoveOver ==
  ASSUME NEW S, NEW s \in Seq(S), NEW u \in Seq(S), u # <<>>
  PROVE  Append(s, Head(u)) \o Tail(u) = s \o u /\ Append(s, Head(u)) \in Seq(S) /\ Tail(u) \in Seq(S)
<1>1. /\ Head(u) \in S /\ Tail(u) \in Seq(S) /\ <<Head(u)>> \in Seq(S) /\ <<Head(u)>> \o Tail(u) = u
  <2>1. /\ Head(u) \in S /\ Tail(u) \in Seq(S) /\ Len(Tail(u)) = Len(u) - 1 /\ Len(u) \in Nat \ {0}
        /\ Head(u) = u[1] /\ \A i \in 1..Len(Tail(u)) : Tail(u)[i] = u[i + 1]
    BY HeadTailProperties, EmptySeq
  <2> DEFINE h == <<Head(u)>>
  <2>2. h \in Seq(S) /\ Len(h) = 1 /\ h[1] = u[1]
    BY <2>1
  <2> HIDE DEF h
  <2>3. /\ h \o Tail(u) \in Seq(S) /\ Len(h \o Tail(u)) = Len(u)
        /\ \A i \in 1..Len(u) : (h \o Tail(u))[i] = IF i <= 1 THEN h[i] ELSE Tail(u)[i - 1]
    <3> DEFINE t == Tail(u)
    <3>1. t \in Seq(S) /\ Len(t) = Len(u) - 1 /\ Len(u) \in Nat \ {0}
      BY <2>1
    <3> HIDE DEF t
    <3>2. /\ h \o t \in Seq(S) /\ Len(h \o t) = Len(h) + Len(t)
          /\ \A i \in 1..(Len(h) + Len(t)) : (h \o t)[i] = IF i <= Len(h) THEN h[i] ELSE t[i - Len(h)]
      BY <2>2, <3>1, ConcatProperties
    <3> QED BY <2>2, <3>1, <3>2 DEF t
  <2>4. \A i \in 1..Len(u) : (h \o Tail(u))[i] = u[i]
    BY <2>1, <2>2, <2>3
  <2>5. h \o Tail(u) = u
    BY <2>3, <2>4, SeqEqual
  <2> QED BY <2>1, <2>2, <2>5 DEF h
<1>2. Append(s, Head(u)) = s \o <<Head(u)>> /\ Append(s, Head(u)) \in Seq(S)
  BY <1>1, AppendIsConcat, AppendProperties
<1>3. (s \o <<Head(u)>>) \o Tail(u) = s \o (<<Head(u)>> \o Tail(u))
  BY <1>1, ConcatAssociative
<1> QED BY <1>1, <1>2, <1>3

\* One more event in the queue is one more behind the transcript.
LEMMA QueueBehind ==
  ASSUME NEW S, NEW s \in Seq(S), NEW u \in Seq(S), NEW e \in S
  PROVE  s \o Append(u, e) = Append(s \o u, e) /\ s \o u \in Seq(S) /\ Append(u, e) \in Seq(S)
<1>1. s \o u \in Seq(S) /\ <<e>> \in Seq(S) /\ Append(u, e) \in Seq(S)
  BY ConcatProperties, AppendProperties
<1>2. Append(u, e) = u \o <<e>> /\ Append(s \o u, e) = (s \o u) \o <<e>>
  BY <1>1, AppendIsConcat
<1> QED BY <1>1, <1>2, ConcatAssociative

\* What the child holds, whatever the events are, and where it got them from.
ChildRecord(S) ==
  [st : {"none", "starting", "up"}, stdin : Seq(S), delivered : SUBSET S, queue : Seq(S), busy : BOOLEAN]

\* Nothing is in the transcript and behind it twice, and a child that is up remembers all of
\* it; only a child that is up has a queue, and only behind a turn.
ChildValid ==
  /\ \E S : child \in ChildRecord(S) /\ branch \in Seq(S)
  /\ IsInjective(branch \o child.queue)
  /\ child.st = "up" => ToSet(branch \o child.queue) \subseteq child.delivered
  /\ child.st # "up" => child.queue = <<>>
  /\ ~child.busy => child.queue = <<>>

\* Without a queue the transcript is all there is.
LEMMA NoQueue == ASSUME NEW S, NEW s \in Seq(S) PROVE s \o <<>> = s
BY ConcatEmptySeq

\* A child that is gone, or starts anew, has nothing queued.
LEMMA NewChild ==
  ASSUME ChildValid, UNCHANGED branch, NEW st \in {"none", "starting"}, child' = [NoChild EXCEPT !.st = st]
  PROVE  ChildValid'
<1> PICK S : child \in ChildRecord(S) /\ branch \in Seq(S)
  BY DEF ChildValid
<1>1. child' \in ChildRecord(S) /\ child'.st = st /\ child'.queue = <<>>
  <2>1. <<>> \in Seq(S)
    OBVIOUS
  <2> QED BY <2>1 DEF NoChild, ChildRecord
<1>2. child.queue \in Seq(S) /\ IsInjective(branch \o child.queue)
  BY DEF ChildRecord, ChildValid
<1>3. IsInjective(branch)
  BY <1>2, FrontOnce
<1>4. branch \o <<>> = branch
  BY NoQueue
<1> QED BY <1>1, <1>3, <1>4 DEF ChildValid

\* The daemon writes to the child's stdin.
LEMMA DaemonReadsStep == ASSUME ChildValid, DaemonReads PROVE ChildValid'
<1> PICK S : child \in ChildRecord(S) /\ branch \in Seq(S)
  BY DEF ChildValid
<1> DEFINE e == Head(wire)
           c == [child EXCEPT !.stdin = Append(child.stdin, e)]
<1>1. UNCHANGED branch /\ (child' = c \/ child' = child)
  BY DEF DaemonReads
<1> PICK T : T = S \cup {e}
  OBVIOUS
<1>2. e \in T /\ S \subseteq T
  OBVIOUS
<1>3. /\ branch \in Seq(T) /\ child.stdin \in Seq(T) /\ child.queue \in Seq(T)
      /\ child.delivered \in SUBSET T /\ child \in ChildRecord(T)
  <2>1. Seq(S) \subseteq Seq(T)
    BY <1>2, SeqMonotonic
  <2> QED BY <1>2, <2>1 DEF ChildRecord
<1>4. Append(child.stdin, e) \in Seq(T)
  BY <1>2, <1>3, AppendProperties
<1>5. /\ c \in ChildRecord(T) /\ c.st = child.st /\ c.queue = child.queue
      /\ c.delivered = child.delivered /\ c.busy = child.busy
  BY <1>3, <1>4 DEF ChildRecord
<1> HIDE DEF c
<1>6. CASE child' = c
  BY <1>1, <1>3, <1>5, <1>6 DEF ChildValid
<1>7. CASE child' = child
  BY <1>1, <1>7 DEF ChildValid
<1> QED BY <1>1, <1>6, <1>7

\* The resumed child remembers its transcript.
LEMMA ReadyStep == ASSUME ChildValid, Ready PROVE ChildValid'
<1> PICK S : child \in ChildRecord(S) /\ branch \in Seq(S)
  BY DEF ChildValid
<1> DEFINE c == [child EXCEPT !.st = "up", !.delivered = ToSet(branch)]
<1>1. child' = c /\ UNCHANGED branch /\ child.queue = <<>> /\ branch \o <<>> = branch
  BY NoQueue DEF Ready, Known, ChildValid
<1>2. ToSet(branch) \in SUBSET S
  BY ElementOfSeq DEF ToSet
<1>3. /\ c \in ChildRecord(S) /\ c.st = "up" /\ c.queue = child.queue /\ c.delivered = ToSet(branch)
  BY <1>2 DEF ChildRecord
<1> HIDE DEF c
<1> QED BY <1>1, <1>3 DEF ChildValid

\* An event is read from stdin: known, or injected and known from then on, or failed.
LEMMA DeliverStep == ASSUME ChildValid, Deliver PROVE ChildValid'
<1> PICK S : child \in ChildRecord(S) /\ branch \in Seq(S)
  BY DEF ChildValid
<1> DEFINE e == Head(child.stdin)
           read == [child EXCEPT !.stdin = Tail(child.stdin), !.delivered = child.delivered \cup {e}]
<1>1. child.st = "up" /\ child.stdin # <<>> /\ child.stdin \in Seq(S) /\ child.queue \in Seq(S)
      /\ child.delivered \in SUBSET S /\ child.busy \in BOOLEAN
  BY DEF Deliver, ChildRecord
<1>2. e \in S /\ Tail(child.stdin) \in Seq(S)
  BY <1>1, HeadTailProperties
<1>3. /\ read \in ChildRecord(S) /\ read.st = "up" /\ read.queue = child.queue /\ read.busy = child.busy
      /\ read.delivered = child.delivered \cup {e}
  BY <1>1, <1>2 DEF ChildRecord
<1>4. /\ IsInjective(branch \o child.queue) /\ ToSet(branch \o child.queue) \subseteq child.delivered
      /\ (~child.busy => child.queue = <<>>)
  BY <1>1 DEF ChildValid
<1>5. \/ child' = read /\ UNCHANGED branch
      \/ e \notin child.delivered /\ Inject(read, e)
  BY DEF Deliver
<1> HIDE DEF e, read
<1>6. CASE child' = read /\ UNCHANGED branch
  BY <1>3, <1>4, <1>6 DEF ChildValid
<1>7. CASE e \notin child.delivered /\ Inject(read, e)
  <2> DEFINE w == branch \o child.queue
  <2>1. w \in Seq(S) /\ e \notin ToSet(w) /\ IsInjective(w)
    BY <1>1, <1>2, <1>4, <1>7, QueueBehind
  <2>2. IsInjective(Append(w, e)) /\ ToSet(Append(w, e)) = ToSet(w) \cup {e}
    <3> HIDE DEF w
    <3> QED BY <1>2, <2>1, AppendOnce
  <2>3. ToSet(Append(w, e)) \subseteq read.delivered
    BY <1>3, <1>4, <2>2
  <2>4. CASE child.busy
    <3> DEFINE c == [read EXCEPT !.queue = Append(child.queue, e)]
    <3>1. child' = c /\ UNCHANGED branch
      BY <1>3, <1>7, <2>4 DEF Inject
    <3>2. branch \o Append(child.queue, e) = Append(w, e) /\ Append(child.queue, e) \in Seq(S)
      BY <1>1, <1>2, QueueBehind
    <3>3. /\ c \in ChildRecord(S) /\ c.st = "up" /\ c.queue = Append(child.queue, e) /\ c.busy
          /\ c.delivered = read.delivered
      BY <1>3, <2>4, <3>2 DEF ChildRecord
    <3> HIDE DEF c, w
    <3> QED BY <2>2, <2>3, <3>1, <3>2, <3>3 DEF ChildValid
  <2>5. CASE ~child.busy
    <3> DEFINE c == [read EXCEPT !.busy = TRUE]
    <3>1. child' = c /\ branch' = Append(branch, e)
      BY <1>3, <1>7, <2>5 DEF Inject
    <3>2. child.queue = <<>> /\ w = branch /\ Append(branch, e) \in Seq(S)
      BY <1>2, <1>4, <2>5, NoQueue, AppendProperties
    <3>3. /\ c \in ChildRecord(S) /\ c.st = "up" /\ c.queue = <<>> /\ c.busy
          /\ c.delivered = read.delivered
      BY <1>3, <3>2 DEF ChildRecord
    <3>4. Append(branch, e) \o <<>> = Append(w, e)
      BY <3>2, NoQueue
    <3> HIDE DEF c, w
    <3> QED BY <2>2, <2>3, <3>1, <3>2, <3>3, <3>4 DEF ChildValid
  <2> QED BY <1>1, <2>4, <2>5
<1> QED BY <1>5, <1>6, <1>7

\* A turn ends, and what was queued behind it starts the next one.
LEMMA TurnEndsStep == ASSUME ChildValid, TurnEnds PROVE ChildValid'
<1> PICK S : child \in ChildRecord(S) /\ branch \in Seq(S)
  BY DEF ChildValid
<1>1. child.st = "up" /\ child.busy /\ child.queue \in Seq(S)
  BY DEF TurnEnds, ChildRecord
<1>2. CASE child.queue = <<>>
  <2> DEFINE c == [child EXCEPT !.busy = FALSE]
  <2>1. child' = c /\ UNCHANGED branch
    BY <1>2 DEF TurnEnds
  <2>2. /\ c \in ChildRecord(S) /\ c.st = child.st /\ c.queue = child.queue /\ c.delivered = child.delivered
    BY DEF ChildRecord
  <2> HIDE DEF c
  <2> QED BY <1>2, <2>1, <2>2 DEF ChildValid
<1>3. CASE child.queue # <<>>
  <2> DEFINE c == [child EXCEPT !.queue = Tail(child.queue)]
             b == Append(branch, Head(child.queue))
  <2>1. child' = c /\ branch' = b
    BY <1>3 DEF TurnEnds
  <2>2. b \o Tail(child.queue) = branch \o child.queue /\ b \in Seq(S) /\ Tail(child.queue) \in Seq(S)
    BY <1>1, <1>3, MoveOver
  <2>3. /\ c \in ChildRecord(S) /\ c.st = child.st /\ c.queue = Tail(child.queue)
        /\ c.delivered = child.delivered /\ c.busy
    BY <1>1, <2>2 DEF ChildRecord
  <2> HIDE DEF b, c
  <2> QED BY <1>1, <2>1, <2>2, <2>3 DEF ChildValid
<1> QED BY <1>2, <1>3

\* Every step keeps both invariants.
LEMMA DeliveryStep == BridgeInv /\ ChildValid /\ [DeliveryNext]_fleetVars => BridgeInv' /\ ChildValid'
<1> SUFFICES ASSUME BridgeInv, ChildValid, [DeliveryNext]_fleetVars PROVE BridgeInv' /\ ChildValid'
  OBVIOUS
<1>1. UNCHANGED bridgeVars => BridgeInv'
  BY DEF bridgeVars, BridgeInv, BridgeTypeOK, PendingValid, AnswerCounts
<1>2. UNCHANGED <<child, branch>> => ChildValid'
  BY DEF ChildValid
<1>3. CASE WorkerSteps
  BY <1>2, <1>3, BridgeStep DEF WorkerSteps
<1>4. CASE UNCHANGED fleetVars \/ Commit \/ CommitFails \/ Replay \/ LinkBreaks \/ LinkReturns
  BY <1>1, <1>2, <1>4 DEF fleetVars, deliveryVars, Commit, CommitFails, Replay, LinkBreaks, LinkReturns
<1>5. ASSUME NEW e \in Event, Acknowledge(e) PROVE BridgeInv' /\ ChildValid'
  BY <1>1, <1>2, <1>5 DEF Acknowledge
<1>6. CASE Upgrade \/ OperatorEnds \/ Resume
  <2>1. UNCHANGED bridgeVars /\ UNCHANGED branch
    BY <1>6 DEF Upgrade, OperatorEnds, Resume
  <2>2. ChildValid'
    <3>1. NoChild = [NoChild EXCEPT !.st = "none"]
      BY DEF NoChild
    <3>2. CASE Resume
      <4>1. child' = [NoChild EXCEPT !.st = "starting"]
        BY <3>2 DEF Resume
      <4> QED BY <2>1, <4>1, NewChild
    <3>3. CASE Upgrade \/ OperatorEnds
      <4>1. child' = NoChild
        BY <3>3 DEF Upgrade, OperatorEnds
      <4>2. child' = [NoChild EXCEPT !.st = "none"]
        BY <3>1, <4>1
      <4> QED BY <2>1, <4>2, NewChild
    <3> QED BY <1>6, <3>2, <3>3
  <2> QED BY <1>1, <2>1, <2>2
<1>7. CASE DaemonReads \/ Ready \/ Deliver \/ TurnEnds
  <2>1. UNCHANGED bridgeVars
    BY <1>7 DEF DaemonReads, Ready, Deliver, TurnEnds
  <2> QED BY <1>1, <1>7, <2>1, DaemonReadsStep, ReadyStep, DeliverStep, TurnEndsStep
<1>8. CASE AnswersAsk
  <2>1. PICK r \in Request : \E choice \in Option \cup {"other", "next", "text"} : Send(r, choice)
    BY <1>8 DEF AnswersAsk
  <2>2. PICK choice \in Choice : Send(r, choice)
    BY <2>1 DEF Choice
  <2>3. BridgeTypeOK'
    BY <2>2 DEF Send, BridgeInv, BridgeTypeOK
  <2>4. UNCHANGED <<ask, minted, result, told>>
    BY <2>2 DEF Send
  <2>5. PendingValid' /\ AnswerCounts'
    BY <2>4 DEF BridgeInv, PendingValid, AnswerCounts
  <2>6. UNCHANGED <<child, branch>>
    BY <1>8 DEF AnswersAsk, deliveryVars
  <2> QED BY <1>2, <2>3, <2>5, <2>6 DEF BridgeInv
<1> QED BY <1>3, <1>4, <1>5, <1>6, <1>7, <1>8 DEF DeliveryNext

\* Nobody has asked, and the transcript is empty.
LEMMA InitDelivery == DeliveryInit => BridgeInv /\ ChildValid
<1> SUFFICES ASSUME DeliveryInit PROVE BridgeInv /\ ChildValid
  OBVIOUS
<1>1. BridgeInv
  <2>1. \A r \in Request : Untold.answered = FALSE
    BY Outcomes
  <2>2. BridgeTypeOK
    BY Outcomes DEF DeliveryInit, BridgeInit, BridgeTypeOK
  <2>3. PendingValid
    BY Outcomes DEF DeliveryInit, BridgeInit, PendingValid
  <2>4. AnswerCounts
    BY Outcomes DEF DeliveryInit, BridgeInit, AnswerCounts
  <2> QED BY <2>2, <2>3, <2>4 DEF BridgeInv
<1>2. ChildValid
  <2> DEFINE c == [NoChild EXCEPT !.st = "up"]
  <2>1. child = c /\ branch = <<>>
    BY DEF DeliveryInit
  <2>2. PICK S : S = Event
    OBVIOUS
  <2>3. <<>> \in Seq(S) /\ <<>> \o <<>> = <<>>
    BY NoQueue
  <2>4. c \in ChildRecord(S) /\ c.queue = <<>>
    BY <2>3 DEF NoChild, ChildRecord
  <2> HIDE DEF c
  <2>5. IsInjective(<<>>) /\ ToSet(<<>>) = {}
    BY DEF IsInjective, ToSet
  <2> QED BY <2>1, <2>3, <2>4, <2>5 DEF ChildValid
<1> QED BY <1>1, <1>2

\* Dialogs, outcomes and answers keep their types, the request a dialog waits for is never
\* a settled one, and none is settled before its turn (pending requests, ui-bridge.ts).
THEOREM BridgeTypeCorrect == DeliverySpec => [](BridgeTypeOK /\ PendingValid)
<1>1. BridgeInv => BridgeTypeOK /\ PendingValid
  BY DEF BridgeInv
<1> QED BY <1>1, InitDelivery, DeliveryStep, PTL DEF DeliverySpec

\* A controller that is told its answer was taken is right: guests, aborts, toggles, other
\* controllers and events that come late or twice never make a second answer count
\* ("Whoever answers first settles it", ui-bridge.ts).
THEOREM AnswerCountsCorrect == DeliverySpec => []AnswerCounts
<1>1. BridgeInv => AnswerCounts
  BY DEF BridgeInv
<1> QED BY <1>1, InitDelivery, DeliveryStep, PTL DEF DeliverySpec

\* An operator reads each event once: over any number of connections, upgrades and replays,
\* and whatever comes over the wire (the `delivered` set of session-host.ts).
THEOREM InjectedOnceCorrect == DeliverySpec => []InjectedOnce
<1>1. ChildValid => InjectedOnce
  <2> SUFFICES ASSUME ChildValid PROVE InjectedOnce
    OBVIOUS
  <2>1. PICK S : child \in ChildRecord(S) /\ branch \in Seq(S)
    BY DEF ChildValid
  <2>2. child.queue \in Seq(S) /\ IsInjective(branch \o child.queue)
    BY <2>1 DEF ChildRecord, ChildValid
  <2>3. IsInjective(branch)
    BY <2>1, <2>2, FrontOnce
  <2> QED BY <2>3 DEF InjectedOnce
<1> QED BY <1>1, InitDelivery, DeliveryStep, PTL DEF DeliverySpec
===============================================================================
