----------------------------- MODULE SessionProofs -----------------------------
(***************************************************************************)
(* Proofs about one session: its prompt loop (SessionLoop), for every set  *)
(* of prompts and every bound, and what its viewers see (LiveView), for    *)
(* every set of guests, every page size and every bound.                   *)
(*                                                                         *)
(* The second part is about the frames that are on their way to a guest.   *)
(* A fold of Take over them is shown to be the end of a run, client after  *)
(* client; the lemmas about runs say what one frame more at the end, one   *)
(* less in front, or one that means nothing to the guest does to what the  *)
(* run shows; the lemmas about views lift that to what each step does.     *)
(***************************************************************************)
EXTENDS SessionLoop, LiveView, FiniteSetTheorems, WellFoundedInduction, SequenceTheorems, TLAPS

(***************************************************************************)
(* The prompt loop.                                                        *)
(***************************************************************************)

\* Limits are limits: none, a deadline, or a positive number of iterations.
LEMMA Limits ==
  /\ [kind |-> "none", n |-> 0] \in Limit
  /\ \A l \in Limit : l.n \in 0..MaxIterations
<1>1. [kind |-> "none", n |-> 0] \in Limit
  BY DEF Limit
<1>2. ASSUME NEW l \in Limit PROVE l.n \in 0..MaxIterations
  BY LoopAssumption DEF Limit
<1> QED BY <1>1, <1>2

\* A loop that is off is a loop.
LEMMA OffIsLoop == Off \in LoopRecord
BY Limits, LoopAssumption DEF Off, LoopRecord

\* What the steps do to the record of a loop keeps it one; a budget stays a natural number
\* because an iteration is submitted only when it is not used up.
LEMMA LoopRecords ==
  ASSUME LoopTypeOK
  PROVE  /\ \A b \in BOOLEAN : /\ [loop EXCEPT !.enabled = b] \in LoopRecord
                               /\ [loop EXCEPT !.paused = b] \in LoopRecord
                               /\ [loop EXCEPT !.expired = b] \in LoopRecord
         /\ loop.left # 0 => [loop EXCEPT !.left = @ - 1] \in LoopRecord
BY LoopAssumption DEF LoopTypeOK, LoopRecord

\* So do the gates: none, a new one, one that is aborted.
LEMMA GateRecords ==
  ASSUME LoopTypeOK
  PROVE  /\ NoGate \in GateRecord
         /\ \A p \in Prompt : [open |-> TRUE, prompt |-> p, aborted |-> FALSE] \in GateRecord
         /\ AbortGate => gate' \in GateRecord
BY DEF LoopTypeOK, GateRecord, NoGate, AbortGate

\* The two outcomes of a submission keep the types.
LEMMA SubmitTypes ==
  ASSUME LoopTypeOK, NEW p \in Prompt, Submit(p), ~Exhausted
  PROVE  loop' \in LoopRecord /\ session' \in {"idle", "user", "work"} \cup Prompt /\ lost' \in BOOLEAN
BY LoopRecords DEF LoopTypeOK, Submit, Exhausted

\* LoopTypeOK is an invariant.
THEOREM LoopTypeCorrect == LoopSpec => []LoopTypeOK
<1>1. LoopInit => LoopTypeOK
  <2>1. NoGate \in GateRecord
    BY DEF NoGate, GateRecord
  <2>2. 0 \in 0..MaxOps /\ 0 \in 0..MaxTurns
    BY LoopAssumption
  <2> QED BY OffIsLoop, <2>1, <2>2 DEF LoopInit, LoopTypeOK
<1>2. LoopTypeOK /\ [LoopNext]_loopVars => LoopTypeOK'
  <2> SUFFICES ASSUME LoopTypeOK, [LoopNext]_loopVars PROVE LoopTypeOK'
    OBVIOUS
  <2>0. ASSUME Command PROVE ops' \in 0..MaxOps /\ UNCHANGED <<session, turns>>
    BY <2>0, LoopAssumption DEF Command, LoopTypeOK
  <2>1. ASSUME NEW p \in Prompt \cup {NoPrompt}, NEW l \in Limit, NEW c \in BOOLEAN, Enable(p, l, c)
        PROVE LoopTypeOK'
    <3>1. loop' \in LoopRecord
      BY Limits, <2>1 DEF Enable, LoopRecord
    <3> QED BY <3>1, <2>0, <2>1, GateRecords DEF LoopTypeOK, Enable, Kick
  <2>2. ASSUME Disable PROVE LoopTypeOK'
    BY <2>0, <2>2, OffIsLoop, GateRecords DEF LoopTypeOK, Disable, Teardown
  <2>3. ASSUME Pause \/ Resume \/ Dispose PROVE LoopTypeOK'
    BY <2>0, <2>3, LoopRecords, GateRecords DEF LoopTypeOK, Pause, Resume, Dispose, Kick
  <2>4. ASSUME Iterate PROVE LoopTypeOK'
    <3>1. CASE ~gate.open /\ Ready /\ ~Busy /\ ~Expired /\ ~Exhausted
      <4>1. loop.prompt \in Prompt
        BY <3>1 DEF LoopTypeOK, LoopRecord, Ready
      <4>2. CASE loop.conditional
        BY <3>1, <4>1, <4>2, <2>4, GateRecords DEF Iterate, LoopTypeOK, counters, Defer
      <4>3. CASE ~loop.conditional
        <5>1. Submit(loop.prompt) /\ timer' = FALSE /\ UNCHANGED <<gate, subscribed, counters>>
          BY <3>1, <4>3, <2>4 DEF Iterate, Defer
        <5> QED BY <4>1, <5>1, <3>1, SubmitTypes DEF LoopTypeOK, counters
      <4> QED BY <4>2, <4>3
    <3>2. CASE ~(~gate.open /\ Ready /\ ~Busy /\ ~Expired /\ ~Exhausted)
      <4>1. /\ UNCHANGED <<gate, session, subscribed, counters>>
            /\ loop' = loop \/ loop' = Off
            /\ timer' \in BOOLEAN /\ lost' \in BOOLEAN
        BY <3>2, <2>4 DEF Iterate, Defer, Kick, Teardown, LoopTypeOK
      <4> QED BY <4>1, OffIsLoop DEF LoopTypeOK, counters
    <3> QED BY <3>1, <3>2
  <2>5. ASSUME NEW v \in Verdicts, GateEnds(v) PROVE LoopTypeOK'
    <3>1. CASE Ready /\ gate.prompt = loop.prompt /\ ~Exhausted /\ Submit(gate.prompt) /\ UNCHANGED timer
      <4>1. gate.prompt \in Prompt
        BY <3>1 DEF LoopTypeOK, LoopRecord, Ready
      <4> QED BY <3>1, <4>1, <2>5, SubmitTypes, GateRecords DEF GateEnds, LoopTypeOK, counters
    <3>2. CASE ~(Ready /\ gate.prompt = loop.prompt /\ ~Exhausted /\ Submit(gate.prompt) /\ UNCHANGED timer)
      <4>1. /\ UNCHANGED <<session, subscribed, counters>> /\ gate' = NoGate
            /\ loop' = loop \/ loop' = Off
            /\ timer' \in BOOLEAN /\ lost' \in BOOLEAN
        BY <3>2, <2>5 DEF GateEnds, GoOn, Defer, Kick, Teardown, LoopTypeOK
      <4> QED BY <4>1, OffIsLoop, GateRecords DEF LoopTypeOK, counters
    <3> QED BY <3>1, <3>2
  <2>6. ASSUME TurnEnds \/ WorkEnds PROVE LoopTypeOK'
    BY <2>6 DEF LoopTypeOK, TurnEnds, WorkEnds, Kick, counters
  <2>7. ASSUME OthersBegin PROVE LoopTypeOK'
    BY <2>7, LoopAssumption DEF LoopTypeOK, OthersBegin
  <2>8. ASSUME DeadlinePasses PROVE LoopTypeOK'
    BY <2>8, LoopRecords DEF LoopTypeOK, DeadlinePasses, counters
  <2>9. CASE UNCHANGED loopVars
    BY <2>9 DEF LoopTypeOK, loopVars, counters
  <2> QED BY <2>1, <2>2, <2>3, <2>4, <2>5, <2>6, <2>7, <2>8, <2>9 DEF LoopNext, Commands
<1> QED BY <1>1, <1>2, PTL DEF LoopSpec

-------------------------------------------------------------------------------
\* Whatever commands and turns come between an iteration's two halves, it is submitted
\* to an idle session, for the loop as it is now.
THEOREM FreshIterationCorrect == LoopSpec => FreshIteration
<1>1. LoopTypeOK /\ [LoopNext]_loopVars =>
        [session' \in Prompt /\ session' # session =>
           ~Busy /\ Ready /\ session' = loop.prompt /\ ~Exhausted]_loopVars
  <2> SUFFICES ASSUME LoopTypeOK, LoopNext, session' \in Prompt, session' # session
               PROVE  ~Busy /\ Ready /\ session' = loop.prompt /\ ~Exhausted
    BY DEF loopVars
  <2>1. ASSUME Commands PROVE FALSE
    BY <2>1 DEF Commands, Enable, Disable, Pause, Resume, Dispose, Command
  <2>2. ASSUME Iterate PROVE ~Busy /\ Ready /\ session' = loop.prompt /\ ~Exhausted
    BY <2>2 DEF Iterate, Defer, Submit
  <2>3. ASSUME NEW v \in Verdicts, GateEnds(v)
        PROVE ~Busy /\ Ready /\ session' = loop.prompt /\ ~Exhausted
    BY <2>3 DEF GateEnds, GoOn, Defer, Submit, Busy
  <2>4. ASSUME TurnEnds \/ WorkEnds \/ OthersBegin \/ DeadlinePasses PROVE FALSE
    BY <2>4, LoopAssumption DEF TurnEnds, WorkEnds, OthersBegin, DeadlinePasses
  <2> QED BY <2>1, <2>2, <2>3, <2>4 DEF LoopNext
<1> QED BY LoopTypeCorrect, <1>1, PTL DEF LoopSpec, FreshIteration

-------------------------------------------------------------------------------
\* The condition that is being checked, unless its check was aborted, is checked for the
\* loop as it is, since every command that changes the loop aborts it; and a loop that was
\* disposed of is off.
Coherent ==
  /\ gate.open /\ ~gate.aborted => Ready /\ gate.prompt = loop.prompt
  /\ loop.enabled => subscribed

\* Coherent is an invariant.
LEMMA CoherentCorrect == LoopSpec => []Coherent
<1>1. LoopInit => Coherent
  BY DEF LoopInit, Coherent, NoGate, Off
<1>2. LoopTypeOK /\ Coherent /\ [LoopNext]_loopVars => Coherent'
  <2> SUFFICES ASSUME LoopTypeOK, Coherent, [LoopNext]_loopVars PROVE Coherent'
    OBVIOUS
  <2> USE DEF LoopTypeOK, LoopRecord, GateRecord, Coherent, Ready
  <2>1. ASSUME Commands, AbortGate PROVE Coherent'
    <3>1. gate'.open => gate'.aborted
      BY <2>1 DEF AbortGate
    <3>2. loop'.enabled => subscribed'
      BY <2>1 DEF Commands, Enable, Disable, Pause, Resume, Dispose, Command, Teardown, Off
    <3> QED BY <3>1, <3>2
  <2>2. ASSUME Resume PROVE Coherent'
    BY <2>2 DEF Resume, Command
  <2>3. ASSUME Iterate PROVE Coherent'
    BY <2>3 DEF Iterate, Defer, Submit, Teardown, Off
  <2>4. ASSUME NEW v \in Verdicts, GateEnds(v) PROVE Coherent'
    BY <2>4 DEF GateEnds, GoOn, Defer, Submit, Teardown, Off, NoGate
  <2>5. ASSUME TurnEnds \/ WorkEnds \/ OthersBegin \/ DeadlinePasses PROVE Coherent'
    BY <2>5 DEF TurnEnds, WorkEnds, OthersBegin, DeadlinePasses
  <2>6. CASE UNCHANGED loopVars
    BY <2>6 DEF loopVars
  <2> QED BY <2>1, <2>2, <2>3, <2>4, <2>5, <2>6 DEF LoopNext, Commands, Enable, Disable, Pause, Dispose
<1> QED BY LoopTypeCorrect, <1>1, <1>2, PTL DEF LoopSpec

\* A loop that is ready has a cause of its next iteration, or its last kick was lost.
THEOREM NeverStallsCorrect == LoopSpec => []NeverStalls
<1>1. LoopInit => NeverStalls
  BY DEF LoopInit, NeverStalls, Ready, Off
<1>2. LoopTypeOK /\ Coherent /\ NeverStalls /\ [LoopNext]_loopVars => NeverStalls'
  <2> SUFFICES ASSUME LoopTypeOK, Coherent, NeverStalls, [LoopNext]_loopVars PROVE NeverStalls'
    OBVIOUS
  <2> USE DEF LoopTypeOK, LoopRecord, GateRecord, NeverStalls, Ready, InTurn
  <2>1. ASSUME NEW p \in Prompt \cup {NoPrompt}, NEW l \in Limit, NEW c \in BOOLEAN, Enable(p, l, c)
        PROVE NeverStalls'
    BY <2>1 DEF Enable, Kick
  <2>2. ASSUME Disable \/ Pause \/ Dispose PROVE NeverStalls'
    BY <2>2 DEF Disable, Pause, Dispose, Teardown, Off
  <2>3. ASSUME Resume PROVE NeverStalls'
    BY <2>3 DEF Resume, Kick
  <2>4. ASSUME Iterate PROVE NeverStalls'
    BY <2>4 DEF Iterate, Defer, Submit, Kick, Teardown, Off
  <2>5. ASSUME NEW v \in Verdicts, GateEnds(v) PROVE NeverStalls'
    BY <2>5 DEF GateEnds, GoOn, Defer, Submit, Kick, Teardown, Off, NoGate, Verdicts, Coherent
  <2>6. ASSUME TurnEnds PROVE NeverStalls'
    BY <2>6 DEF TurnEnds, Kick, Coherent
  <2>7. ASSUME WorkEnds \/ OthersBegin \/ DeadlinePasses PROVE NeverStalls'
    BY <2>7, LoopAssumption DEF WorkEnds, OthersBegin, DeadlinePasses, Busy
  <2>8. CASE UNCHANGED loopVars
    BY <2>8 DEF loopVars
  <2> QED BY <2>1, <2>2, <2>3, <2>4, <2>5, <2>6, <2>7, <2>8 DEF LoopNext, Commands
<1> QED BY LoopTypeCorrect, CoherentCorrect, <1>1, <1>2, PTL DEF LoopSpec

(***************************************************************************)
(* The viewers.                                                            *)
(***************************************************************************)

\* A set of numbers that is not empty has a least one.
LEMMA LeastNumber ==
  ASSUME NEW S \in SUBSET Nat, S # {}
  PROVE  \E x \in S : \A y \in S : x <= y
<1> DEFINE Upto == {1..x : x \in S}
<1>1. Upto \subseteq FiniteSubsetsOf(Nat) /\ Upto # {}
  <2>1. \A x \in S : IsFiniteSet(1..x) /\ 1..x \in SUBSET Nat
    BY FS_Interval
  <2> QED BY <2>1 DEF FiniteSubsetsOf
<1>2. \E U \in Upto : \A V \in Upto : ~(<<V, U>> \in StrictSubsetOrdering(Nat))
  <2> HIDE DEF Upto
  <2>1. IsWellFoundedOn(StrictSubsetOrdering(Nat), FiniteSubsetsOf(Nat))
    BY FS_StrictSubsetOrderingWellFounded
  <2> QED BY <1>1, <2>1, WFMin
<1>3. PICK x \in S : \A V \in Upto : ~(<<V, 1..x>> \in StrictSubsetOrdering(Nat))
  BY <1>2
<1>4. ASSUME NEW y \in S, y < x PROVE FALSE
  <2>1. 1..y \in SUBSET Nat /\ 1..x \in SUBSET Nat /\ 1..y \subseteq 1..x /\ x \in 1..x /\ x \notin 1..y
    BY <1>4
  <2>2. <<1..y, 1..x>> \in StrictSubsetOrdering(Nat)
    BY <2>1 DEF StrictSubsetOrdering
  <2> QED BY <1>3, <2>2
<1> QED BY <1>3, <1>4

\* Induction, over a set of numbers instead of an operator.
LEMMA Induction ==
  ASSUME NEW S \in SUBSET Nat, 0 \in S, \A n \in S : n + 1 \in S
  PROVE  S = Nat
<1> DEFINE Rest == Nat \ S
<1> SUFFICES ASSUME Rest # {} PROVE FALSE
  OBVIOUS
<1>1. PICK x \in Rest : \A y \in Rest : x <= y
  BY LeastNumber
<1>2. x # 0 /\ x - 1 \in Nat /\ x - 1 \notin Rest
  BY <1>1
<1> QED BY <1>2

(***************************************************************************)
(* What a client becomes, frame by frame.                                  *)
(***************************************************************************)

\* What is on its way may also say nothing to this guest.
Frame == ViewFrame \cup {NotForMe}

\* The client c after each of the first n frames of s.
Run(st, c, s, n) == st[0] = c /\ \A i \in 1..n : st[i] = Take(st[i - 1], s[i])

\* A sequence of frames may be folded: there is one run, and the fold is its end.
LEMMA FoldIsRun ==
  ASSUME NEW c, NEW n \in Nat, NEW s, DOMAIN s = 1..n
  PROVE  \E st : Run(st, c, s, n) /\ FoldLeft(Take, c, s) = st[n]
<1> DEFINE Iter(f, k) ==
      f = [t \in SUBSET (1..k) |-> IF t = {} THEN c ELSE Take(f[t \ {Max(t)}], s[Max(t)])]
<1>1. FoldLeft(Take, c, s) = (CHOOSE f : Iter(f, n))[1..n]
  BY DEF FoldLeft, MapThenFoldSet
<1>2. ASSUME NEW k \in Nat, NEW t \in SUBSET (1..k + 1), k + 1 \in t PROVE Max(t) = k + 1
  <2>1. \A y \in t : y \in Nat /\ k + 1 >= y
    OBVIOUS
  <2>2. \A x \in t : (\A y \in t : x >= y) => x = k + 1
    BY <1>2, <2>1
  <2> QED BY <1>2, <2>1, <2>2 DEF Max
<1>3. \E f : Iter(f, n)
  <2> DEFINE S == {k \in Nat : \E f : Iter(f, k)}
  <2>1. 0 \in S
    <3> DEFINE f == [t \in SUBSET (1..0) |-> c]
    <3>1. 1..0 = {}
      OBVIOUS
    <3>2. Iter(f, 0)
      BY <3>1
    <3> HIDE DEF f
    <3> QED BY <3>2
  <2>2. ASSUME NEW k \in S PROVE k + 1 \in S
    <3>1. PICK f : Iter(f, k)
      OBVIOUS
    <3>2. k \in Nat
      OBVIOUS
    <3> HIDE DEF S
    <3> DEFINE g == [t \in SUBSET (1..k + 1) |->
                       IF k + 1 \in t THEN Take(f[t \ {k + 1}], s[k + 1]) ELSE f[t]]
    <3>3. ASSUME NEW t \in SUBSET (1..k + 1)
          PROVE  g[t] = IF t = {} THEN c ELSE Take(g[t \ {Max(t)}], s[Max(t)])
      <4>1. CASE k + 1 \in t
        <5>1. Max(t) = k + 1
          BY <1>2, <3>2, <4>1
        <5>2. t \ {k + 1} \in SUBSET (1..k + 1) /\ k + 1 \notin t \ {k + 1}
          OBVIOUS
        <5>3. g[t \ {k + 1}] = f[t \ {k + 1}]
          BY <5>2
        <5>4. g[t] = Take(f[t \ {k + 1}], s[k + 1])
          BY <4>1
        <5> HIDE DEF g
        <5> QED BY <4>1, <5>1, <5>3, <5>4
      <4>2. CASE k + 1 \notin t
        <5>1. t \in SUBSET (1..k)
          BY <3>2, <4>2
        <5>2. g[t] = f[t]
          BY <4>2
        <5>3. f[t] = IF t = {} THEN c ELSE Take(f[t \ {Max(t)}], s[Max(t)])
          BY <3>1, <5>1
        <5>4. g[t \ {Max(t)}] = f[t \ {Max(t)}]
          BY <4>2
        <5> HIDE DEF g, Iter
        <5> QED BY <5>2, <5>3, <5>4
      <4> QED BY <4>1, <4>2
    <3>4. Iter(g, k + 1)
      BY <3>3
    <3> HIDE DEF g
    <3>5. k + 1 \in Nat
      BY <3>2
    <3> QED BY <3>4, <3>5 DEF S
  <2> HIDE DEF S
  <2>3. S \in SUBSET Nat
    BY DEF S
  <2>4. S = Nat
    BY <2>1, <2>2, <2>3, Induction
  <2> QED BY <2>4 DEF S
<1> DEFINE F == CHOOSE f : Iter(f, n)
<1>4. Iter(F, n)
  BY <1>3
<1> HIDE DEF F
<1> DEFINE st == [i \in 0..n |-> F[1..i]]
<1>5. st[0] = c
  <2>1. 1..0 = {} /\ {} \in SUBSET (1..n)
    OBVIOUS
  <2>2. F[{}] = c
    BY <1>4, <2>1
  <2> QED BY <2>1, <2>2
<1>6. ASSUME NEW i \in 1..n PROVE st[i] = Take(st[i - 1], s[i])
  <2>1. /\ 1..i \in SUBSET (1..n) /\ 1..i # {}
        /\ i - 1 \in 0..n /\ i \in 0..n
    <3>1. i \in Nat /\ 1 <= i /\ i <= n
      OBVIOUS
    <3>2. i \in 1..i /\ i - 1 \in 0..n /\ i \in 0..n
      BY <3>1
    <3>3. \A x \in 1..i : x \in 1..n
      BY <3>1
    <3> QED BY <3>2, <3>3
  <2>2. Max(1..i) = i
    <3>1. 1..i \in SUBSET (1..(i - 1) + 1) /\ (i - 1) + 1 \in 1..i /\ i - 1 \in Nat
      OBVIOUS
    <3>2. Max(1..i) = (i - 1) + 1
      BY <1>2, <3>1
    <3> QED BY <3>2
  <2>3. (1..i) \ {i} = 1..i - 1
    OBVIOUS
  <2>4. F[1..i] = Take(F[(1..i) \ {Max(1..i)}], s[Max(1..i)])
    BY <1>4, <2>1
  <2>5. st[i] = F[1..i] /\ st[i - 1] = F[1..i - 1]
    BY <2>1
  <2> HIDE DEF st, Iter
  <2> QED BY <2>2, <2>3, <2>4, <2>5
<1>7. st[n] = F[1..n]
  OBVIOUS
<1> HIDE DEF st
<1>8. Run(st, c, s, n)
  BY <1>5, <1>6 DEF Run
<1> QED BY <1>1, <1>7, <1>8 DEF F

-----------------------------------------------------------------------------
\* Every frame leaves a client, whose older page asked for is the same or none.
LEMMA TakeIs ==
  ASSUME NEW c \in ClientRecord, NEW f \in Frame
  PROVE  /\ Take(c, f) \in ClientRecord
         /\ Take(c, f).before = c.before /\ Take(c, f).seq = c.seq
         /\ Take(c, f).pending \in {0, c.pending}
<1>0. PICK r : r = Take(c, f)
  OBVIOUS
<1> SUFFICES r \in ClientRecord /\ r.before = c.before /\ r.seq = c.seq /\ r.pending \in {0, c.pending}
  BY <1>0
<1> USE DEF ClientRecord
<1>1. CASE f.t = "welcome"
  <2>1. f.count \in Nat /\ f.more \in BOOLEAN
    BY <1>1 DEF Frame, ViewFrame, Error, RoomClosed, NotForMe
  <2>2. r = TakeWelcome(c, f)
    BY <1>0, <1>1 DEF Take
  <2>3. <<>> \in Seq(EntryId)
    OBVIOUS
  <2>4. PICK b \in BOOLEAN : b = f.more
    BY <2>1
  <2>5. CASE f.count = 0
    <3>1. r = [c EXCEPT !.entries = <<>>, !.pending = 0, !.more = b, !.welcomed = TRUE,
                        !.welcomeTimer = FALSE, !.snapshotTimer = FALSE, !.phase = "live"]
      BY <2>2, <2>4, <2>5 DEF TakeWelcome
    <3> QED BY <2>3, <3>1
  <2>6. CASE f.count # 0
    <3>1. r = [c EXCEPT !.entries = <<>>, !.pending = 0, !.more = b, !.welcomed = TRUE,
                        !.welcomeTimer = FALSE, !.snapshotTimer = TRUE, !.phase = c.phase]
      BY <2>2, <2>4, <2>6 DEF TakeWelcome
    <3> QED BY <2>3, <3>1
  <2> QED BY <2>5, <2>6
<1>2. CASE f.t = "snapshot-chunk"
  <2>1. f.entries \in Seq(EntryId) /\ f.final \in BOOLEAN
    BY <1>2 DEF Frame, ViewFrame, Error, RoomClosed, NotForMe
  <2>2. r = TakeChunk(c, f)
    BY <1>0, <1>2 DEF Take
  <2>3. c.entries \o f.entries \in Seq(EntryId)
    BY <2>1
  <2> QED BY <2>1, <2>2, <2>3 DEF TakeChunk
<1>3. CASE f.t = "entry"
  <2>1. f.entry \in EntryId
    BY <1>3 DEF Frame, ViewFrame, Error, RoomClosed, NotForMe
  <2>2. r = [c EXCEPT !.entries = Append(c.entries, f.entry)]
    BY <1>0, <1>3 DEF Take
  <2>3. Append(c.entries, f.entry) \in Seq(EntryId)
    BY <2>1
  <2> QED BY <2>2, <2>3
<1>4. CASE f.t = "history"
  <2>1. f.entries \in Seq(EntryId) /\ f.more \in BOOLEAN
    BY <1>4 DEF Frame, ViewFrame, Error, RoomClosed, NotForMe
  <2>2. r = TakeHistory(c, f)
    BY <1>0, <1>4 DEF Take
  <2>3. f.entries \o c.entries \in Seq(EntryId)
    BY <2>1
  <2>4. CASE c.pending # f.reqId
    BY <2>2, <2>4 DEF TakeHistory
  <2>5. CASE c.pending = f.reqId /\ c.entries # <<>> /\ c.entries[1] = c.before
    <3>1. PICK e \in Seq(EntryId), b \in BOOLEAN : e = f.entries \o c.entries /\ b = f.more
      BY <2>1, <2>3
    <3>2. r = [c EXCEPT !.pending = 0, !.entries = e, !.more = b]
      BY <2>2, <2>5, <3>1 DEF TakeHistory
    <3> QED BY <3>2
  <2>6. CASE c.pending = f.reqId /\ ~(c.entries # <<>> /\ c.entries[1] = c.before)
    <3>1. r = [c EXCEPT !.pending = 0]
      BY <2>2, <2>6 DEF TakeHistory
    <3> QED BY <3>1
  <2> QED BY <2>4, <2>5, <2>6
<1>5. CASE f.t \notin {"welcome", "snapshot-chunk", "entry", "history"}
  <2>1. r = c
    BY <1>0, <1>5 DEF Take
  <2> QED BY <2>1
<1> QED BY <1>1, <1>2, <1>3, <1>4, <1>5

\* So does a run.
LEMMA RunIs ==
  ASSUME NEW c \in ClientRecord, NEW s \in Seq(Frame), NEW n \in 0..Len(s),
         NEW st, Run(st, c, s, n), NEW i \in 0..n
  PROVE  /\ st[i] \in ClientRecord
         /\ st[i].before = c.before /\ st[i].seq = c.seq /\ st[i].pending \in {0, c.pending}
<1> DEFINE Same(r) == /\ r \in ClientRecord
                      /\ r.before = c.before /\ r.seq = c.seq /\ r.pending \in {0, c.pending}
           S == {k \in Nat : k <= n => Same(st[k])}
<1>1. 0 \in S
  BY DEF Run
<1>2. ASSUME NEW k \in S PROVE k + 1 \in S
  <2> SUFFICES ASSUME k + 1 <= n PROVE Same(st[k + 1])
    OBVIOUS
  <2>1. Same(st[k]) /\ k + 1 \in 1..n /\ k + 1 \in 1..Len(s) /\ (k + 1) - 1 = k
    OBVIOUS
  <2>2. st[k + 1] = Take(st[k], s[k + 1]) /\ s[k + 1] \in Frame
    BY <2>1 DEF Run
  <2> QED BY <2>1, <2>2, TakeIs
<1> HIDE DEF Same
<1>3. S = Nat
  BY <1>1, <1>2, Induction
<1>4. Same(st[i])
  BY <1>3
<1> QED BY <1>4 DEF Same

\* Frames that make no client live, and put nothing in order.
Quiet(f) == f.t \in {"entry", "error", "room-closed", "none"}

\* Quiet frames leave the phase of a client.
LEMMA QuietRun ==
  ASSUME NEW c \in ClientRecord, NEW s \in Seq(Frame), \A i \in DOMAIN s : Quiet(s[i]),
         NEW n \in 0..Len(s), NEW st, Run(st, c, s, n)
  PROVE  st[n].phase = c.phase
<1> DEFINE S == {k \in Nat : k <= n => st[k].phase = c.phase}
<1>1. 0 \in S
  BY DEF Run
<1>2. ASSUME NEW k \in S PROVE k + 1 \in S
  <2> SUFFICES ASSUME k + 1 <= n PROVE st[k + 1].phase = c.phase
    OBVIOUS
  <2>1. st[k].phase = c.phase /\ k + 1 \in 1..n /\ k + 1 \in DOMAIN s /\ (k + 1) - 1 = k /\ k \in 0..n
    OBVIOUS
  <2>2. st[k + 1] = Take(st[k], s[k + 1]) /\ Quiet(s[k + 1])
    BY <2>1 DEF Run
  <2>3. st[k] \in ClientRecord
    BY <2>1, RunIs
  <2>4. Take(st[k], s[k + 1]).phase = st[k].phase
    BY <2>2, <2>3 DEF Take, Quiet, ClientRecord
  <2> QED BY <2>1, <2>2, <2>4
<1>3. S = Nat
  BY <1>1, <1>2, Induction
<1> QED BY <1>3

(***************************************************************************)
(* Replicas in order, whatever comes.                                      *)
(***************************************************************************)

\* The client while what it has asked for is given up.
Forgetful(c) == [c EXCEPT !.pending = 0]
Views(c) == {c, Forgetful(c)}

\* Whenever the client is live, on reading s, it shows a gapless run.
Sound(c, s) ==
  \A st : \A n \in 0..Len(s) :
    Run(st, c, s, n) /\ st[n].phase = "live" => Contiguous(st[n].entries)

\* The run goes up to entry l, and older entries are offered exactly if there are some.
Complete(c, l) ==
  /\ c.phase = "live" /\ Contiguous(c.entries)
  /\ IF c.entries = <<>> THEN l = 0 ELSE c.entries[Len(c.entries)] = l
  /\ c.more = Older(c.entries)

\* It is complete when s has been read.
Whole(c, s, l) == \A st : Run(st, c, s, Len(s)) => Complete(st[Len(s)], l)

\* A client without a question is a client.
LEMMA ViewsAre ==
  ASSUME NEW c \in ClientRecord, NEW v \in Views(c)
  PROVE  /\ v \in ClientRecord
         /\ v.phase = c.phase /\ v.entries = c.entries /\ v.more = c.more
         /\ v.before = c.before /\ v.seq = c.seq /\ v.pending \in {0, c.pending}
<1>1. CASE v = c
  BY <1>1
<1>2. CASE v = [c EXCEPT !.pending = 0]
  BY <1>2 DEF ClientRecord
<1> QED BY <1>1, <1>2 DEF Views, Forgetful

\* Less may come.
LEMMA PrefixSound ==
  ASSUME NEW c, NEW s \in Seq(Frame), NEW t \in Seq(Frame), Len(t) <= Len(s),
         \A i \in 1..Len(t) : t[i] = s[i], Sound(c, s)
  PROVE  Sound(c, t)
<1> SUFFICES ASSUME NEW st, NEW n \in 0..Len(t), Run(st, c, t, n), st[n].phase = "live"
             PROVE  Contiguous(st[n].entries)
  BY DEF Sound
<1>1. n \in 0..Len(s)
  OBVIOUS
<1>2. ASSUME NEW i \in 1..n PROVE st[i] = Take(st[i - 1], s[i])
  <2>1. i \in 1..Len(t)
    OBVIOUS
  <2>2. t[i] = s[i]
    BY <2>1
  <2> QED BY <2>2 DEF Run
<1>3. Run(st, c, s, n)
  BY <1>2 DEF Run
<1> QED BY <1>1, <1>3 DEF Sound

\* What a frame makes of a client that has read all the others.
LEMMA AppendRun ==
  ASSUME NEW c, NEW s \in Seq(Frame), NEW f \in Frame,
         NEW st, NEW n \in 0..Len(s) + 1, Run(st, c, Append(s, f), n)
  PROVE  /\ n <= Len(s) => Run(st, c, s, n)
         /\ n = Len(s) + 1 => Run(st, c, s, Len(s)) /\ st[n] = Take(st[Len(s)], f)
<1>1. \A i \in 1..Len(s) : Append(s, f)[i] = s[i]
  OBVIOUS
<1>2. Append(s, f)[Len(s) + 1] = f
  OBVIOUS
<1>3. ASSUME NEW m \in 0..Len(s), m <= n PROVE Run(st, c, s, m)
  BY <1>1, <1>3 DEF Run
<1>4. ASSUME n = Len(s) + 1 PROVE st[n] = Take(st[Len(s)], f)
  <2>1. n \in 1..n /\ n - 1 = Len(s)
    BY <1>4
  <2> QED BY <1>2, <1>4, <2>1 DEF Run
<1> QED BY <1>3, <1>4

\* A frame more: the run that follows must be gapless after it too.
LEMMA AppendSound ==
  ASSUME NEW c, NEW s \in Seq(Frame), NEW f \in Frame, Sound(c, s),
         \A st : Run(st, c, s, Len(s)) /\ Take(st[Len(s)], f).phase = "live"
                   => Contiguous(Take(st[Len(s)], f).entries)
  PROVE  Sound(c, Append(s, f))
<1> SUFFICES ASSUME NEW st, NEW n \in 0..Len(Append(s, f)), Run(st, c, Append(s, f), n),
                    st[n].phase = "live"
             PROVE  Contiguous(st[n].entries)
  BY DEF Sound
<1>1. n \in 0..Len(s) + 1
  OBVIOUS
<1>2. CASE n <= Len(s)
  <2>1. n \in 0..Len(s) /\ Run(st, c, s, n)
    BY <1>1, <1>2, AppendRun
  <2> QED BY <2>1 DEF Sound
<1>3. CASE n = Len(s) + 1
  <2>1. Run(st, c, s, Len(s)) /\ st[n] = Take(st[Len(s)], f)
    BY <1>1, <1>3, AppendRun
  <2> QED BY <2>1
<1> QED BY <1>1, <1>2, <1>3

\* A frame more: it must leave the replica complete.
LEMMA AppendWhole ==
  ASSUME NEW c, NEW s \in Seq(Frame), NEW f \in Frame, NEW l,
         \A st : Run(st, c, s, Len(s)) => Complete(Take(st[Len(s)], f), l)
  PROVE  Whole(c, Append(s, f), l)
<1> SUFFICES ASSUME NEW st, Run(st, c, Append(s, f), Len(Append(s, f)))
             PROVE  Complete(st[Len(Append(s, f))], l)
  BY DEF Whole
<1>1. Len(Append(s, f)) = Len(s) + 1 /\ Len(s) + 1 \in 0..Len(s) + 1
  OBVIOUS
<1>2. Run(st, c, s, Len(s)) /\ st[Len(s) + 1] = Take(st[Len(s)], f)
  BY <1>1, AppendRun
<1> QED BY <1>1, <1>2

\* Frames that are for others, or for the person that reads, change nothing.
Idle(f) == f.t \in {"error", "room-closed", "none"}

\* An idle frame changes no client.
LEMMA IdleIs ==
  ASSUME NEW r, NEW f, Idle(f)
  PROVE  Take(r, f) = r
BY DEF Idle, Take

\* An idle frame more changes nothing.
LEMMA IdleAppends ==
  ASSUME NEW c, NEW s \in Seq(Frame), NEW f \in Frame, Idle(f), NEW l
  PROVE  /\ Sound(c, s) => Sound(c, Append(s, f))
         /\ Whole(c, s, l) => Whole(c, Append(s, f), l)
<1>1. \A r : Take(r, f) = r
  BY IdleIs
<1>2. ASSUME Sound(c, s) PROVE Sound(c, Append(s, f))
  <2>1. Len(s) \in 0..Len(s)
    OBVIOUS
  <2>2. ASSUME NEW st, Run(st, c, s, Len(s)), Take(st[Len(s)], f).phase = "live"
        PROVE  Contiguous(Take(st[Len(s)], f).entries)
    BY <1>1, <1>2, <2>1, <2>2 DEF Sound
  <2> QED BY <1>2, <2>2, AppendSound
<1>3. ASSUME Whole(c, s, l) PROVE Whole(c, Append(s, f), l)
  <2>1. ASSUME NEW st, Run(st, c, s, Len(s)) PROVE Complete(Take(st[Len(s)], f), l)
    BY <1>1, <1>3, <2>1 DEF Whole
  <2> QED BY <2>1, AppendWhole
<1> QED BY <1>2, <1>3

\* Such a frame may be left out where it stands.
LEMMA IdleDrops ==
  ASSUME NEW c, NEW s \in Seq(Frame), NEW t \in Seq(Frame), Len(s) = Len(t) + 1,
         NEW k \in 0..Len(t), Idle(s[k + 1]),
         \A i \in 1..k : t[i] = s[i], \A i \in k + 1..Len(t) : t[i] = s[i + 1], NEW l
  PROVE  /\ Sound(c, s) => Sound(c, t)
         /\ Whole(c, s, l) => Whole(c, t, l)
<1> DEFINE Slow(st) == [i \in Nat |-> IF i <= k THEN st[i] ELSE st[i - 1]]
<1>1. ASSUME NEW st, NEW n \in 0..Len(t), Run(st, c, t, n), n >= k
      PROVE  Run(Slow(st), c, s, n + 1) /\ Slow(st)[n + 1] = st[n]
  <2>1. k \in Nat /\ n \in Nat /\ n <= Len(t)
    OBVIOUS
  <2>2. Slow(st)[0] = c
    BY <1>1, <2>1 DEF Run
  <2>3. ASSUME NEW i \in 1..n + 1 PROVE Slow(st)[i] = Take(Slow(st)[i - 1], s[i])
    <3>1. CASE i <= k
      <4>1. Slow(st)[i] = st[i] /\ Slow(st)[i - 1] = st[i - 1] /\ i \in 1..n /\ s[i] = t[i]
        BY <1>1, <2>1, <3>1
      <4> HIDE DEF Slow
      <4> QED BY <1>1, <4>1 DEF Run
    <3>2. CASE i = k + 1
      <4>1. Slow(st)[i] = st[k] /\ Slow(st)[i - 1] = st[k] /\ s[i] = s[k + 1]
        BY <2>1, <3>2
      <4> HIDE DEF Slow
      <4> QED BY <4>1, IdleIs
    <3>3. CASE i > k + 1
      <4>1. Slow(st)[i] = st[i - 1] /\ Slow(st)[i - 1] = st[(i - 1) - 1] /\ i - 1 \in 1..n
        BY <2>1, <3>3
      <4>2. i - 1 \in k + 1..Len(t) /\ (i - 1) + 1 = i
        BY <2>1, <3>3
      <4>3. t[i - 1] = s[i]
        BY <4>2
      <4> HIDE DEF Slow
      <4> QED BY <1>1, <4>1, <4>3 DEF Run
    <3> QED BY <2>1, <3>1, <3>2, <3>3
  <2>4. Slow(st)[n + 1] = st[n]
    BY <1>1, <2>1
  <2> HIDE DEF Slow
  <2> QED BY <2>2, <2>3, <2>4 DEF Run
<1>2. ASSUME NEW st, NEW n \in 0..k, Run(st, c, t, n) PROVE Run(st, c, s, n)
  BY <1>2 DEF Run
<1> HIDE DEF Slow
<1>4. ASSUME Sound(c, s) PROVE Sound(c, t)
  <2> SUFFICES ASSUME NEW st, NEW n \in 0..Len(t), Run(st, c, t, n), st[n].phase = "live"
               PROVE  Contiguous(st[n].entries)
    BY DEF Sound
  <2>1. CASE n <= k
    <3>1. n \in 0..k /\ n \in 0..Len(s)
      BY <2>1
    <3> QED BY <1>2, <1>4, <3>1 DEF Sound
  <2>2. CASE n > k
    <3>1. n + 1 \in 0..Len(s)
      OBVIOUS
    <3> QED BY <1>1, <1>4, <2>2, <3>1 DEF Sound
  <2> QED BY <2>1, <2>2
<1>5. ASSUME Whole(c, s, l) PROVE Whole(c, t, l)
  <2> SUFFICES ASSUME NEW st, Run(st, c, t, Len(t)) PROVE Complete(st[Len(t)], l)
    BY DEF Whole
  <2>1. Len(t) \in 0..Len(t) /\ Len(t) >= k
    OBVIOUS
  <2>2. Run(Slow(st), c, s, Len(s)) /\ Slow(st)[Len(s)] = st[Len(t)]
    BY <1>1, <2>1
  <2> QED BY <1>5, <2>2 DEF Whole
<1> QED BY <1>4, <1>5

(***************************************************************************)
(* Runs of entries.                                                        *)
(***************************************************************************)

\* A piece of the log is a gapless run.
LEMMA NumbersIs ==
  ASSUME NEW first \in EntryId, NEW last \in Nat, first <= last + 1
  PROVE  /\ Numbers(first, last) \in Seq(EntryId) /\ Len(Numbers(first, last)) = last + 1 - first
         /\ \A i \in 1..last + 1 - first : Numbers(first, last)[i] = first + i - 1
         /\ Contiguous(Numbers(first, last))
<1>1. last + 1 - first \in Nat /\ \A i \in 1..last + 1 - first : first + i - 1 \in EntryId
  BY DEF EntryId
<1>2. Numbers(first, last) \in Seq(EntryId)
  BY <1>1 DEF Numbers
<1>3. Len(Numbers(first, last)) = last + 1 - first
  BY <1>1, <1>2, LenProperties DEF Numbers
<1>4. \A i \in 1..last + 1 - first : Numbers(first, last)[i] = first + i - 1
  BY DEF Numbers
<1>5. Contiguous(Numbers(first, last))
  BY <1>1, <1>3, <1>4 DEF Contiguous, EntryId
<1> QED BY <1>2, <1>3, <1>4, <1>5

\* Two runs join where one begins after the other's end.
LEMMA JoinContiguous ==
  ASSUME NEW a \in Seq(EntryId), NEW b \in Seq(EntryId), Contiguous(a), Contiguous(b),
         a # <<>> /\ b # <<>> => b[1] = a[Len(a)] + 1
  PROVE  Contiguous(a \o b)
<1>0. a \o b \in Seq(EntryId)
  OBVIOUS
<1>1. PICK x \in Seq(EntryId) : x = a \o b
  BY <1>0, Zenon
<1>2. Len(x) = Len(a) + Len(b) /\ Len(a) \in Nat /\ Len(b) \in Nat
  BY <1>1
<1>3. \A i \in 1..Len(a) : x[i] = a[i]
  BY <1>1
<1>4. \A i \in 1..Len(b) : x[Len(a) + i] = b[i]
  BY <1>1
<1> SUFFICES ASSUME NEW i \in 1..Len(x) - 1 PROVE x[i + 1] = x[i] + 1
  BY <1>1 DEF Contiguous
<1>5. CASE i < Len(a)
  <2>1. i \in 1..Len(a) - 1 /\ i \in 1..Len(a) /\ i + 1 \in 1..Len(a)
    BY <1>2, <1>5
  <2>2. x[i] = a[i] /\ x[i + 1] = a[i + 1]
    BY <1>3, <2>1
  <2>3. a[i + 1] = a[i] + 1
    BY <2>1 DEF Contiguous
  <2> QED BY <2>2, <2>3
<1>6. CASE i = Len(a)
  <2>1. i \in 1..Len(a) /\ 1 \in 1..Len(b) /\ a # <<>> /\ b # <<>>
    BY <1>2, <1>6
  <2> QED BY <1>3, <1>4, <1>6, <2>1
<1>7. CASE i > Len(a)
  <2>1. PICK j \in 1..Len(b) - 1 : i = Len(a) + j
    <3>1. i - Len(a) \in 1..Len(b) - 1 /\ i = Len(a) + (i - Len(a))
      BY <1>2, <1>7
    <3> QED BY <3>1
  <2>2. j \in 1..Len(b) /\ j + 1 \in 1..Len(b) /\ i + 1 = Len(a) + (j + 1)
    BY <1>2, <2>1
  <2>3. x[i] = b[j] /\ x[i + 1] = b[j + 1] /\ b[j + 1] = b[j] + 1
    BY <1>4, <2>1, <2>2 DEF Contiguous
  <2> QED BY <2>3
<1> QED BY <1>2, <1>5, <1>6, <1>7

\* The next entry goes behind a replica that is complete.
LEMMA EntryTaken ==
  ASSUME NEW r \in ClientRecord, NEW l \in Nat, Complete(r, l)
  PROVE  Complete(Take(r, Entry(l + 1)), l + 1)
<1>1. PICK e \in Seq(EntryId) : e = r.entries
  BY DEF ClientRecord
<1>2. l + 1 \in EntryId
  BY DEF EntryId
<1>0. Append(e, l + 1) \in Seq(EntryId)
  BY <1>1, <1>2
<1>3. PICK x \in Seq(EntryId) : x = Append(e, l + 1)
  BY <1>0, Zenon
<1>4. /\ Len(x) = Len(e) + 1 /\ x[Len(x)] = l + 1 /\ x # <<>>
      /\ \A i \in 1..Len(e) : x[i] = e[i]
  BY <1>1, <1>2, <1>3
<1>5. Take(r, Entry(l + 1)).phase = r.phase /\ Take(r, Entry(l + 1)).entries = x
      /\ Take(r, Entry(l + 1)).more = r.more
  BY <1>1, <1>3 DEF Take, Entry, ClientRecord
<1>6. Contiguous(x)
  <2>1. Contiguous(e) /\ (e # <<>> => e[Len(e)] = l)
    BY <1>1 DEF Complete
  <2>2. ASSUME NEW i \in 1..Len(x) - 1 PROVE x[i + 1] = x[i] + 1
    <3>1. i \in 1..Len(e) /\ Len(e) \in Nat
      BY <1>4
    <3>2. CASE i < Len(e)
      <4>1. i \in 1..Len(e) - 1 /\ i + 1 \in 1..Len(e)
        BY <3>1, <3>2
      <4> QED BY <1>4, <2>1, <3>1, <4>1 DEF Contiguous
    <3>3. CASE i = Len(e)
      <4>1. e # <<>> /\ x[i] = e[i] /\ i + 1 = Len(x)
        BY <1>4, <3>1, <3>3
      <4> QED BY <1>4, <2>1, <3>3, <4>1
    <3> QED BY <3>1, <3>2, <3>3
  <2> QED BY <2>2 DEF Contiguous
<1>7. Older(x) <=> Older(e)
  <2>1. CASE e = <<>>
    <3>1. l = 0 /\ x[1] = 1
      BY <1>1, <1>4, <2>1 DEF Complete
    <3> QED BY <2>1, <3>1 DEF Older
  <2>2. CASE e # <<>>
    <3>1. x[1] = e[1]
      BY <1>4, <2>2
    <3> QED BY <1>4, <2>2, <3>1 DEF Older
  <2> QED BY <2>1, <2>2
<1>8. r.more = Older(e) /\ r.phase = "live"
  BY <1>1 DEF Complete
<1>9. r.more = Older(x)
  BY <1>7, <1>8 DEF Older
<1> HIDE DEF Older
<1> QED BY <1>4, <1>5, <1>6, <1>8, <1>9 DEF Complete

\* A new entry behind what completes a replica completes it for the longer log.
LEMMA EntryAppends ==
  ASSUME NEW c \in ClientRecord, NEW s \in Seq(Frame), NEW l \in Nat,
         Whole(c, s, l), Sound(c, s)
  PROVE  Sound(c, Append(s, Entry(l + 1))) /\ Whole(c, Append(s, Entry(l + 1)), l + 1)
<1>1. Entry(l + 1) \in Frame
  BY DEF Entry, Frame, ViewFrame, EntryId
<1>2. ASSUME NEW st, Run(st, c, s, Len(s)) PROVE Complete(Take(st[Len(s)], Entry(l + 1)), l + 1)
  <2>1. Len(s) \in 0..Len(s)
    OBVIOUS
  <2>2. st[Len(s)] \in ClientRecord
    BY <1>2, <2>1, RunIs
  <2>3. Complete(st[Len(s)], l)
    BY <1>2 DEF Whole
  <2> QED BY <2>2, <2>3, EntryTaken
<1>3. ASSUME NEW st, Run(st, c, s, Len(s)) PROVE Contiguous(Take(st[Len(s)], Entry(l + 1)).entries)
  BY <1>2, <1>3 DEF Complete
<1>4. l + 1 \in Nat
  OBVIOUS
<1> QED BY <1>1, <1>2, <1>3, <1>4, AppendSound, AppendWhole

\* A page ends right below the entry it is asked for, and is empty only below the first.
LEMMA PageIs ==
  ASSUME NEW b \in EntryId, NEW page \in Pages(b)
  PROVE  /\ page \in Seq(EntryId) /\ Contiguous(page)
         /\ IF page = <<>> THEN b = 1 ELSE page[Len(page)] + 1 = b
<1>1. PICK first \in 1..b : page = Numbers(first, b - 1) /\ (b > 1 => first < b)
  BY DEF Pages
<1>2. b \in Nat /\ b >= 1 /\ first \in EntryId /\ b - 1 \in Nat /\ first <= (b - 1) + 1
  BY <1>1 DEF EntryId
<1>3. /\ page \in Seq(EntryId) /\ Contiguous(page) /\ Len(page) = (b - 1) + 1 - first
      /\ \A i \in 1..(b - 1) + 1 - first : page[i] = first + i - 1
  BY <1>1, <1>2, NumbersIs
<1>4. CASE page = <<>>
  <2>1. Len(page) = 0
    BY <1>4
  <2>2. b = 1
    BY <1>1, <1>2, <1>3, <2>1
  <2> QED BY <1>3, <1>4, <2>2
<1>5. CASE page # <<>>
  <2>1. Len(page) # 0
    BY <1>3, <1>5
  <2>2. page[Len(page)] = first + Len(page) - 1
    BY <1>2, <1>3, <2>1
  <2> QED BY <1>2, <1>3, <1>5, <2>2
<1> QED BY <1>4, <1>5

\* An older page goes in front of the replica it was asked for, or nowhere.
LEMMA HistoryTaken ==
  ASSUME NEW r \in ClientRecord, NEW b \in EntryId, NEW reqId \in Nat \ {0},
         NEW page \in Pages(b), r.pending = reqId => r.before = b, Contiguous(r.entries)
  PROVE  LET u == Take(r, History(reqId, page, Older(page))) IN
         /\ u.phase = r.phase /\ Contiguous(u.entries)
         /\ \A l : Complete(r, l) => Complete(u, l)
<1> DEFINE f == History(reqId, page, Older(page))
<1>1. PICK u : u = Take(r, f)
  OBVIOUS
<1>2. u = TakeHistory(r, f)
  BY <1>1 DEF Take, History
<1>3. f.reqId = reqId /\ f.entries = page /\ f.more = Older(page)
  BY DEF History
<1> HIDE DEF f
<1> SUFFICES u.phase = r.phase /\ Contiguous(u.entries) /\ \A l : Complete(r, l) => Complete(u, l)
  BY <1>1 DEF f
<1>4. CASE r.pending # reqId
  <2>1. u = r
    BY <1>2, <1>3, <1>4 DEF TakeHistory
  <2> QED BY <2>1
<1>5. CASE r.pending = reqId /\ ~(r.entries # <<>> /\ r.entries[1] = r.before)
  <2>1. u = [r EXCEPT !.pending = 0]
    BY <1>2, <1>3, <1>5 DEF TakeHistory
  <2>2. u.phase = r.phase /\ u.entries = r.entries /\ u.more = r.more
    BY <2>1 DEF ClientRecord
  <2> QED BY <2>2 DEF Complete
<1>6. CASE r.pending = reqId /\ r.entries # <<>> /\ r.entries[1] = r.before
  <2>1. PICK e \in Seq(EntryId) : e = r.entries
    BY DEF ClientRecord
  <2>2. page \in Seq(EntryId) /\ Contiguous(page) /\ IF page = <<>> THEN b = 1 ELSE page[Len(page)] + 1 = b
    BY PageIs
  <2>3. page \o e \in Seq(EntryId)
    BY <2>2
  <2>4. PICK x \in Seq(EntryId) : x = page \o e
    BY <2>3, Zenon
  <2>5. e # <<>> /\ e[1] = b
    BY <1>6, <2>1
  <2>6. u = [r EXCEPT !.pending = 0, !.entries = x, !.more = Older(page)]
    BY <1>2, <1>3, <1>6, <2>1, <2>4 DEF TakeHistory
  <2>7. u.phase = r.phase /\ u.entries = x /\ u.more = Older(page)
    BY <2>6 DEF ClientRecord
  <2>8. Contiguous(x)
    <3>1. page # <<>> /\ e # <<>> => e[1] = page[Len(page)] + 1
      BY <2>2, <2>5
    <3> QED BY <2>1, <2>2, <2>4, <3>1, JoinContiguous
  <2>9. x # <<>> /\ x[Len(x)] = e[Len(e)]
    BY <2>2, <2>4, <2>5
  <2>10. Older(page) = Older(x)
    <3>1. CASE page = <<>>
      <4>1. x[1] = 1
        BY <2>2, <2>4, <2>5, <3>1
      <4> QED BY <3>1, <4>1 DEF Older
    <3>2. CASE page # <<>>
      <4>1. x[1] = page[1]
        BY <2>2, <2>4, <3>2
      <4> QED BY <2>9, <3>2, <4>1 DEF Older
    <3> QED BY <3>1, <3>2
  <2>11. ASSUME NEW l, Complete(r, l) PROVE Complete(u, l)
    <3>1. e[Len(e)] = l /\ r.phase = "live"
      BY <2>1, <2>5, <2>11 DEF Complete
    <3> HIDE DEF Older
    <3> QED BY <2>7, <2>8, <2>9, <2>10, <3>1 DEF Complete
  <2> QED BY <2>7, <2>8, <2>11
<1> QED BY <1>4, <1>5, <1>6

\* The answer to a request, behind what completes a replica, keeps it complete.
LEMMA HistoryAppends ==
  ASSUME NEW c \in ClientRecord, NEW s \in Seq(Frame), NEW l, NEW b \in EntryId,
         NEW reqId \in Nat \ {0}, NEW page \in Pages(b), c.pending = reqId => c.before = b,
         Sound(c, s)
  PROVE  LET f == History(reqId, page, Older(page)) IN
         /\ Sound(c, Append(s, f))
         /\ Whole(c, s, l) => Whole(c, Append(s, f), l)
<1> DEFINE f == History(reqId, page, Older(page))
<1>1. page \in Seq(EntryId) /\ Older(page) \in BOOLEAN
  BY PageIs DEF Older
<1>2. f \in Frame
  BY <1>1 DEF History, Frame, ViewFrame
<1>3. Len(s) \in 0..Len(s)
  OBVIOUS
<1>4. ASSUME NEW st, Run(st, c, s, Len(s))
      PROVE  st[Len(s)] \in ClientRecord /\ (st[Len(s)].pending = reqId => st[Len(s)].before = b)
  <2>1. st[Len(s)] \in ClientRecord /\ st[Len(s)].before = c.before /\ st[Len(s)].pending \in {0, c.pending}
    BY <1>3, <1>4, RunIs
  <2> QED BY <2>1
<1>5. ASSUME NEW st, Run(st, c, s, Len(s)), Contiguous(st[Len(s)].entries)
      PROVE  LET u == Take(st[Len(s)], f) IN
             /\ u.phase = st[Len(s)].phase /\ Contiguous(u.entries)
             /\ Complete(st[Len(s)], l) => Complete(u, l)
  BY <1>4, <1>5, HistoryTaken
<1>6. ASSUME NEW st, Run(st, c, s, Len(s)), Take(st[Len(s)], f).phase = "live"
      PROVE  Contiguous(Take(st[Len(s)], f).entries)
  <2>1. st[Len(s)].phase = "live"
    <3>1. PICK r \in ClientRecord : r = st[Len(s)]
      BY <1>4, <1>6
    <3>2. Take(r, f) = TakeHistory(r, f)
      BY DEF Take, History
    <3>3. TakeHistory(r, f).phase = r.phase
      BY DEF TakeHistory, ClientRecord
    <3> QED BY <1>6, <3>1, <3>2, <3>3
  <2>2. Contiguous(st[Len(s)].entries)
    BY <1>3, <1>6, <2>1 DEF Sound
  <2> HIDE DEF f
  <2> QED BY <1>5, <1>6, <2>2
<1>7. ASSUME Whole(c, s, l), NEW st, Run(st, c, s, Len(s)) PROVE Complete(Take(st[Len(s)], f), l)
  <2>1. Complete(st[Len(s)], l)
    BY <1>7 DEF Whole
  <2>2. Contiguous(st[Len(s)].entries)
    BY <2>1 DEF Complete
  <2> HIDE DEF f
  <2> QED BY <1>5, <1>7, <2>1, <2>2
<1> HIDE DEF f
<1>8. Sound(c, Append(s, f))
  BY <1>2, <1>6, AppendSound
<1>9. Whole(c, s, l) => Whole(c, Append(s, f), l)
  BY <1>2, <1>7, AppendWhole
<1> QED BY <1>8, <1>9 DEF f

\* A client that is not live, and hears nothing that could make it so, stays so.
LEMMA QuietSound ==
  ASSUME NEW c \in ClientRecord, NEW s \in Seq(Frame), c.phase # "live",
         \A i \in DOMAIN s : Quiet(s[i])
  PROVE  Sound(c, s)
BY QuietRun DEF Sound

(***************************************************************************)
(* Reading.                                                                *)
(***************************************************************************)

\* A run without its first step, and with one before it.
LEMMA ReadRun ==
  ASSUME NEW c, NEW s \in Seq(Frame), s # <<>>, NEW n \in 0..Len(Tail(s)), NEW st,
         Run(st, Take(c, Head(s)), Tail(s), n)
  PROVE  \E st2 : Run(st2, c, s, n + 1) /\ st2[n + 1] = st[n]
<1> DEFINE st2 == [i \in Nat |-> IF i = 0 THEN c ELSE st[i - 1]]
<1>1. Head(s) = s[1] /\ Len(Tail(s)) = Len(s) - 1 /\ \A i \in 1..Len(Tail(s)) : Tail(s)[i] = s[i + 1]
  OBVIOUS
<1>2. n \in Nat /\ n <= Len(Tail(s))
  OBVIOUS
<1>3. st2[0] = c
  OBVIOUS
<1>4. ASSUME NEW i \in 1..n + 1 PROVE st2[i] = Take(st2[i - 1], s[i])
  <2>1. CASE i = 1
    <3>1. st2[i] = st[0] /\ st2[i - 1] = c
      BY <2>1
    <3> HIDE DEF st2
    <3> QED BY <1>1, <2>1, <3>1 DEF Run
  <2>2. CASE i > 1
    <3>1. st2[i] = st[i - 1] /\ st2[i - 1] = st[(i - 1) - 1] /\ i - 1 \in 1..n
      BY <1>2, <2>2
    <3>2. i - 1 \in 1..Len(Tail(s)) /\ (i - 1) + 1 = i
      BY <1>2, <2>2
    <3>3. Tail(s)[i - 1] = s[i]
      BY <1>1, <3>2
    <3> HIDE DEF st2
    <3> QED BY <3>1, <3>3 DEF Run
  <2> QED BY <1>2, <2>1, <2>2
<1>5. st2[n + 1] = st[n]
  BY <1>2
<1> HIDE DEF st2
<1> QED BY <1>3, <1>4, <1>5 DEF Run

\* What is left after the first frame is sound and whole for the client that read it.
LEMMA ReadKeeps ==
  ASSUME NEW c, NEW s \in Seq(Frame), s # <<>>, NEW l
  PROVE  /\ Sound(c, s) => Sound(Take(c, Head(s)), Tail(s))
         /\ Whole(c, s, l) => Whole(Take(c, Head(s)), Tail(s), l)
<1>1. Len(Tail(s)) = Len(s) - 1 /\ Len(s) \in Nat \ {0}
  OBVIOUS
<1>2. ASSUME Sound(c, s) PROVE Sound(Take(c, Head(s)), Tail(s))
  <2> SUFFICES ASSUME NEW st, NEW n \in 0..Len(Tail(s)), Run(st, Take(c, Head(s)), Tail(s), n),
                      st[n].phase = "live"
               PROVE  Contiguous(st[n].entries)
    BY DEF Sound
  <2>1. n + 1 \in 0..Len(s)
    BY <1>1
  <2>2. PICK st2 : Run(st2, c, s, n + 1) /\ st2[n + 1] = st[n]
    BY ReadRun
  <2> QED BY <1>2, <2>1, <2>2 DEF Sound
<1>3. ASSUME Whole(c, s, l) PROVE Whole(Take(c, Head(s)), Tail(s), l)
  <2> SUFFICES ASSUME NEW st, Run(st, Take(c, Head(s)), Tail(s), Len(Tail(s)))
               PROVE  Complete(st[Len(Tail(s))], l)
    BY DEF Whole
  <2>1. Len(Tail(s)) \in 0..Len(Tail(s)) /\ Len(Tail(s)) + 1 = Len(s)
    BY <1>1
  <2>2. PICK st2 : Run(st2, c, s, Len(Tail(s)) + 1) /\ st2[Len(Tail(s)) + 1] = st[Len(Tail(s))]
    BY <2>1, ReadRun
  <2> QED BY <1>3, <2>1, <2>2 DEF Whole
<1> QED BY <1>2, <1>3

\* The client without its question, after a frame, is one of the two after it.
LEMMA ForgetfulTakes ==
  ASSUME NEW c \in ClientRecord, NEW f \in Frame
  PROVE  Forgetful(Take(c, f)) \in {Take(c, f), Take(Forgetful(c), f)}
<1>1. PICK d \in ClientRecord : d = Forgetful(c) /\ d = [c EXCEPT !.pending = 0]
  BY DEF Forgetful, ClientRecord
<1> SUFFICES Forgetful(Take(c, f)) \in {Take(c, f), Take(d, f)}
  BY <1>1
<1>2. CASE Take(c, f).pending = 0
  <2>1. Forgetful(Take(c, f)) = Take(c, f)
    <3>1. PICK r \in ClientRecord : r = Take(c, f)
      BY TakeIs
    <3> QED BY <1>2, <3>1 DEF Forgetful, ClientRecord
  <2> QED BY <2>1
<1>3. CASE Take(c, f).pending # 0
  <2>1. f.t # "welcome"
    <3> SUFFICES ASSUME f.t = "welcome" PROVE FALSE
      OBVIOUS
    <3>1. Take(c, f) = TakeWelcome(c, f)
      BY DEF Take
    <3>2. Take(c, f).pending = 0
      BY <3>1 DEF TakeWelcome, ClientRecord
    <3> QED BY <1>3, <3>2
  <2>2. CASE f.t = "snapshot-chunk"
    <3>1. Take(c, f) = TakeChunk(c, f) /\ Take(d, f) = TakeChunk(d, f)
      BY <2>2 DEF Take
    <3>2. Forgetful(TakeChunk(c, f)) = TakeChunk(d, f)
      BY <1>1 DEF TakeChunk, Forgetful, ClientRecord
    <3> QED BY <3>1, <3>2
  <2>3. CASE f.t = "entry"
    <3>1. /\ Take(c, f) = [c EXCEPT !.entries = Append(@, f.entry)]
          /\ Take(d, f) = [d EXCEPT !.entries = Append(@, f.entry)]
      BY <2>3 DEF Take
    <3>2. Forgetful([c EXCEPT !.entries = Append(@, f.entry)]) = [d EXCEPT !.entries = Append(@, f.entry)]
      BY <1>1 DEF Forgetful, ClientRecord
    <3> QED BY <3>1, <3>2
  <2>4. CASE f.t = "history"
    <3>1. Take(c, f) = TakeHistory(c, f) /\ Take(d, f) = TakeHistory(d, f)
      BY <2>4 DEF Take
    <3>2. f.reqId \in Nat \ {0}
      BY <2>4 DEF Frame, ViewFrame, Error, RoomClosed, NotForMe
    <3>3. TakeHistory(d, f) = d
      BY <1>1, <3>2 DEF TakeHistory, ClientRecord
    <3>4. CASE c.pending # f.reqId
      <4>1. Take(c, f) = c
        BY <3>1, <3>4 DEF TakeHistory
      <4> QED BY <1>1, <3>1, <3>3, <4>1
    <3>5. CASE c.pending = f.reqId
      <4>1. TakeHistory(c, f).pending = 0
        BY <3>5 DEF TakeHistory, ClientRecord
      <4> QED BY <1>3, <3>1, <4>1
    <3> QED BY <3>4, <3>5
  <2>5. CASE f.t \notin {"welcome", "snapshot-chunk", "entry", "history"}
    <3>1. Take(c, f) = c /\ Take(d, f) = d
      BY <2>5 DEF Take
    <3> QED BY <1>1, <3>1
  <2> QED BY <2>1, <2>2, <2>3, <2>4, <2>5
<1> QED BY <1>2, <1>3

(***************************************************************************)
(* The train.                                                              *)
(***************************************************************************)

\* What is read after a piece of the run that x and s have in common.
LEMMA ExtendsRun ==
  ASSUME NEW c, NEW s \in Seq(Frame), NEW x \in Seq(Frame), Len(s) <= Len(x),
         \A i \in 1..Len(s) : x[i] = s[i],
         NEW st, NEW n \in 0..Len(x), Run(st, c, x, n), NEW k \in 0..Len(s), k <= n
  PROVE  Run(st, c, s, k)
<1>1. ASSUME NEW i \in 1..k PROVE st[i] = Take(st[i - 1], s[i])
  <2>1. i \in 1..n /\ i \in 1..Len(s)
    OBVIOUS
  <2>2. x[i] = s[i]
    BY <2>1
  <2> QED BY <2>1, <2>2 DEF Run
<1> QED BY <1>1 DEF Run

\* Chunk by chunk the page is put together; the last chunk makes the client live.
LEMMA TrainRun ==
  ASSUME NEW c \in ClientRecord, NEW s \in Seq(Frame), NEW x \in Seq(Frame),
         NEW page \in Seq(EntryId), Contiguous(page), Len(x) = Len(s) + 1 + Len(page),
         x[Len(s) + 1] = Welcome(Len(page), Older(page)),
         \A j \in 1..Len(page) : x[Len(s) + 1 + j] = Chunk(page[j], j = Len(page)),
         NEW st, NEW n \in 0..Len(x), Run(st, c, x, n),
         NEW j \in 0..Len(page), Len(s) + 1 + j <= n
  PROVE  LET r == st[Len(s) + 1 + j] IN
         /\ Len(r.entries) = j /\ \A i \in 1..j : r.entries[i] = page[i]
         /\ r.more = Older(page) /\ Contiguous(r.entries)
         /\ j = Len(page) => r.phase = "live"
<1> DEFINE m == Len(s) + 1
           Shows(r, k) == /\ Len(r.entries) = k /\ \A i \in 1..k : r.entries[i] = page[i]
                          /\ r.more = Older(page)
                          /\ k = Len(page) => r.phase = "live"
           S == {k \in Nat : k <= Len(page) /\ m + k <= n => Shows(st[m + k], k)}
<1>0. m \in Nat \ {0} /\ m - 1 = Len(s) /\ n \in Nat /\ n <= Len(x) /\ Len(page) \in Nat
  OBVIOUS
<1>r. ASSUME NEW i \in 0..n PROVE st[i] \in ClientRecord
  BY <1>r, RunIs
<1>1. 0 \in S
  <2> SUFFICES ASSUME m <= n PROVE Shows(st[m], 0)
    BY <1>0
  <2>1. m \in 1..n /\ m - 1 \in 0..n
    BY <1>0
  <2>2. st[m] = Take(st[m - 1], Welcome(Len(page), Older(page)))
    BY <2>1 DEF Run
  <2>3. PICK r \in ClientRecord : r = st[m - 1]
    BY <1>r, <2>1
  <2>4. st[m] = TakeWelcome(r, Welcome(Len(page), Older(page)))
    BY <2>2, <2>3 DEF Take, Welcome
  <2>5. /\ st[m].entries = <<>> /\ st[m].more = Older(page)
        /\ Len(page) = 0 => st[m].phase = "live"
    BY <2>4 DEF TakeWelcome, Welcome, ClientRecord
  <2>6. Len(st[m].entries) = 0
    BY <2>5
  <2> HIDE DEF m
  <2> QED BY <2>5, <2>6
<1>2. ASSUME NEW k \in S PROVE k + 1 \in S
  <2> SUFFICES ASSUME k + 1 <= Len(page), m + (k + 1) <= n PROVE Shows(st[m + (k + 1)], k + 1)
    OBVIOUS
  <2>0. k \in Nat /\ k <= Len(page) /\ m + k <= n /\ m + k \in 0..n /\ m + (k + 1) \in 1..n
        /\ (m + (k + 1)) - 1 = m + k /\ k + 1 \in 1..Len(page) /\ k + 1 \in Nat
    BY <1>0
  <2>1. Shows(st[m + k], k)
    BY <2>0
  <2>2. st[m + (k + 1)] = Take(st[m + k], Chunk(page[k + 1], k + 1 = Len(page)))
    <3>1. st[m + (k + 1)] = Take(st[m + k], x[m + (k + 1)])
      BY <2>0 DEF Run
    <3> QED BY <2>0, <3>1
  <2>3. PICK r \in ClientRecord : r = st[m + k]
    BY <1>r, <2>0
  <2>e. PICK e \in Seq(EntryId) : e = r.entries
    BY DEF ClientRecord
  <2>y. page[k + 1] \in EntryId
    BY <2>0
  <2>4. PICK y \in EntryId : y = page[k + 1]
    BY <2>y, Zenon
  <2>5. e \o <<y>> \in Seq(EntryId)
    OBVIOUS
  <2>6. PICK z \in Seq(EntryId) : z = e \o <<y>>
    BY <2>5, Zenon
  <2>7. Len(z) = k + 1 /\ \A i \in 1..k + 1 : z[i] = page[i]
    <3>1. Len(e) = k /\ \A i \in 1..k : e[i] = page[i]
      BY <2>1, <2>3, <2>e
    <3>2. Len(z) = k + 1 /\ z[k + 1] = y /\ \A i \in 1..k : z[i] = e[i]
      <4>0. <<y>> \in Seq(EntryId) /\ Len(<<y>>) = 1 /\ <<y>>[1] = y
        OBVIOUS
      <4>1. PICK q \in Seq(EntryId) : q = <<y>> /\ Len(q) = 1 /\ q[1] = y
        BY <4>0, Zenon
      <4>2. /\ Len(z) = Len(e) + Len(q)
            /\ \A i \in 1..Len(e) + Len(q) : z[i] = IF i <= Len(e) THEN e[i] ELSE q[i - Len(e)]
        BY <2>6, <4>1, ConcatProperties
      <4>3. Len(z) = k + 1 /\ \A i \in 1..k + 1 : z[i] = IF i <= k THEN e[i] ELSE q[i - k]
        BY <3>1, <4>1, <4>2
      <4>4. z[k + 1] = y
        <5>1. k + 1 \in 1..k + 1 /\ ~(k + 1 <= k) /\ (k + 1) - k = 1
          BY <2>0
        <5> QED BY <4>1, <4>3, <5>1
      <4>5. ASSUME NEW i \in 1..k PROVE z[i] = e[i]
        <5>1. i \in 1..k + 1 /\ i <= k
          BY <2>0
        <5> QED BY <4>3, <5>1
      <4> QED BY <4>3, <4>4, <4>5
    <3> HIDE DEF S, m
    <3>3. ASSUME NEW i \in 1..k + 1 PROVE z[i] = page[i]
      <4>1. i \in 1..k \/ i = k + 1
        BY <2>0
      <4> QED BY <2>4, <3>1, <3>2, <4>1
    <3> QED BY <3>2, <3>3
  <2> HIDE DEF m, S
  <2>8. PICK u : u = TakeChunk(r, Chunk(y, k + 1 = Len(page)))
    OBVIOUS
  <2>9. u.entries = z /\ u.more = r.more /\ (k + 1 = Len(page) => u.phase = "live")
    BY <2>e, <2>6, <2>8 DEF TakeChunk, Chunk, ClientRecord
  <2>10. st[m + (k + 1)] = u
    BY <2>2, <2>3, <2>4, <2>8 DEF Take, Chunk
  <2>11. r.more = Older(page)
    BY <2>1, <2>3
  <2> HIDE DEF Older
  <2> QED BY <2>7, <2>9, <2>10, <2>11
<1>3. S = Nat
  <2> HIDE DEF Shows, m
  <2>1. S \in SUBSET Nat
    OBVIOUS
  <2> HIDE DEF S
  <2> QED BY <1>1, <1>2, <2>1, Induction
<1>4. Shows(st[m + j], j)
  <2>0. j \in Nat /\ j <= Len(page) /\ m + j <= n
    OBVIOUS
  <2>1. j \in S
    <3> HIDE DEF S
    <3> QED BY <1>3, <2>0
  <2> HIDE DEF Shows
  <2> QED BY <2>1
<1>5. Contiguous(st[m + j].entries)
  <2>1. PICK e \in Seq(EntryId) : e = st[m + j].entries
    <3>1. m + j \in 0..n
      BY <1>0
    <3> QED BY <1>r, <3>1 DEF ClientRecord
  <2>2. Len(e) = j /\ \A i \in 1..j : e[i] = page[i]
    BY <1>4, <2>1
  <2>3. ASSUME NEW i \in 1..Len(e) - 1 PROVE e[i + 1] = e[i] + 1
    <3>1. i \in 1..j /\ i + 1 \in 1..j /\ i \in 1..Len(page) - 1
      BY <2>2
    <3> QED BY <2>2, <3>1 DEF Contiguous
  <2> QED BY <2>1, <2>3 DEF Contiguous
<1> HIDE DEF Older
<1> QED BY <1>4, <1>5

\* Whatever the client was, a train makes it show all there is.
LEMMA TrainAppends ==
  ASSUME NEW c \in ClientRecord, NEW s \in Seq(Frame), NEW x \in Seq(Frame), NEW l \in Nat,
         NEW page \in Pages(l + 1), Len(x) = Len(s) + 1 + Len(page),
         \A i \in 1..Len(s) : x[i] = s[i],
         x[Len(s) + 1] = Welcome(Len(page), Older(page)),
         \A j \in 1..Len(page) : x[Len(s) + 1 + j] = Chunk(page[j], j = Len(page)),
         Sound(c, s)
  PROVE  Sound(c, x) /\ Whole(c, x, l)
<1>1. l + 1 \in EntryId
  BY DEF EntryId
<1>2. /\ page \in Seq(EntryId) /\ Contiguous(page)
      /\ IF page = <<>> THEN l + 1 = 1 ELSE page[Len(page)] + 1 = l + 1
  BY <1>1, PageIs
<1>3. Len(page) \in Nat /\ Len(s) \in Nat /\ Len(s) <= Len(x) /\ Len(x) \in 0..Len(x)
  BY <1>2
<1>4. Sound(c, x)
  <2> SUFFICES ASSUME NEW st, NEW n \in 0..Len(x), Run(st, c, x, n), st[n].phase = "live"
               PROVE  Contiguous(st[n].entries)
    BY DEF Sound
  <2>1. CASE n <= Len(s)
    <3>1. n \in 0..Len(s)
      BY <2>1
    <3>2. Run(st, c, s, n)
      BY <1>3, <3>1, ExtendsRun
    <3> QED BY <3>1, <3>2 DEF Sound
  <2>2. CASE n > Len(s)
    <3>1. PICK j \in 0..Len(page) : n = Len(s) + 1 + j
      <4>1. n - Len(s) - 1 \in 0..Len(page) /\ n = Len(s) + 1 + (n - Len(s) - 1)
        BY <1>3, <2>2
      <4> QED BY <4>1
    <3>2. Len(s) + 1 + j <= n
      BY <1>3, <3>1
    <3>3. Contiguous(st[Len(s) + 1 + j].entries)
      BY <1>2, <3>2, TrainRun
    <3> QED BY <3>1, <3>3
  <2> QED BY <1>3, <2>1, <2>2
<1>5. Whole(c, x, l)
  <2> SUFFICES ASSUME NEW st, Run(st, c, x, Len(x)) PROVE Complete(st[Len(x)], l)
    BY DEF Whole
  <2>1. Len(page) \in 0..Len(page) /\ Len(s) + 1 + Len(page) <= Len(x)
    BY <1>3
  <2>2. LET r == st[Len(s) + 1 + Len(page)] IN
        /\ Len(r.entries) = Len(page) /\ \A i \in 1..Len(page) : r.entries[i] = page[i]
        /\ r.more = Older(page) /\ Contiguous(r.entries)
        /\ Len(page) = Len(page) => r.phase = "live"
    BY <1>2, <1>3, <2>1, TrainRun
  <2>3. st[Len(x)] \in ClientRecord
    BY <1>3, RunIs
  <2>4. PICK r \in ClientRecord : r = st[Len(x)]
    BY <2>3
  <2>5. PICK e \in Seq(EntryId) : e = r.entries
    BY DEF ClientRecord
  <2>6. /\ Len(e) = Len(page) /\ \A i \in 1..Len(page) : e[i] = page[i]
        /\ r.more = Older(page) /\ Contiguous(e) /\ r.phase = "live"
    BY <2>2, <2>4, <2>5
  <2>7. CASE page = <<>>
    <3>1. e = <<>>
      BY <2>6, <2>7
    <3>2. Older(page) = Older(e) /\ l = 0
      BY <1>2, <2>7, <3>1
    <3> QED BY <2>4, <2>5, <2>6, <3>1, <3>2 DEF Complete
  <2>8. CASE page # <<>>
    <3>1. Len(page) \in 1..Len(page) /\ 1 \in 1..Len(page)
      BY <1>2, <1>3, <2>8
    <3>2. e # <<>> /\ e[1] = page[1] /\ e[Len(e)] = page[Len(page)]
      BY <2>6, <3>1
    <3>3. page[Len(page)] = l
      <4>1. page[Len(page)] \in Nat
        BY <1>2, <3>1 DEF EntryId
      <4> QED BY <1>2, <2>8, <4>1
    <3>4. Older(page) = Older(e)
      BY <2>8, <3>2 DEF Older
    <3> HIDE DEF Older
    <3> QED BY <2>4, <2>5, <2>6, <3>2, <3>3, <3>4 DEF Complete
  <2> QED BY <2>7, <2>8
<1> QED BY <1>4, <1>5

\* What is for others only changes nothing, however much of it there is.
LEMMA IdleExtends ==
  ASSUME NEW c, NEW s \in Seq(Frame), NEW x \in Seq(Frame), NEW l, Len(s) <= Len(x),
         \A i \in 1..Len(s) : x[i] = s[i], \A i \in Len(s) + 1..Len(x) : Idle(x[i])
  PROVE  /\ Sound(c, s) => Sound(c, x)
         /\ Whole(c, s, l) => Whole(c, x, l)
<1>1. ASSUME NEW st, NEW n \in 0..Len(x), Run(st, c, x, n), n >= Len(s)
      PROVE  Run(st, c, s, Len(s)) /\ st[n] = st[Len(s)]
  <2> DEFINE S == {k \in Nat : Len(s) + k <= n => st[Len(s) + k] = st[Len(s)]}
  <2>0. Len(s) \in Nat /\ n \in Nat /\ Len(s) \in 0..Len(s) /\ n <= Len(x)
    OBVIOUS
  <2>1. 0 \in S
    BY <2>0
  <2>2. ASSUME NEW k \in S PROVE k + 1 \in S
    <3> SUFFICES ASSUME Len(s) + (k + 1) <= n PROVE st[Len(s) + (k + 1)] = st[Len(s)]
      OBVIOUS
    <3>1. /\ k \in Nat /\ Len(s) + k <= n /\ (Len(s) + (k + 1)) - 1 = Len(s) + k
          /\ Len(s) + (k + 1) \in 1..n /\ Len(s) + (k + 1) \in Len(s) + 1..Len(x)
      BY <2>0
    <3>2. st[Len(s) + (k + 1)] = Take(st[Len(s) + k], x[Len(s) + (k + 1)])
      BY <1>1, <3>1 DEF Run
    <3>3. Idle(x[Len(s) + (k + 1)])
      BY <3>1
    <3>4. st[Len(s) + k] = st[Len(s)]
      BY <3>1
    <3> QED BY <3>2, <3>3, <3>4, IdleIs
  <2>3. S = Nat
    <3>1. S \in SUBSET Nat
      OBVIOUS
    <3> HIDE DEF S
    <3> QED BY <2>1, <2>2, <3>1, Induction
  <2>4. n - Len(s) \in S /\ Len(s) + (n - Len(s)) = n
    BY <1>1, <2>0, <2>3
  <2>5. Run(st, c, s, Len(s))
    BY <1>1, <2>0, ExtendsRun
  <2> QED BY <2>4, <2>5
<1>2. ASSUME Sound(c, s) PROVE Sound(c, x)
  <2> SUFFICES ASSUME NEW st, NEW n \in 0..Len(x), Run(st, c, x, n), st[n].phase = "live"
               PROVE  Contiguous(st[n].entries)
    BY DEF Sound
  <2>1. CASE n < Len(s)
    <3>1. n \in 0..Len(s)
      BY <2>1
    <3>2. Run(st, c, s, n)
      BY <3>1, ExtendsRun
    <3> QED BY <1>2, <3>1, <3>2 DEF Sound
  <2>2. CASE n >= Len(s)
    <3>1. Run(st, c, s, Len(s)) /\ st[n] = st[Len(s)] /\ Len(s) \in 0..Len(s)
      BY <1>1, <2>2
    <3> QED BY <1>2, <3>1 DEF Sound
  <2> QED BY <2>1, <2>2
<1>3. ASSUME Whole(c, s, l) PROVE Whole(c, x, l)
  <2> SUFFICES ASSUME NEW st, Run(st, c, x, Len(x)) PROVE Complete(st[Len(x)], l)
    BY DEF Whole
  <2>0. Len(x) \in 0..Len(x) /\ Len(x) >= Len(s)
    OBVIOUS
  <2>1. Run(st, c, s, Len(s)) /\ st[Len(x)] = st[Len(s)]
    BY <1>1, <2>0
  <2> QED BY <1>3, <2>1 DEF Whole
<1> QED BY <1>2, <1>3

(***************************************************************************)
(* Asking.                                                                 *)
(***************************************************************************)

Shown(r, u) == r.phase = u.phase /\ r.entries = u.entries /\ r.more = u.more

\* Two clients that show the same, and whose questions a frame does not answer, show the
\* same when they have read it.
LEMMA TakeShown ==
  ASSUME NEW r \in ClientRecord, NEW u \in ClientRecord, Shown(r, u), NEW f \in Frame,
         f.t = "history" => f.reqId \notin {r.pending, u.pending}
  PROVE  Shown(Take(r, f), Take(u, f))
<1> USE DEF Shown, ClientRecord
<1>1. CASE f.t = "welcome"
  <2>1. Take(r, f) = TakeWelcome(r, f) /\ Take(u, f) = TakeWelcome(u, f)
    BY <1>1 DEF Take
  <2>2. Shown(TakeWelcome(r, f), TakeWelcome(u, f))
    BY DEF TakeWelcome
  <2> QED BY <2>1, <2>2
<1>2. CASE f.t = "snapshot-chunk"
  <2>1. Take(r, f) = TakeChunk(r, f) /\ Take(u, f) = TakeChunk(u, f)
    BY <1>2 DEF Take
  <2>2. Shown(TakeChunk(r, f), TakeChunk(u, f))
    BY DEF TakeChunk
  <2> QED BY <2>1, <2>2
<1>3. CASE f.t = "entry"
  <2>1. /\ Take(r, f) = [r EXCEPT !.entries = Append(@, f.entry)]
        /\ Take(u, f) = [u EXCEPT !.entries = Append(@, f.entry)]
    BY <1>3 DEF Take
  <2> QED BY <2>1
<1>4. CASE f.t = "history"
  <2>1. Take(r, f) = TakeHistory(r, f) /\ Take(u, f) = TakeHistory(u, f)
    BY <1>4 DEF Take
  <2>2. TakeHistory(r, f) = r /\ TakeHistory(u, f) = u
    BY <1>4 DEF TakeHistory
  <2> QED BY <2>1, <2>2
<1>5. CASE f.t \notin {"welcome", "snapshot-chunk", "entry", "history"}
  <2>1. Take(r, f) = r /\ Take(u, f) = u
    BY <1>5 DEF Take
  <2> QED BY <2>1
<1> QED BY <1>1, <1>2, <1>3, <1>4, <1>5

\* So it is with all that comes, while none of it answers them.
LEMMA ShownKeeps ==
  ASSUME NEW c \in ClientRecord, NEW d \in ClientRecord, Shown(c, d), NEW s \in Seq(Frame), NEW l,
         \A i \in DOMAIN s : s[i].t = "history" => s[i].reqId \notin {0, c.pending, d.pending}
  PROVE  /\ Sound(c, s) => Sound(d, s)
         /\ Whole(c, s, l) => Whole(d, s, l)
<1>1. ASSUME NEW n \in 0..Len(s), NEW st, Run(st, d, s, n)
      PROVE  \E st2 : Run(st2, c, s, n) /\ Shown(st2[n], st[n])
  <2>1. PICK st2 : Run(st2, c, s, n)
    <3> DEFINE x == [i \in 1..n |-> s[i]]
    <3>1. n \in Nat /\ DOMAIN x = 1..n
      OBVIOUS
    <3>2. PICK st2 : Run(st2, c, x, n)
      <4> HIDE DEF x
      <4> QED BY <3>1, FoldIsRun
    <3>3. \A i \in 1..n : x[i] = s[i]
      OBVIOUS
    <3> HIDE DEF x
    <3>4. Run(st2, c, s, n)
      BY <3>2, <3>3 DEF Run
    <3> QED BY <3>4
  <2> DEFINE S == {k \in Nat : k <= n => Shown(st2[k], st[k])}
  <2>2. 0 \in S
    BY <1>1, <2>1 DEF Run
  <2>3. ASSUME NEW k \in S PROVE k + 1 \in S
    <3> SUFFICES ASSUME k + 1 <= n PROVE Shown(st2[k + 1], st[k + 1])
      OBVIOUS
    <3>1. /\ k \in Nat /\ k \in 0..n /\ k + 1 \in 1..n /\ (k + 1) - 1 = k
          /\ k + 1 \in DOMAIN s /\ k + 1 \in 1..Len(s)
      OBVIOUS
    <3>2. Shown(st2[k], st[k])
      BY <3>1
    <3>3. st2[k + 1] = Take(st2[k], s[k + 1]) /\ st[k + 1] = Take(st[k], s[k + 1])
      BY <1>1, <2>1, <3>1 DEF Run
    <3>4. /\ st2[k] \in ClientRecord /\ st2[k].pending \in {0, c.pending}
          /\ st[k] \in ClientRecord /\ st[k].pending \in {0, d.pending}
      BY <1>1, <2>1, <3>1, RunIs
    <3>5. s[k + 1] \in Frame
      BY <3>1
    <3> HIDE DEF S
    <3>6. s[k + 1].t = "history" => s[k + 1].reqId \notin {st2[k].pending, st[k].pending}
      BY <3>1, <3>4
    <3> QED BY <3>2, <3>3, <3>4, <3>5, <3>6, TakeShown
  <2>4. S = Nat
    <3>1. S \in SUBSET Nat
      OBVIOUS
    <3> HIDE DEF S
    <3> QED BY <2>2, <2>3, <3>1, Induction
  <2>5. n \in S
    BY <2>4
  <2> QED BY <2>1, <2>5
<1>2. ASSUME Sound(c, s) PROVE Sound(d, s)
  BY <1>1, <1>2 DEF Sound, Shown
<1>3. ASSUME Whole(c, s, l) PROVE Whole(d, s, l)
  <2> SUFFICES ASSUME NEW st, Run(st, d, s, Len(s)) PROVE Complete(st[Len(s)], l)
    BY DEF Whole
  <2>1. Len(s) \in 0..Len(s)
    OBVIOUS
  <2>2. PICK st2 : Run(st2, c, s, Len(s)) /\ Shown(st2[Len(s)], st[Len(s)])
    BY <1>1, <2>1
  <2>3. Complete(st2[Len(s)], l)
    BY <1>3, <2>2 DEF Whole
  <2> QED BY <2>2, <2>3 DEF Complete, Shown
<1> QED BY <1>2, <1>3

(***************************************************************************)
(* A guest's view: its client, and what is on its way to it.               *)
(***************************************************************************)

\* h: the guest is in the room of a host that is there; w: it has been welcomed; l: the log.
ViewOf(c, s, h, w, l) ==
  /\ \A v \in Views(c) : Sound(v, s)
  /\ \A i \in DOMAIN s : s[i].t = "history" => s[i].reqId <= c.seq
  /\ h => IF w THEN \A v \in Views(c) : Whole(v, s, l)
          ELSE c.phase # "live" /\ \A i \in DOMAIN s : Quiet(s[i])

\* A client that is not live and that hears nothing has an orderly view.
LEMMA ViewStarts ==
  ASSUME NEW c \in ClientRecord, NEW s \in Seq(Frame), c.phase # "live",
         \A i \in DOMAIN s : Quiet(s[i]), NEW h, NEW w, ~(h /\ w), NEW l
  PROVE  ViewOf(c, s, h, w, l)
<1>1. ASSUME NEW v \in Views(c) PROVE Sound(v, s)
  <2>1. v \in ClientRecord /\ v.phase = c.phase
    BY ViewsAre
  <2> QED BY <2>1, QuietSound
<1>2. \A i \in DOMAIN s : s[i].t # "history"
  BY DEF Quiet
<1> QED BY <1>1, <1>2 DEF ViewOf

\* Nothing new for a view: the host is away, or the log is the same.
LEMMA ViewStays ==
  ASSUME NEW c, NEW s, NEW h, NEW h2, NEW w, NEW w2, NEW l, NEW l2, ViewOf(c, s, h, w, l),
         h2 => h /\ w2 = w /\ l2 = l
  PROVE  ViewOf(c, s, h2, w2, l2)
BY DEF ViewOf

\* What the broken socket had brought.
LEMMA ViewShrinks ==
  ASSUME NEW c, NEW s \in Seq(Frame), NEW t \in Seq(Frame), Len(t) <= Len(s),
         \A i \in 1..Len(t) : t[i] = s[i],
         NEW h, NEW w, NEW l, ViewOf(c, s, h, w, l), NEW w2, NEW l2
  PROVE  ViewOf(c, t, FALSE, w2, l2)
<1>1. ASSUME NEW v \in Views(c) PROVE Sound(v, t)
  <2>1. Sound(v, s)
    BY DEF ViewOf
  <2> QED BY <2>1, PrefixSound
<1>2. ASSUME NEW i \in DOMAIN t, t[i].t = "history" PROVE t[i].reqId <= c.seq
  <2>1. i \in 1..Len(t) /\ i \in DOMAIN s
    OBVIOUS
  <2> QED BY <1>2, <2>1 DEF ViewOf
<1> QED BY <1>1, <1>2 DEF ViewOf

\* What is for others, or for the person that reads.
LEMMA ViewIdles ==
  ASSUME NEW c, NEW s \in Seq(Frame), NEW x \in Seq(Frame), Len(s) <= Len(x),
         \A i \in 1..Len(s) : x[i] = s[i], \A i \in Len(s) + 1..Len(x) : Idle(x[i]),
         NEW h, NEW w, NEW l, ViewOf(c, s, h, w, l)
  PROVE  ViewOf(c, x, h, w, l)
<1>1. ASSUME NEW v \in Views(c)
      PROVE  (Sound(v, s) => Sound(v, x)) /\ (Whole(v, s, l) => Whole(v, x, l))
  BY IdleExtends
<1>2. ASSUME NEW i \in DOMAIN x
      PROVE  (i \in DOMAIN s /\ x[i] = s[i]) \/ (x[i].t # "history" /\ Quiet(x[i]))
  <2>1. i \in 1..Len(s) \/ i \in Len(s) + 1..Len(x)
    OBVIOUS
  <2>2. CASE i \in 1..Len(s)
    BY <2>2
  <2>3. CASE i \in Len(s) + 1..Len(x)
    <3>1. Idle(x[i])
      BY <2>3
    <3> QED BY <3>1 DEF Idle, Quiet
  <2> QED BY <2>1, <2>2, <2>3
<1>3. \A i \in DOMAIN x : x[i].t = "history" => x[i].reqId <= c.seq
  BY <1>2 DEF ViewOf
<1>4. (\A i \in DOMAIN s : Quiet(s[i])) => \A i \in DOMAIN x : Quiet(x[i])
  BY <1>2
<1> QED BY <1>1, <1>3, <1>4 DEF ViewOf

\* One that is for others goes by.
LEMMA ViewSkips ==
  ASSUME NEW c, NEW s \in Seq(Frame), NEW t \in Seq(Frame), Len(s) = Len(t) + 1,
         NEW k \in 0..Len(t), Idle(s[k + 1]),
         \A i \in 1..k : t[i] = s[i], \A i \in k + 1..Len(t) : t[i] = s[i + 1],
         NEW h, NEW w, NEW l, ViewOf(c, s, h, w, l)
  PROVE  ViewOf(c, t, h, w, l)
<1>1. ASSUME NEW v \in Views(c)
      PROVE  (Sound(v, s) => Sound(v, t)) /\ (Whole(v, s, l) => Whole(v, t, l))
  BY IdleDrops
<1>2. ASSUME NEW i \in DOMAIN t PROVE \E j \in DOMAIN s : t[i] = s[j]
  <2>1. i \in 1..k \/ i \in k + 1..Len(t)
    OBVIOUS
  <2>2. CASE i \in 1..k
    <3>1. i \in DOMAIN s
      OBVIOUS
    <3> QED BY <2>2, <3>1
  <2>3. CASE i \in k + 1..Len(t)
    <3>1. i + 1 \in DOMAIN s
      BY <2>3
    <3> QED BY <2>3, <3>1
  <2> QED BY <2>1, <2>2, <2>3
<1>3. \A i \in DOMAIN t : t[i].t = "history" => t[i].reqId <= c.seq
  BY <1>2 DEF ViewOf
<1>4. (\A i \in DOMAIN s : Quiet(s[i])) => \A i \in DOMAIN t : Quiet(t[i])
  BY <1>2
<1> QED BY <1>1, <1>3, <1>4 DEF ViewOf

\* A new entry, while the host is there.
LEMMA ViewGrows ==
  ASSUME NEW c \in ClientRecord, NEW s \in Seq(Frame), NEW l \in Nat, NEW w,
         ViewOf(c, s, TRUE, w, l)
  PROVE  ViewOf(c, Append(s, Entry(l + 1)), TRUE, w, l + 1)
<1> DEFINE x == Append(s, Entry(l + 1))
<1>1. Entry(l + 1) \in Frame /\ Quiet(Entry(l + 1)) /\ Entry(l + 1).t # "history"
  BY DEF Entry, Frame, ViewFrame, EntryId, Quiet
<1>2. x \in Seq(Frame)
  BY <1>1
<1>3. ASSUME NEW i \in DOMAIN x PROVE (i \in DOMAIN s /\ x[i] = s[i]) \/ x[i] = Entry(l + 1)
  OBVIOUS
<1> HIDE DEF x
<1>4. \A i \in DOMAIN x : x[i].t = "history" => x[i].reqId <= c.seq
  BY <1>1, <1>3 DEF ViewOf
<1>5. CASE w
  <2>1. ASSUME NEW v \in Views(c) PROVE Sound(v, x) /\ Whole(v, x, l + 1)
    <3>1. v \in ClientRecord
      BY ViewsAre
    <3>2. Sound(v, s) /\ Whole(v, s, l)
      BY <1>5 DEF ViewOf
    <3> QED BY <3>1, <3>2, EntryAppends DEF x
  <2> QED BY <1>4, <1>5, <2>1 DEF ViewOf, x
<1>6. CASE ~w
  <2>1. c.phase # "live" /\ \A i \in DOMAIN x : Quiet(x[i])
    BY <1>1, <1>3, <1>6 DEF ViewOf
  <2>2. ViewOf(c, x, TRUE, w, l + 1)
    BY <1>2, <1>6, <2>1, ViewStarts
  <2> QED BY <2>2 DEF x
<1> QED BY <1>5, <1>6

\* An older page that was asked for on this connection or on one before.
LEMMA ViewAnswered ==
  ASSUME NEW c \in ClientRecord, NEW s \in Seq(Frame), NEW l, NEW b \in EntryId,
         NEW reqId \in Nat \ {0}, NEW page \in Pages(b), c.pending = reqId => c.before = b,
         reqId <= c.seq, ViewOf(c, s, TRUE, TRUE, l)
  PROVE  ViewOf(c, Append(s, History(reqId, page, Older(page))), TRUE, TRUE, l)
<1> DEFINE f == History(reqId, page, Older(page))
           x == Append(s, f)
<1>1. page \in Seq(EntryId) /\ Older(page) \in BOOLEAN
  BY PageIs DEF Older
<1>2. f \in Frame
  BY <1>1 DEF History, Frame, ViewFrame
<1>3. f.reqId <= c.seq
  BY DEF History
<1> HIDE DEF f
<1>4. ASSUME NEW i \in DOMAIN x PROVE (i \in DOMAIN s /\ x[i] = s[i]) \/ x[i] = f
  BY <1>2
<1> HIDE DEF x
<1>5. \A i \in DOMAIN x : x[i].t = "history" => x[i].reqId <= c.seq
  BY <1>3, <1>4 DEF ViewOf
<1>6. ASSUME NEW v \in Views(c) PROVE Sound(v, x) /\ Whole(v, x, l)
  <2>1. v \in ClientRecord /\ v.before = c.before /\ v.pending \in {0, c.pending}
    BY ViewsAre
  <2>2. Sound(v, s) /\ Whole(v, s, l)
    BY DEF ViewOf
  <2>3. v.pending = reqId => v.before = b
    BY <2>1
  <2> QED BY <2>1, <2>2, <2>3, HistoryAppends DEF x, f
<1> QED BY <1>5, <1>6 DEF ViewOf, x, f

\* A train, for a guest that says hello, whatever it was told before.
LEMMA ViewWelcomed ==
  ASSUME NEW c \in ClientRecord, NEW s \in Seq(Frame), NEW x \in Seq(Frame), NEW l \in Nat,
         NEW page \in Pages(l + 1), Len(x) = Len(s) + 1 + Len(page),
         \A i \in 1..Len(s) : x[i] = s[i],
         x[Len(s) + 1] = Welcome(Len(page), Older(page)),
         \A j \in 1..Len(page) : x[Len(s) + 1 + j] = Chunk(page[j], j = Len(page)),
         NEW h, NEW w, ViewOf(c, s, h, w, l)
  PROVE  ViewOf(c, x, TRUE, TRUE, l)
<1>1. ASSUME NEW v \in Views(c) PROVE Sound(v, x) /\ Whole(v, x, l)
  <2>1. v \in ClientRecord
    BY ViewsAre
  <2>2. Sound(v, s)
    BY DEF ViewOf
  <2> QED BY <2>1, <2>2, TrainAppends
<1>2. ASSUME NEW i \in DOMAIN x, x[i].t = "history" PROVE x[i].reqId <= c.seq
  <2>0. l + 1 \in EntryId
    BY DEF EntryId
  <2>1. page \in Seq(EntryId)
    BY <2>0, PageIs
  <2>2. i \in 1..Len(s) \/ i = Len(s) + 1 \/ i - (Len(s) + 1) \in 1..Len(page)
    BY <2>1
  <2>3. CASE i \in 1..Len(s)
    <3>1. i \in DOMAIN s /\ x[i] = s[i]
      BY <2>3
    <3> QED BY <1>2, <3>1 DEF ViewOf
  <2>4. CASE i = Len(s) + 1
    BY <1>2, <2>4 DEF Welcome
  <2>5. CASE i - (Len(s) + 1) \in 1..Len(page)
    <3>1. PICK j \in 1..Len(page) : i = Len(s) + 1 + j
      <4>1. i = Len(s) + 1 + (i - (Len(s) + 1))
        OBVIOUS
      <4> QED BY <2>5, <4>1
    <3>2. x[i] = Chunk(page[j], j = Len(page))
      BY <3>1
    <3>3. \A b : Chunk(page[j], b).t = "snapshot-chunk"
      BY DEF Chunk
    <3> QED BY <1>2, <3>2, <3>3
  <2> QED BY <2>2, <2>3, <2>4, <2>5
<1> QED BY <1>1, <1>2 DEF ViewOf

\* The next frame is read.
LEMMA ViewReads ==
  ASSUME NEW c \in ClientRecord, NEW s \in Seq(Frame), s # <<>>, NEW h, NEW w, NEW l,
         ViewOf(c, s, h, w, l)
  PROVE  ViewOf(Take(c, Head(s)), Tail(s), h, w, l)
<1>1. PICK f \in Frame : f = Head(s) /\ f = s[1] /\ 1 \in DOMAIN s
  OBVIOUS
<1>2. PICK r \in ClientRecord : r = Take(c, f) /\ r.seq = c.seq
  BY TakeIs
<1>3. ASSUME NEW i \in DOMAIN Tail(s) PROVE i + 1 \in DOMAIN s /\ Tail(s)[i] = s[i + 1]
  OBVIOUS
<1>4. ASSUME NEW v \in Views(r) PROVE \E u \in Views(c) : v = Take(u, f)
  <2>1. v = r \/ v = Forgetful(r)
    BY DEF Views
  <2>2. Forgetful(r) \in {Take(c, f), Take(Forgetful(c), f)}
    BY <1>2, ForgetfulTakes
  <2> QED BY <1>2, <2>1, <2>2 DEF Views
<1>5. \A u : (Sound(u, s) => Sound(Take(u, f), Tail(s))) /\ (Whole(u, s, l) => Whole(Take(u, f), Tail(s), l))
  BY <1>1, ReadKeeps
<1>6. \A v \in Views(r) : Sound(v, Tail(s))
  BY <1>4, <1>5 DEF ViewOf
<1>7. \A i \in DOMAIN Tail(s) : Tail(s)[i].t = "history" => Tail(s)[i].reqId <= r.seq
  BY <1>2, <1>3 DEF ViewOf
<1>8. h /\ w => \A v \in Views(r) : Whole(v, Tail(s), l)
  BY <1>4, <1>5 DEF ViewOf
<1>9. h /\ ~w => r.phase # "live" /\ \A i \in DOMAIN Tail(s) : Quiet(Tail(s)[i])
  <2> SUFFICES ASSUME h, ~w PROVE r.phase # "live" /\ \A i \in DOMAIN Tail(s) : Quiet(Tail(s)[i])
    OBVIOUS
  <2>1. c.phase # "live" /\ \A i \in DOMAIN s : Quiet(s[i])
    BY DEF ViewOf
  <2>2. r.phase = c.phase
    <3>1. Quiet(f)
      BY <1>1, <2>1
    <3> QED BY <1>2, <3>1 DEF Take, Quiet, ClientRecord
  <2> QED BY <1>3, <2>1, <2>2
<1>10. ViewOf(r, Tail(s), h, w, l)
  BY <1>6, <1>7, <1>8, <1>9 DEF ViewOf
<1> QED BY <1>1, <1>2, <1>10

\* An older page is asked for: nothing that is on its way answers that.
LEMMA ViewAsks ==
  ASSUME NEW c \in ClientRecord, c.pending = 0, NEW b \in Nat, NEW s \in Seq(Frame),
         NEW h, NEW w, NEW l, ViewOf(c, s, h, w, l)
  PROVE  ViewOf([c EXCEPT !.seq = c.seq + 1, !.pending = c.seq + 1, !.before = b], s, h, w, l)
<1>0. c.seq \in Nat /\ c.seq + 1 \in Nat
  BY DEF ClientRecord
<1>d. PICK d : d = [c EXCEPT !.seq = c.seq + 1, !.pending = c.seq + 1, !.before = b]
  OBVIOUS
<1>1. d \in ClientRecord /\ d.seq = c.seq + 1 /\ d.pending = c.seq + 1 /\ Shown(c, d)
  BY <1>0, <1>d DEF ClientRecord, Shown
<1>2. ASSUME NEW v \in Views(d)
      PROVE  (Sound(c, s) => Sound(v, s)) /\ (Whole(c, s, l) => Whole(v, s, l))
  <2>1. v \in ClientRecord /\ v.phase = d.phase /\ v.entries = d.entries /\ v.more = d.more
        /\ v.pending \in {0, d.pending}
    BY <1>1, ViewsAre
  <2>2. Shown(c, v)
    BY <1>1, <2>1 DEF Shown
  <2>3. ASSUME NEW i \in DOMAIN s, s[i].t = "history" PROVE s[i].reqId \notin {0, c.pending, v.pending}
    <3>1. s[i] \in Frame
      BY <2>3
    <3>2. s[i].reqId \in Nat \ {0}
      BY <2>3, <3>1 DEF Frame, ViewFrame, Error, RoomClosed, NotForMe
    <3>3. s[i].reqId <= c.seq
      BY <2>3 DEF ViewOf
    <3> QED BY <1>0, <1>1, <2>1, <3>2, <3>3
  <2> QED BY <2>1, <2>2, <2>3, ShownKeeps
<1>3. c \in Views(c)
  BY DEF Views
<1>4. ASSUME NEW i \in DOMAIN s, s[i].t = "history" PROVE s[i].reqId <= d.seq
  <2>1. s[i] \in Frame
    BY <1>4
  <2>2. s[i].reqId \in Nat
    BY <1>4, <2>1 DEF Frame, ViewFrame, Error, RoomClosed, NotForMe
  <2>3. s[i].reqId <= c.seq
    BY <1>4 DEF ViewOf
  <2> QED BY <1>0, <1>1, <2>2, <2>3
<1>5. d.phase = c.phase
  BY <1>1 DEF Shown
<1>6. ViewOf(d, s, h, w, l)
  BY <1>2, <1>3, <1>4, <1>5 DEF ViewOf
<1> QED BY <1>d, <1>6

\* The question is given up.
LEMMA ViewForgets ==
  ASSUME NEW c \in ClientRecord, NEW s, NEW h, NEW w, NEW l, ViewOf(c, s, h, w, l)
  PROVE  ViewOf(Forgetful(c), s, h, w, l)
<1>1. PICK d \in ClientRecord : d = Forgetful(c) /\ d.seq = c.seq /\ d.phase = c.phase /\ Forgetful(d) = d
  BY DEF Forgetful, ClientRecord
<1>2. Views(d) \subseteq Views(c)
  BY <1>1 DEF Views
<1>3. ViewOf(d, s, h, w, l)
  BY <1>1, <1>2 DEF ViewOf
<1> QED BY <1>1, <1>3

(***************************************************************************)
(* What is on its way.                                                     *)
(***************************************************************************)
Sent == [to : Nat, frame : ViewFrame]

\* What comes to a guest, frame by frame.
LEMMA ComingIs ==
  ASSUME NEW p \in Nat, NEW d \in Seq(ViewFrame), NEW t \in Seq(Sent)
  PROVE  /\ ComingTo(p, d, t) \in Seq(Frame)
         /\ Len(ComingTo(p, d, t)) = Len(d) + (IF p = 0 THEN 0 ELSE Len(t))
         /\ \A i \in 1..Len(d) : ComingTo(p, d, t)[i] = d[i]
         /\ p # 0 => \A j \in 1..Len(t) : ComingTo(p, d, t)[Len(d) + j] = Heard(p, t[j])
         /\ p = 0 => ComingTo(p, d, t) = d
<1>1. PICK e : e = IF p = 0 THEN <<>> ELSE [i \in DOMAIN t |-> Heard(p, t[i])]
  OBVIOUS
<1>2. /\ e \in Seq(Frame) /\ Len(e) = IF p = 0 THEN 0 ELSE Len(t)
      /\ p # 0 => \A j \in 1..Len(t) : e[j] = Heard(p, t[j])
      /\ p = 0 => e = <<>>
  <2>1. CASE p = 0
    BY <1>1, <2>1
  <2>2. CASE p # 0
    <3>1. e = [i \in 1..Len(t) |-> Heard(p, t[i])] /\ Len(t) \in Nat
      BY <1>1, <2>2
    <3>2. ASSUME NEW i \in 1..Len(t) PROVE Heard(p, t[i]) \in Frame
      <4>1. t[i] \in Sent
        OBVIOUS
      <4>2. t[i].frame \in ViewFrame
        BY <4>1 DEF Sent
      <4> QED BY <4>2 DEF Heard, Frame
    <3>3. e \in Seq(Frame) /\ Len(e) = Len(t)
      BY <3>1, <3>2
    <3> QED BY <2>2, <3>1, <3>3
  <2> QED BY <2>1, <2>2
<1>3. d \in Seq(Frame)
  BY SeqMonotonic DEF Frame
<1>4. ComingTo(p, d, t) = d \o e
  BY <1>1 DEF ComingTo
<1>s. PICK s : s = d \o e
  OBVIOUS
<1>c. /\ d \o e \in Seq(Frame)
      /\ Len(d \o e) = Len(d) + Len(e)
      /\ \A i \in 1..Len(d) + Len(e) : (d \o e)[i] = IF i <= Len(d) THEN d[i] ELSE e[i - Len(d)]
  <2>1. d \in Seq(Frame) /\ e \in Seq(Frame)
    BY <1>2, <1>3
  <2> QED BY <2>1, ConcatProperties, Zenon
<1>5. /\ s \in Seq(Frame)
      /\ s = d \o e
      /\ Len(s) = Len(d) + Len(e)
      /\ \A i \in 1..Len(d) + Len(e) : s[i] = IF i <= Len(d) THEN d[i] ELSE e[i - Len(d)]
  BY <1>s, <1>c, Zenon
<1>l. Len(d) \in Nat /\ Len(e) \in Nat
  BY <1>2
<1>6. ASSUME NEW i \in 1..Len(d) PROVE s[i] = d[i]
  <2>1. i \in 1..Len(d) + Len(e) /\ i <= Len(d)
    BY <1>l
  <2> QED BY <1>5, <2>1
<1>7. ASSUME p # 0, NEW j \in 1..Len(t) PROVE s[Len(d) + j] = Heard(p, t[j])
  <2>1. Len(d) + j \in 1..Len(d) + Len(e) /\ ~(Len(d) + j <= Len(d)) /\ (Len(d) + j) - Len(d) = j
    BY <1>2, <1>7
  <2> QED BY <1>2, <1>5, <1>7, <2>1
<1>8. p = 0 => s = d
  BY <1>2, <1>3, <1>5
<1> QED BY <1>2, <1>4, <1>5, <1>6, <1>7, <1>8

\* The frames that the relay has handed on, then those that it has not.
Holds(s, p, d, t) ==
  /\ s \in Seq(Frame) /\ Len(s) = Len(d) + Len(t)
  /\ \A i \in 1..Len(d) : s[i] = d[i]
  /\ \A j \in 1..Len(t) : s[Len(d) + j] = Heard(p, t[j])

\* The same for a guest that the room has.
LEMMA ComingAt ==
  ASSUME NEW p \in Nat \ {0}, NEW d \in Seq(ViewFrame), NEW t \in Seq(Sent)
  PROVE  Holds(ComingTo(p, d, t), p, d, t)
<1>1. p \in Nat /\ p # 0
  OBVIOUS
<1> QED BY <1>1, ComingIs DEF Holds

\* One more frame from the host.
LEMMA ComingAppends ==
  ASSUME NEW p \in Nat \ {0}, NEW d \in Seq(ViewFrame), NEW t \in Seq(Sent), NEW m \in Sent
  PROVE  ComingTo(p, d, Append(t, m)) = Append(ComingTo(p, d, t), Heard(p, m))
<1>u. PICK u : u = Append(t, m)
  OBVIOUS
<1>1. /\ u \in Seq(Sent)
      /\ u = Append(t, m)
      /\ Len(u) = Len(t) + 1
      /\ u[Len(t) + 1] = m
      /\ \A i \in 1..Len(t) : u[i] = t[i]
  BY <1>u, AppendProperties
<1>s. PICK s : s = ComingTo(p, d, t)
  OBVIOUS
<1>sh. Holds(s, p, d, t)
  BY <1>s, ComingAt
<1>2. /\ s \in Seq(Frame) /\ s = ComingTo(p, d, t) /\ Len(s) = Len(d) + Len(t)
      /\ \A i \in 1..Len(d) : s[i] = d[i]
      /\ \A j \in 1..Len(t) : s[Len(d) + j] = Heard(p, t[j])
  BY <1>s, <1>sh DEF Holds
<1>x. PICK x : x = ComingTo(p, d, u)
  OBVIOUS
<1>xh. Holds(x, p, d, u)
  BY <1>x, <1>1, ComingAt
<1>3. /\ x \in Seq(Frame) /\ x = ComingTo(p, d, u) /\ Len(x) = Len(d) + Len(u)
      /\ \A i \in 1..Len(d) : x[i] = d[i]
      /\ \A j \in 1..Len(u) : x[Len(d) + j] = Heard(p, u[j])
  BY <1>x, <1>xh DEF Holds
<1>4. Heard(p, m) \in Frame
  BY DEF Heard, Frame, Sent
<1>f. PICK f \in Frame : f = Heard(p, m)
  BY <1>4, Zenon
<1>y. PICK y : y = Append(s, f)
  OBVIOUS
<1>5. /\ y \in Seq(Frame)
      /\ Len(y) = Len(s) + 1
      /\ y[Len(s) + 1] = f
      /\ \A i \in 1..Len(s) : y[i] = s[i]
  BY <1>y, <1>2
<1>6. Len(x) = Len(y)
  BY <1>1, <1>2, <1>3, <1>5
<1>7. ASSUME NEW i \in 1..Len(x) PROVE x[i] = y[i]
  <2>0. Len(d) \in Nat /\ Len(t) \in Nat /\ Len(x) = Len(d) + Len(t) + 1
    BY <1>1, <1>3
  <2>1. CASE i \in 1..Len(d)
    <3>1. i \in 1..Len(s)
      BY <1>2, <2>0, <2>1
    <3> QED BY <1>2, <1>3, <1>5, <2>1, <3>1
  <2>2. CASE i \notin 1..Len(d) /\ i # Len(x)
    <3>1. PICK j \in 1..Len(t) : i = Len(d) + j
      <4>1. i - Len(d) \in 1..Len(t) /\ i = Len(d) + (i - Len(d))
        BY <2>0, <2>2
      <4> QED BY <4>1
    <3>2. j \in 1..Len(u) /\ i \in 1..Len(s)
      BY <1>1, <1>2, <2>0, <3>1
    <3>3. x[i] = Heard(p, u[j]) /\ u[j] = t[j] /\ y[i] = s[i] /\ s[i] = Heard(p, t[j])
      BY <1>1, <1>2, <1>3, <1>5, <3>1, <3>2
    <3> QED BY <3>3
  <2>3. CASE i = Len(x)
    <3>1. Len(t) + 1 \in 1..Len(u) /\ i = Len(d) + (Len(t) + 1) /\ i = Len(s) + 1
      BY <1>1, <1>2, <2>0, <2>3
    <3>2. x[i] = Heard(p, u[Len(t) + 1])
      BY <1>3, <3>1
    <3> QED BY <1>1, <1>5, <1>f, <3>1, <3>2
  <2> QED BY <2>1, <2>2, <2>3
<1>8. x = y
  BY <1>3, <1>5, <1>6, <1>7, SeqEqual
<1> QED BY <1>1, <1>2, <1>3, <1>5, <1>f, <1>y, <1>8

\* A frame that the relay has handed on is still on its way.
LEMMA ComingRouted ==
  ASSUME NEW p \in Nat \ {0}, NEW d \in Seq(ViewFrame), NEW t \in Seq(Sent), t # <<>>,
         Head(t).to \in {Everyone, p}
  PROVE  ComingTo(p, Append(d, Head(t).frame), Tail(t)) = ComingTo(p, d, t)
<1>m. PICK m : m = Head(t)
  OBVIOUS
<1>1. /\ m \in Sent
      /\ m = Head(t)
      /\ m = t[1]
  BY <1>m
<1>f. m.frame \in ViewFrame
  BY <1>1 DEF Sent
<1>u. PICK u : u = Tail(t)
  OBVIOUS
<1>2. /\ u \in Seq(Sent)
      /\ u = Tail(t)
      /\ Len(u) = Len(t) - 1
      /\ \A i \in 1..Len(u) : u[i] = t[i + 1]
  BY <1>u, HeadTailProperties
<1>e. PICK e : e = Append(d, m.frame)
  OBVIOUS
<1>3. /\ e \in Seq(ViewFrame)
      /\ e = Append(d, m.frame)
      /\ Len(e) = Len(d) + 1
      /\ e[Len(d) + 1] = m.frame
      /\ \A i \in 1..Len(d) : e[i] = d[i]
  BY <1>e, <1>f, AppendProperties
<1>s. PICK s : s = ComingTo(p, d, t)
  OBVIOUS
<1>sh. Holds(s, p, d, t)
  BY <1>s, ComingAt
<1>4. /\ s \in Seq(Frame) /\ s = ComingTo(p, d, t) /\ Len(s) = Len(d) + Len(t)
      /\ \A i \in 1..Len(d) : s[i] = d[i]
      /\ \A j \in 1..Len(t) : s[Len(d) + j] = Heard(p, t[j])
  BY <1>s, <1>sh DEF Holds
<1>x. PICK x : x = ComingTo(p, e, u)
  OBVIOUS
<1>xh. Holds(x, p, e, u)
  BY <1>x, <1>2, <1>3, ComingAt
<1>5. /\ x \in Seq(Frame) /\ x = ComingTo(p, e, u) /\ Len(x) = Len(e) + Len(u)
      /\ \A i \in 1..Len(e) : x[i] = e[i]
      /\ \A j \in 1..Len(u) : x[Len(e) + j] = Heard(p, u[j])
  BY <1>x, <1>xh DEF Holds
<1>6. Len(t) \in Nat \ {0} /\ Len(d) \in Nat
  OBVIOUS
<1>7. Len(x) = Len(s)
  BY <1>2, <1>3, <1>4, <1>5, <1>6
<1>8. ASSUME NEW i \in 1..Len(x) PROVE x[i] = s[i]
  <2>1. CASE i \in 1..Len(d)
    <3>1. i \in 1..Len(e)
      BY <1>3, <1>6, <2>1
    <3> QED BY <1>3, <1>4, <1>5, <2>1, <3>1
  <2>2. CASE i = Len(d) + 1
    <3>1. i \in 1..Len(e) /\ 1 \in 1..Len(t)
      BY <1>3, <1>6, <2>2
    <3>2. x[i] = m.frame /\ s[i] = Heard(p, t[1])
      BY <1>3, <1>4, <1>5, <2>2, <3>1
    <3> QED BY <1>1, <3>2 DEF Heard
  <2>3. CASE i \notin 1..Len(d) /\ i # Len(d) + 1
    <3>1. PICK j \in 1..Len(u) : i = Len(e) + j /\ j + 1 \in 1..Len(t) /\ i = Len(d) + (j + 1)
      <4>1. /\ i - Len(e) \in 1..Len(u) /\ i = Len(e) + (i - Len(e))
            /\ (i - Len(e)) + 1 \in 1..Len(t) /\ i = Len(d) + ((i - Len(e)) + 1)
        BY <1>2, <1>3, <1>5, <1>6, <2>3
      <4> QED BY <4>1
    <3>2. x[i] = Heard(p, u[j]) /\ u[j] = t[j + 1] /\ s[i] = Heard(p, t[j + 1])
      BY <1>2, <1>4, <1>5, <3>1
    <3> QED BY <3>2
  <2> QED BY <2>1, <2>2, <2>3
<1>9. x = s
  BY <1>4, <1>5, <1>7, <1>8, SeqEqual
<1> QED BY <1>1, <1>2, <1>3, <1>4, <1>5, <1>9

\* A frame for another guest: without it the same is on its way.
LEMMA ComingSkips ==
  ASSUME NEW p \in Nat \ {0}, NEW d \in Seq(ViewFrame), NEW t \in Seq(Sent), t # <<>>,
         Head(t).to \notin {Everyone, p}, NEW c, NEW h, NEW w, NEW l,
         ViewOf(c, ComingTo(p, d, t), h, w, l)
  PROVE  ViewOf(c, ComingTo(p, d, Tail(t)), h, w, l)
<1>m. PICK m : m = Head(t)
  OBVIOUS
<1>1. /\ m \in Sent
      /\ m = Head(t)
      /\ m = t[1]
  BY <1>m
<1>u. PICK u : u = Tail(t)
  OBVIOUS
<1>2. /\ u \in Seq(Sent)
      /\ u = Tail(t)
      /\ Len(u) = Len(t) - 1
      /\ \A i \in 1..Len(u) : u[i] = t[i + 1]
  BY <1>u, HeadTailProperties
<1>s. PICK s : s = ComingTo(p, d, t)
  OBVIOUS
<1>sh. Holds(s, p, d, t)
  BY <1>s, ComingAt
<1>3. /\ s \in Seq(Frame) /\ s = ComingTo(p, d, t) /\ Len(s) = Len(d) + Len(t)
      /\ \A i \in 1..Len(d) : s[i] = d[i]
      /\ \A j \in 1..Len(t) : s[Len(d) + j] = Heard(p, t[j])
  BY <1>s, <1>sh DEF Holds
<1>x. PICK x : x = ComingTo(p, d, u)
  OBVIOUS
<1>xh. Holds(x, p, d, u)
  BY <1>x, <1>2, ComingAt
<1>4. /\ x \in Seq(Frame) /\ x = ComingTo(p, d, u) /\ Len(x) = Len(d) + Len(u)
      /\ \A i \in 1..Len(d) : x[i] = d[i]
      /\ \A j \in 1..Len(u) : x[Len(d) + j] = Heard(p, u[j])
  BY <1>x, <1>xh DEF Holds
<1>5. Len(t) \in Nat \ {0} /\ Len(d) \in Nat
  OBVIOUS
<1>6. Len(s) = Len(x) + 1 /\ Len(d) \in 0..Len(x)
  BY <1>2, <1>3, <1>4, <1>5
<1>7. Idle(s[Len(d) + 1])
  <2>1. 1 \in 1..Len(t)
    BY <1>5
  <2>2. s[Len(d) + 1] = NotForMe
    BY <1>1, <1>3, <2>1 DEF Heard
  <2> QED BY <2>2 DEF NotForMe, Idle
<1>8. \A i \in 1..Len(d) : x[i] = s[i]
  BY <1>3, <1>4
<1>9. ASSUME NEW i \in Len(d) + 1..Len(x) PROVE x[i] = s[i + 1]
  <2>1. PICK j \in 1..Len(u) : i = Len(d) + j /\ j + 1 \in 1..Len(t) /\ i + 1 = Len(d) + (j + 1)
    <3>1. /\ i - Len(d) \in 1..Len(u) /\ i = Len(d) + (i - Len(d))
          /\ (i - Len(d)) + 1 \in 1..Len(t) /\ i + 1 = Len(d) + ((i - Len(d)) + 1)
      BY <1>2, <1>4, <1>5
    <3> QED BY <3>1
  <2>2. x[i] = Heard(p, u[j]) /\ u[j] = t[j + 1] /\ s[i + 1] = Heard(p, t[j + 1])
    BY <1>2, <1>3, <1>4, <2>1
  <2> QED BY <2>2
<1>10. ViewOf(c, x, h, w, l)
  <2>1. ViewOf(c, s, h, w, l)
    BY <1>3
  <2>2. PICK k \in 0..Len(x) : k = Len(d)
    BY <1>6
  <2>3. Idle(s[k + 1]) /\ (\A i \in 1..k : x[i] = s[i]) /\ \A i \in k + 1..Len(x) : x[i] = s[i + 1]
    BY <1>7, <1>8, <1>9, <2>2
  <2>4. s \in Seq(Frame) /\ x \in Seq(Frame) /\ Len(s) = Len(x) + 1
    BY <1>3, <1>4, <1>6
  <2> QED BY <2>1, <2>3, <2>4, ViewSkips
<1> QED BY <1>2, <1>4, <1>10

(***************************************************************************)
(* The inductive invariant.                                                *)
(***************************************************************************)

\* The room goes by its host; a guest has its peer id to itself, and keeps it while its
\* socket holds; what is told to all are entries.
PeersValid ==
  /\ host = "open" => room.open
  /\ \A g \in Guest : peer[g] # 0 => room.open /\ peer[g] < room.next /\ sock[g] = "open"
  /\ \A g, h \in Guest : peer[g] # 0 /\ peer[g] = peer[h] => g = h
  /\ \A i \in DOMAIN toRelay :
       toRelay[i].to < room.next /\ (toRelay[i].to = Everyone => toRelay[i].frame.t = "entry")
  /\ \A g \in known : peer[g] # 0

\* A client without a socket hears nothing and is not live.
SocketsValid ==
  \A g \in Guest :
    /\ sock[g] \in {"none", "away"} => down[g] = <<>> /\ client[g].phase # "live"
    /\ sock[g] = "none" => out[g] = <<>>
    /\ sock[g] = "none" <=> client[g].phase = "ended"

\* What a client has asked for is a question it knows.
AsksValid ==
  \A g \in Guest :
    /\ client[g].pending <= client[g].seq
    /\ \A i \in DOMAIN out[g] : out[g][i].t = "fetch-history" =>
         /\ out[g][i].reqId <= client[g].seq
         /\ out[g][i].reqId = client[g].pending => out[g][i].before = client[g].before

\* The host is there for g.
Hears(g) == host = "open" /\ peer[g] # 0

ViewsValid == \A g \in Guest : ViewOf(client[g], Coming(g), Hears(g), g \in known, log)

ViewInv == ViewTypeOK /\ PeersValid /\ SocketsValid /\ AsksValid /\ ViewsValid

\* A new client is a client.
LEMMA FreshIs ==
  /\ Fresh \in ClientRecord /\ Fresh.phase = "connecting" /\ Fresh.pending = 0 /\ Fresh.seq = 0
BY DEF Fresh, ClientRecord

\* The invariant holds at first.
LEMMA ViewInitial == ViewInit => ViewInv
<1> SUFFICES ASSUME ViewInit PROVE ViewInv
  OBVIOUS
<1> USE ViewAssumption DEF ViewInit, RelayInit
<1>1. ViewTypeOK
  BY FreshIs DEF ViewTypeOK
<1>2. PeersValid /\ SocketsValid
  BY FreshIs DEF PeersValid, SocketsValid
<1>3. AsksValid
  <2>1. ASSUME NEW g \in Guest
        PROVE  client[g].pending <= client[g].seq /\ DOMAIN out[g] = {}
    BY FreshIs
  <2> QED BY <2>1 DEF AsksValid
<1>4. ASSUME NEW g \in Guest PROVE ViewOf(client[g], Coming(g), Hears(g), g \in known, log)
  <2>1. Coming(g) = <<>>
    BY DEF Coming, ComingTo
  <2>2. <<>> \in Seq(Frame) /\ \A i \in DOMAIN <<>> : Quiet(<<>>[i])
    OBVIOUS
  <2>3. client[g] \in ClientRecord /\ client[g].phase # "live" /\ ~(g \in known)
    BY FreshIs
  <2> QED BY <2>1, <2>2, <2>3, ViewStarts
<1> QED BY <1>1, <1>2, <1>3, <1>4 DEF ViewInv, ViewsValid

\* What is on its way to a guest are frames.
LEMMA ComingFrames ==
  ASSUME ViewTypeOK, NEW g \in Guest
  PROVE  /\ client[g] \in ClientRecord /\ peer[g] \in Nat /\ down[g] \in Seq(ViewFrame)
         /\ toRelay \in Seq(Sent) /\ Coming(g) \in Seq(Frame) /\ log \in Nat
<1>1. /\ client[g] \in ClientRecord /\ peer[g] \in Nat /\ down[g] \in Seq(ViewFrame)
      /\ toRelay \in Seq(Sent) /\ log \in Nat
  BY DEF ViewTypeOK, Sent
<1>2. Coming(g) \in Seq(Frame)
  BY <1>1, ComingIs DEF Coming
<1> QED BY <1>1, <1>2

\* An entry that the host appends keeps the invariant.
LEMMA AppendsKeeps ==
  ASSUME ViewInv, Appends
  PROVE  ViewInv'
<1> USE DEF ViewInv
<1>0. /\ log' = log + 1
      /\ toRelay' = IF host = "open" THEN Append(toRelay, To(Everyone, Entry(log + 1))) ELSE toRelay
      /\ UNCHANGED <<room, peer, host, down, known, sock, client, out, refused, asks, mishaps>>
  BY DEF Appends, Calm, guestVars
<1>1. To(Everyone, Entry(log + 1)) \in Sent /\ To(Everyone, Entry(log + 1)).to = Everyone
      /\ To(Everyone, Entry(log + 1)).frame = Entry(log + 1) /\ Entry(log + 1).t = "entry"
  BY DEF ViewTypeOK, To, Entry, Sent, ViewFrame, EntryId, Everyone
<1> PICK m \in Sent : m = To(Everyone, Entry(log + 1)) /\ m.to = Everyone /\ m.frame = Entry(log + 1) /\ m.frame.t = "entry"
  BY <1>1
<1>2. ViewTypeOK'
  <2>1. toRelay \in Seq(Sent) /\ log' \in Nat
    BY <1>0 DEF ViewTypeOK, Sent
  <2>2. toRelay' \in Seq(Sent)
    BY <1>0, <2>1
  <2> QED BY <1>0, <2>1, <2>2 DEF ViewTypeOK, Sent
<1>3. PeersValid'
  <2>1. ASSUME NEW i \in DOMAIN toRelay'
        PROVE  toRelay'[i].to < room.next /\ (toRelay'[i].to = Everyone => toRelay'[i].frame.t = "entry")
    <3>1. toRelay'[i] = m \/ (i \in DOMAIN toRelay /\ toRelay'[i] = toRelay[i])
      BY <1>0 DEF ViewTypeOK
    <3>2. Everyone < room.next
      BY DEF ViewTypeOK, Everyone
    <3> QED BY <3>1, <3>2 DEF PeersValid
  <2> QED BY <1>0, <2>1 DEF PeersValid
<1>4. SocketsValid' /\ AsksValid'
  BY <1>0 DEF SocketsValid, AsksValid
<1>5. ASSUME NEW g \in Guest PROVE ViewOf(client[g], Coming(g), Hears(g), g \in known, log)'
  <2>0. /\ client[g] \in ClientRecord /\ peer[g] \in Nat /\ down[g] \in Seq(ViewFrame)
        /\ toRelay \in Seq(Sent) /\ Coming(g) \in Seq(Frame) /\ log \in Nat
    BY ComingFrames
  <2>1. ViewOf(client[g], Coming(g), Hears(g), g \in known, log)
    BY DEF ViewsValid
  <2>2. Hears(g)' = Hears(g)
    BY <1>0 DEF Hears
  <2>3. CASE Hears(g)
    <3>1. Coming(g)' = Append(Coming(g), Entry(log + 1))
      <4>1. Heard(peer[g], m) = Entry(log + 1)
        BY DEF Heard
      <4>2. peer[g] \in Nat \ {0} /\ toRelay' = Append(toRelay, m)
        BY <1>0, <2>0, <2>3 DEF Hears
      <4>3. ComingTo(peer[g], down[g], Append(toRelay, m)) = Append(ComingTo(peer[g], down[g], toRelay), Heard(peer[g], m))
        <5>1. peer[g] \in Nat \ {0} /\ down[g] \in Seq(ViewFrame) /\ toRelay \in Seq(Sent)
          BY <2>0, <4>2
        <5>2. PICK p \in Nat \ {0}, d \in Seq(ViewFrame), t \in Seq(Sent) : p = peer[g] /\ d = down[g] /\ t = toRelay
          BY <5>1, Zenon
        <5>3. ComingTo(p, d, Append(t, m)) = Append(ComingTo(p, d, t), Heard(p, m))
          BY ComingAppends
        <5> QED BY <5>2, <5>3, Zenon
      <4> QED BY <1>0, <4>1, <4>2, <4>3 DEF Coming
    <3>2. ViewOf(client[g], Coming(g), TRUE, g \in known, log)
      BY <2>1, <2>3, ViewStays
    <3>3. ViewOf(client[g], Append(Coming(g), Entry(log + 1)), TRUE, g \in known, log + 1)
      BY <2>0, <3>2, ViewGrows
    <3>4. ViewOf(client[g], Coming(g)', Hears(g)', g \in known, log + 1)
      BY <2>2, <2>3, <3>1, <3>3, ViewStays
    <3> QED BY <1>0, <3>4
  <2>4. CASE ~Hears(g)
    <3>1. Coming(g)' = Coming(g)
      <4>1. CASE peer[g] = 0
        BY <1>0, <2>0, <4>1, ComingIs DEF Coming, ComingTo
      <4>2. CASE host # "open"
        BY <1>0, <4>2 DEF Coming
      <4> QED BY <2>4, <4>1, <4>2 DEF Hears
    <3>2. ViewOf(client[g], Coming(g), Hears(g)', g \in known, log')
      BY <2>1, <2>2, <2>4, ViewStays
    <3> QED BY <1>0, <3>1, <3>2
  <2> QED BY <2>3, <2>4
<1> QED BY <1>2, <1>3, <1>4, <1>5 DEF ViewsValid

\* A frame that the relay routes keeps the invariant.
LEMMA RoutesKeeps ==
  ASSUME ViewInv, Routes
  PROVE  ViewInv'
<1> USE DEF ViewInv
<1>0. /\ room.open /\ toRelay # <<>> /\ toRelay' = Tail(toRelay)
      /\ down' = [g \in Guest |->
           IF peer[g] # 0 /\ Head(toRelay).to \in {Everyone, peer[g]}
           THEN Append(down[g], Head(toRelay).frame) ELSE down[g]]
      /\ UNCHANGED <<room, peer, host, log, known, sock, client, out, refused, asks, mishaps>>
  BY DEF Routes, Route, Unwatched, Calm, guestVars
<1>t. toRelay \in Seq(Sent)
  BY DEF ViewTypeOK, Sent
<1>1. /\ Head(toRelay) \in Sent /\ Tail(toRelay) \in Seq(Sent)
      /\ \A i \in DOMAIN Tail(toRelay) : i + 1 \in DOMAIN toRelay /\ Tail(toRelay)[i] = toRelay[i + 1]
  BY <1>0, <1>t
<1>f. Head(toRelay).frame \in ViewFrame
  BY <1>1 DEF Sent
<1>2. ViewTypeOK'
  <2>1. ASSUME NEW g \in Guest PROVE down'[g] \in Seq(ViewFrame)
    BY <1>0, <1>f DEF ViewTypeOK
  <2>2. down' \in [Guest -> Seq(ViewFrame)]
    BY <1>0, <2>1
  <2> QED BY <1>0, <1>1, <2>2 DEF ViewTypeOK, Sent
<1>3. PeersValid'
  BY <1>0, <1>1 DEF PeersValid
<1>4. SocketsValid' /\ AsksValid'
  <2>1. ASSUME NEW g \in Guest, sock[g] \in {"none", "away"} PROVE down'[g] = down[g]
    BY <1>0, <2>1 DEF PeersValid
  <2> QED BY <1>0, <2>1 DEF SocketsValid, AsksValid
<1>5. ASSUME NEW g \in Guest PROVE ViewOf(client[g], Coming(g), Hears(g), g \in known, log)'
  <2>0. /\ client[g] \in ClientRecord /\ peer[g] \in Nat /\ down[g] \in Seq(ViewFrame)
        /\ toRelay \in Seq(Sent) /\ Coming(g) \in Seq(Frame) /\ log \in Nat
    BY ComingFrames
  <2>1. ViewOf(client[g], Coming(g), Hears(g), g \in known, log)
    BY DEF ViewsValid
  <2>2. Hears(g)' = Hears(g)
    BY <1>0 DEF Hears
  <2>3. CASE peer[g] = 0
    <3>1. down'[g] = down[g] /\ peer'[g] = 0
      BY <1>0, <2>3
    <3>2. Coming(g)' = Coming(g)
      BY <2>3, <3>1 DEF Coming, ComingTo
    <3> QED BY <1>0, <2>1, <2>2, <3>2
  <2>4. CASE peer[g] # 0 /\ Head(toRelay).to \in {Everyone, peer[g]}
    <3>1. down'[g] = Append(down[g], Head(toRelay).frame) /\ peer[g] \in Nat \ {0}
      BY <1>0, <2>0, <2>4
    <3>2. ComingTo(peer[g], Append(down[g], Head(toRelay).frame), Tail(toRelay)) = ComingTo(peer[g], down[g], toRelay)
      BY <1>0, <2>0, <2>4, <3>1, ComingRouted
    <3>3. Coming(g)' = Coming(g)
      BY <1>0, <3>1, <3>2 DEF Coming
    <3> QED BY <1>0, <2>1, <2>2, <3>3
  <2>5. CASE peer[g] # 0 /\ Head(toRelay).to \notin {Everyone, peer[g]}
    <3>1. down'[g] = down[g] /\ peer[g] \in Nat \ {0}
      BY <1>0, <2>0, <2>5
    <3>2. ViewOf(client[g], ComingTo(peer[g], down[g], toRelay), Hears(g), g \in known, log)
      BY <2>1 DEF Coming
    <3>3. ViewOf(client[g], ComingTo(peer[g], down[g], Tail(toRelay)), Hears(g), g \in known, log)
      BY <1>0, <2>0, <2>5, <3>1, <3>2, ComingSkips
    <3>4. Coming(g)' = ComingTo(peer[g], down[g], Tail(toRelay))
      BY <1>0, <3>1 DEF Coming
    <3> QED BY <1>0, <2>2, <3>3, <3>4
  <2> QED BY <2>3, <2>4, <2>5
<1> QED BY <1>2, <1>3, <1>4, <1>5 DEF ViewsValid

\* What a welcome and its train are on the relay.
Trained(u, p, t, page) ==
  /\ u \in Seq(Sent) /\ Len(u) = Len(t) + 1 + Len(page) /\ Len(page) \in Nat
  /\ \A i \in 1..Len(t) : u[i] = t[i]
  /\ u[Len(t) + 1] = To(p, Welcome(Len(page), Older(page)))
  /\ \A j \in 1..Len(page) : u[Len(t) + 1 + j] = To(p, Chunk(page[j], j = Len(page)))

\* The train that answers a hello, as the relay carries it.
LEMMA TrainSent ==
  ASSUME NEW p \in Nat, NEW l \in Nat, NEW t \in Seq(Sent), NEW page \in Pages(l + 1), NEW u,
         u = t \o <<To(p, Welcome(Len(page), Older(page)))>> \o Train(p, page)
  PROVE  Trained(u, p, t, page)
<1>0. l + 1 \in EntryId
  BY DEF EntryId
<1>1. page \in Seq(EntryId) /\ Len(page) \in Nat
  BY <1>0, PageIs
<1>2. PICK m : m = To(p, Welcome(Len(page), Older(page)))
  OBVIOUS
<1>3. m \in Sent
  <2>1. Older(page) \in BOOLEAN
    BY DEF Older
  <2> QED BY <1>1, <1>2, <2>1 DEF To, Welcome, Sent, ViewFrame
<1>4. PICK q : q = Train(p, page)
  OBVIOUS
<1>5. q \in Seq(Sent) /\ Len(q) = Len(page) /\ \A j \in 1..Len(page) : q[j] = To(p, Chunk(page[j], j = Len(page)))
  <2>1. ASSUME NEW j \in 1..Len(page) PROVE To(p, Chunk(page[j], j = Len(page))) \in Sent
    <3>1. PICK y \in EntryId : y = page[j]
      <4>1. page[j] \in EntryId
        BY <1>1
      <4> QED BY <4>1
    <3>2. PICK b \in BOOLEAN : b = (j = Len(page))
      OBVIOUS
    <3>3. <<y>> \in Seq(EntryId)
      OBVIOUS
    <3>4. Chunk(y, b) \in ViewFrame
      BY <3>3 DEF Chunk, ViewFrame
    <3>5. To(p, Chunk(y, b)) \in Sent
      BY <3>4 DEF To, Sent
    <3> QED BY <3>1, <3>2, <3>5
  <2>2. q = [j \in 1..Len(page) |-> To(p, Chunk(page[j], j = Len(page)))]
    <3>1. DOMAIN page = 1..Len(page) /\ q = Train(p, page)
      BY <1>1, <1>4
    <3>2. Train(p, page) = [j \in DOMAIN page |-> To(p, Chunk(page[j], j = Len(page)))]
      BY Zenon DEF Train
    <3> QED BY <3>1, <3>2, Zenon
  <2> HIDE DEF Sent
  <2>3. q \in [1..Len(page) -> Sent]
    BY <2>1, <2>2
  <2>4. q \in Seq(Sent) /\ Len(q) = Len(page)
    <3>1. PICK n \in Nat : n = Len(page)
      BY <1>1
    <3>2. q \in [1..n -> Sent]
      BY <2>3, <3>1
    <3>3. q \in Seq(Sent) /\ Len(q) = n
      BY <3>2
    <3> QED BY <3>1, <3>3
  <2> QED BY <2>2, <2>4
<1>6. PICK v : v = t \o <<m>>
  OBVIOUS
<1>7. v \in Seq(Sent) /\ Len(v) = Len(t) + 1 /\ v[Len(t) + 1] = m /\ \A i \in 1..Len(t) : v[i] = t[i]
  <2>1. v = Append(t, m)
    BY <1>3, <1>6, AppendIsConcat
  <2> QED BY <1>3, <2>1, AppendProperties
<1>8. u = v \o q
  BY <1>2, <1>4, <1>6
<1>9. /\ u \in Seq(Sent) /\ Len(u) = Len(v) + Len(q)
      /\ \A i \in 1..Len(v) + Len(q) : u[i] = IF i <= Len(v) THEN v[i] ELSE q[i - Len(v)]
  <2>1. /\ v \o q \in Seq(Sent) /\ Len(v \o q) = Len(v) + Len(q)
        /\ \A i \in 1..Len(v) + Len(q) : (v \o q)[i] = IF i <= Len(v) THEN v[i] ELSE q[i - Len(v)]
    <3>1. v \in Seq(Sent) /\ q \in Seq(Sent)
      BY <1>5, <1>7
    <3> QED BY <3>1, ConcatProperties, Zenon
  <2> QED BY <1>8, <2>1
<1>10. Len(t) \in Nat /\ Len(u) = Len(t) + 1 + Len(page)
  BY <1>1, <1>5, <1>7, <1>9
<1>11. ASSUME NEW i \in 1..Len(t) + 1 PROVE u[i] = v[i]
  <2>1. i \in 1..Len(v) + Len(q) /\ i <= Len(v)
    BY <1>1, <1>5, <1>7, <1>10
  <2> QED BY <1>9, <2>1
<1>12. ASSUME NEW j \in 1..Len(page) PROVE u[Len(t) + 1 + j] = q[j]
  <2>1. Len(t) + 1 + j \in 1..Len(v) + Len(q) /\ ~(Len(t) + 1 + j <= Len(v)) /\ (Len(t) + 1 + j) - Len(v) = j
    BY <1>1, <1>5, <1>7, <1>10
  <2> QED BY <1>9, <2>1
<1>13. (\A i \in 1..Len(t) : u[i] = t[i]) /\ u[Len(t) + 1] = m
  BY <1>7, <1>10, <1>11
<1>14. ASSUME NEW j \in 1..Len(page) PROVE u[Len(t) + 1 + j] = To(p, Chunk(page[j], j = Len(page)))
  BY <1>5, <1>12
<1> QED BY <1>1, <1>2, <1>9, <1>10, <1>13, <1>14 DEF Trained

\* One frame less to be read by the host.
LEMMA HostReadsKeeps ==
  ASSUME ViewInv, NEW g \in Guest, HostReads(g)
  PROVE  /\ out' \in [Guest -> Seq(GuestFrame)] /\ SocketsValid' /\ AsksValid'
         /\ host = "open" /\ room.open /\ peer[g] \in Nat \ {0}
         /\ out[g] # <<>> /\ Head(out[g]) \in GuestFrame /\ 1 \in DOMAIN out[g] /\ Head(out[g]) = out[g][1]
         /\ UNCHANGED <<room, peer, host, down, log, sock, client, refused, asks>>
<1> USE DEF ViewInv
<1>0. /\ host = "open" /\ room.open /\ peer[g] # 0 /\ out[g] # <<>>
      /\ out' = [out EXCEPT ![g] = Tail(@)]
      /\ UNCHANGED <<room, peer, host, down, log, sock, client, refused, asks>>
  BY DEF HostReads
<1>1. out \in [Guest -> Seq(GuestFrame)] /\ peer[g] \in Nat
  BY DEF ViewTypeOK
<1>2. /\ Head(out[g]) \in GuestFrame /\ 1 \in DOMAIN out[g] /\ Head(out[g]) = out[g][1]
      /\ Tail(out[g]) \in Seq(GuestFrame)
      /\ \A i \in DOMAIN Tail(out[g]) : i + 1 \in DOMAIN out[g] /\ Tail(out[g])[i] = out[g][i + 1]
  <2>1. out[g] \in Seq(GuestFrame) /\ out[g] # <<>>
    BY <1>0, <1>1
  <2> QED BY <2>1
<1>3. out' \in [Guest -> Seq(GuestFrame)]
  BY <1>0, <1>1, <1>2
<1>4. \A h \in Guest : out'[h] = IF h = g THEN Tail(out[g]) ELSE out[h]
  BY <1>0, <1>1
<1>5. SocketsValid'
  <2>1. sock[g] # "none"
    BY <1>0 DEF PeersValid
  <2> QED BY <1>0, <1>4, <2>1 DEF SocketsValid
<1>6. AsksValid'
  <2>1. ASSUME NEW h \in Guest, NEW i \in DOMAIN out'[h] PROVE \E j \in DOMAIN out[h] : out'[h][i] = out[h][j]
    <3>1. CASE h # g
      BY <1>4, <3>1, Zenon
    <3>2. CASE h = g
      <4>1. out'[h] = Tail(out[g])
        BY <1>4, <3>2
      <4>2. i + 1 \in DOMAIN out[g] /\ out'[h][i] = out[g][i + 1]
        BY <1>2, <4>1, Zenon
      <4> QED BY <3>2, <4>2, Zenon
    <3> QED BY <3>1, <3>2
  <2>2. ASSUME NEW h \in Guest, NEW i \in DOMAIN out'[h], out'[h][i].t = "fetch-history"
        PROVE  /\ out'[h][i].reqId <= client[h].seq
               /\ out'[h][i].reqId = client[h].pending => out'[h][i].before = client[h].before
    BY <2>1, <2>2 DEF AsksValid
  <2>3. client' = client
    BY <1>0
  <2>4. \A h \in Guest : client[h].pending <= client[h].seq
    BY DEF AsksValid
  <2> QED BY <2>2, <2>3, <2>4 DEF AsksValid
<1> QED BY <1>0, <1>1, <1>2, <1>3, <1>5, <1>6

\* The answer to a hello keeps the invariant.
LEMMA WelcomesKeeps ==
  ASSUME ViewInv, NEW g \in Guest, Welcomes(g)
  PROVE  ViewInv'
<1> USE DEF ViewInv
<1>r. HostReads(g)
  BY DEF Welcomes
<1>0. /\ out' \in [Guest -> Seq(GuestFrame)] /\ SocketsValid' /\ AsksValid'
      /\ host = "open" /\ room.open /\ peer[g] \in Nat \ {0}
      /\ UNCHANGED <<room, peer, host, down, log, sock, client, refused, asks>>
      /\ known' = known \cup {g} /\ mishaps' = mishaps
  BY <1>r, HostReadsKeeps DEF Welcomes, Calm
<1>1. PICK page \in Pages(log + 1) :
        toRelay' = toRelay \o <<To(peer[g], Welcome(Len(page), Older(page)))>> \o Train(peer[g], page)
  BY DEF Welcomes
<1>t. toRelay \in Seq(Sent) /\ log \in Nat
  BY DEF ViewTypeOK, Sent
<1>2. /\ toRelay' \in Seq(Sent) /\ Len(toRelay') = Len(toRelay) + 1 + Len(page) /\ Len(page) \in Nat
      /\ \A i \in 1..Len(toRelay) : toRelay'[i] = toRelay[i]
      /\ toRelay'[Len(toRelay) + 1] = To(peer[g], Welcome(Len(page), Older(page)))
      /\ \A j \in 1..Len(page) : toRelay'[Len(toRelay) + 1 + j] = To(peer[g], Chunk(page[j], j = Len(page)))
  <2>1. peer[g] \in Nat
    BY <1>0
  <2>2. Trained(toRelay', peer[g], toRelay, page)
    BY <1>1, <1>t, <2>1, TrainSent
  <2> QED BY <2>2 DEF Trained
<1>k. Len(toRelay') = Len(toRelay) + 1 + Len(page) /\ Len(page) \in Nat /\ Len(toRelay) \in Nat
  BY <1>2, <1>t
<1>n. PICK b \in Nat, k \in Nat : b = Len(toRelay) /\ k = Len(page) /\ Len(toRelay') = b + 1 + k
  BY <1>k
<1>3. ViewTypeOK'
  BY <1>0, <1>2 DEF ViewTypeOK, Sent
<1>4. ASSUME NEW i \in DOMAIN toRelay', i \notin DOMAIN toRelay
      PROVE  toRelay'[i].to = peer[g]
  <2>1. i \in 1..Len(toRelay') /\ i \notin 1..Len(toRelay) /\ Len(toRelay) \in Nat
    BY <1>2, <1>4, <1>t
  <2>2. CASE i = Len(toRelay) + 1
    BY <1>2, <2>2 DEF To
  <2>3. CASE i # Len(toRelay) + 1
    <3>1. PICK j \in 1..Len(page) : i = Len(toRelay) + 1 + j
      <4>1. i - (Len(toRelay) + 1) \in 1..Len(page) /\ i = Len(toRelay) + 1 + (i - (Len(toRelay) + 1))
        BY <1>2, <2>1, <2>3
      <4> QED BY <4>1
    <3>2. toRelay'[i] = To(peer[g], Chunk(page[j], j = Len(page)))
      BY <1>2, <3>1
    <3>3. \A f : To(peer[g], f).to = peer[g]
      BY DEF To
    <3> QED BY <3>2, <3>3
  <2> QED BY <2>2, <2>3
<1>5. PeersValid'
  <2>1. ASSUME NEW i \in DOMAIN toRelay'
        PROVE  toRelay'[i].to < room.next /\ (toRelay'[i].to = Everyone => toRelay'[i].frame.t = "entry")
    <3>1. CASE i \in DOMAIN toRelay
      <4>1. toRelay'[i] = toRelay[i]
        BY <1>2, <1>t, <3>1
      <4> QED BY <3>1, <4>1 DEF PeersValid
    <3>2. CASE i \notin DOMAIN toRelay
      <4>1. toRelay'[i].to = peer[g]
        BY <1>4, <3>2
      <4>2. peer[g] < room.next /\ peer[g] # Everyone
        BY <1>0 DEF PeersValid, Everyone
      <4> QED BY <4>1, <4>2
    <3> QED BY <3>1, <3>2
  <2>2. \A h \in known' : peer[h] # 0
    BY <1>0 DEF PeersValid
  <2> QED BY <1>0, <2>1, <2>2 DEF PeersValid
<1>6. ASSUME NEW h \in Guest PROVE ViewOf(client[h], Coming(h), Hears(h), h \in known, log)'
  <2>0. /\ client[h] \in ClientRecord /\ peer[h] \in Nat /\ down[h] \in Seq(ViewFrame)
        /\ Coming(h) \in Seq(Frame)
    BY ComingFrames
  <2>1. ViewOf(client[h], Coming(h), Hears(h), h \in known, log)
    BY DEF ViewsValid
  <2>2. Hears(h)' = Hears(h)
    BY <1>0 DEF Hears
  <2>s. PICK s : s = Coming(h)
    OBVIOUS
  <2>x. PICK x : x = Coming(h)'
    OBVIOUS
  <2>3. CASE peer[h] = 0
    <3>1. Coming(h)' = Coming(h)
      BY <1>0, <2>3 DEF Coming, ComingTo
    <3>2. ~Hears(h)
      BY <2>3 DEF Hears
    <3>3. ViewOf(client[h], Coming(h), Hears(h)', h \in known', log)
      BY <2>1, <2>2, <3>2, ViewStays
    <3> QED BY <1>0, <3>1, <3>3
  <2>4. CASE peer[h] # 0
    <3>0. peer[h] \in Nat \ {0}
      BY <2>0, <2>4
    <3>1. Holds(s, peer[h], down[h], toRelay) /\ Holds(x, peer[h], down[h], toRelay')
      <4>1. x = ComingTo(peer[h], down[h], toRelay') /\ s = ComingTo(peer[h], down[h], toRelay)
        BY <1>0, <2>s, <2>x DEF Coming
      <4> QED BY <1>t, <1>2, <2>0, <3>0, <4>1, ComingAt
    <3>n. Len(down[h]) \in Nat /\ Len(toRelay) \in Nat
      BY <1>t, <2>0
    <3>a. PICK a \in Nat : a = Len(down[h])
      BY <3>n
    <3>l. s \in Seq(Frame) /\ x \in Seq(Frame) /\ Len(s) = a + b /\ Len(x) = a + (b + 1 + k)
      BY <1>n, <3>1, <3>a DEF Holds
    <3>2. /\ s \in Seq(Frame) /\ x \in Seq(Frame) /\ Len(s) = Len(down[h]) + Len(toRelay)
          /\ Len(x) = Len(s) + 1 + Len(page)
      <4>1. a + (b + 1 + k) = (a + b) + 1 + k
        OBVIOUS
      <4> QED BY <1>n, <3>a, <3>l, <4>1, Zenon
    <3>3. ASSUME NEW i \in 1..Len(s) PROVE x[i] = s[i]
      <4>1. CASE i \in 1..Len(down[h])
        BY <3>1, <4>1 DEF Holds
      <4>2. CASE i \notin 1..Len(down[h])
        <5>1. PICK j \in 1..Len(toRelay) : i = Len(down[h]) + j /\ j \in 1..Len(toRelay')
          <6>1. /\ i - Len(down[h]) \in 1..Len(toRelay) /\ i = Len(down[h]) + (i - Len(down[h]))
                /\ i - Len(down[h]) \in 1..Len(toRelay')
            BY <1>2, <3>2, <3>n, <4>2
          <6> QED BY <6>1
        <5>2. x[i] = Heard(peer[h], toRelay'[j]) /\ s[i] = Heard(peer[h], toRelay[j]) /\ toRelay'[j] = toRelay[j]
          BY <1>2, <3>1, <5>1 DEF Holds
        <5> QED BY <5>2
      <4> QED BY <4>1, <4>2
    <3>4. ASSUME NEW i \in Len(s) + 1..Len(x)
          PROVE  \E j \in 1..Len(toRelay') : j \notin 1..Len(toRelay) /\ i = Len(down[h]) + j /\ x[i] = Heard(peer[h], toRelay'[j])
      <4>1. /\ i - Len(down[h]) \in 1..Len(toRelay') /\ i = Len(down[h]) + (i - Len(down[h]))
            /\ i - Len(down[h]) \notin 1..Len(toRelay)
        BY <1>2, <3>2, <3>n
      <4>2. x[Len(down[h]) + (i - Len(down[h]))] = Heard(peer[h], toRelay'[i - Len(down[h])])
        BY <3>1, <4>1 DEF Holds
      <4> QED BY <4>1, <4>2
    <3>5. CASE h # g
      <4>1. ASSUME NEW i \in Len(s) + 1..Len(x) PROVE Idle(x[i])
        <5>1. PICK j \in 1..Len(toRelay') : j \notin 1..Len(toRelay) /\ x[i] = Heard(peer[h], toRelay'[j])
          BY <3>4
        <5>2. j \in DOMAIN toRelay' /\ j \notin DOMAIN toRelay
          BY <1>2, <1>t, <5>1
        <5>3. toRelay'[j].to = peer[g]
          BY <1>4, <5>2
        <5>4. peer[g] # peer[h] /\ peer[g] # Everyone
          BY <1>0, <2>4, <3>5 DEF PeersValid, Everyone
        <5>5. x[i] = NotForMe
          BY <5>1, <5>3, <5>4 DEF Heard
        <5> QED BY <5>5 DEF NotForMe, Idle
      <4>2. Len(s) <= Len(x)
        BY <1>2, <3>2
      <4>3. ViewOf(client[h], s, Hears(h), h \in known, log)
        BY <2>1, <2>s
      <4>4. ViewOf(client[h], x, Hears(h), h \in known, log)
        BY <3>2, <3>3, <4>1, <4>2, <4>3, ViewIdles
      <4>5. (h \in known') = (h \in known)
        BY <1>0, <3>5
      <4>6. ViewOf(client[h], x, Hears(h)', h \in known', log)
        BY <2>2, <4>4, <4>5
      <4> QED BY <1>0, <2>x, <4>6
    <3>6. CASE h = g
      <4>1. ASSUME NEW i \in 1..Len(toRelay'), i \notin 1..Len(toRelay)
            PROVE  x[Len(down[h]) + i] = toRelay'[i].frame
        <5>1. i \in DOMAIN toRelay' /\ i \notin DOMAIN toRelay
          BY <1>2, <1>t, <4>1
        <5>2. toRelay'[i].to = peer[h]
          BY <1>4, <3>6, <5>1
        <5>3. x[Len(down[h]) + i] = Heard(peer[h], toRelay'[i])
          BY <3>1 DEF Holds
        <5> QED BY <5>2, <5>3 DEF Heard
      <4>2. x[Len(s) + 1] = Welcome(Len(page), Older(page))
        <5>1. Len(toRelay) + 1 \in 1..Len(toRelay') /\ Len(toRelay) + 1 \notin 1..Len(toRelay)
              /\ Len(s) + 1 = Len(down[h]) + (Len(toRelay) + 1)
          <6>1. b + 1 \in 1..b + 1 + k /\ b + 1 \notin 1..b /\ (a + b) + 1 = a + (b + 1)
            OBVIOUS
          <6> QED BY <1>n, <3>a, <3>l, <6>1, Zenon
        <5>2. x[Len(s) + 1] = toRelay'[Len(toRelay) + 1].frame
          BY <4>1, <5>1
        <5>3. \A f : To(peer[g], f).frame = f
          BY DEF To
        <5> QED BY <1>2, <5>2, <5>3
      <4>3. ASSUME NEW j \in 1..Len(page) PROVE x[Len(s) + 1 + j] = Chunk(page[j], j = Len(page))
        <5>1. Len(toRelay) + 1 + j \in 1..Len(toRelay') /\ Len(toRelay) + 1 + j \notin 1..Len(toRelay)
              /\ Len(s) + 1 + j = Len(down[h]) + (Len(toRelay) + 1 + j)
          <6>0. PICK i \in Nat : i = j /\ i \in 1..k
            BY <1>n
          <6>1. b + 1 + i \in 1..b + 1 + k /\ b + 1 + i \notin 1..b /\ (a + b) + 1 + i = a + (b + 1 + i)
            BY <6>0
          <6> QED BY <1>n, <3>a, <3>l, <6>0, <6>1, Zenon
        <5>2. x[Len(s) + 1 + j] = toRelay'[Len(toRelay) + 1 + j].frame
          BY <4>1, <5>1
        <5>3. \A f : To(peer[g], f).frame = f
          BY DEF To
        <5> QED BY <1>2, <5>2, <5>3
      <4>4. ViewOf(client[h], s, Hears(h), h \in known, log)
        BY <2>1, <2>s
      <4>5. ViewOf(client[h], x, TRUE, TRUE, log)
        BY <1>t, <2>0, <3>2, <3>3, <4>2, <4>3, <4>4, ViewWelcomed
      <4>6. (h \in known') = TRUE
        BY <1>0, <3>6
      <4>7. ViewOf(client[h], x, Hears(h)', h \in known', log)
        BY <4>5, <4>6, ViewStays
      <4> QED BY <1>0, <2>x, <4>7
    <3> QED BY <3>5, <3>6
  <2> QED BY <2>3, <2>4
<1> QED BY <1>0, <1>3, <1>5, <1>6 DEF ViewsValid

\* One idle frame more.
LEMMA ViewIdlesOnce ==
  ASSUME NEW c, NEW s \in Seq(Frame), NEW f \in Frame, Idle(f), NEW h, NEW w, NEW l,
         ViewOf(c, s, h, w, l)
  PROVE  ViewOf(c, Append(s, f), h, w, l)
<1>1. PICK x : x = Append(s, f)
  OBVIOUS
<1>2. x \in Seq(Frame) /\ Len(x) = Len(s) + 1 /\ x[Len(s) + 1] = f /\ \A i \in 1..Len(s) : x[i] = s[i]
  BY <1>1, AppendProperties
<1>3. Len(s) <= Len(x)
  BY <1>2
<1>4. ASSUME NEW i \in Len(s) + 1..Len(x) PROVE Idle(x[i])
  <2>1. i = Len(s) + 1
    BY <1>2
  <2> QED BY <1>2, <2>1
<1>5. ViewOf(c, x, h, w, l)
  BY <1>2, <1>3, <1>4, ViewIdles
<1> QED BY <1>1, <1>5

\* A frame to one guest.
LEMMA SentTo ==
  ASSUME ViewInv, NEW g \in Guest, host = "open", peer[g] \in Nat \ {0},
         NEW m \in Sent, m.to = peer[g], toRelay' = Append(toRelay, m),
         UNCHANGED <<room, peer, host, down, log, sock, client, known>>
  PROVE  /\ toRelay' \in Seq(Sent) /\ PeersValid'
         /\ Coming(g)' = Append(Coming(g), m.frame) /\ m.frame \in Frame
         /\ \A h \in Guest \ {g} : ViewOf(client[h], Coming(h), Hears(h), h \in known, log)'
<1> USE DEF ViewInv
<1>1. toRelay \in Seq(Sent)
  BY DEF ViewTypeOK, Sent
<1>2. toRelay' \in Seq(Sent)
  BY <1>1
<1>3. PeersValid'
  <2>1. ASSUME NEW i \in DOMAIN toRelay'
        PROVE  toRelay'[i].to < room.next /\ (toRelay'[i].to = Everyone => toRelay'[i].frame.t = "entry")
    <3>1. toRelay'[i] = m \/ (i \in DOMAIN toRelay /\ toRelay'[i] = toRelay[i])
      BY <1>1
    <3>2. peer[g] < room.next /\ peer[g] # Everyone
      BY DEF PeersValid, Everyone
    <3> QED BY <3>1, <3>2 DEF PeersValid
  <2> QED BY <2>1 DEF PeersValid
<1>4. Coming(g)' = Append(Coming(g), m.frame)
  <2>1. Heard(peer[g], m) = m.frame
    BY DEF Heard
  <2>2. down[g] \in Seq(ViewFrame)
    BY DEF ViewTypeOK
  <2>3. ComingTo(peer[g], down[g], Append(toRelay, m)) = Append(ComingTo(peer[g], down[g], toRelay), Heard(peer[g], m))
    BY <1>1, <2>2, ComingAppends
  <2> QED BY <2>1, <2>3 DEF Coming
<1>5. ASSUME NEW h \in Guest \ {g} PROVE ViewOf(client[h], Coming(h), Hears(h), h \in known, log)'
  <2>0. peer[h] \in Nat /\ down[h] \in Seq(ViewFrame) /\ Coming(h) \in Seq(Frame)
    BY ComingFrames
  <2>1. ViewOf(client[h], Coming(h), Hears(h), h \in known, log)
    BY DEF ViewsValid
  <2>2. Hears(h)' = Hears(h)
    BY DEF Hears
  <2>3. CASE peer[h] = 0
    <3>1. Coming(h)' = Coming(h)
      BY <2>3 DEF Coming, ComingTo
    <3> QED BY <2>1, <2>2, <3>1
  <2>4. CASE peer[h] # 0
    <3>0. peer[h] \in Nat \ {0} /\ h \in Guest /\ h # g
      BY <2>0, <2>4
    <3>1. Heard(peer[h], m) = NotForMe
      <4>1. peer[g] # peer[h] /\ peer[g] # Everyone
        BY <2>4, <3>0 DEF PeersValid, Everyone
      <4> QED BY <4>1 DEF Heard
    <3>2. ComingTo(peer[h], down[h], Append(toRelay, m)) = Append(ComingTo(peer[h], down[h], toRelay), Heard(peer[h], m))
      BY <1>1, <2>0, <3>0, ComingAppends
    <3>3. Coming(h)' = Append(Coming(h), NotForMe)
      BY <3>1, <3>2 DEF Coming
    <3>4. NotForMe \in Frame /\ Idle(NotForMe)
      BY DEF Frame, NotForMe, Idle
    <3>5. ViewOf(client[h], Append(Coming(h), NotForMe), Hears(h), h \in known, log)
      BY <2>0, <2>1, <3>4, ViewIdlesOnce
    <3> QED BY <2>2, <3>3, <3>5
  <2> QED BY <2>3, <2>4
<1>6. m.frame \in Frame
  BY DEF Frame, Sent
<1> QED BY <1>2, <1>3, <1>4, <1>5, <1>6

\* A refused hello keeps the invariant.
LEMMA RefusesHelloKeeps ==
  ASSUME ViewInv, NEW g \in Guest, RefusesHello(g)
  PROVE  ViewInv'
<1> USE DEF ViewInv
<1>r. HostReads(g)
  BY DEF RefusesHello
<1>0. /\ out' \in [Guest -> Seq(GuestFrame)] /\ SocketsValid' /\ AsksValid'
      /\ host = "open" /\ room.open /\ peer[g] \in Nat \ {0}
      /\ UNCHANGED <<room, peer, host, down, log, sock, client, refused, asks, known>>
      /\ mishaps' = mishaps + 1 /\ toRelay' = Append(toRelay, To(peer[g], Error))
  BY <1>r, HostReadsKeeps DEF RefusesHello, Mishap
<1>1. PICK m \in Sent : m = To(peer[g], Error) /\ m.to = peer[g] /\ m.frame = Error
  <2>1. To(peer[g], Error) \in Sent
    BY <1>0 DEF To, Sent, ViewFrame
  <2> QED BY <2>1 DEF To
<1>2. /\ toRelay' \in Seq(Sent) /\ PeersValid' /\ Coming(g)' = Append(Coming(g), m.frame) /\ m.frame \in Frame
      /\ \A h \in Guest \ {g} : ViewOf(client[h], Coming(h), Hears(h), h \in known, log)'
  BY <1>0, <1>1, SentTo
<1>3. ViewTypeOK'
  BY <1>0, <1>2 DEF ViewTypeOK, Sent
<1>4. ViewOf(client[g], Coming(g), Hears(g), g \in known, log)'
  <2>1. ViewOf(client[g], Coming(g), Hears(g), g \in known, log) /\ Coming(g) \in Seq(Frame)
    BY ComingFrames DEF ViewsValid
  <2>2. Idle(m.frame)
    BY <1>1 DEF Error, Idle
  <2>3. ViewOf(client[g], Append(Coming(g), m.frame), Hears(g), g \in known, log)
    BY <1>2, <2>1, <2>2, ViewIdlesOnce
  <2>4. Hears(g)' = Hears(g)
    BY <1>0 DEF Hears
  <2> QED BY <1>0, <1>2, <2>3, <2>4
<1>5. \A h \in Guest : ViewOf(client[h], Coming(h), Hears(h), h \in known, log)'
  BY <1>2, <1>4
<1> QED BY <1>0, <1>2, <1>3, <1>5 DEF ViewsValid

\* The answer to a request for older entries keeps the invariant.
LEMMA ServesHistoryKeeps ==
  ASSUME ViewInv, NEW g \in Guest, ServesHistory(g)
  PROVE  ViewInv'
<1> USE DEF ViewInv
<1>r. HostReads(g) /\ Head(out[g]).t = "fetch-history"
  BY DEF ServesHistory
<1>0. /\ out' \in [Guest -> Seq(GuestFrame)] /\ SocketsValid' /\ AsksValid'
      /\ host = "open" /\ room.open /\ peer[g] \in Nat \ {0}
      /\ 1 \in DOMAIN out[g] /\ Head(out[g]) = out[g][1] /\ Head(out[g]) \in GuestFrame
      /\ UNCHANGED <<room, peer, host, down, log, sock, client, refused, asks, known>>
      /\ mishaps' = mishaps
  BY <1>r, HostReadsKeeps DEF ServesHistory, Calm
<1>1. PICK f : f = Head(out[g])
  OBVIOUS
<1>2. /\ f.reqId \in Nat \ {0} /\ f.before \in EntryId
      /\ f.reqId <= client[g].seq /\ (client[g].pending = f.reqId => client[g].before = f.before)
  <2>1. f.reqId \in Nat \ {0} /\ f.before \in EntryId
    BY <1>0, <1>1, <1>r DEF GuestFrame, Hello
  <2>2. f.reqId <= client[g].seq /\ (client[g].pending = f.reqId => client[g].before = f.before)
    BY <1>0, <1>1, <1>r DEF AsksValid
  <2> QED BY <2>1, <2>2
<1>3. CASE g \notin known
  <2>1. toRelay' = toRelay
    BY <1>3 DEF ServesHistory
  <2>2. ViewTypeOK' /\ PeersValid'
    BY <1>0, <2>1 DEF ViewTypeOK, PeersValid
  <2>3. \A h \in Guest : Coming(h)' = Coming(h) /\ Hears(h)' = Hears(h)
    BY <1>0, <2>1 DEF Coming, Hears
  <2>4. ViewsValid'
    BY <1>0, <2>3 DEF ViewsValid
  <2> QED BY <1>0, <2>2, <2>4
<1>4. CASE g \in known
  <2>1. PICK page \in Pages(f.before) : toRelay' = Append(toRelay, To(peer[g], History(f.reqId, page, Older(page))))
    BY <1>1, <1>4 DEF ServesHistory
  <2>2. PICK m \in Sent : m = To(peer[g], History(f.reqId, page, Older(page))) /\ m.to = peer[g]
                          /\ m.frame = History(f.reqId, page, Older(page))
    <3>1. page \in Seq(EntryId) /\ Older(page) \in BOOLEAN
      BY <1>2, PageIs DEF Older
    <3>2. History(f.reqId, page, Older(page)) \in ViewFrame
      BY <1>2, <3>1 DEF History, ViewFrame
    <3>3. To(peer[g], History(f.reqId, page, Older(page))) \in Sent
      BY <1>0, <3>2 DEF To, Sent
    <3> QED BY <3>3 DEF To
  <2>3. /\ toRelay' \in Seq(Sent) /\ PeersValid' /\ Coming(g)' = Append(Coming(g), m.frame)
        /\ \A h \in Guest \ {g} : ViewOf(client[h], Coming(h), Hears(h), h \in known, log)'
    BY <1>0, <2>1, <2>2, SentTo
  <2>4. ViewTypeOK'
    BY <1>0, <2>3 DEF ViewTypeOK, Sent
  <2>5. ViewOf(client[g], Coming(g), Hears(g), g \in known, log)'
    <3>1. ViewOf(client[g], Coming(g), Hears(g), g \in known, log)
          /\ Coming(g) \in Seq(Frame) /\ client[g] \in ClientRecord
      BY ComingFrames DEF ViewsValid
    <3>2. Hears(g) /\ Hears(g)'
      BY <1>0 DEF Hears
    <3>3. ViewOf(client[g], Coming(g), TRUE, TRUE, log)
      BY <1>4, <3>1, <3>2 DEF ViewOf
    <3>4. ViewOf(client[g], Append(Coming(g), m.frame), TRUE, TRUE, log)
      BY <1>2, <2>2, <3>1, <3>3, ViewAnswered
    <3>5. ViewOf(client[g], Append(Coming(g), m.frame), Hears(g)', g \in known, log)
      BY <1>4, <3>2, <3>4 DEF ViewOf
    <3> QED BY <1>0, <2>3, <3>5
  <2>6. \A h \in Guest : ViewOf(client[h], Coming(h), Hears(h), h \in known, log)'
    BY <2>3, <2>5
  <2> QED BY <1>0, <2>3, <2>4, <2>6 DEF ViewsValid
<1> QED BY <1>3, <1>4

\* What only one guest does leaves the views of the others.
LEMMA OthersView ==
  ASSUME ViewInv, NEW g \in Guest, UNCHANGED <<host, toRelay, log>>,
         \A h \in Guest \ {g} : /\ client'[h] = client[h] /\ down'[h] = down[h] /\ peer'[h] = peer[h]
                                /\ (h \in known') = (h \in known),
         ViewOf(client[g], Coming(g), Hears(g), g \in known, log)'
  PROVE  ViewsValid'
<1> SUFFICES ASSUME NEW h \in Guest \ {g}
             PROVE  ViewOf(client[h], Coming(h), Hears(h), h \in known, log)'
  BY DEF ViewsValid
<1>1. ViewOf(client[h], Coming(h), Hears(h), h \in known, log)
  BY DEF ViewInv, ViewsValid
<1>2. Coming(h)' = Coming(h) /\ Hears(h)' = Hears(h)
  BY DEF Coming, Hears
<1> QED BY <1>1, <1>2

\* The empty sequence is one of frames.
LEMMA NothingComes == <<>> \in Seq(Frame) /\ \A i \in DOMAIN <<>> : Quiet(<<>>[i])
OBVIOUS

\* The end of a client keeps the invariant.
LEMMA EndsKeeps ==
  ASSUME ViewInv, NEW g \in Guest, Ends(g), mishaps' \in Nat
  PROVE  ViewInv'
<1> USE DEF ViewInv
<1>t. /\ client \in [Guest -> ClientRecord] /\ sock \in [Guest -> {"none", "away", "open", "broken"}]
      /\ out \in [Guest -> Seq(GuestFrame)] /\ peer \in [Guest -> Nat] /\ down \in [Guest -> Seq(ViewFrame)]
  BY DEF ViewTypeOK
<1>0. /\ client' = [client EXCEPT ![g].phase = "ended", ![g].welcomeTimer = FALSE,
                                  ![g].snapshotTimer = FALSE, ![g].pending = 0]
      /\ sock' = [sock EXCEPT ![g] = "none"] /\ out' = [out EXCEPT ![g] = <<>>]
      /\ known' = known \ {g} /\ peer' = [peer EXCEPT ![g] = 0]
      /\ down' = [down EXCEPT ![g] = SubSeq(@, 1, 0)]
      /\ UNCHANGED <<room, host, toRelay, log, refused, asks>>
  BY DEF Ends, GuestLeaves
<1>1. PICK r : r = [client[g] EXCEPT !.phase = "ended", !.welcomeTimer = FALSE,
                                     !.snapshotTimer = FALSE, !.pending = 0]
  OBVIOUS
<1>2. r \in ClientRecord /\ r.phase = "ended" /\ r.pending = 0 /\ r.seq = client[g].seq
  <2>1. client[g] \in ClientRecord
    BY <1>t
  <2> QED BY <1>1, <2>1 DEF ClientRecord
<1>3. client' = [client EXCEPT ![g] = r]
  BY <1>0, <1>1, <1>t
<1>4. SubSeq(down[g], 1, 0) = <<>>
  BY <1>t, SubSeqEmpty
<1>5. /\ client'[g] = r /\ sock'[g] = "none" /\ out'[g] = <<>> /\ peer'[g] = 0 /\ down'[g] = <<>>
      /\ \A h \in Guest \ {g} : /\ client'[h] = client[h] /\ sock'[h] = sock[h] /\ out'[h] = out[h]
                                /\ peer'[h] = peer[h] /\ down'[h] = down[h]
  BY <1>0, <1>3, <1>4, <1>t
<1>k. \A h \in Guest \ {g} : (h \in known') = (h \in known)
  BY <1>0
<1>6. ViewTypeOK'
  <2>1. client' \in [Guest -> ClientRecord]
    BY <1>2, <1>3, <1>t
  <2>2. /\ sock' \in [Guest -> {"none", "away", "open", "broken"}] /\ out' \in [Guest -> Seq(GuestFrame)]
        /\ peer' \in [Guest -> Nat] /\ down' \in [Guest -> Seq(ViewFrame)]
    BY <1>0, <1>4, <1>t
  <2> QED BY <1>0, <2>1, <2>2 DEF ViewTypeOK
<1>7. PeersValid'
  BY <1>0, <1>5 DEF PeersValid
<1>8. SocketsValid'
  BY <1>2, <1>5 DEF SocketsValid
<1>9. AsksValid'
  <2>1. DOMAIN out'[g] = {} /\ client'[g].pending <= client'[g].seq
    BY <1>2, <1>5, <1>t DEF ClientRecord
  <2> QED BY <1>5, <2>1 DEF AsksValid
<1>10. ViewOf(client[g], Coming(g), Hears(g), g \in known, log)'
  <2>1. Coming(g)' = <<>>
    BY <1>5 DEF Coming, ComingTo
  <2>2. ViewOf(r, <<>>, Hears(g)', g \in known', log')
    <3>1. ~(Hears(g)' /\ g \in known') /\ r.phase # "live"
      BY <1>0, <1>2
    <3> QED BY <1>2, <3>1, NothingComes, ViewStarts
  <2> QED BY <1>5, <2>1, <2>2
<1>11. ViewsValid'
  BY <1>0, <1>5, <1>k, <1>10, OthersView
<1> QED BY <1>6, <1>7, <1>8, <1>9, <1>11

\* n of the frames that the relay still has are listened to.
HoldsUpTo(s, p, d, t, n) ==
  /\ s \in Seq(Frame) /\ Len(s) = Len(d) + n
  /\ \A i \in 1..Len(d) : s[i] = d[i]
  /\ \A j \in 1..n : s[Len(d) + j] = Heard(p, t[j])

\* Whether the room has the guest or not, its frames are those down and those the relay still has.
LEMMA ComingUpTo ==
  ASSUME NEW p \in Nat, NEW d \in Seq(ViewFrame), NEW t \in Seq(Sent), NEW n,
         n = IF p = 0 THEN 0 ELSE Len(t)
  PROVE  HoldsUpTo(ComingTo(p, d, t), p, d, t, n)
<1>1. CASE p = 0
  BY <1>1, ComingIs DEF HoldsUpTo
<1>2. CASE p # 0
  <2>1. Holds(ComingTo(p, d, t), p, d, t)
    BY <1>2, ComingAt
  <2> QED BY <1>2, <2>1 DEF Holds, HoldsUpTo
<1> QED BY <1>1, <1>2

\* The frame that is read is the first of those that come.
LEMMA ComingRead ==
  ASSUME NEW p \in Nat, NEW d \in Seq(ViewFrame), d # <<>>, NEW t \in Seq(Sent)
  PROVE  LET s == ComingTo(p, d, t) IN
         s # <<>> /\ Head(s) = Head(d) /\ Tail(s) = ComingTo(p, Tail(d), t)
<1>1. PICK s : s = ComingTo(p, d, t)
  OBVIOUS
<1>q. PICK q : q = Tail(d)
  OBVIOUS
<1>2. q \in Seq(ViewFrame) /\ q = Tail(d) /\ Len(q) = Len(d) - 1 /\ \A i \in 1..Len(q) : q[i] = d[i + 1]
  BY <1>q, HeadTailProperties
<1>3. PICK x : x = ComingTo(p, q, t)
  OBVIOUS
<1>4. Len(d) \in Nat \ {0} /\ Len(t) \in Nat
  OBVIOUS
<1>5. PICK n \in Nat : n = IF p = 0 THEN 0 ELSE Len(t)
  BY <1>4
<1>6. /\ s \in Seq(Frame) /\ Len(s) = Len(d) + n
      /\ \A i \in 1..Len(d) : s[i] = d[i]
      /\ \A j \in 1..n : s[Len(d) + j] = Heard(p, t[j])
  <2>1. HoldsUpTo(s, p, d, t, n)
    BY <1>1, <1>5, ComingUpTo
  <2> QED BY <2>1 DEF HoldsUpTo
<1>7. /\ x \in Seq(Frame) /\ Len(x) = Len(q) + n
      /\ \A i \in 1..Len(q) : x[i] = q[i]
      /\ \A j \in 1..n : x[Len(q) + j] = Heard(p, t[j])
  <2>1. q \in Seq(ViewFrame)
    BY <1>2
  <2>2. HoldsUpTo(x, p, q, t, n)
    BY <1>3, <1>5, <2>1, ComingUpTo
  <2> QED BY <2>2 DEF HoldsUpTo
<1>8. s # <<>> /\ Head(s) = d[1] /\ Head(d) = d[1]
  BY <1>4, <1>6
<1>y. PICK y : y = Tail(s)
  OBVIOUS
<1>9. y \in Seq(Frame) /\ y = Tail(s) /\ Len(y) = Len(s) - 1 /\ \A i \in 1..Len(y) : y[i] = s[i + 1]
  BY <1>y, <1>6, <1>8, HeadTailProperties
<1>10. Len(y) = Len(x)
  BY <1>2, <1>4, <1>6, <1>7, <1>9
<1>11. ASSUME NEW i \in 1..Len(y) PROVE y[i] = x[i]
  <2>1. CASE i \in 1..Len(q)
    <3>1. i + 1 \in 1..Len(d)
      BY <1>2, <1>4, <2>1
    <3> QED BY <1>2, <1>6, <1>7, <1>9, <2>1, <3>1
  <2>2. CASE i \notin 1..Len(q)
    <3>1. PICK j \in 1..n : i = Len(q) + j /\ i + 1 = Len(d) + j
      <4>1. i - Len(q) \in 1..n /\ i = Len(q) + (i - Len(q)) /\ i + 1 = Len(d) + (i - Len(q))
        BY <1>2, <1>4, <1>7, <1>10, <2>2
      <4> QED BY <4>1
    <3>2. x[i] = Heard(p, t[j]) /\ y[i] = s[i + 1] /\ s[i + 1] = Heard(p, t[j])
      BY <1>6, <1>7, <1>9, <3>1
    <3> QED BY <3>2
  <2> QED BY <2>1, <2>2
<1>12. y = x
  BY <1>7, <1>9, <1>10, <1>11, SeqEqual
<1> QED BY <1>1, <1>2, <1>3, <1>8, <1>9, <1>12

\* A frame that a guest reads keeps the invariant.
LEMMA GuestReadsKeeps ==
  ASSUME ViewInv, NEW g \in Guest, GuestReads(g)
  PROVE  ViewInv'
<1> USE DEF ViewInv
<1>t. /\ client \in [Guest -> ClientRecord] /\ peer[g] \in Nat /\ down \in [Guest -> Seq(ViewFrame)]
      /\ refused \in [Guest -> BOOLEAN] /\ toRelay \in Seq(Sent)
  BY DEF ViewTypeOK, Sent
<1>0. /\ Connected(g) /\ down[g] # <<>>
      /\ client' = [client EXCEPT ![g] = Take(@, Head(down[g]))]
      /\ refused' = [refused EXCEPT ![g] = @ \/ Head(down[g]) = Error]
      /\ down' = [down EXCEPT ![g] = Tail(@)]
      /\ UNCHANGED <<room, peer, host, toRelay, log, known, sock, out, asks, mishaps>>
  BY DEF GuestReads, Calm
<1>1. PICK f \in ViewFrame : f = Head(down[g]) /\ f = down[g][1]
  BY <1>0, <1>t
<1>2. PICK r \in ClientRecord :
        r = Take(client[g], f) /\ r.before = client[g].before /\ r.seq = client[g].seq
        /\ r.pending \in {0, client[g].pending}
  <2>1. f \in Frame /\ client[g] \in ClientRecord
    BY <1>t DEF Frame
  <2> QED BY <2>1, TakeIs
<1>3. client' = [client EXCEPT ![g] = r]
  BY <1>0, <1>1, <1>2
<1>q. down[g] \in Seq(ViewFrame) /\ down[g] # <<>>
  BY <1>0, <1>t
<1>l. Tail(down[g]) \in Seq(ViewFrame)
  BY <1>q, HeadTailProperties
<1>4. PICK q \in Seq(ViewFrame) : q = Tail(down[g])
  BY <1>l, Zenon
<1>5. /\ client'[g] = r /\ down'[g] = q
      /\ \A h \in Guest \ {g} : client'[h] = client[h] /\ down'[h] = down[h]
  BY <1>0, <1>3, <1>4, <1>t
<1>6. ViewTypeOK'
  <2>1. client' \in [Guest -> ClientRecord] /\ down' \in [Guest -> Seq(ViewFrame)]
    BY <1>0, <1>3, <1>4, <1>t
  <2>2. refused' \in [Guest -> BOOLEAN]
    BY <1>0, <1>t
  <2> QED BY <1>0, <2>1, <2>2 DEF ViewTypeOK
<1>7. PeersValid'
  BY <1>0 DEF PeersValid
<1>8. SocketsValid'
  <2>1. sock[g] \in {"open", "broken"}
    BY <1>0 DEF Connected
  <2>2. r.phase # "ended"
    <3>1. client[g].phase # "ended"
      BY <2>1 DEF SocketsValid
    <3>2. PICK c \in ClientRecord : c = client[g]
      BY <1>t
    <3>3. Take(c, f).phase \in {c.phase, "live"}
      BY DEF Take, TakeWelcome, TakeChunk, TakeHistory, ClientRecord
    <3> QED BY <1>2, <3>1, <3>2, <3>3
  <2> QED BY <1>0, <1>5, <2>1, <2>2 DEF SocketsValid
<1>9. AsksValid'
  <2>1. r.pending <= r.seq
    BY <1>2, <1>t DEF AsksValid, ClientRecord
  <2>2. ASSUME NEW i \in DOMAIN out[g], out[g][i].t = "fetch-history"
        PROVE  out[g][i].reqId <= r.seq /\ (out[g][i].reqId = r.pending => out[g][i].before = r.before)
    <3>1. out[g][i].reqId # 0
      <4>1. out[g][i] \in GuestFrame
        BY DEF ViewTypeOK
      <4> QED BY <2>2, <4>1 DEF GuestFrame, Hello
    <3>2. /\ out[g][i].reqId <= client[g].seq
          /\ out[g][i].reqId = client[g].pending => out[g][i].before = client[g].before
      BY <2>2 DEF AsksValid
    <3> QED BY <1>2, <3>1, <3>2
  <2> QED BY <1>0, <1>5, <2>1, <2>2 DEF AsksValid
<1>10. ViewOf(client[g], Coming(g), Hears(g), g \in known, log)'
  <2>1. ViewOf(client[g], Coming(g), Hears(g), g \in known, log) /\ Coming(g) \in Seq(Frame)
    BY ComingFrames DEF ViewsValid
  <2>2. Head(Coming(g)) = f /\ Tail(Coming(g)) = ComingTo(peer[g], q, toRelay) /\ Coming(g) # <<>>
    <3>1. PICK p \in Nat, d \in Seq(ViewFrame), t \in Seq(Sent) : p = peer[g] /\ d = down[g] /\ t = toRelay
      BY <1>t, <1>q, Zenon
    <3>2. d # <<>> /\ q = Tail(d) /\ f = Head(d) /\ Coming(g) = ComingTo(p, d, t)
      <4>1. down[g] # <<>> /\ f = Head(down[g]) /\ q = Tail(down[g])
        BY <1>0, <1>1, <1>4
      <4> QED BY <3>1, <4>1 DEF Coming
    <3>3. Coming(g) # <<>> /\ Head(Coming(g)) = Head(d) /\ Tail(Coming(g)) = ComingTo(p, Tail(d), t)
      <4>1. ComingTo(p, d, t) # <<>> /\ Head(ComingTo(p, d, t)) = Head(d)
            /\ Tail(ComingTo(p, d, t)) = ComingTo(p, Tail(d), t)
        BY <3>2, ComingRead
      <4> QED BY <3>2, <4>1, Zenon
    <3> QED BY <3>1, <3>2, <3>3, Zenon
  <2>3. ViewOf(Take(client[g], f), Tail(Coming(g)), Hears(g), g \in known, log)
    BY <1>t, <2>1, <2>2, ViewReads
  <2>4. Coming(g)' = Tail(Coming(g)) /\ Hears(g)' = Hears(g)
    BY <1>0, <1>5, <2>2 DEF Coming, Hears
  <2> QED BY <1>0, <1>2, <1>5, <2>3, <2>4
<1>11. ViewsValid'
  BY <1>0, <1>5, <1>10, OthersView
<1> QED BY <1>6, <1>7, <1>8, <1>9, <1>11

\* A socket that opens keeps the invariant: all that is on its way is quiet for a new peer.
LEMMA OpensKeeps ==
  ASSUME ViewInv, NEW g \in Guest, Opens(g)
  PROVE  ViewInv'
<1> USE DEF ViewInv
<1>t. /\ client \in [Guest -> ClientRecord] /\ sock \in [Guest -> {"none", "away", "open", "broken"}]
      /\ out \in [Guest -> Seq(GuestFrame)] /\ peer \in [Guest -> Nat] /\ down \in [Guest -> Seq(ViewFrame)]
      /\ refused \in [Guest -> BOOLEAN] /\ toRelay \in Seq(Sent) /\ mishaps \in Nat
      /\ room \in [open : BOOLEAN, next : Nat \ {0}]
  BY DEF ViewTypeOK, Sent
<1>a. sock[g] = "away" /\ mishaps' = mishaps
  BY DEF Opens, Calm
<1>b. CASE ~room.open
  <2>1. Ends(g) /\ mishaps' \in Nat
    BY <1>a, <1>b, <1>t DEF Opens
  <2> QED BY <2>1, EndsKeeps
<1>c. CASE room.open
  <2>0. /\ peer' = [peer EXCEPT ![g] = room.next] /\ room' = [room EXCEPT !.next = @ + 1]
        /\ down' = [down EXCEPT ![g] = <<>>] /\ sock' = [sock EXCEPT ![g] = "open"]
        /\ out' = [out EXCEPT ![g] = Append(@, Hello)]
        /\ client' = [client EXCEPT
             ![g].phase = IF client[g].everConnected THEN "reconnecting" ELSE "waiting",
             ![g].everConnected = TRUE]
        /\ refused' = [refused EXCEPT ![g] = FALSE]
        /\ UNCHANGED <<host, toRelay, log, known, asks>>
    BY <1>c DEF Opens, GuestJoins
  <2>1. PICK r : r = [client[g] EXCEPT !.phase = IF client[g].everConnected THEN "reconnecting" ELSE "waiting",
                                       !.everConnected = TRUE]
    OBVIOUS
  <2>2. /\ r \in ClientRecord /\ r.phase \notin {"live", "ended"}
        /\ r.pending = client[g].pending /\ r.before = client[g].before /\ r.seq = client[g].seq
    <3>1. PICK ph \in {"reconnecting", "waiting"} : r = [client[g] EXCEPT !.phase = ph, !.everConnected = TRUE]
      BY <2>1
    <3>2. client[g] \in ClientRecord
      BY <1>t
    <3> QED BY <3>1, <3>2 DEF ClientRecord
  <2>3. client' = [client EXCEPT ![g] = r]
    BY <2>0, <2>1, <1>t
  <2>4. PICK q \in Seq(GuestFrame) : q = Append(out[g], Hello)
    <3>1. Append(out[g], Hello) \in Seq(GuestFrame)
      BY <1>t DEF GuestFrame
    <3> QED BY <3>1, Zenon
  <2>5. \A i \in DOMAIN q : q[i] = Hello \/ (i \in DOMAIN out[g] /\ q[i] = out[g][i])
    BY <2>4, <1>t
  <2>6. /\ client'[g] = r /\ sock'[g] = "open" /\ out'[g] = q /\ peer'[g] = room.next /\ down'[g] = <<>>
        /\ \A h \in Guest \ {g} : /\ client'[h] = client[h] /\ sock'[h] = sock[h] /\ out'[h] = out[h]
                                  /\ peer'[h] = peer[h] /\ down'[h] = down[h]
    BY <2>0, <2>3, <2>4, <1>t
  <2>7. room'.open = room.open /\ room'.next = room.next + 1 /\ room.next \in Nat \ {0}
    BY <2>0, <1>t
  <2>8. ViewTypeOK'
    <3>1. client' \in [Guest -> ClientRecord]
      BY <2>2, <2>3, <1>t
    <3>2. out' \in [Guest -> Seq(GuestFrame)]
      BY <2>0, <2>4, <1>t
    <3>3. sock' \in [Guest -> {"none", "away", "open", "broken"}] /\ refused' \in [Guest -> BOOLEAN]
      BY <2>0, <1>t
    <3>4. peer' \in [Guest -> Nat]
      BY <2>0, <2>7, <1>t
    <3>5. down' \in [Guest -> Seq(ViewFrame)]
      <4>1. <<>> \in Seq(ViewFrame)
        OBVIOUS
      <4> QED BY <2>0, <4>1, <1>t
    <3>6. room' \in [open : BOOLEAN, next : Nat \ {0}]
      <4>1. room.next + 1 \in Nat \ {0}
        BY <2>7
      <4> QED BY <2>0, <4>1, <1>t
    <3> QED BY <1>a, <2>0, <3>1, <3>2, <3>3, <3>4, <3>5, <3>6 DEF ViewTypeOK
  <2>9. peer[g] = 0 /\ g \notin known /\ down[g] = <<>>
    BY <1>a DEF PeersValid, SocketsValid
  <2>10. PeersValid'
    <3>1. \A h \in Guest : peer'[h] # 0 => room'.open /\ peer'[h] < room'.next /\ sock'[h] = "open"
      BY <1>c, <1>t, <2>6, <2>7 DEF PeersValid
    <3>2. \A h, k \in Guest : peer'[h] # 0 /\ peer'[h] = peer'[k] => h = k
      BY <1>t, <2>6, <2>7 DEF PeersValid
    <3>3. \A i \in DOMAIN toRelay' :
            toRelay'[i].to < room'.next /\ (toRelay'[i].to = Everyone => toRelay'[i].frame.t = "entry")
      <4>1. ASSUME NEW i \in DOMAIN toRelay PROVE toRelay[i].to \in Nat
        <5>1. toRelay[i] \in Sent
          BY <1>t
        <5> QED BY <5>1 DEF Sent
      <4> QED BY <2>0, <2>7, <4>1 DEF PeersValid
    <3>4. \A h \in known' : peer'[h] # 0
      BY <1>t, <2>0, <2>6, <2>9 DEF PeersValid, ViewTypeOK
    <3> QED BY <1>c, <2>0, <2>7, <3>1, <3>2, <3>3, <3>4 DEF PeersValid
  <2>11. SocketsValid'
    BY <2>2, <2>6 DEF SocketsValid
  <2>12. AsksValid'
    <3>1. r.pending <= r.seq
      BY <2>2 DEF AsksValid
    <3>2. ASSUME NEW i \in DOMAIN q, q[i].t = "fetch-history"
          PROVE  q[i].reqId <= r.seq /\ (q[i].reqId = r.pending => q[i].before = r.before)
      <4>1. i \in DOMAIN out[g] /\ q[i] = out[g][i]
        BY <2>5, <3>2 DEF Hello
      <4> QED BY <2>2, <3>2, <4>1 DEF AsksValid
    <3> QED BY <2>6, <3>1, <3>2 DEF AsksValid
  <2>13. ViewOf(client[g], Coming(g), Hears(g), g \in known, log)'
    <3>s. PICK s : s = Coming(g)'
      OBVIOUS
    <3>1. Holds(s, room.next, <<>>, toRelay)
      <4>1. s = ComingTo(room.next, <<>>, toRelay) /\ <<>> \in Seq(ViewFrame)
        BY <2>0, <2>6, <3>s DEF Coming
      <4> QED BY <1>t, <2>7, <4>1, ComingAt
    <3>2. s \in Seq(Frame) /\ Len(s) = Len(toRelay) /\ \A j \in 1..Len(toRelay) : s[j] = Heard(room.next, toRelay[j])
      <4>1. Len(<<>>) = 0 /\ Len(toRelay) \in Nat
        BY <1>t
      <4> QED BY <3>1, <4>1 DEF Holds
    <3>3. ASSUME NEW i \in DOMAIN s PROVE Quiet(s[i])
      <4>0. i \in 1..Len(toRelay) /\ DOMAIN toRelay = 1..Len(toRelay)
        BY <1>t, <3>2
      <4>1. i \in DOMAIN toRelay /\ s[i] = Heard(room.next, toRelay[i])
        BY <3>2, <4>0
      <4>2. toRelay[i].to # room.next /\ (toRelay[i].to = Everyone => toRelay[i].frame.t = "entry")
        <5>0. toRelay[i] \in Sent
          BY <1>t, <4>1
        <5>1. toRelay[i].to \in Nat
          BY <5>0 DEF Sent
        <5> QED BY <2>7, <4>1, <5>1 DEF PeersValid
      <4> QED BY <4>1, <4>2 DEF Heard, Quiet, NotForMe
    <3>4. ViewOf(r, s, Hears(g)', g \in known', log')
      <4>1. ~(Hears(g)' /\ g \in known') /\ r.phase # "live"
        BY <2>0, <2>2, <2>9
      <4> QED BY <2>2, <3>2, <3>3, <4>1, ViewStarts
    <3> QED BY <2>6, <3>s, <3>4
  <2>14. ViewsValid'
    BY <2>0, <2>6, <2>13, OthersView
  <2> QED BY <2>8, <2>10, <2>11, <2>12, <2>14
<1> QED BY <1>b, <1>c

\* The ways a client ends keep the invariant.
LEMMA JoinRefusedKeeps ==
  ASSUME ViewInv, NEW g \in Guest, JoinRefused(g) \/ RoomEnds(g) \/ TimesOut(g)
  PROVE  ViewInv'
<1>1. Ends(g)
  BY DEF JoinRefused, RoomEnds, TimesOut
<1>2. mishaps' \in Nat
  <2>1. mishaps \in Nat
    BY DEF ViewInv, ViewTypeOK
  <2>2. mishaps' = mishaps \/ mishaps' = mishaps + 1
    BY DEF JoinRefused, RoomEnds, TimesOut, Calm, Mishap
  <2> QED BY <2>1, <2>2
<1> QED BY <1>1, <1>2, EndsKeeps

\* A noticed drop keeps the invariant.
LEMMA NoticeKeeps ==
  ASSUME ViewInv, NEW g \in Guest, Notice(g)
  PROVE  ViewInv'
<1> USE DEF ViewInv
<1>t. /\ client \in [Guest -> ClientRecord] /\ sock \in [Guest -> {"none", "away", "open", "broken"}]
      /\ peer \in [Guest -> Nat] /\ down \in [Guest -> Seq(ViewFrame)]
  BY DEF ViewTypeOK
<1>0. /\ sock[g] = "broken" /\ sock' = [sock EXCEPT ![g] = "away"]
      /\ client' = [client EXCEPT ![g].phase = "reconnecting", ![g].pending = 0, ![g].snapshotTimer = FALSE]
      /\ down' = [down EXCEPT ![g] = <<>>]
      /\ UNCHANGED <<room, peer, host, toRelay, log, known, out, refused, asks, mishaps>>
  BY DEF Notice, Calm
<1>1. PICK r : r = [client[g] EXCEPT !.phase = "reconnecting", !.pending = 0, !.snapshotTimer = FALSE]
  OBVIOUS
<1>2. r \in ClientRecord /\ r.phase = "reconnecting" /\ r.pending = 0 /\ r.seq = client[g].seq
  <2>1. client[g] \in ClientRecord
    BY <1>t
  <2> QED BY <1>1, <2>1 DEF ClientRecord
<1>3. client' = [client EXCEPT ![g] = r]
  BY <1>0, <1>1, <1>t
<1>4. /\ client'[g] = r /\ sock'[g] = "away" /\ down'[g] = <<>> /\ peer[g] = 0
      /\ \A h \in Guest \ {g} : client'[h] = client[h] /\ sock'[h] = sock[h] /\ down'[h] = down[h]
  BY <1>0, <1>3, <1>t DEF PeersValid
<1>5. ViewTypeOK'
  <2>1. client' \in [Guest -> ClientRecord]
    BY <1>2, <1>3, <1>t
  <2>2. sock' \in [Guest -> {"none", "away", "open", "broken"}]
    BY <1>0, <1>t
  <2>3. down' \in [Guest -> Seq(ViewFrame)]
    <3>1. <<>> \in Seq(ViewFrame)
      OBVIOUS
    <3> QED BY <1>0, <3>1, <1>t
  <2> QED BY <1>0, <2>1, <2>2, <2>3 DEF ViewTypeOK
<1>6. PeersValid'
  <2>1. \A h \in Guest : peer'[h] # 0 => sock'[h] = "open"
    BY <1>0, <1>4 DEF PeersValid
  <2> QED BY <1>0, <2>1 DEF PeersValid
<1>7. SocketsValid'
  <2>1. out' = out /\ sock[g] = "broken"
    BY <1>0
  <2> QED BY <1>2, <1>4, <2>1 DEF SocketsValid
<1>8. AsksValid'
  <2>1. r.pending <= r.seq
    BY <1>2, <1>t DEF ClientRecord
  <2>2. ASSUME NEW i \in DOMAIN out[g], out[g][i].t = "fetch-history"
        PROVE  out[g][i].reqId <= r.seq /\ (out[g][i].reqId = r.pending => out[g][i].before = r.before)
    <3>1. out[g][i].reqId # 0
      <4>1. out[g][i] \in GuestFrame
        BY DEF ViewTypeOK
      <4> QED BY <2>2, <4>1 DEF GuestFrame, Hello
    <3> QED BY <1>2, <2>2, <3>1 DEF AsksValid
  <2>3. out' = out
    BY <1>0
  <2> QED BY <1>4, <2>1, <2>2, <2>3 DEF AsksValid
<1>9. ViewOf(client[g], Coming(g), Hears(g), g \in known, log)'
  <2>1. Coming(g)' = <<>>
    BY <1>0, <1>4 DEF Coming, ComingTo
  <2>2. ~(Hears(g)' /\ g \in known') /\ r.phase # "live"
    BY <1>0, <1>2, <1>4 DEF Hears
  <2>3. ViewOf(r, <<>>, Hears(g)', g \in known', log')
    BY <1>2, <2>2, NothingComes, ViewStarts
  <2> QED BY <1>4, <2>1, <2>3
<1>10. ViewsValid'
  BY <1>0, <1>4, <1>9, OthersView
<1> QED BY <1>5, <1>6, <1>7, <1>8, <1>10

\* A request that is given up keeps the invariant.
LEMMA HistoryTimesOutKeeps ==
  ASSUME ViewInv, NEW g \in Guest, HistoryTimesOut(g)
  PROVE  ViewInv'
<1> USE DEF ViewInv
<1>t. client \in [Guest -> ClientRecord] /\ mishaps \in Nat
  BY DEF ViewTypeOK
<1>0. /\ client' = [client EXCEPT ![g].pending = 0] /\ mishaps' = mishaps + 1
      /\ UNCHANGED <<room, peer, host, toRelay, down, log, known, sock, out, refused, asks>>
  BY DEF HistoryTimesOut, relayVars, Mishap
<1>1. PICK r : r = Forgetful(client[g])
  OBVIOUS
<1>2. /\ r \in ClientRecord /\ r.phase = client[g].phase /\ r.pending = 0
      /\ r.seq = client[g].seq /\ r.before = client[g].before
  BY <1>1, <1>t DEF ClientRecord, Forgetful
<1>3. client' = [client EXCEPT ![g] = r]
  BY <1>0, <1>1, <1>t DEF Forgetful
<1>4. client'[g] = r /\ \A h \in Guest \ {g} : client'[h] = client[h]
  BY <1>3, <1>t
<1>5. ViewTypeOK'
  <2>1. client' \in [Guest -> ClientRecord] /\ mishaps' \in Nat
    BY <1>0, <1>2, <1>3, <1>t
  <2> QED BY <1>0, <2>1 DEF ViewTypeOK
<1>6. PeersValid'
  BY <1>0 DEF PeersValid
<1>7. SocketsValid'
  BY <1>0, <1>2, <1>4 DEF SocketsValid
<1>8. AsksValid'
  <2>1. r.pending <= r.seq
    BY <1>2, <1>t DEF ClientRecord
  <2>2. ASSUME NEW i \in DOMAIN out[g], out[g][i].t = "fetch-history"
        PROVE  out[g][i].reqId <= r.seq /\ (out[g][i].reqId = r.pending => out[g][i].before = r.before)
    <3>1. out[g][i].reqId # 0
      <4>1. out[g][i] \in GuestFrame
        BY DEF ViewTypeOK
      <4> QED BY <2>2, <4>1 DEF GuestFrame, Hello
    <3> QED BY <1>2, <2>2, <3>1 DEF AsksValid
  <2>3. out' = out
    BY <1>0
  <2> QED BY <1>4, <2>1, <2>2, <2>3 DEF AsksValid
<1>9. ViewOf(client[g], Coming(g), Hears(g), g \in known, log)'
  <2>1. ViewOf(client[g], Coming(g), Hears(g), g \in known, log) /\ client[g] \in ClientRecord
    BY <1>t DEF ViewsValid
  <2>2. ViewOf(r, Coming(g), Hears(g), g \in known, log)
    BY <1>1, <2>1, ViewForgets
  <2>3. Coming(g)' = Coming(g) /\ Hears(g)' = Hears(g)
    BY <1>0 DEF Coming, Hears
  <2> QED BY <1>0, <1>4, <2>2, <2>3
<1>10. ViewsValid'
  BY <1>0, <1>4, <1>9, OthersView
<1> QED BY <1>5, <1>6, <1>7, <1>8, <1>10

\* A request for older entries keeps the invariant.
LEMMA LoadOlderKeeps ==
  ASSUME ViewInv, NEW g \in Guest, LoadOlder(g)
  PROVE  ViewInv'
<1> USE DEF ViewInv
<1>t. /\ client \in [Guest -> ClientRecord] /\ out \in [Guest -> Seq(GuestFrame)] /\ asks \in Nat
      /\ sock \in [Guest -> {"none", "away", "open", "broken"}]
  BY DEF ViewTypeOK
<1>a. client[g].seq \in Nat /\ client[g].entries \in Seq(EntryId)
  BY <1>t DEF ClientRecord
<1>b. client[g].phase = "live" /\ client[g].pending = 0 /\ client[g].entries # <<>>
  BY DEF LoadOlder
<1>c. PICK b : b = client[g].entries[1]
  OBVIOUS
<1>d. b \in EntryId /\ b \in Nat
  BY <1>a, <1>b, <1>c DEF EntryId
<1>0. /\ asks' = asks + 1
      /\ client' = [client EXCEPT ![g].seq = @ + 1, ![g].pending = client[g].seq + 1, ![g].before = b]
      /\ out' = IF sock[g] = "open"
                THEN [out EXCEPT ![g] = Append(@, FetchHistory(client[g].seq + 1, b))] ELSE out
      /\ UNCHANGED <<room, peer, host, toRelay, down, log, known, sock, refused, mishaps>>
  BY <1>c DEF LoadOlder, relayVars, Calm
<1>1. PICK r : r = [client[g] EXCEPT !.seq = client[g].seq + 1, !.pending = client[g].seq + 1, !.before = b]
  OBVIOUS
<1>2. /\ r \in ClientRecord /\ r.phase = client[g].phase /\ r.pending = client[g].seq + 1
      /\ r.seq = client[g].seq + 1 /\ r.before = b
  <2>1. client[g] \in ClientRecord /\ client[g].seq + 1 \in Nat
    BY <1>a, <1>t
  <2> QED BY <1>1, <1>d, <2>1 DEF ClientRecord
<1>3. client' = [client EXCEPT ![g] = r]
  BY <1>0, <1>1, <1>t
<1>4. PICK q : q = IF sock[g] = "open" THEN Append(out[g], FetchHistory(client[g].seq + 1, b)) ELSE out[g]
  OBVIOUS
<1>f. FetchHistory(client[g].seq + 1, b) \in GuestFrame
  <2>1. client[g].seq + 1 \in Nat \ {0}
    BY <1>a
  <2> QED BY <1>d, <2>1 DEF FetchHistory, GuestFrame
<1>5. /\ q \in Seq(GuestFrame)
      /\ \A i \in DOMAIN q : q[i] = FetchHistory(client[g].seq + 1, b) \/ (i \in DOMAIN out[g] /\ q[i] = out[g][i])
      /\ sock[g] = "none" => q = out[g]
  <2>1. CASE sock[g] = "open"
    <3>1. q = Append(out[g], FetchHistory(client[g].seq + 1, b)) /\ out[g] \in Seq(GuestFrame)
      BY <1>4, <1>t, <2>1
    <3>2. PICK f \in GuestFrame : f = FetchHistory(client[g].seq + 1, b)
      BY <1>f, Zenon
    <3>3. q = Append(out[g], f)
      BY <3>1, <3>2
    <3>4. q \in Seq(GuestFrame) /\ \A i \in DOMAIN q : q[i] = f \/ (i \in DOMAIN out[g] /\ q[i] = out[g][i])
      BY <3>1, <3>3
    <3> QED BY <2>1, <3>2, <3>4
  <2>2. CASE sock[g] # "open"
    <3>1. q = out[g] /\ out[g] \in Seq(GuestFrame)
      BY <1>4, <1>t, <2>2
    <3> QED BY <3>1
  <2> QED BY <2>1, <2>2
<1>6. out' = [out EXCEPT ![g] = q]
  <2>1. CASE sock[g] = "open"
    BY <1>0, <1>4, <1>t, <2>1
  <2>2. CASE sock[g] # "open"
    BY <1>0, <1>4, <1>t, <2>2
  <2> QED BY <2>1, <2>2
<1>7. /\ client'[g] = r /\ out'[g] = q
      /\ \A h \in Guest \ {g} : client'[h] = client[h] /\ out'[h] = out[h]
  BY <1>3, <1>6, <1>t
<1>8. ViewTypeOK'
  <2>1. client' \in [Guest -> ClientRecord]
    BY <1>2, <1>3, <1>t
  <2>2. out' \in [Guest -> Seq(GuestFrame)]
    BY <1>5, <1>6, <1>t
  <2>3. asks' \in Nat
    BY <1>0, <1>t
  <2> QED BY <1>0, <2>1, <2>2, <2>3 DEF ViewTypeOK
<1>9. PeersValid'
  BY <1>0 DEF PeersValid
<1>10. SocketsValid'
  <2>1. sock[g] \notin {"none", "away"}
    BY <1>b DEF SocketsValid
  <2>2. sock' = sock /\ down' = down
    BY <1>0
  <2> QED BY <1>2, <1>7, <2>1, <2>2 DEF SocketsValid
<1>11. AsksValid'
  <2>1. r.pending <= r.seq
    BY <1>2, <1>a
  <2>2. ASSUME NEW i \in DOMAIN q, q[i].t = "fetch-history"
        PROVE  q[i].reqId <= r.seq /\ (q[i].reqId = r.pending => q[i].before = r.before)
    <3>1. CASE q[i] = FetchHistory(client[g].seq + 1, b)
      <4>1. q[i].reqId = client[g].seq + 1 /\ q[i].before = b
        BY <3>1 DEF FetchHistory
      <4> QED BY <1>2, <1>a, <4>1
    <3>2. CASE i \in DOMAIN out[g] /\ q[i] = out[g][i]
      <4>1. q[i] \in GuestFrame
        BY <1>5
      <4>2. q[i].reqId \in Nat
        BY <2>2, <4>1 DEF GuestFrame, Hello
      <4>3. q[i].reqId <= client[g].seq
        BY <2>2, <3>2 DEF AsksValid
      <4> QED BY <1>2, <1>a, <4>2, <4>3
    <3> QED BY <1>5, <3>1, <3>2
  <2> QED BY <1>7, <2>1, <2>2 DEF AsksValid
<1>12. ViewOf(client[g], Coming(g), Hears(g), g \in known, log)'
  <2>1. ViewOf(client[g], Coming(g), Hears(g), g \in known, log) /\ client[g] \in ClientRecord
        /\ Coming(g) \in Seq(Frame)
    BY <1>t, ComingFrames DEF ViewsValid
  <2>2. ViewOf(r, Coming(g), Hears(g), g \in known, log)
    BY <1>1, <1>b, <1>d, <2>1, ViewAsks
  <2>3. Coming(g)' = Coming(g) /\ Hears(g)' = Hears(g)
    BY <1>0 DEF Coming, Hears
  <2> QED BY <1>0, <1>7, <2>2, <2>3
<1>13. ViewsValid'
  BY <1>0, <1>7, <1>12, OthersView
<1> QED BY <1>8, <1>9, <1>10, <1>11, <1>13

\* A new client in place of one that ended keeps the invariant.
LEMMA RejoinsKeeps ==
  ASSUME ViewInv, NEW g \in Guest, Rejoins(g)
  PROVE  ViewInv'
<1> USE DEF ViewInv
<1>t. client \in [Guest -> ClientRecord] /\ sock \in [Guest -> {"none", "away", "open", "broken"}]
  BY DEF ViewTypeOK
<1>0. /\ client[g].phase = "ended" /\ client' = [client EXCEPT ![g] = Fresh]
      /\ sock' = [sock EXCEPT ![g] = "away"]
      /\ UNCHANGED <<room, peer, host, toRelay, down, log, known, out, refused, asks, mishaps>>
  BY DEF Rejoins, relayVars, Calm
<1>1. sock[g] = "none" /\ out[g] = <<>> /\ down[g] = <<>> /\ peer[g] = 0
  BY <1>0 DEF SocketsValid, PeersValid
<1>2. PICK r \in ClientRecord : r = Fresh /\ r.phase = "connecting" /\ r.pending = 0 /\ r.seq = 0
  BY FreshIs, Zenon
<1>3. /\ client'[g] = r /\ sock'[g] = "away"
      /\ \A h \in Guest \ {g} : client'[h] = client[h] /\ sock'[h] = sock[h]
  BY <1>0, <1>2, <1>t
<1>4. ViewTypeOK'
  <2>1. client' \in [Guest -> ClientRecord] /\ sock' \in [Guest -> {"none", "away", "open", "broken"}]
    BY <1>0, <1>2, <1>t
  <2> QED BY <1>0, <2>1 DEF ViewTypeOK
<1>5. PeersValid'
  <2>1. \A h \in Guest : peer'[h] # 0 => sock'[h] = "open"
    BY <1>0, <1>1, <1>3 DEF PeersValid
  <2> QED BY <1>0, <2>1 DEF PeersValid
<1>6. SocketsValid'
  BY <1>0, <1>1, <1>2, <1>3 DEF SocketsValid
<1>7. AsksValid'
  <2>1. DOMAIN out[g] = {} /\ r.pending <= r.seq
    BY <1>1, <1>2
  <2> QED BY <1>0, <1>3, <2>1 DEF AsksValid
<1>8. ViewOf(client[g], Coming(g), Hears(g), g \in known, log)'
  <2>1. Coming(g)' = <<>>
    BY <1>0, <1>1 DEF Coming, ComingTo
  <2>2. ~(Hears(g)' /\ g \in known') /\ r.phase # "live"
    BY <1>0, <1>1, <1>2 DEF Hears
  <2>3. ViewOf(r, <<>>, Hears(g)', g \in known', log')
    BY <1>2, <2>2, NothingComes, ViewStarts
  <2> QED BY <1>3, <2>1, <2>3
<1>9. ViewsValid'
  BY <1>0, <1>3, <1>8, OthersView
<1> QED BY <1>4, <1>5, <1>6, <1>7, <1>9

\* Without the relay a guest reads what had arrived, or a part of it.
LEMMA ViewSilenced ==
  ASSUME NEW c, NEW p \in Nat, NEW d \in Seq(ViewFrame), NEW t \in Seq(Sent),
         NEW e \in Seq(ViewFrame), Len(e) <= Len(d), \A i \in 1..Len(e) : e[i] = d[i],
         NEW h, NEW w, NEW l, ViewOf(c, ComingTo(p, d, t), h, w, l), NEW w2, NEW l2
  PROVE  ViewOf(c, e, FALSE, w2, l2)
<1>1. PICK s : s = ComingTo(p, d, t)
  OBVIOUS
<1>2. Len(d) \in Nat /\ Len(t) \in Nat /\ Len(e) \in Nat
  OBVIOUS
<1>3. PICK n \in Nat : n = IF p = 0 THEN 0 ELSE Len(t)
  BY <1>2
<1>4. s \in Seq(Frame) /\ Len(s) = Len(d) + n /\ \A i \in 1..Len(d) : s[i] = d[i]
  <2>1. HoldsUpTo(s, p, d, t, n)
    BY <1>1, <1>3, ComingUpTo
  <2> QED BY <2>1 DEF HoldsUpTo
<1>5. e \in Seq(Frame) /\ Len(e) <= Len(s)
  BY <1>2, <1>4 DEF Frame
<1>6. \A i \in 1..Len(e) : e[i] = s[i]
  BY <1>2, <1>4
<1>7. ViewOf(c, s, h, w, l)
  BY <1>1
<1> QED BY <1>4, <1>5, <1>6, <1>7, ViewShrinks

\* The room is closed over a guest: that is the last thing it is told.
LEMMA ViewClosed ==
  ASSUME NEW c, NEW p \in Nat, NEW d \in Seq(ViewFrame), NEW t \in Seq(Sent),
         NEW h, NEW w, NEW l, ViewOf(c, ComingTo(p, d, t), h, w, l), NEW w2, NEW l2
  PROVE  ViewOf(c, IF p # 0 THEN Append(d, RoomClosed) ELSE d, FALSE, w2, l2)
<1>1. ViewOf(c, d, FALSE, w2, l2)
  <2>1. Len(d) <= Len(d) /\ \A i \in 1..Len(d) : d[i] = d[i]
    OBVIOUS
  <2> QED BY <2>1, ViewSilenced
<1>2. d \in Seq(Frame) /\ RoomClosed \in Frame /\ Idle(RoomClosed)
  BY DEF Frame, ViewFrame, RoomClosed, Idle
<1>3. ViewOf(c, Append(d, RoomClosed), FALSE, w2, l2)
  BY <1>1, <1>2, ViewIdlesOnce
<1> QED BY <1>1, <1>3

\* The first frames of a sequence.
LEMMA PrefixIs ==
  ASSUME NEW S, NEW d \in Seq(S), NEW n \in 0..Len(d)
  PROVE  /\ SubSeq(d, 1, n) \in Seq(S) /\ Len(SubSeq(d, 1, n)) = n
         /\ \A i \in 1..n : SubSeq(d, 1, n)[i] = d[i]
<1>1. n \in Nat /\ Len(d) \in Nat /\ n <= Len(d) /\ 1 \in 1..Len(d) + 1
  OBVIOUS
<1>2. \A i \in 1..n : d[i] \in S /\ i \in 1..Len(d)
  BY <1>1
<1>3. SubSeq(d, 1, n) = [i \in 1..n |-> d[i]]
  BY <1>1
<1> QED BY <1>1, <1>2, <1>3

\* A socket that breaks keeps the invariant.
LEMMA CutKeeps ==
  ASSUME ViewInv, NEW g \in Guest, Cut(g)
  PROVE  ViewInv'
<1> USE DEF ViewInv
<1>t. /\ client \in [Guest -> ClientRecord] /\ sock \in [Guest -> {"none", "away", "open", "broken"}]
      /\ out \in [Guest -> Seq(GuestFrame)] /\ peer \in [Guest -> Nat] /\ down \in [Guest -> Seq(ViewFrame)]
      /\ toRelay \in Seq(Sent) /\ mishaps \in Nat
  BY DEF ViewTypeOK, Sent
<1>0. PICK n \in 0..Len(down[g]), k \in 0..Len(out[g]) :
        /\ sock[g] = "open" /\ mishaps' = mishaps + 1
        /\ peer' = [peer EXCEPT ![g] = 0] /\ down' = [down EXCEPT ![g] = SubSeq(@, 1, n)]
        /\ out' = [out EXCEPT ![g] = SubSeq(@, k + 1, Len(@))]
        /\ sock' = [sock EXCEPT ![g] = "broken"] /\ known' = known \ {g}
        /\ UNCHANGED <<room, host, toRelay, log, client, refused, asks>>
  BY DEF Cut, Mishap, GuestLeaves
<1>1. PICK e \in Seq(ViewFrame) :
        e = SubSeq(down[g], 1, n) /\ Len(e) <= Len(down[g]) /\ \A i \in 1..Len(e) : e[i] = down[g][i]
  <2>1. /\ SubSeq(down[g], 1, n) \in Seq(ViewFrame) /\ Len(SubSeq(down[g], 1, n)) = n
        /\ \A i \in 1..n : SubSeq(down[g], 1, n)[i] = down[g][i]
    BY <1>t, PrefixIs
  <2>2. n <= Len(down[g])
    OBVIOUS
  <2> QED BY <2>1, <2>2
<1>2. PICK q \in Seq(GuestFrame) :
        q = SubSeq(out[g], k + 1, Len(out[g])) /\ \A i \in DOMAIN q : \E j \in DOMAIN out[g] : q[i] = out[g][j]
  <2>1. PICK o \in Seq(GuestFrame) : o = out[g]
    BY <1>t
  <2>2. k \in 0..Len(o)
    BY <2>1
  <2>3. /\ SubSeq(o, k + 1, Len(o)) \in Seq(GuestFrame)
        /\ \A i \in DOMAIN SubSeq(o, k + 1, Len(o)) : \E j \in DOMAIN o : SubSeq(o, k + 1, Len(o))[i] = o[j]
    <3>1. Len(o) \in Nat /\ k \in Nat /\ k <= Len(o)
      BY <2>2
    <3>2. SubSeq(o, k + 1, Len(o)) = [i \in 1..Len(o) - k |-> o[k + i]]
      BY <3>1
    <3>3. \A i \in 1..Len(o) - k : k + i \in DOMAIN o /\ o[k + i] \in GuestFrame
      BY <3>1
    <3>4. Len(o) - k \in Nat
      BY <3>1
    <3>5. PICK f : f = SubSeq(o, k + 1, Len(o))
      OBVIOUS
    <3>6. DOMAIN f = 1..Len(o) - k /\ \A i \in 1..Len(o) - k : f[i] = o[k + i]
      BY <3>2, <3>5
    <3>7. f \in Seq(GuestFrame)
      BY <3>2, <3>3, <3>4, <3>5
    <3>8. \A i \in DOMAIN f : \E j \in DOMAIN o : f[i] = o[j]
      BY <3>3, <3>6, Zenon
    <3> QED BY <3>5, <3>7, <3>8, Zenon
  <2> QED BY <2>1, <2>3
<1>3. /\ peer'[g] = 0 /\ down'[g] = e /\ out'[g] = q /\ sock'[g] = "broken"
      /\ \A h \in Guest \ {g} : /\ peer'[h] = peer[h] /\ down'[h] = down[h] /\ out'[h] = out[h]
                                /\ sock'[h] = sock[h]
  BY <1>0, <1>1, <1>2, <1>t
<1>4. ViewTypeOK'
  <2>1. sock' \in [Guest -> {"none", "away", "open", "broken"}] /\ peer' \in [Guest -> Nat]
    BY <1>0, <1>t
  <2>2. down' \in [Guest -> Seq(ViewFrame)]
    BY <1>0, <1>1, <1>t
  <2>3. out' \in [Guest -> Seq(GuestFrame)]
    BY <1>0, <1>2, <1>t
  <2>4. known' \in SUBSET Guest /\ mishaps' \in Nat
    BY <1>0, <1>t DEF ViewTypeOK
  <2> QED BY <1>0, <2>1, <2>2, <2>3, <2>4 DEF ViewTypeOK
<1>5. PeersValid'
  <2>1. \A h \in Guest : peer'[h] # 0 => room'.open /\ peer'[h] < room'.next /\ sock'[h] = "open"
    BY <1>0, <1>3 DEF PeersValid
  <2>2. \A h, j \in Guest : peer'[h] # 0 /\ peer'[h] = peer'[j] => h = j
    BY <1>3 DEF PeersValid
  <2>3. \A h \in known' : peer'[h] # 0
    BY <1>0, <1>3 DEF PeersValid, ViewTypeOK
  <2> QED BY <1>0, <2>1, <2>2, <2>3 DEF PeersValid
<1>6. SocketsValid'
  <2>1. client' = client
    BY <1>0
  <2> QED BY <1>0, <1>3, <2>1 DEF SocketsValid
<1>7. AsksValid'
  <2>1. client' = client
    BY <1>0
  <2>2. ASSUME NEW i \in DOMAIN q, q[i].t = "fetch-history"
        PROVE  /\ q[i].reqId <= client[g].seq
               /\ q[i].reqId = client[g].pending => q[i].before = client[g].before
    <3>1. PICK j \in DOMAIN out[g] : q[i] = out[g][j]
      BY <1>2
    <3> QED BY <2>2, <3>1 DEF AsksValid
  <2> QED BY <1>3, <2>1, <2>2 DEF AsksValid
<1>8. ViewOf(client[g], Coming(g), Hears(g), g \in known, log)'
  <2>1. ViewOf(client[g], ComingTo(peer[g], down[g], toRelay), Hears(g), g \in known, log)
    BY DEF ViewsValid, Coming
  <2>2. peer[g] \in Nat /\ down[g] \in Seq(ViewFrame)
    BY <1>t
  <2>3. ViewOf(client[g], e, FALSE, g \in known', log')
    BY <1>1, <1>t, <2>1, <2>2, ViewSilenced
  <2>4. Coming(g)' = e /\ Hears(g)' = FALSE
    <3>1. Coming(g)' = e \o <<>>
      BY <1>3 DEF Coming, ComingTo
    <3>2. e \o <<>> = e
      BY <1>1
    <3>3. Hears(g)' = FALSE
      BY <1>3 DEF Hears
    <3> QED BY <3>1, <3>2, <3>3
  <2>5. client' = client
    BY <1>0
  <2> QED BY <2>3, <2>4, <2>5
<1>9. ViewsValid'
  <2>1. \A h \in Guest \ {g} : (h \in known') = (h \in known)
    BY <1>0
  <2> QED BY <1>0, <1>3, <1>8, <2>1, OthersView
<1> QED BY <1>4, <1>5, <1>6, <1>7, <1>9

\* A host that dials again keeps the invariant.
LEMMA HostReturnsKeeps ==
  ASSUME ViewInv, HostReturns
  PROVE  ViewInv'
<1> USE DEF ViewInv
<1>0. /\ host = "down" /\ known' = {} /\ UNCHANGED <<peer, down, log, sock, client, out, refused, asks, mishaps>>
      /\ \/ room.open /\ host' = "gone" /\ UNCHANGED <<room, toRelay>>
         \/ ~room.open /\ host' = "open" /\ room' = [open |-> TRUE, next |-> 1] /\ toRelay' = <<>>
  BY DEF HostReturns, HostOpens, Unwatched, guestVars, Calm
<1>1. ViewTypeOK'
  <2>1. room' \in [open : BOOLEAN, next : Nat \ {0}] /\ host' \in {"open", "down", "gone"}
    <3>1. [open |-> TRUE, next |-> 1] \in [open : BOOLEAN, next : Nat \ {0}]
      OBVIOUS
    <3> QED BY <1>0, <3>1 DEF ViewTypeOK
  <2>2. toRelay' \in Seq([to : Nat, frame : ViewFrame])
    <3>1. <<>> \in Seq([to : Nat, frame : ViewFrame])
      OBVIOUS
    <3> QED BY <1>0, <3>1 DEF ViewTypeOK
  <2> QED BY <1>0, <2>1, <2>2 DEF ViewTypeOK
<1>2. PeersValid'
  <2>1. CASE room.open /\ host' = "gone" /\ UNCHANGED <<room, toRelay>>
    BY <1>0, <2>1 DEF PeersValid
  <2>2. CASE ~room.open /\ host' = "open" /\ room' = [open |-> TRUE, next |-> 1] /\ toRelay' = <<>>
    <3>1. \A g \in Guest : peer'[g] = 0
      BY <1>0, <2>2 DEF PeersValid
    <3>2. DOMAIN toRelay' = {} /\ room'.open
      BY <2>2
    <3> QED BY <1>0, <3>1, <3>2 DEF PeersValid
  <2> QED BY <1>0, <2>1, <2>2
<1>3. SocketsValid' /\ AsksValid'
  BY <1>0 DEF SocketsValid, AsksValid
<1>4. ASSUME NEW g \in Guest PROVE ViewOf(client[g], Coming(g), Hears(g), g \in known, log)'
  <2>1. ViewOf(client[g], Coming(g), Hears(g), g \in known, log)
    BY DEF ViewsValid
  <2>2. Hears(g)' = FALSE /\ Coming(g)' = Coming(g)
    <3>1. CASE room.open /\ host' = "gone" /\ UNCHANGED <<room, toRelay>>
      BY <1>0, <3>1 DEF Hears, Coming
    <3>2. CASE ~room.open
      <4>1. peer[g] = 0 /\ peer'[g] = 0
        BY <1>0, <3>2 DEF PeersValid
      <4> QED BY <1>0, <4>1 DEF Hears, Coming, ComingTo
    <3> QED BY <1>0, <3>1, <3>2
  <2>3. ViewOf(client[g], Coming(g), FALSE, g \in known', log')
    BY <2>1, ViewStays
  <2> QED BY <1>0, <2>2, <2>3
<1> QED BY <1>1, <1>2, <1>3, <1>4 DEF ViewsValid

\* The room is closed, by the host's end or by a hub that stops.
LEMMA ClosedKeeps ==
  ASSUME ViewInv, TellClosed, Unwatched, known' = {}, host' \in {"down", "gone"},
         toRelay' = <<>>, mishaps' \in Nat
  PROVE  ViewInv'
<1> USE DEF ViewInv
<1>t. peer \in [Guest -> Nat] /\ down \in [Guest -> Seq(ViewFrame)] /\ toRelay \in Seq(Sent)
  BY DEF ViewTypeOK, Sent
<1>0. /\ down' = [g \in Guest |-> IF peer[g] # 0 THEN Append(down[g], RoomClosed) ELSE down[g]]
      /\ peer' = [g \in Guest |-> 0] /\ room' = [open |-> FALSE, next |-> 1]
      /\ UNCHANGED <<log, sock, client, out, refused, asks>>
  BY DEF TellClosed, NoRoom, Unwatched, guestVars
<1>1. ViewTypeOK'
  <2>1. down' \in [Guest -> Seq(ViewFrame)]
    <3>1. ASSUME NEW g \in Guest
          PROVE  (IF peer[g] # 0 THEN Append(down[g], RoomClosed) ELSE down[g]) \in Seq(ViewFrame)
      <4>1. RoomClosed \in ViewFrame /\ down[g] \in Seq(ViewFrame)
        BY <1>t DEF ViewFrame
      <4> QED BY <4>1
    <3> QED BY <1>0, <3>1
  <2>2. toRelay' \in Seq([to : Nat, frame : ViewFrame])
    OBVIOUS
  <2>3. peer' \in [Guest -> Nat] /\ room' \in [open : BOOLEAN, next : Nat \ {0}]
    BY <1>0
  <2> QED BY <1>0, <2>1, <2>2, <2>3 DEF ViewTypeOK
<1>2. PeersValid'
  <2>1. DOMAIN toRelay' = {} /\ \A g \in Guest : peer'[g] = 0
    BY <1>0
  <2> QED BY <2>1 DEF PeersValid
<1>3. SocketsValid'
  <2>1. ASSUME NEW g \in Guest, sock[g] \in {"none", "away"} PROVE down'[g] = <<>>
    <3>1. peer[g] = 0 /\ down[g] = <<>>
      BY <2>1 DEF PeersValid, SocketsValid
    <3> QED BY <1>0, <3>1
  <2> QED BY <1>0, <2>1 DEF SocketsValid
<1>4. AsksValid'
  BY <1>0 DEF AsksValid
<1>5. ASSUME NEW g \in Guest PROVE ViewOf(client[g], Coming(g), Hears(g), g \in known, log)'
  <2>1. ViewOf(client[g], ComingTo(peer[g], down[g], toRelay), Hears(g), g \in known, log)
    BY DEF ViewsValid, Coming
  <2>2. peer[g] \in Nat /\ down[g] \in Seq(ViewFrame)
    BY <1>t
  <2>e. PICK e : e = IF peer[g] # 0 THEN Append(down[g], RoomClosed) ELSE down[g]
    OBVIOUS
  <2>3. ViewOf(client[g], e, FALSE, g \in known', log')
    BY <1>t, <2>1, <2>2, <2>e, ViewClosed
  <2>4. Coming(g)' = e /\ Hears(g)' = FALSE
    <3>1. peer'[g] = 0 /\ down'[g] = e
      BY <1>0, <2>e
    <3>2. Coming(g)' = e \o <<>>
      BY <3>1 DEF Coming, ComingTo
    <3>3. e \in Seq(ViewFrame)
      BY <1>1, <3>1 DEF ViewTypeOK
    <3> QED BY <3>1, <3>2, <3>3 DEF Hears
  <2> QED BY <1>0, <2>3, <2>4
<1> QED BY <1>1, <1>2, <1>3, <1>4, <1>5 DEF ViewsValid

\* A room that is closed keeps the invariant.
LEMMA HostIsMissedKeeps ==
  ASSUME ViewInv, HostIsMissed \/ HubStops
  PROVE  ViewInv'
<1>1. host \in {"open", "down", "gone"} /\ mishaps \in Nat
  BY DEF ViewInv, ViewTypeOK
<1>2. TellClosed /\ Unwatched /\ known' = {}
  BY DEF HostIsMissed, HubStops, HostCloses, CloseAll
<1>3. host' \in {"down", "gone"} /\ toRelay' = <<>> /\ mishaps' \in Nat
  BY <1>1 DEF HostIsMissed, HubStops, HostCloses, CloseAll, Dropped, Calm, Mishap
<1> QED BY <1>2, <1>3, ClosedKeeps

\* A host whose socket breaks keeps the invariant.
LEMMA HostIsLostKeeps ==
  ASSUME ViewInv, HostIsLost
  PROVE  ViewInv'
<1> USE DEF ViewInv
<1>t. peer \in [Guest -> Nat] /\ down \in [Guest -> Seq(ViewFrame)] /\ toRelay \in Seq(Sent) /\ mishaps \in Nat
  BY DEF ViewTypeOK, Sent
<1>0. PICK n \in 0..Len(toRelay) :
        /\ host = "open" /\ host' = "down" /\ toRelay' = SubSeq(toRelay, 1, n) /\ mishaps' = mishaps + 1
        /\ UNCHANGED <<room, peer, down, log, known, sock, client, out, refused, asks>>
  BY DEF HostIsLost, HostBreaks, Unwatched, guestVars, Mishap
<1>1. PICK u \in Seq(Sent) : u = SubSeq(toRelay, 1, n) /\ Len(u) = n /\ \A i \in 1..n : u[i] = toRelay[i]
  <2>1. /\ SubSeq(toRelay, 1, n) \in Seq(Sent) /\ Len(SubSeq(toRelay, 1, n)) = n
        /\ \A i \in 1..n : SubSeq(toRelay, 1, n)[i] = toRelay[i]
    BY <1>t, PrefixIs
  <2> QED BY <2>1, Zenon
<1>2. ViewTypeOK'
  <2>1. toRelay' \in Seq([to : Nat, frame : ViewFrame])
    BY <1>0, <1>1 DEF Sent
  <2>2. mishaps' \in Nat /\ host' \in {"open", "down", "gone"}
    BY <1>0, <1>t
  <2> QED BY <1>0, <2>1, <2>2 DEF ViewTypeOK
<1>3. PeersValid'
  <2>1. ASSUME NEW i \in DOMAIN toRelay'
        PROVE  toRelay'[i].to < room.next /\ (toRelay'[i].to = Everyone => toRelay'[i].frame.t = "entry")
    <3>1. i \in DOMAIN toRelay /\ toRelay'[i] = toRelay[i]
      BY <1>0, <1>1, <1>t
    <3> QED BY <3>1 DEF PeersValid
  <2> QED BY <1>0, <2>1 DEF PeersValid
<1>4. SocketsValid' /\ AsksValid'
  BY <1>0 DEF SocketsValid, AsksValid
<1>5. ASSUME NEW g \in Guest PROVE ViewOf(client[g], Coming(g), Hears(g), g \in known, log)'
  <2>1. ViewOf(client[g], Coming(g), Hears(g), g \in known, log) /\ Coming(g) \in Seq(Frame)
    BY ComingFrames DEF ViewsValid
  <2>p. PICK p \in Nat : p = peer[g]
    BY <1>t
  <2>d. PICK d \in Seq(ViewFrame) : d = down[g]
    BY <1>t
  <2>s. PICK s \in Seq(Frame) : s = Coming(g)
    BY <2>1, Zenon
  <2>x. PICK x : x = ComingTo(p, d, u)
    OBVIOUS
  <2>2. Len(toRelay) \in Nat /\ n \in Nat /\ n <= Len(toRelay) /\ Len(d) \in Nat
    BY <1>t
  <2>3. PICK a \in Nat, b \in Nat : a = (IF p = 0 THEN 0 ELSE Len(toRelay)) /\ b = (IF p = 0 THEN 0 ELSE Len(u)) /\ b <= a
    <3>1. Len(u) \in Nat /\ Len(u) <= Len(toRelay)
      BY <1>1, <2>2
    <3>2. CASE p = 0
      BY <3>2
    <3>3. CASE p # 0
      BY <2>2, <3>1, <3>3
    <3> QED BY <3>2, <3>3
  <2>4. HoldsUpTo(s, p, d, toRelay, a) /\ HoldsUpTo(x, p, d, u, b)
    <3>1. s = ComingTo(p, d, toRelay)
      BY <2>p, <2>d, <2>s DEF Coming
    <3>2. HoldsUpTo(ComingTo(p, d, toRelay), p, d, toRelay, a)
      BY <1>t, <2>3, ComingUpTo
    <3>3. HoldsUpTo(ComingTo(p, d, u), p, d, u, b)
      BY <2>3, ComingUpTo
    <3> QED BY <2>x, <3>1, <3>2, <3>3
  <2>5. /\ Len(s) = Len(d) + a /\ \A i \in 1..Len(d) : s[i] = d[i]
        /\ \A j \in 1..a : s[Len(d) + j] = Heard(p, toRelay[j])
    BY <2>4 DEF HoldsUpTo
  <2>6. /\ x \in Seq(Frame) /\ Len(x) = Len(d) + b /\ \A i \in 1..Len(d) : x[i] = d[i]
        /\ \A j \in 1..b : x[Len(d) + j] = Heard(p, u[j])
    BY <2>4 DEF HoldsUpTo
  <2>7. Len(x) <= Len(s)
    BY <2>2, <2>3, <2>5, <2>6
  <2>8. ASSUME NEW i \in 1..Len(x) PROVE x[i] = s[i]
    <3>1. CASE i \in 1..Len(d)
      BY <2>5, <2>6, <3>1
    <3>2. CASE i \notin 1..Len(d)
      <4>1. PICK j \in 1..b : i = Len(d) + j
        <5>1. i - Len(d) \in 1..b /\ i = Len(d) + (i - Len(d))
          BY <2>2, <2>3, <2>6, <3>2
        <5> QED BY <5>1
      <4>2. j \in 1..a /\ j \in 1..n
        BY <1>1, <2>2, <2>3, <4>1
      <4> QED BY <1>1, <2>5, <2>6, <4>1, <4>2
    <3> QED BY <3>1, <3>2
  <2>9. ViewOf(client[g], s, Hears(g), g \in known, log)
    BY <2>1, <2>s
  <2>10. ViewOf(client[g], x, FALSE, g \in known, log)
    BY <2>6, <2>7, <2>8, <2>9, ViewShrinks
  <2>11. Coming(g)' = x /\ Hears(g)' = FALSE
    BY <1>0, <1>1, <2>p, <2>d, <2>x DEF Coming, Hears
  <2> QED BY <1>0, <2>10, <2>11
<1> QED BY <1>2, <1>3, <1>4, <1>5 DEF ViewsValid

\* A hub that dies keeps the invariant.
LEMMA HubIsGoneKeeps ==
  ASSUME ViewInv, HubIsGone
  PROVE  ViewInv'
<1> USE DEF ViewInv
<1>t. /\ peer \in [Guest -> Nat] /\ down \in [Guest -> Seq(ViewFrame)] /\ toRelay \in Seq(Sent) /\ mishaps \in Nat
      /\ sock \in [Guest -> {"none", "away", "open", "broken"}] /\ host \in {"open", "down", "gone"}
  BY DEF ViewTypeOK, Sent
<1>0. PICK n \in [Guest -> 0..MaxDown] :
        /\ \A g \in Guest : n[g] <= Len(down[g])
        /\ down' = [g \in Guest |-> SubSeq(down[g], 1, n[g])]
        /\ room' = [open |-> FALSE, next |-> 1] /\ peer' = [g \in Guest |-> 0]
        /\ host' \in {"down", "gone"} /\ toRelay' = <<>> /\ mishaps' = mishaps + 1
        /\ sock' = [g \in Guest |-> IF sock[g] = "open" THEN "broken" ELSE sock[g]]
        /\ known' = {} /\ UNCHANGED <<log, client, out, refused, asks>>
  BY <1>t DEF HubIsGone, HubDies, NoRoom, Mishap, Dropped
<1>1. ASSUME NEW g \in Guest
      PROVE  /\ down'[g] \in Seq(ViewFrame) /\ Len(down'[g]) <= Len(down[g])
             /\ \A i \in 1..Len(down'[g]) : down'[g][i] = down[g][i]
  <2>1. PICK m \in 0..Len(down[g]) : m = n[g]
    <3>1. n[g] \in Nat /\ n[g] <= Len(down[g]) /\ Len(down[g]) \in Nat
      BY <1>0, <1>t, ViewAssumption
    <3> QED BY <3>1
  <2>2. /\ SubSeq(down[g], 1, m) \in Seq(ViewFrame) /\ Len(SubSeq(down[g], 1, m)) = m
        /\ \A i \in 1..m : SubSeq(down[g], 1, m)[i] = down[g][i]
    BY <1>t, PrefixIs
  <2>3. down'[g] = SubSeq(down[g], 1, m) /\ m <= Len(down[g])
    BY <1>0, <2>1
  <2> QED BY <2>2, <2>3
<1>2. ViewTypeOK'
  <2>1. toRelay' \in Seq([to : Nat, frame : ViewFrame])
    BY <1>0
  <2>2. down' \in [Guest -> Seq(ViewFrame)]
    <3>1. DOMAIN down' = Guest /\ down' = [g \in Guest |-> down'[g]]
      BY <1>0
    <3> QED BY <1>1, <3>1
  <2>3. mishaps' \in Nat /\ host' \in {"open", "down", "gone"} /\ room' \in [open : BOOLEAN, next : Nat \ {0}]
    BY <1>0, <1>t
  <2>4. peer' \in [Guest -> Nat] /\ sock' \in [Guest -> {"none", "away", "open", "broken"}]
    BY <1>0, <1>t
  <2> QED BY <1>0, <2>1, <2>2, <2>3, <2>4 DEF ViewTypeOK
<1>3. PeersValid'
  <2>1. DOMAIN toRelay' = {} /\ \A g \in Guest : peer'[g] = 0
    BY <1>0
  <2> QED BY <1>0, <2>1 DEF PeersValid
<1>4. SocketsValid'
  <2>1. ASSUME NEW g \in Guest, sock'[g] \in {"none", "away"} PROVE sock[g] = sock'[g]
    BY <1>0, <2>1
  <2>2. ASSUME NEW g \in Guest, sock[g] \in {"none", "away"} PROVE down'[g] = <<>> /\ sock'[g] = sock[g]
    <3>1. down[g] = <<>>
      BY <2>2 DEF SocketsValid
    <3>2. down'[g] \in Seq(ViewFrame) /\ Len(down'[g]) <= 0
      BY <1>1, <3>1
    <3>3. Len(down'[g]) = 0
      BY <3>2
    <3> QED BY <1>0, <2>2, <3>2, <3>3
  <2> QED BY <1>0, <2>1, <2>2 DEF SocketsValid
<1>5. AsksValid'
  BY <1>0 DEF AsksValid
<1>6. ASSUME NEW g \in Guest PROVE ViewOf(client[g], Coming(g), Hears(g), g \in known, log)'
  <2>1. ViewOf(client[g], ComingTo(peer[g], down[g], toRelay), Hears(g), g \in known, log)
    BY DEF ViewsValid, Coming
  <2>2. peer[g] \in Nat /\ down[g] \in Seq(ViewFrame)
    BY <1>t
  <2>e. PICK e : e = down'[g]
    OBVIOUS
  <2>3. e \in Seq(ViewFrame) /\ Len(e) <= Len(down[g]) /\ \A i \in 1..Len(e) : e[i] = down[g][i]
    BY <1>1, <2>e
  <2>4. ViewOf(client[g], e, FALSE, g \in known', log')
    BY <1>t, <2>1, <2>2, <2>3, ViewSilenced
  <2>5. Coming(g)' = e /\ Hears(g)' = FALSE
    <3>1. peer'[g] = 0
      BY <1>0
    <3>2. Coming(g)' = e \o <<>>
      BY <2>e, <3>1 DEF Coming, ComingTo
    <3> QED BY <2>3, <3>1, <3>2 DEF Hears
  <2> QED BY <1>0, <2>4, <2>5
<1> QED BY <1>2, <1>3, <1>4, <1>5, <1>6 DEF ViewsValid

\* Every step keeps the invariant.
LEMMA ViewStep ==
  ASSUME ViewInv, [ViewNext]_viewVars
  PROVE  ViewInv'
<1>1. ASSUME NEW g \in Guest,
             Host(g) \/ RefusesHello(g) \/ Reads(g) \/ Opens(g) \/ Cut(g) \/ Notice(g)
               \/ TimesOut(g) \/ HistoryTimesOut(g) \/ LoadOlder(g) \/ Rejoins(g)
      PROVE  ViewInv'
  BY <1>1, WelcomesKeeps, ServesHistoryKeeps, RefusesHelloKeeps, GuestReadsKeeps, JoinRefusedKeeps,
     OpensKeeps, CutKeeps, NoticeKeeps, HistoryTimesOutKeeps, LoadOlderKeeps, RejoinsKeeps, Zenon
     DEF Host, Reads
<1>2. CASE Appends
  BY <1>2, AppendsKeeps
<1>3. CASE Routes
  BY <1>3, RoutesKeeps
<1>4. CASE HostReturns
  BY <1>4, HostReturnsKeeps
<1>5. CASE HostIsMissed \/ HubStops
  BY <1>5, HostIsMissedKeeps
<1>6. CASE HostIsLost
  BY <1>6, HostIsLostKeeps
<1>7. CASE HubIsGone
  BY <1>7, HubIsGoneKeeps
<1>8. CASE UNCHANGED viewVars
  <2>0. UNCHANGED <<room, peer, host, toRelay, down, log, known, sock, client, out, refused, asks, mishaps>>
    BY <1>8 DEF viewVars, relayVars, guestVars
  <2>1. UNCHANGED <<ViewTypeOK, PeersValid, SocketsValid, AsksValid>>
    BY <2>0 DEF ViewTypeOK, PeersValid, SocketsValid, AsksValid
  <2>2. ViewsValid'
    <3>1. \A g \in Guest : UNCHANGED <<Coming(g), Hears(g)>>
      BY <2>0 DEF Coming, Hears
    <3> QED BY <2>0, <3>1 DEF ViewInv, ViewsValid
  <2> QED BY <2>1, <2>2 DEF ViewInv
<1> QED BY <1>1, <1>2, <1>3, <1>4, <1>5, <1>6, <1>7, <1>8, Zenon DEF ViewNext

\* What is on its way, read by a client with a welcomed connection, completes its replica.
LEMMA ViewFaithful ==
  ASSUME ViewInv
  PROVE  ReplicaFaithful
<1> USE DEF ViewInv
<1> SUFFICES ASSUME NEW g \in Guest, client[g].phase = "live"
             PROVE  /\ Contiguous(client[g].entries)
                    /\ sock[g] = "open" /\ peer[g] # 0 /\ host = "open" =>
                         LET c == FoldLeft(Take, client[g], Coming(g)) IN
                         /\ Contiguous(c.entries)
                         /\ IF c.entries = <<>> THEN log = 0 ELSE Last(c.entries) = log
                         /\ c.more = Older(c.entries)
  BY DEF ReplicaFaithful
<1>1. PICK c : c = client[g]
  OBVIOUS
<1>2. PICK s \in Seq(Frame) : s = Coming(g)
  BY ComingFrames, Zenon
<1>3. ViewOf(c, s, Hears(g), g \in known, log) /\ c \in Views(c) /\ c.phase = "live"
  BY <1>1, <1>2 DEF ViewsValid, Views
<1>4. Contiguous(c.entries)
  <2>1. PICK st : st = [i \in {0} |-> c]
    OBVIOUS
  <2>2. st[0] = c /\ Run(st, c, s, 0) /\ 0 \in 0..Len(s)
    <3>1. Len(s) \in Nat
      OBVIOUS
    <3> QED BY <2>1, <3>1 DEF Run
  <2>3. Sound(c, s)
    BY <1>3 DEF ViewOf
  <2> QED BY <1>3, <2>2, <2>3 DEF Sound
<1>5. ASSUME sock[g] = "open", peer[g] # 0, host = "open",
             NEW f, f = FoldLeft(Take, c, s)
      PROVE  /\ Contiguous(f.entries)
             /\ IF f.entries = <<>> THEN log = 0 ELSE Last(f.entries) = log
             /\ f.more = Older(f.entries)
  <2>1. Hears(g)
    BY <1>5 DEF Hears
  <2>2. Whole(c, s, log)
    BY <1>3, <2>1 DEF ViewOf
  <2>3. PICK n \in Nat : n = Len(s) /\ DOMAIN s = 1..n
    OBVIOUS
  <2>4. PICK st : Run(st, c, s, n) /\ FoldLeft(Take, c, s) = st[n]
    BY <2>3, FoldIsRun
  <2>5. Complete(f, log)
    BY <1>5, <2>2, <2>3, <2>4 DEF Whole
  <2> QED BY <2>5 DEF Complete, Last
<1> QED BY <1>1, <1>2, <1>4, <1>5

(***************************************************************************)
(* The theorems.                                                           *)
(***************************************************************************)

\* Whatever the guests, the sizes and the bounds are, the four parts of the invariant
\* hold of the relay, the host and the panel's clients.
THEOREM ViewInvariant == ViewSpec => []ViewInv
<1>1. ViewInv /\ [ViewNext]_viewVars => ViewInv'
  BY ViewStep
<1> QED BY ViewInitial, <1>1, PTL DEF ViewSpec

\* Rooms, frames, sockets and clients keep their types.
THEOREM ViewTypeCorrect == ViewSpec => []ViewTypeOK
<1>1. ViewInv => ViewTypeOK
  BY DEF ViewInv
<1> QED BY <1>1, ViewInvariant, PTL

\* A live client shows a gapless run of the log, and what is on its way to a client whose
\* connection holds completes the run up to the newest entry (applyFrame of client.ts).
THEOREM ReplicaFaithfulCorrect == ViewSpec => []ReplicaFaithful
<1>1. ViewInv => ReplicaFaithful
  BY ViewFaithful
<1> QED BY <1>1, ViewInvariant, PTL
================================================================================
