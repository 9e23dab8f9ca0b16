--------------------------- MODULE FleetSearchProofs ---------------------------
(***************************************************************************)
(* Proofs about FleetSearch, for any number of sessions, searches and      *)
(* cursors, branches and pages of any length, and any change of the world. *)
(*                                                                         *)
(* A page is a merge of the pages of the participants.  Whether it skips   *)
(* nothing is a matter of order and of counting: what a merge drops has    *)
(* as many newer hits above it as a page can hold, and keeps them.  Across *)
(* pages, a leaf that is still on its branch stands for the same matches   *)
(* as when it was frozen.                                                  *)
(***************************************************************************)
EXTENDS FleetSearch, FiniteSetTheorems, WellFoundedInduction, SequenceTheorems, FunctionTheorems, TLAPS

\* Branches grow at the end, and a message has a number of its own.
BranchesValid ==
  \A s \in Session :
    /\ Len(branch[s]) <= MaxBranch
    /\ \A i \in DOMAIN branch[s] : branch[s][i].id <= minted[s]
    /\ \A i, j \in DOMAIN branch[s] : i < j => branch[s][i].id < branch[s][j].id

\* What a leaf was frozen with is what the branch up to it holds, as long as it is there.
Frozen(s, leaf, all) ==
  /\ leaf <= minted[s]
  /\ leaf = NullLeaf => all = {}
  /\ OnBranch(branch[s], leaf) => Matches(s, SnapshotBranch(s, leaf)) = all
  /\ IsFiniteSet(all) /\ \A h \in all : h.session = s /\ h.sequence < MaxBranch

FrozenIn(part) ==
  \A s \in Session :
    /\ part[s].leaf # Unfrozen => Frozen(s, part[s].leaf, part[s].all)
    /\ part[s].reply.t = "page" => Frozen(s, part[s].reply.leaf, part[s].reply.all)

\* A page that is on its way holds the newest matches below the boundary.
PageValid(q, p) ==
  LET page == p.reply
      below == {h \in page.all : \A b \in q.before : Newer(b, h)}
  IN /\ p.leaf # Unfrozen => page.leaf = p.leaf /\ page.all = p.all
     /\ page.hits = Newest(below, PageLimit)
     /\ page.more <=> Cardinality(below) > PageLimit

\* A match was returned, on an earlier page or on this, or the page is full of newer ones.
Covered(q, h) ==
  \/ h \in q.seen \cup q.hits
  \/ q.more /\ Cardinality(q.hits) >= PageLimit /\ \A g \in q.hits : Newer(g, h)

\* Who has yet to answer was frozen by an earlier page, down to the boundary, or by none.
ToAnswer(q, p) ==
  IF q.before = {} THEN p.leaf = Unfrozen
  ELSE /\ p.leaf # Unfrozen
       /\ \A h \in p.all : h \in q.seen \/ \A b \in q.before : Newer(b, h)

SearchValid(q) ==
  /\ \A b, c \in q.before : b = c
  /\ q.before = {} => q.seen = {}
  /\ \A b \in q.before, g \in q.seen : g = b \/ Newer(g, b)
  /\ IsFiniteSet(q.hits)
  /\ \A h \in q.hits : /\ q.part[h.session].st = "done" /\ h \in q.part[h.session].all
                       /\ \A b \in q.before : Newer(b, h)
  /\ \A s \in Session :
       LET p == q.part[s]
       IN /\ p.st \in {"waiting", "asked"} => ToAnswer(q, p)
          /\ p.st = "asked" => p.reply.t # "none"
          /\ p.st = "asked" /\ p.reply.t = "page" => PageValid(q, p)
          /\ p.st = "done" => p.leaf # Unfrozen /\ \A h \in p.all : Covered(q, h)

\* A cursor continues a search that is complete down to its boundary.
CursorValid(c) ==
  /\ \A g \in c.seen : g = c.before \/ Newer(g, c.before)
  /\ \A s \in Session :
       LET p == c.part[s]
       IN /\ p.st \in {"outside", "failed", "done"}
          /\ p.st = "done" => /\ p.leaf # Unfrozen
                              /\ \A h \in p.all : h \in c.seen \/ Newer(c.before, h)

RequestsValid == \A r \in Request : ~Idle(r) => SearchValid(req[r]) /\ FrozenIn(req[r].part)
CursorsValid == \A i \in DOMAIN cursors : CursorValid(cursors[i]) /\ FrozenIn(cursors[i].part)

(***************************************************************************)
(* Least elements, and with them induction.                                *)
(***************************************************************************)

\* A set of naturals that is not empty has a first element: the sets 1..x, for x in S, have
\* a least one, for strict inclusion of finite sets is well founded.
LEMMA LeastNumber ==
  ASSUME NEW S \in SUBSET Nat, S # {}
  PROVE  \E x \in S : \A y \in S : x <= y
<1> DEFINE Upto == {1..x : x \in S}
<1>1. Upto \subseteq FiniteSubsetsOf(Nat) /\ Upto # {}
  <2>1. \A x \in S : IsFiniteSet(1..x) /\ 1..x \in SUBSET Nat
    BY FS_Interval
  <2> QED BY <2>1 DEF FiniteSubsetsOf
<1>2. \E U \in Upto : \A V \in Upto : ~(<<V, U>> \in StrictSubsetOrdering(Nat))
  <2> HIDE DEF Upto
  <2>1. IsWellFoundedOn(StrictSubsetOrdering(Nat), FiniteSubsetsOf(Nat))
    BY FS_StrictSubsetOrderingWellFounded
  <2> QED BY <1>1, <2>1, WFMin
<1>3. PICK x \in S : \A V \in Upto : ~(<<V, 1..x>> \in StrictSubsetOrdering(Nat))
  BY <1>2
<1>4. ASSUME NEW y \in S, y < x PROVE FALSE
  <2>1. 1..y \in SUBSET Nat /\ 1..x \in SUBSET Nat /\ 1..y \subseteq 1..x /\ x \in 1..x /\ x \notin 1..y
    BY <1>4
  <2>2. <<1..y, 1..x>> \in StrictSubsetOrdering(Nat)
    BY <2>1 DEF StrictSubsetOrdering
  <2> QED BY <1>3, <2>2
<1> QED BY <1>3, <1>4

\* Min chooses it.
LEMMA MinIsIn ==
  ASSUME NEW S \in SUBSET Nat, S # {}
  PROVE  Min(S) \in S
BY LeastNumber DEF Min

\* Whatever holds of 0, and of n + 1 if of n, holds of all.
LEMMA Induction ==
  ASSUME NEW S \in SUBSET Nat, 0 \in S, \A n \in S : n + 1 \in S
  PROVE  S = Nat
<1> DEFINE Rest == Nat \ S
<1> SUFFICES ASSUME Rest # {} PROVE FALSE
  OBVIOUS
<1>1. PICK x \in Rest : \A y \in Rest : x <= y
  BY LeastNumber
<1>2. x # 0 /\ x - 1 \in Nat /\ x - 1 \notin Rest
  BY <1>1
<1> QED BY <1>2

(***************************************************************************)
(* The order of hits, and the newest of a set.                             *)
(***************************************************************************)

\* Hits are ordered, and no two alike.
LEMMA Order ==
  /\ \A a \in Hit : ~Newer(a, a)
  /\ \A a, b \in Hit : a = b \/ Newer(a, b) \/ Newer(b, a)
  /\ \A a, b, c \in Hit : Newer(a, b) /\ Newer(b, c) => Newer(a, c)
<1>1. \A a \in Hit : a.time \in Nat /\ a.session \in Nat /\ a.sequence \in Nat
  BY SearchAssumption DEF Hit
<1>2. \A a, b \in Hit : a.time = b.time /\ a.session = b.session /\ a.sequence = b.sequence => a = b
  BY DEF Hit
<1> QED BY <1>1, <1>2 DEF Newer

\* A finite set of hits has an oldest and a newest one.
LEMMA Extremes ==
  ASSUME NEW S \in SUBSET Hit, IsFiniteSet(S), S # {}
  PROVE  /\ \E h \in S : \A g \in S \ {h} : Newer(g, h)
         /\ \E h \in S : \A g \in S \ {h} : Newer(h, g)
<1>1. IsWellFoundedOn(StrictSubsetOrdering(S), FiniteSubsetsOf(S))
  BY FS_StrictSubsetOrderingWellFounded
<1> DEFINE Above(h) == {g \in S : Newer(g, h)}
           Under(h) == {g \in S : Newer(h, g)}
           Aboves == {Above(h) : h \in S}
           Unders == {Under(h) : h \in S}
<1>2. \A T \in SUBSET S : IsFiniteSet(T)
  BY FS_Subset
<1>3. /\ Aboves \subseteq FiniteSubsetsOf(S) /\ Aboves # {}
      /\ Unders \subseteq FiniteSubsetsOf(S) /\ Unders # {}
  BY <1>2 DEF FiniteSubsetsOf
<1>4. \E U \in Aboves : \A V \in Aboves : ~(<<V, U>> \in StrictSubsetOrdering(S))
  <2> HIDE DEF Aboves
  <2> QED BY <1>1, <1>3, WFMin
<1>5. \E U \in Unders : \A V \in Unders : ~(<<V, U>> \in StrictSubsetOrdering(S))
  <2> HIDE DEF Unders
  <2> QED BY <1>1, <1>3, WFMin
<1>6. PICK m \in S : \A V \in Aboves : ~(<<V, Above(m)>> \in StrictSubsetOrdering(S))
  BY <1>4
<1>7. PICK o \in S : \A V \in Unders : ~(<<V, Under(o)>> \in StrictSubsetOrdering(S))
  BY <1>5
<1>8. ASSUME NEW g \in S, Newer(g, m) PROVE FALSE
  <2>1. Above(g) \subseteq Above(m)
    BY <1>8, Order
  <2>2. g \in Above(m) /\ g \notin Above(g)
    BY <1>8, Order
  <2>3. <<Above(g), Above(m)>> \in StrictSubsetOrdering(S)
    BY <2>1, <2>2 DEF StrictSubsetOrdering
  <2> QED BY <1>6, <2>3
<1>9. ASSUME NEW g \in S, Newer(o, g) PROVE FALSE
  <2>1. Under(g) \subseteq Under(o)
    BY <1>9, Order
  <2>2. g \in Under(o) /\ g \notin Under(g)
    BY <1>9, Order
  <2>3. <<Under(g), Under(o)>> \in StrictSubsetOrdering(S)
    BY <2>1, <2>2 DEF StrictSubsetOrdering
  <2> QED BY <1>7, <2>3
<1>10. \A g \in S \ {m} : Newer(m, g)
  BY <1>8, Order
<1>11. \A g \in S \ {o} : Newer(g, o)
  BY <1>9, Order
<1> QED BY <1>10, <1>11

\* Oldest chooses the oldest.
LEMMA OldestIs ==
  ASSUME NEW S \in SUBSET Hit, IsFiniteSet(S), S # {}
  PROVE  Oldest(S) \in S /\ \A g \in S : g = Oldest(S) \/ Newer(g, Oldest(S))
<1>1. \E h \in S : \A g \in S \ {h} : Newer(g, h)
  BY Extremes
<1> QED BY <1>1 DEF Oldest

\* How many are newer than a hit: a number, which falls as hits get newer.
LEMMA Ranks ==
  ASSUME NEW S \in SUBSET Hit, IsFiniteSet(S)
  PROVE  /\ \A h : IsFiniteSet({g \in S : Newer(g, h)}) /\ Cardinality({g \in S : Newer(g, h)}) \in Nat
         /\ \A h, k \in Hit : Newer(h, k) =>
              Cardinality({g \in S : Newer(g, h)}) <= Cardinality({g \in S : Newer(g, k)})
<1>1. \A T \in SUBSET S : IsFiniteSet(T) /\ Cardinality(T) \in Nat
  BY FS_Subset, FS_CardinalityType
<1>2. \A T, U \in SUBSET S : T \subseteq U => Cardinality(T) <= Cardinality(U)
  BY <1>1, FS_Subset
<1>3. \A h : {g \in S : Newer(g, h)} \in SUBSET S
  OBVIOUS
<1>4. ASSUME NEW h \in Hit, NEW k \in Hit, Newer(h, k)
      PROVE  {g \in S : Newer(g, h)} \subseteq {g \in S : Newer(g, k)}
  BY <1>4, Order
<1> QED BY <1>1, <1>2, <1>3, <1>4

\* What Newest leaves out is older than all it takes, and there is more than it may take.
LEMMA NewestDrops ==
  ASSUME NEW S \in SUBSET Hit, IsFiniteSet(S), NEW n \in Nat, NEW h \in S, h \notin Newest(S, n)
  PROVE  n < Cardinality(S) /\ \A g \in Newest(S, n) : Newer(g, h)
<1> DEFINE Above(g) == {x \in S : Newer(x, g)}
<1>1. \A g \in Hit : IsFiniteSet(Above(g)) /\ Cardinality(Above(g)) \in Nat
  BY Ranks
<1>2. Cardinality(Above(h)) >= n
  BY <1>1 DEF Newest
<1>3. Cardinality(Above(h)) < Cardinality(S)
  <2>1. h \notin Above(h)
    BY Order
  <2>2. Cardinality(Above(h) \cup {h}) = Cardinality(Above(h)) + 1
    BY <1>1, <2>1, FS_AddElement
  <2>3. Above(h) \cup {h} \subseteq S
    OBVIOUS
  <2>4. Cardinality(Above(h) \cup {h}) <= Cardinality(S) /\ Cardinality(S) \in Nat
    BY <2>3, FS_Subset, FS_CardinalityType
  <2> HIDE DEF Above
  <2> QED BY <1>1, <2>2, <2>4
<1>4. ASSUME NEW g \in Newest(S, n) PROVE Newer(g, h)
  <2>1. g \in S /\ Cardinality(Above(g)) < n
    BY DEF Newest
  <2>2. Newer(h, g) => Cardinality(Above(h)) <= Cardinality(Above(g))
    BY <2>1, Ranks
  <2> HIDE DEF Above
  <2>3. ~Newer(h, g)
    BY <1>1, <1>2, <2>1, <2>2
  <2> QED BY <2>1, <2>3, Order
<1>5. Cardinality(S) \in Nat
  BY FS_CardinalityType
<1> HIDE DEF Above
<1> QED BY <1>1, <1>2, <1>3, <1>4, <1>5

\* Newest takes as many as it may, if there are as many.
LEMMA NewestFull ==
  ASSUME NEW S \in SUBSET Hit, IsFiniteSet(S)
  PROVE  \A n \in Nat : n <= Cardinality(S) => n <= Cardinality(Newest(S, n))
<1> DEFINE Good == {n \in Nat : n <= Cardinality(S) => n <= Cardinality(Newest(S, n))}
<1>1. \A T \in SUBSET S : IsFiniteSet(T) /\ Cardinality(T) \in Nat
  BY FS_Subset, FS_CardinalityType
<1>2. \A T, U \in SUBSET S : T \subseteq U => Cardinality(T) <= Cardinality(U)
  BY <1>1, FS_Subset
<1>3. \A n : Newest(S, n) \in SUBSET S
  BY DEF Newest
<1>4. 0 \in Good
  <2>1. Cardinality(Newest(S, 0)) \in Nat
    BY <1>1, <1>3
  <2> QED BY <2>1
<1>5. ASSUME NEW n \in Good PROVE n + 1 \in Good
  <2> SUFFICES ASSUME n + 1 <= Cardinality(S) PROVE n + 1 <= Cardinality(Newest(S, n + 1))
    OBVIOUS
  <2>1. n \in Nat /\ Cardinality(S) \in Nat /\ n <= Cardinality(Newest(S, n))
    BY <1>1
  <2>2. Newest(S, n) \subseteq Newest(S, n + 1)
    <3> SUFFICES ASSUME NEW h \in Newest(S, n) PROVE h \in Newest(S, n + 1)
      OBVIOUS
    <3> DEFINE Above == {g \in S : Newer(g, h)}
    <3>1. h \in S /\ Cardinality(Above) < n
      BY DEF Newest
    <3>2. Cardinality(Above) \in Nat
      BY Ranks
    <3>3. Cardinality(Above) < n + 1
      <4> HIDE DEF Above
      <4> QED BY <2>1, <3>1, <3>2
    <3> QED BY <3>1, <3>3 DEF Newest
  <2>3. CASE n + 1 <= Cardinality(Newest(S, n))
    <3>1. Cardinality(Newest(S, n)) <= Cardinality(Newest(S, n + 1))
      BY <1>2, <1>3, <2>2
    <3>2. Cardinality(Newest(S, n)) \in Nat /\ Cardinality(Newest(S, n + 1)) \in Nat
      BY <1>1, <1>3
    <3> QED BY <2>1, <2>3, <3>1, <3>2
  <2>4. CASE Cardinality(Newest(S, n)) = n
    <3> DEFINE Rest == S \ Newest(S, n)
    <3>1. Rest \in SUBSET Hit /\ IsFiniteSet(Rest) /\ Rest # {}
      <4>1. Newest(S, n) # S
        BY <2>1, <2>4
      <4> QED BY <1>1, <1>3, <4>1
    <3>2. PICK m \in Rest : \A g \in Rest \ {m} : Newer(m, g)
      <4> HIDE DEF Rest
      <4> QED BY <3>1, Extremes
    <3> DEFINE Above == {g \in S : Newer(g, m)}
    <3>3. Above \subseteq Newest(S, n)
      BY <3>2, Order
    <3>4. Cardinality(Above) <= n /\ Cardinality(Above) \in Nat
      BY <1>1, <1>2, <1>3, <2>4, <3>3
    <3>5. m \in Newest(S, n + 1)
      BY <2>1, <3>4 DEF Newest
    <3>6. Cardinality(Newest(S, n) \cup {m}) = n + 1
      BY <1>1, <1>3, <2>4, FS_AddElement
    <3>7. Newest(S, n) \cup {m} \subseteq Newest(S, n + 1)
      BY <2>2, <3>5
    <3>8. Cardinality(Newest(S, n) \cup {m}) <= Cardinality(Newest(S, n + 1))
      <4>1. Newest(S, n) \cup {m} \in SUBSET S
        BY <1>3
      <4> QED BY <1>2, <1>3, <3>7, <4>1
    <3> QED BY <3>6, <3>8
  <2>5. Cardinality(Newest(S, n)) \in Nat
    BY <1>1, <1>3
  <2> QED BY <2>1, <2>3, <2>4, <2>5
<1>6. Good = Nat
  <2>1. Good \in SUBSET Nat
    OBVIOUS
  <2> HIDE DEF Good
  <2> QED BY <1>4, <1>5, <2>1, Induction
<1> QED BY <1>6

\* If a page's worth is newer than a hit, then all that Newest takes is.
LEMMA NewestCovers ==
  ASSUME NEW S \in SUBSET Hit, IsFiniteSet(S), NEW n \in Nat, NEW T \in SUBSET S, n <= Cardinality(T),
         NEW h \in Hit, \A g \in T : Newer(g, h)
  PROVE  \A g \in Newest(S, n) : Newer(g, h)
<1> SUFFICES ASSUME NEW g \in Newest(S, n), ~Newer(g, h) PROVE FALSE
  OBVIOUS
<1> DEFINE Above == {x \in S : Newer(x, g)}
<1>1. g \in S /\ Cardinality(Above) < n
  BY DEF Newest
<1>2. g = h \/ Newer(h, g)
  BY <1>1, Order
<1>3. T \subseteq Above
  BY <1>1, <1>2, Order
<1>4. IsFiniteSet(Above) /\ Cardinality(Above) \in Nat
  BY Ranks
<1>5. Cardinality(T) <= Cardinality(Above) /\ Cardinality(T) \in Nat
  BY <1>3, <1>4, FS_Subset, FS_CardinalityType
<1> QED BY <1>1, <1>4, <1>5

(***************************************************************************)
(* Branches and what a search freezes of them.                             *)
(***************************************************************************)

\* What the messages of a branch have.
LEMMA Messages ==
  ASSUME NEW b \in Seq(MessageRecord)
  PROVE  /\ DOMAIN b = 1..Len(b) /\ Len(b) \in Nat
         /\ \A i \in DOMAIN b : b[i].id \in Nat /\ b[i].id # 0 /\ b[i].time \in Nat
<1>1. \A i \in DOMAIN b : b[i] \in MessageRecord
  OBVIOUS
<1> QED BY <1>1 DEF MessageRecord

\* Two branches that agree up to a place have the same beginning.
LEMMA SameBeginning ==
  ASSUME NEW b \in Seq(MessageRecord), NEW c \in Seq(MessageRecord), NEW i \in 1..Len(b), i <= Len(c),
         \A j \in 1..i : b[j] = c[j]
  PROVE  SubSeq(b, 1, i) = SubSeq(c, 1, i)
<1>1. /\ SubSeq(b, 1, i) \in Seq(MessageRecord) /\ Len(SubSeq(b, 1, i)) = i
      /\ \A j \in 1..i : SubSeq(b, 1, i)[j] = b[j]
  BY SubSeqProperties
<1>2. /\ SubSeq(c, 1, i) \in Seq(MessageRecord) /\ Len(SubSeq(c, 1, i)) = i
      /\ \A j \in 1..i : SubSeq(c, 1, i)[j] = c[j]
  BY SubSeqProperties
<1> QED BY <1>1, <1>2, SeqEqual

\* Matches are hits of the session, as many at most as there are messages.
LEMMA MatchesAre ==
  ASSUME NEW s \in Session, NEW b \in Seq(MessageRecord), Len(b) <= MaxBranch
  PROVE  /\ Matches(s, b) \in SUBSET Hit /\ IsFiniteSet(Matches(s, b))
         /\ \A h \in Matches(s, b) : h.session = s /\ h.sequence < MaxBranch
<1> DEFINE hit(i) == [time |-> b[i].time, session |-> s, sequence |-> i - 1]
           f == [i \in 1..Len(b) |-> hit(i)]
<1>1. ASSUME NEW i \in 1..Len(b)
      PROVE  hit(i) \in Hit /\ hit(i).session = s /\ hit(i).sequence < MaxBranch
  <2>1. b[i].time \in Nat /\ i - 1 \in Nat /\ i - 1 < MaxBranch /\ MaxBranch \in Nat
    BY Messages, SearchAssumption
  <2> QED BY <2>1 DEF Hit
<1>2. Matches(s, b) \subseteq {f[i] : i \in 1..Len(b)}
  BY DEF Matches
<1>3. IsFiniteSet(1..Len(b))
  BY FS_Interval
<1>4. IsFiniteSet({f[i] : i \in 1..Len(b)})
  <2>1. DOMAIN f = 1..Len(b) /\ f = [i \in 1..Len(b) |-> f[i]]
    OBVIOUS
  <2> HIDE DEF f
  <2>2. f \in Surjection(1..Len(b), {f[i] : i \in 1..Len(b)})
    BY <2>1 DEF Surjection
  <2> QED BY <1>3, <2>2, FS_Surjection
<1>5. IsFiniteSet(Matches(s, b))
  BY <1>2, <1>4, FS_Subset
<1>6. \A h \in Matches(s, b) : \E i \in 1..Len(b) : h = hit(i)
  BY DEF Matches
<1> HIDE DEF hit, f
<1> QED BY <1>1, <1>5, <1>6

\* An empty branch has none.
LEMMA NoMatches == \A s : Matches(s, <<>>) = {}
BY DEF Matches

\* A leaf on the branch has one place there, and the snapshot ends with it.
LEMMA SnapshotIs ==
  ASSUME SearchTypeOK, BranchesValid, NEW s \in Session, NEW i \in DOMAIN branch[s]
  PROVE  SnapshotBranch(s, branch[s][i].id) = SubSeq(branch[s], 1, i)
<1> DEFINE b == branch[s]
<1>1. b \in Seq(MessageRecord) /\ b[i] \in MessageRecord
  BY DEF SearchTypeOK
<1>2. b[i].id # Unfrozen
  BY <1>1 DEF MessageRecord, Unfrozen
<1>3. ASSUME NEW j \in DOMAIN b, b[j].id = b[i].id PROVE j = i
  <2>1. \A k \in DOMAIN b : b[k].id \in Nat
    BY <1>1, Messages
  <2>2. \A k, l \in DOMAIN b : k < l => b[k].id < b[l].id
    BY DEF BranchesValid
  <2>3. i \in DOMAIN b /\ j \in DOMAIN b /\ i \in Nat /\ j \in Nat
    BY <1>1
  <2> HIDE DEF b
  <2> QED BY <1>3, <2>1, <2>2, <2>3
<1>4. (CHOOSE j \in DOMAIN b : b[j].id = b[i].id) = i
  BY <1>3
<1> QED BY <1>2, <1>4 DEF SnapshotBranch

\* A boundary says the same in the terms of a session as it says to all.
LEMMA BoundaryIs ==
  ASSUME NEW b \in Hit, NEW s \in Session, NEW h \in Hit, h.session = s, h.sequence < MaxBranch
  PROVE  Below(h, PerSessionBefore(b, s)) <=> Newer(b, h)
<1>1. /\ b.session \in Nat /\ s \in Nat /\ b.time \in Nat /\ h.time \in Nat
      /\ b.sequence \in Nat /\ h.sequence \in Nat /\ MaxBranch \in Nat
  BY SearchAssumption DEF Hit
<1>2. CASE s = b.session
  BY <1>1, <1>2 DEF Below, PerSessionBefore, Newer
<1>3. CASE s > b.session
  BY <1>1, <1>3 DEF Below, PerSessionBefore, Newer
<1>4. CASE s < b.session
  BY <1>1, <1>4 DEF Below, PerSessionBefore, Newer, Beyond
<1> QED BY <1>1, <1>2, <1>3, <1>4

\* What is frozen stays as it was while a branch is appended to, and cut off at the end:
\* its beginning stays, and new messages have new numbers.
LEMMA FrozenStays ==
  ASSUME SearchTypeOK, SearchTypeOK', BranchesValid, BranchesValid', NEW s \in Session, minted[s] <= minted'[s],
         \A i \in DOMAIN branch'[s] :
           \/ i \in DOMAIN branch[s] /\ branch'[s][i] = branch[s][i]
           \/ branch'[s][i].id > minted[s],
         NEW leaf \in Nat, NEW all, Frozen(s, leaf, all)
  PROVE  Frozen(s, leaf, all)'
<1> DEFINE b == branch[s]
           c == branch'[s]
<1>1. b \in Seq(MessageRecord) /\ c \in Seq(MessageRecord) /\ minted[s] \in Nat /\ minted'[s] \in Nat
  BY DEF SearchTypeOK
<1>2. leaf <= minted'[s]
  BY <1>1 DEF Frozen
<1>3. ASSUME OnBranch(c, leaf) PROVE Matches(s, SnapshotBranch(s, leaf)') = all
  <2>1. PICK i \in DOMAIN c : c[i].id = leaf
    BY <1>3 DEF OnBranch
  <2>2. ~(c[i].id > minted[s])
    BY <1>1, <2>1 DEF Frozen
  <2>3. i \in DOMAIN b /\ c[i] = b[i]
    BY <2>2
  <2>4. \A j \in 1..i : b[j] = c[j]
    <3> SUFFICES ASSUME NEW j \in 1..i, j < i PROVE b[j] = c[j]
      BY <1>1, <2>3
    <3>1. j \in DOMAIN c /\ j \in Nat /\ i \in Nat
      BY <1>1, <2>1
    <3>2. c[j].id < c[i].id
      BY <3>1 DEF BranchesValid
    <3>3. c[j].id \in Nat /\ c[i].id \in Nat
      BY <1>1, <2>1, <3>1, Messages
    <3>4. ~(c[j].id > minted[s])
      BY <1>1, <2>2, <3>2, <3>3
    <3> QED BY <3>1, <3>4
  <2>5. SnapshotBranch(s, leaf) = SubSeq(b, 1, i)
    BY <2>1, <2>3, SnapshotIs
  <2>6. SnapshotBranch(s, leaf)' = SubSeq(c, 1, i)
    <3>1. ASSUME NEW j \in DOMAIN c, c[j].id = leaf PROVE j = i
      <4>1. \A k \in DOMAIN c : c[k].id \in Nat
        BY <1>1, Messages
      <4>2. \A k, l \in DOMAIN c : k < l => c[k].id < c[l].id
        BY DEF BranchesValid
      <4>3. i \in Nat /\ j \in Nat
        BY <1>1
      <4> HIDE DEF c
      <4> QED BY <2>1, <3>1, <4>1, <4>2, <4>3
    <3>2. (CHOOSE j \in DOMAIN c : c[j].id = leaf) = i
      BY <2>1, <3>1
    <3>3. leaf # Unfrozen
      BY DEF Unfrozen
    <3> QED BY <3>2, <3>3 DEF SnapshotBranch
  <2>7. SubSeq(b, 1, i) = SubSeq(c, 1, i)
    BY <1>1, <2>1, <2>3, <2>4, SameBeginning
  <2>8. OnBranch(b, leaf)
    BY <2>1, <2>3 DEF OnBranch
  <2> QED BY <2>5, <2>6, <2>7, <2>8 DEF Frozen
<1> QED BY <1>2, <1>3 DEF Frozen

(***************************************************************************)
(* A worker's page, and its merge into the hub's.                          *)
(***************************************************************************)

\* A full page is an answer.
LEMMA FullPage ==
  ASSUME NEW hits \in SUBSET Hit, NEW leaf \in Nat, NEW all \in SUBSET Hit
  PROVE  Reply("page", hits, TRUE, leaf, all) \in ReplyRecord
BY DEF Reply, ReplyRecord

\* So is a last one.
LEMMA LastPage ==
  ASSUME NEW hits \in SUBSET Hit, NEW leaf \in Nat, NEW all \in SUBSET Hit
  PROVE  Reply("page", hits, FALSE, leaf, all) \in ReplyRecord
BY DEF Reply, ReplyRecord

\* No answer, and those that are no page.
LEMMA NoPages ==
  \A x \in {NoReply, LostReply, RewoundReply} : x \in ReplyRecord /\ x.t # "page"
<1>1. NullLeaf \in Nat /\ {} \in SUBSET Hit /\ FALSE \in BOOLEAN
  BY DEF NullLeaf
<1>2. NoReply \in ReplyRecord /\ NoReply.t # "page"
  BY <1>1 DEF NoReply, Reply, ReplyRecord
<1>3. LostReply \in ReplyRecord /\ LostReply.t # "page"
  BY <1>1 DEF LostReply, Reply, ReplyRecord
<1>4. RewoundReply \in ReplyRecord /\ RewoundReply.t # "page"
  BY <1>1 DEF RewoundReply, Reply, ReplyRecord
<1> QED BY <1>2, <1>3, <1>4

\* The matches below the boundary, as the hub says it.
AllBelow(all, before) == {h \in all : \A b \in before : Newer(b, h)}

\* A worker answers with the newest matches below the boundary, of the branch the search
\* froze, or of the one it freezes by that.
LEMMA AnswerIs ==
  ASSUME SearchTypeOK, BranchesValid, NEW s \in Session, NEW leaf \in Nat \cup {Unfrozen}, NEW all \in SUBSET Hit,
         leaf # Unfrozen => Frozen(s, leaf, all), NEW before \in SUBSET Hit,
         NEW bounds, \A b \in before : PerSessionBefore(b, s) \in bounds,
         \A y \in bounds : \E b \in before : y = PerSessionBefore(b, s),
         NEW x, x = Answer(s, leaf, bounds)
  PROVE  /\ x \in ReplyRecord /\ x.t \in {"page", "rewound"}
         /\ x.t = "page" =>
              /\ Frozen(s, x.leaf, x.all)
              /\ leaf # Unfrozen => x.leaf = leaf /\ x.all = all
              /\ x.hits = Newest(AllBelow(x.all, before), PageLimit)
              /\ x.more <=> Cardinality(AllBelow(x.all, before)) > PageLimit
<1> DEFINE b == branch[s]
<1>1. b \in Seq(MessageRecord) /\ Len(b) <= MaxBranch /\ minted[s] \in Nat /\ PageLimit \in Nat
  BY SearchAssumption DEF SearchTypeOK, BranchesValid
<1>2. CASE leaf = NullLeaf
  <2>1. x = Reply("page", {}, FALSE, NullLeaf, {}) /\ NullLeaf = 0
    BY <1>2 DEF Answer, NullLeaf
  <2>2. leaf # Unfrozen
    BY <1>2 DEF NullLeaf, Unfrozen
  <2>3. all = {}
    BY <1>2, <2>2 DEF Frozen
  <2>4. ~OnBranch(b, NullLeaf)
    BY <1>1, <2>1, Messages DEF OnBranch
  <2>5. IsFiniteSet({}) /\ Cardinality({}) = 0
    BY FS_EmptySet
  <2>6. Frozen(s, NullLeaf, {})
    BY <1>1, <2>1, <2>4, <2>5 DEF Frozen
  <2>7. Newest({}, PageLimit) = {}
    BY DEF Newest
  <2>8. x \in ReplyRecord /\ x.t = "page" /\ x.hits = {} /\ ~x.more /\ x.leaf = NullLeaf /\ x.all = {}
    <3>1. PICK H \in SUBSET Hit : H = {}
      OBVIOUS
    <3>2. x = Reply("page", H, FALSE, NullLeaf, H) /\ NullLeaf \in Nat
      BY <2>1, <3>1
    <3>3. x.t = "page" /\ x.hits = H /\ ~x.more /\ x.leaf = NullLeaf /\ x.all = H
      BY <3>2 DEF Reply
    <3>4. x \in ReplyRecord
      <4>1. H \in SUBSET Hit
        OBVIOUS
      <4> QED BY <3>2, <4>1, LastPage, Zenon
    <3> QED BY <3>1, <3>3, <3>4
  <2>9. AllBelow(x.all, before) = {}
    BY <2>8 DEF AllBelow
  <2>10. ~(0 > PageLimit)
    BY <1>1
  <2> QED BY <1>2, <2>3, <2>5, <2>6, <2>7, <2>8, <2>9, <2>10
<1>3. CASE leaf # NullLeaf /\ (leaf = Unfrozen \/ OnBranch(b, leaf))
  <2> DEFINE c == SnapshotBranch(s, leaf)
             to == IF leaf = Unfrozen THEN LeafOf(c) ELSE leaf
             M == Matches(s, c)
             below == {h \in M : \A d \in before : Newer(d, h)}
  <2>1. /\ c \in Seq(MessageRecord) /\ Len(c) <= MaxBranch
        /\ to \in Nat /\ to <= minted[s] /\ (to = NullLeaf => M = {})
        /\ OnBranch(b, to) => Matches(s, SnapshotBranch(s, to)) = M
        /\ leaf # Unfrozen => to = leaf /\ M = all
    <3>1. CASE leaf = Unfrozen /\ b = <<>>
      <4>1. c = b /\ to = NullLeaf /\ NullLeaf = 0
        BY <3>1 DEF SnapshotBranch, LeafOf, NullLeaf
      <4>2. M = {}
        BY <3>1, <4>1, NoMatches
      <4>3. ~OnBranch(b, to)
        BY <3>1 DEF OnBranch
      <4> QED BY <1>1, <3>1, <4>1, <4>2, <4>3
    <3>2. CASE leaf = Unfrozen /\ b # <<>>
      <4> DEFINE n == Len(b)
      <4>1. n \in DOMAIN b /\ b[n] \in MessageRecord /\ b[n].id \in Nat /\ b[n].id # 0
        BY <1>1, <3>2, Messages
      <4>2. c = b /\ to = b[n].id
        BY <3>2 DEF SnapshotBranch, LeafOf
      <4>3. SnapshotBranch(s, to) = SubSeq(b, 1, n)
        BY <4>1, <4>2, SnapshotIs
      <4>4. SubSeq(b, 1, n) = b
        BY <1>1, SubSeqFull
      <4>5. to <= minted[s]
        BY <4>1, <4>2 DEF BranchesValid
      <4> QED BY <1>1, <3>2, <4>1, <4>2, <4>3, <4>4, <4>5 DEF NullLeaf
    <3>3. CASE leaf # Unfrozen
      <4>1. PICK i \in DOMAIN b : b[i].id = leaf
        BY <1>3, <3>3 DEF OnBranch
      <4>2. c = SubSeq(b, 1, i) /\ i \in 1..Len(b)
        BY <1>1, <4>1, SnapshotIs
      <4>3. c \in Seq(MessageRecord) /\ Len(c) = i
        <5>1. 1 \in Int /\ i \in Int /\ 1 <= i /\ \A j \in 1..i : b[j] \in MessageRecord
          BY <1>1, <4>2
        <5> HIDE DEF b, c
        <5>2. SubSeq(b, 1, i) \in Seq(MessageRecord) /\ Len(SubSeq(b, 1, i)) = i - 1 + 1
          BY <5>1, SubSeqProperties
        <5> QED BY <4>2, <5>1, <5>2
      <4>4. i <= MaxBranch
        BY <1>1, <4>2, SearchAssumption
      <4>5. to = leaf
        BY <3>3
      <4>6. OnBranch(b, leaf) /\ leaf \in Nat
        BY <1>3, <3>3
      <4>7. M = all
        BY <3>3, <4>5, <4>6 DEF Frozen
      <4>8. Frozen(s, leaf, all)
        BY <3>3
      <4>9. leaf <= minted[s] /\ (leaf = NullLeaf => all = {}) /\ Matches(s, SnapshotBranch(s, leaf)) = all
        BY <4>6, <4>8 DEF Frozen
      <4> HIDE DEF c, b, M
      <4> QED BY <1>1, <4>3, <4>4, <4>5, <4>6, <4>7, <4>9
    <3> QED BY <3>1, <3>2, <3>3
  <2>2. M \in SUBSET Hit /\ IsFiniteSet(M) /\ \A h \in M : h.session = s /\ h.sequence < MaxBranch
    BY <2>1, MatchesAre
  <2>3. Frozen(s, to, M)
    BY <2>1, <2>2 DEF Frozen
  <2>4. x = WorkerPage(s, leaf, bounds)
    BY <1>3 DEF Answer
  <2>5. below = {h \in M : bounds = {} \/ \A y \in bounds : Below(h, y)}
    <3>1. \A h \in M : \A d \in before : Below(h, PerSessionBefore(d, s)) <=> Newer(d, h)
      BY <2>2, BoundaryIs
    <3> HIDE DEF M
    <3> QED BY <3>1
  <2>6. x = Reply("page", Newest(below, PageLimit), Cardinality(below) > PageLimit, to, M)
    BY <2>4, <2>5 DEF WorkerPage
  <2>7. Newest(below, PageLimit) \in SUBSET Hit
    BY <2>2 DEF Newest
  <2> HIDE DEF M, to, c
  <2>8. /\ x \in ReplyRecord /\ x.t = "page" /\ x.hits = Newest(below, PageLimit)
        /\ (x.more <=> Cardinality(below) > PageLimit)
        /\ x.leaf = to /\ x.all = M
    <3> HIDE DEF below
    <3>1. M \in SUBSET Hit /\ to \in Nat
      BY <2>1, <2>2
    <3>2. PICK H \in SUBSET Hit : H = Newest(below, PageLimit)
      BY <2>7
    <3>3. ASSUME Cardinality(below) > PageLimit PROVE x = Reply("page", H, TRUE, to, M)
      BY <2>6, <3>2, <3>3
    <3>4. ASSUME ~(Cardinality(below) > PageLimit) PROVE x = Reply("page", H, FALSE, to, M)
      <4>1. (Cardinality(below) > PageLimit) = FALSE
        BY <3>4
      <4> QED BY <2>6, <3>2, <4>1
    <3> DEFINE more == Cardinality(below) > PageLimit
    <3> HIDE DEF more, below
    <3>5. x.t = "page" /\ x.hits = H /\ x.leaf = to /\ x.all = M /\ (more <=> x.more)
      <4>1. ASSUME more PROVE x.t = "page" /\ x.hits = H /\ x.leaf = to /\ x.all = M /\ x.more
        <5>1. x = Reply("page", H, TRUE, to, M)
          BY <3>3, <4>1 DEF more
        <5> QED BY <5>1 DEF Reply
      <4>2. ASSUME ~more PROVE x.t = "page" /\ x.hits = H /\ x.leaf = to /\ x.all = M /\ ~x.more
        <5>1. x = Reply("page", H, FALSE, to, M)
          BY <3>4, <4>2 DEF more
        <5> QED BY <5>1 DEF Reply
      <4> QED BY <4>1, <4>2
    <3>6. x \in ReplyRecord
      <4>1. ASSUME more PROVE x \in ReplyRecord
        <5>1. x = Reply("page", H, TRUE, to, M)
          BY <3>3, <4>1 DEF more
        <5> QED BY <3>1, <5>1, FullPage, Zenon
      <4>2. ASSUME ~more PROVE x \in ReplyRecord
        <5>1. x = Reply("page", H, FALSE, to, M)
          BY <3>4, <4>2 DEF more
        <5> QED BY <3>1, <5>1, LastPage, Zenon
      <4> QED BY <4>1, <4>2
    <3> QED BY <3>2, <3>5, <3>6 DEF more
  <2>9. AllBelow(x.all, before) = below
    BY <2>8 DEF AllBelow
  <2> HIDE DEF below
  <2> QED BY <2>1, <2>3, <2>8, <2>9
<1>4. CASE leaf # NullLeaf /\ leaf # Unfrozen /\ ~OnBranch(b, leaf)
  <2>1. x = RewoundReply /\ x.t = "rewound"
    BY <1>4 DEF Answer, RewoundReply, Reply
  <2> QED BY <2>1, NoPages
<1> QED BY <1>2, <1>3, <1>4

\* A merge keeps what was covered: a hit is taken, or dropped for a page's worth of newer
\* ones; and what had a page's worth above it still has.
LEMMA MergeCovers ==
  ASSUME NEW A \in SUBSET Hit, IsFiniteSet(A), NEW B \in SUBSET Hit, IsFiniteSet(B), NEW n \in Nat, NEW h \in Hit,
         \/ h \in A \cup B
         \/ \E T \in {A, B} : Cardinality(T) >= n /\ \A g \in T : Newer(g, h)
  PROVE  LET U == A \cup B
             M == Newest(U, n)
         IN  h \in M \/ (/\ Cardinality(M) >= n /\ \A g \in M : Newer(g, h)
                         /\ h \in U => Cardinality(U) > n)
<1> DEFINE U == A \cup B
           M == Newest(U, n)
<1>1. U \in SUBSET Hit /\ IsFiniteSet(U) /\ Cardinality(U) \in Nat /\ Cardinality(A) \in Nat /\ Cardinality(B) \in Nat
  BY FS_Union, FS_CardinalityType
<1>2. M \subseteq U /\ IsFiniteSet(M) /\ Cardinality(M) \in Nat
  <2>1. M \subseteq U
    BY DEF Newest
  <2> HIDE DEF M
  <2> QED BY <1>1, <2>1, FS_Subset, FS_CardinalityType
<1>3. Cardinality(U) >= n => Cardinality(M) >= n
  <2> HIDE DEF U
  <2> QED BY <1>1, <1>2, NewestFull
<1>4. CASE h \in U \ M
  <2>1. n < Cardinality(U) /\ \A g \in M : Newer(g, h)
    <3> HIDE DEF U
    <3> QED BY <1>1, <1>4, NewestDrops
  <2> HIDE DEF U, M
  <2> QED BY <1>1, <1>2, <1>3, <1>4, <2>1 DEF U, M
<1>5. CASE h \notin U
  <2>1. PICK T \in {A, B} : Cardinality(T) >= n /\ \A g \in T : Newer(g, h)
    BY <1>5
  <2>2. T \in SUBSET U /\ Cardinality(T) \in Nat
    BY <1>1
  <2>3. n <= Cardinality(T) /\ Cardinality(T) <= Cardinality(U)
    <3>1. n <= Cardinality(T)
      BY <2>1, <2>2
    <3>2. Cardinality(T) <= Cardinality(U)
      <4> HIDE DEF U
      <4> QED BY <1>1, <2>2, FS_Subset
    <3> QED BY <3>1, <3>2
  <2>4. \A g \in M : Newer(g, h)
    <3> HIDE DEF U
    <3> QED BY <1>1, <2>1, <2>2, <2>3, NewestCovers
  <2>5. Cardinality(U) >= n
    BY <1>1, <2>2, <2>3
  <2> QED BY <1>3, <1>5, <2>4, <2>5
<1> QED BY <1>4, <1>5

(***************************************************************************)
(* The cursor store.                                                       *)
(***************************************************************************)

\* The participants of some entries are as many as those of a part of them and of the rest.
LEMMA SizesAddUp ==
  ASSUME NEW store, NEW at, IsFiniteSet(at)
  PROVE  /\ Sizes(store, at) \in Nat
         /\ \A part \in SUBSET at : Sizes(store, at) = Sizes(store, part) + Sizes(store, at \ part)
<1> DEFINE Takers(part) == {e \in part \X Session : store[e[1]].part[e[2]].st # "outside"}
<1>1. \A part \in SUBSET at : IsFiniteSet(Takers(part)) /\ Cardinality(Takers(part)) \in Nat
  <2> SUFFICES ASSUME NEW part \in SUBSET at PROVE IsFiniteSet(Takers(part)) /\ Cardinality(Takers(part)) \in Nat
    OBVIOUS
  <2>1. IsFiniteSet(part \X Session)
    BY SearchAssumption, FS_Subset, FS_Product
  <2>2. Takers(part) \in SUBSET (part \X Session)
    OBVIOUS
  <2> HIDE DEF Takers
  <2> QED BY <2>1, <2>2, FS_Subset, FS_CardinalityType
<1>2. ASSUME NEW part \in SUBSET at
      PROVE  Cardinality(Takers(at)) = Cardinality(Takers(part)) + Cardinality(Takers(at \ part))
  <2>1. Takers(at) = Takers(part) \cup Takers(at \ part) /\ Takers(part) \cap Takers(at \ part) = {}
    OBVIOUS
  <2>2. /\ IsFiniteSet(Takers(part)) /\ IsFiniteSet(Takers(at \ part))
        /\ Cardinality(Takers(part)) \in Nat /\ Cardinality(Takers(at \ part)) \in Nat
    BY <1>1
  <2>3. Cardinality({}) = 0
    BY FS_EmptySet
  <2> HIDE DEF Takers
  <2> DEFINE S == Takers(part)
             T == Takers(at \ part)
  <2> HIDE DEF S, T
  <2>4. Cardinality(S \cup T) = Cardinality(S) + Cardinality(T) - Cardinality(S \cap T)
    BY <2>2, FS_Union DEF S, T
  <2>5. S \cap T = {} /\ S \cup T = Takers(at) /\ Cardinality(S) \in Nat /\ Cardinality(T) \in Nat
    BY <2>1, <2>2 DEF S, T
  <2>6. Cardinality(Takers(at)) = Cardinality(S) + Cardinality(T)
    <3>1. Cardinality(S \cap T) = 0
      BY <2>3, <2>5, Zenon
    <3>2. Cardinality(S) \in Nat /\ Cardinality(T) \in Nat
      BY <2>5
    <3>3. Cardinality(S \cup T) = Cardinality(S) + Cardinality(T)
      BY <2>4, <3>1, <3>2
    <3> QED BY <2>5, <3>3, Zenon
  <2> QED BY <2>6 DEF S, T
<1>3. \A part : Sizes(store, part) = Cardinality(Takers(part))
  BY DEF Sizes
<1> HIDE DEF Takers
<1> QED BY <1>1, <1>2, <1>3

\* Entries have the same participants in any store.
LEMMA SizesAgree ==
  ASSUME NEW a, NEW b, NEW at, \A i \in at : a[i] = b[i]
  PROVE  Sizes(a, at) = Sizes(b, at)
<1>1. {e \in at \X Session : a[e[1]].part[e[2]].st # "outside"}
        = {e \in at \X Session : b[e[1]].part[e[2]].st # "outside"}
  OBVIOUS
<1> QED BY <1>1 DEF Sizes

\* And at any place.
LEMMA SizesMove ==
  ASSUME NEW a, NEW at, NEW b, NEW to, IsFiniteSet(to), NEW f \in Bijection(to, at),
         \A i \in to : b[i] = a[f[i]]
  PROVE  Sizes(b, to) = Sizes(a, at)
<1> DEFINE A == {e \in at \X Session : a[e[1]].part[e[2]].st # "outside"}
           B == {e \in to \X Session : b[e[1]].part[e[2]].st # "outside"}
           g == [e \in B |-> <<f[e[1]], e[2]>>]
<1>1. /\ f \in [to -> at] /\ \A i \in at : \E j \in to : f[j] = i
      /\ \A i, j \in to : f[i] = f[j] => i = j
  BY Fun_BijectionProperties, Fun_InjectionProperties, Fun_SurjectionProperties DEF IsInjective
<1>2. g \in [B -> A]
  BY <1>1
<1>3. ASSUME NEW d \in B, NEW e \in B, g[d] = g[e] PROVE d = e
  <2>1. d = <<d[1], d[2]>> /\ e = <<e[1], e[2]>> /\ d[1] \in to /\ e[1] \in to
    OBVIOUS
  <2>2. g[d] = <<f[d[1]], d[2]>> /\ g[e] = <<f[e[1]], e[2]>>
    OBVIOUS
  <2> HIDE DEF B, g
  <2>3. f[d[1]] = f[e[1]] /\ d[2] = e[2]
    <3>1. <<f[d[1]], d[2]>> = <<f[e[1]], e[2]>>
      BY <1>3, <2>2
    <3> QED BY <3>1
  <2>4. d[1] = e[1]
    BY <1>1, <2>1, <2>3
  <2> QED BY <2>1, <2>3, <2>4
<1>4. ASSUME NEW y \in A PROVE \E e \in B : g[e] = y
  <2>1. PICK j \in to : f[j] = y[1]
    BY <1>1
  <2>2. y = <<y[1], y[2]>> /\ y[2] \in Session /\ a[y[1]].part[y[2]].st # "outside"
    OBVIOUS
  <2>3. <<j, y[2]>> \in B
    BY <2>1, <2>2
  <2> QED BY <2>1, <2>2, <2>3
<1>5. IsFiniteSet(B)
  <2>1. IsFiniteSet(to \X Session)
    BY SearchAssumption, FS_Product
  <2>2. B \in SUBSET (to \X Session)
    OBVIOUS
  <2> HIDE DEF B
  <2> QED BY <2>1, <2>2, FS_Subset
<1> HIDE DEF A, B, g
<1>6. g \in Bijection(B, A)
  BY <1>2, <1>3, <1>4 DEF Bijection, Injection, Surjection, IsInjective
<1>7. Cardinality(A) = Cardinality(B)
  BY <1>5, <1>6, FS_Bijection DEF ExistsBijection
<1> QED BY <1>7 DEF Sizes, A, B

\* One entry.
LEMMA SizesOfOne ==
  ASSUME NEW store, NEW i
  PROVE  Sizes(store, {i}) = Size(store[i])
<1> DEFINE S == {s \in Session : store[i].part[s].st # "outside"}
           T == {e \in {i} \X Session : store[e[1]].part[e[2]].st # "outside"}
           g == [s \in S |-> <<i, s>>]
<1>1. g \in [S -> T] /\ \A s, t \in S : g[s] = g[t] => s = t
  OBVIOUS
<1>2. ASSUME NEW y \in T PROVE \E s \in S : g[s] = y
  <2>1. y = <<i, y[2]>> /\ y[2] \in S
    OBVIOUS
  <2> QED BY <2>1
<1>3. IsFiniteSet(S)
  BY SearchAssumption, FS_Subset
<1> HIDE DEF S, T, g
<1>4. g \in Bijection(S, T)
  BY <1>1, <1>2 DEF Bijection, Injection, Surjection, IsInjective
<1>5. Cardinality(T) = Cardinality(S)
  BY <1>3, <1>4, FS_Bijection DEF ExistsBijection
<1> QED BY <1>5 DEF Sizes, Size, S, T

\* The positions of a set can be listed in their order.
LEMMA AscendingIs ==
  ASSUME NEW n \in Nat, NEW at \in SUBSET (1..n)
  PROVE  /\ Ascending(at) \in Bijection(1..Cardinality(at), at)
         /\ Cardinality(at) \in Nat /\ Cardinality(at) <= n
<1> DEFINE Lists(S) == {f \in [1..Cardinality(S) -> S] : \A i, j \in 1..Cardinality(S) : i < j => f[i] < f[j]}
           Good == {m \in Nat : \A S \in SUBSET (1..m) : Lists(S) # {}}
<1>1. \A m \in Nat : IsFiniteSet(1..m) /\ Cardinality(1..m) = m
  BY FS_Interval
<1>2. \A m \in Nat : \A S \in SUBSET (1..m) : IsFiniteSet(S) /\ Cardinality(S) \in Nat /\ Cardinality(S) <= m
  <2> SUFFICES ASSUME NEW m \in Nat, NEW S \in SUBSET (1..m)
               PROVE  IsFiniteSet(S) /\ Cardinality(S) \in Nat /\ Cardinality(S) <= m
    OBVIOUS
  <2>1. IsFiniteSet(1..m) /\ Cardinality(1..m) = m
    BY <1>1
  <2> QED BY <2>1, FS_Subset, FS_CardinalityType
<1>3. 0 \in Good
  <2> SUFFICES ASSUME NEW S \in SUBSET (1..0) PROVE Lists(S) # {}
    OBVIOUS
  <2>1. S = {} /\ Cardinality({}) = 0
    BY FS_EmptySet
  <2>2. [i \in 1..0 |-> i] \in Lists(S)
    BY <2>1
  <2> QED BY <2>2
<1>4. ASSUME NEW m \in Good PROVE m + 1 \in Good
  <2>0. m \in Nat /\ \A S \in SUBSET (1..m) : Lists(S) # {}
    <3> HIDE DEF Lists
    <3> QED OBVIOUS
  <2> SUFFICES ASSUME NEW S \in SUBSET (1..(m + 1)) PROVE Lists(S) # {}
    <3> HIDE DEF Lists
    <3> QED BY <2>0
  <2>1. ASSUME m + 1 \notin S PROVE Lists(S) # {}
    <3>1. S \in SUBSET (1..m)
      BY <2>0, <2>1
    <3> HIDE DEF Lists
    <3> QED BY <2>0, <3>1
  <2>2. ASSUME m + 1 \in S PROVE Lists(S) # {}
    <3> DEFINE T == S \ {m + 1}
               k == Cardinality(T)
    <3>1. T \in SUBSET (1..m)
      OBVIOUS
    <3>2. k \in Nat /\ m \in Nat
      <4>1. m \in Nat
        OBVIOUS
      <4>2. \A U \in SUBSET (1..m) : Cardinality(U) \in Nat
        BY <1>2, <4>1
      <4> HIDE DEF T, Good, Lists
      <4>3. Cardinality(T) \in Nat
        BY <3>1, <4>2
      <4> QED BY <4>1, <4>3
    <3>3. Cardinality(S) = k + 1
      <4>1. IsFiniteSet(S) /\ Cardinality(S) \in Nat
        <5>1. m + 1 \in Nat
          BY <3>2
        <5> HIDE DEF Good, Lists, T
        <5> QED BY <1>2, <5>1
      <4>2. k = Cardinality(S) - 1
        BY <2>2, <4>1, FS_RemoveElement
      <4> HIDE DEF k
      <4> QED BY <4>1, <4>2
    <3>4. PICK f \in Lists(T) : TRUE
      <4> HIDE DEF Lists, T
      <4> QED BY <2>0, <3>1
    <3> DEFINE g == [i \in 1..(k + 1) |-> IF i <= k THEN f[i] ELSE m + 1]
    <3>5. f \in [1..k -> T] /\ \A i, j \in 1..k : i < j => f[i] < f[j]
      OBVIOUS
    <3> HIDE DEF k, Lists
    <3>6. \A i \in 1..k : f[i] \in S /\ f[i] \in 1..m
      <4>1. T \subseteq S
        OBVIOUS
      <4> HIDE DEF T, Good
      <4> QED BY <3>1, <3>5, <4>1
    <3>7. g \in [1..(k + 1) -> S]
      BY <2>2, <3>2, <3>6
    <3>8. ASSUME NEW i \in 1..(k + 1), NEW j \in 1..(k + 1), i < j PROVE g[i] < g[j]
      <4>1. i \in 1..k
        BY <3>2, <3>8
      <4>2. g[i] = f[i] /\ g[i] \in 1..m
        BY <3>6, <4>1
      <4>3. ASSUME j \in 1..k PROVE g[i] < g[j]
        BY <3>5, <3>8, <4>1, <4>3
      <4>4. ASSUME j = k + 1 PROVE g[i] < g[j]
        BY <3>2, <4>2, <4>4
      <4> QED BY <3>2, <4>3, <4>4
    <3> HIDE DEF g
    <3>9. g \in Lists(S)
      BY <3>3, <3>7, <3>8 DEF Lists
    <3> QED BY <3>9
  <2> QED BY <2>1, <2>2
<1>5. Good = Nat
  <2> HIDE DEF Lists
  <2>1. Good \in SUBSET Nat
    OBVIOUS
  <2> HIDE DEF Good
  <2> QED BY <1>3, <1>4, <2>1, Induction
<1> DEFINE k == Cardinality(at)
           f == Ascending(at)
<1>6. k \in Nat /\ k <= n /\ IsFiniteSet(at)
  BY <1>2
<1>7. f \in Lists(at)
  <2>1. Lists(at) # {}
    BY <1>5
  <2> QED BY <2>1 DEF Ascending
<1>8. f \in [1..k -> at] /\ \A i, j \in 1..k : i < j => f[i] < f[j]
  BY <1>7
<1> HIDE DEF f
<1>9. \A i, j \in 1..k : f[i] = f[j] => i = j
  <2>1. \A i \in 1..k : f[i] \in Nat
    <3>1. \A i \in 1..k : f[i] \in at
      BY <1>8
    <3>2. at \subseteq Nat
      OBVIOUS
    <3> QED BY <3>1, <3>2
  <2> HIDE DEF k
  <2> QED BY <1>6, <1>8, <2>1
<1>10. f \in Injection(1..k, at)
  BY <1>8, <1>9 DEF Injection, IsInjective
<1>11. f \in Surjection(1..k, at)
  <2>1. Cardinality(1..k) = k
    BY <1>1, <1>6
  <2>2. Cardinality(1..k) = Cardinality(at) <=> f \in Surjection(1..k, at)
    BY <1>6, <1>10, FS_Injection
  <2> QED BY <2>1, <2>2
<1> QED BY <1>6, <1>10, <1>11 DEF Bijection, f

\* What is alive are entries of the store, and its participants those the dead ones leave.
LEMMA LiveIs ==
  ASSUME SearchTypeOK
  PROVE  /\ Live \in Seq(CursorRecord) /\ Len(Live) <= Len(cursors)
         /\ \A i \in DOMAIN Live : \E j \in DOMAIN cursors : Live[i] = cursors[j]
         /\ Sizes(Live, DOMAIN Live) = Sizes(cursors, DOMAIN cursors) - Sizes(cursors, Dead)
<1> DEFINE at == DOMAIN cursors \ Dead
           f == Ascending(at)
           n == Cardinality(at)
           L == [i \in 1..n |-> cursors[f[i]]]
<1>1. cursors \in Seq(CursorRecord) /\ DOMAIN cursors = 1..Len(cursors) /\ Len(cursors) \in Nat
  BY DEF SearchTypeOK
<1>2. Dead \in SUBSET DOMAIN cursors /\ at \in SUBSET (1..Len(cursors))
  BY <1>1 DEF Dead
<1>3. f \in Bijection(1..n, at) /\ n \in Nat /\ n <= Len(cursors)
  <2> HIDE DEF at
  <2> QED BY <1>1, <1>2, AscendingIs
<1>4. DOMAIN f = 1..n /\ \A i \in 1..n : f[i] \in DOMAIN cursors
  <2>1. f \in [1..n -> at] /\ at \subseteq DOMAIN cursors
    <3> HIDE DEF f, n
    <3> QED BY <1>3, Fun_BijectionProperties
  <2> HIDE DEF f, n, at
  <2> QED BY <2>1
<1>5. Live = L
  BY <1>4 DEF Live
<1>6. \A i \in 1..n : L[i] = cursors[f[i]] /\ L[i] \in CursorRecord
  <2> HIDE DEF f, n, at
  <2> QED BY <1>1, <1>4
<1>7. L \in Seq(CursorRecord) /\ Len(L) = n /\ DOMAIN L = 1..n
  <2> HIDE DEF n
  <2>1. L \in [1..n -> CursorRecord]
    BY <1>6
  <2> HIDE DEF L
  <2> QED BY <1>3, <2>1
<1>8. Sizes(L, 1..n) = Sizes(cursors, at)
  <2>1. IsFiniteSet(1..n)
    BY <1>3, FS_Interval
  <2> HIDE DEF L, f, n, at
  <2> QED BY <1>3, <1>6, <2>1, SizesMove
<1>9. Sizes(cursors, DOMAIN cursors) = Sizes(cursors, Dead) + Sizes(cursors, at)
  <2>1. IsFiniteSet(DOMAIN cursors)
    BY <1>1, FS_Interval
  <2> QED BY <1>2, <2>1, SizesAddUp
<1>10. Sizes(cursors, Dead) \in Nat /\ Sizes(cursors, at) \in Nat
  <2>1. IsFiniteSet(Dead) /\ IsFiniteSet(at)
    <3>1. IsFiniteSet(1..Len(cursors))
      BY <1>1, FS_Interval
    <3>2. Dead \in SUBSET (1..Len(cursors))
      BY <1>1, <1>2
    <3> HIDE DEF at
    <3> QED BY <1>2, <3>1, <3>2, FS_Subset
  <2> HIDE DEF at
  <2> QED BY <2>1, SizesAddUp
<1> HIDE DEF L, f, n, at
<1> QED BY <1>3, <1>4, <1>5, <1>6, <1>7, <1>8, <1>9, <1>10

\* What remains when the oldest entries go.
LEMMA RestIs ==
  ASSUME NEW store \in Seq(CursorRecord), NEW k \in 0..Len(store),
         NEW rest \in Seq(CursorRecord), Len(rest) = Len(store) - k, \A i \in DOMAIN rest : rest[i] = store[k + i]
  PROVE  /\ Sizes(store, DOMAIN store) = Sizes(store, 1..k) + Sizes(rest, DOMAIN rest)
         /\ Sizes(store, 1..k) \in Nat /\ Sizes(rest, DOMAIN rest) \in Nat
<1> DEFINE n == Len(store)
           f == [i \in 1..(n - k) |-> k + i]
<1>1. n \in Nat /\ k \in Nat /\ k <= n /\ DOMAIN store = 1..n
  OBVIOUS
<1>3. DOMAIN rest = 1..(n - k)
  OBVIOUS
<1>4. f \in Bijection(1..(n - k), (k + 1)..n)
  <2>1. f \in [1..(n - k) -> (k + 1)..n] /\ \A i, j \in 1..(n - k) : f[i] = f[j] => i = j
    BY <1>1
  <2>2. ASSUME NEW i \in (k + 1)..n PROVE \E j \in 1..(n - k) : f[j] = i
    <3>1. i - k \in 1..(n - k) /\ f[i - k] = i
      BY <1>1
    <3> QED BY <3>1
  <2> HIDE DEF f
  <2> QED BY <2>1, <2>2 DEF Bijection, Injection, Surjection, IsInjective
<1>5. \A i \in 1..(n - k) : rest[i] = store[f[i]]
  BY <1>3
<1>6. IsFiniteSet(1..(n - k)) /\ IsFiniteSet(1..n) /\ IsFiniteSet(1..k)
  BY <1>1, FS_Interval
<1>7. 1..k \in SUBSET (1..n) /\ (1..n) \ (1..k) = (k + 1)..n
  BY <1>1
<1> HIDE DEF f, n
<1>8. Sizes(rest, 1..(n - k)) = Sizes(store, (k + 1)..n)
  <2> DEFINE at == (k + 1)..n
             to == 1..(n - k)
  <2>1. f \in Bijection(to, at) /\ IsFiniteSet(to) /\ \A i \in to : rest[i] = store[f[i]]
    BY <1>4, <1>5, <1>6
  <2> HIDE DEF at, to
  <2>2. Sizes(rest, to) = Sizes(store, at)
    BY <2>1, SizesMove
  <2> QED BY <2>2 DEF at, to
<1>9. Sizes(store, 1..n) = Sizes(store, 1..k) + Sizes(store, (k + 1)..n)
  <2> DEFINE all == 1..n
             part == 1..k
             more == (k + 1)..n
  <2>1. part \in SUBSET all /\ all \ part = more /\ IsFiniteSet(all)
    BY <1>6, <1>7
  <2> HIDE DEF all, part, more
  <2>2. Sizes(store, all) = Sizes(store, part) + Sizes(store, more)
    BY <2>1, SizesAddUp
  <2> QED BY <2>2 DEF all, part, more
<1>10. Sizes(store, 1..k) \in Nat /\ Sizes(rest, 1..(n - k)) \in Nat
  BY <1>6, SizesAddUp
<1> QED BY <1>1, <1>3, <1>8, <1>9, <1>10

\* A new entry adds its participants.
LEMMA AppendIs ==
  ASSUME NEW store \in Seq(CursorRecord), NEW new \in Seq(CursorRecord), Len(new) = Len(store) + 1,
         \A i \in DOMAIN store : new[i] = store[i]
  PROVE  Sizes(new, DOMAIN new) = Sizes(store, DOMAIN store) + Size(new[Len(new)])
<1> DEFINE n == Len(store)
<1>1. n \in Nat /\ DOMAIN store = 1..n
  OBVIOUS
<1>2. Len(new) = n + 1 /\ DOMAIN new = 1..(n + 1) /\ \A i \in 1..n : new[i] = store[i]
  OBVIOUS
<1> HIDE DEF n
<1>3. Sizes(new, 1..n) = Sizes(store, 1..n)
  BY <1>2, SizesAgree
<1>4. Sizes(new, {n + 1}) = Size(new[n + 1])
  BY <1>2, SizesOfOne
<1>5. Sizes(new, 1..(n + 1)) = Sizes(new, 1..n) + Sizes(new, {n + 1})
  <2>1. IsFiniteSet(1..(n + 1))
    BY <1>1, FS_Interval
  <2> DEFINE all == 1..(n + 1)
             part == 1..n
  <2>2. part \in SUBSET all /\ all \ part = {n + 1} /\ IsFiniteSet(all)
    BY <1>1, <2>1
  <2> HIDE DEF all, part
  <2>3. Sizes(new, all) = Sizes(new, part) + Sizes(new, {n + 1})
    BY <2>2, SizesAddUp
  <2> QED BY <2>3 DEF all, part
<1> QED BY <1>1, <1>2, <1>3, <1>4, <1>5

\* Saving a cursor keeps the store within its limits: room can always be made.
LEMMA Saves ==
  ASSUME SearchTypeOK, StoreBounded, NEW c \in CursorRecord, Size(c) <= MaxParticipants, SaveCursor(c)
  PROVE  /\ cursors' \in Seq(CursorRecord) /\ held' \in Nat /\ StoreBounded'
         /\ \A i \in DOMAIN cursors' : cursors'[i] = c \/ \E j \in DOMAIN cursors : cursors'[i] = cursors[j]
<1> DEFINE L == Live
           n == Len(L)
           kept(m) == SubSeq(L, m + 1, n)
           K == {m \in 0..n : Fits(kept(m), LiveHeld - Sizes(L, 1..m), c)}
           k == Min(K)
<1>1. /\ L \in Seq(CursorRecord) /\ n \in Nat /\ DOMAIN L = 1..n
      /\ \A i \in DOMAIN L : \E j \in DOMAIN cursors : L[i] = cursors[j]
      /\ LiveHeld = Sizes(L, 1..n)
  <2>1. /\ L \in Seq(CursorRecord)
        /\ \A i \in DOMAIN L : \E j \in DOMAIN cursors : L[i] = cursors[j]
        /\ Sizes(L, DOMAIN L) = Sizes(cursors, DOMAIN cursors) - Sizes(cursors, Dead)
    BY LiveIs
  <2> HIDE DEF L
  <2>2. n \in Nat /\ DOMAIN L = 1..n
    BY <2>1
  <2> HIDE DEF n
  <2> QED BY <2>1, <2>2 DEF LiveHeld, StoreBounded
<1> HIDE DEF L
<1>2. \A m \in 0..n : /\ kept(m) \in Seq(CursorRecord) /\ Len(kept(m)) = n - m
                      /\ \A i \in DOMAIN kept(m) : \E j \in DOMAIN L : kept(m)[i] = L[j]
                      /\ Sizes(L, 1..n) = Sizes(L, 1..m) + Sizes(kept(m), DOMAIN kept(m))
                      /\ Sizes(L, 1..m) \in Nat /\ Sizes(kept(m), DOMAIN kept(m)) \in Nat
  <2> SUFFICES ASSUME NEW m \in 0..n
               PROVE  /\ kept(m) \in Seq(CursorRecord) /\ Len(kept(m)) = n - m
                      /\ \A i \in DOMAIN kept(m) : \E j \in DOMAIN L : kept(m)[i] = L[j]
                      /\ Sizes(L, 1..n) = Sizes(L, 1..m) + Sizes(kept(m), DOMAIN kept(m))
                      /\ Sizes(L, 1..m) \in Nat /\ Sizes(kept(m), DOMAIN kept(m)) \in Nat
    OBVIOUS
  <2> DEFINE rest == kept(m)
  <2>1. L \in Seq(CursorRecord) /\ m \in 0..Len(L) /\ m \in Nat /\ m <= n
    BY <1>1
  <2>2. /\ rest \in Seq(CursorRecord) /\ Len(rest) = n - m
        /\ \A i \in 1..(n - m) : rest[i] = L[m + i]
    <3>1. m + 1 \in Int /\ n \in Int /\ \A i \in (m + 1)..n : L[i] \in CursorRecord
      BY <1>1, <2>1
    <3> HIDE DEF n
    <3>2. /\ SubSeq(L, m + 1, n) \in Seq(CursorRecord)
          /\ Len(SubSeq(L, m + 1, n)) = IF m + 1 <= n THEN n - (m + 1) + 1 ELSE 0
          /\ \A i \in 1..(n - (m + 1) + 1) : SubSeq(L, m + 1, n)[i] = L[m + 1 + i - 1]
      BY <3>1, SubSeqProperties
    <3>3. rest = SubSeq(L, m + 1, n)
      OBVIOUS
    <3> HIDE DEF rest
    <3>4. n - (m + 1) + 1 = n - m /\ (m + 1 <= n \/ n = m)
      BY <1>1, <2>1
    <3>5. Len(rest) = n - m
      BY <1>1, <2>1, <3>2, <3>3, <3>4
    <3>6. ASSUME NEW i \in 1..(n - m) PROVE rest[i] = L[m + i]
      <4>1. m + 1 + i - 1 = m + i /\ i \in 1..(n - (m + 1) + 1)
        BY <1>1, <2>1, <3>4
      <4>2. rest[i] = L[m + 1 + i - 1]
        BY <3>2, <3>3, <4>1
      <4> QED BY <4>1, <4>2
    <3> QED BY <3>2, <3>3, <3>5, <3>6
  <2> HIDE DEF rest
  <2>3. DOMAIN rest = 1..(n - m) /\ Len(rest) = Len(L) - m
    BY <2>2
  <2>4. \A i \in DOMAIN rest : \E j \in DOMAIN L : rest[i] = L[j]
    <3>1. \A i \in 1..(n - m) : m + i \in DOMAIN L
      BY <1>1, <2>1
    <3> QED BY <2>2, <2>3, <3>1
  <2>5. /\ Sizes(L, DOMAIN L) = Sizes(L, 1..m) + Sizes(rest, DOMAIN rest)
        /\ Sizes(L, 1..m) \in Nat /\ Sizes(rest, DOMAIN rest) \in Nat
    <3>1. \A i \in DOMAIN rest : rest[i] = L[m + i]
      BY <2>2, <2>3
    <3>2. L \in Seq(CursorRecord) /\ m \in 0..Len(L) /\ rest \in Seq(CursorRecord) /\ Len(rest) = Len(L) - m
      BY <2>1, <2>2, <2>3
    <3> HIDE DEF n
    <3> QED BY <3>1, <3>2, RestIs
  <2> QED BY <1>1, <2>2, <2>4, <2>5 DEF rest
<1>3. {MaxCursors, MaxParticipants} \subseteq Nat \ {0} /\ Size(c) \in Nat
  <2>1. IsFiniteSet({s \in Session : c.part[s].st # "outside"})
    BY SearchAssumption, FS_Subset
  <2> QED BY <2>1, SearchAssumption, FS_CardinalityType DEF Size
<1> HIDE DEF kept
<1>4. n \in K
  <2>1. Sizes(L, 1..n) - Sizes(L, 1..n) = 0 /\ Len(kept(n)) = 0 /\ n \in 0..n
    <3>1. n \in 0..n /\ n - n = 0
      BY <1>1
    <3>2. Len(kept(n)) = n - n /\ Sizes(L, 1..n) \in Nat
      BY <1>2, <3>1
    <3> QED BY <3>1, <3>2
  <2>2. Fits(kept(n), LiveHeld - Sizes(L, 1..n), c)
    BY <1>1, <1>3, <2>1 DEF Fits
  <2> QED BY <2>1, <2>2
<1>5. k \in K
  <2>1. K \in SUBSET Nat /\ K # {}
    BY <1>1, <1>4
  <2> HIDE DEF K
  <2> QED BY <2>1, MinIsIn
<1>6. k \in 0..n /\ Fits(kept(k), LiveHeld - Sizes(L, 1..k), c)
  <2> HIDE DEF k
  <2> QED BY <1>5
<1>7. cursors' = Append(kept(k), c) /\ held' = LiveHeld - Sizes(L, 1..k) + Size(c)
  BY DEF SaveCursor, kept, L
<1> HIDE DEF k, K
<1> DEFINE rest == kept(k)
<1>8. /\ rest \in Seq(CursorRecord) /\ Len(rest) = n - k /\ Len(rest) < MaxCursors
      /\ \A i \in DOMAIN rest : \E j \in DOMAIN L : rest[i] = L[j]
      /\ LiveHeld - Sizes(L, 1..k) = Sizes(rest, DOMAIN rest) /\ Sizes(rest, DOMAIN rest) \in Nat
      /\ Sizes(rest, DOMAIN rest) + Size(c) <= MaxParticipants
  <2>1. /\ rest \in Seq(CursorRecord) /\ Len(rest) = n - k
        /\ \A i \in DOMAIN rest : \E j \in DOMAIN L : rest[i] = L[j]
        /\ Sizes(L, 1..n) = Sizes(L, 1..k) + Sizes(rest, DOMAIN rest)
        /\ Sizes(L, 1..k) \in Nat /\ Sizes(rest, DOMAIN rest) \in Nat
    BY <1>2, <1>6
  <2>2. Len(rest) < MaxCursors /\ LiveHeld - Sizes(L, 1..k) + Size(c) <= MaxParticipants
    BY <1>6 DEF Fits
  <2> HIDE DEF rest
  <2> QED BY <1>1, <2>1, <2>2
<1> HIDE DEF rest
<1>9. /\ cursors' \in Seq(CursorRecord) /\ Len(cursors') = Len(rest) + 1
      /\ \A i \in DOMAIN cursors' : cursors'[i] = c \/ \E j \in DOMAIN rest : cursors'[i] = rest[j]
      /\ Sizes(cursors', DOMAIN cursors') = Sizes(rest, DOMAIN rest) + Size(c)
  <2>1. cursors' = Append(rest, c)
    BY <1>7 DEF rest
  <2> DEFINE new == cursors'
  <2>2. /\ new \in Seq(CursorRecord) /\ Len(new) = Len(rest) + 1
        /\ \A i \in DOMAIN rest : new[i] = rest[i]
        /\ new[Len(new)] = c
    BY <1>8, <2>1
  <2>3. \A i \in DOMAIN new : i \in DOMAIN rest \/ i = Len(new)
    BY <1>8, <2>2
  <2> HIDE DEF new
  <2>4. Sizes(new, DOMAIN new) = Sizes(rest, DOMAIN rest) + Size(new[Len(new)])
    BY <1>8, <2>2, AppendIs
  <2> QED BY <2>2, <2>3, <2>4 DEF new
<1>10. held' = Sizes(cursors', DOMAIN cursors') /\ held' <= MaxParticipants /\ held' \in Nat
  <2>1. held' = Sizes(rest, DOMAIN rest) + Size(c)
    BY <1>7, <1>8
  <2> QED BY <1>3, <1>8, <1>9, <2>1
<1>11. Len(cursors') <= MaxCursors
  <2>1. Len(rest) \in Nat
    BY <1>8
  <2> QED BY <1>3, <1>8, <1>9, <2>1
<1>12. \A i \in DOMAIN cursors' : cursors'[i] = c \/ \E j \in DOMAIN cursors : cursors'[i] = cursors[j]
  BY <1>1, <1>8, <1>9
<1> QED BY <1>9, <1>10, <1>11, <1>12 DEF StoreBounded, Sizes

(***************************************************************************)
(* The invariant of a search.                                              *)
(***************************************************************************)

\* What part of a session may change without its hits: it fails, is asked, or loses its answer.
PartStep(q, s, p) ==
  /\ q.part[s].st # "done" /\ p.st # "done"
  /\ p.leaf = q.part[s].leaf /\ p.all = q.part[s].all
  /\ p.st \in {"waiting", "asked"} => q.part[s].st \in {"waiting", "asked"}
  /\ p.reply.t = "page" => Frozen(s, p.reply.leaf, p.reply.all)
  /\ p.st = "asked" => p.reply.t # "none"
  /\ p.st = "asked" /\ p.reply.t = "page" => PageValid(q, p)

LEMMA PartsStep ==
  ASSUME NEW q \in SearchRecord, NEW k \in SearchRecord, SearchValid(q), FrozenIn(q.part),
         k.before = q.before, k.seen = q.seen, k.hits = q.hits, k.more <=> q.more,
         \A s \in Session : k.part[s] = q.part[s] \/ PartStep(q, s, k.part[s])
  PROVE  SearchValid(k) /\ FrozenIn(k.part)
<1>1. /\ \A b, c \in k.before : b = c
      /\ k.before = {} => k.seen = {}
      /\ \A b \in k.before, g \in k.seen : g = b \/ Newer(g, b)
      /\ IsFiniteSet(k.hits)
  BY DEF SearchValid
<1>2. ASSUME NEW h \in k.hits
      PROVE  k.part[h.session].st = "done" /\ h \in k.part[h.session].all /\ \A b \in k.before : Newer(b, h)
  <2>1. h \in q.hits /\ h.session \in Session
    BY DEF SearchRecord, Hit
  <2>2. q.part[h.session].st = "done" /\ h \in q.part[h.session].all /\ \A b \in k.before : Newer(b, h)
    BY <2>1 DEF SearchValid
  <2>3. k.part[h.session] = q.part[h.session]
    BY <2>1, <2>2 DEF PartStep
  <2> QED BY <2>2, <2>3
<1>3. \A h : Covered(q, h) => Covered(k, h)
  BY DEF Covered
<1>4. \A p : ToAnswer(q, p) <=> ToAnswer(k, p)
  BY DEF ToAnswer
<1>5. \A p : PageValid(q, p) <=> PageValid(k, p)
  BY DEF PageValid
<1>6. ASSUME NEW s \in Session
      PROVE  /\ k.part[s].st \in {"waiting", "asked"} => ToAnswer(k, k.part[s])
             /\ k.part[s].st = "asked" => k.part[s].reply.t # "none"
             /\ k.part[s].st = "asked" /\ k.part[s].reply.t = "page" => PageValid(k, k.part[s])
             /\ k.part[s].st = "done" => k.part[s].leaf # Unfrozen /\ \A h \in k.part[s].all : Covered(k, h)
  <2> DEFINE p == q.part[s]
  <2>1. /\ p.st \in {"waiting", "asked"} => ToAnswer(q, p)
        /\ p.st = "asked" => p.reply.t # "none"
        /\ p.st = "asked" /\ p.reply.t = "page" => PageValid(q, p)
        /\ p.st = "done" => p.leaf # Unfrozen /\ \A h \in p.all : Covered(q, h)
    BY DEF SearchValid
  <2>2. ASSUME k.part[s] = p PROVE <1>6!2
    BY <1>3, <1>4, <1>5, <2>1, <2>2
  <2>3. ASSUME PartStep(q, s, k.part[s]) PROVE <1>6!2
    <3>1. k.part[s].st \in {"waiting", "asked"} => ToAnswer(q, k.part[s])
      BY <2>1, <2>3 DEF PartStep, ToAnswer
    <3>2. k.part[s].st = "asked" /\ k.part[s].reply.t = "page" => PageValid(q, k.part[s])
      BY <2>3 DEF PartStep
    <3>3. k.part[s].st # "done" /\ (k.part[s].st = "asked" => k.part[s].reply.t # "none")
      BY <2>3 DEF PartStep
    <3> QED BY <1>4, <1>5, <3>1, <3>2, <3>3
  <2> QED BY <2>2, <2>3
<1>7. FrozenIn(k.part)
  <2> SUFFICES ASSUME NEW s \in Session
               PROVE  /\ k.part[s].leaf # Unfrozen => Frozen(s, k.part[s].leaf, k.part[s].all)
                      /\ k.part[s].reply.t = "page" => Frozen(s, k.part[s].reply.leaf, k.part[s].reply.all)
    BY DEF FrozenIn
  <2>1. /\ q.part[s].leaf # Unfrozen => Frozen(s, q.part[s].leaf, q.part[s].all)
        /\ q.part[s].reply.t = "page" => Frozen(s, q.part[s].reply.leaf, q.part[s].reply.all)
    BY DEF FrozenIn
  <2> QED BY <2>1 DEF PartStep
<1>8. SearchValid(k)
  BY <1>1, <1>2, <1>6 DEF SearchValid
<1> QED BY <1>7, <1>8

\* Merging the page of a session covers what its branch holds, and what was covered.
LEMMA Receives ==
  ASSUME NEW q \in SearchRecord, NEW k \in SearchRecord, SearchValid(q), FrozenIn(q.part), NEW s \in Session,
         NEW page, page = q.part[s].reply, q.part[s].st = "asked", page.t = "page",
         k.before = q.before, k.seen = q.seen, k.hits = Newest(q.hits \cup page.hits, PageLimit),
         k.more <=> q.more \/ page.more \/ Cardinality(q.hits \cup page.hits) > PageLimit,
         k.part[s].st = "done", k.part[s].leaf = page.leaf, k.part[s].all = page.all, k.part[s].reply.t # "page",
         \A t \in Session \ {s} : k.part[t] = q.part[t]
  PROVE  SearchValid(k) /\ FrozenIn(k.part)
<1> DEFINE p == q.part[s]
           A == q.hits
           B == page.hits
           below == {h \in page.all : \A b \in q.before : Newer(b, h)}
<1>1. PageLimit \in Nat
  BY SearchAssumption
<1>2. /\ q.part \in [Session -> PartRecord] /\ p \in PartRecord /\ page \in ReplyRecord
      /\ A \in SUBSET Hit /\ B \in SUBSET Hit /\ page.all \in SUBSET Hit /\ page.leaf \in Nat
      /\ \A t \in Session : q.part[t].all \in SUBSET Hit
  <2>1. q.part \in [Session -> PartRecord] /\ A \in SUBSET Hit
    BY DEF SearchRecord
  <2>2. \A t \in Session : q.part[t].all \in SUBSET Hit /\ q.part[t].reply \in ReplyRecord
    BY <2>1 DEF PartRecord
  <2>3. page \in ReplyRecord
    BY <2>2
  <2>4. B \in SUBSET Hit /\ page.all \in SUBSET Hit /\ page.leaf \in Nat
    BY <2>3 DEF ReplyRecord
  <2> QED BY <2>1, <2>2, <2>3, <2>4
<1>3. /\ Frozen(s, page.leaf, page.all) /\ IsFiniteSet(page.all) /\ \A h \in page.all : h.session = s
  <2>1. Frozen(s, page.leaf, page.all)
    BY DEF FrozenIn
  <2> QED BY <2>1 DEF Frozen
<1>4. /\ p.leaf # Unfrozen => page.leaf = p.leaf /\ page.all = p.all
      /\ B = Newest(below, PageLimit)
      /\ page.more <=> Cardinality(below) > PageLimit
      /\ ToAnswer(q, p)
  <2>1. PageValid(q, p) /\ ToAnswer(q, p)
    BY DEF SearchValid
  <2> QED BY <2>1 DEF PageValid
<1>5. below \in SUBSET Hit /\ IsFiniteSet(below) /\ B \subseteq below /\ IsFiniteSet(B)
  <2>1. below \in SUBSET page.all
    OBVIOUS
  <2> HIDE DEF below
  <2>2. IsFiniteSet(below)
    BY <1>3, <2>1, FS_Subset
  <2>3. B \in SUBSET below
    BY <1>4 DEF Newest
  <2>4. IsFiniteSet(B)
    BY <2>2, <2>3, FS_Subset
  <2> QED BY <1>2, <2>1, <2>2, <2>3, <2>4
<1>6. IsFiniteSet(A)
  BY DEF SearchValid
<1> DEFINE U == A \cup B
           M == Newest(U, PageLimit)
<1>7. k.hits = M /\ M \subseteq U /\ IsFiniteSet(M)
  <2>1. IsFiniteSet(U)
    BY <1>5, <1>6, FS_Union
  <2>2. M \in SUBSET U
    BY DEF Newest
  <2> HIDE DEF U
  <2>3. IsFiniteSet(M)
    BY <2>1, <2>2, FS_Subset
  <2> QED BY <2>2, <2>3 DEF U
<1>8. ASSUME NEW h \in Hit,
             \/ h \in U
             \/ k.more /\ \E T \in {A, B} : Cardinality(T) >= PageLimit /\ \A g \in T : Newer(g, h)
      PROVE  Covered(k, h)
  <2>1. h \in A \cup B \/ \E T \in {A, B} : Cardinality(T) >= PageLimit /\ \A g \in T : Newer(g, h)
    BY <1>8
  <2>2. h \in M \/ (/\ Cardinality(M) >= PageLimit /\ \A g \in M : Newer(g, h)
                    /\ h \in U => Cardinality(U) > PageLimit)
    <3> HIDE DEF B
    <3>1. A \in SUBSET Hit /\ B \in SUBSET Hit
      BY <1>2
    <3> HIDE DEF A
    <3> QED BY <1>1, <1>5, <1>6, <2>1, <3>1, MergeCovers
  <2>3. h \in U => (Cardinality(U) > PageLimit => k.more)
    OBVIOUS
  <2> HIDE DEF M, U
  <2> QED BY <1>7, <1>8, <2>2, <2>3 DEF Covered
<1>9. ASSUME NEW h \in Hit, Covered(q, h) PROVE Covered(k, h)
  <2>1. CASE h \in q.seen
    BY <2>1 DEF Covered
  <2>2. CASE h \in U
    BY <1>8, <2>2
  <2>3. CASE q.more /\ Cardinality(A) >= PageLimit /\ \A g \in A : Newer(g, h)
    <3>1. k.more
      BY <2>3
    <3> HIDE DEF U
    <3> QED BY <1>8, <2>3, <3>1
  <2> QED BY <1>9, <2>1, <2>2, <2>3 DEF Covered
<1>10. ASSUME NEW h \in page.all PROVE Covered(k, h)
  <2>1. CASE h \in q.seen
    BY <2>1 DEF Covered
  <2>2. CASE h \notin q.seen
    <3>1. h \in below
      BY <1>4, <2>2 DEF ToAnswer
    <3>2. CASE h \in B
      BY <1>2, <1>8, <3>2
    <3>3. CASE h \notin B
      <4>1. PageLimit < Cardinality(below) /\ \A g \in B : Newer(g, h)
        <5>1. h \notin Newest(below, PageLimit)
          BY <1>4, <3>3
        <5> HIDE DEF below
        <5>2. PageLimit < Cardinality(below) /\ \A g \in Newest(below, PageLimit) : Newer(g, h)
          BY <1>1, <1>5, <3>1, <5>1, NewestDrops
        <5> QED BY <1>4, <5>2
      <4>2. Cardinality(below) \in Nat
        <5> HIDE DEF below
        <5> QED BY <1>5, FS_CardinalityType
      <4>3. page.more /\ k.more
        BY <1>1, <1>4, <4>1, <4>2
      <4>4. PageLimit <= Cardinality(B) /\ Cardinality(B) \in Nat
        <5>1. PageLimit <= Cardinality(below)
          BY <1>1, <4>1, <4>2
        <5> HIDE DEF below
        <5>2. PageLimit <= Cardinality(Newest(below, PageLimit))
          BY <1>1, <1>5, <5>1, NewestFull
        <5> QED BY <1>4, <1>5, <5>2, FS_CardinalityType
      <4>5. Cardinality(B) >= PageLimit
        BY <1>1, <4>4
      <4> QED BY <1>2, <1>8, <4>1, <4>3, <4>5
    <3> QED BY <3>2, <3>3
  <2> QED BY <2>1, <2>2
<1>11. ASSUME NEW h \in k.hits
       PROVE  k.part[h.session].st = "done" /\ h \in k.part[h.session].all /\ \A b \in k.before : Newer(b, h)
  <2>1. CASE h \in B
    <3>1. h \in below /\ h.session = s
      BY <1>3, <1>5, <2>1
    <3> QED BY <3>1
  <2>2. CASE h \in A
    <3>1. q.part[h.session].st = "done" /\ h \in q.part[h.session].all /\ \A b \in q.before : Newer(b, h)
      BY <2>2 DEF SearchValid
    <3>2. h.session \in Session
      BY <1>2, <2>2 DEF Hit
    <3> QED BY <3>1, <3>2
  <2> QED BY <1>7, <2>1, <2>2
<1>12. ASSUME NEW t \in Session
       PROVE  /\ k.part[t].st \in {"waiting", "asked"} => ToAnswer(k, k.part[t])
              /\ k.part[t].st = "asked" => k.part[t].reply.t # "none"
              /\ k.part[t].st = "asked" /\ k.part[t].reply.t = "page" => PageValid(k, k.part[t])
              /\ k.part[t].st = "done" => k.part[t].leaf # Unfrozen /\ \A h \in k.part[t].all : Covered(k, h)
  <2>1. CASE t = s
    <3>1. page.leaf # Unfrozen
      BY <1>2 DEF Unfrozen
    <3> QED BY <1>10, <2>1, <3>1
  <2>2. CASE t # s
    <3> DEFINE o == q.part[t]
    <3>1. /\ o.st \in {"waiting", "asked"} => ToAnswer(q, o)
          /\ o.st = "asked" => o.reply.t # "none"
          /\ o.st = "asked" /\ o.reply.t = "page" => PageValid(q, o)
          /\ o.st = "done" => o.leaf # Unfrozen /\ \A h \in o.all : Covered(q, h)
      BY DEF SearchValid
    <3>2. k.part[t] = o
      BY <2>2
    <3>3. o.all \in SUBSET Hit
      BY <1>2
    <3>4. ToAnswer(q, o) <=> ToAnswer(k, o)
      BY DEF ToAnswer
    <3>5. PageValid(q, o) <=> PageValid(k, o)
      BY DEF PageValid
    <3> HIDE DEF o
    <3> QED BY <1>9, <3>1, <3>2, <3>3, <3>4, <3>5
  <2> QED BY <2>1, <2>2
<1>13. FrozenIn(k.part)
  <2> SUFFICES ASSUME NEW t \in Session
               PROVE  /\ k.part[t].leaf # Unfrozen => Frozen(t, k.part[t].leaf, k.part[t].all)
                      /\ k.part[t].reply.t = "page" => Frozen(t, k.part[t].reply.leaf, k.part[t].reply.all)
    BY DEF FrozenIn
  <2>1. CASE t = s
    BY <1>3, <2>1
  <2>2. CASE t # s
    <3>1. /\ q.part[t].leaf # Unfrozen => Frozen(t, q.part[t].leaf, q.part[t].all)
          /\ q.part[t].reply.t = "page" => Frozen(t, q.part[t].reply.leaf, q.part[t].reply.all)
      BY DEF FrozenIn
    <3> QED BY <2>2, <3>1
  <2> QED BY <2>1, <2>2
<1>14. /\ \A b, c \in k.before : b = c
       /\ k.before = {} => k.seen = {}
       /\ \A b \in k.before, g \in k.seen : g = b \/ Newer(g, b)
  BY DEF SearchValid
<1>15. IsFiniteSet(k.hits)
  BY <1>7
<1> HIDE DEF U, M, A, B, below, p
<1> QED BY <1>11, <1>12, <1>13, <1>14, <1>15 DEF SearchValid

(***************************************************************************)
(* The invariant, action by action.                                        *)
(***************************************************************************)

SearchInv == SearchTypeOK /\ BranchesValid /\ StoreBounded /\ RequestsValid /\ CursorsValid

\* What is frozen does not change with what is no branch.
LEMMA SameBranches ==
  ASSUME UNCHANGED <<branch, minted>>
  PROVE  /\ \A part : FrozenIn(part)' <=> FrozenIn(part)
         /\ BranchesValid' <=> BranchesValid
<1>1. ASSUME NEW s, NEW leaf, NEW all PROVE Frozen(s, leaf, all)' <=> Frozen(s, leaf, all)
  BY DEF Frozen, OnBranch, SnapshotBranch
<1>2. ASSUME NEW part PROVE FrozenIn(part)' <=> FrozenIn(part)
  BY <1>1 DEF FrozenIn
<1> QED BY <1>2 DEF BranchesValid

\* A step of one search.
LEMMA OneSearchStep ==
  ASSUME SearchTypeOK, RequestsValid, UNCHANGED <<branch, minted>>, NEW r \in Request,
         NEW k \in SearchRecord \cup {NoRequest}, req' = [req EXCEPT ![r] = k],
         k # NoRequest => SearchValid(k) /\ FrozenIn(k.part)
  PROVE  req' \in [Request -> SearchRecord \cup {NoRequest}] /\ RequestsValid'
<1>1. req' \in [Request -> SearchRecord \cup {NoRequest}]
  BY DEF SearchTypeOK
<1>2. ASSUME NEW t \in Request, req'[t] # NoRequest PROVE SearchValid(req'[t]) /\ FrozenIn(req[t].part)'
  <2>1. PICK q : q = req'[t]
    OBVIOUS
  <2>2. q = IF t = r THEN k ELSE req[t]
    BY <2>1 DEF SearchTypeOK
  <2>3. SearchValid(q) /\ FrozenIn(q.part)
    BY <1>2, <2>1, <2>2 DEF RequestsValid, Idle
  <2>4. FrozenIn(q.part)'
    BY <2>3, SameBranches
  <2> QED BY <2>1, <2>3, <2>4
<1>3. RequestsValid'
  BY <1>2 DEF RequestsValid, Idle
<1> QED BY <1>1, <1>3

\* A step of the store that adds a valid entry or none.
LEMMA StoreStep ==
  ASSUME CursorsValid, UNCHANGED <<branch, minted>>, NEW new,
         new # {} => \E c \in new : CursorValid(c) /\ FrozenIn(c.part) /\ new = {c},
         \A i \in DOMAIN cursors' : cursors'[i] \in new \/ \E j \in DOMAIN cursors : cursors'[i] = cursors[j]
  PROVE  CursorsValid'
<1> SUFFICES ASSUME NEW i \in DOMAIN cursors' PROVE CursorValid(cursors'[i]) /\ FrozenIn(cursors[i].part)'
  BY DEF CursorsValid
<1>1. PICK c : c = cursors'[i]
  OBVIOUS
<1>2. CursorValid(c) /\ FrozenIn(c.part)
  BY <1>1 DEF CursorsValid
<1>3. FrozenIn(c.part)'
  BY <1>2, SameBranches
<1> QED BY <1>1, <1>2, <1>3

\* A session that takes no part, and one with no answer yet.
LEMMA OutsideIs ==
  /\ Outside \in PartRecord /\ Outside.st = "outside" /\ Outside.leaf = Unfrozen /\ Outside.reply.t # "page"
  /\ Outside.all = {} /\ Outside.reply = NoReply
<1>1. NoReply \in ReplyRecord /\ NoReply.t # "page"
  BY NoPages
<1>2. {} \in SUBSET Hit /\ 0 \in Nat /\ Unfrozen \in Nat \cup {Unfrozen}
  OBVIOUS
<1> QED BY <1>1, <1>2 DEF Outside, PartRecord

\* The first page.
LEMMA SearchStep ==
  ASSUME SearchInv, NEW r \in Request, NEW o \in Operator, Search(r, o)
  PROVE  SearchInv'
<1> USE DEF SearchInv
<1> DEFINE part == [s \in Session |->
                      IF ~membership[s].in THEN Outside
                      ELSE [Outside EXCEPT !.st = IF s \in online THEN "waiting" ELSE "failed",
                                           !.version = membership[s].version]]
<1>1. PICK k : k = [owner |-> o, version |-> membership[o].version, born |-> searches + 1, before |-> {},
                    seen |-> {}, hits |-> {}, more |-> FALSE, late |-> FALSE, part |-> part]
  OBVIOUS
<1>2. req' = [req EXCEPT ![r] = k] /\ searches' = searches + 1
      /\ UNCHANGED <<branch, minted, membership, online, cursors, held, clock, changes>>
  BY <1>1 DEF Search, worldVars
<1>3. ASSUME NEW s \in Session
      PROVE  part[s] \in PartRecord /\ part[s].st \in {"outside", "waiting", "failed"}
             /\ part[s].leaf = Unfrozen /\ part[s].reply.t # "page"
  <2>1. membership[s].version \in Nat
    BY DEF SearchTypeOK
  <2>2. CASE ~membership[s].in
    BY <2>2, OutsideIs
  <2>3. CASE membership[s].in
    <3>1. PICK st \in {"waiting", "failed"} : st = IF s \in online THEN "waiting" ELSE "failed"
      OBVIOUS
    <3>2. part[s] = [st |-> st, version |-> membership[s].version, leaf |-> Unfrozen, all |-> {}, reply |-> NoReply]
      BY <2>3, <3>1 DEF Outside
    <3>3. NoReply \in ReplyRecord /\ NoReply.t # "page" /\ {} \in SUBSET Hit
      BY NoPages
    <3> HIDE DEF part
    <3> QED BY <2>1, <3>2, <3>3 DEF PartRecord
  <2> QED BY <2>2, <2>3
<1>4. part \in [Session -> PartRecord]
  BY <1>3
<1>5. k.before = {} /\ k.seen = {} /\ k.hits = {} /\ k.part = part
  BY <1>1
<1> HIDE DEF part
<1>6. k \in SearchRecord
  <2>1. membership[o].version \in Nat /\ searches + 1 \in Nat /\ {} \in SUBSET Hit
    BY SearchAssumption DEF SearchTypeOK
  <2> QED BY <1>1, <1>4, <2>1 DEF SearchRecord
<1>7. FrozenIn(k.part)
  BY <1>3, <1>5 DEF FrozenIn
<1>8. SearchValid(k)
  <2>1. IsFiniteSet({})
    BY FS_EmptySet
  <2> QED BY <1>3, <1>5, <2>1 DEF SearchValid, ToAnswer
<1>9. req' \in [Request -> SearchRecord \cup {NoRequest}] /\ RequestsValid'
  BY <1>2, <1>6, <1>7, <1>8, OneSearchStep
<1>10. CursorsValid' /\ BranchesValid'
  BY <1>2, SameBranches DEF CursorsValid
<1>11. StoreBounded'
  BY <1>2 DEF StoreBounded, Sizes
<1>12. SearchTypeOK'
  BY <1>2, <1>9 DEF SearchTypeOK
<1> QED BY <1>9, <1>10, <1>11, <1>12

\* A step that is only a search's.
LEMMA RequestOnly ==
  ASSUME SearchInv, req' \in [Request -> SearchRecord \cup {NoRequest}], RequestsValid',
         UNCHANGED <<branch, minted, membership, online, cursors, held, clock, searches, changes>>
  PROVE  SearchInv'
<1> USE DEF SearchInv
<1>1. CursorsValid' /\ BranchesValid'
  BY SameBranches DEF CursorsValid
<1>2. StoreBounded'
  BY DEF StoreBounded, Sizes
<1>3. SearchTypeOK'
  BY DEF SearchTypeOK
<1> QED BY <1>1, <1>2, <1>3

\* A search is given up.
LEMMA DropStep ==
  ASSUME SearchInv, NEW r \in Request, Drop(r),
         UNCHANGED <<branch, minted, membership, online, cursors, held, clock, searches, changes>>
  PROVE  SearchInv'
<1>1. req' \in [Request -> SearchRecord \cup {NoRequest}] /\ RequestsValid'
  <2>1. PICK k \in SearchRecord \cup {NoRequest} : k = NoRequest
    OBVIOUS
  <2>2. req' = [req EXCEPT ![r] = k]
    BY <2>1 DEF Drop
  <2> QED BY <2>1, <2>2, OneSearchStep DEF SearchInv
<1> QED BY <1>1, RequestOnly

\* One participant's part of a search changes.
LEMMA SetPartStep ==
  ASSUME SearchInv, NEW r \in Request, ~Idle(r), NEW s \in Session, NEW p \in PartRecord, PartStep(req[r], s, p),
         SetPart(r, s, p),
         UNCHANGED <<branch, minted, membership, online, cursors, held, clock, searches, changes>>
  PROVE  SearchInv'
<1>1. req[r] \in SearchRecord /\ SearchValid(req[r]) /\ FrozenIn(req[r].part)
  BY DEF SearchInv, SearchTypeOK, RequestsValid, Idle
<1>2. PICK q \in SearchRecord : q = req[r]
  BY <1>1
<1>3. PICK k : k = [q EXCEPT !.part[s] = p]
  OBVIOUS
<1>4. /\ q.part \in [Session -> PartRecord]
      /\ k.before = q.before /\ k.seen = q.seen /\ k.hits = q.hits /\ (k.more <=> q.more)
      /\ k.part = [q.part EXCEPT ![s] = p]
  BY <1>3 DEF SearchRecord
<1>5. k \in SearchRecord
  BY <1>3, <1>4 DEF SearchRecord
<1>6. \A t \in Session : k.part[t] = q.part[t] \/ PartStep(q, t, k.part[t])
  BY <1>2, <1>4
<1>7. SearchValid(k) /\ FrozenIn(k.part)
  BY <1>1, <1>2, <1>4, <1>5, <1>6, PartsStep
<1>8. req' = [req EXCEPT ![r] = k]
  BY <1>2, <1>3 DEF SetPart, SearchInv, SearchTypeOK
<1>9. req' \in [Request -> SearchRecord \cup {NoRequest}] /\ RequestsValid'
  BY <1>5, <1>7, <1>8, OneSearchStep DEF SearchInv
<1> QED BY <1>9, RequestOnly

\* A later page: who was complete down to the cursor is asked from there.
LEMMA ContinueStep ==
  ASSUME SearchInv, NEW r \in Request, NEW i \in Nat, Continue(r, i)
  PROVE  SearchInv'
<1> USE DEF SearchInv
<1>1. /\ Live \in Seq(CursorRecord) /\ Len(Live) <= Len(cursors)
      /\ \A n \in DOMAIN Live : \E j \in DOMAIN cursors : Live[n] = cursors[j]
      /\ Sizes(Live, DOMAIN Live) = Sizes(cursors, DOMAIN cursors) - Sizes(cursors, Dead)
  BY LiveIs
<1>2. PICK c : c = Live[i]
  OBVIOUS
<1>3. i \in DOMAIN Live
  BY DEF Continue
<1>4. c \in CursorRecord /\ CursorValid(c) /\ FrozenIn(c.part)
  BY <1>1, <1>2, <1>3 DEF CursorsValid
<1>5. c.part \in [Session -> PartRecord] /\ c.before \in Hit
  BY <1>4 DEF CursorRecord
<1>6. PICK k : k = [owner |-> c.owner, version |-> c.version, born |-> c.born, before |-> {c.before},
                    seen |-> c.seen, hits |-> {}, more |-> FALSE, late |-> FALSE, part |-> Resumed(c)]
  OBVIOUS
<1>7. req' = [req EXCEPT ![r] = k] /\ cursors' = Live /\ held' = LiveHeld
      /\ UNCHANGED <<branch, minted, membership, online, clock, searches, changes>>
  BY <1>2, <1>6 DEF Continue, worldVars
<1>8. /\ k.before = {c.before} /\ k.seen = c.seen /\ k.hits = {} /\ k.part = Resumed(c)
  BY <1>6
<1>9. ASSUME NEW s \in Session
      PROVE  /\ k.part[s] \in PartRecord
             /\ k.part[s].st \in {"outside", "failed", "waiting"}
             /\ k.part[s].st = "waiting" => c.part[s].st = "done"
             /\ k.part[s].leaf = c.part[s].leaf /\ k.part[s].all = c.part[s].all
             /\ k.part[s].reply = c.part[s].reply
  <2>1. c.part[s] \in PartRecord /\ c.part[s].st \in {"outside", "failed", "done"}
    BY <1>4, <1>5 DEF CursorValid
  <2>2. k.part[s] = IF c.part[s].st \in {"outside", "failed"} THEN c.part[s] ELSE [c.part[s] EXCEPT !.st = "waiting"]
    BY <1>8 DEF Resumed
  <2>3. CASE c.part[s].st \in {"outside", "failed"}
    BY <2>1, <2>2, <2>3
  <2>4. CASE c.part[s].st = "done"
    BY <2>1, <2>2, <2>4 DEF PartRecord
  <2> QED BY <2>1, <2>3, <2>4
<1>10. k.part \in [Session -> PartRecord]
  <2>1. k.part = [s \in Session |-> k.part[s]]
    BY <1>8 DEF Resumed
  <2> QED BY <1>9, <2>1
<1>11. k \in SearchRecord
  <2>1. Resumed(c) \in [Session -> PartRecord] /\ {c.before} \in SUBSET Hit
    BY <1>5, <1>8, <1>10
  <2> QED BY <1>4, <1>6, <2>1 DEF SearchRecord, CursorRecord
<1>12. FrozenIn(k.part)
  BY <1>4, <1>9 DEF FrozenIn
<1>13. SearchValid(k)
  <2>1. IsFiniteSet({})
    BY FS_EmptySet
  <2>2. \A g \in c.seen : g = c.before \/ Newer(g, c.before)
    BY <1>4 DEF CursorValid
  <2>3. ASSUME NEW s \in Session, k.part[s].st = "waiting" PROVE ToAnswer(k, k.part[s])
    <3>1. c.part[s].leaf # Unfrozen /\ \A h \in c.part[s].all : h \in c.seen \/ Newer(c.before, h)
      BY <1>4, <1>9, <2>3 DEF CursorValid
    <3> QED BY <1>8, <1>9, <3>1 DEF ToAnswer
  <2> QED BY <1>8, <1>9, <2>1, <2>2, <2>3 DEF SearchValid
<1>14. req' \in [Request -> SearchRecord \cup {NoRequest}] /\ RequestsValid'
  BY <1>7, <1>11, <1>12, <1>13, OneSearchStep
<1>15. CursorsValid'
  <2>1. \A n \in DOMAIN cursors' : cursors'[n] \in {} \/ \E j \in DOMAIN cursors : cursors'[n] = cursors[j]
    BY <1>1, <1>7
  <2> QED BY <1>7, <2>1, StoreStep
<1>16. BranchesValid'
  BY <1>7, SameBranches
<1>17. StoreBounded' /\ held' \in Nat
  <2>1. held' = Sizes(Live, DOMAIN Live)
    BY <1>1, <1>7 DEF LiveHeld, StoreBounded
  <2>2. IsFiniteSet(DOMAIN Live) /\ IsFiniteSet(DOMAIN cursors)
    BY <1>1, FS_Interval DEF SearchTypeOK
  <2>3. Dead \in SUBSET DOMAIN cursors
    BY DEF Dead
  <2>4. Sizes(Live, DOMAIN Live) \in Nat /\ Sizes(cursors, DOMAIN cursors) \in Nat /\ Sizes(cursors, Dead) \in Nat
    BY <2>2, <2>3, FS_Subset, SizesAddUp
  <2>5. held' <= held /\ held \in Nat /\ MaxParticipants \in Nat /\ Len(Live) \in Nat /\ Len(cursors) \in Nat
        /\ MaxCursors \in Nat
    BY <1>1, <2>1, <2>4, SearchAssumption DEF StoreBounded, SearchTypeOK
  <2>6. held' = Sizes(cursors', DOMAIN cursors')
    BY <1>7, <2>1 DEF Sizes
  <2>7. Len(cursors') <= MaxCursors /\ held' <= MaxParticipants /\ held' \in Nat
    BY <1>1, <1>7, <2>1, <2>4, <2>5 DEF StoreBounded
  <2> QED BY <2>6, <2>7 DEF StoreBounded, Sizes
<1>18. SearchTypeOK'
  BY <1>1, <1>7, <1>14, <1>17 DEF SearchTypeOK
<1> QED BY <1>14, <1>15, <1>16, <1>17, <1>18

\* Who is asked answers for what was frozen, or freezes it.
LEMMA AskStep ==
  ASSUME SearchInv, NEW r \in Request, Ask(r)
  PROVE  SearchInv'
<1> USE DEF SearchInv
<1>1. ~Idle(r) /\ UNCHANGED <<branch, minted, membership, online, cursors, held, clock, searches, changes>>
  BY DEF Ask, worldVars
<1>2. PICK s \in InState(r, "waiting") : s = Min(InState(r, "waiting"))
  <2>1. InState(r, "waiting") \in SUBSET Nat /\ InState(r, "waiting") # {}
    BY SearchAssumption DEF Ask, InState
  <2> QED BY <2>1, MinIsIn
<1>3. s \in Session /\ req[r].part[s].st = "waiting"
  BY DEF InState
<1>4. PICK q \in SearchRecord : q = req[r]
  BY <1>1 DEF SearchTypeOK, Idle
<1>5. PICK p \in PartRecord : p = q.part[s]
  BY <1>3 DEF SearchRecord
<1>6. SearchValid(q) /\ FrozenIn(q.part) /\ p.st = "waiting" /\ ToAnswer(q, p)
  BY <1>1, <1>3, <1>4, <1>5 DEF RequestsValid, SearchValid
<1>7. /\ p.leaf \in Nat \cup {Unfrozen} /\ p.all \in SUBSET Hit /\ q.before \in SUBSET Hit
      /\ p.leaf # Unfrozen => Frozen(s, p.leaf, p.all)
      /\ p.reply.t = "page" => Frozen(s, p.reply.leaf, p.reply.all)
  BY <1>3, <1>4, <1>5, <1>6 DEF PartRecord, SearchRecord, FrozenIn
<1>8. CASE Drop(r)
  BY <1>1, <1>8, DropStep
<1>9. CASE SetPart(r, s, [p EXCEPT !.st = "failed"])
  <2>1. PICK x : x = [p EXCEPT !.st = "failed"]
    OBVIOUS
  <2>2. x \in PartRecord /\ x.st = "failed" /\ x.leaf = p.leaf /\ x.all = p.all /\ x.reply = p.reply
    BY <2>1 DEF PartRecord
  <2>3. PartStep(req[r], s, x)
    BY <1>3, <1>4, <1>5, <1>7, <2>2 DEF PartStep
  <2>4. SetPart(r, s, x)
    BY <1>9, <2>1
  <2> QED BY <1>1, <1>3, <2>2, <2>3, <2>4, SetPartStep
<1>10. CASE SetPart(r, s, [p EXCEPT !.st = "asked",
                             !.reply = Answer(s, p.leaf, {PerSessionBefore(b, s) : b \in req[r].before})])
  <2> DEFINE bounds == {PerSessionBefore(b, s) : b \in q.before}
  <2>0. /\ \A b \in q.before : PerSessionBefore(b, s) \in bounds
        /\ \A y \in bounds : \E b \in q.before : y = PerSessionBefore(b, s)
    OBVIOUS
  <2> HIDE DEF bounds
  <2>1. PICK y : y = Answer(s, p.leaf, bounds)
    OBVIOUS
  <2>2. /\ y \in ReplyRecord /\ y.t \in {"page", "rewound"}
        /\ y.t = "page" =>
             /\ Frozen(s, y.leaf, y.all)
             /\ p.leaf # Unfrozen => y.leaf = p.leaf /\ y.all = p.all
             /\ y.hits = Newest(AllBelow(y.all, q.before), PageLimit)
             /\ y.more <=> Cardinality(AllBelow(y.all, q.before)) > PageLimit
    <3>1. SearchTypeOK /\ BranchesValid
      OBVIOUS
    <3> HIDE DEF SearchInv
    <3>2. PICK leaf \in Nat \cup {Unfrozen} : leaf = p.leaf
      BY <1>7
    <3>3. PICK all \in SUBSET Hit : all = p.all
      BY <1>7
    <3>4. PICK before \in SUBSET Hit : before = q.before
      BY <1>7
    <3>5. leaf # Unfrozen => Frozen(s, leaf, all)
      BY <1>7, <3>2, <3>3
    <3>6. /\ \A b \in before : PerSessionBefore(b, s) \in bounds
          /\ \A x \in bounds : \E b \in before : x = PerSessionBefore(b, s)
      BY <2>0, <3>4
    <3>7. y = Answer(s, leaf, bounds)
      BY <2>1, <3>2
    <3>8. /\ y \in ReplyRecord /\ y.t \in {"page", "rewound"}
          /\ y.t = "page" =>
               /\ Frozen(s, y.leaf, y.all)
               /\ leaf # Unfrozen => y.leaf = leaf /\ y.all = all
               /\ y.hits = Newest(AllBelow(y.all, before), PageLimit)
               /\ y.more <=> Cardinality(AllBelow(y.all, before)) > PageLimit
      BY <1>3, <3>1, <3>5, <3>6, <3>7, AnswerIs
    <3> QED BY <3>2, <3>3, <3>4, <3>8
  <2>3. PICK x : x = [p EXCEPT !.st = "asked", !.reply = y]
    OBVIOUS
  <2>4. x \in PartRecord /\ x.st = "asked" /\ x.leaf = p.leaf /\ x.all = p.all /\ x.reply = y
    BY <2>2, <2>3 DEF PartRecord
  <2>5. x.reply.t = "page" => PageValid(q, x)
    BY <2>2, <2>4 DEF PageValid, AllBelow
  <2>6. PartStep(req[r], s, x)
    BY <1>3, <1>4, <1>5, <2>2, <2>4, <2>5 DEF PartStep
  <2>7. SetPart(r, s, x)
    BY <1>4, <1>10, <2>1, <2>3 DEF bounds
  <2> QED BY <1>1, <1>3, <2>4, <2>6, <2>7, SetPartStep
<1>11. Drop(r) \/ SetPart(r, s, [p EXCEPT !.st = "failed"])
         \/ SetPart(r, s, [p EXCEPT !.st = "asked",
                             !.reply = Answer(s, p.leaf, {PerSessionBefore(b, s) : b \in req[r].before})])
  BY <1>2, <1>4, <1>5 DEF Ask
<1> QED BY <1>8, <1>9, <1>10, <1>11

\* An answer arrives.
LEMMA ReceiveStep ==
  ASSUME SearchInv, NEW r \in Request, NEW s \in Session, Receive(r, s)
  PROVE  SearchInv'
<1> USE DEF SearchInv
<1>1. /\ ~Idle(r) /\ req[r].part[s].st = "asked"
      /\ UNCHANGED <<branch, minted, membership, online, cursors, held, clock, searches, changes>>
  BY DEF Receive, worldVars, InState
<1>2. PICK q \in SearchRecord : q = req[r]
  BY <1>1 DEF SearchTypeOK, Idle
<1>3. PICK o \in PartRecord : o = q.part[s]
  BY DEF SearchRecord
<1>4. PICK page : page = o.reply
  OBVIOUS
<1>5. PICK p : p = [o EXCEPT !.reply = NoReply]
  OBVIOUS
<1>6. /\ SearchValid(q) /\ FrozenIn(q.part) /\ o.st = "asked" /\ page.t # "none"
      /\ page.t = "page" => PageValid(q, o)
  BY <1>1, <1>2, <1>3, <1>4 DEF RequestsValid, SearchValid
<1>7. page \in ReplyRecord /\ NoReply \in ReplyRecord /\ NoReply.t # "page"
  BY <1>4, NoPages DEF PartRecord
<1>8. /\ p \in PartRecord /\ p.st = "asked" /\ p.leaf = o.leaf /\ p.all = o.all /\ p.reply = NoReply
      /\ p.version = o.version
  BY <1>5, <1>6, <1>7 DEF PartRecord
<1>9. CASE Drop(r)
  BY <1>1, <1>9, DropStep
<1>10. CASE SetPart(r, s, [p EXCEPT !.st = "failed"])
  <2>1. PICK x : x = [p EXCEPT !.st = "failed"]
    OBVIOUS
  <2>2. x \in PartRecord /\ x.st = "failed" /\ x.leaf = o.leaf /\ x.all = o.all /\ x.reply = NoReply
    BY <1>8, <2>1 DEF PartRecord
  <2>3. PartStep(req[r], s, x)
    BY <1>2, <1>3, <1>6, <1>7, <2>2 DEF PartStep
  <2>4. SetPart(r, s, x)
    BY <1>10, <2>1
  <2> QED BY <1>1, <2>2, <2>3, <2>4, SetPartStep
<1>11. ASSUME page.t = "page",
              req' = [req EXCEPT
                ![r].part[s] = [p EXCEPT !.st = "done", !.leaf = page.leaf,
                                         !.all = IF p.leaf = Unfrozen THEN page.all ELSE @],
                ![r].hits = Merged(r, page),
                ![r].more = @ \/ page.more \/ Cardinality(req[r].hits \cup page.hits) > PageLimit]
       PROVE  SearchInv'
  <2>1. PICK x : x = [p EXCEPT !.st = "done", !.leaf = page.leaf,
                               !.all = IF p.leaf = Unfrozen THEN page.all ELSE @]
    OBVIOUS
  <2>2. page.leaf \in Nat /\ page.all \in SUBSET Hit /\ page.hits \in SUBSET Hit
    BY <1>7 DEF ReplyRecord
  <2>3. o.leaf # Unfrozen => page.all = o.all
    BY <1>6, <1>4, <1>11 DEF PageValid
  <2>4. x \in PartRecord /\ x.st = "done" /\ x.leaf = page.leaf /\ x.all = page.all /\ x.reply = NoReply
    BY <1>7, <1>8, <2>1, <2>2, <2>3 DEF PartRecord
  <2>5. PICK more \in BOOLEAN : more <=> q.more \/ page.more \/ Cardinality(q.hits \cup page.hits) > PageLimit
    OBVIOUS
  <2>6. PICK k : k = [q EXCEPT !.part[s] = x, !.hits = Newest(q.hits \cup page.hits, PageLimit), !.more = more]
    OBVIOUS
  <2>7. /\ q.part \in [Session -> PartRecord] /\ q.hits \in SUBSET Hit
        /\ k.before = q.before /\ k.seen = q.seen /\ k.hits = Newest(q.hits \cup page.hits, PageLimit)
        /\ (k.more <=> more) /\ k.part = [q.part EXCEPT ![s] = x]
    BY <2>6 DEF SearchRecord
  <2>8. k \in SearchRecord
    <3>1. Newest(q.hits \cup page.hits, PageLimit) \in SUBSET Hit
      BY <2>2, <2>7 DEF Newest
    <3> QED BY <2>4, <2>6, <2>7, <3>1 DEF SearchRecord
  <2>9. k.part[s] = x /\ \A t \in Session \ {s} : k.part[t] = q.part[t]
    BY <2>7
  <2>10. SearchValid(k) /\ FrozenIn(k.part)
    <3>1. page = q.part[s].reply /\ q.part[s].st = "asked" /\ page.t = "page" /\ SearchValid(q) /\ FrozenIn(q.part)
      BY <1>3, <1>4, <1>6, <1>11
    <3>2. k.more <=> q.more \/ page.more \/ Cardinality(q.hits \cup page.hits) > PageLimit
      BY <2>5, <2>7
    <3>3. /\ k.part[s].st = "done" /\ k.part[s].leaf = page.leaf /\ k.part[s].all = page.all
          /\ k.part[s].reply.t # "page"
      BY <1>7, <2>4, <2>9
    <3>4. k.before = q.before /\ k.seen = q.seen /\ k.hits = Newest(q.hits \cup page.hits, PageLimit)
      BY <2>7
    <3> HIDE DEF SearchInv
    <3> QED BY <2>8, <2>9, <3>1, <3>2, <3>3, <3>4, Receives
  <2>11. req' = [req EXCEPT ![r] = k]
    BY <1>2, <1>11, <2>1, <2>5, <2>6 DEF Merged, SearchTypeOK
  <2>12. req' \in [Request -> SearchRecord \cup {NoRequest}] /\ RequestsValid'
    BY <1>1, <2>8, <2>10, <2>11, OneSearchStep
  <2> QED BY <1>1, <2>12, RequestOnly
<1>12. \/ Drop(r) \/ SetPart(r, s, [p EXCEPT !.st = "failed"])
       \/ /\ page.t \notin {"rewound", "lost"}
          /\ req' = [req EXCEPT
               ![r].part[s] = [p EXCEPT !.st = "done", !.leaf = page.leaf,
                                        !.all = IF p.leaf = Unfrozen THEN page.all ELSE @],
               ![r].hits = Merged(r, page),
               ![r].more = @ \/ page.more \/ Cardinality(req[r].hits \cup page.hits) > PageLimit]
  <2> DEFINE Outcome(a, b) ==
               \/ Drop(r) \/ SetPart(r, s, [a EXCEPT !.st = "failed"])
               \/ /\ b.t \notin {"rewound", "lost"}
                  /\ req' = [req EXCEPT
                       ![r].part[s] = [a EXCEPT !.st = "done", !.leaf = b.leaf,
                                                !.all = IF a.leaf = Unfrozen THEN b.all ELSE @],
                       ![r].hits = Merged(r, b),
                       ![r].more = @ \/ b.more \/ Cardinality(req[r].hits \cup b.hits) > PageLimit]
  <2> HIDE DEF SearchInv
  <2>1. Outcome([req[r].part[s] EXCEPT !.reply = NoReply], req[r].part[s].reply)
    BY DEF Receive
  <2>2. p = [req[r].part[s] EXCEPT !.reply = NoReply] /\ page = req[r].part[s].reply
    BY <1>2, <1>3, <1>4, <1>5
  <2> HIDE DEF Outcome
  <2>3. Outcome(p, page)
    BY <2>1, <2>2
  <2> QED BY <2>3 DEF Outcome
<1>13. page.t \notin {"rewound", "lost"} => page.t = "page"
  BY <1>6, <1>7 DEF ReplyRecord
<1> QED BY <1>9, <1>10, <1>11, <1>12, <1>13

\* A page goes out, and its cursor goes on where it ended.
LEMMA FinishStep ==
  ASSUME SearchInv, NEW r \in Request, Finish(r)
  PROVE  SearchInv'
<1> USE DEF SearchInv
<1>1. /\ ~Idle(r) /\ Drop(r) /\ UNCHANGED <<branch, minted, membership, online, clock, searches, changes>>
      /\ InState(r, "waiting") \cup InState(r, "asked") = {}
  BY DEF Finish, worldVars, AllIn
<1>2. CASE UNCHANGED <<cursors, held>>
  BY <1>1, <1>2, DropStep
<1>3. ASSUME req[r].more, req[r].hits # {}, Size(CursorOf(r)) <= MaxParticipants, SaveCursor(CursorOf(r))
      PROVE  SearchInv'
  <2>1. PICK q \in SearchRecord : q = req[r]
    BY <1>1 DEF SearchTypeOK, Idle
  <2>2. SearchValid(q) /\ FrozenIn(q.part)
    BY <1>1, <2>1 DEF RequestsValid
  <2>3. q.hits \in SUBSET Hit /\ q.seen \in SUBSET Hit /\ q.before \in SUBSET Hit /\ q.part \in [Session -> PartRecord]
    BY DEF SearchRecord
  <2>4. PICK b : b = Oldest(q.hits)
    OBVIOUS
  <2>5. b \in q.hits /\ \A g \in q.hits : g = b \/ Newer(g, b)
    <3>1. IsFiniteSet(q.hits) /\ q.hits # {}
      BY <1>3, <2>1, <2>2 DEF SearchValid
    <3> QED BY <2>3, <2>4, <3>1, OldestIs
  <2>6. PICK c : c = [owner |-> q.owner, version |-> q.version, born |-> q.born, part |-> q.part,
                      before |-> b, seen |-> q.seen \cup q.hits]
    OBVIOUS
  <2>7. c = CursorOf(r)
    BY <2>1, <2>4, <2>6 DEF CursorOf, Boundary
  <2>8. c \in CursorRecord
    BY <2>3, <2>5, <2>6 DEF SearchRecord, CursorRecord
  <2>9. c.part = q.part /\ c.before = b /\ c.seen = q.seen \cup q.hits
    BY <2>6
  <2>10. CursorValid(c)
    <3>1. ASSUME NEW g \in c.seen PROVE g = c.before \/ Newer(g, c.before)
      <4>1. CASE g \in q.hits
        BY <2>5, <2>9, <4>1
      <4>2. CASE g \in q.seen
        <5>1. PICK d \in q.before : TRUE
          BY <2>2, <4>2 DEF SearchValid
        <5>2. (g = d \/ Newer(g, d)) /\ Newer(d, b)
          BY <2>2, <2>5, <4>2, <5>1 DEF SearchValid
        <5>3. g \in Hit /\ d \in Hit /\ b \in Hit
          BY <2>3, <2>5, <4>2, <5>1
        <5> QED BY <2>9, <5>2, <5>3, Order
      <4> QED BY <2>9, <4>1, <4>2
    <3>2. ASSUME NEW s \in Session
          PROVE  /\ c.part[s].st \in {"outside", "failed", "done"}
                 /\ c.part[s].st = "done" => /\ c.part[s].leaf # Unfrozen
                                             /\ \A h \in c.part[s].all : h \in c.seen \/ Newer(c.before, h)
      <4>1. q.part[s].st \notin {"waiting", "asked"}
        BY <1>1, <2>1 DEF InState
      <4>2. q.part[s].st \in {"outside", "failed", "done"}
        BY <2>3, <4>1 DEF PartRecord
      <4>3. ASSUME q.part[s].st = "done"
            PROVE  q.part[s].leaf # Unfrozen /\ \A h \in q.part[s].all : Covered(q, h)
        BY <2>2, <4>3 DEF SearchValid
      <4>4. \A h : Covered(q, h) => h \in c.seen \/ Newer(c.before, h)
        BY <2>5, <2>9 DEF Covered
      <4> QED BY <2>9, <4>2, <4>3, <4>4
    <3> QED BY <3>1, <3>2 DEF CursorValid
  <2>11. FrozenIn(c.part)
    BY <2>2, <2>9
  <2>12. /\ cursors' \in Seq(CursorRecord) /\ held' \in Nat /\ StoreBounded'
         /\ \A i \in DOMAIN cursors' : cursors'[i] = c \/ \E j \in DOMAIN cursors : cursors'[i] = cursors[j]
    BY <1>3, <2>7, <2>8, Saves
  <2>13. CursorsValid'
    <3>1. PICK new : new = {c}
      OBVIOUS
    <3>2. \A i \in DOMAIN cursors' : cursors'[i] \in new \/ \E j \in DOMAIN cursors : cursors'[i] = cursors[j]
      BY <2>12, <3>1
    <3>3. UNCHANGED <<branch, minted>>
      BY <1>1
    <3> QED BY <2>10, <2>11, <3>1, <3>2, <3>3, StoreStep
  <2>14. req' \in [Request -> SearchRecord \cup {NoRequest}] /\ RequestsValid'
    <3>1. PICK k \in SearchRecord \cup {NoRequest} : k = NoRequest
      OBVIOUS
    <3>2. req' = [req EXCEPT ![r] = k]
      BY <1>1, <3>1 DEF Drop
    <3> QED BY <1>1, <3>1, <3>2, OneSearchStep
  <2>15. BranchesValid'
    BY <1>1, SameBranches
  <2>16. SearchTypeOK'
    BY <1>1, <2>12, <2>14 DEF SearchTypeOK
  <2> QED BY <2>12, <2>13, <2>14, <2>15, <2>16
<1> QED BY <1>2, <1>3 DEF Finish

\* What is a search's after those asked can answer no more.
LEMMA LostIs ==
  ASSUME SearchInv, NEW r \in Request, ~Idle(r), NEW lost \in SUBSET Session,
         \A s \in lost : req[r].part[s].st = "asked",
         NEW k, k.part = [s \in Session |-> IF s \in lost THEN [req[r].part[s] EXCEPT !.reply = LostReply]
                                            ELSE req[r].part[s]],
         NEW late \in BOOLEAN, k = [req[r] EXCEPT !.part = k.part, !.late = late]
  PROVE  k \in SearchRecord /\ SearchValid(k) /\ FrozenIn(k.part)
<1>1. PICK q \in SearchRecord : q = req[r]
  BY DEF SearchInv, SearchTypeOK, Idle
<1>2. SearchValid(q) /\ FrozenIn(q.part) /\ q.part \in [Session -> PartRecord]
  BY <1>1 DEF SearchInv, RequestsValid, SearchRecord
<1>3. LostReply \in ReplyRecord /\ LostReply.t = "lost"
  BY NoPages DEF LostReply, Reply
<1>4. ASSUME NEW s \in Session
      PROVE  k.part[s] \in PartRecord /\ (k.part[s] = q.part[s] \/ PartStep(q, s, k.part[s]))
  <2>1. CASE s \in lost
    <3>1. k.part[s] = [q.part[s] EXCEPT !.reply = LostReply] /\ q.part[s].st = "asked" /\ q.part[s] \in PartRecord
      BY <1>1, <1>2, <2>1
    <3>2. /\ k.part[s] \in PartRecord /\ k.part[s].reply = LostReply /\ k.part[s].st = "asked"
          /\ k.part[s].leaf = q.part[s].leaf /\ k.part[s].all = q.part[s].all
      BY <1>3, <3>1 DEF PartRecord
    <3> QED BY <1>3, <3>1, <3>2 DEF PartStep
  <2>2. CASE s \notin lost
    BY <1>1, <1>2, <2>2
  <2> QED BY <2>1, <2>2
<1>5. k.part \in [Session -> PartRecord]
  BY <1>4
<1>6. k.before = q.before /\ k.seen = q.seen /\ k.hits = q.hits /\ (k.more <=> q.more)
  BY <1>1 DEF SearchRecord
<1>7. k \in SearchRecord
  BY <1>1, <1>5 DEF SearchRecord
<1>8. SearchValid(k) /\ FrozenIn(k.part)
  BY <1>2, <1>4, <1>6, <1>7, PartsStep
<1> QED BY <1>7, <1>8

\* The time of a search is up.
LEMMA DeadlineStep ==
  ASSUME SearchInv, NEW r \in Request, Deadline(r)
  PROVE  SearchInv'
<1>1. ~Idle(r) /\ UNCHANGED <<branch, minted, membership, online, cursors, held, clock, searches, changes>>
  BY DEF Deadline, worldVars
<1>2. PICK lost \in SUBSET Session : lost = {s \in Session : req[r].part[s].st = "asked"}
  OBVIOUS
<1>3. PICK part : part = [s \in Session |-> IF s \in lost THEN [req[r].part[s] EXCEPT !.reply = LostReply]
                                            ELSE req[r].part[s]]
  OBVIOUS
<1>4. PICK k : k = [req[r] EXCEPT !.part = part, !.late = TRUE]
  OBVIOUS
<1>5. req[r] \in SearchRecord
  BY <1>1 DEF SearchInv, SearchTypeOK, Idle
<1>6. k.part = part
  BY <1>4, <1>5 DEF SearchRecord
<1>7. k \in SearchRecord /\ SearchValid(k) /\ FrozenIn(k.part)
  BY <1>1, <1>2, <1>3, <1>4, <1>6, LostIs
<1>8. req' = [req EXCEPT ![r] = k]
  BY <1>2, <1>3, <1>4, <1>5 DEF Deadline, SearchInv, SearchTypeOK, SearchRecord
<1>9. req' \in [Request -> SearchRecord \cup {NoRequest}] /\ RequestsValid'
  BY <1>1, <1>7, <1>8, OneSearchStep DEF SearchInv
<1> QED BY <1>1, <1>9, RequestOnly

\* What changes about branches leaves what was frozen of them.
LEMMA BranchStep ==
  ASSUME SearchInv, SearchTypeOK', BranchesValid', UNCHANGED <<cursors, held, req>>,
         \A s \in Session : minted[s] <= minted'[s],
         \A s \in Session : \A i \in DOMAIN branch'[s] :
           \/ i \in DOMAIN branch[s] /\ branch'[s][i] = branch[s][i]
           \/ branch'[s][i].id > minted[s]
  PROVE  SearchInv'
<1> USE DEF SearchInv
<1>1. ASSUME NEW part \in [Session -> PartRecord], FrozenIn(part) PROVE FrozenIn(part)'
  <2> SUFFICES ASSUME NEW s \in Session
               PROVE  /\ part[s].leaf # Unfrozen => Frozen(s, part[s].leaf, part[s].all)'
                      /\ part[s].reply.t = "page" => Frozen(s, part[s].reply.leaf, part[s].reply.all)'
    BY DEF FrozenIn
  <2>1. \A leaf \in Nat : \A all : Frozen(s, leaf, all) => Frozen(s, leaf, all)'
    BY FrozenStays
  <2>2. part[s].leaf \in Nat \cup {Unfrozen} /\ part[s].reply.leaf \in Nat
    <3>1. part[s].leaf \in Nat \cup {Unfrozen} /\ part[s].reply \in ReplyRecord
      BY DEF PartRecord
    <3> QED BY <3>1 DEF ReplyRecord
  <2>3. /\ part[s].leaf # Unfrozen => Frozen(s, part[s].leaf, part[s].all)
        /\ part[s].reply.t = "page" => Frozen(s, part[s].reply.leaf, part[s].reply.all)
    BY <1>1 DEF FrozenIn
  <2> QED BY <2>1, <2>2, <2>3
<1>2. RequestsValid'
  <2> SUFFICES ASSUME NEW r \in Request, ~Idle(r)' PROVE SearchValid(req[r])' /\ FrozenIn(req[r].part)'
    BY DEF RequestsValid
  <2>1. PICK q \in SearchRecord : q = req[r]
    BY DEF SearchTypeOK, Idle
  <2>2. SearchValid(q) /\ FrozenIn(q.part) /\ q.part \in [Session -> PartRecord]
    BY <2>1 DEF RequestsValid, Idle, SearchRecord
  <2>3. FrozenIn(q.part)'
    BY <1>1, <2>2
  <2> QED BY <2>1, <2>2, <2>3
<1>3. CursorsValid'
  <2> SUFFICES ASSUME NEW i \in DOMAIN cursors PROVE CursorValid(cursors[i])' /\ FrozenIn(cursors[i].part)'
    BY DEF CursorsValid
  <2>1. PICK c \in CursorRecord : c = cursors[i]
    BY DEF SearchTypeOK
  <2>2. CursorValid(c) /\ FrozenIn(c.part) /\ c.part \in [Session -> PartRecord]
    BY <2>1 DEF CursorsValid, CursorRecord
  <2>3. FrozenIn(c.part)'
    BY <1>1, <2>2
  <2> QED BY <2>1, <2>2, <2>3
<1>4. StoreBounded'
  BY DEF StoreBounded, Sizes
<1> QED BY <1>2, <1>3, <1>4

\* A session writes.
LEMMA WritesStep ==
  ASSUME SearchInv, NEW s \in Session, NEW m \in Kind, Writes(s, m)
  PROVE  SearchInv'
<1> USE DEF SearchInv
<1>1. UNCHANGED <<cursors, held, req, membership, online, clock, searches>> /\ changes' = changes + 1
  BY DEF Writes, Changing
<1>2. PICK new : new = Message(minted[s] + 1, m)
  OBVIOUS
<1>3. new \in MessageRecord /\ new.id = minted[s] + 1 /\ minted[s] \in Nat
  BY <1>2, SearchAssumption DEF Message, MessageRecord, SearchTypeOK
<1>4. PICK b \in Seq(MessageRecord) : b = branch[s]
  BY DEF SearchTypeOK
<1>5. PICK c : c = Append(b, new)
  OBVIOUS
<1>6. /\ c \in Seq(MessageRecord) /\ Len(c) = Len(b) + 1 /\ Len(b) \in Nat /\ DOMAIN c = 1..(Len(b) + 1)
      /\ \A i \in DOMAIN b : c[i] = b[i]
      /\ c[Len(b) + 1] = new /\ DOMAIN b = 1..Len(b)
  BY <1>3, <1>5
<1>7. /\ branch' = [branch EXCEPT ![s] = c] /\ Len(b) < MaxBranch
      /\ minted' = [minted EXCEPT ![s] = minted[s] + 1]
  BY <1>2, <1>4, <1>5 DEF Writes
<1>8. /\ branch \in [Session -> Seq(MessageRecord)] /\ minted \in [Session -> Nat]
      /\ branch'[s] = c /\ minted'[s] = minted[s] + 1
      /\ \A t \in Session \ {s} : branch'[t] = branch[t] /\ minted'[t] = minted[t]
  BY <1>7 DEF SearchTypeOK
<1>9. SearchTypeOK'
  <2>1. branch' \in [Session -> Seq(MessageRecord)] /\ minted' \in [Session -> Nat]
    BY <1>3, <1>6, <1>7, <1>8
  <2> QED BY <1>1, <2>1 DEF SearchTypeOK
<1>10. \A i \in DOMAIN c : i \in DOMAIN b \/ i = Len(b) + 1
  BY <1>6
<1>11. /\ \A i \in DOMAIN b : b[i].id <= minted[s] /\ b[i].id \in Nat
       /\ \A i, j \in DOMAIN b : i < j => b[i].id < b[j].id
  BY <1>4, Messages DEF BranchesValid
<1>12. Len(c) <= MaxBranch
  BY <1>6, <1>7, SearchAssumption
<1>13. \A i \in DOMAIN c : c[i].id <= minted'[s]
  BY <1>3, <1>6, <1>8, <1>10, <1>11
<1>14. ASSUME NEW i \in DOMAIN c, NEW j \in DOMAIN c, i < j PROVE c[i].id < c[j].id
  <2>1. i \in DOMAIN b
    BY <1>6, <1>14
  <2>2. CASE j \in DOMAIN b
    BY <1>6, <1>11, <1>14, <2>1, <2>2
  <2>3. CASE j = Len(b) + 1
    <3>1. c[i].id <= minted[s] /\ c[i].id \in Nat /\ c[j].id = minted[s] + 1
      BY <1>3, <1>6, <1>11, <2>1, <2>3
    <3> QED BY <1>3, <3>1
  <2> QED BY <1>10, <2>2, <2>3
<1>15. BranchesValid'
  <2> SUFFICES ASSUME NEW t \in Session
               PROVE  /\ Len(branch'[t]) <= MaxBranch
                      /\ \A i \in DOMAIN branch'[t] : branch'[t][i].id <= minted'[t]
                      /\ \A i, j \in DOMAIN branch'[t] : i < j => branch'[t][i].id < branch'[t][j].id
    BY DEF BranchesValid
  <2>1. CASE t = s
    BY <1>8, <1>12, <1>13, <1>14, <2>1
  <2>2. CASE t # s
    BY <1>8, <2>2 DEF BranchesValid
  <2> QED BY <2>1, <2>2
<1>16. ASSUME NEW t \in Session PROVE minted[t] <= minted'[t]
  <2>1. minted[t] \in Nat
    BY <1>8
  <2>2. minted'[t] = minted[t] \/ minted'[t] = minted[t] + 1
    BY <1>8
  <2> QED BY <2>1, <2>2
<1>17. ASSUME NEW t \in Session, NEW i \in DOMAIN branch'[t]
       PROVE  \/ i \in DOMAIN branch[t] /\ branch'[t][i] = branch[t][i]
              \/ branch'[t][i].id > minted[t]
  <2>1. CASE t = s
    <3>1. i \in DOMAIN c /\ branch[t] = b /\ branch'[t] = c
      BY <1>4, <1>8, <2>1
    <3>2. CASE i \in DOMAIN b
      BY <1>6, <3>1, <3>2
    <3>3. CASE i = Len(b) + 1
      <4>1. branch'[t][i].id = minted[t] + 1 /\ minted[t] \in Nat
        BY <1>3, <1>6, <2>1, <3>1, <3>3
      <4> QED BY <4>1
    <3> QED BY <1>10, <3>1, <3>2, <3>3
  <2>2. CASE t # s
    BY <1>8, <2>2
  <2> QED BY <2>1, <2>2
<1> QED BY <1>1, <1>9, <1>15, <1>16, <1>17, BranchStep

\* A session goes back on its branch.
LEMMA RewindsStep ==
  ASSUME SearchInv, NEW s \in Session, Rewinds(s)
  PROVE  SearchInv'
<1> USE DEF SearchInv
<1>1. UNCHANGED <<cursors, held, req, membership, online, clock, searches, minted>> /\ changes' = changes + 1
  BY DEF Rewinds, Changing
<1>2. PICK b \in Seq(MessageRecord) : b = branch[s]
  BY DEF SearchTypeOK
<1>3. PICK n \in 0..Len(b) - 1 : branch' = [branch EXCEPT ![s] = SubSeq(b, 1, n)]
  BY <1>2 DEF Rewinds
<1>4. PICK c : c = SubSeq(b, 1, n)
  OBVIOUS
<1>5. /\ n \in Nat /\ n <= Len(b) /\ Len(b) \in Nat /\ DOMAIN b = 1..Len(b)
  OBVIOUS
<1>6. /\ c \in Seq(MessageRecord) /\ Len(c) = n /\ DOMAIN c = 1..n /\ \A i \in 1..n : c[i] = b[i]
  <2>1. 1 \in Int /\ n \in Int /\ \A i \in 1..n : b[i] \in MessageRecord
    BY <1>5
  <2>2. /\ SubSeq(b, 1, n) \in Seq(MessageRecord)
        /\ Len(SubSeq(b, 1, n)) = IF 1 <= n THEN n - 1 + 1 ELSE 0
        /\ \A i \in 1..(n - 1 + 1) : SubSeq(b, 1, n)[i] = b[1 + i - 1]
    BY <2>1, SubSeqProperties
  <2>3. Len(c) = n /\ c \in Seq(MessageRecord)
    BY <1>4, <1>5, <2>2
  <2>4. ASSUME NEW i \in 1..n PROVE c[i] = b[i]
    <3>1. i \in 1..(n - 1 + 1) /\ 1 + i - 1 = i
      BY <1>5
    <3>2. c[i] = b[1 + i - 1]
      BY <1>4, <2>2, <3>1
    <3> QED BY <3>1, <3>2
  <2> QED BY <2>3, <2>4
<1>7. /\ branch \in [Session -> Seq(MessageRecord)] /\ minted \in [Session -> Nat]
      /\ branch'[s] = c /\ \A t \in Session \ {s} : branch'[t] = branch[t]
      /\ branch' = [branch EXCEPT ![s] = c]
  BY <1>3, <1>4 DEF SearchTypeOK
<1>8. SearchTypeOK'
  <2>1. branch' \in [Session -> Seq(MessageRecord)]
    BY <1>6, <1>7
  <2> QED BY <1>1, <2>1 DEF SearchTypeOK
<1>9. \A i \in DOMAIN c : i \in DOMAIN b
  BY <1>5, <1>6
<1>10. /\ Len(b) <= MaxBranch /\ \A i \in DOMAIN b : b[i].id <= minted[s]
       /\ \A i, j \in DOMAIN b : i < j => b[i].id < b[j].id
  BY <1>2 DEF BranchesValid
<1>11. Len(c) <= MaxBranch
  BY <1>5, <1>6, <1>10, SearchAssumption
<1>12. BranchesValid'
  <2> SUFFICES ASSUME NEW t \in Session
               PROVE  /\ Len(branch'[t]) <= MaxBranch
                      /\ \A i \in DOMAIN branch'[t] : branch'[t][i].id <= minted'[t]
                      /\ \A i, j \in DOMAIN branch'[t] : i < j => branch'[t][i].id < branch'[t][j].id
    BY DEF BranchesValid
  <2>1. CASE t = s
    BY <1>1, <1>6, <1>7, <1>9, <1>10, <1>11, <2>1
  <2>2. CASE t # s
    BY <1>1, <1>7, <2>2 DEF BranchesValid
  <2> QED BY <2>1, <2>2
<1>13. \A t \in Session : minted[t] <= minted'[t]
  <2>1. \A t \in Session : minted[t] \in Nat
    BY <1>7
  <2> QED BY <1>1, <2>1
<1>14. ASSUME NEW t \in Session, NEW i \in DOMAIN branch'[t]
       PROVE  i \in DOMAIN branch[t] /\ branch'[t][i] = branch[t][i]
  <2>1. CASE t = s
    BY <1>2, <1>6, <1>7, <1>9, <2>1
  <2>2. CASE t # s
    BY <1>7, <2>2
  <2> QED BY <2>1, <2>2
<1> QED BY <1>1, <1>8, <1>12, <1>13, <1>14, BranchStep

\* Nobody's branch changes, and no search.
LEMMA OtherStep ==
  ASSUME SearchInv, UNCHANGED <<branch, minted, cursors, held, req>>, SearchTypeOK'
  PROVE  SearchInv'
<1> USE DEF SearchInv
<1>1. BranchesValid' /\ CursorsValid'
  BY SameBranches DEF CursorsValid
<1>2. RequestsValid'
  BY SameBranches DEF RequestsValid, Idle
<1>3. StoreBounded'
  BY DEF StoreBounded, Sizes
<1> QED BY <1>1, <1>2, <1>3

\* A machine disconnects: every search that waits for it has its answer, that there is none.
LEMMA DisconnectsStep ==
  ASSUME SearchInv, NEW s \in Session, Disconnects(s)
  PROVE  SearchInv'
<1> USE DEF SearchInv
<1>1. UNCHANGED <<branch, minted, membership, cursors, held, clock, searches>> /\ changes' = changes + 1
      /\ online' = online \ {s}
  BY DEF Disconnects, Changing
<1>2. ASSUME NEW r \in Request
      PROVE  /\ req'[r] \in SearchRecord \cup {NoRequest}
             /\ req'[r] # NoRequest => SearchValid(req'[r]) /\ FrozenIn(req[r].part)'
  <2>1. PICK k : k = req'[r]
    OBVIOUS
  <2>2. k = IF ~Idle(r) /\ req[r].part[s].st = "asked" THEN [req[r] EXCEPT !.part[s].reply = LostReply] ELSE req[r]
    BY <2>1 DEF Disconnects
  <2>3. req[r] \in SearchRecord \cup {NoRequest}
    BY DEF SearchTypeOK
  <2>4. CASE ~Idle(r) /\ req[r].part[s].st = "asked"
    <3>1. req[r] \in SearchRecord
      BY <2>3, <2>4 DEF Idle
    <3>2. PICK lost \in SUBSET Session : lost = {s}
      OBVIOUS
    <3>3. PICK late \in BOOLEAN : late = req[r].late
      BY <3>1 DEF SearchRecord
    <3>4. k = [req[r] EXCEPT !.part[s].reply = LostReply]
      BY <2>2, <2>4
    <3>5. req[r].part \in [Session -> PartRecord]
      BY <3>1 DEF SearchRecord
    <3>6. k.part = [t \in Session |-> IF t \in lost THEN [req[r].part[t] EXCEPT !.reply = LostReply]
                                      ELSE req[r].part[t]]
      BY <3>1, <3>2, <3>4, <3>5 DEF SearchRecord
    <3>7. k = [req[r] EXCEPT !.part = k.part, !.late = late]
      BY <3>1, <3>3, <3>4 DEF SearchRecord
    <3>8. k \in SearchRecord /\ SearchValid(k) /\ FrozenIn(k.part)
      <4>1. ~Idle(r) /\ \A t \in lost : req[r].part[t].st = "asked"
        BY <2>4, <3>2
      <4>2. PICK part : part = k.part
        OBVIOUS
      <4>3. part = [t \in Session |-> IF t \in lost THEN [req[r].part[t] EXCEPT !.reply = LostReply]
                                       ELSE req[r].part[t]]
        BY <3>6, <4>2
      <4>4. k = [req[r] EXCEPT !.part = part, !.late = late]
        BY <3>7, <4>2
      <4> HIDE DEF SearchInv
      <4> QED BY <4>1, <4>2, <4>3, <4>4, LostIs
    <3>9. FrozenIn(k.part)'
      BY <1>1, <3>8, SameBranches
    <3> QED BY <2>1, <3>8, <3>9
  <2>5. CASE ~(~Idle(r) /\ req[r].part[s].st = "asked")
    <3>1. k = req[r]
      BY <2>2, <2>5
    <3>2. k # NoRequest => SearchValid(k) /\ FrozenIn(k.part)
      BY <3>1 DEF RequestsValid, Idle
    <3>3. k # NoRequest => FrozenIn(k.part)'
      BY <1>1, <3>2, SameBranches
    <3> QED BY <2>1, <2>3, <3>1, <3>2, <3>3
  <2> QED BY <2>4, <2>5
<1>3. RequestsValid'
  BY <1>2 DEF RequestsValid, Idle
<1>4. req' \in [Request -> SearchRecord \cup {NoRequest}]
  <2>1. req' = [r \in Request |-> req'[r]]
    BY DEF Disconnects
  <2> QED BY <1>2, <2>1
<1>5. SearchTypeOK'
  BY <1>1, <1>4 DEF SearchTypeOK
<1>6. BranchesValid' /\ CursorsValid'
  BY <1>1, SameBranches DEF CursorsValid
<1>7. StoreBounded'
  BY <1>1 DEF StoreBounded, Sizes
<1> QED BY <1>3, <1>5, <1>6, <1>7

(***************************************************************************)
(* The theorems.                                                           *)
(***************************************************************************)

LEMMA SearchInitially == SearchInit => SearchInv
<1> SUFFICES ASSUME SearchInit PROVE SearchInv
  OBVIOUS
<1>1. ASSUME NEW s \in Session
      PROVE  /\ branch[s] \in Seq(MessageRecord) /\ Len(branch[s]) < MaxBranch
             /\ \A i \in DOMAIN branch[s] : branch[s][i].id = i /\ i <= Len(branch[s])
  <2>1. branch[s] \in Branches(MaxBranch - 1) /\ MaxBranch \in Nat
    BY SearchAssumption DEF SearchInit
  <2>2. PICK m \in 0..(MaxBranch - 1) :
          branch[s] \in [1..m -> [id : 1..(MaxBranch - 1), time : {k.time : k \in Kind}, match : BOOLEAN]]
    BY <2>1 DEF Branches
  <2>3. \A i \in DOMAIN branch[s] : branch[s][i].id = i
    BY <2>1 DEF Branches
  <2>4. {k.time : k \in Kind} \subseteq Nat
    BY SearchAssumption
  <2>5. branch[s] \in [1..m -> MessageRecord]
    <3>1. ASSUME NEW i \in 1..m PROVE branch[s][i] \in MessageRecord
      <4>1. branch[s][i] \in [id : 1..(MaxBranch - 1), time : {k.time : k \in Kind}, match : BOOLEAN]
        BY <2>2
      <4> QED BY <2>1, <2>4, <4>1 DEF MessageRecord
    <3> QED BY <2>2, <3>1
  <2>6. m \in Nat /\ m < MaxBranch
    BY <2>1
  <2>7. branch[s] \in Seq(MessageRecord) /\ Len(branch[s]) = m /\ DOMAIN branch[s] = 1..m
    BY <2>5, <2>6
  <2> QED BY <2>3, <2>6, <2>7
<1>2. branch \in [Session -> Seq(MessageRecord)] /\ minted \in [Session -> Nat]
  <2>1. branch = [s \in Session |-> branch[s]] /\ minted = [s \in Session |-> Len(branch[s])]
    BY DEF SearchInit
  <2> QED BY <1>1, <2>1
<1>3. cursors = <<>> /\ held = 0 /\ req = [r \in Request |-> NoRequest]
  BY DEF SearchInit
<1>4. cursors \in Seq(CursorRecord) /\ Len(cursors) = 0 /\ DOMAIN cursors = {}
  BY <1>3
<1>5. SearchTypeOK
  <2>1. membership \in [Session -> [in : BOOLEAN, version : Nat]] /\ online \subseteq Session
        /\ clock \in Nat /\ searches \in Nat /\ changes \in Nat /\ held \in Nat
    BY DEF SearchInit
  <2>2. req \in [Request -> SearchRecord \cup {NoRequest}]
    BY <1>3
  <2> QED BY <1>2, <1>4, <2>1, <2>2 DEF SearchTypeOK
<1>6. BranchesValid
  <2>1. \A s \in Session : minted[s] = Len(branch[s])
    BY DEF SearchInit
  <2>2. MaxBranch \in Nat
    BY SearchAssumption
  <2> SUFFICES ASSUME NEW s \in Session
               PROVE  /\ Len(branch[s]) <= MaxBranch
                      /\ \A i \in DOMAIN branch[s] : branch[s][i].id <= minted[s]
                      /\ \A i, j \in DOMAIN branch[s] : i < j => branch[s][i].id < branch[s][j].id
    BY DEF BranchesValid
  <2>3. Len(branch[s]) \in Nat
    BY <1>1
  <2> QED BY <1>1, <2>1, <2>2, <2>3
<1>7. StoreBounded
  <2>1. {e \in {} \X Session : cursors[e[1]].part[e[2]].st # "outside"} = {}
    OBVIOUS
  <2>2. Cardinality({}) = 0
    BY FS_EmptySet
  <2>3. Sizes(cursors, DOMAIN cursors) = 0
    BY <1>4, <2>1, <2>2 DEF Sizes
  <2>4. MaxCursors \in Nat /\ MaxParticipants \in Nat
    BY SearchAssumption
  <2> QED BY <1>3, <1>4, <2>3, <2>4 DEF StoreBounded
<1>8. RequestsValid
  BY <1>3 DEF RequestsValid, Idle
<1>9. CursorsValid
  BY <1>4 DEF CursorsValid
<1> QED BY <1>5, <1>6, <1>7, <1>8, <1>9 DEF SearchInv

LEMMA SearchSteps == SearchInv /\ [SearchNext]_searchVars => SearchInv'
<1> SUFFICES ASSUME SearchInv, [SearchNext]_searchVars PROVE SearchInv'
  OBVIOUS
<1>1. ASSUME NEW r \in Request, NEW o \in Operator, Search(r, o) PROVE SearchInv'
  BY <1>1, SearchStep
<1>2. ASSUME NEW r \in Request, NEW i \in 1..MaxCursors, Continue(r, i) PROVE SearchInv'
  <2>1. i \in Nat
    BY SearchAssumption
  <2> QED BY <1>2, <2>1, ContinueStep
<1>3. ASSUME NEW r \in Request, Ask(r) PROVE SearchInv'
  BY <1>3, AskStep
<1>4. ASSUME NEW r \in Request, Finish(r) PROVE SearchInv'
  BY <1>4, FinishStep
<1>5. ASSUME NEW r \in Request, Deadline(r) PROVE SearchInv'
  BY <1>5, DeadlineStep
<1>6. ASSUME NEW r \in Request, NEW s \in Session, Receive(r, s) PROVE SearchInv'
  BY <1>6, ReceiveStep
<1>7. ASSUME TimePasses PROVE SearchInv'
  <2>1. UNCHANGED <<branch, minted, membership, online, cursors, held, req, searches, changes>> /\ clock' = clock + 1
    BY <1>7 DEF TimePasses, worldVars
  <2>2. SearchTypeOK'
    BY <2>1 DEF SearchInv, SearchTypeOK
  <2> QED BY <2>1, <2>2, OtherStep
<1>8. ASSUME NEW s \in Session, NEW k \in Kind, Writes(s, k) PROVE SearchInv'
  BY <1>8, WritesStep
<1>9. ASSUME NEW s \in Session, Rewinds(s) PROVE SearchInv'
  BY <1>9, RewindsStep
<1>10. ASSUME NEW s \in Session, Moves(s) PROVE SearchInv'
  <2>1. /\ UNCHANGED <<branch, minted, online, cursors, held, req, clock, searches>> /\ changes' = changes + 1
        /\ membership' = [membership EXCEPT ![s] = [in |-> ~membership[s].in, version |-> membership[s].version + 1]]
    BY <1>10 DEF Moves, Changing
  <2>2. SearchTypeOK'
    BY <2>1 DEF SearchInv, SearchTypeOK
  <2> QED BY <2>1, <2>2, OtherStep
<1>11. ASSUME NEW s \in Session, Disconnects(s) PROVE SearchInv'
  BY <1>11, DisconnectsStep
<1>12. ASSUME NEW s \in Session, Reconnects(s) PROVE SearchInv'
  <2>1. /\ UNCHANGED <<branch, minted, membership, cursors, held, req, clock, searches>> /\ changes' = changes + 1
        /\ online' = online \cup {s}
    BY <1>12 DEF Reconnects, Changing
  <2>2. SearchTypeOK'
    BY <2>1 DEF SearchInv, SearchTypeOK
  <2> QED BY <2>1, <2>2, OtherStep
<1>13. ASSUME UNCHANGED searchVars PROVE SearchInv'
  <2>1. UNCHANGED <<branch, minted, membership, online, cursors, held, req, clock, searches, changes>>
    BY <1>13 DEF searchVars, worldVars
  <2>2. SearchTypeOK'
    BY <2>1 DEF SearchInv, SearchTypeOK
  <2> QED BY <2>1, <2>2, OtherStep
<1> QED BY <1>1, <1>2, <1>3, <1>4, <1>5, <1>6, <1>7, <1>8, <1>9, <1>10, <1>11, <1>12, <1>13
        DEF SearchNext, Begin, Progress, World

LEMMA SearchInvariant == SearchSpec => []SearchInv
BY SearchInitially, SearchSteps, PTL DEF SearchSpec

\* The state of a search, of the store and of the sessions has its type (fleet-search.ts).
THEOREM SearchTypeCorrect == SearchSpec => []SearchTypeOK
<1>1. SearchInv => SearchTypeOK
  BY DEF SearchInv
<1> QED BY <1>1, SearchInvariant, PTL

\* The cursor store never holds more entries or participants than it may, and its count
\* of participants is theirs, whichever entries expire or make room (saveCursor, storeFor).
THEOREM StoreBoundedCorrect == SearchSpec => []StoreBounded
<1>1. SearchInv => StoreBounded
  BY DEF SearchInv
<1> QED BY <1>1, SearchInvariant, PTL

\* No page shows a hit above one that an earlier page of its search showed, or one that was
\* not on the branch its session answered the first page for ("newest-first",
\* docs/protocol.md; snapshotLeafId).
THEOREM PagesSoundCorrect == SearchSpec => []PagesSound
<1>1. SearchInv => PagesSound
  <2> SUFFICES ASSUME SearchInv, NEW r \in Request, ~Idle(r), NEW h \in req[r].hits
               PROVE  (\A g \in req[r].seen : Newer(g, h)) /\ h \in req[r].part[h.session].all
    BY DEF PagesSound
  <2>1. PICK q \in SearchRecord : q = req[r]
    BY DEF SearchInv, SearchTypeOK, Idle
  <2>2. SearchValid(q) /\ h \in q.hits /\ q.hits \in SUBSET Hit /\ q.seen \in SUBSET Hit /\ q.before \in SUBSET Hit
    BY <2>1 DEF SearchInv, RequestsValid, SearchRecord
  <2>3. ASSUME NEW g \in q.seen PROVE Newer(g, h)
    <3>1. PICK b \in q.before : TRUE
      BY <2>2, <2>3 DEF SearchValid
    <3>2. (g = b \/ Newer(g, b)) /\ Newer(b, h)
      BY <2>2, <2>3, <3>1 DEF SearchValid
    <3>3. g \in Hit /\ b \in Hit /\ h \in Hit
      BY <2>2, <2>3, <3>1
    <3> QED BY <3>2, <3>3, Order
  <2>4. h \in q.part[h.session].all
    BY <2>2 DEF SearchValid
  <2> QED BY <2>1, <2>3, <2>4
<1> QED BY <1>1, SearchInvariant, PTL

\* No match of a session that answered is skipped by the pages of a search, however the
\* pages of its participants overlap ("partial" is not "absent", fleet-search.ts).
THEOREM PagesCompleteCorrect == SearchSpec => []PagesComplete
<1>1. SearchInv => PagesComplete
  <2> SUFFICES ASSUME SearchInv, NEW r \in Request, AllIn(r), NEW s \in InState(r, "done"), NEW h \in req[r].part[s].all
               PROVE  \/ h \in req[r].seen \cup req[r].hits
                      \/ req[r].more /\ req[r].hits # {} /\ Newer(Oldest(req[r].hits), h)
    BY DEF PagesComplete
  <2>1. ~Idle(r) /\ s \in Session /\ req[r].part[s].st = "done"
    BY DEF AllIn, InState
  <2>2. PICK q \in SearchRecord : q = req[r]
    BY <2>1 DEF SearchInv, SearchTypeOK, Idle
  <2>3. SearchValid(q) /\ q.hits \in SUBSET Hit /\ IsFiniteSet(q.hits)
    BY <2>1, <2>2 DEF SearchInv, RequestsValid, SearchRecord, SearchValid
  <2>4. Covered(q, h)
    BY <2>1, <2>2, <2>3 DEF SearchValid
  <2>5. CASE q.more /\ Cardinality(q.hits) >= PageLimit /\ \A g \in q.hits : Newer(g, h)
    <3>1. Cardinality({}) = 0
      BY FS_EmptySet
    <3>2. q.hits # {}
      <4>1. PageLimit \in Nat \ {0}
        BY SearchAssumption
      <4>2. ~(0 >= PageLimit)
        BY <4>1
      <4> QED BY <2>5, <3>1, <4>2
    <3>3. Oldest(q.hits) \in q.hits
      BY <2>3, <3>2, OldestIs
    <3> QED BY <2>2, <2>5, <3>2, <3>3
  <2> QED BY <2>2, <2>4, <2>5 DEF Covered
<1> QED BY <1>1, SearchInvariant, PTL
===============================================================================
