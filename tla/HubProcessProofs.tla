--------------------------- MODULE HubProcessProofs ---------------------------
(***************************************************************************)
(* Proofs about HubProcess, for any number of processes, cores, changes,   *)
(* crashes and reloads.                                                    *)
(*                                                                         *)
(* What is kept must survive the next rename, so the invariant follows it  *)
(* through the writer: into what a core is writing, what waits behind      *)
(* that, and the registry both were taken from.  It holds because one core *)
(* writes at a time, and only for the process that listens, which in turn  *)
(* rests on who may build, bind, restart and hand over a core.             *)
(***************************************************************************)
EXTENDS HubProcess, FiniteSetTheorems, WellFoundedInduction, TLAPS

\* The registry of the process that listens, and the core that has it.
LiveCore == process[port].live
Registry == core[LiveCore].registry

\* Who listens serves with a core of its own; who is about to listen has built one; a core
\* nobody uses is blank; who restarts listens, and asked with a core it still has.
RolesValid ==
  /\ port \in Process => /\ process[port].st = "serving" /\ LiveCore \in Core
                         /\ core[LiveCore].host = port /\ core[LiveCore].st = "serving"
  /\ \A p \in Process : process[p].st = "built" =>
       LET c == process[p].live IN c \in Core /\ core[c].host = p /\ core[c].st = "built"
  /\ \A c \in Core : IF core[c].st = "unused" THEN core[c] = NoneBuilt ELSE core[c].host \in Process
  /\ \A p \in Process : process[p].restart # "no" =>
       LET c == process[p].asker
       IN  port = p /\ c \in Core /\ core[c].host = p /\ (core[c].st = "drained" \/ c = LiveCore)

\* One core at a time writes, and only for the process that listens; what it writes, and
\* what waits behind that, holds all that was kept and nothing the registry has not.
WritesValid ==
  /\ \A c, d \in Core : ~Idle(c) /\ ~Idle(d) => c = d
  /\ \A c \in Core :
       IF Idle(c) THEN core[c].pending = Nothing
       ELSE /\ core[c].host = port /\ port \in Process
            /\ kept \subseteq core[c].content /\ core[c].content \subseteq Registry
            /\ core[c].stage = "filled" => tmp[port] = core[c].content
            /\ core[c].pending.some => /\ core[c].content \subseteq core[c].pending.of
                                       /\ core[c].pending.of \subseteq Registry

KeptValid == kept \subseteq file /\ (port \in Process => kept \subseteq Registry)

\* A set of naturals that is not empty has a first element, which FirstIn chooses: the sets
\* 1..x, for x in S, have a least one, for strict inclusion of finite sets is well founded.
LEMMA FirstIsIn ==
  ASSUME NEW S \in SUBSET Nat, S # {}
  PROVE  FirstIn(S) \in S
<1> DEFINE Below == {1..x : x \in S}
<1>1. Below \subseteq FiniteSubsetsOf(Nat) /\ Below # {}
  <2>1. \A x \in S : IsFiniteSet(1..x) /\ 1..x \in SUBSET Nat
    BY FS_Interval
  <2> QED BY <2>1 DEF FiniteSubsetsOf
<1>2. \E U \in Below : \A V \in Below : ~(<<V, U>> \in StrictSubsetOrdering(Nat))
  <2> HIDE DEF Below
  <2>1. IsWellFoundedOn(StrictSubsetOrdering(Nat), FiniteSubsetsOf(Nat))
    BY FS_StrictSubsetOrderingWellFounded
  <2> QED BY <1>1, <2>1, WFMin
<1>3. PICK x \in S : \A V \in Below : ~(<<V, 1..x>> \in StrictSubsetOrdering(Nat))
  BY <1>2
<1>4. \A y \in S : x <= y
  <2> SUFFICES ASSUME NEW y \in S, y < x PROVE FALSE
    OBVIOUS
  <2>1. 1..y \in SUBSET Nat /\ 1..x \in SUBSET Nat /\ 1..y \subseteq 1..x /\ x \in 1..x /\ x \notin 1..y
    OBVIOUS
  <2>2. <<1..y, 1..x>> \in StrictSubsetOrdering(Nat)
    BY <2>1 DEF StrictSubsetOrdering
  <2> QED BY <1>3, <2>2
<1> QED BY <1>4 DEF FirstIn

\* A free core, or process, that is chosen is free.
LEMMA FirstFree ==
  /\ FreeCore # {} => FirstIn(FreeCore) \in FreeCore
  /\ FreeProcess # {} => FirstIn(FreeProcess) \in FreeProcess
<1>1. FreeCore \in SUBSET Nat /\ FreeProcess \in SUBSET Nat
  BY ProcessAssumption DEF FreeCore, FreeProcess
<1> QED BY <1>1, FirstIsIn

\* Content is told from Nothing.
LEMMA Contents ==
  /\ Nothing.some = FALSE
  /\ \A set \in SUBSET Change : /\ Content(set).some = TRUE /\ Content(set).of = set
                                /\ Content(set) \in [some : {TRUE}, of : SUBSET Change]
BY DEF Nothing, Content

\* Nobody changes a role.
SameRoles ==
  /\ UNCHANGED port
  /\ \A p \in Process : /\ process'[p].st = process[p].st /\ process'[p].live = process[p].live
                        /\ process'[p].restart = process[p].restart /\ process'[p].asker = process[p].asker
  /\ \A c \in Core : /\ core'[c].st = core[c].st /\ core'[c].host = core[c].host
                     /\ core[c].st = "unused" => core'[c] = core[c]

\* Then the roles stay valid.
LEMMA RolesKept ==
  ASSUME RolesValid, SameRoles
  PROVE  RolesValid'
<1>1. port \in Process => LiveCore' = LiveCore
  BY DEF SameRoles, LiveCore
<1>2. \A p \in Process : process[p].restart # "no" => port \in Process
  BY DEF RolesValid
<1>3. port \in Process => /\ process'[port].st = "serving" /\ LiveCore' \in Core
                         /\ core'[LiveCore'].host = port /\ core'[LiveCore'].st = "serving"
  BY <1>1 DEF RolesValid, SameRoles
<1>4. \A p \in Process : process'[p].st = "built" =>
        LET c == process'[p].live IN c \in Core /\ core'[c].host = p /\ core'[c].st = "built"
  BY DEF RolesValid, SameRoles
<1>5. \A c \in Core : IF core'[c].st = "unused" THEN core'[c] = NoneBuilt ELSE core'[c].host \in Process
  BY DEF RolesValid, SameRoles
<1>6. \A p \in Process : process'[p].restart # "no" =>
        LET c == process'[p].asker
        IN  port = p /\ c \in Core /\ core'[c].host = p /\ (core'[c].st = "drained" \/ c = LiveCore')
  BY <1>1, <1>2 DEF RolesValid, SameRoles
<1> QED BY <1>3, <1>4, <1>5, <1>6 DEF RolesValid, SameRoles, LiveCore

\* The registries, and what is kept, as they were.
SameSaved ==
  /\ UNCHANGED <<kept, file>>
  /\ \A c \in Core : core'[c].registry = core[c].registry

\* Then nothing is lost that was kept.
LEMMA KeptKept ==
  ASSUME RolesValid, KeptValid, SameRoles, SameSaved
  PROVE  KeptValid'
<1>1. port \in Process => LiveCore \in Core /\ LiveCore' = LiveCore /\ Registry' = Registry
  BY DEF RolesValid, SameRoles, SameSaved, LiveCore, Registry
<1> QED BY <1>1 DEF KeptValid, SameRoles, SameSaved

\* A sync of the core that serves, idle or not, takes the registry as it is.
LEMMA SyncEffect ==
  ASSUME ProcessTypeOK, RolesValid, WritesValid, KeptValid, port \in Process, Sync(LiveCore),
         UNCHANGED <<port, kept>>, process'[port].live = process[port].live
  PROVE  /\ core' \in [Core -> CoreRecord] /\ tmp' \in [Process -> SUBSET Change]
         /\ \A d \in Core : /\ core'[d].st = core[d].st /\ core'[d].host = core[d].host
                            /\ core'[d].registry = core[d].registry
                            /\ core[d].st = "unused" => core'[d] = core[d]
         /\ WritesValid'
<1> DEFINE c == LiveCore
<1>1. /\ c \in Core /\ core[c].host = port /\ core[c].st = "serving"
      /\ core[c] \in CoreRecord /\ core[c].registry = Registry /\ Registry \in SUBSET Change
      /\ core \in [Core -> CoreRecord] /\ tmp \in [Process -> SUBSET Change]
  BY DEF RolesValid, ProcessTypeOK, Registry, CoreRecord
<1>2. \A d \in Core : ~Idle(d) => d = c
  BY <1>1 DEF Sync, Undisturbed, WritesValid
<1>3. LiveCore' = c
  BY DEF LiveCore
<1> HIDE DEF c
<1>4. Sync(c)
  BY DEF c
<1>5. CASE Idle(c)
  <2> DEFINE k == [core[c] EXCEPT !.stage = "writing", !.content = Registry, !.again = FALSE]
  <2>1. core' = [core EXCEPT ![c] = k] /\ tmp' = [tmp EXCEPT ![port] = {}]
    BY <1>1, <1>4, <1>5 DEF Sync, BeginWrite
  <2>2. /\ k \in CoreRecord /\ k.st = "serving" /\ k.host = port /\ k.registry = Registry
        /\ k.stage = "writing" /\ k.content = Registry /\ k.pending = core[c].pending
    BY <1>1 DEF CoreRecord
  <2> HIDE DEF k
  <2>3. core'[c] = k /\ \A d \in Core \ {c} : core'[d] = core[d]
    BY <1>1, <2>1
  <2>4. /\ core' \in [Core -> CoreRecord] /\ tmp' \in [Process -> SUBSET Change]
    BY <1>1, <2>1, <2>2
  <2>5. Registry' = Registry
    BY <1>3, <2>2, <2>3 DEF Registry
  <2>6. k.pending = Nothing /\ Nothing.some = FALSE
    BY <1>1, <1>5, <2>2, Contents DEF WritesValid
  <2>7. WritesValid'
    <3>1. \A d \in Core \ {c} : core'[d].stage = "idle" /\ core'[d].pending = Nothing
      BY <1>2, <2>3 DEF Idle, WritesValid
    <3> QED BY <1>1, <2>2, <2>3, <2>5, <2>6, <3>1 DEF WritesValid, Idle, KeptValid
  <2> QED BY <1>1, <2>2, <2>3, <2>4, <2>7
<1>6. CASE ~Idle(c)
  <2> DEFINE k == [core[c] EXCEPT !.pending = Content(Registry)]
  <2>1. core' = [core EXCEPT ![c] = k] /\ UNCHANGED tmp
    BY <1>1, <1>4, <1>6 DEF Sync
  <2>2. /\ k \in CoreRecord /\ k.st = "serving" /\ k.host = port /\ k.registry = Registry
        /\ k.stage = core[c].stage /\ k.content = core[c].content /\ k.pending = Content(Registry)
    BY <1>1, Contents DEF CoreRecord
  <2> HIDE DEF k
  <2>3. core'[c] = k /\ \A d \in Core \ {c} : core'[d] = core[d]
    BY <1>1, <2>1
  <2>4. /\ core' \in [Core -> CoreRecord] /\ tmp' \in [Process -> SUBSET Change]
    BY <1>1, <2>1, <2>2
  <2>5. Registry' = Registry
    BY <1>3, <2>2, <2>3 DEF Registry
  <2>6. k.pending.some /\ k.pending.of = Registry
    BY <1>1, <2>2, Contents
  <2>7. WritesValid'
    <3>1. \A d \in Core \ {c} : core'[d].stage = "idle" /\ core'[d].pending = Nothing
      BY <1>2, <2>3 DEF Idle, WritesValid
    <3>2. /\ kept \subseteq core[c].content /\ core[c].content \subseteq Registry
          /\ core[c].stage = "filled" => tmp[port] = core[c].content
      BY <1>1, <1>6 DEF WritesValid
    <3> QED BY <1>1, <1>6, <2>1, <2>2, <2>3, <2>5, <2>6, <3>1, <3>2 DEF WritesValid, Idle
  <2> QED BY <1>1, <2>2, <2>3, <2>4, <2>7
<1> QED BY <1>5, <1>6

\* Behind a write comes what waited for it, which holds what the write held.
LEMMA AfterWriteEffect ==
  ASSUME ProcessTypeOK, RolesValid, WritesValid, NEW c \in Core, ~Idle(c), AfterWrite(c),
         UNCHANGED port, kept' \subseteq core[c].content
  PROVE  /\ core' \in [Core -> CoreRecord] /\ tmp' \in [Process -> SUBSET Change]
         /\ process' \in [Process -> ProcessRecord]
         /\ \A d \in Core : core'[d].registry = core[d].registry
         /\ SameRoles /\ WritesValid'
<1>1. /\ core[c] \in CoreRecord /\ core[c].host = port /\ port \in Process
      /\ core[c].content \subseteq Registry /\ core[c].st # "unused"
      /\ core \in [Core -> CoreRecord] /\ tmp \in [Process -> SUBSET Change]
      /\ process \in [Process -> ProcessRecord]
  BY DEF WritesValid, ProcessTypeOK, RolesValid, Idle, NoneBuilt, NewCore
<1>2. \A d \in Core \ {c} : Idle(d) /\ core[d].pending = Nothing
  BY DEF WritesValid
<1>3. LiveCore \in Core
  BY <1>1 DEF RolesValid
<1>4. CASE core[c].pending.some
  <2> DEFINE k == [core[c] EXCEPT !.stage = "writing", !.content = core[c].pending.of, !.again = TRUE,
                                  !.pending = Nothing]
  <2>1. core[c].pending.of \in SUBSET Change
    BY <1>1, <1>4, Contents DEF CoreRecord
  <2>2. core' = [core EXCEPT ![c] = k] /\ tmp' = [tmp EXCEPT ![port] = {}] /\ UNCHANGED process
    BY <1>1, <1>4 DEF AfterWrite, BeginWrite, CoreRecord
  <2>3. /\ k \in CoreRecord /\ k.st = core[c].st /\ k.host = port /\ k.registry = core[c].registry
        /\ k.stage = "writing" /\ k.content = core[c].pending.of /\ k.pending = Nothing
    BY <1>1, <2>1 DEF CoreRecord
  <2> HIDE DEF k
  <2>4. core'[c] = k /\ \A d \in Core \ {c} : core'[d] = core[d]
    BY <1>1, <2>2
  <2>5. core' \in [Core -> CoreRecord] /\ tmp' \in [Process -> SUBSET Change]
    BY <1>1, <2>2, <2>3
  <2>6. \A d \in Core : core'[d].registry = core[d].registry
    BY <2>3, <2>4
  <2>7. SameRoles
    BY <1>1, <2>2, <2>3, <2>4 DEF SameRoles
  <2>8. LiveCore' = LiveCore /\ Registry' = Registry
    BY <1>3, <2>2, <2>6 DEF LiveCore, Registry
  <2>9. core[c].content \subseteq core[c].pending.of /\ core[c].pending.of \subseteq Registry
    BY <1>4 DEF WritesValid
  <2>10. WritesValid'
    <3>1. \A d \in Core \ {c} : core'[d].stage = "idle" /\ core'[d].pending = Nothing
      BY <1>2, <2>4 DEF Idle
    <3>2. Nothing.some = FALSE
      BY Contents
    <3> QED BY <1>1, <2>3, <2>4, <2>8, <2>9, <3>1, <3>2 DEF WritesValid, Idle
  <2> QED BY <1>1, <2>2, <2>5, <2>6, <2>7, <2>10
<1>5. CASE ~core[c].pending.some
  <2> DEFINE k == [core[c] EXCEPT !.stage = "idle", !.again = FALSE]
             p == [process[port] EXCEPT !.awaits = {}]
  <2>1. core' = [core EXCEPT ![c] = k] /\ process' = [process EXCEPT ![port] = p] /\ UNCHANGED tmp
    BY <1>1, <1>5 DEF AfterWrite
  <2>2. /\ k \in CoreRecord /\ k.st = core[c].st /\ k.host = port /\ k.registry = core[c].registry
        /\ k.stage = "idle" /\ k.pending = core[c].pending
    BY <1>1 DEF CoreRecord
  <2>3. k.pending = Nothing
    BY <1>1, <1>5, <2>2 DEF CoreRecord
  <2>4. /\ p \in ProcessRecord /\ p.st = process[port].st /\ p.live = process[port].live
        /\ p.restart = process[port].restart /\ p.asker = process[port].asker
    BY <1>1 DEF ProcessRecord
  <2> HIDE DEF k, p
  <2>5. core'[c] = k /\ (\A d \in Core \ {c} : core'[d] = core[d])
    BY <1>1, <2>1
  <2>6. process'[port] = p /\ \A q \in Process \ {port} : process'[q] = process[q]
    BY <1>1, <2>1
  <2>7. core' \in [Core -> CoreRecord] /\ process' \in [Process -> ProcessRecord]
    BY <1>1, <2>1, <2>2, <2>4
  <2>8. \A d \in Core : core'[d].registry = core[d].registry
    BY <2>2, <2>5
  <2>9. SameRoles
    BY <1>1, <2>2, <2>4, <2>5, <2>6 DEF SameRoles
  <2>10. WritesValid'
    <3>1. \A d \in Core : core'[d].stage = "idle" /\ core'[d].pending = Nothing
      BY <1>2, <2>2, <2>3, <2>5 DEF Idle
    <3> QED BY <3>1 DEF WritesValid, Idle
  <2> QED BY <1>1, <2>1, <2>7, <2>8, <2>9, <2>10
<1> QED BY <1>4, <1>5

\* A process that ends takes its cores, and their writes, with it.
LEMMA EndedEffect ==
  ASSUME ProcessTypeOK, RolesValid, WritesValid, KeptValid, NEW p \in Process,
         NEW how \in {"gone", "crashed"}, Ended(p, how), UNCHANGED <<kept, file>>
  PROVE  /\ process' \in [Process -> ProcessRecord] /\ core' \in [Core -> CoreRecord]
         /\ port' \in Process \cup {NoProcess} /\ tmp' \in [Process -> SUBSET Change]
         /\ RolesValid' /\ WritesValid' /\ KeptValid'
<1> DEFINE gone == [Unborn EXCEPT !.st = how, !.by = process[p].by]
<1>1. /\ process[p] \in ProcessRecord /\ core \in [Core -> CoreRecord]
      /\ process \in [Process -> ProcessRecord] /\ tmp \in [Process -> SUBSET Change]
      /\ port \in Process \cup {NoProcess} /\ NoProcess \notin Process
  BY ProcessAssumption DEF ProcessTypeOK
<1>2. gone \in ProcessRecord /\ gone.st = how /\ gone.restart = "no"
  BY <1>1 DEF Unborn, ProcessRecord
<1>3. /\ NoneBuilt \in CoreRecord /\ NoneBuilt.st = "unused" /\ NoneBuilt.stage = "idle"
      /\ NoneBuilt.pending = Nothing
  BY DEF NoneBuilt, NewCore, CoreRecord
<1> HIDE DEF gone
<1>4. /\ process' = [process EXCEPT ![p] = gone] /\ tmp' = [tmp EXCEPT ![p] = {}]
      /\ \A c \in Core : core'[c] = IF core[c].host = p THEN NoneBuilt ELSE core[c]
      /\ core' = [c \in Core |-> IF core[c].host = p THEN NoneBuilt ELSE core[c]]
      /\ port' = IF port = p THEN NoProcess ELSE port
  BY DEF Ended, gone
<1>5. process'[p] = gone /\ \A q \in Process \ {p} : process'[q] = process[q]
  BY <1>1, <1>4
<1>6. core' \in [Core -> CoreRecord]
  BY <1>1, <1>3, <1>4
<1>7. RolesValid'
  <2>1. port' \in Process => port' = port /\ port # p /\ LiveCore' = LiveCore
    BY <1>1, <1>4, <1>5 DEF LiveCore
  <2>2. port' \in Process => /\ process'[port'].st = "serving" /\ LiveCore' \in Core
                             /\ core'[LiveCore'].host = port' /\ core'[LiveCore'].st = "serving"
    BY <1>4, <1>5, <2>1 DEF RolesValid
  <2>3. \A q \in Process : process'[q].st = "built" =>
          LET c == process'[q].live IN c \in Core /\ core'[c].host = q /\ core'[c].st = "built"
    BY <1>2, <1>4, <1>5 DEF RolesValid
  <2>4. \A c \in Core : IF core'[c].st = "unused" THEN core'[c] = NoneBuilt ELSE core'[c].host \in Process
    BY <1>3, <1>4 DEF RolesValid
  <2>5. ASSUME NEW q \in Process, process'[q].restart # "no"
        PROVE  LET c == process'[q].asker
               IN  port' = q /\ c \in Core /\ core'[c].host = q /\ (core'[c].st = "drained" \/ c = LiveCore')
    <3>1. q # p /\ process'[q] = process[q]
      BY <1>2, <1>5, <2>5
    <3>2. port = q /\ process[q].asker \in Core /\ core[process[q].asker].host = q
      BY <2>5, <3>1 DEF RolesValid
    <3> QED BY <1>4, <2>1, <2>5, <3>1, <3>2 DEF RolesValid
  <2> QED BY <2>2, <2>3, <2>4, <2>5 DEF RolesValid, LiveCore
<1>8. CASE port = p
  <2>1. \A c \in Core : core'[c].stage = "idle" /\ core'[c].pending = Nothing
    BY <1>3, <1>4, <1>8 DEF WritesValid, Idle
  <2>2. WritesValid'
    BY <2>1 DEF WritesValid, Idle
  <2> QED BY <1>1, <1>2, <1>4, <1>6, <1>7, <1>8, <2>2 DEF KeptValid
<1>9. CASE port # p
  <2>1. \A c \in Core : ~Idle(c) => core[c].host # p
    BY <1>9 DEF WritesValid
  <2>2. port \in Process => LiveCore \in Core /\ LiveCore' = LiveCore /\ Registry' = Registry
    BY <1>4, <1>5, <1>9 DEF RolesValid, LiveCore, Registry
  <2>3. WritesValid'
    <3>1. \A c \in Core : Idle(c)' => core'[c].pending = Nothing
      BY <1>3, <1>4 DEF WritesValid, Idle
    <3>2. \A c \in Core : ~Idle(c)' => ~Idle(c) /\ core'[c] = core[c]
      BY <1>3, <1>4 DEF Idle
    <3>3. port' = port /\ (port \in Process => tmp'[port] = tmp[port])
      BY <1>1, <1>4, <1>9
    <3> QED BY <2>2, <3>1, <3>2, <3>3 DEF WritesValid
  <2> QED BY <1>1, <1>2, <1>4, <1>6, <1>7, <1>9, <2>2, <2>3 DEF KeptValid
<1> QED BY <1>8, <1>9
-------------------------------------------------------------------------------
(***************************************************************************)
(* The steps.                                                              *)
(***************************************************************************)
ProcessInv == ProcessTypeOK /\ RolesValid /\ WritesValid /\ KeptValid

\* The first process boots, and there is nothing yet.
LEMMA InitValid == ProcessInit => ProcessInv
<1> SUFFICES ASSUME ProcessInit PROVE ProcessInv
  OBVIOUS
<1> DEFINE first == NewProcess(NoCore, FALSE, NoProcess)
<1>1. /\ first \in ProcessRecord /\ first.st = "booting" /\ first.restart = "no"
      /\ Unborn \in ProcessRecord /\ Unborn.st = "unborn" /\ Unborn.restart = "no"
  BY DEF NewProcess, Unborn, ProcessRecord
<1>2. /\ NoneBuilt \in CoreRecord /\ NoneBuilt.st = "unused" /\ NoneBuilt.stage = "idle"
      /\ NoneBuilt.pending = Nothing
  BY DEF NoneBuilt, NewCore, CoreRecord
<1> HIDE DEF first
<1>3. /\ process \in [Process -> ProcessRecord] /\ \A p \in Process : process[p] \in {first, Unborn}
      /\ core = [c \in Core |-> NoneBuilt]
      /\ port = NoProcess /\ file = {} /\ kept = {} /\ tmp = [p \in Process |-> {}]
      /\ changes = 0 /\ faults = 0 /\ reloads = 0
  BY <1>1 DEF ProcessInit, first
<1>4. ProcessTypeOK
  BY <1>2, <1>3, ProcessAssumption DEF ProcessTypeOK
<1>5. RolesValid
  BY <1>1, <1>2, <1>3, ProcessAssumption DEF RolesValid
<1>6. WritesValid /\ KeptValid
  BY <1>2, <1>3, ProcessAssumption DEF WritesValid, KeptValid, Idle
<1> QED BY <1>4, <1>5, <1>6 DEF ProcessInv

\* Every write lands whole, and the next holds what it held.
LEMMA WritingStep ==
  ASSUME ProcessInv, NEW c \in Core, Writing(c)
  PROVE  ProcessInv'
<1>1. /\ ProcessTypeOK /\ RolesValid /\ WritesValid /\ KeptValid
      /\ ~Idle(c) /\ UNCHANGED <<port, changes, reloads>>
      /\ core \in [Core -> CoreRecord] /\ core[c] \in CoreRecord /\ tmp \in [Process -> SUBSET Change]
  BY DEF ProcessInv, Writing, Fill, Rename, WriteFails, Idle, ProcessTypeOK
<1>2. /\ core[c].host = port /\ port \in Process /\ kept \subseteq core[c].content
      /\ core[c].content \subseteq Registry /\ core[c].content \in SUBSET Change
      /\ core[c].stage = "filled" => tmp[port] = core[c].content
  BY <1>1 DEF WritesValid, CoreRecord
<1>3. CASE Fill(c) /\ UNCHANGED <<process, kept, faults>>
  <2> DEFINE k == [core[c] EXCEPT !.stage = "filled"]
  <2>1. /\ core' = [core EXCEPT ![c] = k] /\ tmp' = [tmp EXCEPT ![port] = core[c].content] /\ UNCHANGED file
        /\ core[c].stage = "writing"
    BY <1>1, <1>2, <1>3 DEF Fill
  <2>2. /\ k \in CoreRecord /\ k.st = core[c].st /\ k.host = port /\ k.registry = core[c].registry
        /\ k.stage = "filled" /\ k.content = core[c].content /\ k.pending = core[c].pending
    BY <1>1, <1>2 DEF CoreRecord
  <2> HIDE DEF k
  <2>3. core'[c] = k /\ \A d \in Core \ {c} : core'[d] = core[d]
    BY <1>1, <2>1
  <2>4. core[c].st # "unused"
    BY <1>1 DEF RolesValid, Idle, NoneBuilt, NewCore
  <2>5. SameRoles /\ SameSaved
    BY <1>1, <1>2, <1>3, <2>1, <2>2, <2>3, <2>4 DEF SameRoles, SameSaved
  <2>6. LiveCore' = LiveCore /\ Registry' = Registry
    BY <1>1, <1>2, <1>3, <2>5 DEF LiveCore, Registry, SameSaved, RolesValid
  <2>7. tmp'[port] = core[c].content
    BY <1>1, <1>2, <2>1
  <2>8. WritesValid'
    <3>1. \A d \in Core \ {c} : Idle(d)
      BY <1>1 DEF WritesValid
    <3>2. \A d \in Core : Idle(d)' <=> Idle(d)
      BY <1>1, <2>2, <2>3 DEF Idle
    <3> QED BY <1>1, <1>2, <1>3, <2>2, <2>3, <2>6, <2>7, <3>1, <3>2 DEF WritesValid
  <2>9. ProcessTypeOK'
    BY <1>1, <1>2, <1>3, <2>1, <2>2 DEF ProcessTypeOK
  <2> QED BY <1>1, <2>5, <2>8, <2>9, RolesKept, KeptKept DEF ProcessInv
<1>4. CASE Rename(c) /\ UNCHANGED faults
  <2>1. file' = core[c].content /\ kept' = core[c].content /\ AfterWrite(c)
    BY <1>2, <1>4 DEF Rename
  <2>2. /\ core' \in [Core -> CoreRecord] /\ tmp' \in [Process -> SUBSET Change]
        /\ process' \in [Process -> ProcessRecord]
        /\ \A d \in Core : core'[d].registry = core[d].registry
        /\ SameRoles /\ WritesValid'
    BY <1>1, <2>1, AfterWriteEffect
  <2>3. LiveCore' = LiveCore /\ Registry' = Registry
    BY <1>1, <1>2, <2>2 DEF LiveCore, Registry, SameRoles, RolesValid
  <2>4. KeptValid'
    BY <1>2, <2>1, <2>3 DEF KeptValid
  <2>5. ProcessTypeOK'
    BY <1>1, <1>2, <1>4, <2>1, <2>2 DEF ProcessTypeOK
  <2> QED BY <1>1, <2>2, <2>4, <2>5, RolesKept DEF ProcessInv
<1>5. CASE WriteFails(c) /\ UNCHANGED <<file, kept>>
  <2>1. AfterWrite(c) /\ faults' = faults + 1
    BY <1>5 DEF WriteFails, AfterFailure, Fault
  <2>2. /\ core' \in [Core -> CoreRecord] /\ tmp' \in [Process -> SUBSET Change]
        /\ process' \in [Process -> ProcessRecord]
        /\ \A d \in Core : core'[d].registry = core[d].registry
        /\ SameRoles /\ WritesValid'
    BY <1>1, <1>2, <1>5, <2>1, AfterWriteEffect
  <2>3. SameSaved
    BY <1>5, <2>2 DEF SameSaved
  <2>4. ProcessTypeOK'
    BY <1>1, <1>5, <2>1, <2>2 DEF ProcessTypeOK
  <2> QED BY <1>1, <2>2, <2>3, <2>4, RolesKept, KeptKept DEF ProcessInv
<1> QED BY <1>3, <1>4, <1>5 DEF Writing

\* The steps of a process that syncs the core that serves, and changes no role but its own
\* restart.
LEMMA FlushStep ==
  ASSUME ProcessInv, port \in Process, Sync(LiveCore), NEW p, p \in ProcessRecord,
         process' = [process EXCEPT ![port] = p],
         p.st = process[port].st, p.live = process[port].live,
         p.restart # "no" => \/ p.asker = LiveCore
                             \/ p.asker = process[port].asker /\ process[port].restart # "no",
         UNCHANGED <<port, file, kept, changes, reloads>>, faults' \in Nat
  PROVE  ProcessInv'
<1>1. /\ ProcessTypeOK /\ RolesValid /\ WritesValid /\ KeptValid
      /\ process \in [Process -> ProcessRecord] /\ NoProcess \notin Process
  BY ProcessAssumption DEF ProcessInv, ProcessTypeOK
<1>2. process'[port] = p /\ \A q \in Process \ {port} : process'[q] = process[q]
  BY <1>1
<1>3. /\ core' \in [Core -> CoreRecord] /\ tmp' \in [Process -> SUBSET Change]
      /\ \A d \in Core : /\ core'[d].st = core[d].st /\ core'[d].host = core[d].host
                         /\ core'[d].registry = core[d].registry
                         /\ core[d].st = "unused" => core'[d] = core[d]
      /\ WritesValid'
  BY <1>1, <1>2, SyncEffect
<1>4. LiveCore' = LiveCore /\ LiveCore \in Core /\ Registry' = Registry
      /\ core[LiveCore].host = port /\ core[LiveCore].st = "serving" /\ process[port].st = "serving"
  BY <1>1, <1>2, <1>3 DEF LiveCore, Registry, RolesValid
<1>5. KeptValid'
  BY <1>1, <1>4 DEF KeptValid
<1>6. ProcessTypeOK'
  BY <1>1, <1>2, <1>3 DEF ProcessTypeOK
<1>7. RolesValid'
  <2>1. \A q \in Process : process'[q].st = "built" =>
          LET c == process'[q].live IN c \in Core /\ core'[c].host = q /\ core'[c].st = "built"
    BY <1>1, <1>2, <1>3 DEF RolesValid
  <2>2. \A c \in Core : IF core'[c].st = "unused" THEN core'[c] = NoneBuilt ELSE core'[c].host \in Process
    BY <1>1, <1>3 DEF RolesValid
  <2>3. \A q \in Process \ {port} : process'[q].restart = "no"
    BY <1>1, <1>2 DEF RolesValid
  <2>4. p.restart # "no" => /\ p.asker \in Core /\ core'[p.asker].host = port
                            /\ (core'[p.asker].st = "drained" \/ p.asker = LiveCore)
    BY <1>1, <1>3, <1>4 DEF RolesValid
  <2>5. /\ process'[port].st = "serving" /\ core'[LiveCore].host = port /\ core'[LiveCore].st = "serving"
    BY <1>2, <1>3, <1>4
  <2> QED BY <1>2, <1>4, <2>1, <2>2, <2>3, <2>4, <2>5 DEF RolesValid
<1> QED BY <1>3, <1>5, <1>6, <1>7 DEF ProcessInv

\* The steps that only move processes on: nobody's core, and nothing that is written.
LEMMA ProcessOnly ==
  ASSUME ProcessInv, process' \in [Process -> ProcessRecord], faults' \in Nat,
         UNCHANGED <<core, port, file, tmp, kept, changes, reloads>>,
         port \in Process => process'[port].st = process[port].st /\ process'[port].live = process[port].live,
         \A q \in Process : process'[q].st = "built" =>
           process[q].st = "built" /\ process'[q].live = process[q].live,
         \A q \in Process : process'[q].restart # "no" =>
           process[q].restart # "no" /\ process'[q].asker = process[q].asker
  PROVE  ProcessInv'
<1>1. ProcessTypeOK /\ RolesValid /\ WritesValid /\ KeptValid
  BY DEF ProcessInv
<1>2. port \in Process => LiveCore' = LiveCore /\ Registry' = Registry
  BY DEF LiveCore, Registry
<1>3. ProcessTypeOK'
  BY <1>1 DEF ProcessTypeOK
<1>4. RolesValid'
  <2>1. port' \in Process => /\ process'[port'].st = "serving" /\ LiveCore' \in Core
                             /\ core'[LiveCore'].host = port' /\ core'[LiveCore'].st = "serving"
    BY <1>1, <1>2 DEF RolesValid
  <2>2. \A q \in Process : process'[q].st = "built" =>
          LET c == process'[q].live IN c \in Core /\ core'[c].host = q /\ core'[c].st = "built"
    BY <1>1 DEF RolesValid
  <2>3. ASSUME NEW q \in Process, process'[q].restart # "no"
        PROVE  LET c == process'[q].asker
               IN  port' = q /\ c \in Core /\ core'[c].host = q /\ (core'[c].st = "drained" \/ c = LiveCore')
    BY <1>1, <1>2, <2>3 DEF RolesValid
  <2> QED BY <1>1, <2>1, <2>2, <2>3 DEF RolesValid, LiveCore
<1>5. WritesValid' /\ KeptValid'
  <2>1. \A c \in Core : Idle(c)' <=> Idle(c)
    BY DEF Idle
  <2>2. KeptValid'
    BY <1>1, <1>2 DEF KeptValid
  <2>3. WritesValid'
    BY <1>1, <1>2, <2>1 DEF WritesValid
  <2> QED BY <2>2, <2>3
<1> QED BY <1>3, <1>4, <1>5 DEF ProcessInv

\* While nobody listens nobody writes, and nobody restarts.
LEMMA NobodyListens ==
  ASSUME ProcessInv, port \notin Process
  PROVE  /\ \A c \in Core : Idle(c) /\ core[c].pending = Nothing
         /\ \A p \in Process : process[p].restart = "no"
BY DEF ProcessInv, WritesValid, RolesValid

\* A core fresh from buildHub writes nothing yet.
LEMMA NewCores ==
  ASSUME NEW p \in Process, NEW registry \in SUBSET Change
  PROVE  /\ NewCore(p, registry) \in CoreRecord /\ NewCore(p, registry).st = "built"
         /\ NewCore(p, registry).host = p /\ NewCore(p, registry).registry = registry
         /\ NewCore(p, registry).stage = "idle" /\ NewCore(p, registry).pending = Nothing
         /\ NoneBuilt \in CoreRecord /\ NoneBuilt.st = "unused" /\ NoneBuilt.host = NoProcess
         /\ NoneBuilt.stage = "idle" /\ NoneBuilt.pending = Nothing
BY DEF NewCore, NoneBuilt, CoreRecord

\* The poll.
LEMMA PollStep ==
  ASSUME ProcessInv, NEW c \in Core, Poll(c)
  PROVE  ProcessInv'
<1>1. ProcessTypeOK /\ RolesValid /\ WritesValid /\ KeptValid
  BY DEF ProcessInv
<1>2. c = LiveCore /\ port \in Process
  BY <1>1 DEF Poll, Serves, LiveCore, RolesValid
<1>3. Sync(LiveCore) /\ UNCHANGED <<process, port, file, kept, changes, faults, reloads>>
  BY <1>2 DEF Poll
<1>4. /\ core' \in [Core -> CoreRecord] /\ tmp' \in [Process -> SUBSET Change]
      /\ \A d \in Core : /\ core'[d].st = core[d].st /\ core'[d].host = core[d].host
                         /\ core'[d].registry = core[d].registry
                         /\ core[d].st = "unused" => core'[d] = core[d]
      /\ WritesValid'
  BY <1>1, <1>2, <1>3, SyncEffect
<1>5. SameRoles /\ SameSaved
  BY <1>3, <1>4 DEF SameRoles, SameSaved
<1>6. ProcessTypeOK'
  BY <1>1, <1>3, <1>4 DEF ProcessTypeOK
<1> QED BY <1>1, <1>4, <1>5, <1>6, RolesKept, KeptKept DEF ProcessInv

\* The registry of the core that serves takes a change, and loses none.
LEMMA ChangesStep ==
  ASSUME ProcessInv, NEW c \in Core, Changes(c)
  PROVE  ProcessInv'
<1>1. /\ ProcessTypeOK /\ RolesValid /\ WritesValid /\ KeptValid
      /\ core \in [Core -> CoreRecord] /\ core[c] \in CoreRecord /\ changes \in 0..MaxChanges
  BY DEF ProcessInv, ProcessTypeOK
<1>2. c = LiveCore /\ port \in Process /\ core[c].st = "serving"
  BY <1>1 DEF Changes, Serves, LiveCore, RolesValid
<1>3. changes' = changes + 1 /\ changes' \in Change /\ changes' \in 0..MaxChanges
  BY <1>1, ProcessAssumption DEF Changes, Change
<1> DEFINE k == [core[c] EXCEPT !.registry = core[c].registry \cup {changes'}]
<1>4. core' = [core EXCEPT ![c] = k] /\ UNCHANGED <<process, port, file, tmp, kept, faults, reloads>>
  BY <1>1 DEF Changes
<1>5. /\ k \in CoreRecord /\ k.st = core[c].st /\ k.host = core[c].host
      /\ k.registry = core[c].registry \cup {changes'} /\ k.stage = core[c].stage
      /\ k.content = core[c].content /\ k.pending = core[c].pending
  BY <1>1, <1>3 DEF CoreRecord
<1> HIDE DEF k
<1>6. core'[c] = k /\ \A d \in Core \ {c} : core'[d] = core[d]
  BY <1>1, <1>4
<1>7. SameRoles
  BY <1>2, <1>4, <1>5, <1>6 DEF SameRoles
<1>8. LiveCore' = LiveCore /\ Registry \subseteq Registry'
  BY <1>2, <1>4, <1>5, <1>6 DEF LiveCore, Registry
<1>9. ProcessTypeOK'
  BY <1>1, <1>3, <1>4, <1>5 DEF ProcessTypeOK
<1>10. KeptValid'
  BY <1>1, <1>2, <1>4, <1>8 DEF KeptValid
<1>11. WritesValid'
  <2>1. \A d \in Core : /\ core'[d].stage = core[d].stage /\ core'[d].content = core[d].content
                        /\ core'[d].pending = core[d].pending /\ core'[d].host = core[d].host
    BY <1>5, <1>6
  <2>2. \A d \in Core : Idle(d)' <=> Idle(d)
    BY <2>1 DEF Idle
  <2> QED BY <1>1, <1>4, <1>8, <2>1, <2>2 DEF WritesValid
<1> QED BY <1>1, <1>7, <1>9, <1>10, <1>11, RolesKept DEF ProcessInv

\* A core is built from the file, and nobody uses it yet.
LEMMA BuildStep ==
  ASSUME ProcessInv, NEW p \in Process, Build(p)
  PROVE  ProcessInv'
<1> DEFINE c == FirstIn(FreeCore)
<1>1. /\ ProcessTypeOK /\ RolesValid /\ WritesValid /\ KeptValid
      /\ core \in [Core -> CoreRecord] /\ process \in [Process -> ProcessRecord]
      /\ process[p] \in ProcessRecord /\ process[p].st = "booting" /\ file \in SUBSET Change
      /\ NoProcess \notin Process /\ port \in Process \cup {NoProcess}
  BY ProcessAssumption DEF ProcessInv, ProcessTypeOK, Build
<1>2. c \in FreeCore
  BY FirstFree DEF Build
<1>3. c \in Core /\ core[c].st = "unused" /\ core[c] = NoneBuilt
  BY <1>1, <1>2 DEF FreeCore, RolesValid
<1> DEFINE k == NewCore(p, file)
           q == [process[p] EXCEPT !.st = "built", !.live = c]
<1>4. /\ core' = [core EXCEPT ![c] = k] /\ process' = [process EXCEPT ![p] = q]
      /\ UNCHANGED <<port, file, tmp, kept, changes, faults, reloads>>
  BY <1>1 DEF Build
<1>5. /\ k \in CoreRecord /\ k.st = "built" /\ k.host = p /\ k.stage = "idle" /\ k.pending = Nothing
      /\ core[c].host = NoProcess
  BY <1>1, <1>3, NewCores
<1>6. /\ q \in ProcessRecord /\ q.st = "built" /\ q.live = c
      /\ q.restart = process[p].restart /\ q.asker = process[p].asker
  BY <1>1, <1>3 DEF ProcessRecord
<1> HIDE DEF c, k, q
<1>7. /\ core'[c] = k /\ (\A d \in Core \ {c} : core'[d] = core[d])
      /\ process'[p] = q /\ (\A r \in Process \ {p} : process'[r] = process[r])
  BY <1>1, <1>3, <1>4
<1>8. port # p /\ process[p].restart = "no"
  BY <1>1 DEF RolesValid
<1>9. port \in Process => /\ LiveCore' = LiveCore /\ LiveCore \in Core \ {c} /\ Registry' = Registry
  BY <1>1, <1>3, <1>4, <1>7, <1>8 DEF RolesValid, LiveCore, Registry
<1>10. ProcessTypeOK'
  BY <1>1, <1>4, <1>5, <1>6 DEF ProcessTypeOK
<1>11. RolesValid'
  <2>1. port' \in Process => /\ process'[port'].st = "serving" /\ LiveCore' \in Core
                             /\ core'[LiveCore'].host = port' /\ core'[LiveCore'].st = "serving"
    BY <1>1, <1>4, <1>7, <1>8, <1>9 DEF RolesValid
  <2>2. \A r \in Process : process'[r].st = "built" =>
          LET d == process'[r].live IN d \in Core /\ core'[d].host = r /\ core'[d].st = "built"
    BY <1>1, <1>3, <1>5, <1>6, <1>7 DEF RolesValid
  <2>3. \A d \in Core : IF core'[d].st = "unused" THEN core'[d] = NoneBuilt ELSE core'[d].host \in Process
    BY <1>1, <1>5, <1>7 DEF RolesValid
  <2>4. ASSUME NEW r \in Process, process'[r].restart # "no"
        PROVE  LET d == process'[r].asker
               IN  port' = r /\ d \in Core /\ core'[d].host = r /\ (core'[d].st = "drained" \/ d = LiveCore')
    <3>1. r # p /\ process'[r] = process[r]
      BY <1>6, <1>7, <1>8, <2>4
    <3>2. port = r /\ process[r].asker \in Core \ {c}
      BY <1>1, <1>3, <1>5, <2>4, <3>1 DEF RolesValid
    <3> QED BY <1>1, <1>4, <1>7, <1>9, <2>4, <3>1, <3>2 DEF RolesValid
  <2> QED BY <2>1, <2>2, <2>3, <2>4 DEF RolesValid, LiveCore
<1>12. WritesValid' /\ KeptValid'
  <2>1. \A d \in Core : IF core'[d].stage = "idle" THEN core'[d].pending = Nothing
                         ELSE ~Idle(d) /\ core'[d] = core[d]
    BY <1>1, <1>5, <1>7 DEF WritesValid, Idle
  <2>2. \A d \in Core : Idle(d)' <=> core'[d].stage = "idle"
    BY DEF Idle
  <2>3. KeptValid'
    BY <1>1, <1>4, <1>9 DEF KeptValid
  <2>4. WritesValid'
    BY <1>1, <1>4, <1>9, <2>1, <2>2 DEF WritesValid
  <2> QED BY <2>3, <2>4
<1> QED BY <1>10, <1>11, <1>12 DEF ProcessInv

\* Binding the port, when it is free: the core of the process serves from now on, and what
\* it found on file is kept.
LEMMA BindStep ==
  ASSUME ProcessInv, NEW p \in Process, process[p].st = "built", Bind(p),
         UNCHANGED <<file, tmp, changes, faults, reloads>>
  PROVE  ProcessInv'
<1> DEFINE c == process[p].live
           k == [core[c] EXCEPT !.st = "serving"]
           q == [process[p] EXCEPT !.st = "serving"]
<1>1. /\ ProcessTypeOK /\ RolesValid /\ core \in [Core -> CoreRecord] /\ process \in [Process -> ProcessRecord]
      /\ process[p] \in ProcessRecord /\ file \in SUBSET Change /\ port = NoProcess /\ port \notin Process
      /\ c \in Core /\ core[c] \in CoreRecord /\ core[c].host = p /\ core[c].st = "built"
  BY ProcessAssumption DEF ProcessInv, ProcessTypeOK, RolesValid, Bind
<1>2. /\ core' = [core EXCEPT ![c] = k] /\ process' = [process EXCEPT ![p] = q]
      /\ port' = p /\ kept' = core[c].registry \cap file
  BY DEF Bind
<1>3. /\ k \in CoreRecord /\ k.st = "serving" /\ k.host = p /\ k.registry = core[c].registry
      /\ k.stage = core[c].stage /\ k.pending = core[c].pending
  BY <1>1 DEF CoreRecord
<1>4. /\ q \in ProcessRecord /\ q.st = "serving" /\ q.live = c
      /\ q.restart = process[p].restart
  BY <1>1 DEF ProcessRecord
<1>5. /\ \A d \in Core : Idle(d) /\ core[d].pending = Nothing
      /\ \A r \in Process : process[r].restart = "no"
  BY <1>1, NobodyListens
<1> HIDE DEF c, k, q
<1>6. /\ core'[c] = k /\ (\A d \in Core \ {c} : core'[d] = core[d])
      /\ process'[p] = q /\ (\A r \in Process \ {p} : process'[r] = process[r])
  BY <1>1, <1>2
<1>7. LiveCore' = c /\ Registry' = core[c].registry
  BY <1>2, <1>3, <1>4, <1>6 DEF LiveCore, Registry
<1>8. ProcessTypeOK'
  <2>1. kept' \in SUBSET Change
    BY <1>1, <1>2
  <2> QED BY <1>1, <1>2, <1>3, <1>4, <2>1 DEF ProcessTypeOK
<1>9. RolesValid'
  <2>1. \A r \in Process : process'[r].st = "built" =>
          LET d == process'[r].live IN d \in Core /\ core'[d].host = r /\ core'[d].st = "built"
    BY <1>1, <1>4, <1>6 DEF RolesValid
  <2>2. \A d \in Core : IF core'[d].st = "unused" THEN core'[d] = NoneBuilt ELSE core'[d].host \in Process
    BY <1>1, <1>3, <1>6 DEF RolesValid
  <2>3. \A r \in Process : process'[r].restart = "no"
    BY <1>4, <1>5, <1>6
  <2>4. process'[p].st = "serving" /\ core'[c].host = p /\ core'[c].st = "serving"
    BY <1>3, <1>4, <1>6
  <2> QED BY <1>1, <1>2, <1>7, <2>1, <2>2, <2>3, <2>4 DEF RolesValid
<1>10. WritesValid' /\ KeptValid'
  <2>1. \A d \in Core : core'[d].stage = "idle" /\ core'[d].pending = Nothing
    BY <1>3, <1>5, <1>6 DEF Idle
  <2>2. WritesValid'
    BY <2>1 DEF WritesValid, Idle
  <2> QED BY <1>2, <1>7, <2>2 DEF KeptValid
<1> QED BY <1>8, <1>9, <1>10 DEF ProcessInv

\* When it is not: the core of the process is thrown away, and nobody used it.
LEMMA RetryStep ==
  ASSUME ProcessInv, NEW p \in Process, process[p].st = "built", Retry(p),
         UNCHANGED <<file, tmp, changes, faults, reloads>>
  PROVE  ProcessInv'
<1> DEFINE c == process[p].live
           q == [process[p] EXCEPT !.st = IF process[p].waits THEN "booting" ELSE "gone"]
<1>1. /\ ProcessTypeOK /\ RolesValid /\ WritesValid /\ KeptValid
      /\ core \in [Core -> CoreRecord] /\ process \in [Process -> ProcessRecord]
      /\ process[p] \in ProcessRecord /\ port \in Process
      /\ c \in Core /\ core[c] \in CoreRecord /\ core[c].host = p /\ core[c].st = "built"
  BY DEF ProcessInv, ProcessTypeOK, RolesValid, Retry
<1>2. /\ core' = [core EXCEPT ![c] = NoneBuilt] /\ process' = [process EXCEPT ![p] = q]
      /\ UNCHANGED <<port, kept>>
  BY DEF Retry
<1>3. /\ NoneBuilt \in CoreRecord /\ NoneBuilt.st = "unused" /\ NoneBuilt.stage = "idle"
      /\ NoneBuilt.pending = Nothing
  BY <1>1, NewCores
<1>4. q \in ProcessRecord /\ q.st \in {"booting", "gone"} /\ q.restart = process[p].restart
  BY <1>1 DEF ProcessRecord
<1>5. port # p /\ process[p].restart = "no" /\ Idle(c)
  BY <1>1 DEF RolesValid, WritesValid
<1> HIDE DEF c, q
<1>6. /\ core'[c] = NoneBuilt /\ (\A d \in Core \ {c} : core'[d] = core[d])
      /\ process'[p] = q /\ (\A r \in Process \ {p} : process'[r] = process[r])
  BY <1>1, <1>2
<1>7. LiveCore' = LiveCore /\ LiveCore \in Core \ {c} /\ Registry' = Registry
  BY <1>1, <1>2, <1>5, <1>6 DEF RolesValid, LiveCore, Registry
<1>8. ProcessTypeOK'
  BY <1>1, <1>2, <1>3, <1>4 DEF ProcessTypeOK
<1>9. RolesValid'
  <2>1. /\ process'[port].st = "serving" /\ core'[LiveCore].host = port /\ core'[LiveCore].st = "serving"
    BY <1>1, <1>5, <1>6, <1>7 DEF RolesValid
  <2>2. \A r \in Process : process'[r].st = "built" =>
          LET d == process'[r].live IN d \in Core /\ core'[d].host = r /\ core'[d].st = "built"
    BY <1>1, <1>4, <1>6 DEF RolesValid
  <2>3. \A d \in Core : IF core'[d].st = "unused" THEN core'[d] = NoneBuilt ELSE core'[d].host \in Process
    BY <1>1, <1>3, <1>6 DEF RolesValid
  <2>4. ASSUME NEW r \in Process, process'[r].restart # "no"
        PROVE  LET d == process'[r].asker
               IN  port' = r /\ d \in Core /\ core'[d].host = r /\ (core'[d].st = "drained" \/ d = LiveCore')
    <3>1. r # p /\ process'[r] = process[r]
      BY <1>4, <1>5, <1>6, <2>4
    <3>2. port = r /\ process[r].asker \in Core \ {c}
      BY <1>1, <2>4, <3>1 DEF RolesValid
    <3> QED BY <1>1, <1>2, <1>6, <1>7, <2>4, <3>1, <3>2 DEF RolesValid
  <2> QED BY <1>1, <1>2, <1>7, <2>1, <2>2, <2>3, <2>4 DEF RolesValid
<1>10. WritesValid' /\ KeptValid'
  <2>1. \A d \in Core : IF core'[d].stage = "idle" THEN core'[d].pending = Nothing
                         ELSE ~Idle(d) /\ core'[d] = core[d]
    BY <1>1, <1>3, <1>6 DEF WritesValid, Idle
  <2>2. \A d \in Core : Idle(d)' <=> core'[d].stage = "idle"
    BY DEF Idle
  <2>3. KeptValid'
    BY <1>1, <1>2, <1>7 DEF KeptValid
  <2>4. WritesValid'
    BY <1>1, <1>2, <1>7, <2>1, <2>2 DEF WritesValid
  <2> QED BY <2>3, <2>4
<1> QED BY <1>8, <1>9, <1>10 DEF ProcessInv

\* A process that starts has neither core nor port.
LEMMA StartStep ==
  ASSUME ProcessInv, NEW p \in Process, Start(p)
  PROVE  ProcessInv'
<1> DEFINE n == NewProcess(NoCore, FALSE, NoProcess)
<1>1. /\ process \in [Process -> ProcessRecord] /\ faults \in Nat
      /\ port \in Process => process[port].st = "serving"
  BY DEF ProcessInv, ProcessTypeOK, RolesValid
<1>2. n \in ProcessRecord /\ n.st = "booting" /\ n.restart = "no"
  BY DEF NewProcess, ProcessRecord
<1>3. process' = [process EXCEPT ![p] = n] /\ UNCHANGED <<core, port, file, tmp, kept, changes, faults, reloads>>
  BY DEF Start
<1>4. port # p
  BY <1>1 DEF Start, Runs
<1> HIDE DEF n
<1>5. process'[p] = n /\ \A r \in Process \ {p} : process'[r] = process[r]
  BY <1>1, <1>3
<1>6. process' \in [Process -> ProcessRecord]
  BY <1>1, <1>2, <1>3
<1> QED BY <1>1, <1>2, <1>3, <1>4, <1>5, <1>6, ProcessOnly

\* The restart of the process that listens.
LEMMA AskRestartStep ==
  ASSUME ProcessInv, NEW p \in Process, AskRestart(p)
  PROVE  ProcessInv'
<1>1. /\ port = p /\ process[p] \in ProcessRecord /\ faults \in Nat /\ UNCHANGED faults
      /\ LiveCore = process[p].live /\ LiveCore \in Core
  BY DEF ProcessInv, ProcessTypeOK, RolesValid, AskRestart, LiveCore
<1> DEFINE set == IF Idle(LiveCore) THEN process[p].awaits \cup {"restart"} ELSE process[p].awaits \ {"restart"}
           q == [process[p] EXCEPT !.restart = "flushing", !.asker = LiveCore, !.awaits = set]
<1>2. set \in SUBSET {"restart", "goodbye"}
  BY <1>1 DEF ProcessRecord
<1>3. /\ q \in ProcessRecord /\ q.st = process[p].st /\ q.live = process[p].live /\ q.asker = LiveCore
  BY <1>1, <1>2 DEF ProcessRecord
<1>4. /\ Sync(LiveCore) /\ process' = [process EXCEPT ![port] = q]
      /\ UNCHANGED <<port, file, kept, changes, reloads>>
  BY <1>1 DEF AskRestart, Flush
<1> HIDE DEF set, q
<1> QED BY <1>1, <1>3, <1>4, FlushStep

\* The spawn, or its failure, after which nobody restarts.
LEMMA SpawnFreshStep ==
  ASSUME ProcessInv, NEW p \in Process, SpawnFresh(p)
  PROVE  ProcessInv'
<1>1. /\ process \in [Process -> ProcessRecord] /\ process[p] \in ProcessRecord /\ faults \in Nat
      /\ port \in Process /\ port = p /\ process[p].st = "serving" /\ process[p].restart = "flushing"
      /\ UNCHANGED <<core, port, file, tmp, kept, changes, reloads>>
  BY DEF ProcessInv, ProcessTypeOK, RolesValid, SpawnFresh, Flushed
<1>2. CASE /\ FreeProcess # {}
           /\ process' = [process EXCEPT
                ![p].restart = "spawned",
                ![FirstIn(FreeProcess)] = NewProcess(NoCore, TRUE, p)]
           /\ UNCHANGED faults
  <2> DEFINE n == NewProcess(NoCore, TRUE, p)
             f == FirstIn(FreeProcess)
             q == [process[p] EXCEPT !.restart = "spawned"]
  <2>1. f \in Process /\ f # p
    BY <1>1, <1>2, FirstFree DEF FreeProcess
  <2>2. n \in ProcessRecord /\ n.st = "booting" /\ n.restart = "no"
    BY DEF NewProcess, ProcessRecord
  <2>3. /\ q \in ProcessRecord /\ q.st = "serving" /\ q.live = process[p].live
        /\ q.restart = "spawned" /\ q.asker = process[p].asker
    BY <1>1 DEF ProcessRecord
  <2>4. process' = [[process EXCEPT ![p] = q] EXCEPT ![f] = n]
    BY <1>1, <1>2, <2>1
  <2> HIDE DEF n, f, q
  <2>5. /\ process'[p] = q /\ process'[f] = n /\ \A r \in Process \ {p, f} : process'[r] = process[r]
    BY <1>1, <2>1, <2>4
  <2>6. process' \in [Process -> ProcessRecord]
    BY <1>1, <2>1, <2>2, <2>3, <2>4
  <2> QED BY <1>1, <1>2, <2>1, <2>2, <2>3, <2>5, <2>6, ProcessOnly
<1>3. CASE /\ process' = [process EXCEPT ![p].restart = "no", ![p].asker = NoCore]
           /\ Fault
  <2> DEFINE q == [process[p] EXCEPT !.restart = "no", !.asker = NoCore]
  <2>1. q \in ProcessRecord /\ q.st = process[p].st /\ q.live = process[p].live /\ q.restart = "no"
    BY <1>1 DEF ProcessRecord
  <2>2. process' = [process EXCEPT ![p] = q]
    BY <1>1, <1>3
  <2>3. faults' \in Nat
    BY <1>1, <1>3 DEF Fault
  <2> HIDE DEF q
  <2>4. process'[p] = q /\ \A r \in Process \ {p} : process'[r] = process[r]
    BY <1>1, <2>2
  <2>5. process' \in [Process -> ProcessRecord]
    BY <1>1, <2>1, <2>2
  <2> QED BY <1>1, <2>1, <2>2, <2>3, <2>4, <2>5, ProcessOnly
<1> QED BY <1>2, <1>3 DEF SpawnFresh

\* The goodbye of the process that listens, with the core that serves or one that has been
\* drained, and has nothing to flush.
LEMMA GoodbyeStep ==
  ASSUME ProcessInv, port \in Process, NEW c \in Core, core[c].st = "drained" \/ c = LiveCore,
         NEW restart \in {"no", "flushing", "spawned", "handed"},
         restart # "no" => process[port].restart # "no",
         Goodbye(port, c, restart), UNCHANGED <<port, file, kept, changes, reloads>>, faults' \in Nat
  PROVE  ProcessInv'
<1> DEFINE left == [process[port] EXCEPT !.leaving = TRUE, !.restart = restart]
<1>1. /\ process \in [Process -> ProcessRecord] /\ process[port] \in ProcessRecord
      /\ core[LiveCore].st = "serving"
  BY DEF ProcessInv, ProcessTypeOK, RolesValid
<1>2. /\ left \in ProcessRecord /\ left.st = process[port].st /\ left.live = process[port].live
      /\ left.restart = restart /\ left.asker = process[port].asker
      /\ left.awaits \in SUBSET {"restart", "goodbye"}
  BY <1>1 DEF ProcessRecord
<1>3. CASE core[c].st = "drained"
  <2>1. process' = [process EXCEPT ![port] = left] /\ UNCHANGED <<core, tmp>>
    BY <1>3 DEF Goodbye
  <2> HIDE DEF left
  <2>2. process'[port] = left /\ \A r \in Process \ {port} : process'[r] = process[r]
    BY <1>1, <2>1
  <2>3. process' \in [Process -> ProcessRecord]
    BY <1>1, <1>2, <2>1
  <2> QED BY <1>2, <2>1, <2>2, <2>3, ProcessOnly
<1>4. CASE core[c].st # "drained"
  <2> DEFINE set == IF Idle(c) THEN left.awaits \cup {"goodbye"} ELSE left.awaits \ {"goodbye"}
             q == [left EXCEPT !.awaits = set]
  <2>1. c = LiveCore /\ Sync(c) /\ process' = [process EXCEPT ![port] = q]
    BY <1>4 DEF Goodbye, Flush
  <2> HIDE DEF left
  <2>2. set \in SUBSET {"restart", "goodbye"}
    BY <1>2
  <2>3. /\ q \in ProcessRecord /\ q.st = left.st /\ q.live = left.live
        /\ q.restart = left.restart /\ q.asker = left.asker
    BY <1>2, <2>2 DEF ProcessRecord
  <2> HIDE DEF set, q
  <2>4. Sync(LiveCore)
    BY <2>1
  <2> QED BY <1>2, <2>1, <2>3, <2>4, FlushStep
<1> QED BY <1>3, <1>4

\* Handing over to the fresh process.
LEMMA HandStep ==
  ASSUME ProcessInv, NEW p \in Process, Hand(p)
  PROVE  ProcessInv'
<1>1. /\ port = p /\ process[p].restart # "no" /\ process[p].asker \in Core
      /\ core[process[p].asker].st = "drained" \/ process[p].asker = LiveCore
  BY DEF ProcessInv, RolesValid, Hand
<1>2. /\ Goodbye(port, process[p].asker, "handed") /\ faults' \in Nat
      /\ UNCHANGED <<port, file, kept, changes, reloads>>
  BY <1>1 DEF Hand, ProcessInv, ProcessTypeOK
<1> QED BY <1>1, <1>2, GoodbyeStep

\* A stop signal.
LEMMA SignalStep ==
  ASSUME ProcessInv, NEW p \in Process, Signal(p)
  PROVE  ProcessInv'
<1>1. port = p /\ LiveCore = process[p].live /\ LiveCore \in Core /\ process[p] \in ProcessRecord
  BY DEF ProcessInv, ProcessTypeOK, RolesValid, Signal, LiveCore
<1>2. process[p].restart \in {"no", "flushing", "spawned", "handed"}
  BY <1>1 DEF ProcessRecord
<1>3. /\ Goodbye(port, LiveCore, process[p].restart) /\ faults' \in Nat
      /\ UNCHANGED <<port, file, kept, changes, reloads>>
  BY <1>1 DEF Signal, Fault, ProcessInv, ProcessTypeOK
<1> QED BY <1>1, <1>2, <1>3, GoodbyeStep

\* The end of a process, asked for or not.
LEMMA EndStep ==
  ASSUME ProcessInv, NEW p \in Process, Exit(p) \/ Crash(p)
  PROVE  ProcessInv'
<1>1. ProcessTypeOK /\ RolesValid /\ WritesValid /\ KeptValid
  BY DEF ProcessInv
<1>2. PICK how \in {"gone", "crashed"} : Ended(p, how)
  BY DEF Exit, Crash
<1>3. faults' \in Nat /\ UNCHANGED <<file, kept, changes, reloads>>
  BY <1>1 DEF Exit, Crash, Fault, ProcessTypeOK
<1>4. /\ process' \in [Process -> ProcessRecord] /\ core' \in [Core -> CoreRecord]
      /\ port' \in Process \cup {NoProcess} /\ tmp' \in [Process -> SUBSET Change]
      /\ RolesValid' /\ WritesValid' /\ KeptValid'
  BY <1>1, <1>2, <1>3, EndedEffect
<1>5. ProcessTypeOK'
  BY <1>1, <1>3, <1>4 DEF ProcessTypeOK
<1> QED BY <1>4, <1>5 DEF ProcessInv

\* A hot reload: the fresh core has the registry the old one had, so that what the old one
\* is still writing, and what waits behind that, is in it.
LEMMA HotReloadStep ==
  ASSUME ProcessInv, NEW p \in Process, HotReload(p)
  PROVE  ProcessInv'
<1> DEFINE old == process[p].live
           new == FirstIn(FreeCore)
           drained == [core[old] EXCEPT !.st = "drained", !.registry = {}]
           fresh == [NewCore(p, core[old].registry) EXCEPT !.st = "serving"]
           q == [process[p] EXCEPT !.live = new]
<1>1. /\ ProcessTypeOK /\ RolesValid /\ WritesValid /\ KeptValid
      /\ core \in [Core -> CoreRecord] /\ process \in [Process -> ProcessRecord]
      /\ process[p] \in ProcessRecord /\ port = p /\ NoProcess \notin Process
      /\ old = LiveCore /\ old \in Core /\ core[old] \in CoreRecord
      /\ core[old].host = p /\ core[old].st = "serving" /\ process[p].st = "serving"
  BY ProcessAssumption DEF ProcessInv, ProcessTypeOK, RolesValid, HotReload, LiveCore
<1>2. new \in FreeCore
  BY FirstFree DEF HotReload
<1>3. new \in Core /\ core[new] = NoneBuilt /\ core[new].st = "unused" /\ core[new].host = NoProcess
      /\ core[old].registry \in SUBSET Change /\ core[old].registry = Registry
  BY <1>1, <1>2, NewCores DEF FreeCore, RolesValid, CoreRecord, Registry
<1>4. new # old
  BY <1>1, <1>3
<1>5. /\ core' = [[core EXCEPT ![old] = drained] EXCEPT ![new] = fresh]
      /\ process' = [process EXCEPT ![p] = q]
      /\ UNCHANGED <<port, file, tmp, kept, changes, faults>> /\ reloads' = reloads + 1
  <2> HIDE DEF old, new
  <2>1. [core EXCEPT ![old].st = "drained", ![old].registry = {}] = [core EXCEPT ![old] = drained]
    BY <1>1
  <2> QED BY <1>3, <1>4, <2>1 DEF HotReload, old, new
<1>6. /\ drained \in CoreRecord /\ drained.st = "drained" /\ drained.host = p
      /\ drained.stage = core[old].stage /\ drained.content = core[old].content
      /\ drained.pending = core[old].pending
  BY <1>1 DEF CoreRecord
<1>7. /\ fresh \in CoreRecord /\ fresh.st = "serving" /\ fresh.host = p /\ fresh.registry = Registry
      /\ fresh.stage = "idle" /\ fresh.pending = Nothing
  <2> DEFINE k == NewCore(p, core[old].registry)
  <2>1. /\ k \in CoreRecord /\ k.host = p /\ k.registry = Registry /\ k.stage = "idle" /\ k.pending = Nothing
    BY <1>3, NewCores
  <2> HIDE DEF k
  <2>2. fresh = [k EXCEPT !.st = "serving"]
    BY DEF k
  <2> QED BY <2>1, <2>2 DEF CoreRecord
<1>8. /\ q \in ProcessRecord /\ q.st = "serving" /\ q.live = new
      /\ q.restart = process[p].restart /\ q.asker = process[p].asker
  BY <1>1, <1>3 DEF ProcessRecord
<1> HIDE DEF old, new, drained, fresh, q
<1>9. /\ core'[old] = drained /\ core'[new] = fresh /\ (\A d \in Core \ {old, new} : core'[d] = core[d])
      /\ process'[p] = q /\ (\A r \in Process \ {p} : process'[r] = process[r])
  BY <1>1, <1>3, <1>4, <1>5
<1>10. LiveCore' = new /\ Registry' = Registry
  BY <1>1, <1>5, <1>7, <1>8, <1>9 DEF LiveCore, Registry
<1>11. ProcessTypeOK'
  <2>1. core' \in [Core -> CoreRecord] /\ process' \in [Process -> ProcessRecord]
    BY <1>1, <1>5, <1>6, <1>7, <1>8
  <2> QED BY <1>1, <1>5, <2>1 DEF ProcessTypeOK
<1>12. RolesValid'
  <2>1. \A r \in Process : process'[r].st = "built" =>
          LET d == process'[r].live IN d \in Core /\ core'[d].host = r /\ core'[d].st = "built"
    BY <1>1, <1>3, <1>8, <1>9 DEF RolesValid
  <2>2. \A d \in Core : IF core'[d].st = "unused" THEN core'[d] = NoneBuilt ELSE core'[d].host \in Process
    BY <1>1, <1>6, <1>7, <1>9 DEF RolesValid
  <2>3. ASSUME NEW r \in Process, process'[r].restart # "no"
        PROVE  LET d == process'[r].asker
               IN  port' = r /\ d \in Core /\ core'[d].host = r /\ (core'[d].st = "drained" \/ d = LiveCore')
    <3>1. process[r].restart # "no" /\ process'[r].asker = process[r].asker
      BY <1>8, <1>9, <2>3
    <3>2. port = r /\ process[r].asker \in Core \ {new}
      BY <1>1, <1>3, <3>1 DEF RolesValid
    <3> QED BY <1>1, <1>5, <1>6, <1>9, <3>1, <3>2 DEF RolesValid
  <2>4. process'[p].st = "serving" /\ core'[new].host = p /\ core'[new].st = "serving"
    BY <1>7, <1>8, <1>9
  <2> QED BY <1>1, <1>3, <1>5, <1>10, <2>1, <2>2, <2>3, <2>4 DEF RolesValid
<1>13. WritesValid' /\ KeptValid'
  <2>1. \A d \in Core : IF core'[d].stage = "idle" THEN core'[d].pending = Nothing
                         ELSE /\ ~Idle(d) /\ core'[d].host = core[d].host
                              /\ core'[d].stage = core[d].stage /\ core'[d].content = core[d].content
                              /\ core'[d].pending = core[d].pending
    BY <1>1, <1>6, <1>7, <1>9 DEF WritesValid, Idle
  <2>2. \A d \in Core : Idle(d)' <=> core'[d].stage = "idle"
    BY DEF Idle
  <2>3. KeptValid'
    BY <1>1, <1>5, <1>10 DEF KeptValid
  <2>4. WritesValid'
    BY <1>1, <1>5, <1>10, <2>1, <2>2 DEF WritesValid
  <2> QED BY <2>3, <2>4
<1> QED BY <1>11, <1>12, <1>13 DEF ProcessInv

\* Every step keeps the invariant.
LEMMA ProcessStep == ProcessInv /\ [ProcessNext]_processVars => ProcessInv'
<1> SUFFICES ASSUME ProcessInv, [ProcessNext]_processVars PROVE ProcessInv'
  OBVIOUS
<1>1. CASE UNCHANGED processVars
  <2>1. ProcessTypeOK'
    BY <1>1 DEF processVars, ProcessInv, ProcessTypeOK
  <2>2. RolesValid'
    BY <1>1 DEF processVars, ProcessInv, RolesValid, LiveCore
  <2>3. WritesValid' /\ KeptValid'
    BY <1>1 DEF processVars, ProcessInv, WritesValid, KeptValid, LiveCore, Registry, Idle
  <2> QED BY <2>1, <2>2, <2>3 DEF ProcessInv
<1>2. ASSUME NEW c \in Core, Poll(c) \/ Writing(c) \/ Changes(c) PROVE ProcessInv'
  BY <1>2, PollStep, WritingStep, ChangesStep
<1>3. ASSUME NEW p \in Process, Boots(p) PROVE ProcessInv'
  BY <1>3, BuildStep, BindStep, RetryStep DEF Boots, Binding
<1>4. ASSUME NEW p \in Process, Leaves(p) PROVE ProcessInv'
  BY <1>4, SpawnFreshStep, HandStep, EndStep DEF Leaves
<1>5. ASSUME NEW p \in Process, Start(p) \/ AskRestart(p) \/ Signal(p) \/ Crash(p) \/ HotReload(p)
      PROVE  ProcessInv'
  BY <1>5, StartStep, AskRestartStep, SignalStep, EndStep, HotReloadStep
<1> QED BY <1>1, <1>2, <1>3, <1>4, <1>5 DEF ProcessNext

\* The invariant holds in every state.
LEMMA ProcessInvariant == ProcessSpec => []ProcessInv
BY InitValid, ProcessStep, PTL DEF ProcessSpec

\* One core at a time writes, and only for the process that listens; who is about to listen
\* has a core of its own; and who restarts still has the core it asked with: over boots,
\* binds, retries, restarts, hot reloads, signals and crashes (server.ts, main.ts).
THEOREM ProcessTypeCorrect == ProcessSpec => [](ProcessTypeOK /\ RolesValid /\ WritesValid)
<1>1. ProcessInv => ProcessTypeOK /\ RolesValid /\ WritesValid
  BY DEF ProcessInv
<1> QED BY <1>1, ProcessInvariant, PTL

\* What a listening hub found on file, or has saved, stays in the file: for any number of
\* queued writes, failed writes, crashes in the middle of one, restarts and hot reloads
\* (StatePersistence, "replaces atomically", state.ts).
THEOREM SavedSticksCorrect == ProcessSpec => []SavedSticks
<1>1. ProcessInv => SavedSticks
  BY DEF ProcessInv, KeptValid, SavedSticks
<1> QED BY <1>1, ProcessInvariant, PTL
===============================================================================
