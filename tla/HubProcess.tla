----------------------------- MODULE HubProcess -----------------------------
(***************************************************************************)
(* The hub as processes: how the registry outlives them                    *)
(* (packages/hub/src/state.ts, server.ts, main.ts).  A process builds a     *)
(* core, the core polls its registry into the snapshot file; an upgrade    *)
(* restart spawns a fresh process that reads the file and waits for the    *)
(* port; a hot reload replaces the core inside the process.                *)
(*                                                                         *)
(* A registry is the set of changes it has seen, and so is the file; an    *)
(* absent or unreadable file reads as the empty registry.  Each write has  *)
(* a savedAt of its own, so two writes never count as the same content.    *)
(* Code between two awaits is one action, but building a core and binding  *)
(* the port are two: another process runs in between.                      *)
(***************************************************************************)
EXTENDS Integers, FiniteSets

CONSTANTS
  Process, Core,     \* naturals, taken in order
  NoProcess, NoCore, \* nobody, and no core: 0
  MaxChanges,        \* bound: changes of the registry
  MaxFaults,         \* bound: crashes, failed writes, failed spawns, stop signals
  MaxReloads         \* bound: hot reloads

ASSUME ProcessAssumption ==
  /\ Process \subseteq Nat /\ Core \subseteq Nat
  /\ NoProcess \notin Process /\ NoCore \notin Core
  /\ MaxChanges \in Nat /\ MaxFaults \in Nat /\ MaxReloads \in Nat

VARIABLES
  process,  \* what each process is at
  core,     \* the cores and the writes they have under way
  port,     \* the process that listens
  file,     \* the snapshot: the changes it holds
  tmp,      \* the temporary file of each process
  kept,     \* history: changes on file since the listener bound the port
  changes, faults, reloads

processVars == <<process, core, port, file, tmp, kept, changes, faults, reloads>>

Change == 1..MaxChanges
Nothing == [some |-> FALSE]
Content(set) == [some |-> TRUE, of |-> set]

NewProcess(live, waits, by) ==
  [st |-> "booting", live |-> live, waits |-> waits, by |-> by,
   restart |-> "no", asker |-> NoCore, awaits |-> {}, leaving |-> FALSE]

\* A core fresh from buildHub: st is "built" until it serves, "drained" once a hot reload
\* has taken its registry away; stage is how far its write has come, again whether the
\* write was queued behind another.
NewCore(host, registry) ==
  [st |-> "built", host |-> host, registry |-> registry,
   stage |-> "idle", content |-> {}, pending |-> Nothing, again |-> FALSE]

Unborn == [st |-> "unborn", live |-> NoCore, waits |-> FALSE, by |-> NoProcess,
           restart |-> "no", asker |-> NoCore, awaits |-> {}, leaving |-> FALSE]
NoneBuilt == [NewCore(NoProcess, {}) EXCEPT !.st = "unused"]

ProcessInit ==
  LET p == CHOOSE q \in Process : \A r \in Process : q <= r
  IN /\ process = [q \in Process |->
          IF q = p THEN NewProcess(NoCore, FALSE, NoProcess) ELSE Unborn]
     /\ core = [c \in Core |-> NoneBuilt]
     /\ port = NoProcess
     /\ file = {} /\ kept = {}
     /\ tmp = [q \in Process |-> {}]
     /\ changes = 0 /\ faults = 0 /\ reloads = 0

FirstIn(S) == CHOOSE x \in S : \A y \in S : x <= y
FreeProcess == {p \in Process : process[p].st = "unborn"}
FreeCore == {c \in Core : core[c].st = "unused"}
Runs(p) == process[p].st \in {"booting", "built", "serving"}
Serves(c) == core[c].st = "serving" /\ port = core[c].host /\ process[port].live = c
Idle(c) == core[c].stage = "idle"

Fault == faults < MaxFaults /\ faults' = faults + 1
-------------------------------------------------------------------------------
(***************************************************************************)
(* The coalescing writer (StatePersistence).                               *)
(***************************************************************************)

\* #write up to its first await: the temporary file is opened and truncated.
BeginWrite(k, content) == [k EXCEPT !.stage = "writing", !.content = content, !.again = FALSE]

\* Cores of one process share the temporary file.  Assumed: the last write of a drained
\* core is over before the next core's first (it takes less than the poll's two seconds).
Undisturbed(c) == \A d \in Core \ {c} : core[d].host = core[c].host => Idle(d)

\* A sync during a write leaves its content for later and returns at once.
Sync(c) ==
  /\ Undisturbed(c)
  /\ IF Idle(c)
     THEN /\ core' = [core EXCEPT ![c] = BeginWrite(@, core[c].registry)]
          /\ tmp' = [tmp EXCEPT ![core[c].host] = {}]
     ELSE /\ core' = [core EXCEPT ![c].pending = Content(core[c].registry)]
          /\ UNCHANGED tmp

\* The poll, every two seconds, of the core that has the timers: further apart than two
\* writes take, so that none falls into a write that was itself queued.
Poll(c) ==
  /\ Serves(c)
  /\ ~core[c].again
  /\ Sync(c)
  /\ UNCHANGED <<process, port, file, kept, changes, faults, reloads>>

\* Mutant: the file itself is truncated and filled.
FillInPlace(c) ==
  /\ core[c].stage = "writing"
  /\ core' = [core EXCEPT ![c].stage = "filled"]
  /\ file' = {}
  /\ tmp' = [tmp EXCEPT ![core[c].host] = core[c].content]

\* writeFile and chmod are done.
Fill(c) ==
  /\ core[c].stage = "writing"
  /\ core' = [core EXCEPT ![c].stage = "filled"]
  /\ tmp' = [tmp EXCEPT ![core[c].host] = core[c].content]
  /\ UNCHANGED file

\* Behind a write comes what was left for later; those who awaited the first await it too.
AfterWrite(c) ==
  IF core[c].pending.some
  THEN /\ core' = [core EXCEPT ![c] =
            [BeginWrite(@, core[c].pending.of) EXCEPT !.pending = Nothing, !.again = TRUE]]
       /\ tmp' = [tmp EXCEPT ![core[c].host] = {}]
       /\ UNCHANGED process
  ELSE /\ core' = [core EXCEPT ![c].stage = "idle", ![c].again = FALSE]
       /\ process' = [process EXCEPT ![core[c].host].awaits = {}]
       /\ UNCHANGED tmp

Rename(c) ==
  /\ core[c].stage = "filled"
  /\ file' = tmp[core[c].host]
  /\ kept' = kept \cup core[c].content
  /\ AfterWrite(c)

\* Mutant: the flag that a write is under way is left behind (no finally).
AfterFailureStuck(c) == core' = [core EXCEPT ![c].stage = "stuck"] /\ UNCHANGED <<tmp, process>>

\* A failed write is forgotten, "the next successful poll retries".
AfterFailure(c) == AfterWrite(c)

WriteFails(c) == core[c].stage \in {"writing", "filled"} /\ AfterFailure(c) /\ Fault

Writing(c) ==
  /\ \/ Fill(c) /\ UNCHANGED <<process, kept, faults>>
     \/ Rename(c) /\ UNCHANGED faults
     \/ WriteFails(c) /\ UNCHANGED <<file, kept>>
  /\ UNCHANGED <<port, changes, reloads>>
-------------------------------------------------------------------------------
(***************************************************************************)
(* Booting.                                                                *)
(***************************************************************************)

\* buildHub: the registry is what the file holds.
Build(p) ==
  /\ process[p].st = "booting"
  /\ FreeCore # {}
  /\ LET c == FirstIn(FreeCore)
     IN /\ core' = [core EXCEPT ![c] = NewCore(p, file)]
        /\ process' = [process EXCEPT ![p].st = "built", ![p].live = c]
  /\ UNCHANGED <<port, file, tmp, kept, changes, faults, reloads>>

\* Bun.serve, then the timers.
Bind(p) ==
  /\ port = NoProcess
  /\ port' = p
  /\ process' = [process EXCEPT ![p].st = "serving"]
  /\ core' = [core EXCEPT ![process[p].live].st = "serving"]
  /\ kept' = core[process[p].live].registry \cap file

\* Mutant: the fresh process does not wait for the port.
RetryNever(p) ==
  /\ port # NoProcess
  /\ process' = [process EXCEPT ![p].st = "gone", ![p].live = NoCore]
  /\ core' = [core EXCEPT ![process[p].live] = NoneBuilt]
  /\ UNCHANGED <<port, kept>>

\* The core is thrown away and built anew, for 10 s, which outlast the old process's
\* goodbye; a process that was not spawned by a restart gives up at once.
Retry(p) ==
  /\ port # NoProcess
  /\ process' = [process EXCEPT ![p].st = IF process[p].waits THEN "booting" ELSE "gone"]
  /\ core' = [core EXCEPT ![process[p].live] = NoneBuilt]
  /\ UNCHANGED <<port, kept>>

Binding(p) ==
  /\ process[p].st = "built"
  /\ Bind(p) \/ Retry(p)
  /\ UNCHANGED <<file, tmp, changes, faults, reloads>>

\* Someone starts a hub when there is none (the service manager, an operator).
Start(p) ==
  /\ \A q \in Process : ~Runs(q)
  /\ FreeProcess # {} /\ p = FirstIn(FreeProcess)
  /\ process' = [process EXCEPT ![p] = NewProcess(NoCore, FALSE, NoProcess)]
  /\ UNCHANGED <<core, port, file, tmp, kept, changes, faults, reloads>>
-------------------------------------------------------------------------------
(***************************************************************************)
(* Serving, restarting, leaving.                                           *)
(***************************************************************************)

\* An agent's frame or a user's request changes the registry.
Changes(c) ==
  /\ Serves(c)
  /\ changes < MaxChanges
  /\ changes' = changes + 1
  /\ core' = [core EXCEPT ![c].registry = @ \cup {changes'}]
  /\ UNCHANGED <<process, port, file, tmp, kept, faults, reloads>>

\* flushState of core c on behalf of `who`: awaits its own write, nobody else's.
Flush(p, c, who, updated) ==
  /\ Sync(c)
  /\ process' = [process EXCEPT ![p] =
       [updated EXCEPT !.awaits = IF Idle(c) THEN @ \cup {who} ELSE @ \ {who}]]

\* onRestart: the handler is set on the core the process started with only, and once.
AskRestart(p) ==
  /\ port = p
  /\ process[p].restart = "no" /\ process[p].asker = NoCore
  /\ LET c == process[p].live
     IN /\ \A d \in Core : core[d].host = p => d = c
        /\ Flush(p, c, "restart", [process[p] EXCEPT !.restart = "flushing", !.asker = c])
  /\ UNCHANGED <<port, file, kept, changes, faults, reloads>>

Flushed(p) == process[p].restart = "flushing" /\ "restart" \notin process[p].awaits

SpawnFresh(p) ==
  /\ Runs(p) /\ Flushed(p)
  /\ \/ /\ FreeProcess # {}
        /\ process' = [process EXCEPT
             ![p].restart = "spawned",
             ![FirstIn(FreeProcess)] = NewProcess(NoCore, TRUE, p)]
        /\ UNCHANGED faults
     \/ /\ process' = [process EXCEPT ![p].restart = "no", ![p].asker = NoCore]
        /\ Fault
  /\ UNCHANGED <<core, port, file, tmp, kept, changes, reloads>>

\* core.shutdown() up to its await; a drained core has nothing to flush any more.
Goodbye(p, c, restart) ==
  LET leaving == [process[p] EXCEPT !.leaving = TRUE, !.restart = restart]
  IN IF core[c].st = "drained"
     THEN process' = [process EXCEPT ![p] = leaving] /\ UNCHANGED <<core, tmp>>
     ELSE Flush(p, c, "goodbye", leaving)

\* The 150 ms after the spawn are over.
Hand(p) ==
  /\ Runs(p) /\ process[p].restart = "spawned"
  /\ Goodbye(p, process[p].asker, "handed")
  /\ UNCHANGED <<port, file, kept, changes, faults, reloads>>

\* SIGTERM or SIGINT, once.
Signal(p) ==
  /\ port = p
  /\ Fault
  /\ Goodbye(p, process[p].live, process[p].restart)
  /\ UNCHANGED <<port, file, kept, changes, reloads>>

\* A process that ends takes its writes with it.
Ended(p, how) ==
  /\ process' = [process EXCEPT ![p] = [Unborn EXCEPT !.st = how, !.by = process[p].by]]
  /\ core' = [c \in Core |-> IF core[c].host = p THEN NoneBuilt ELSE core[c]]
  /\ port' = IF port = p THEN NoProcess ELSE port
  /\ tmp' = [tmp EXCEPT ![p] = {}]

Exit(p) ==
  /\ process[p].leaving /\ "goodbye" \notin process[p].awaits
  /\ Ended(p, "gone")
  /\ UNCHANGED <<file, kept, changes, faults, reloads>>

Crash(p) ==
  /\ Runs(p)
  /\ Fault
  /\ Ended(p, "crashed")
  /\ UNCHANGED <<file, kept, changes, reloads>>

\* A changed source file replaces the core of the running process, in one block: the old
\* core hands its registry over and is left with none; its write goes on.
HotReload(p) ==
  /\ port = p
  /\ reloads < MaxReloads /\ reloads' = reloads + 1
  /\ FreeCore # {}
  /\ LET old == process[p].live
         new == FirstIn(FreeCore)
     IN /\ core' = [core EXCEPT
             ![old].st = "drained", ![old].registry = {},
             ![new] = [NewCore(p, core[old].registry) EXCEPT !.st = "serving"]]
        /\ process' = [process EXCEPT ![p].live = new]
  /\ UNCHANGED <<port, file, tmp, kept, changes, faults>>
-------------------------------------------------------------------------------
Boots(p) == Build(p) \/ Binding(p)
Leaves(p) == SpawnFresh(p) \/ Hand(p) \/ Exit(p)

ProcessNext ==
  \/ \E c \in Core : Poll(c) \/ Writing(c) \/ Changes(c)
  \/ \E p \in Process :
       Boots(p) \/ Leaves(p) \/ Start(p) \/ AskRestart(p) \/ Signal(p) \/ Crash(p) \/ HotReload(p)

ProcessSpec == ProcessInit /\ [][ProcessNext]_processVars

\* Timers fire and the file system answers; nobody must ask for anything.
FairProcessSpec ==
  /\ ProcessSpec
  /\ \A c \in Core : WF_processVars(Poll(c)) /\ WF_processVars(Writing(c))
  /\ \A p \in Process : WF_processVars(Boots(p)) /\ WF_processVars(Leaves(p))
-------------------------------------------------------------------------------
ProcessRecord ==
  [st : {"unborn", "booting", "built", "serving", "gone", "crashed"}, live : Core \cup {NoCore},
   waits : BOOLEAN, by : Process \cup {NoProcess}, restart : {"no", "flushing", "spawned", "handed"},
   asker : Core \cup {NoCore}, awaits : SUBSET {"restart", "goodbye"}, leaving : BOOLEAN]
CoreRecord ==
  [st : {"unused", "built", "serving", "drained"}, host : Process \cup {NoProcess},
   registry : SUBSET Change, stage : {"idle", "writing", "filled"}, content : SUBSET Change,
   pending : {Nothing} \cup [some : {TRUE}, of : SUBSET Change], again : BOOLEAN]

\* Processes, cores and what they have written keep their types.
ProcessTypeOK ==
  /\ process \in [Process -> ProcessRecord]
  /\ core \in [Core -> CoreRecord]
  /\ port \in Process \cup {NoProcess}
  /\ file \in SUBSET Change /\ kept \in SUBSET Change
  /\ tmp \in [Process -> SUBSET Change]
  /\ changes \in 0..MaxChanges /\ faults \in Nat /\ reloads \in Nat

\* What a listening hub found on file, or has saved, stays there: writes land whole and in the order
\* they were asked for, through queued writes, failures, crashes in the middle of one, a
\* predecessor's goodbye and a core that was drained with its write under way ("replaces
\* atomically so a crash mid-write cannot corrupt the previous state", state.ts).
SavedSticks == kept \subseteq file

\* The registry of a hub that goes on serving is saved, whatever failed or was queued
\* before ("best-effort: ... The next successful poll retries", state.ts).
EventuallySaved ==
  \A c \in Core : <>[]Serves(c) => []<>(file = core[c].registry)

\* The process a restart has spawned comes to serve unless it crashes itself: the old one
\* leaves although its flush may fail or find another write under way, and the fresh one
\* waits for the port ("waits up to 10 s for the port", docs/protocol.md).
RestartServes ==
  \A p \in Process :
    process[p].restart = "spawned" ~>
      \E q \in Process : process[q].by = p /\ (port = q \/ process[q].st = "crashed")
===============================================================================
