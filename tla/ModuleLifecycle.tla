--------------------------- MODULE ModuleLifecycle ---------------------------
(***************************************************************************)
(* The module registry of the SDK at work: boot (SeedFromModules, InitAll, *)
(* StartAll), the admin endpoint that turns a module on and off while the  *)
(* process serves requests (UpdateModule, RetryInit, StartModule,          *)
(* StopModule), shutdown (StopAll), and crashes in between.                *)
(*                                                                         *)
(* Two things outlive the process: the config documents in MongoDB (docs)  *)
(* and the Docker containers that modules declare (infra).  Everything     *)
(* else is memory and is gone when the process is.                         *)
(***************************************************************************)
EXTENDS Naturals, Sequences, FiniteSets, Functions

CONSTANTS
    Modules,          \* the registered modules
    Core,             \* those of category "core"
    DependsOn,        \* DependsOn[m]: the names m's Dependencies() returns
    InfraContainers,  \* InfraContainers[m]: how many containers m declares
    Order,            \* registration order, a permutation of Modules
    HotReload,        \* modules whose HotReloadConfig() is true
    EnabledByDefault, \* modules whose first document is written enabled
    Handlers,         \* admin requests that may be in flight together
    SerializedToggles,\* TRUE: clients never have two requests on one module
    MaxFaults,        \* bound: failures in one behaviour
    NoModule, NoDoc

Doc == [enabled : BOOLEAN, needsRestart : BOOLEAN]

ASSUME LifecycleAssumption ==
    /\ Core \subseteq Modules
    /\ DependsOn \in [Modules -> SUBSET Modules]
    /\ InfraContainers \in [Modules -> Nat]
    /\ Order \in Seq(Modules)
    /\ Range(Order) = Modules
    /\ IsInjective(Order)
    /\ SerializedToggles \in BOOLEAN
    /\ MaxFaults \in Nat
    /\ NoModule \notin Modules
    /\ NoDoc \notin Doc

VARIABLES
    phase,       \* "down", "init", "start", "serving", "stopping"
    idx,         \* loop index of InitAll, StartAll and StopAll
    initialized, \* the sequence r.initialized
    failed,      \* the keys of r.failed
    started,     \* the keys of r.started
    startSet,    \* what the host passed to StartAll
    jobs,        \* jobs[m]: Start calls of m not yet undone by a Stop
    pc,          \* where each admin request is
    target,      \* the module it is about
    slice,       \* the value of r.initialized an append has read
    seeding,     \* modules a request found without a document
    lateSeeded,  \* modules whose document was last written by lazySeed
    stopErred,   \* modules whose Stop returned an error, until one succeeds
    docs,        \* MongoDB: module_configs
    infra,       \* Docker: the running containers of each module
    faults       \* failures so far, bounded by MaxFaults

memory == <<phase, idx, initialized, failed, started, startSet, jobs,
            pc, target, slice, seeding, lateSeeded, stopErred>>
vars == <<memory, docs, infra, faults>>

\* What no step of an admin request touches.
bootVars == <<phase, idx, startSet>>

Phases == {"down", "init", "start", "serving", "stopping"}

EnablePath == {"checkFailed", "retryInit", "runInit", "readInitialized",
               "append", "startModule", "startInfra", "startJobs",
               "commitStart", "enabled"}
DisablePath == {"stopModule", "stopJobs", "stopInfra", "commitStop",
                "disabled", "stopFailed"}
ConfigPath == {"config", "toggledConfig", "hotClear"}
Labels == {"idle", "enable", "canDisable", "disable"}
            \cup EnablePath \cup DisablePath \cup ConfigPath

Containers(m) == 1 .. InfraContainers[m]

\* Mutant: a second Stop of one module is not absorbed.
OneLessUnguarded(m) == [jobs EXCEPT ![m] = @ - 1]

\* A Stop undoes one Start.
OneLess(m) == [jobs EXCEPT ![m] = IF @ > 0 THEN @ - 1 ELSE 0]

Fault == faults < MaxFaults /\ faults' = faults + 1
NoFault == UNCHANGED faults

TypeOK ==
    /\ phase \in Phases
    /\ idx \in Nat
    /\ initialized \in Seq(Modules)
    /\ failed \subseteq Modules
    /\ started \subseteq Modules
    /\ startSet \subseteq Modules
    /\ jobs \in [Modules -> Nat]
    /\ pc \in [Handlers -> Labels]
    /\ target \in [Handlers -> Modules \cup {NoModule}]
    /\ slice \in [Handlers -> Seq(Modules)]
    /\ seeding \subseteq Modules
    /\ lateSeeded \subseteq Modules
    /\ stopErred \subseteq Modules
    /\ docs \in [Modules -> Doc \cup {NoDoc}]
    /\ infra \in [Modules -> SUBSET Nat]
    /\ faults \in Nat

(***************************************************************************)
(* The documents.                                                          *)
(***************************************************************************)
NewDoc(e, f) == [enabled |-> e, needsRestart |-> f]

DefaultDoc(m) == NewDoc(m \in EnabledByDefault, FALSE)

\* UpdateOne with no upsert: nothing happens when the document is missing.
SetFlag(m, b) ==
    IF docs[m] = NoDoc THEN docs
    ELSE [docs EXCEPT ![m] = NewDoc(@.enabled, b)]

\* Mutant: UpdateEnabled sets enabled and forgets needsRestart.
WriteEnabledOnly(m, b) ==
    IF docs[m] = NoDoc THEN docs
    ELSE [docs EXCEPT ![m] = NewDoc(b, @.needsRestart)]

WriteEnabled(m, b) ==
    IF docs[m] = NoDoc THEN docs
    ELSE [docs EXCEPT ![m] = NewDoc(b, TRUE)]

IsEnabledDoc(m) == docs[m] # NoDoc /\ docs[m].enabled

Init ==
    /\ phase = "down" /\ idx = 1
    /\ initialized = <<>> /\ failed = {} /\ started = {} /\ startSet = {}
    /\ jobs = [m \in Modules |-> 0]
    /\ pc = [h \in Handlers |-> "idle"]
    /\ target = [h \in Handlers |-> NoModule]
    /\ slice = [h \in Handlers |-> <<>>]
    /\ seeding = {} /\ lateSeeded = {} /\ stopErred = {}
    /\ docs = [m \in Modules |-> NoDoc]
    /\ infra = [m \in Modules |-> {}]
    /\ faults = 0

\* The process ends: its memory goes, the database and the containers stay.
LoseMemory ==
    /\ phase' = "down" /\ idx' = 1
    /\ initialized' = <<>> /\ failed' = {} /\ started' = {} /\ startSet' = {}
    /\ jobs' = [m \in Modules |-> 0]
    /\ pc' = [h \in Handlers |-> "idle"]
    /\ target' = [h \in Handlers |-> NoModule]
    /\ slice' = [h \in Handlers |-> <<>>]
    /\ seeding' = {} /\ lateSeeded' = {} /\ stopErred' = {}

Crash ==
    /\ phase # "down"
    /\ Fault
    /\ LoseMemory
    /\ UNCHANGED <<docs, infra>>

\* A live wipe of the collection, which GetConfig is written to survive.
Wipe ==
    /\ phase # "down"
    /\ \E m \in Modules : docs[m] # NoDoc
    /\ Fault
    /\ docs' = [m \in Modules |-> NoDoc]
    /\ UNCHANGED <<memory, infra>>

(***************************************************************************)
(* Boot.                                                                   *)
(***************************************************************************)
\* SeedFromModules: a missing document is created, one that exists keeps
\* its enabled field and loses needsRestart; a module whose reads or writes
\* fail is logged and skipped.
Seed(ok) ==
    docs' = [m \in Modules |->
                IF m \notin ok THEN docs[m]
                ELSE IF docs[m] = NoDoc THEN DefaultDoc(m)
                ELSE NewDoc(docs[m].enabled, FALSE)]

Boot ==
    /\ phase = "down"
    /\ \/ Seed(Modules) /\ NoFault
       \/ \E ok \in SUBSET Modules : ok # Modules /\ Seed(ok) /\ Fault
    /\ phase' = "init" /\ idx' = 1
    /\ UNCHANGED <<initialized, failed, started, startSet, jobs, pc, target,
                   slice, seeding, lateSeeded, stopErred, infra>>

InitOk ==
    /\ phase = "init" /\ idx <= Len(Order)
    /\ NoFault
    /\ initialized' = Append(initialized, Order[idx])
    /\ idx' = idx + 1
    /\ UNCHANGED <<phase, failed, started, startSet, jobs, pc, target, slice,
                   seeding, lateSeeded, stopErred, docs, infra>>

\* A core module that fails Init ends the process, any other is recorded.
InitFail ==
    /\ phase = "init" /\ idx <= Len(Order)
    /\ Fault
    /\ \/ /\ Order[idx] \in Core
          /\ LoseMemory
       \/ /\ Order[idx] \notin Core
          /\ failed' = failed \cup {Order[idx]}
          /\ idx' = idx + 1
          /\ UNCHANGED <<phase, initialized, started, startSet, jobs, pc,
                         target, slice, seeding, lateSeeded, stopErred>>
    /\ UNCHANGED <<docs, infra>>

\* Mutant: the start set comes from the defaults, not from the database.
BeginStartAllByDefault ==
    /\ phase = "init" /\ idx > Len(Order)
    /\ phase' = "start" /\ idx' = 1
    /\ startSet' = Core \cup EnabledByDefault
    /\ UNCHANGED <<initialized, failed, started, jobs, pc, target, slice,
                   seeding, lateSeeded, stopErred, docs, infra, faults>>

\* The host builds the start set from the core modules and the addons that
\* FindEnabledAddonNames returns, and calls StartAll.
BeginStartAll ==
    /\ phase = "init" /\ idx > Len(Order)
    /\ phase' = "start" /\ idx' = 1
    /\ startSet' = Core \cup {m \in Modules : IsEnabledDoc(m)}
    /\ UNCHANGED <<initialized, failed, started, jobs, pc, target, slice,
                   seeding, lateSeeded, stopErred, docs, infra, faults>>

StartSkip ==
    /\ phase = "start" /\ idx <= Len(initialized)
    /\ initialized[idx] \notin startSet
    /\ idx' = idx + 1
    /\ UNCHANGED <<phase, initialized, failed, started, startSet, jobs, pc,
                   target, slice, seeding, lateSeeded, stopErred, docs, infra,
                   faults>>

StartOk ==
    /\ phase = "start" /\ idx <= Len(initialized)
    /\ LET m == initialized[idx] IN
        /\ m \in startSet
        /\ infra' = [infra EXCEPT ![m] = @ \cup Containers(m)]
        /\ jobs' = [jobs EXCEPT ![m] = @ + 1]
        /\ started' = started \cup {m}
    /\ idx' = idx + 1
    /\ NoFault
    /\ UNCHANGED <<phase, initialized, failed, startSet, pc, target, slice,
                   seeding, lateSeeded, stopErred, docs>>

\* Preflight, the k-th container or Start itself fails.  The containers
\* that came up stay up.
StartFail ==
    /\ phase = "start" /\ idx <= Len(initialized)
    /\ Fault
    /\ LET m == initialized[idx] IN
        /\ m \in startSet
        /\ \E k \in 0 .. InfraContainers[m] :
                infra' = [infra EXCEPT ![m] = @ \cup 1 .. k]
        /\ \/ /\ m \in Core
              /\ LoseMemory
           \/ /\ m \notin Core
              /\ failed' = failed \cup {m}
              /\ idx' = idx + 1
              /\ UNCHANGED <<phase, initialized, started, startSet, jobs, pc,
                             target, slice, seeding, lateSeeded, stopErred>>
    /\ UNCHANGED docs

BootDone ==
    /\ phase = "start" /\ idx > Len(initialized)
    /\ phase' = "serving"
    /\ UNCHANGED <<idx, initialized, failed, started, startSet, jobs, pc,
                   target, slice, seeding, lateSeeded, stopErred, docs, infra,
                   faults>>

(***************************************************************************)
(* Shutdown.  The host drains its HTTP server before it calls StopAll, so  *)
(* the calls that found documents missing have ended, with an upsert or    *)
(* without.  StopAll works on a snapshot of r.initialized and r.started,   *)
(* which nothing changes while no request is in flight.                    *)
(***************************************************************************)
BeginStopAll ==
    /\ phase = "serving"
    /\ \A h \in Handlers : pc[h] = "idle"
    /\ phase' = "stopping" /\ idx' = Len(initialized)
    /\ seeding' = {}
    /\ UNCHANGED <<initialized, failed, started, startSet, jobs, pc, target,
                   slice, lateSeeded, stopErred, docs, infra, faults>>

\* Mutant: the loop of StopAll does not get past a module it skips.
StopSkipStuck ==
    /\ phase = "stopping" /\ idx >= 1
    /\ initialized[idx] \notin started
    /\ UNCHANGED <<memory, docs, infra, faults>>

StopSkip ==
    /\ phase = "stopping" /\ idx >= 1
    /\ initialized[idx] \notin started
    /\ idx' = idx - 1
    /\ UNCHANGED <<phase, initialized, failed, started, startSet, jobs, pc,
                   target, slice, seeding, lateSeeded, stopErred, docs, infra,
                   faults>>

\* Stop may fail, which is logged, and any of the containers may stay up.
StopNext ==
    /\ phase = "stopping" /\ idx >= 1
    /\ LET m == initialized[idx] IN
        /\ m \in started
        /\ \/ /\ NoFault
              /\ jobs' = OneLess(m)
              /\ infra' = [infra EXCEPT ![m] = {}]
           \/ /\ Fault
              /\ jobs' \in {jobs, OneLess(m)}
              /\ \E up \in SUBSET infra[m] :
                    infra' = [infra EXCEPT ![m] = up]
    /\ idx' = idx - 1
    /\ UNCHANGED <<phase, initialized, failed, started, startSet, pc, target,
                   slice, seeding, lateSeeded, stopErred, docs>>

Exit ==
    /\ phase = "stopping" /\ idx = 0
    /\ LoseMemory
    /\ UNCHANGED <<docs, infra, faults>>

(***************************************************************************)
(* Lazy seeding: ListModules and GetConfig find a document missing and     *)
(* later upsert the default one, over whatever is there by then.  Any      *)
(* number of calls may have found it missing: another may always follow.   *)
(***************************************************************************)
FindMissing(m) ==
    /\ phase = "serving"
    /\ docs[m] = NoDoc
    /\ m \notin seeding
    /\ seeding' = seeding \cup {m}
    /\ UNCHANGED <<bootVars, initialized, failed, started, jobs, pc, target,
                   slice, lateSeeded, stopErred, docs, infra, faults>>

LazySeed(m) ==
    /\ m \in seeding
    /\ \/ /\ NoFault
          /\ docs' = [docs EXCEPT ![m] = DefaultDoc(m)]
          /\ lateSeeded' = lateSeeded \cup {m}
       \/ /\ Fault
          /\ UNCHANGED <<docs, lateSeeded>>
    /\ UNCHANGED <<bootVars, initialized, failed, started, jobs, pc, target,
                   slice, seeding, infra, stopErred>>

(***************************************************************************)
(* UpdateModule.  pc[h] names the next step of request h.                  *)
(***************************************************************************)
Goto(h, label) == pc' = [pc EXCEPT ![h] = label] /\ UNCHANGED target

Finish(h) ==
    /\ pc' = [pc EXCEPT ![h] = "idle"]
    /\ target' = [target EXCEPT ![h] = NoModule]

\* GetConfig has found the document.  Enabling or disabling a core module
\* is refused before anything is written, so no such request goes further.
Request(h, m, label) ==
    /\ phase = "serving"
    /\ pc[h] = "idle"
    /\ docs[m] # NoDoc
    /\ SerializedToggles => \A g \in Handlers : target[g] # m
    /\ pc' = [pc EXCEPT ![h] = label]
    /\ target' = [target EXCEPT ![h] = m]
    /\ UNCHANGED <<bootVars, initialized, failed, started, jobs, slice,
                   seeding, lateSeeded, stopErred, docs, infra, faults>>

RequestEnable(h, m) == m \notin Core /\ Request(h, m, "enable")
RequestDisable(h, m) == m \notin Core /\ Request(h, m, "canDisable")
RequestConfig(h, m) == Request(h, m, "config")

\* Mutant: the dependency is looked up the wrong way round.
CheckCanDisableReversed(h) ==
    /\ pc[h] = "canDisable"
    /\ IF \E n \in started \ {target[h]} : n \in DependsOn[target[h]]
         THEN Finish(h)
         ELSE Goto(h, "disable")
    /\ UNCHANGED <<bootVars, initialized, failed, started, jobs, slice,
                   seeding, lateSeeded, stopErred, docs, infra, faults>>

\* CheckCanDisable: 409 when a started module depends on the target.
CheckCanDisable(h) ==
    /\ pc[h] = "canDisable"
    /\ IF \E n \in started \ {target[h]} : target[h] \in DependsOn[n]
         THEN Finish(h)
         ELSE Goto(h, "disable")
    /\ UNCHANGED <<bootVars, initialized, failed, started, jobs, slice,
                   seeding, lateSeeded, stopErred, docs, infra, faults>>

\* ModuleConfigService.UpdateEnabled: write the document, then drop the
\* cached answer.  A failure of either ends the request; when it is the
\* second, the document has changed already.
UpdateEnabled(h) ==
    /\ pc[h] \in {"enable", "disable"}
    /\ LET m == target[h] IN
        \/ /\ NoFault
           /\ docs' = WriteEnabled(m, pc[h] = "enable")
           /\ lateSeeded' = lateSeeded \ {m}
           /\ Goto(h, IF pc[h] = "enable" THEN "checkFailed"
                                          ELSE "stopModule")
        \/ /\ Fault
           /\ \/ /\ docs' = WriteEnabled(m, pc[h] = "enable")
                 /\ lateSeeded' = lateSeeded \ {m}
              \/ UNCHANGED <<docs, lateSeeded>>
           /\ Finish(h)
    /\ UNCHANGED <<bootVars, initialized, failed, started, jobs, slice,
                   seeding, infra, stopErred>>

CheckFailed(h) ==
    /\ pc[h] = "checkFailed"
    /\ Goto(h, IF target[h] \in failed THEN "retryInit" ELSE "startModule")
    /\ UNCHANGED <<bootVars, initialized, failed, started, jobs, slice,
                   seeding, lateSeeded, stopErred, docs, infra, faults>>

\* RetryInit looks at r.failed again and refuses a module that is not there.
RetryInit(h) ==
    /\ pc[h] = "retryInit"
    /\ IF target[h] \in failed THEN Goto(h, "runInit") ELSE Finish(h)
    /\ UNCHANGED <<bootVars, initialized, failed, started, jobs, slice,
                   seeding, lateSeeded, stopErred, docs, infra, faults>>

\* Mutant: the handler loops on a module that stays in r.failed.
RunInitKeepsFailed(h) ==
    /\ pc[h] = "runInit"
    /\ NoFault
    /\ Goto(h, "checkFailed")
    /\ UNCHANGED <<bootVars, initialized, failed, started, jobs, slice,
                   seeding, lateSeeded, stopErred, docs, infra>>

\* Init runs with no lock held; its outcome is recorded under the lock.
RunInit(h) ==
    /\ pc[h] = "runInit"
    /\ \/ /\ NoFault
          /\ failed' = failed \ {target[h]}
          /\ Goto(h, "readInitialized")
       \/ /\ Fault
          /\ failed' = failed \cup {target[h]}
          /\ Finish(h)
    /\ UNCHANGED <<bootVars, initialized, started, jobs, slice, seeding,
                   lateSeeded, stopErred, docs, infra>>

\* r.initialized = append(r.initialized, m), outside the lock: the slice is
\* read, and what is written back is one element longer than what was read.
ReadInitialized(h) ==
    /\ pc[h] = "readInitialized"
    /\ slice' = [slice EXCEPT ![h] = initialized]
    /\ Goto(h, "append")
    /\ UNCHANGED <<bootVars, initialized, failed, started, jobs, seeding,
                   lateSeeded, stopErred, docs, infra, faults>>

AppendInitialized(h) ==
    /\ pc[h] = "append"
    /\ initialized' = Append(slice[h], target[h])
    /\ slice' = [slice EXCEPT ![h] = <<>>]
    /\ Goto(h, "startModule")
    /\ UNCHANGED <<bootVars, failed, started, jobs, seeding, lateSeeded,
                   stopErred, docs, infra, faults>>

\* StartModule: nothing to do when started already.
StartModule(h) ==
    /\ pc[h] = "startModule"
    /\ Goto(h, IF target[h] \in started THEN "enabled" ELSE "startInfra")
    /\ UNCHANGED <<bootVars, initialized, failed, started, jobs, slice,
                   seeding, lateSeeded, stopErred, docs, infra, faults>>

\* Mutant: a container that fails to come up does not end the start.
StartInfraIgnoringErrors(h) ==
    /\ pc[h] = "startInfra"
    /\ LET m == target[h] IN
        \/ NoFault /\ infra' = [infra EXCEPT ![m] = @ \cup Containers(m)]
        \/ Fault /\ UNCHANGED infra
    /\ Goto(h, "startJobs")
    /\ UNCHANGED <<bootVars, initialized, failed, started, jobs, slice,
                   seeding, lateSeeded, stopErred, docs>>

\* Preflight and startInfraContainers.  When one container fails the ones
\* before it stay up and the request ends.
StartInfra(h) ==
    /\ pc[h] = "startInfra"
    /\ LET m == target[h] IN
        \/ /\ NoFault
           /\ infra' = [infra EXCEPT ![m] = @ \cup Containers(m)]
           /\ Goto(h, "startJobs")
        \/ /\ Fault
           /\ \E k \in 0 .. InfraContainers[m] :
                infra' = [infra EXCEPT ![m] = @ \cup 1 .. k]
           /\ Finish(h)
    /\ UNCHANGED <<bootVars, initialized, failed, started, jobs, slice,
                   seeding, lateSeeded, stopErred, docs>>

\* Start; when it fails the containers are rolled back, best effort.  A Start
\* that returns an error is taken to have left no job running: nothing in the
\* registry would ever stop it.
StartJobs(h) ==
    /\ pc[h] = "startJobs"
    /\ LET m == target[h] IN
        \/ /\ NoFault
           /\ jobs' = [jobs EXCEPT ![m] = @ + 1]
           /\ UNCHANGED infra
           /\ Goto(h, "commitStart")
        \/ /\ Fault
           /\ \E up \in SUBSET infra[m] : infra' = [infra EXCEPT ![m] = up]
           /\ UNCHANGED jobs
           /\ Finish(h)
    /\ UNCHANGED <<bootVars, initialized, failed, started, slice, seeding,
                   lateSeeded, stopErred, docs>>

CommitStart(h) ==
    /\ pc[h] = "commitStart"
    /\ started' = started \cup {target[h]}
    /\ failed' = failed \ {target[h]}
    /\ Goto(h, "enabled")
    /\ UNCHANGED <<bootVars, initialized, jobs, slice, seeding, lateSeeded,
                   stopErred, docs, infra, faults>>

\* Mutant: StopModule takes the containers down without calling Stop.
StopModuleWithoutStop(h) ==
    /\ pc[h] = "stopModule"
    /\ Goto(h, "stopInfra")
    /\ UNCHANGED <<bootVars, initialized, failed, started, jobs, slice,
                   seeding, lateSeeded, stopErred, docs, infra, faults>>

\* StopModule: wasStarted is read under the lock, Stop runs outside it.
StopModule(h) ==
    /\ pc[h] = "stopModule"
    /\ Goto(h, IF target[h] \in started THEN "stopJobs" ELSE "stopInfra")
    /\ UNCHANGED <<bootVars, initialized, failed, started, jobs, slice,
                   seeding, lateSeeded, stopErred, docs, infra, faults>>

\* A Stop that returns an error may have ended the jobs all the same, as one
\* that cancels its workers and returns ctx.Err() does.  StopModule returns
\* that error at once, with the started flag set and the containers up, and
\* the handler only logs it.
StopJobs(h) ==
    /\ pc[h] = "stopJobs"
    /\ LET m == target[h] IN
        \/ /\ NoFault
           /\ jobs' = OneLess(m)
           /\ UNCHANGED stopErred
           /\ Goto(h, "stopInfra")
        \/ /\ Fault
           /\ jobs' \in {jobs, OneLess(m)}
           /\ stopErred' = stopErred \cup {m}
           /\ Goto(h, "stopFailed")
    /\ UNCHANGED <<bootVars, initialized, failed, started, slice, seeding,
                   lateSeeded, docs, infra>>

\* stopInfraContainers: an error leaves that container up and is logged.
StopInfra(h) ==
    /\ pc[h] = "stopInfra"
    /\ LET m == target[h] IN
        \/ /\ NoFault
           /\ infra' = [infra EXCEPT ![m] = {}]
        \/ /\ Fault
           /\ \E up \in SUBSET infra[m] : infra' = [infra EXCEPT ![m] = up]
    /\ Goto(h, "commitStop")
    /\ UNCHANGED <<bootVars, initialized, failed, started, jobs, slice,
                   seeding, lateSeeded, stopErred, docs>>

\* Mutant: StopModule forgets to drop the started flag.
CommitStopKeepsStarted(h) ==
    /\ pc[h] = "commitStop"
    /\ failed' = failed \ {target[h]}
    /\ stopErred' = stopErred \ {target[h]}
    /\ Goto(h, "disabled")
    /\ UNCHANGED <<bootVars, initialized, started, jobs, slice, seeding,
                   lateSeeded, docs, infra, faults>>

CommitStop(h) ==
    /\ pc[h] = "commitStop"
    /\ started' = started \ {target[h]}
    /\ failed' = failed \ {target[h]}
    /\ stopErred' = stopErred \ {target[h]}
    /\ Goto(h, "disabled")
    /\ UNCHANGED <<bootVars, initialized, jobs, slice, seeding, lateSeeded,
                   docs, infra, faults>>

\* The toggle is done: ClearNeedsRestart, whose error is ignored, and then
\* the config part of the request if it has one.
ClearNeedsRestart(h) ==
    /\ pc[h] \in {"enabled", "disabled", "stopFailed"}
    /\ \/ NoFault /\ docs' = SetFlag(target[h], FALSE)
       \/ Fault /\ UNCHANGED docs
    /\ Finish(h) \/ Goto(h, "toggledConfig")
    /\ UNCHANGED <<bootVars, initialized, failed, started, jobs, slice,
                   seeding, lateSeeded, stopErred, infra>>

\* UpdateConfig raises needsRestart.  Only a request without a toggle, on a
\* module that reads its config lazily, goes on to lower it again.
UpdateConfig(h) ==
    /\ pc[h] \in {"config", "toggledConfig"}
    /\ \/ /\ NoFault
          /\ docs' = SetFlag(target[h], TRUE)
          /\ IF pc[h] = "config" /\ target[h] \in HotReload
               THEN Goto(h, "hotClear")
               ELSE Finish(h)
       \/ /\ Fault
          /\ docs' \in {docs, SetFlag(target[h], TRUE)}
          /\ Finish(h)
    /\ UNCHANGED <<bootVars, initialized, failed, started, jobs, slice,
                   seeding, lateSeeded, stopErred, infra>>

HotClear(h) ==
    /\ pc[h] = "hotClear"
    /\ \/ NoFault /\ docs' = SetFlag(target[h], FALSE)
       \/ Fault /\ UNCHANGED docs
    /\ Finish(h)
    /\ UNCHANGED <<bootVars, initialized, failed, started, jobs, slice,
                   seeding, lateSeeded, stopErred, infra>>

(***************************************************************************)
(* The next-state relation.                                                *)
(***************************************************************************)
BootStep == Boot \/ InitOk \/ InitFail \/ BeginStartAll \/ StartSkip
              \/ StartOk \/ StartFail \/ BootDone

StopStep == StopSkip \/ StopNext \/ Exit

HandlerStep(h) ==
    \/ CheckCanDisable(h) \/ UpdateEnabled(h)
    \/ CheckFailed(h) \/ RetryInit(h) \/ RunInit(h)
    \/ ReadInitialized(h) \/ AppendInitialized(h)
    \/ StartModule(h) \/ StartInfra(h) \/ StartJobs(h) \/ CommitStart(h)
    \/ StopModule(h) \/ StopJobs(h) \/ StopInfra(h) \/ CommitStop(h)
    \/ ClearNeedsRestart(h) \/ UpdateConfig(h) \/ HotClear(h)

Next ==
    \/ Crash \/ Wipe
    \/ BootStep
    \/ BeginStopAll \/ StopStep
    \/ \E m \in Modules : FindMissing(m) \/ LazySeed(m)
    \/ \E h \in Handlers, m \in Modules :
            RequestEnable(h, m) \/ RequestDisable(h, m) \/ RequestConfig(h, m)
    \/ \E h \in Handlers : HandlerStep(h)

Spec == Init /\ [][Next]_vars

\* The process is restarted when it ends, its boot and shutdown loops and
\* the goroutine of every request keep running.  Nobody has to crash, to
\* send a request or to shut the process down.
Fairness ==
    /\ WF_vars(BootStep)
    /\ WF_vars(StopStep)
    /\ \A h \in Handlers : WF_vars(HandlerStep(h))

FairSpec == Spec /\ Fairness

(***************************************************************************)
(* Properties.                                                             *)
(***************************************************************************)
InFlight(m) == \E h \in Handlers : target[h] = m

AllUp(m) == Containers(m) \subseteq infra[m]

\* The jobs of a module are those its started flag stands for.  Only after a
\* Stop that returned an error may they be gone with the flag still set.
AtRest(m) ==
    IF m \in started THEN jobs[m] = 1 \/ (m \in stopErred /\ jobs[m] = 0)
                     ELSE jobs[m] = 0

\* While the process serves, a module nobody is toggling runs its jobs
\* exactly once when the registry calls it started and not at all when it
\* does not.  No path through boot, retry, rollback and stop leaves an
\* orphaned job; a started flag with nothing behind it is left by a Stop that
\* ended the jobs and returned an error, by nothing else, and lasts no longer
\* than to the next disable whose Stop succeeds.
JobsMatchStarted ==
    phase = "serving" => \A m \in Modules : ~InFlight(m) => AtRest(m)

\* Jobs never run without the containers their module declared: a start
\* brings up all of them first, and a stop takes none down before Stop.
JobsHaveContainers ==
    phase = "serving" => \A m \in Modules : jobs[m] > 0 => AllUp(m)

\* What the database shows is what the process does: a document that says
\* enabled and needs no restart belongs to a module that is started or
\* reported failed.  (Not for a document lazySeed rewrote since, nor for a
\* hot-reload module, whose config-only update lowers the flag whatever a
\* failed enable had raised it for.)
EnabledInSync ==
    phase = "serving" =>
        \A m \in Modules \ (HotReload \cup lateSeeded) :
            IsEnabledDoc(m) /\ ~docs[m].needsRestart
                => m \in started \cup failed

\* A core module that booted stays started, with one set of jobs and all its
\* containers, whatever is requested while the process serves.
CoreUntouched ==
    phase = "serving" =>
        \A m \in Core : m \in started \ failed /\ jobs[m] = 1 /\ AllUp(m)

\* A request gets to its success answer only in the state it reports:
\* "enabled" with one set of jobs running over all containers, "disabled"
\* with none.  The one exception is a module whose Stop returned an error and
\* that was not disabled with success since: StartModule finds it started and
\* does nothing, whether its jobs run or not (see EnabledRuns).
RepliesHonest ==
    \A h \in Handlers :
        /\ pc[h] = "enabled" => /\ target[h] \in started
                                /\ AtRest(target[h])
                                /\ AllUp(target[h])
        /\ pc[h] = "disabled" => /\ target[h] \notin started
                                 /\ jobs[target[h]] = 0

\* Boot acts on what the database says: when the process begins to serve,
\* every enabled module is started or reported failed, and no addon that is
\* disabled there runs.
BootReconciles ==
    [][phase # "serving" /\ phase' = "serving" =>
        \A m \in Modules : docs[m] # NoDoc =>
            IF docs[m].enabled THEN m \in started \cup failed
                               ELSE m \in Core \/ m \notin started]_vars

\* With one request at a time no module is stopped under a started module
\* that depends on it.
DependentsProtected ==
    [][phase = "serving" /\ phase' = "serving" =>
        \A m \in started \ started' :
            \A n \in started' : m \notin DependsOn[n]]_vars

\* Every boot gets there: failures being finite, the process is serving
\* again and again.
ServesAgain == []<>(phase = "serving")

\* Every admin request is answered, whatever fails on its way.
RequestsSettle == \A h \in Handlers : pc[h] # "idle" ~> pc[h] = "idle"

(***************************************************************************)
(* What the comments of registry.go say and the code does not do.          *)
(***************************************************************************)
\* "StopAll shuts down all started modules in reverse initialization order"
\* (registry.go:552): it walks r.initialized, so that has to list every
\* started module.
StartedWasInitialized == phase = "serving" => started \subseteq Range(initialized)

\* "Idempotent: returns nil if already started" (registry.go:411): a module
\* is never started on top of itself.
StartIdempotent == \A m \in Modules : jobs[m] <= 1

\* "Start the module's background jobs." (handler.go:237), and StartModule
\* "returns nil if already started" (registry.go:411): when an enable is
\* answered with success the jobs run.  Not after a Stop that ended them and
\* returned an error, which leaves r.started set (registry.go:466).
EnabledRuns == \A h \in Handlers : pc[h] = "enabled" => jobs[target[h]] = 1

\* "so disabling always leaves the system clean" (registry.go:454): when the
\* document says disabled with nothing pending, nothing of the module runs.
DisabledIsClean ==
    phase = "serving" =>
        \A m \in Modules \ (Core \cup lateSeeded) :
            (/\ ~InFlight(m) /\ docs[m] # NoDoc
             /\ ~docs[m].enabled /\ ~docs[m].needsRestart) => jobs[m] = 0
=============================================================================
