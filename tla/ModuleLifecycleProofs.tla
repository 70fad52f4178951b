------------------------ MODULE ModuleLifecycleProofs ------------------------
(***************************************************************************)
(* Proofs about ModuleLifecycle, for every set of modules, dependency      *)
(* relation, number of requests and number of failures.                    *)
(***************************************************************************)
EXTENDS LifecycleInvariant, TLAPS

(***************************************************************************)
(* Shape                                                                   *)
(***************************************************************************)
LEMMA ShapeInit == Init => Shape
<1> SUFFICES ASSUME Init PROVE Shape
  OBVIOUS
<1> USE LifecycleAssumption DEF Init
<1>1. TypeOK
  BY DEF TypeOK, Phases, Labels
<1>2. IndexOK /\ QuietOutside /\ TargetOK
  BY DEF IndexOK, QuietOutside, TargetOK
<1> QED BY <1>1, <1>2 DEF Shape

\* A process that has lost its memory is in shape, whatever is on disk.
LEMMA ShapeLost ==
    ASSUME LoseMemory,
           docs' \in [Modules -> Doc \cup {NoDoc}],
           infra' \in [Modules -> SUBSET Nat],
           faults' \in Nat
    PROVE  Shape'
BY LifecycleAssumption
   DEF LoseMemory, Shape, TypeOK, IndexOK, QuietOutside, TargetOK, Phases, Labels

\* A step counts at most one failure.
LEMMA FaultsNat ==
    ASSUME faults \in Nat, Fault \/ NoFault
    PROVE  faults' \in Nat
BY DEF Fault, NoFault

\* A Stop leaves a count of jobs.
LEMMA OneLessType ==
    ASSUME TypeOK, NEW m \in Modules
    PROVE  OneLess(m) \in [Modules -> Nat]
<1>1. (IF jobs[m] > 0 THEN jobs[m] - 1 ELSE 0) \in Nat
  BY DEF TypeOK
<1> QED BY <1>1 DEF OneLess, TypeOK

\* A document has the two flags it is made of.
LEMMA NewDocType ==
    ASSUME NEW e \in BOOLEAN, NEW f \in BOOLEAN
    PROVE  /\ NewDoc(e, f) \in Doc
           /\ NewDoc(e, f).enabled = e
           /\ NewDoc(e, f).needsRestart = f
BY DEF Doc, NewDoc

\* The flags of a document are Booleans.
LEMMA DocFields ==
    ASSUME NEW d \in Doc
    PROVE  d.enabled \in BOOLEAN /\ d.needsRestart \in BOOLEAN
BY DEF Doc

\* The default document of a module is a document.
LEMMA DefaultDocType ==
    ASSUME NEW m \in Modules
    PROVE  DefaultDoc(m) \in Doc
<1>1. (m \in EnabledByDefault) \in BOOLEAN OBVIOUS
<1>2. FALSE \in BOOLEAN OBVIOUS
<1> QED BY <1>1, <1>2, NewDocType DEF DefaultDoc

\* Writing one flag of one document leaves documents.
LEMMA DocsType ==
    ASSUME TypeOK, NEW m \in Modules, NEW b \in BOOLEAN
    PROVE  /\ SetFlag(m, b) \in [Modules -> Doc \cup {NoDoc}]
           /\ WriteEnabled(m, b) \in [Modules -> Doc \cup {NoDoc}]
<1>1. docs[m] # NoDoc => NewDoc(docs[m].enabled, b) \in Doc
  BY NewDocType, DocFields DEF TypeOK
<1>2. TRUE \in BOOLEAN OBVIOUS
<1>3. NewDoc(b, TRUE) \in Doc
  BY <1>2, NewDocType
<1>4. SetFlag(m, b) \in [Modules -> Doc \cup {NoDoc}]
  BY <1>1 DEF SetFlag, TypeOK
<1>5. WriteEnabled(m, b) \in [Modules -> Doc \cup {NoDoc}]
  BY <1>3 DEF WriteEnabled, TypeOK
<1> QED BY <1>4, <1>5

\* Seeding leaves documents, whichever modules it skips.
LEMMA SeedType ==
    ASSUME TypeOK, NEW ok \in SUBSET Modules, Seed(ok)
    PROVE  docs' \in [Modules -> Doc \cup {NoDoc}]
<1>1. \A m \in Modules : docs[m] # NoDoc => NewDoc(docs[m].enabled, FALSE) \in Doc
  BY DocsType, NewDocType, DocFields DEF TypeOK
<1>2. \A m \in Modules : DefaultDoc(m) \in Doc
  BY DefaultDocType
<1> QED BY <1>1, <1>2 DEF TypeOK, Seed

\* The boot loop, a crash, a wipe and the shutdown keep the shape.
LEMMA ShapeBoot ==
    ASSUME Shape, Crash \/ Wipe \/ BootStep \/ BeginStopAll \/ StopStep
    PROVE  Shape'
<1> USE LifecycleAssumption DEF Shape
<1>1. CASE Crash
  BY <1>1, ShapeLost, FaultsNat DEF Crash, TypeOK
<1>2. CASE Wipe
  BY <1>2, FaultsNat
     DEF Wipe, memory, TypeOK, IndexOK, QuietOutside, TargetOK
<1>3. CASE Boot
  <2>1. docs' \in [Modules -> Doc \cup {NoDoc}] /\ faults' \in Nat
    BY <1>3, SeedType, FaultsNat DEF Boot, TypeOK
  <2> QED
    BY <1>3, <2>1
       DEF Boot, TypeOK, IndexOK, QuietOutside, TargetOK, Phases
<1>4. CASE InitOk
  <2>1. Order[idx] \in Modules
    BY <1>4 DEF InitOk, IndexOK, TypeOK
  <2> QED
    BY <1>4, <2>1, FaultsNat
       DEF InitOk, TypeOK, IndexOK, QuietOutside, TargetOK
<1>5. CASE InitFail
  <2>1. Order[idx] \in Modules /\ faults' \in Nat
    BY <1>5, FaultsNat DEF InitFail, IndexOK, TypeOK
  <2>2. CASE LoseMemory
    BY <1>5, <2>1, <2>2, ShapeLost DEF InitFail, TypeOK
  <2>3. CASE ~LoseMemory
    <3>1. /\ failed' \subseteq Modules /\ idx' = idx + 1
          /\ UNCHANGED <<phase, initialized, started, startSet, jobs, pc,
                         target, slice, seeding, lateSeeded, stopErred, docs, infra>>
      BY <1>5, <2>1, <2>3 DEF InitFail, TypeOK
    <3> QED
      BY <2>1, <3>1, <1>5
         DEF InitFail, TypeOK, IndexOK, QuietOutside, TargetOK
  <2> QED BY <2>2, <2>3
<1>6. CASE BeginStartAll
  BY <1>6
     DEF BeginStartAll, TypeOK, IndexOK, QuietOutside, TargetOK, Phases
<1>7. CASE StartSkip
  BY <1>7 DEF StartSkip, TypeOK, IndexOK, QuietOutside, TargetOK
<1>8. CASE StartOk
  <2> DEFINE m == initialized[idx]
  <2>1. m \in Modules
    BY <1>8 DEF StartOk, IndexOK, TypeOK
  <2>2. /\ infra' \in [Modules -> SUBSET Nat]
        /\ jobs' \in [Modules -> Nat]
        /\ started' \subseteq Modules
    BY <1>8, <2>1 DEF StartOk, TypeOK, Containers
  <2>3. TypeOK'
    BY <1>8, <2>2, FaultsNat DEF StartOk, TypeOK
  <2>4. IndexOK' /\ QuietOutside' /\ TargetOK'
    BY <1>8 DEF StartOk, TypeOK, IndexOK, QuietOutside, TargetOK
  <2> QED
    BY <2>3, <2>4
<1>9. CASE StartFail
  <2> DEFINE m == initialized[idx]
  <2>1. m \in Modules /\ faults' \in Nat
    BY <1>9, FaultsNat DEF StartFail, IndexOK, TypeOK
  <2>2. infra' \in [Modules -> SUBSET Nat]
    BY <1>9, <2>1 DEF StartFail, TypeOK
  <2>3. CASE LoseMemory
    BY <1>9, <2>1, <2>2, <2>3, ShapeLost DEF StartFail, TypeOK
  <2>4. CASE ~LoseMemory
    <3>1. /\ failed' \subseteq Modules /\ idx' = idx + 1 /\ UNCHANGED docs
          /\ UNCHANGED <<phase, initialized, started, startSet, jobs, pc,
                         target, slice, seeding, lateSeeded, stopErred>>
      BY <1>9, <2>1, <2>4 DEF StartFail, TypeOK
    <3>2. phase = "start"
      BY <1>9 DEF StartFail
    <3>3. TypeOK'
      BY <2>1, <2>2, <3>1 DEF TypeOK
    <3>4. IndexOK' /\ QuietOutside' /\ TargetOK'
      BY <3>1, <3>2 DEF TypeOK, IndexOK, QuietOutside, TargetOK
    <3> QED
      BY <3>3, <3>4
  <2> QED BY <2>3, <2>4
<1>10. CASE BootDone
  BY <1>10 DEF BootDone, TypeOK, IndexOK, QuietOutside, TargetOK, Phases
<1>11. CASE BeginStopAll
  BY <1>11 DEF BeginStopAll, TypeOK, IndexOK, QuietOutside, TargetOK, Phases
<1>12. CASE StopSkip
  BY <1>12 DEF StopSkip, TypeOK, IndexOK, QuietOutside, TargetOK
<1>13. CASE StopNext
  <2> DEFINE m == initialized[idx]
  <2>1. m \in Modules /\ idx - 1 \in Nat
    BY <1>13 DEF StopNext, IndexOK, TypeOK
  <2>0. /\ jobs' \in {jobs, OneLess(m)}
        /\ \E up \in SUBSET infra[m] : infra' = [infra EXCEPT ![m] = up]
    BY <1>13 DEF StopNext
  <2>2. infra' \in [Modules -> SUBSET Nat]
    BY <2>0, <2>1 DEF TypeOK
  <2>3. jobs' \in [Modules -> Nat]
    BY <2>0, <2>1, OneLessType DEF TypeOK
  <2>4. /\ phase = "stopping" /\ idx' = idx - 1 /\ faults' \in Nat
        /\ UNCHANGED <<phase, initialized, failed, started, startSet, pc,
                       target, slice, seeding, lateSeeded, stopErred, docs>>
    BY <1>13, FaultsNat DEF StopNext, TypeOK
  <2>5. TypeOK'
    BY <2>1, <2>2, <2>3, <2>4 DEF TypeOK
  <2>6. IndexOK'
    BY <2>1, <2>4 DEF TypeOK, IndexOK
  <2>7. QuietOutside' /\ TargetOK'
    BY <2>4 DEF QuietOutside, TargetOK
  <2> QED
    BY <2>5, <2>6, <2>7
<1>14. CASE Exit
  BY <1>14, ShapeLost DEF Exit, TypeOK
<1> QED
  BY <1>1, <1>2, <1>3, <1>4, <1>5, <1>6, <1>7, <1>8, <1>9, <1>10, <1>11,
     <1>12, <1>13, <1>14, SMTT(60)
     DEF BootStep, StopStep

(***************************************************************************)
(* A step of a request ends it or moves it on.                             *)
(***************************************************************************)
Moves(h) == Finish(h) \/ \E l \in Labels \ {"idle"} : Goto(h, l)

\* A request under way is about a module and the process serves.
LEMMA InFlightTarget ==
    ASSUME Shape, NEW h \in Handlers, pc[h] # "idle"
    PROVE  phase = "serving" /\ target[h] \in Modules
BY DEF Shape, TypeOK, QuietOutside, TargetOK

\* A well typed step of a request under way keeps Shape.
LEMMA ShapeMove ==
    ASSUME Shape, NEW h \in Handlers, pc[h] # "idle", Moves(h),
           UNCHANGED bootVars,
           initialized' \in Seq(Modules), failed' \subseteq Modules,
           started' \subseteq Modules, jobs' \in [Modules -> Nat],
           slice' \in [Handlers -> Seq(Modules)],
           seeding' \subseteq Modules, lateSeeded' \subseteq Modules,
           stopErred' \subseteq Modules,
           docs' \in [Modules -> Doc \cup {NoDoc}],
           infra' \in [Modules -> SUBSET Nat], faults' \in Nat
    PROVE  Shape'
<1> USE LifecycleAssumption
<1>1. phase = "serving" /\ phase' = "serving" /\ target[h] \in Modules
  BY InFlightTarget DEF bootVars
<1>2. /\ pc' \in [Handlers -> Labels]
      /\ target' \in [Handlers -> Modules \cup {NoModule}]
      /\ TargetOK'
  <2> USE <1>1 DEF Shape, TypeOK, TargetOK
  <2>1. CASE Finish(h)
    BY <2>1 DEF Finish, Labels
  <2>2. CASE \E l \in Labels \ {"idle"} : Goto(h, l)
    BY <2>2 DEF Goto
  <2> QED BY <2>1, <2>2 DEF Moves
<1>3. IndexOK' /\ QuietOutside'
  BY <1>1 DEF IndexOK, QuietOutside
<1> QED
  BY <1>1, <1>2, <1>3 DEF Shape, TypeOK, bootVars

\* Every step of a request is a move, or leaves it at a label of its path.
LEMMA HandlerMoves ==
    ASSUME NEW h \in Handlers, HandlerStep(h)
    PROVE  Moves(h) /\ pc[h] # "idle" /\ UNCHANGED bootVars
<1> USE DEF Moves, Labels, EnablePath, DisablePath, ConfigPath
<1>1. CASE CheckCanDisable(h)  BY <1>1 DEF CheckCanDisable
<1>2. CASE UpdateEnabled(h)  BY <1>2 DEF UpdateEnabled
<1>3. CASE CheckFailed(h)  BY <1>3 DEF CheckFailed
<1>4. CASE RetryInit(h)  BY <1>4 DEF RetryInit
<1>5. CASE RunInit(h)  BY <1>5 DEF RunInit
<1>6. CASE ReadInitialized(h)  BY <1>6 DEF ReadInitialized
<1>7. CASE AppendInitialized(h)  BY <1>7 DEF AppendInitialized
<1>8. CASE StartModule(h)  BY <1>8 DEF StartModule
<1>9. CASE StartInfra(h)  BY <1>9 DEF StartInfra
<1>10. CASE StartJobs(h)  BY <1>10 DEF StartJobs
<1>11. CASE CommitStart(h)  BY <1>11 DEF CommitStart
<1>12. CASE StopModule(h)  BY <1>12 DEF StopModule
<1>13. CASE StopJobs(h)  BY <1>13 DEF StopJobs
<1>14. CASE StopInfra(h)  BY <1>14 DEF StopInfra
<1>15. CASE CommitStop(h)  BY <1>15 DEF CommitStop
<1>16. CASE ClearNeedsRestart(h)  BY <1>16 DEF ClearNeedsRestart
<1>17. CASE UpdateConfig(h)  BY <1>17 DEF UpdateConfig
<1>18. CASE HotClear(h)  BY <1>18 DEF HotClear
<1> QED
  BY <1>1, <1>2, <1>3, <1>4, <1>5, <1>6, <1>7, <1>8, <1>9, <1>10, <1>11,
     <1>12, <1>13, <1>14, <1>15, <1>16, <1>17, <1>18 DEF HandlerStep

\* Every step of a request keeps Shape.
LEMMA ShapeHandler ==
    ASSUME Shape, NEW h \in Handlers, HandlerStep(h)
    PROVE  Shape'
<1> USE LifecycleAssumption
<1>1. Moves(h) /\ pc[h] # "idle" /\ UNCHANGED bootVars
  BY HandlerMoves
<1>2. target[h] \in Modules /\ TypeOK
  BY <1>1, InFlightTarget DEF Shape
<1>3. UNCHANGED faults \/ Fault => faults' \in Nat
  BY <1>2 DEF Fault, TypeOK
<1>4. docs' \in [Modules -> Doc \cup {NoDoc}]
  <2>1. UNCHANGED docs => docs' \in [Modules -> Doc \cup {NoDoc}]
    BY <1>2 DEF TypeOK
  <2>2. CASE UpdateEnabled(h)
    <3> DEFINE w == WriteEnabled(target[h], pc[h] = "enable")
    <3>1. (pc[h] = "enable") \in BOOLEAN OBVIOUS
    <3>2. w \in [Modules -> Doc \cup {NoDoc}]
      BY <1>2, <3>1, DocsType
    <3>3. docs' = w \/ UNCHANGED docs
      BY <2>2 DEF UpdateEnabled
    <3> QED BY <2>1, <3>2, <3>3
  <2>3. CASE ClearNeedsRestart(h) \/ UpdateConfig(h) \/ HotClear(h)
    <3>1. TRUE \in BOOLEAN /\ FALSE \in BOOLEAN OBVIOUS
    <3>2. /\ SetFlag(target[h], TRUE) \in [Modules -> Doc \cup {NoDoc}]
          /\ SetFlag(target[h], FALSE) \in [Modules -> Doc \cup {NoDoc}]
      BY <1>2, <3>1, DocsType
    <3>3. \/ UNCHANGED docs
          \/ docs' = SetFlag(target[h], TRUE)
          \/ docs' = SetFlag(target[h], FALSE)
      BY <2>3 DEF ClearNeedsRestart, UpdateConfig, HotClear
    <3> QED BY <2>1, <3>2, <3>3
  <2>4. CASE UNCHANGED docs  BY <2>1, <2>4
  <2> QED
    BY <2>2, <2>3, <2>4
       DEF HandlerStep, CheckCanDisable, CheckFailed, RetryInit, RunInit,
           ReadInitialized, AppendInitialized, StartModule, StartInfra,
           StartJobs, CommitStart, StopModule, StopJobs, StopInfra, CommitStop
<1>5. infra' \in [Modules -> SUBSET Nat]
  <2>1. \/ UNCHANGED infra
        \/ \E up \in SUBSET Nat : infra' = [infra EXCEPT ![target[h]] = up]
    <3>1. infra[target[h]] \subseteq Nat /\ Containers(target[h]) \subseteq Nat
      BY <1>2 DEF TypeOK, Containers
    <3>2. CASE StartInfra(h)
      <4>1. \A k \in 0 .. InfraContainers[target[h]] : 1 .. k \subseteq Nat
        BY <1>2
      <4> QED BY <3>1, <3>2, <4>1 DEF StartInfra
    <3>3. CASE StartJobs(h)  BY <3>1, <3>3 DEF StartJobs
    <3>4. CASE StopInfra(h)  BY <3>1, <3>4 DEF StopInfra
    <3>5. CASE UNCHANGED infra  BY <3>5
    <3> QED
      BY <3>2, <3>3, <3>4, <3>5
         DEF HandlerStep, CheckCanDisable, UpdateEnabled, CheckFailed,
             RetryInit, RunInit, ReadInitialized, AppendInitialized,
             StartModule, CommitStart, StopModule, StopJobs, CommitStop,
             ClearNeedsRestart, UpdateConfig, HotClear
  <2>2. infra \in [Modules -> SUBSET Nat]
    BY <1>2 DEF TypeOK
  <2> QED BY <1>2, <2>1, <2>2
<1>6. jobs' \in [Modules -> Nat]
  <2>1. CASE StartJobs(h)
    <3>1. \/ UNCHANGED jobs
          \/ jobs' = [jobs EXCEPT ![target[h]] = @ + 1]
      BY <2>1 DEF StartJobs
    <3>2. jobs \in [Modules -> Nat] /\ jobs[target[h]] + 1 \in Nat
      BY <1>2 DEF TypeOK
    <3> QED BY <1>2, <3>1, <3>2
  <2>2. CASE StopJobs(h)  BY <1>2, <2>2, OneLessType DEF StopJobs, TypeOK
  <2>3. CASE UNCHANGED jobs  BY <1>2, <2>3 DEF TypeOK
  <2> QED
    BY <2>1, <2>2, <2>3
       DEF HandlerStep, CheckCanDisable, UpdateEnabled, CheckFailed,
           RetryInit, RunInit, ReadInitialized, AppendInitialized,
           StartModule, StartInfra, CommitStart, StopModule, StopInfra,
           CommitStop, ClearNeedsRestart, UpdateConfig, HotClear
<1>7. initialized' \in Seq(Modules) /\ slice' \in [Handlers -> Seq(Modules)]
  <2>1. CASE ReadInitialized(h)  BY <1>2, <2>1 DEF ReadInitialized, TypeOK
  <2>2. CASE AppendInitialized(h)
    BY <1>2, <2>2 DEF AppendInitialized, TypeOK
  <2>3. CASE UNCHANGED <<initialized, slice>>  BY <1>2, <2>3 DEF TypeOK
  <2> QED
    BY <2>1, <2>2, <2>3
       DEF HandlerStep, CheckCanDisable, UpdateEnabled, CheckFailed,
           RetryInit, RunInit, StartModule, StartInfra, StartJobs,
           CommitStart, StopModule, StopJobs, StopInfra, CommitStop,
           ClearNeedsRestart, UpdateConfig, HotClear
<1>8. failed' \subseteq Modules /\ started' \subseteq Modules
  <2>1. CASE RunInit(h)  BY <1>2, <2>1 DEF RunInit, TypeOK
  <2>2. CASE CommitStart(h)  BY <1>2, <2>2 DEF CommitStart, TypeOK
  <2>3. CASE CommitStop(h)  BY <1>2, <2>3 DEF CommitStop, TypeOK
  <2>4. CASE UNCHANGED <<failed, started>>  BY <1>2, <2>4 DEF TypeOK
  <2> QED
    BY <2>1, <2>2, <2>3, <2>4
       DEF HandlerStep, CheckCanDisable, UpdateEnabled, CheckFailed,
           RetryInit, ReadInitialized, AppendInitialized, StartModule,
           StartInfra, StartJobs, StopModule, StopJobs, StopInfra,
           ClearNeedsRestart, UpdateConfig, HotClear
<1>9. /\ seeding' \subseteq Modules /\ lateSeeded' \subseteq Modules
      /\ stopErred' \subseteq Modules
  BY <1>2
     DEF TypeOK, HandlerStep, CheckCanDisable, UpdateEnabled, CheckFailed,
         RetryInit, RunInit, ReadInitialized, AppendInitialized, StartModule,
         StartInfra, StartJobs, CommitStart, StopModule, StopJobs, StopInfra,
         CommitStop, ClearNeedsRestart, UpdateConfig, HotClear
<1>10. UNCHANGED faults \/ Fault
  BY DEF NoFault, HandlerStep, CheckCanDisable, UpdateEnabled, CheckFailed,
         RetryInit, RunInit, ReadInitialized, AppendInitialized, StartModule,
         StartInfra, StartJobs, CommitStart, StopModule, StopJobs, StopInfra,
         CommitStop, ClearNeedsRestart, UpdateConfig, HotClear
<1> QED
  BY <1>1, <1>3, <1>4, <1>5, <1>6, <1>7, <1>8, <1>9, <1>10, ShapeMove

Requests ==
    \E h \in Handlers, m \in Modules :
        RequestEnable(h, m) \/ RequestDisable(h, m) \/ RequestConfig(h, m)

Seeding == \E m \in Modules : FindMissing(m) \/ LazySeed(m)

\* New requests and lazy seeding keep Shape.
LEMMA ShapeClients ==
    ASSUME Shape, Requests \/ Seeding
    PROVE  Shape'
<1> USE LifecycleAssumption
<1>1. ASSUME NEW h \in Handlers, NEW m \in Modules,
             NEW l \in {"enable", "canDisable", "config"}, Request(h, m, l)
      PROVE  Shape'
  BY <1>1
     DEF Request, bootVars, Shape, TypeOK, IndexOK, QuietOutside, TargetOK,
         Labels, ConfigPath
<1>2. ASSUME NEW m \in Modules, FindMissing(m)
      PROVE  Shape'
  BY <1>2
     DEF FindMissing, bootVars, Shape, TypeOK, IndexOK, QuietOutside, TargetOK
<1>3. ASSUME NEW m \in Modules, LazySeed(m)
      PROVE  Shape'
  <2>1. docs' \in [Modules -> Doc \cup {NoDoc}] /\ faults' \in Nat
    <3>1. DefaultDoc(m) \in Doc
      BY DefaultDocType
    <3>2. faults \in Nat /\ docs \in [Modules -> Doc \cup {NoDoc}]
      BY DEF Shape, TypeOK
    <3>3. \/ docs' = [docs EXCEPT ![m] = DefaultDoc(m)]
          \/ UNCHANGED docs
      BY <1>3 DEF LazySeed
    <3> QED BY <1>3, <3>1, <3>2, <3>3, FaultsNat DEF LazySeed
  <2> QED
    BY <1>3, <2>1
       DEF LazySeed, bootVars, Shape, TypeOK, IndexOK, QuietOutside, TargetOK
<1> QED
  BY <1>1, <1>2, <1>3
     DEF Requests, Seeding, RequestEnable, RequestDisable, RequestConfig

\* Shape is inductive.
LEMMA ShapeNext == Shape /\ [Next]_vars => Shape'
<1> SUFFICES ASSUME Shape, [Next]_vars PROVE Shape'
  OBVIOUS
<1>1. CASE UNCHANGED vars
  BY <1>1 DEF vars, memory, Shape, TypeOK, IndexOK, QuietOutside, TargetOK
<1>2. CASE Crash \/ Wipe \/ BootStep \/ BeginStopAll \/ StopStep
  BY <1>2, ShapeBoot
<1>3. CASE Requests \/ Seeding
  BY <1>3, ShapeClients
<1>4. CASE \E h \in Handlers : HandlerStep(h)
  BY <1>4, ShapeHandler
<1> QED BY <1>1, <1>2, <1>3, <1>4 DEF Next, Requests, Seeding

\* Type correctness, for every value of the constants: nothing the registry,
\* its handlers, a crash or a failure does takes a variable out of its type.
THEOREM TypeCorrect == Spec => []TypeOK
<1>1. Shape => TypeOK
  BY DEF Shape
<1> QED BY <1>1, ShapeInit, ShapeNext, PTL DEF Spec

(***************************************************************************)
(* Safety.  From here on clients never have two requests on one module in  *)
(* flight.                                                                 *)
(***************************************************************************)
Safe == BootPart /\ JobsPart /\ DocsPart

\* The first process starts from nothing.
LEMMA SafeInit == Init => Safe
<1> SUFFICES ASSUME Init PROVE Safe
  OBVIOUS
<1> USE LifecycleAssumption DEF Init
<1>1. BootPart
  BY DEF BootPart, DownClean, CoreNotFailed, InitProgress, StartProgress,
         CoreStarted
<1>2. JobsPart
  BY DEF JobsPart, OneAtATime, TogglesAddons, JobsQuiet, AtRest, JobsUp,
         JobsAt, Toggling, ErredAddons
<1>3. DocsPart
  BY DEF DocsPart, EnabledInSync, DocAt, EnablePath, DisablePath
<1> QED BY <1>1, <1>2, <1>3 DEF Safe

\* So does a process after an exit or a crash.
LEMMA SafeLost == LoseMemory => Safe'
<1> SUFFICES ASSUME LoseMemory PROVE Safe'
  OBVIOUS
<1> USE LifecycleAssumption DEF LoseMemory
<1>1. BootPart'
  BY DEF BootPart, DownClean, CoreNotFailed, InitProgress, StartProgress,
         CoreStarted
<1>2. JobsPart'
  BY DEF JobsPart, OneAtATime, TogglesAddons, JobsQuiet, AtRest, JobsUp,
         JobsAt, Toggling, ErredAddons
<1>3. DocsPart'
  BY DEF DocsPart, EnabledInSync, DocAt, EnablePath, DisablePath
<1> QED BY <1>1, <1>2, <1>3 DEF Safe

\* Appending a new element to a list without repetition.
LEMMA AppendRange ==
    ASSUME NEW S, NEW s \in Seq(S), NEW e \in S
    PROVE  /\ Range(Append(s, e)) = Range(s) \cup {e}
           /\ IsInjective(s) /\ e \notin Range(s) => IsInjective(Append(s, e))
<1>1. /\ DOMAIN s = 1 .. Len(s) /\ Len(s) \in Nat
      /\ DOMAIN Append(s, e) = 1 .. Len(s) + 1
      /\ Append(s, e)[Len(s) + 1] = e
      /\ \A i \in 1 .. Len(s) : Append(s, e)[i] = s[i]
  OBVIOUS
<1>2. Range(Append(s, e)) = Range(s) \cup {e}
  BY <1>1 DEF Range
<1>3. IsInjective(s) /\ e \notin Range(s) => IsInjective(Append(s, e))
  BY <1>1 DEF Range, IsInjective
<1> QED BY <1>2, <1>3

\* Where no request is in flight and the process does not serve, the parts
\* about requests hold by themselves.
LEMMA IdleRequests ==
    ASSUME Shape', phase' # "serving"
    PROVE  /\ OneAtATime' /\ TogglesAddons'
           /\ \A h \in Handlers : JobsAt(h)'
           /\ DocsPart'
<1>1. \A h \in Handlers : pc'[h] = "idle" /\ target'[h] = NoModule
  BY DEF Shape, QuietOutside, TargetOK
<1>2. OneAtATime' /\ TogglesAddons'
  BY <1>1 DEF OneAtATime, TogglesAddons, Toggling
<1>3. \A h \in Handlers : JobsAt(h)'
  BY <1>1 DEF JobsAt
<1>4. DocsPart'
  BY <1>1 DEF DocsPart, EnabledInSync, DocAt, EnablePath, DisablePath
<1> QED BY <1>2, <1>3, <1>4

\* Outside serving and stopping the jobs are those of the started modules.
LEMMA QuietJobs ==
    ASSUME Shape, JobsQuiet, phase \notin {"serving", "stopping"}
    PROVE  \A m \in Modules : Settled(m) /\ AtRest(m)
BY LifecycleAssumption DEF Shape, QuietOutside, JobsQuiet, Settled, Between

\* The steps of InitAll.
LEMMA SafeInitAll ==
    ASSUME Shape, Safe, Shape', Boot \/ InitOk \/ InitFail \/ BeginStartAll
    PROVE  Safe'
<1> USE LifecycleAssumption
<1>0. TypeOK /\ BootPart /\ JobsPart
  BY DEF Shape, Safe
<1>1. CASE LoseMemory  BY <1>1, SafeLost
<1>2. CASE ~LoseMemory
  <2>1. phase' \in {"init", "start"}
    BY <1>2 DEF Boot, InitOk, InitFail, BeginStartAll
  <2>2. UNCHANGED <<started, jobs, infra, stopErred>>
    BY <1>2 DEF Boot, InitOk, InitFail, BeginStartAll
  <2>3. JobsPart' /\ DocsPart'
    <3>1. /\ \A m \in Modules : AtRest(m)
          /\ \A m \in Modules : jobs[m] > 0 \/ m \in started => AllUp(m)
      BY <1>0, QuietJobs
         DEF Boot, InitOk, InitFail, BeginStartAll, JobsPart, JobsUp
    <3>2. JobsQuiet' /\ JobsUp' /\ ErredAddons'
      BY <1>0, <2>2, <3>1
         DEF JobsPart, JobsQuiet, AtRest, JobsUp, AllUp, Containers, ErredAddons
    <3> QED BY <2>1, <3>2, IdleRequests DEF JobsPart
  <2>4. ASSUME Boot PROVE BootPart'
    <3>1. /\ phase = "down" /\ phase' = "init" /\ idx' = 1
          /\ UNCHANGED <<initialized, failed, started>>
      BY <2>4 DEF Boot
    <3>2. initialized = <<>> /\ failed = {} /\ started = {}
      BY <1>0, <3>1 DEF BootPart, DownClean
    <3>3. Range(initialized) = {} /\ IsInjective(initialized)
      BY <3>2 DEF Range, IsInjective
    <3>4. InitProgress'
      BY <3>1, <3>2, <3>3 DEF InitProgress
    <3>5. DownClean' /\ StartProgress' /\ CoreStarted' /\ CoreNotFailed'
      BY <3>1, <3>2 DEF DownClean, StartProgress, CoreStarted, CoreNotFailed
    <3> QED BY <3>4, <3>5 DEF BootPart
  <2>5. ASSUME InitOk PROVE BootPart'
    <3> DEFINE m == Order[idx]
    <3>1. /\ phase = "init" /\ phase' = "init" /\ idx \in 1 .. Len(Order)
          /\ initialized' = Append(initialized, m) /\ idx' = idx + 1
          /\ UNCHANGED <<failed, started, docs>>
          /\ m \in Modules
      BY <1>0, <2>5 DEF InitOk, TypeOK, Shape, IndexOK
    <3>2. /\ started = {} /\ IsInjective(initialized)
          /\ Range(initialized) \subseteq {Order[i] : i \in 1 .. idx - 1}
          /\ \A i \in 1 .. Len(Order) :
                i < idx => Order[i] \in Range(initialized) \cup failed
      BY <1>0, <3>1 DEF BootPart, InitProgress
    <3>3. m \notin {Order[i] : i \in 1 .. idx - 1}
      BY <3>1 DEF IsInjective
    <3>4. /\ Range(initialized') = Range(initialized) \cup {m}
          /\ IsInjective(initialized')
      <4>1. initialized \in Seq(Modules)
        BY <1>0 DEF TypeOK
      <4>2. m \notin Range(initialized)
        BY <3>2, <3>3
      <4> QED BY <3>1, <3>2, <4>1, <4>2, AppendRange
    <3>5. {Order[i] : i \in 1 .. idx - 1} \cup {m}
            \subseteq {Order[i] : i \in 1 .. (idx + 1) - 1}
      <4>1. 1 .. idx - 1 \subseteq 1 .. (idx + 1) - 1 /\ idx \in 1 .. (idx + 1) - 1
        BY <3>1
      <4> QED BY <4>1
    <3>6. \A i \in 1 .. Len(Order) :
                i < idx + 1 => Order[i] \in Range(initialized') \cup failed
      <4> SUFFICES ASSUME NEW i \in 1 .. Len(Order), i < idx + 1
                   PROVE  Order[i] \in Range(initialized') \cup failed
        OBVIOUS
      <4>1. CASE i < idx  BY <3>2, <3>4, <4>1
      <4>2. CASE i = idx  BY <3>4, <4>2
      <4> QED BY <3>1, <4>1, <4>2
    <3>7. InitProgress'
      BY <3>1, <3>2, <3>4, <3>5, <3>6 DEF InitProgress
    <3>8. DownClean' /\ StartProgress' /\ CoreStarted'
      BY <3>1 DEF DownClean, StartProgress, CoreStarted
    <3>9. CoreNotFailed'
      BY <1>0, <3>1 DEF BootPart, CoreNotFailed
    <3> QED BY <3>7, <3>8, <3>9 DEF BootPart
  <2>6. ASSUME InitFail PROVE BootPart'
    <3> DEFINE m == Order[idx]
    <3>1. /\ phase = "init" /\ phase' = "init" /\ idx \in 1 .. Len(Order)
          /\ m \notin Core /\ failed' = failed \cup {m} /\ idx' = idx + 1
          /\ UNCHANGED <<initialized, started, docs>>
      BY <1>0, <1>2, <2>6 DEF InitFail, TypeOK, Shape, IndexOK
    <3>2. /\ started = {} /\ IsInjective(initialized)
          /\ Range(initialized) \subseteq {Order[i] : i \in 1 .. idx - 1}
          /\ \A i \in 1 .. Len(Order) :
                i < idx => Order[i] \in Range(initialized) \cup failed
      BY <1>0, <3>1 DEF BootPart, InitProgress
    <3>3. Range(initialized') \subseteq {Order[i] : i \in 1 .. (idx + 1) - 1}
      BY <3>1, <3>2
    <3>4. InitProgress'
      BY <3>1, <3>2, <3>3 DEF InitProgress
    <3>8. DownClean' /\ StartProgress' /\ CoreStarted'
      BY <3>1 DEF DownClean, StartProgress, CoreStarted
    <3>9. CoreNotFailed'
      BY <1>0, <3>1 DEF BootPart, CoreNotFailed
    <3> QED BY <3>4, <3>8, <3>9 DEF BootPart
  <2>7. ASSUME BeginStartAll PROVE BootPart'
    <3>1. /\ phase = "init" /\ phase' = "start" /\ idx > Len(Order) /\ idx' = 1
          /\ startSet' = Core \cup {m \in Modules : IsEnabledDoc(m)}
          /\ UNCHANGED <<initialized, failed, started, docs>>
      BY <2>7 DEF BeginStartAll
    <3>2. /\ started = {} /\ IsInjective(initialized)
          /\ \A i \in 1 .. Len(Order) : Order[i] \in Range(initialized) \cup failed
      BY <1>0, <3>1 DEF BootPart, InitProgress, TypeOK
    <3>3. Modules = Range(initialized) \cup failed
      <4>1. Modules \subseteq Range(initialized) \cup failed
        BY <3>2 DEF Range
      <4>2. Range(initialized) \subseteq Modules
        BY <1>0 DEF TypeOK, Range
      <4> QED BY <1>0, <4>1, <4>2 DEF TypeOK
    <3>4. \A i \in 1 .. Len(initialized) : ~(i < 1)
      OBVIOUS
    <3>5. StartProgress'
      BY <3>1, <3>2, <3>3, <3>4 DEF StartProgress, IsEnabledDoc
    <3>8. DownClean' /\ InitProgress' /\ CoreStarted'
      BY <3>1 DEF DownClean, InitProgress, CoreStarted
    <3>9. CoreNotFailed'
      BY <1>0, <3>1 DEF BootPart, CoreNotFailed
    <3> QED BY <3>5, <3>8, <3>9 DEF BootPart
  <2>8. BootPart'
    BY <2>4, <2>5, <2>6, <2>7
  <2> QED BY <2>3, <2>8 DEF Safe
<1> QED BY <1>1, <1>2

\* One pass of StartAll's loop over module m: whatever happened to m, the
\* other modules kept their started flag.
LEMMA StartProgressStep ==
    ASSUME Shape, BootPart, phase = "start", phase' = "start",
           idx \in 1 .. Len(initialized), idx' = idx + 1,
           UNCHANGED <<initialized, startSet, docs>>,
           started \subseteq started', failed \subseteq failed',
           started' \subseteq started \cup ({initialized[idx]} \cap startSet),
           failed' \subseteq failed \cup ({initialized[idx]} \ Core),
           initialized[idx] \in startSet =>
                initialized[idx] \in started' \cup failed'
    PROVE  BootPart'
<1>1. /\ IsInjective(initialized) /\ Modules = Range(initialized) \cup failed
      /\ Core \subseteq startSet /\ started \subseteq startSet
      /\ \A m \in Modules : docs[m] # NoDoc =>
                IF docs[m].enabled THEN m \in startSet
                                   ELSE m \in Core \/ m \notin startSet
      /\ \A i \in 1 .. Len(initialized) :
                IF i < idx
                THEN initialized[i] \in startSet =>
                        initialized[i] \in started \cup failed
                ELSE initialized[i] \notin started
  BY DEF BootPart, StartProgress
<1>2. Len(initialized) \in Nat /\ DOMAIN initialized = 1 .. Len(initialized)
      /\ initialized[idx] \in Modules
  BY DEF Shape, TypeOK
<1>3. \A i \in 1 .. Len(initialized) :
                IF i < idx + 1
                THEN initialized[i] \in startSet =>
                        initialized[i] \in started' \cup failed'
                ELSE initialized[i] \notin started'
  <2> SUFFICES ASSUME NEW i \in 1 .. Len(initialized)
               PROVE  IF i < idx + 1
                      THEN initialized[i] \in startSet =>
                              initialized[i] \in started' \cup failed'
                      ELSE initialized[i] \notin started'
    OBVIOUS
  <2>1. CASE i < idx  BY <1>1, <2>1
  <2>2. CASE i = idx  BY <2>2
  <2>3. CASE i > idx
    <3>1. initialized[i] # initialized[idx]
      BY <1>1, <1>2, <2>3 DEF IsInjective
    <3>2. initialized[i] \notin started
      BY <1>1, <2>3
    <3> QED BY <2>3, <3>1, <3>2
  <2> QED BY <2>1, <2>2, <2>3
<1>4. Modules = Range(initialized) \cup failed'
  BY <1>1, <1>2
<1>5. StartProgress'
  BY <1>1, <1>3, <1>4 DEF StartProgress
<1>6. CoreNotFailed'
  BY DEF BootPart, CoreNotFailed
<1>7. DownClean' /\ InitProgress' /\ CoreStarted'
  BY DEF DownClean, InitProgress, CoreStarted
<1> QED BY <1>5, <1>6, <1>7 DEF BootPart

\* The steps of StartAll.
LEMMA SafeStartAll ==
    ASSUME Shape, Safe, Shape', StartSkip \/ StartOk \/ StartFail \/ BootDone
    PROVE  Safe'
<1> USE LifecycleAssumption
<1>0. TypeOK /\ BootPart /\ JobsPart /\ idx >= 1 /\ phase = "start"
  BY DEF Shape, Safe, IndexOK, StartSkip, StartOk, StartFail, BootDone
<1>1. /\ \A m \in Modules : AtRest(m)
      /\ \A m \in Modules : jobs[m] > 0 \/ m \in started => AllUp(m)
  BY <1>0, QuietJobs DEF JobsPart, JobsUp
<1>2. CASE LoseMemory  BY <1>2, SafeLost
<1>3. CASE StartSkip
  <2>1. BootPart'
    BY <1>0, <1>3, StartProgressStep DEF StartSkip, TypeOK
  <2>2. JobsQuiet' /\ JobsUp' /\ ErredAddons' /\ phase' # "serving"
    BY <1>0, <1>1, <1>3
       DEF StartSkip, JobsPart, JobsQuiet, AtRest, JobsUp, AllUp, Containers,
           ErredAddons
  <2> QED BY <2>1, <2>2, IdleRequests DEF Safe, JobsPart
<1>4. CASE StartOk
  <2> DEFINE m == initialized[idx]
  <2>1. /\ m \in Modules /\ m \in startSet /\ phase' = "start"
        /\ idx \in 1 .. Len(initialized) /\ idx' = idx + 1
        /\ infra' = [infra EXCEPT ![m] = @ \cup Containers(m)]
        /\ jobs' = [jobs EXCEPT ![m] = @ + 1]
        /\ started' = started \cup {m}
        /\ UNCHANGED <<initialized, failed, startSet, docs, stopErred>>
    BY <1>0, <1>4 DEF StartOk, TypeOK
  <2>2. BootPart'
    BY <1>0, <2>1, StartProgressStep
  <2>3. m \notin started
    BY <1>0, <2>1 DEF BootPart, StartProgress
  <2>4. jobs \in [Modules -> Nat] /\ infra \in [Modules -> SUBSET Nat]
    BY <1>0 DEF TypeOK
  <2>5. JobsQuiet'
    BY <1>1, <2>1, <2>3, <2>4 DEF JobsQuiet, AtRest
  <2>6. JobsUp' /\ ErredAddons'
    BY <1>0, <1>1, <2>1, <2>4 DEF JobsPart, JobsUp, AllUp, Containers, ErredAddons
  <2> QED BY <2>1, <2>2, <2>5, <2>6, IdleRequests DEF Safe, JobsPart
<1>5. CASE StartFail /\ ~LoseMemory
  <2> DEFINE m == initialized[idx]
  <2>1. /\ m \in Modules /\ m \notin Core /\ phase' = "start"
        /\ idx \in 1 .. Len(initialized) /\ idx' = idx + 1
        /\ failed' = failed \cup {m}
        /\ UNCHANGED <<initialized, started, startSet, jobs, docs, stopErred>>
    BY <1>0, <1>5 DEF StartFail, TypeOK
  <2>2. \E c \in SUBSET Nat : infra' = [infra EXCEPT ![m] = @ \cup c]
    <3>1. \A k \in 0 .. InfraContainers[m] : 1 .. k \in SUBSET Nat
      BY <2>1
    <3> QED BY <1>5, <3>1 DEF StartFail
  <2>3. BootPart'
    BY <1>0, <2>1, StartProgressStep
  <2>4. JobsQuiet' /\ ErredAddons'
    BY <1>0, <1>1, <2>1 DEF JobsPart, JobsQuiet, AtRest, ErredAddons
  <2>5. JobsUp'
    <3>1. infra \in [Modules -> SUBSET Nat]
      BY <1>0 DEF TypeOK
    <3> QED BY <1>1, <2>1, <2>2, <3>1 DEF JobsUp, AllUp, Containers
  <2> QED BY <2>1, <2>3, <2>4, <2>5, IdleRequests DEF Safe, JobsPart
<1>6. CASE BootDone
  <2>1. /\ phase' = "serving" /\ idx > Len(initialized)
        /\ UNCHANGED <<initialized, failed, started, startSet, jobs, pc,
                       target, seeding, lateSeeded, stopErred, docs, infra>>
    BY <1>6 DEF BootDone
  <2>2. \A h \in Handlers : pc[h] = "idle" /\ target[h] = NoModule
    BY <1>0 DEF Shape, QuietOutside, TargetOK
  <2>3. /\ \A m \in startSet : m \in started \cup failed
        /\ Core \subseteq startSet
        /\ \A m \in Modules : IsEnabledDoc(m) => m \in startSet
    <3>1. \A i \in 1 .. Len(initialized) : i < idx
      BY <1>0, <2>1 DEF TypeOK
    <3>2. /\ Modules = Range(initialized) \cup failed
          /\ Core \subseteq startSet /\ startSet \subseteq Modules
          /\ DOMAIN initialized = 1 .. Len(initialized)
      BY <1>0 DEF BootPart, StartProgress, TypeOK
    <3>3. \A i \in 1 .. Len(initialized) : initialized[i] \in startSet =>
                initialized[i] \in started \cup failed
      BY <1>0, <3>1 DEF BootPart, StartProgress
    <3>4. \A m \in Modules : IsEnabledDoc(m) => m \in startSet
      BY <1>0 DEF BootPart, StartProgress, IsEnabledDoc
    <3> QED BY <3>2, <3>3, <3>4 DEF Range
  <2>4. BootPart'
    <3>1. CoreNotFailed' /\ DownClean' /\ InitProgress' /\ StartProgress'
      BY <1>0, <2>1
         DEF BootPart, CoreNotFailed, DownClean, InitProgress, StartProgress
    <3>2. CoreStarted'
      BY <1>0, <2>1, <2>3 DEF BootPart, CoreNotFailed, CoreStarted
    <3> QED BY <3>1, <3>2 DEF BootPart
  <2>5. JobsPart'
    BY <1>0, <1>1, <2>1, <2>2
       DEF JobsPart, OneAtATime, TogglesAddons, Toggling, JobsQuiet, AtRest,
           JobsUp, JobsAt, AllUp, Containers, ErredAddons
  <2>6. DocsPart'
    <3>1. EnabledInSync'
      BY <2>1, <2>3 DEF EnabledInSync, IsEnabledDoc
    <3>2. \A h \in Handlers : DocAt(h)'
      BY <2>1, <2>2 DEF DocAt, EnablePath, DisablePath
    <3> QED BY <3>1, <3>2 DEF DocsPart
  <2> QED BY <2>4, <2>5, <2>6 DEF Safe
<1> QED BY <1>2, <1>3, <1>4, <1>5, <1>6

\* The steps of StopAll.
LEMMA SafeStopAll ==
    ASSUME Shape, Safe, Shape', BeginStopAll \/ StopSkip \/ StopNext
    PROVE  Safe'
<1>1. /\ phase \in {"serving", "stopping"} /\ phase' = "stopping"
      /\ UNCHANGED <<failed, started, stopErred>>
  BY DEF BeginStopAll, StopSkip, StopNext
<1>2. JobsQuiet' /\ JobsUp' /\ ErredAddons'
  BY <1>1 DEF Safe, JobsPart, JobsQuiet, JobsUp, ErredAddons
<1>3. CoreNotFailed' /\ CoreStarted'
  BY <1>1 DEF Safe, BootPart, CoreNotFailed, CoreStarted
<1>4. DownClean' /\ InitProgress' /\ StartProgress'
  BY <1>1 DEF DownClean, InitProgress, StartProgress
<1> QED BY <1>1, <1>2, <1>3, <1>4, IdleRequests DEF Safe, BootPart, JobsPart

\* The loss of all documents.
LEMMA SafeWipe ==
    ASSUME Shape, Safe, Shape', Wipe
    PROVE  Safe'
<1>1. /\ \A m \in Modules : docs'[m] = NoDoc
      /\ UNCHANGED memory /\ UNCHANGED infra
  BY DEF Wipe
<1>2. BootPart'
  <2>1. UNCHANGED <<phase, idx, initialized, failed, started, startSet>>
    BY <1>1 DEF memory
  <2>2. CoreNotFailed' /\ DownClean' /\ InitProgress' /\ CoreStarted'
    BY <2>1
       DEF Safe, BootPart, CoreNotFailed, DownClean, InitProgress, CoreStarted
  <2>3. StartProgress'
    BY <1>1, <2>1 DEF Safe, BootPart, StartProgress
  <2> QED BY <2>2, <2>3 DEF BootPart
<1>3. JobsPart'
  BY <1>1
     DEF memory, Safe, JobsPart, OneAtATime, TogglesAddons, Settled, JobsQuiet,
         AtRest, JobsUp, JobsAt, AllUp, Containers, ErredAddons
<1>4. DocsPart'
  <2>1. EnabledInSync'
    BY <1>1 DEF EnabledInSync, IsEnabledDoc
  <2>2. \A h \in Handlers : DocAt(h)'
    <3> SUFFICES ASSUME NEW h \in Handlers, pc'[h] # "idle" PROVE DocAt(h)'
      BY DEF DocAt, EnablePath, DisablePath
    <3>1. target'[h] \in Modules
      BY DEF Shape, TypeOK, TargetOK
    <3>2. pc' = pc /\ target' = target /\ DocAt(h)
      BY <1>1 DEF memory, Safe, DocsPart
    <3> QED BY <1>1, <3>1, <3>2 DEF DocAt
  <2> QED BY <2>1, <2>2 DEF DocsPart
<1> QED BY <1>2, <1>3, <1>4 DEF Safe

(***************************************************************************)
(* One step of one request.  Such a step changes jobs, started, failed and *)
(* infra only at its own target, so all there is to show is what holds     *)
(* there afterwards.                                                       *)
(***************************************************************************)
OnlyAt(m) ==
    \A n \in Modules \ {m} :
        /\ jobs'[n] = jobs[n] /\ infra'[n] = infra[n] /\ docs'[n] = docs[n]
        /\ (n \in started' <=> n \in started) /\ (n \in failed' <=> n \in failed)
        /\ (n \in lateSeeded' <=> n \in lateSeeded)
        /\ (n \in stopErred' <=> n \in stopErred)

\* The other requests are about other modules and do not move.
LEMMA OtherRequests ==
    ASSUME Shape, OneAtATime, NEW h \in Handlers, pc[h] # "idle", Moves(h)
    PROVE  /\ \A g \in Handlers \ {h} :
                /\ pc'[g] = pc[g] /\ target'[g] = target[g]
                /\ target[g] # target[h]
                /\ pc[g] = "idle" \/ target[g] \in Modules \ {target[h]}
           /\ \/ pc'[h] = "idle" /\ target'[h] = NoModule
              \/ pc'[h] \in Labels \ {"idle"} /\ target'[h] = target[h]
           /\ OneAtATime'
<1> USE LifecycleAssumption
<1>1. /\ pc \in [Handlers -> Labels]
      /\ target \in [Handlers -> Modules \cup {NoModule}]
      /\ \A g \in Handlers : pc[g] = "idle" <=> target[g] = NoModule
  BY DEF Shape, TypeOK, TargetOK
<1>2. /\ \A g \in Handlers \ {h} : pc'[g] = pc[g] /\ target'[g] = target[g]
      /\ \/ pc'[h] = "idle" /\ target'[h] = NoModule
         \/ pc'[h] \in Labels \ {"idle"} /\ target'[h] = target[h]
  BY <1>1 DEF Moves, Finish, Goto
<1>3. \A g \in Handlers \ {h} :
                /\ target[g] # target[h]
                /\ pc[g] = "idle" \/ target[g] \in Modules \ {target[h]}
  BY <1>1 DEF OneAtATime
<1>4. OneAtATime'
  BY <1>1, <1>2, <1>3 DEF OneAtATime
<1> QED BY <1>2, <1>3, <1>4

\* A step that touches only t keeps JobsPart if it keeps what is said of t.
LEMMA JobsFrame ==
    ASSUME Shape, JobsPart, NEW h \in Handlers, pc[h] # "idle", Moves(h),
           NEW t \in Modules, target[h] = t,
           phase' = phase, OnlyAt(t),
           pc'[h] \in Toggling => t \notin Core,
           pc'[h] # "idle" => JobsAt(h)',
           pc'[h] \notin Between => AtRest(t)',
           jobs'[t] > 0 \/ (t \in started' /\ pc'[h] \notin Between)
                => AllUp(t)',
           t \in Core => t \notin stopErred'
    PROVE  JobsPart'
<1>1. phase = "serving" /\ t \in Modules
  BY InFlightTarget
<1>2. /\ \A g \in Handlers \ {h} :
                /\ pc'[g] = pc[g] /\ target'[g] = target[g]
                /\ target[g] # t
                /\ pc[g] = "idle" \/ target[g] \in Modules \ {t}
      /\ \/ pc'[h] = "idle" /\ target'[h] = NoModule
         \/ pc'[h] \in Labels \ {"idle"} /\ target'[h] = t
      /\ OneAtATime'
  BY OtherRequests DEF JobsPart
<1>3. TogglesAddons'
  BY <1>2 DEF JobsPart, TogglesAddons, Toggling
<1>4. \A g \in Handlers : JobsAt(g)'
  <2> SUFFICES ASSUME NEW g \in Handlers \ {h}, pc[g] # "idle"
               PROVE  JobsAt(g)'
    BY <1>2 DEF JobsAt
  <2>1. JobsAt(g)
    BY DEF JobsPart
  <2>2. target[g] \in Modules \ {t}
    BY <1>2
  <2> QED BY <1>2, <2>1, <2>2 DEF JobsAt, OnlyAt, AllUp, Containers
<1>5. /\ Settled(t)' => pc'[h] \notin Between
      /\ \A m \in Modules \ {t} : Settled(m)' => Settled(m)
  BY <1>2 DEF Settled, Between
<1>6. JobsQuiet'
  <2> SUFFICES ASSUME NEW m \in Modules \ {t}, Settled(m)'
               PROVE  AtRest(m)'
    BY <1>5 DEF JobsQuiet
  <2>1. AtRest(m)
    BY <1>1, <1>5 DEF JobsPart, JobsQuiet
  <2> QED BY <2>1 DEF OnlyAt, AtRest
<1>7. JobsUp'
  <2> SUFFICES ASSUME NEW m \in Modules \ {t},
                      jobs'[m] > 0 \/ (m \in started' /\ Settled(m)')
               PROVE  AllUp(m)'
    BY <1>5 DEF JobsUp
  <2>1. /\ jobs'[m] = jobs[m] /\ infra'[m] = infra[m]
        /\ m \in started' <=> m \in started
    BY <1>1 DEF OnlyAt
  <2>2. AllUp(m)
    BY <1>1, <1>5, <2>1 DEF JobsPart, JobsUp
  <2> QED BY <2>1, <2>2 DEF AllUp, Containers
<1>8. ErredAddons'
  BY LifecycleAssumption DEF JobsPart, ErredAddons, OnlyAt
<1> QED BY <1>2, <1>3, <1>4, <1>6, <1>7, <1>8 DEF JobsPart

\* What EnabledInSync says of one module.
SyncAt(m) ==
    IsEnabledDoc(m) /\ ~docs[m].needsRestart =>
        m \in HotReload \cup lateSeeded \cup started \cup failed

\* The same for DocsPart.
LEMMA DocsFrame ==
    ASSUME Shape, JobsPart, DocsPart, NEW h \in Handlers, pc[h] # "idle",
           NEW t \in Modules, target[h] = t,
           Moves(h), phase' = phase, OnlyAt(t),
           SyncAt(t)',
           pc'[h] # "idle" => DocAt(h)'
    PROVE  DocsPart'
<1>1. phase = "serving" /\ t \in Modules
  BY InFlightTarget
<1>2. /\ \A g \in Handlers \ {h} :
                /\ pc'[g] = pc[g] /\ target'[g] = target[g]
                /\ pc[g] = "idle" \/ target[g] \in Modules \ {t}
      /\ \/ pc'[h] = "idle" /\ target'[h] = NoModule
         \/ pc'[h] \in Labels \ {"idle"} /\ target'[h] = t
  BY OtherRequests DEF JobsPart
<1>3. EnabledInSync'
  <2>1. \A m \in Modules : SyncAt(m)
    BY <1>1 DEF DocsPart, EnabledInSync, SyncAt
  <2>2. ASSUME NEW m \in Modules \ {t}  PROVE SyncAt(m)'
    <3>1. /\ docs'[m] = docs[m]
          /\ (m \in started' <=> m \in started)
          /\ (m \in failed' <=> m \in failed)
          /\ (m \in lateSeeded' <=> m \in lateSeeded)
      BY <1>1, <2>2 DEF OnlyAt
    <3>2. SyncAt(m)
      BY <2>1, <2>2
    <3> QED BY <3>1, <3>2 DEF SyncAt, IsEnabledDoc
  <2>3. \A m \in Modules : SyncAt(m)'
    BY <2>2
  <2> QED BY <2>3 DEF EnabledInSync, SyncAt
<1>4. \A g \in Handlers : DocAt(g)'
  <2> SUFFICES ASSUME NEW g \in Handlers \ {h}, pc[g] # "idle"
               PROVE  DocAt(g)'
    BY <1>2 DEF DocAt, EnablePath, DisablePath
  <2>1. DocAt(g) /\ target[g] \in Modules \ {t}
    BY <1>2 DEF DocsPart
  <2> QED BY <1>2, <2>1 DEF DocAt, OnlyAt
<1> QED BY <1>3, <1>4 DEF DocsPart

\* What the invariant says of the target of a request under way ...
AtTarget(h, t) ==
    /\ JobsAt(h) /\ DocAt(h) /\ SyncAt(t)
    /\ pc[h] \notin Between => AtRest(t)
    /\ jobs[t] > 0 \/ (t \in started /\ pc[h] \notin Between) => AllUp(t)
    /\ pc[h] \in Toggling => t \notin Core
    /\ t \in Core => t \in started /\ t \notin failed /\ t \notin stopErred

\* What the invariant says of the module a request is about.
LEMMA AtTargetHolds ==
    ASSUME Shape, Safe, NEW h \in Handlers, pc[h] # "idle",
           NEW t \in Modules, target[h] = t
    PROVE  AtTarget(h, t)
<1>1. phase = "serving"
  BY InFlightTarget
<1>2. JobsAt(h) /\ DocAt(h) /\ SyncAt(t)
  BY <1>1 DEF Safe, JobsPart, DocsPart, EnabledInSync, SyncAt
<1>3. pc[h] \notin Between => Settled(t)
  <2>1. \A g \in Handlers : target[g] = t => g = h
    BY LifecycleAssumption DEF Safe, JobsPart, OneAtATime
  <2> QED BY <2>1 DEF Settled
<1>4. /\ pc[h] \notin Between => AtRest(t)
      /\ jobs[t] > 0 \/ (t \in started /\ pc[h] \notin Between) => AllUp(t)
  BY <1>1, <1>3 DEF Safe, JobsPart, JobsQuiet, JobsUp
<1>5. pc[h] \in Toggling => t \notin Core
  BY DEF Safe, JobsPart, TogglesAddons
<1>6. t \in Core => t \in started /\ t \notin failed /\ t \notin stopErred
  BY <1>1
     DEF Safe, BootPart, CoreStarted, CoreNotFailed, JobsPart, ErredAddons
<1> QED BY <1>2, <1>4, <1>5, <1>6 DEF AtTarget

\* ... and what a step has to establish of it to keep the invariant.
LEMMA SafeFrame ==
    ASSUME Shape, Safe, NEW h \in Handlers, pc[h] # "idle", Moves(h),
           NEW t \in Modules, target[h] = t,
           UNCHANGED bootVars, OnlyAt(t),
           pc'[h] # "idle" => JobsAt(h)' /\ DocAt(h)',
           pc'[h] \in Toggling => t \notin Core,
           SyncAt(t)',
           pc'[h] \notin Between => AtRest(t)',
           jobs'[t] > 0 \/ (t \in started' /\ pc'[h] \notin Between)
                => AllUp(t)',
           t \in Core => t \in started' /\ t \notin failed' /\ t \notin stopErred'
    PROVE  Safe'
<1>1. phase = "serving" /\ phase' = "serving"
  BY InFlightTarget DEF bootVars
<1>2. JobsPart'
  BY <1>1, JobsFrame DEF Safe
<1>3. DocsPart'
  BY <1>1, DocsFrame DEF Safe
<1>4. CoreNotFailed' /\ CoreStarted'
  <2>1. \A m \in Core : m \in started /\ m \notin failed
    BY <1>1 DEF Safe, BootPart, CoreStarted, CoreNotFailed
  <2>2. \A m \in Core : m \in started' /\ m \notin failed'
    BY <2>1, LifecycleAssumption DEF OnlyAt
  <2> QED BY <2>2 DEF CoreStarted, CoreNotFailed
<1>5. DownClean' /\ InitProgress' /\ StartProgress'
  BY <1>1 DEF DownClean, InitProgress, StartProgress
<1> QED BY <1>2, <1>3, <1>4, <1>5 DEF Safe, BootPart

\* A step that only moves the request on.
LEMMA SafePcOnly ==
    ASSUME Shape, Safe, NEW h \in Handlers, pc[h] # "idle", Moves(h),
           NEW t \in Modules, target[h] = t, pc[h] \notin Between,
           UNCHANGED bootVars,
           UNCHANGED <<failed, started, jobs, docs, infra, lateSeeded, stopErred>>,
           pc'[h] # "idle" => JobsAt(h)' /\ DocAt(h)',
           pc'[h] \in Toggling => t \notin Core
    PROVE  Safe'
<1>1. AtTarget(h, t)
  BY AtTargetHolds
<1>2. OnlyAt(t)
  BY DEF OnlyAt
<1>3. /\ SyncAt(t)'
      /\ AtRest(t)'
      /\ jobs'[t] > 0 \/ t \in started' => AllUp(t)'
      /\ t \in Core => t \in started' /\ t \notin failed' /\ t \notin stopErred'
  BY <1>1 DEF AtTarget, AtRest, SyncAt, IsEnabledDoc, AllUp, Containers
<1> QED BY <1>2, <1>3, SafeFrame

\* The steps of a request that touch neither jobs nor documents.
LEMMA SafeChecks ==
    ASSUME Shape, Safe, NEW h \in Handlers,
           \/ CheckCanDisable(h) \/ CheckFailed(h) \/ RetryInit(h)
           \/ ReadInitialized(h) \/ AppendInitialized(h)
           \/ StartModule(h) \/ StopModule(h)
    PROVE  Safe'
<1>1. HandlerStep(h)
  BY DEF HandlerStep
<1>2. Moves(h) /\ pc[h] # "idle" /\ UNCHANGED bootVars
  BY <1>1, HandlerMoves
<1> DEFINE t == target[h]
<1>3. t \in Modules /\ pc \in [Handlers -> Labels]
  BY <1>2, InFlightTarget DEF Shape, TypeOK
<1>4. AtTarget(h, t)
  BY <1>2, <1>3, AtTargetHolds
<1>5. UNCHANGED <<failed, started, jobs, docs, infra, lateSeeded, stopErred>>
  BY DEF CheckCanDisable, CheckFailed, RetryInit, ReadInitialized,
         AppendInitialized, StartModule, StopModule
<1>6. target' = target \/ pc'[h] = "idle"
  BY <1>3
     DEF CheckCanDisable, CheckFailed, RetryInit, ReadInitialized,
         AppendInitialized, StartModule, StopModule, Goto, Finish
<1>7. \/ pc'[h] = "idle"
      \/ pc[h] = "canDisable" /\ pc'[h] = "disable"
      \/ pc[h] = "checkFailed" /\ pc'[h] \in {"retryInit", "startModule"}
      \/ pc[h] = "retryInit" /\ pc'[h] = "runInit"
      \/ pc[h] = "readInitialized" /\ pc'[h] = "append"
      \/ pc[h] = "append" /\ pc'[h] = "startModule"
      \/ pc[h] = "startModule" /\ pc'[h] = "enabled" /\ t \in started
      \/ pc[h] = "startModule" /\ pc'[h] = "startInfra" /\ t \notin started
      \/ pc[h] = "stopModule" /\ pc'[h] = "stopJobs" /\ t \in started
      \/ pc[h] = "stopModule" /\ pc'[h] = "stopInfra" /\ t \notin started
  BY <1>3
     DEF CheckCanDisable, CheckFailed, RetryInit, ReadInitialized,
         AppendInitialized, StartModule, StopModule, Goto, Finish
<1>8. pc[h] \notin Between
  BY DEF CheckCanDisable, CheckFailed, RetryInit, ReadInitialized,
         AppendInitialized, StartModule, StopModule, Between
<1>9. pc'[h] \in Toggling => t \notin Core
  BY <1>4, <1>7 DEF AtTarget, Toggling, Labels, EnablePath, DisablePath, ConfigPath
<1>10. pc'[h] # "idle" => JobsAt(h)'
  BY <1>4, <1>5, <1>6, <1>7, <1>8 DEF AtTarget, AtRest, JobsAt
<1>11. pc'[h] # "idle" => DocAt(h)'
  BY <1>4, <1>5, <1>6, <1>7 DEF AtTarget, DocAt, EnablePath, DisablePath
<1> QED BY <1>2, <1>3, <1>5, <1>8, <1>9, <1>10, <1>11, SafePcOnly

\* What the two document updates do to the document of t, and to no other.
LEMMA DocsEffect ==
    ASSUME TypeOK, NEW t \in Modules, NEW b \in BOOLEAN,
           docs' = SetFlag(t, b) \/ docs' = WriteEnabled(t, b)
    PROVE  /\ \A n \in Modules \ {t} : docs'[n] = docs[n]
           /\ docs[t] = NoDoc <=> docs'[t] = NoDoc
           /\ docs[t] # NoDoc /\ docs' = SetFlag(t, b) =>
                /\ docs'[t].enabled = docs[t].enabled
                /\ docs'[t].needsRestart = b
           /\ docs[t] # NoDoc /\ docs' = WriteEnabled(t, b) =>
                /\ docs'[t].enabled = b
                /\ docs'[t].needsRestart
<1>1. docs \in [Modules -> Doc \cup {NoDoc}] /\ NoDoc \notin Doc
  BY LifecycleAssumption DEF TypeOK
<1>2. TRUE \in BOOLEAN OBVIOUS
<1>3. CASE docs[t] = NoDoc
  BY <1>1, <1>3 DEF SetFlag, WriteEnabled
<1>4. CASE docs[t] # NoDoc
  <2> DEFINE d == NewDoc(docs[t].enabled, b)
             w == NewDoc(b, TRUE)
  <2>1. docs[t].enabled \in BOOLEAN
    BY <1>1, <1>4, DocFields
  <2>2. /\ d \in Doc /\ d.enabled = docs[t].enabled /\ d.needsRestart = b
        /\ w \in Doc /\ w.enabled = b /\ w.needsRestart = TRUE
    BY <1>2, <2>1, NewDocType
  <2>3. /\ SetFlag(t, b) = [docs EXCEPT ![t] = d]
        /\ WriteEnabled(t, b) = [docs EXCEPT ![t] = w]
    BY <1>4 DEF SetFlag, WriteEnabled
  <2> HIDE DEF d, w
  <2>4. /\ docs' = SetFlag(t, b) => docs'[t] = d
        /\ docs' = WriteEnabled(t, b) => docs'[t] = w
        /\ \A n \in Modules \ {t} : docs'[n] = docs[n]
    BY <1>1, <2>3
  <2> QED BY <1>1, <1>4, <2>2, <2>4
<1> QED BY <1>3, <1>4

\* A step that writes the document and leaves the processes alone.
LEMMA SafeDocsOnly ==
    ASSUME Shape, Safe, NEW h \in Handlers, pc[h] # "idle", Moves(h),
           NEW t \in Modules, target[h] = t, pc[h] \notin Between,
           pc'[h] \notin Toggling \/ pc[h] \in Toggling,
           UNCHANGED bootVars,
           UNCHANGED <<failed, started, jobs, infra, stopErred>>,
           \A n \in Modules \ {t} : /\ docs'[n] = docs[n]
                                    /\ n \in lateSeeded' <=> n \in lateSeeded,
           SyncAt(t)',
           pc'[h] # "idle" => JobsAt(h)' /\ DocAt(h)'
    PROVE  Safe'
<1>1. AtTarget(h, t)
  BY AtTargetHolds
<1>2. OnlyAt(t)
  BY DEF OnlyAt
<1>3. /\ AtRest(t)'
      /\ jobs'[t] > 0 \/ t \in started' => AllUp(t)'
      /\ t \in Core => t \in started' /\ t \notin failed' /\ t \notin stopErred'
      /\ pc'[h] \in Toggling => t \notin Core
  BY <1>1 DEF AtTarget, AtRest, AllUp, Containers
<1> QED BY <1>2, <1>3, SafeFrame

\* The write of enabled, done, half done or failed.
LEMMA SafeUpdateEnabled ==
    ASSUME Shape, Safe, NEW h \in Handlers, UpdateEnabled(h),
           NEW t \in Modules, target[h] = t
    PROVE  Safe'
<1>1. Moves(h) /\ pc[h] # "idle" /\ UNCHANGED bootVars
  BY HandlerMoves DEF HandlerStep
<1> DEFINE e == pc[h] = "enable"
<1>2. t \in Modules /\ pc \in [Handlers -> Labels] /\ TypeOK
  BY <1>1, InFlightTarget DEF Shape, TypeOK
<1>3. AtTarget(h, t)
  BY <1>1, <1>2, AtTargetHolds
<1>4. pc[h] \in Toggling /\ pc[h] \notin Between
  BY DEF UpdateEnabled, Toggling, Labels, ConfigPath, Between
<1>5. UNCHANGED <<failed, started, jobs, infra, stopErred>>
  BY DEF UpdateEnabled
<1>6. ASSUME UNCHANGED <<docs, lateSeeded>>, pc'[h] = "idle"
      PROVE  SyncAt(t)'
  BY <1>3, <1>5, <1>6 DEF AtTarget, SyncAt, IsEnabledDoc
<1>7. ASSUME docs' = WriteEnabled(t, e),
             \/ pc'[h] = "idle"
             \/ e /\ pc'[h] = "checkFailed" /\ target' = target
             \/ ~e /\ pc'[h] = "stopModule" /\ target' = target
      PROVE  /\ \A n \in Modules \ {t} : docs'[n] = docs[n]
             /\ SyncAt(t)'
             /\ pc'[h] # "idle" => JobsAt(h)' /\ DocAt(h)'
  <2>1. e \in BOOLEAN OBVIOUS
  <2>2. /\ \A n \in Modules \ {t} : docs'[n] = docs[n]
        /\ \/ docs'[t] = NoDoc
           \/ docs'[t].enabled = e /\ docs'[t].needsRestart
    BY <1>2, <1>7, <2>1, DocsEffect
  <2>3. SyncAt(t)'
    BY <2>2 DEF SyncAt, IsEnabledDoc
  <2>4. pc'[h] # "idle" => JobsAt(h)' /\ DocAt(h)'
    BY <1>7, <2>2 DEF JobsAt, DocAt, EnablePath, DisablePath
  <2> QED BY <2>2, <2>3, <2>4
<1>8. \/ UNCHANGED <<docs, lateSeeded>> /\ pc'[h] = "idle"
      \/ /\ docs' = WriteEnabled(t, e) /\ lateSeeded' = lateSeeded \ {t}
         /\ \/ pc'[h] = "idle"
            \/ e /\ pc'[h] = "checkFailed" /\ target' = target
            \/ ~e /\ pc'[h] = "stopModule" /\ target' = target
  BY <1>2 DEF UpdateEnabled, Goto, Finish
<1>9. /\ \A n \in Modules \ {t} : /\ docs'[n] = docs[n]
                                  /\ n \in lateSeeded' <=> n \in lateSeeded
      /\ SyncAt(t)'
      /\ pc'[h] # "idle" => JobsAt(h)' /\ DocAt(h)'
  BY <1>6, <1>7, <1>8
<1> HIDE DEF e
<1> QED BY <1>1, <1>4, <1>5, <1>9, SafeDocsOnly

\* The steps that write needsRestart only.
LEMMA SafeFlag ==
    ASSUME Shape, Safe, NEW h \in Handlers,
           ClearNeedsRestart(h) \/ UpdateConfig(h) \/ HotClear(h),
           NEW t \in Modules, target[h] = t
    PROVE  Safe'
<1>1. Moves(h) /\ pc[h] # "idle" /\ UNCHANGED bootVars
  BY HandlerMoves DEF HandlerStep
<1>2. t \in Modules /\ pc \in [Handlers -> Labels] /\ TypeOK
  BY <1>1, InFlightTarget DEF Shape, TypeOK
<1>3. AtTarget(h, t)
  BY <1>1, <1>2, AtTargetHolds
<1>4. /\ pc[h] \notin Between
      /\ UNCHANGED <<failed, started, jobs, infra, lateSeeded, stopErred>>
  BY DEF ClearNeedsRestart, UpdateConfig, HotClear, Between
<1>5. \/ pc'[h] = "idle"
      \/ pc'[h] = "toggledConfig" /\ target' = target
      \/ pc'[h] = "hotClear" /\ t \in HotReload /\ target' = target
  BY <1>2 DEF ClearNeedsRestart, UpdateConfig, HotClear, Goto, Finish
<1>6. /\ pc'[h] \notin Toggling
      /\ pc'[h] # "idle" => JobsAt(h)' /\ DocAt(h)'
  BY <1>5 DEF Toggling, ConfigPath, JobsAt, DocAt, EnablePath, DisablePath
<1>7. TRUE \in BOOLEAN /\ FALSE \in BOOLEAN OBVIOUS
<1>8. \/ UNCHANGED docs
      \/ docs' = SetFlag(t, TRUE)
      \/ /\ docs' = SetFlag(t, FALSE)
         /\ pc[h] \in {"enabled", "disabled", "stopFailed", "hotClear"}
  BY DEF ClearNeedsRestart, UpdateConfig, HotClear
<1>9. SyncAt(t)' /\ \A n \in Modules \ {t} : docs'[n] = docs[n]
  <2>1. CASE UNCHANGED docs
    BY <1>3, <1>4, <2>1 DEF AtTarget, SyncAt, IsEnabledDoc
  <2>2. CASE docs' = SetFlag(t, TRUE)
    <3>1. /\ \A n \in Modules \ {t} : docs'[n] = docs[n]
          /\ docs'[t] = NoDoc \/ docs'[t].needsRestart = TRUE
      BY <1>2, <1>7, <2>2, DocsEffect
    <3> QED BY <3>1 DEF SyncAt, IsEnabledDoc
  <2>3. CASE /\ docs' = SetFlag(t, FALSE)
             /\ pc[h] \in {"enabled", "disabled", "stopFailed", "hotClear"}
    <3>1. /\ \A n \in Modules \ {t} : docs'[n] = docs[n]
          /\ docs[t] = NoDoc <=> docs'[t] = NoDoc
          /\ docs[t] # NoDoc => docs'[t].enabled = docs[t].enabled
      BY <1>2, <1>7, <2>3, DocsEffect
    <3>2. CASE t \in HotReload \cup lateSeeded \cup started
      BY <1>4, <3>1, <3>2 DEF SyncAt
    <3>3. CASE docs[t] = NoDoc \/ ~docs[t].enabled
      BY <3>1, <3>3 DEF SyncAt, IsEnabledDoc
    <3> QED
      BY <1>3, <2>3, <3>1, <3>2, <3>3 DEF AtTarget, JobsAt, DocAt, DisablePath
  <2> QED BY <1>8, <2>1, <2>2, <2>3
<1> QED BY <1>1, <1>2, <1>4, <1>6, <1>9, SafeDocsOnly

\* Init of a failed module: the document is still marked for a restart.
LEMMA SafeRunInit ==
    ASSUME Shape, Safe, NEW h \in Handlers, RunInit(h),
           NEW t \in Modules, target[h] = t
    PROVE  Safe'
<1>1. Moves(h) /\ pc[h] # "idle" /\ UNCHANGED bootVars
  BY HandlerMoves DEF HandlerStep
<1>2. /\ pc \in [Handlers -> Labels] /\ started \subseteq Modules
      /\ jobs \in [Modules -> Nat] /\ infra \in [Modules -> SUBSET Nat]
  BY DEF Shape, TypeOK
<1>3. AtTarget(h, t)
  BY <1>1, AtTargetHolds
<1>4. /\ pc[h] = "runInit"
      /\ UNCHANGED <<started, jobs, docs, infra, lateSeeded, stopErred>>
      /\ \/ failed' = failed \ {t} /\ pc'[h] = "readInitialized" /\ target' = target
         \/ failed' = failed \cup {t} /\ pc'[h] = "idle"
  BY <1>2 DEF RunInit, Goto, Finish
<1>5. /\ t \notin Core /\ (jobs[t] > 0 \/ t \in started => AllUp(t))
      /\ AtRest(t)
      /\ docs[t] = NoDoc \/ t \in lateSeeded \/ docs[t].needsRestart
  BY <1>3, <1>4
     DEF AtTarget, DocAt, EnablePath, DisablePath, ConfigPath, Toggling, Labels, Between
<1>6. OnlyAt(t)
  BY <1>4 DEF OnlyAt
<1>7. SyncAt(t)'
  BY <1>4, <1>5 DEF SyncAt, IsEnabledDoc
<1>8. pc'[h] # "idle" => JobsAt(h)' /\ DocAt(h)'
  BY <1>4, <1>5 DEF JobsAt, DocAt, EnablePath, DisablePath
<1>9. /\ AtRest(t)'
      /\ jobs'[t] > 0 \/ t \in started' => AllUp(t)'
  BY <1>4, <1>5 DEF AtRest, AllUp, Containers
<1> QED BY <1>1, <1>5, <1>6, <1>7, <1>8, <1>9, SafeFrame

\* The containers of a module that is not started only grow.
LEMMA SafeStartInfra ==
    ASSUME Shape, Safe, NEW h \in Handlers, StartInfra(h),
           NEW t \in Modules, target[h] = t
    PROVE  Safe'
<1>1. Moves(h) /\ pc[h] # "idle" /\ UNCHANGED bootVars
  BY HandlerMoves DEF HandlerStep
<1>2. /\ pc \in [Handlers -> Labels] /\ started \subseteq Modules
      /\ jobs \in [Modules -> Nat] /\ infra \in [Modules -> SUBSET Nat]
  BY DEF Shape, TypeOK
<1>3. AtTarget(h, t)
  BY <1>1, AtTargetHolds
<1>4. /\ pc[h] = "startInfra"
      /\ UNCHANGED <<failed, started, jobs, docs, lateSeeded, stopErred>>
      /\ \/ /\ infra' = [infra EXCEPT ![t] = @ \cup Containers(t)]
            /\ pc'[h] = "startJobs" /\ target' = target
         \/ /\ \E c \in SUBSET Nat : infra' = [infra EXCEPT ![t] = @ \cup c]
            /\ pc'[h] = "idle"
  <2>1. \A k \in 0 .. InfraContainers[t] : 1 .. k \in SUBSET Nat
    OBVIOUS
  <2> QED BY <1>2, <2>1 DEF StartInfra, Goto, Finish
<1>5. /\ t \notin Core /\ t \notin started /\ jobs[t] = 0
      /\ docs[t] = NoDoc \/ t \in lateSeeded \/ docs[t].needsRestart
  BY <1>3, <1>4
     DEF AtTarget, AtRest, JobsAt, DocAt, EnablePath, DisablePath, ConfigPath, Toggling,
         Labels, Between
<1>6. OnlyAt(t)
  BY <1>2, <1>4 DEF OnlyAt
<1>7. SyncAt(t)'
  BY <1>4, <1>5 DEF SyncAt, IsEnabledDoc
<1>8. pc'[h] # "idle" => AllUp(t)'
  BY <1>2, <1>4 DEF AllUp, Containers
<1>9. pc'[h] # "idle" => JobsAt(h)' /\ DocAt(h)'
  BY <1>4, <1>5, <1>8 DEF JobsAt, DocAt, EnablePath, DisablePath
<1>10. AtRest(t)' /\ ~(jobs'[t] > 0) /\ t \notin started'
  BY <1>4, <1>5 DEF AtRest
<1> QED BY <1>1, <1>5, <1>6, <1>7, <1>9, <1>10, SafeFrame

\* Start over all containers, or their rollback with no job running.
LEMMA SafeStartJobs ==
    ASSUME Shape, Safe, NEW h \in Handlers, StartJobs(h),
           NEW t \in Modules, target[h] = t
    PROVE  Safe'
<1>1. Moves(h) /\ pc[h] # "idle" /\ UNCHANGED bootVars
  BY HandlerMoves DEF HandlerStep
<1>2. /\ pc \in [Handlers -> Labels] /\ started \subseteq Modules
      /\ jobs \in [Modules -> Nat] /\ infra \in [Modules -> SUBSET Nat]
  BY DEF Shape, TypeOK
<1>3. AtTarget(h, t)
  BY <1>1, AtTargetHolds
<1>4. /\ pc[h] = "startJobs"
      /\ UNCHANGED <<failed, started, docs, lateSeeded, stopErred>>
      /\ \/ /\ jobs' = [jobs EXCEPT ![t] = @ + 1] /\ UNCHANGED infra
            /\ pc'[h] = "commitStart" /\ target' = target
         \/ /\ \E up \in SUBSET infra[t] : infra' = [infra EXCEPT ![t] = up]
            /\ UNCHANGED jobs /\ pc'[h] = "idle"
  BY <1>2 DEF StartJobs, Goto, Finish
<1>5. /\ t \notin Core /\ t \notin started /\ jobs[t] = 0 /\ AllUp(t)
      /\ docs[t] = NoDoc \/ t \in lateSeeded \/ docs[t].needsRestart
  BY <1>3, <1>4
     DEF AtTarget, AtRest, JobsAt, DocAt, EnablePath, DisablePath, ConfigPath, Toggling,
         Labels, Between
<1>6. OnlyAt(t)
  BY <1>2, <1>4 DEF OnlyAt
<1>7. SyncAt(t)'
  BY <1>4, <1>5 DEF SyncAt, IsEnabledDoc
<1>8. pc'[h] # "idle" => jobs'[t] = 1 /\ AllUp(t)'
  BY <1>2, <1>4, <1>5 DEF AllUp, Containers
<1>9. pc'[h] # "idle" => JobsAt(h)' /\ DocAt(h)'
  BY <1>4, <1>5, <1>8 DEF JobsAt, DocAt, EnablePath, DisablePath
<1>10. pc'[h] \notin Between =>
         AtRest(t)' /\ ~(jobs'[t] > 0)
  BY <1>2, <1>4, <1>5 DEF AtRest, Between
<1>11. (jobs'[t] > 0 => AllUp(t)') /\ t \notin started'
  BY <1>4, <1>5, <1>8
<1> QED BY <1>1, <1>5, <1>6, <1>7, <1>9, <1>10, <1>11, SafeFrame

\* The flag catches up with the job that Start left running.
LEMMA SafeCommitStart ==
    ASSUME Shape, Safe, NEW h \in Handlers, CommitStart(h),
           NEW t \in Modules, target[h] = t
    PROVE  Safe'
<1>1. Moves(h) /\ pc[h] # "idle" /\ UNCHANGED bootVars
  BY HandlerMoves DEF HandlerStep
<1>2. /\ pc \in [Handlers -> Labels] /\ started \subseteq Modules
      /\ jobs \in [Modules -> Nat] /\ infra \in [Modules -> SUBSET Nat]
  BY DEF Shape, TypeOK
<1>3. AtTarget(h, t)
  BY <1>1, AtTargetHolds
<1>4. /\ pc[h] = "commitStart" /\ pc'[h] = "enabled" /\ target' = target
      /\ started' = started \cup {t} /\ failed' = failed \ {t}
      /\ UNCHANGED <<jobs, docs, infra, lateSeeded, stopErred>>
  BY <1>2 DEF CommitStart, Goto
<1>5. /\ t \notin Core /\ jobs[t] = 1 /\ AllUp(t)
  BY <1>3, <1>4
     DEF AtTarget, JobsAt, EnablePath, DisablePath, ConfigPath, Toggling, Labels
<1>6. OnlyAt(t)
  BY <1>4 DEF OnlyAt
<1>7. SyncAt(t)'
  BY <1>4 DEF SyncAt
<1>8. JobsAt(h)' /\ DocAt(h)' /\ AllUp(t)' /\ AtRest(t)'
  BY <1>4, <1>5
     DEF JobsAt, DocAt, EnablePath, DisablePath, AllUp, Containers, AtRest
<1> QED BY <1>1, <1>4, <1>5, <1>6, <1>7, <1>8, SafeFrame

\* Stop ends the one job; when it fails it may have ended it too, and the
\* containers stay up.
LEMMA SafeStopJobs ==
    ASSUME Shape, Safe, NEW h \in Handlers, StopJobs(h),
           NEW t \in Modules, target[h] = t
    PROVE  Safe'
<1>1. Moves(h) /\ pc[h] # "idle" /\ UNCHANGED bootVars
  BY HandlerMoves DEF HandlerStep
<1>2. /\ pc \in [Handlers -> Labels] /\ started \subseteq Modules
      /\ jobs \in [Modules -> Nat] /\ infra \in [Modules -> SUBSET Nat]
  BY DEF Shape, TypeOK
<1>3. AtTarget(h, t)
  BY <1>1, AtTargetHolds
<1>4. /\ pc[h] = "stopJobs" /\ target' = target
      /\ UNCHANGED <<failed, started, docs, infra, lateSeeded>>
      /\ \/ /\ jobs' = OneLess(t) /\ pc'[h] = "stopInfra"
            /\ UNCHANGED stopErred
         \/ /\ jobs' \in {jobs, OneLess(t)} /\ pc'[h] = "stopFailed"
            /\ stopErred' = stopErred \cup {t}
  BY <1>2 DEF StopJobs, Goto
<1>5. /\ t \notin Core /\ t \in started /\ jobs[t] \in {0, 1} /\ AllUp(t)
      /\ AtRest(t)
      /\ docs[t] = NoDoc \/ t \in lateSeeded \/ ~docs[t].enabled
  BY <1>3, <1>4
     DEF AtTarget, AtRest, JobsAt, DocAt, EnablePath, DisablePath, ConfigPath, Toggling,
         Labels, Between
<1>6. /\ pc'[h] = "stopInfra" => jobs'[t] = 0
      /\ pc'[h] = "stopFailed" => AtRest(t)'
  BY <1>2, <1>4, <1>5 DEF OneLess, AtRest
<1>7. OnlyAt(t)
  BY <1>2, <1>4 DEF OnlyAt, OneLess
<1>8. SyncAt(t)'
  BY <1>4, <1>5 DEF SyncAt, IsEnabledDoc
<1>9. JobsAt(h)' /\ DocAt(h)'
  BY <1>4, <1>5, <1>6 DEF JobsAt, DocAt, EnablePath, DisablePath
<1>10. (pc'[h] \notin Between => AtRest(t)') /\ AllUp(t)'
  BY <1>4, <1>5, <1>6 DEF Between, AllUp, Containers
<1> QED BY <1>1, <1>5, <1>7, <1>8, <1>9, <1>10, SafeFrame

\* The containers go once no job needs them.
LEMMA SafeStopInfra ==
    ASSUME Shape, Safe, NEW h \in Handlers, StopInfra(h),
           NEW t \in Modules, target[h] = t
    PROVE  Safe'
<1>1. Moves(h) /\ pc[h] # "idle" /\ UNCHANGED bootVars
  BY HandlerMoves DEF HandlerStep
<1>2. /\ pc \in [Handlers -> Labels] /\ started \subseteq Modules
      /\ jobs \in [Modules -> Nat] /\ infra \in [Modules -> SUBSET Nat]
  BY DEF Shape, TypeOK
<1>3. AtTarget(h, t)
  BY <1>1, AtTargetHolds
<1>4. /\ pc[h] = "stopInfra" /\ pc'[h] = "commitStop" /\ target' = target
      /\ UNCHANGED <<failed, started, jobs, docs, lateSeeded, stopErred>>
      /\ \E up \in SUBSET infra[t] : infra' = [infra EXCEPT ![t] = up]
  BY <1>2 DEF StopInfra, Goto
<1>5. /\ t \notin Core /\ jobs[t] = 0
      /\ docs[t] = NoDoc \/ t \in lateSeeded \/ ~docs[t].enabled
  BY <1>3, <1>4
     DEF AtTarget, JobsAt, DocAt, EnablePath, DisablePath, ConfigPath, Toggling,
         Labels, Between
<1>6. OnlyAt(t)
  BY <1>2, <1>4 DEF OnlyAt
<1>7. SyncAt(t)'
  BY <1>4, <1>5 DEF SyncAt, IsEnabledDoc
<1>8. JobsAt(h)' /\ DocAt(h)'
  BY <1>4, <1>5 DEF JobsAt, DocAt, EnablePath, DisablePath
<1>9. pc'[h] \in Between /\ ~(jobs'[t] > 0)
  BY <1>4, <1>5 DEF Between
<1> QED BY <1>1, <1>5, <1>6, <1>7, <1>8, <1>9, SafeFrame

\* The flag catches up with the job that Stop ended.
LEMMA SafeCommitStop ==
    ASSUME Shape, Safe, NEW h \in Handlers, CommitStop(h),
           NEW t \in Modules, target[h] = t
    PROVE  Safe'
<1>1. Moves(h) /\ pc[h] # "idle" /\ UNCHANGED bootVars
  BY HandlerMoves DEF HandlerStep
<1>2. /\ pc \in [Handlers -> Labels] /\ started \subseteq Modules
      /\ jobs \in [Modules -> Nat] /\ infra \in [Modules -> SUBSET Nat]
  BY DEF Shape, TypeOK
<1>3. AtTarget(h, t)
  BY <1>1, AtTargetHolds
<1>4. /\ pc[h] = "commitStop" /\ pc'[h] = "disabled" /\ target' = target
      /\ started' = started \ {t} /\ failed' = failed \ {t}
      /\ stopErred' = stopErred \ {t}
      /\ UNCHANGED <<jobs, docs, infra, lateSeeded>>
  BY <1>2 DEF CommitStop, Goto
<1>5. /\ t \notin Core /\ jobs[t] = 0
      /\ docs[t] = NoDoc \/ t \in lateSeeded \/ ~docs[t].enabled
  BY <1>3, <1>4
     DEF AtTarget, JobsAt, DocAt, EnablePath, DisablePath, ConfigPath, Toggling,
         Labels, Between
<1>6. OnlyAt(t)
  BY <1>4 DEF OnlyAt
<1>7. SyncAt(t)'
  BY <1>4, <1>5 DEF SyncAt, IsEnabledDoc
<1>8. JobsAt(h)' /\ DocAt(h)'
  BY <1>4, <1>5 DEF JobsAt, DocAt, EnablePath, DisablePath
<1>9. AtRest(t)' /\ t \notin started' /\ ~(jobs'[t] > 0)
  BY <1>4, <1>5 DEF AtRest
<1> QED BY <1>1, <1>5, <1>6, <1>7, <1>8, <1>9, SafeFrame

\* Every step of a request.
LEMMA SafeHandler ==
    ASSUME Shape, Safe, NEW h \in Handlers, HandlerStep(h)
    PROVE  Safe'
<1>1. pc[h] # "idle"
  BY HandlerMoves
<1>2. target[h] \in Modules
  BY <1>1, InFlightTarget
<1>3. CASE \/ CheckCanDisable(h) \/ CheckFailed(h) \/ RetryInit(h)
           \/ ReadInitialized(h) \/ AppendInitialized(h)
           \/ StartModule(h) \/ StopModule(h)
  BY <1>3, SafeChecks
<1>4. CASE UpdateEnabled(h)
  BY <1>2, <1>4, SafeUpdateEnabled
<1>5. CASE ClearNeedsRestart(h) \/ UpdateConfig(h) \/ HotClear(h)
  BY <1>2, <1>5, SafeFlag
<1>6. CASE RunInit(h)  BY <1>2, <1>6, SafeRunInit
<1>7. CASE StartInfra(h)  BY <1>2, <1>7, SafeStartInfra
<1>8. CASE StartJobs(h)  BY <1>2, <1>8, SafeStartJobs
<1>9. CASE CommitStart(h)  BY <1>2, <1>9, SafeCommitStart
<1>10. CASE StopJobs(h)  BY <1>2, <1>10, SafeStopJobs
<1>11. CASE StopInfra(h)  BY <1>2, <1>11, SafeStopInfra
<1>12. CASE CommitStop(h)  BY <1>2, <1>12, SafeCommitStop
<1> QED
  BY <1>3, <1>4, <1>5, <1>6, <1>7, <1>8, <1>9, <1>10, <1>11, <1>12
     DEF HandlerStep

(***************************************************************************)
(* New requests and lazy seeding.                                          *)
(***************************************************************************)
LEMMA SafeRequest ==
    ASSUME SerializedToggles, Shape, Safe,
           NEW h \in Handlers, NEW t \in Modules,
           NEW l \in {"enable", "canDisable", "config"},
           l # "config" => t \notin Core,
           Request(h, t, l)
    PROVE  Safe'
<1> USE LifecycleAssumption
<1>1. /\ phase = "serving" /\ pc[h] = "idle"
      /\ \A g \in Handlers : target[g] # t
      /\ pc' = [pc EXCEPT ![h] = l] /\ target' = [target EXCEPT ![h] = t]
      /\ UNCHANGED <<phase, idx, startSet, initialized, failed, started, jobs,
                     lateSeeded, stopErred, docs, infra>>
  BY DEF Request, bootVars
<1>2. /\ pc \in [Handlers -> Labels]
      /\ target \in [Handlers -> Modules \cup {NoModule}]
  BY DEF Shape, TypeOK
<1>3. /\ pc'[h] = l /\ target'[h] = t
      /\ \A g \in Handlers \ {h} : pc'[g] = pc[g] /\ target'[g] = target[g]
  BY <1>1, <1>2
<1>4. BootPart'
  BY <1>1 DEF Safe, BootPart, DownClean, CoreNotFailed, InitProgress,
              StartProgress, CoreStarted
<1>5. OneAtATime'
  BY <1>1, <1>3 DEF Safe, JobsPart, OneAtATime
<1>6. TogglesAddons'
  BY <1>3 DEF Safe, JobsPart, TogglesAddons, Toggling, ConfigPath
<1>7. \A m \in Modules : Settled(m)' => Settled(m)
  BY <1>1, <1>3 DEF Settled, Between
<1>8. JobsQuiet' /\ JobsUp' /\ ErredAddons'
  BY <1>1, <1>7
     DEF Safe, JobsPart, JobsQuiet, AtRest, JobsUp, AllUp, Containers,
         ErredAddons
<1>9. \A g \in Handlers : JobsAt(g)'
  <2>1. JobsAt(h)'
    BY <1>3 DEF JobsAt
  <2>2. ASSUME NEW g \in Handlers \ {h} PROVE JobsAt(g)'
    <3>1. JobsAt(g)
      BY DEF Safe, JobsPart
    <3> QED BY <1>1, <1>3, <3>1 DEF JobsAt, AllUp, Containers
  <2> QED BY <2>1, <2>2
<1>10. EnabledInSync'
  BY <1>1 DEF Safe, DocsPart, EnabledInSync, IsEnabledDoc
<1>11. \A g \in Handlers : DocAt(g)'
  <2>1. DocAt(h)'
    BY <1>3 DEF DocAt, EnablePath, DisablePath
  <2>2. ASSUME NEW g \in Handlers \ {h} PROVE DocAt(g)'
    <3>1. DocAt(g)
      BY DEF Safe, DocsPart
    <3> QED BY <1>1, <1>3, <3>1 DEF DocAt
  <2> QED BY <2>1, <2>2
<1> QED
  BY <1>4, <1>5, <1>6, <1>8, <1>9, <1>10, <1>11
     DEF Safe, JobsPart, DocsPart

\* lazySeed may write an enabled document over anything, but says so.
LEMMA SafeSeeding ==
    ASSUME Shape, Safe, NEW t \in Modules, FindMissing(t) \/ LazySeed(t)
    PROVE  Safe'
<1>1. /\ phase = "serving"
      /\ UNCHANGED <<phase, idx, startSet, initialized, failed, started, jobs,
                     pc, target, infra, stopErred>>
  BY DEF FindMissing, LazySeed, bootVars, Shape, QuietOutside
<1>2. /\ \A m \in Modules \ {t} : docs'[m] = docs[m]
      /\ lateSeeded \subseteq lateSeeded'
      /\ docs' = docs \/ t \in lateSeeded'
  BY DEF FindMissing, LazySeed, Shape, TypeOK
<1>3. BootPart'
  BY <1>1 DEF Safe, BootPart, DownClean, CoreNotFailed, InitProgress,
              StartProgress, CoreStarted
<1>4. JobsPart'
  BY <1>1
     DEF Safe, JobsPart, OneAtATime, TogglesAddons, Settled, JobsQuiet, AtRest,
         JobsUp, JobsAt, AllUp, Containers, ErredAddons
<1>5. EnabledInSync'
  BY <1>1, <1>2 DEF Safe, DocsPart, EnabledInSync, IsEnabledDoc
<1>6. \A g \in Handlers : DocAt(g)'
  <2> SUFFICES ASSUME NEW g \in Handlers, pc[g] # "idle" PROVE DocAt(g)'
    BY <1>1 DEF DocAt, EnablePath, DisablePath
  <2>1. DocAt(g) /\ target[g] \in Modules
    BY InFlightTarget DEF Safe, DocsPart
  <2> QED BY <1>1, <1>2, <2>1 DEF DocAt
<1> QED BY <1>3, <1>4, <1>5, <1>6 DEF Safe, DocsPart

\* New requests, one per module at a time, and lazy seeding.
LEMMA SafeClients ==
    ASSUME SerializedToggles, Shape, Safe, Requests \/ Seeding
    PROVE  Safe'
<1>1. CASE Requests
  <2>1. PICK h \in Handlers, m \in Modules :
          RequestEnable(h, m) \/ RequestDisable(h, m) \/ RequestConfig(h, m)
    BY <1>1 DEF Requests
  <2> QED BY <2>1, SafeRequest DEF RequestEnable, RequestDisable, RequestConfig
<1>2. CASE Seeding
  BY <1>2, SafeSeeding DEF Seeding
<1> QED BY <1>1, <1>2

\* Safe is inductive, given Shape.
LEMMA SafeNext == SerializedToggles /\ Shape /\ Safe /\ [Next]_vars => Safe'
<1> SUFFICES ASSUME SerializedToggles, Shape, Safe, [Next]_vars PROVE Safe'
  OBVIOUS
<1>0. Shape'
  BY ShapeNext
<1>1. CASE UNCHANGED vars
  BY <1>1
     DEF vars, memory, Safe, BootPart, DownClean, CoreNotFailed, InitProgress,
         StartProgress, CoreStarted, JobsPart, OneAtATime, TogglesAddons,
         Settled, JobsQuiet, AtRest, JobsUp, JobsAt, AllUp, Containers,
         ErredAddons, DocsPart, EnabledInSync, DocAt, IsEnabledDoc
<1>2. CASE Crash \/ Exit
  BY <1>2, SafeLost DEF Crash, Exit
<1>3. CASE Wipe
  BY <1>0, <1>3, SafeWipe
<1>4. CASE Boot \/ InitOk \/ InitFail \/ BeginStartAll
  BY <1>0, <1>4, SafeInitAll
<1>5. CASE StartSkip \/ StartOk \/ StartFail \/ BootDone
  BY <1>0, <1>5, SafeStartAll
<1>6. CASE BeginStopAll \/ StopSkip \/ StopNext
  BY <1>0, <1>6, SafeStopAll
<1>7. CASE Requests \/ Seeding
  BY <1>7, SafeClients
<1>8. CASE \E h \in Handlers : HandlerStep(h)
  BY <1>8, SafeHandler
<1> QED
  BY <1>1, <1>2, <1>3, <1>4, <1>5, <1>6, <1>7, <1>8
     DEF Next, BootStep, StopStep, Requests, Seeding

\* The inductive invariant holds always.
LEMMA IndHolds ==
    ASSUME SerializedToggles
    PROVE  Spec => [](Shape /\ Safe)
<1>1. Init => Shape /\ Safe
  BY ShapeInit, SafeInit
<1>2. (Shape /\ Safe) /\ [Next]_vars => (Shape /\ Safe)'
  BY ShapeNext, SafeNext
<1> QED BY <1>1, <1>2, PTL DEF Spec

\* The whole invariant, which the run lifecycle checks on a small
\* instance: what boot, the processes and the documents look like at every
\* step of every request (registry.go, handler.go UpdateModule).
THEOREM Invariant ==
    ASSUME SerializedToggles
    PROVE  Spec => []Ind
<1>1. Shape /\ Safe => Ind
  BY DEF Safe, Ind
<1> QED BY <1>1, IndHolds, PTL

\* Started flag and running jobs agree for every module nobody is toggling:
\* no order of boot, retry, rollback, stop and crash orphans a job, and only a
\* Stop that returned an error leaves the flag set over jobs that have ended.
THEOREM JobsMatch ==
    ASSUME SerializedToggles
    PROVE  Spec => []JobsMatchStarted
<1>1. Shape /\ Safe => JobsMatchStarted
  BY DEF Safe, JobsPart, JobsQuiet, Settled, JobsMatchStarted, InFlight
<1> QED BY <1>1, IndHolds, PTL

\* Jobs run only over all the containers their module declares
\* (startInfraContainers before Start, Stop before stopInfraContainers).
THEOREM ContainersUnderJobs ==
    ASSUME SerializedToggles
    PROVE  Spec => []JobsHaveContainers
<1>1. Shape /\ Safe => JobsHaveContainers
  BY DEF Safe, JobsPart, JobsUp, JobsHaveContainers
<1> QED BY <1>1, IndHolds, PTL

\* A document that says enabled, with no restart pending, is not lying.
THEOREM EnabledIsStarted ==
    ASSUME SerializedToggles
    PROVE  Spec => []EnabledInSync
<1>1. Shape /\ Safe => EnabledInSync
  BY DEF Safe, DocsPart
<1> QED BY <1>1, IndHolds, PTL

\* No request takes a core module down or starts it twice.
THEOREM CoreKeepsRunning ==
    ASSUME SerializedToggles
    PROVE  Spec => []CoreUntouched
<1>1. Shape /\ Safe => CoreUntouched
  <2> SUFFICES ASSUME Shape, Safe, phase = "serving", NEW m \in Core
               PROVE  m \in started \ failed /\ jobs[m] = 1 /\ AllUp(m)
    BY DEF CoreUntouched
  <2>1. m \in Modules
    BY LifecycleAssumption
  <2>2. m \in started \ failed
    BY DEF Safe, BootPart, CoreStarted, CoreNotFailed
  <2>3. Settled(m)
    BY DEF Safe, JobsPart, TogglesAddons, Settled, Between, Toggling, Labels,
           EnablePath, DisablePath, ConfigPath
  <2>4. jobs[m] = 1
    BY <2>1, <2>2, <2>3 DEF Safe, JobsPart, JobsQuiet, AtRest, ErredAddons
  <2> QED BY <2>1, <2>2, <2>4 DEF Safe, JobsPart, JobsUp
<1> QED BY <1>1, IndHolds, PTL

\* A request answers success only in the state it reports; after a Stop that
\* returned an error "enabled" reports the started flag, not the jobs.
THEOREM HonestReplies ==
    ASSUME SerializedToggles
    PROVE  Spec => []RepliesHonest
<1>1. Shape /\ Safe => RepliesHonest
  <2> SUFFICES ASSUME Shape, Safe,
                      NEW h \in Handlers, pc[h] \in {"enabled", "disabled"}
               PROVE  /\ pc[h] = "enabled" => /\ target[h] \in started
                                              /\ AtRest(target[h])
                                              /\ AllUp(target[h])
                      /\ pc[h] = "disabled" => /\ target[h] \notin started
                                               /\ jobs[target[h]] = 0
    BY DEF RepliesHonest
  <2>1. AtTarget(h, target[h])
    BY InFlightTarget, AtTargetHolds
  <2> QED BY <2>1 DEF AtTarget, AtRest, JobsAt, Between
<1> QED BY <1>1, IndHolds, PTL

\* The process begins to serve in one way only, at the end of StartAll.
LEMMA BeginsToServe ==
    ASSUME Shape, Next, phase # "serving", phase' = "serving"
    PROVE  BootDone
<1>1. \A h \in Handlers : ~HandlerStep(h)
  BY HandlerMoves, InFlightTarget
<1>2. ~Requests /\ ~Seeding
  BY DEF Requests, Seeding, RequestEnable, RequestDisable, RequestConfig,
         Request, FindMissing, LazySeed, bootVars
<1>3. ~Crash /\ ~Exit /\ ~Wipe
  BY DEF Crash, Exit, Wipe, LoseMemory, memory
<1>4. ~BeginStopAll /\ ~StopSkip /\ ~StopNext
  BY DEF BeginStopAll, StopSkip, StopNext
<1>5. ~Boot /\ ~InitOk /\ ~InitFail /\ ~BeginStartAll /\ ~StartSkip
      /\ ~StartOk /\ ~StartFail
  BY DEF Boot, InitOk, InitFail, BeginStartAll, StartSkip, StartOk, StartFail,
         LoseMemory
<1> QED
  BY <1>1, <1>2, <1>3, <1>4, <1>5 DEF Next, BootStep, StopStep, Requests, Seeding

\* StartAll leaves every enabled module started or reported failed, and no
\* disabled addon started, whatever failed on the way.
THEOREM BootActsOnDocs ==
    ASSUME SerializedToggles
    PROVE  Spec => BootReconciles
<1> DEFINE Reconciled ==
        \A m \in Modules : docs[m] # NoDoc =>
            IF docs[m].enabled THEN m \in started \cup failed
                               ELSE m \in Core \/ m \notin started
<1>1. ASSUME Shape, Safe, [Next]_vars, phase # "serving", phase' = "serving"
      PROVE  Reconciled
  <2>1. phase = "start" /\ idx > Len(initialized)
    BY <1>1, BeginsToServe DEF BootDone, vars, memory
  <2>2. /\ Modules = Range(initialized) \cup failed
        /\ started \subseteq startSet
        /\ \A m \in Modules : docs[m] # NoDoc =>
                IF docs[m].enabled THEN m \in startSet
                                   ELSE m \in Core \/ m \notin startSet
    BY <1>1, <2>1 DEF Safe, BootPart, StartProgress
  <2>3. \A i \in 1 .. Len(initialized) :
            initialized[i] \in startSet => initialized[i] \in started \cup failed
    <3>1. \A i \in 1 .. Len(initialized) : i < idx
      BY <1>1, <2>1 DEF Shape, TypeOK
    <3> QED BY <1>1, <2>1, <3>1 DEF Safe, BootPart, StartProgress
  <2>4. DOMAIN initialized = 1 .. Len(initialized)
    BY <1>1 DEF Shape, TypeOK
  <2>5. \A m \in startSet \cap Modules : m \in started \cup failed
    BY <2>2, <2>3, <2>4 DEF Range
  <2> QED BY <2>2, <2>5
<1>2. Shape /\ Safe /\ [Next]_vars =>
        [phase # "serving" /\ phase' = "serving" => Reconciled]_vars
  BY <1>1
<1> QED BY <1>2, IndHolds, PTL DEF Spec, BootReconciles

(***************************************************************************)
(* Disabling.  CheckCanDisable answers for the started set it looks at;    *)
(* with one request at a time that set is still there at the commit.       *)
(***************************************************************************)
\* Only CommitStop takes a module off the started set while the process
\* serves, and only its own target.
LEMMA StartedShrinks ==
    ASSUME Shape, [Next]_vars, phase = "serving", phase' = "serving"
    PROVE  \/ started \subseteq started'
           \/ \E h \in Handlers : CommitStop(h)
<1>1. CASE UNCHANGED vars
  BY <1>1 DEF vars, memory
<1>2. CASE Crash \/ Wipe \/ BootStep \/ BeginStopAll \/ StopStep
  BY <1>2
     DEF Crash, Wipe, LoseMemory, memory, BootStep, Boot, InitOk, InitFail,
         BeginStartAll, StartSkip, StartOk, StartFail, BootDone, BeginStopAll,
         StopStep, StopSkip, StopNext, Exit
<1>3. CASE Requests \/ Seeding
  BY <1>3 DEF Requests, RequestEnable, RequestDisable, RequestConfig, Request,
              Seeding, FindMissing, LazySeed
<1>4. ASSUME NEW h \in Handlers, HandlerStep(h)
      PROVE  started \subseteq started' \/ CommitStop(h)
  BY <1>4
     DEF HandlerStep, CheckCanDisable, UpdateEnabled, CheckFailed, RetryInit,
         RunInit, ReadInitialized, AppendInitialized, StartModule, StartInfra,
         StartJobs, CommitStart, StopModule, StopJobs, StopInfra,
         ClearNeedsRestart, UpdateConfig, HotClear
<1> QED BY <1>1, <1>2, <1>3, <1>4 DEF Next, Requests, Seeding

\* A request behind CheckCanDisable has no started dependent: it looked, and
\* its own steps up to the commit add nothing to the started set.
LEMMA GuardedHandler ==
    ASSUME Shape, Guarded, NEW h \in Handlers, HandlerStep(h),
           pc'[h] \in Disabling
    PROVE  NoDependent(target[h])'
<1> USE DEF Disabling
<1>0. pc \in [Handlers -> Labels] /\ target[h] \in Modules
      /\ DOMAIN target = Handlers
  BY HandlerMoves, InFlightTarget DEF Shape, TypeOK
<1>1. CASE CheckCanDisable(h)
  <2>1. NoDependent(target[h]) /\ UNCHANGED <<target, started>>
    BY <1>0, <1>1 DEF CheckCanDisable, Goto, Finish, NoDependent
  <2> QED BY <2>1 DEF NoDependent
<1>2. CASE UpdateEnabled(h) \/ StopModule(h) \/ StopJobs(h) \/ StopInfra(h)
  <2>1. pc[h] \in Disabling /\ UNCHANGED <<target, started>>
    BY <1>0, <1>2
       DEF UpdateEnabled, StopModule, StopJobs, StopInfra, Goto, Finish
  <2>2. NoDependent(target[h])
    BY <2>1 DEF Guarded
  <2> QED BY <2>1, <2>2 DEF NoDependent
<1>3. CASE CheckFailed(h) \/ RetryInit(h) \/ RunInit(h) \/ ReadInitialized(h)
           \/ AppendInitialized(h) \/ StartModule(h) \/ StartInfra(h)
  BY <1>0, <1>3
     DEF CheckFailed, RetryInit, RunInit, ReadInitialized, AppendInitialized,
         StartModule, StartInfra, Goto, Finish
<1>4. CASE StartJobs(h) \/ CommitStart(h) \/ CommitStop(h)
           \/ ClearNeedsRestart(h) \/ UpdateConfig(h) \/ HotClear(h)
  BY <1>0, <1>4
     DEF StartJobs, CommitStart, CommitStop, ClearNeedsRestart, UpdateConfig,
         HotClear, Goto, Finish
<1> QED BY <1>1, <1>2, <1>3, <1>4 DEF HandlerStep

\* With one request at a time nobody starts a dependent behind the check.
LEMMA GuardedNext ==
    ASSUME Shape, Guarded, OneRequest, OneRequest', [Next]_vars
    PROVE  Guarded'
<1>0. pc \in [Handlers -> Labels] /\ target \in [Handlers -> Modules \cup {NoModule}]
  BY DEF Shape, TypeOK
<1>1. ASSUME UNCHANGED <<pc, target, started>>
      PROVE  Guarded'
  BY <1>1 DEF Guarded, NoDependent
<1>2. ASSUME \A h \in Handlers : pc'[h] = "idle"
      PROVE  Guarded'
  BY <1>2 DEF Guarded, Disabling
<1>3. CASE UNCHANGED vars
  BY <1>1, <1>3 DEF vars, memory
<1>4. CASE Wipe \/ Seeding
  BY <1>1, <1>4 DEF Wipe, memory, Seeding, FindMissing, LazySeed
<1>5. CASE Crash \/ BootStep \/ BeginStopAll \/ StopStep
  <2>1. \A h \in Handlers : pc'[h] = "idle"
    <3>1. CASE LoseMemory
      BY <3>1 DEF LoseMemory
    <3>2. CASE BeginStopAll
      BY <3>2 DEF BeginStopAll
    <3>3. CASE phase # "serving" /\ UNCHANGED pc
      BY <3>3 DEF Shape, QuietOutside
    <3> QED
      BY <1>5, <3>1, <3>2, <3>3
         DEF Crash, BootStep, Boot, InitOk, InitFail, BeginStartAll, StartSkip,
             StartOk, StartFail, BootDone, StopStep, StopSkip, StopNext, Exit
  <2> QED BY <1>2, <2>1
<1>6. ASSUME NEW g \in Handlers, pc[g] = "idle", pc'[g] # "idle",
             pc' = [pc EXCEPT ![g] = pc'[g]], pc'[g] \notin Disabling
      PROVE  Guarded'
  <2>1. \A h \in Handlers : pc'[h] \notin Disabling
    BY <1>0, <1>6 DEF OneRequest, Disabling
  <2> QED BY <2>1 DEF Guarded
<1>7. CASE Requests
  <2>1. PICK g \in Handlers : \E m \in Modules :
            RequestEnable(g, m) \/ RequestDisable(g, m) \/ RequestConfig(g, m)
    BY <1>7 DEF Requests
  <2>2. /\ pc[g] = "idle" /\ pc'[g] # "idle" /\ pc'[g] \notin Disabling
        /\ pc' = [pc EXCEPT ![g] = pc'[g]]
    BY <1>0, <2>1
       DEF RequestEnable, RequestDisable, RequestConfig, Request, Disabling
  <2> QED BY <1>6, <2>2
<1>8. ASSUME NEW g \in Handlers, HandlerStep(g)
      PROVE  Guarded'
  <2>1. pc[g] # "idle" /\ Moves(g)
    BY <1>8, HandlerMoves
  <2>2. \A h \in Handlers \ {g} : pc'[h] = "idle"
    BY <1>0, <2>1 DEF OneRequest, Moves, Goto, Finish
  <2>3. pc'[g] \in Disabling => NoDependent(target[g])'
    BY <1>8, GuardedHandler
  <2> QED BY <2>2, <2>3 DEF Guarded, Disabling
<1> QED BY <1>3, <1>4, <1>5, <1>7, <1>8 DEF Next, Requests, Seeding

\* As long as there is one request at a time, no module is stopped under a
\* started module that depends on it: what CheckCanDisable saw still holds
\* when StopModule commits.
THEOREM DependentsSafe == Spec /\ []OneRequest => DependentsProtected
<1> DEFINE Kept == \A m \in started \ started' :
                        \A n \in started' : m \notin DependsOn[n]
<1>1. Init => Guarded
  BY DEF Init, Guarded, Disabling
<1>2. Shape /\ Guarded /\ OneRequest /\ OneRequest' /\ [Next]_vars => Guarded'
  BY GuardedNext
<1>3. ASSUME Shape, Guarded, [Next]_vars, phase = "serving", phase' = "serving"
      PROVE  Kept
  <2>1. CASE started \subseteq started'
    BY <2>1
  <2>2. ASSUME NEW h \in Handlers, CommitStop(h)
        PROVE  Kept
    <3>1. started' = started \ {target[h]} /\ NoDependent(target[h])
      BY <1>3, <2>2 DEF CommitStop, Guarded, Disabling
    <3> QED BY <3>1 DEF NoDependent
  <2> QED BY <1>3, <2>1, <2>2, StartedShrinks
<1>4. Shape /\ Guarded /\ [Next]_vars =>
        [phase = "serving" /\ phase' = "serving" => Kept]_vars
  BY <1>3
<1> QED
  BY <1>1, <1>2, <1>4, ShapeInit, ShapeNext, PTL DEF Spec, DependentsProtected

(***************************************************************************)
(* A request makes a bounded number of steps.                              *)
(***************************************************************************)
\* How many steps UpdateModule still makes at most, from each label.
StepsLeft(label) ==
    CASE label = "idle" -> 0
      [] label \in {"toggledConfig", "hotClear"} -> 1
      [] label \in {"enabled", "disabled", "stopFailed", "config"} -> 2
      [] label \in {"commitStart", "commitStop"} -> 3
      [] label \in {"startJobs", "stopInfra"} -> 4
      [] label \in {"startInfra", "stopJobs"} -> 5
      [] label \in {"startModule", "stopModule"} -> 6
      [] label \in {"append", "disable"} -> 7
      [] label \in {"readInitialized", "canDisable"} -> 8
      [] label = "runInit" -> 9
      [] label = "retryInit" -> 10
      [] label = "checkFailed" -> 11
      [] label = "enable" -> 12

LEMMA RequestShortens ==
    ASSUME Shape, NEW h \in Handlers, HandlerStep(h)
    PROVE  /\ StepsLeft(pc'[h]) < StepsLeft(pc[h])
           /\ \A g \in Handlers \ {h} : pc'[g] = pc[g]
<1>0. pc \in [Handlers -> Labels]
  BY DEF Shape, TypeOK
<1>a. \A g \in Handlers \ {h} : pc'[g] = pc[g]
  BY <1>0, HandlerMoves DEF Moves, Goto, Finish
<1> USE <1>0 DEF StepsLeft, Goto, Finish
<1>1. CASE CheckCanDisable(h)  BY <1>1 DEF CheckCanDisable
<1>2. CASE UpdateEnabled(h)  BY <1>2 DEF UpdateEnabled
<1>3. CASE CheckFailed(h)  BY <1>3 DEF CheckFailed
<1>4. CASE RetryInit(h)  BY <1>4 DEF RetryInit
<1>5. CASE RunInit(h)  BY <1>5 DEF RunInit
<1>6. CASE ReadInitialized(h)  BY <1>6 DEF ReadInitialized
<1>7. CASE AppendInitialized(h)  BY <1>7 DEF AppendInitialized
<1>8. CASE StartModule(h)  BY <1>8 DEF StartModule
<1>9. CASE StartInfra(h)  BY <1>9 DEF StartInfra
<1>10. CASE StartJobs(h)  BY <1>10 DEF StartJobs
<1>11. CASE CommitStart(h)  BY <1>11 DEF CommitStart
<1>12. CASE StopModule(h)  BY <1>12 DEF StopModule
<1>13. CASE StopJobs(h)  BY <1>13 DEF StopJobs
<1>14. CASE StopInfra(h)  BY <1>14 DEF StopInfra
<1>15. CASE CommitStop(h)  BY <1>15 DEF CommitStop
<1>16. CASE ClearNeedsRestart(h)  BY <1>16 DEF ClearNeedsRestart
<1>17. CASE UpdateConfig(h)
  <2>1. pc[h] = "config" => pc'[h] \in {"hotClear", "idle"}
    BY <1>17 DEF UpdateConfig
  <2>2. pc[h] = "toggledConfig" => pc'[h] = "idle"
    BY <1>17 DEF UpdateConfig
  <2>3. pc[h] \in {"config", "toggledConfig"}
    BY <1>17 DEF UpdateConfig
  <2> QED BY <1>a, <2>1, <2>2, <2>3
<1>18. CASE HotClear(h)  BY <1>18 DEF HotClear
<1> QED
  BY <1>a, <1>1, <1>2, <1>3, <1>4, <1>5, <1>6, <1>7, <1>8, <1>9, <1>10, <1>11, <1>12,
     <1>13, <1>14, <1>15, <1>16, <1>17, <1>18 DEF HandlerStep

\* Whatever the other requests, failures, crashes and wipes do, no step takes a
\* request under way back: its own steps bring it nearer to its answer, at most
\* twelve of them, and the steps of others leave it where it is or end it with
\* the process.  So no retry, and no module that stays in the failed map, keeps
\* UpdateModule going.
THEOREM RequestsRunOut ==
    Spec => [][\A h \in Handlers : pc[h] # "idle" =>
                    \/ pc'[h] = pc[h] /\ ~HandlerStep(h)
                    \/ StepsLeft(pc'[h]) < StepsLeft(pc[h])]_vars
<1> DEFINE Nearer == \A h \in Handlers : pc[h] # "idle" =>
                        \/ pc'[h] = pc[h] /\ ~HandlerStep(h)
                        \/ StepsLeft(pc'[h]) < StepsLeft(pc[h])
<1>1. Shape /\ [Next]_vars => [Nearer]_vars
  <2> SUFFICES ASSUME Shape, Next, NEW h \in Handlers, pc[h] # "idle", ~HandlerStep(h)
               PROVE  pc'[h] = pc[h] \/ StepsLeft(pc'[h]) < StepsLeft(pc[h])
    BY RequestShortens
  <2>0. pc \in [Handlers -> Labels] /\ phase = "serving"
    BY InFlightTarget DEF Shape, TypeOK
  <2>1. StepsLeft("idle") < StepsLeft(pc[h])
    BY <2>0 DEF StepsLeft, Labels, EnablePath, DisablePath, ConfigPath
  <2>2. CASE Crash \/ Wipe \/ BeginStopAll \/ Seeding
    <3>1. pc' = pc \/ pc' = [g \in Handlers |-> "idle"]
      BY <2>2 DEF Crash, LoseMemory, Wipe, memory, BeginStopAll, Seeding, FindMissing, LazySeed
    <3> QED BY <2>1, <3>1
  <2>3. CASE BootStep \/ StopStep
    BY <2>0, <2>3
       DEF BootStep, Boot, InitOk, InitFail, BeginStartAll, StartSkip, StartOk, StartFail,
           BootDone, StopStep, StopSkip, StopNext, Exit
  <2>4. CASE Requests
    BY <2>0, <2>4 DEF Requests, RequestEnable, RequestDisable, RequestConfig, Request
  <2>5. ASSUME NEW g \in Handlers, HandlerStep(g) PROVE pc'[h] = pc[h]
    BY <2>5, RequestShortens
  <2> QED BY <2>2, <2>3, <2>4, <2>5 DEF Next, Requests, Seeding
<1> QED BY <1>1, ShapeInit, ShapeNext, PTL DEF Spec

\* How many passes the loops of InitAll, StartAll and StopAll still make at
\* most.  A module that InitAll appends to r.initialized costs one of StartAll.
PassesLeft ==
    CASE phase = "init" -> 2 * (Len(Order) + 1 - idx) + Len(initialized) + 3
      [] phase = "start" -> Len(initialized) + 1 - idx + 1
      [] phase = "stopping" -> idx + 1
      [] OTHER -> 0

\* The loops of InitAll and StartAll do not run past the end of their slices.
LoopBound ==
    /\ phase = "init" => idx <= Len(Order) + 1
    /\ phase = "start" => idx <= Len(initialized) + 1

\* A pass of a loop, or the step to the next loop.
LEMMA PassMade ==
    ASSUME Shape, LoopBound, BootStep \/ StopStep
    PROVE  /\ LoopBound'
           /\ phase # "down" => PassesLeft' < PassesLeft \/ phase' = "down"
<1>0. /\ Len(Order) \in Nat /\ Len(initialized) \in Nat /\ idx \in Nat
      /\ initialized \in Seq(Modules)
      /\ \A i \in 1 .. Len(Order) : Order[i] \in Modules
  BY LifecycleAssumption DEF Shape, TypeOK
<1> USE <1>0 DEF LoopBound, PassesLeft
<1>1. CASE Boot
  BY <1>1 DEF Boot
<1>2. CASE InitOk
  <2>1. /\ phase = "init" /\ phase' = "init" /\ idx <= Len(Order) /\ idx' = idx + 1
        /\ Len(initialized') = Len(initialized) + 1
    BY <1>2 DEF InitOk
  <2> QED BY <2>1
<1>3. CASE InitFail
  <2>1. phase = "init" /\ idx <= Len(Order)
    BY <1>3 DEF InitFail
  <2>2. \/ phase' = "down"
        \/ phase' = phase /\ initialized' = initialized /\ idx' = idx + 1
    BY <1>3 DEF InitFail, LoseMemory
  <2> QED BY <2>1, <2>2
<1>4. CASE BeginStartAll
  <2>1. /\ phase = "init" /\ phase' = "start" /\ idx' = 1 /\ idx > Len(Order)
        /\ initialized' = initialized
    BY <1>4 DEF BeginStartAll
  <2> QED BY <2>1
<1>5. CASE StartSkip \/ StartOk
  <2>1. /\ phase = "start" /\ phase' = "start" /\ idx' = idx + 1
        /\ initialized' = initialized /\ idx <= Len(initialized)
    BY <1>5 DEF StartSkip, StartOk
  <2> QED BY <2>1
<1>6. CASE StartFail
  <2>1. phase = "start" /\ idx <= Len(initialized)
    BY <1>6 DEF StartFail
  <2>2. \/ phase' = "down"
        \/ phase' = phase /\ initialized' = initialized /\ idx' = idx + 1
    BY <1>6 DEF StartFail, LoseMemory
  <2> QED BY <2>1, <2>2
<1>7. CASE BootDone
  <2>1. phase = "start" /\ phase' = "serving"
    BY <1>7 DEF BootDone
  <2> QED BY <2>1
<1>8. CASE StopSkip \/ StopNext
  <2>1. phase = "stopping" /\ phase' = "stopping" /\ idx >= 1 /\ idx' = idx - 1
    BY <1>8 DEF StopSkip, StopNext
  <2> QED BY <2>1
<1>9. CASE Exit
  BY <1>9 DEF Exit, LoseMemory
<1> QED
  BY <1>1, <1>2, <1>3, <1>4, <1>5, <1>6, <1>7, <1>8, <1>9 DEF BootStep, StopStep

\* Nothing else moves the loops.
LEMMA NoPassMade ==
    ASSUME Shape, LoopBound, [Next]_vars, ~BootStep, ~StopStep
    PROVE  /\ LoopBound'
           /\ phase \in {"init", "start", "stopping"} =>
                PassesLeft' = PassesLeft \/ phase' = "down"
<1>1. CASE Crash
  BY <1>1 DEF Crash, LoseMemory, LoopBound
<1>2. CASE Wipe \/ UNCHANGED vars
  <2>1. UNCHANGED <<phase, idx, initialized>>
    BY <1>2 DEF Wipe, vars, memory
  <2> QED BY <2>1 DEF LoopBound, PassesLeft
<1>3. CASE BeginStopAll \/ Requests
  BY <1>3 DEF BeginStopAll, Requests, RequestEnable, RequestDisable, RequestConfig,
              Request, bootVars, LoopBound
<1>4. CASE Seeding
  <2>1. UNCHANGED <<phase, idx, initialized>>
    BY <1>4 DEF Seeding, FindMissing, LazySeed, bootVars
  <2> QED BY <2>1 DEF LoopBound, PassesLeft
<1>5. ASSUME NEW h \in Handlers, HandlerStep(h)
      PROVE  phase = "serving" /\ phase' = "serving"
  BY <1>5, HandlerMoves, InFlightTarget DEF bootVars
<1>6. CASE \E h \in Handlers : HandlerStep(h)
  BY <1>5, <1>6 DEF LoopBound
<1> QED
  BY <1>1, <1>2, <1>3, <1>4, <1>6 DEF Next, Requests, Seeding

\* Boot and shutdown end, whatever fails: every pass of their loops, also one
\* that skips a module or records a failure, leaves fewer of them, unless the
\* process ends; a wipe of the collection leaves them alone.
THEOREM LoopsRunOut ==
    Spec => /\ [](PassesLeft \in Nat)
            /\ [][(phase \in {"init", "start", "stopping"}) =>
                    \/ PassesLeft' < PassesLeft
                    \/ phase' = "down"
                    \/ ~BootStep /\ ~StopStep /\ PassesLeft' = PassesLeft]_vars
<1> DEFINE Shorter == phase \in {"init", "start", "stopping"} =>
                        \/ PassesLeft' < PassesLeft
                        \/ phase' = "down"
                        \/ ~BootStep /\ ~StopStep /\ PassesLeft' = PassesLeft
<1>1. Shape /\ LoopBound => PassesLeft \in Nat
  <2> SUFFICES ASSUME Shape, LoopBound PROVE PassesLeft \in Nat
    OBVIOUS
  <2>1. Len(Order) \in Nat /\ Len(initialized) \in Nat /\ idx \in Nat
    BY LifecycleAssumption DEF Shape, TypeOK
  <2> QED BY <2>1 DEF PassesLeft, LoopBound
<1>2. Init => LoopBound
  BY DEF Init, LoopBound
<1>3. Shape /\ LoopBound /\ [Next]_vars => LoopBound' /\ [Shorter]_vars
  <2> SUFFICES ASSUME Shape, LoopBound, [Next]_vars PROVE LoopBound' /\ Shorter
    OBVIOUS
  <2>1. CASE BootStep \/ StopStep
    BY <2>1, PassMade
  <2>2. CASE ~BootStep /\ ~StopStep
    BY <2>2, NoPassMade
  <2> QED BY <2>1, <2>2
<1> QED BY <1>1, <1>2, <1>3, ShapeInit, ShapeNext, PTL DEF Spec
=============================================================================
