-------------------------- MODULE LifecycleInvariant --------------------------
(***************************************************************************)
(* The inductive invariant behind the safety properties of                 *)
(* ModuleLifecycle, in parts.                                              *)
(***************************************************************************)
EXTENDS ModuleLifecycle

(***************************************************************************)
(* Shape: what holds whatever the clients do.                              *)
(***************************************************************************)
IndexOK ==
    /\ phase \in {"init", "start"} => idx >= 1
    /\ phase = "stopping" => idx <= Len(initialized)

\* Requests are in flight only while the process serves.
QuietOutside ==
    phase # "serving" => seeding = {} /\ \A h \in Handlers : pc[h] = "idle"

TargetOK == \A h \in Handlers : pc[h] = "idle" <=> target[h] = NoModule

Shape == TypeOK /\ IndexOK /\ QuietOutside /\ TargetOK

(***************************************************************************)
(* Boot: what InitAll and StartAll have established so far.                *)
(***************************************************************************)
DownClean ==
    phase = "down" => initialized = <<>> /\ failed = {} /\ started = {}

CoreNotFailed == Core \cap failed = {}

InitProgress ==
    phase = "init" =>
        /\ started = {}
        /\ IsInjective(initialized)
        /\ Range(initialized) \subseteq {Order[i] : i \in 1 .. idx - 1}
        /\ \A i \in 1 .. Len(Order) :
                i < idx => Order[i] \in Range(initialized) \cup failed

StartProgress ==
    phase = "start" =>
        /\ IsInjective(initialized)
        /\ Modules = Range(initialized) \cup failed
        /\ Core \subseteq startSet
        /\ \A m \in Modules : docs[m] # NoDoc =>
                IF docs[m].enabled THEN m \in startSet
                                   ELSE m \in Core \/ m \notin startSet
        /\ started \subseteq startSet
        /\ \A i \in 1 .. Len(initialized) :
                IF i < idx
                THEN initialized[i] \in startSet =>
                        initialized[i] \in started \cup failed
                ELSE initialized[i] \notin started

CoreStarted == phase \in {"serving", "stopping"} => Core \subseteq started

BootPart ==
    /\ DownClean /\ CoreNotFailed
    /\ InitProgress /\ StartProgress /\ CoreStarted

(***************************************************************************)
(* Jobs and containers, step by step through the requests.                 *)
(***************************************************************************)
Toggling == Labels \ ({"idle"} \cup ConfigPath)

\* Where the jobs of the target and its started flag disagree.
Between == {"commitStart", "stopInfra", "commitStop"}

OneAtATime ==
    \A g, h \in Handlers :
        g # h /\ target[g] # NoModule => target[g] # target[h]

TogglesAddons == \A h \in Handlers : pc[h] \in Toggling => target[h] \notin Core

Settled(m) == \A h \in Handlers : target[h] = m => pc[h] \notin Between

JobsQuiet == phase # "stopping" => \A m \in Modules : Settled(m) => AtRest(m)

JobsAt(h) ==
    /\ pc[h] \in {"startInfra", "startJobs", "commitStart", "disabled"}
            => target[h] \notin started
    /\ pc[h] \in {"stopJobs", "stopFailed", "enabled"}
            => target[h] \in started
    /\ pc[h] = "commitStart" => jobs[target[h]] = 1
    /\ pc[h] \in {"stopInfra", "commitStop"} => jobs[target[h]] = 0
    /\ pc[h] = "startJobs" => AllUp(target[h])

\* A Stop that returns an error leaves the containers up, whatever became of
\* the jobs.
JobsUp ==
    phase # "stopping" =>
        \A m \in Modules :
            jobs[m] > 0 \/ (m \in started /\ Settled(m)) => AllUp(m)

\* No request gets to stop a core module.
ErredAddons == stopErred \cap Core = {}

JobsPart ==
    /\ OneAtATime /\ TogglesAddons
    /\ JobsQuiet /\ JobsUp /\ ErredAddons
    /\ \A h \in Handlers : JobsAt(h)

(***************************************************************************)
(* Documents.                                                              *)
(***************************************************************************)
DocAt(h) ==
    LET m == target[h] IN
    /\ pc[h] \in EnablePath \ {"enabled"} =>
            docs[m] = NoDoc \/ m \in lateSeeded \/ docs[m].needsRestart
    /\ pc[h] \in DisablePath =>
            docs[m] = NoDoc \/ m \in lateSeeded \/ ~docs[m].enabled
    /\ pc[h] = "hotClear" => m \in HotReload

DocsPart == EnabledInSync /\ \A h \in Handlers : DocAt(h)

(***************************************************************************)
(* Disabling, one request at a time.                                       *)
(***************************************************************************)
OneRequest == \A g, h \in Handlers : g # h => pc[g] = "idle" \/ pc[h] = "idle"

\* Behind CheckCanDisable, up to the commit of the stop.
Disabling == {"disable", "stopModule", "stopJobs", "stopInfra", "commitStop"}

NoDependent(m) == \A n \in started \ {m} : m \notin DependsOn[n]

Guarded ==
    \A h \in Handlers : pc[h] \in Disabling => NoDependent(target[h])

Ind == Shape /\ BootPart /\ JobsPart /\ DocsPart
=============================================================================
