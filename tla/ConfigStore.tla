------------------------------ MODULE ConfigStore ------------------------------
(***************************************************************************)
(* The config document of one module: the values and secrets of each       *)
(* environment, which environment is active, the legacy copy of the active *)
(* one at the top of the document, and needsRestart.  Admin requests read  *)
(* the document, merge what was sent into what they read, and write the    *)
(* parts back one by one; documents from before the environments are       *)
(* migrated by whoever reads them first.                                   *)
(*                                                                         *)
(* A value is a pair: the environment it was sent for and the number of    *)
(* the request that sent it.  A map of values gives Unset to a missing key *)
(***************************************************************************)
EXTENDS Naturals

CONSTANTS
    Plain, Secret, \* keys of config values and of encrypted values
    HotReload,     \* what HotReloadConfig() of the module may say
    Requests,      \* admin requests that may be in flight together
    MaxUpdates,    \* bound: requests that send values
    MaxFaults,     \* bound: failing calls in one behaviour
    Unset

Keys == Plain \cup Secret
DefaultEnvironments == {"production", "sandbox"}
Value == DefaultEnvironments \X (0 .. MaxUpdates)

ASSUME StoreAssumption ==
    /\ Plain \cap Secret = {}
    /\ HotReload \subseteq BOOLEAN
    /\ MaxUpdates \in Nat
    /\ MaxFaults \in Nat
    /\ Unset \notin Value

Values == [Keys -> Value \cup {Unset}]
Empty == [k \in Keys |-> Unset]

VARIABLES
    hot,          \* HotReloadConfig() of the module
    migrated,     \* the document has its environments
    active,       \* the active environment
    legacy,       \* the values at the top of the document
    environments, \* the values of each environment
    needsRestart,
    loaded,       \* what the module read when it was initialised
    pc,           \* where each request is
    op,           \* what it was called for
    env,          \* the environment it writes to
    sent,         \* the values it was sent
    onActive,     \* that environment was active in the document it read
    base,         \* the values it read and merges them into
    calm,         \* history: no failure, and no two requests at once, so far
    toggled,      \* history: a toggle lowered needsRestart since boot
    updates, faults

document == <<migrated, active, legacy, environments, needsRestart>>
request == <<op, env, sent, onActive, base>>
vars == <<hot, document, loaded, pc, request, calm, toggled, updates, faults>>

Operations == {"list", "update", "toggle", "environment", "activate"}
Labels == {"idle", "migrate", "raise", "clear", "writeLegacy", "readActive",
           "writeActive", "writeEnvironment", "setActive", "syncLegacy",
           "done", "answer"}

TypeOK ==
    /\ hot \in BOOLEAN
    /\ migrated \in BOOLEAN
    /\ active \in DefaultEnvironments
    /\ legacy \in Values
    /\ environments \in [DefaultEnvironments -> Values]
    /\ needsRestart \in BOOLEAN
    /\ loaded \in Values
    /\ pc \in [Requests -> Labels]
    /\ op \in [Requests -> Operations]
    /\ env \in [Requests -> DefaultEnvironments]
    /\ sent \in [Requests -> Values]
    /\ onActive \in [Requests -> BOOLEAN]
    /\ base \in [Requests -> Values]
    /\ calm \in BOOLEAN
    /\ toggled \in BOOLEAN
    /\ updates \in 0 .. MaxUpdates
    /\ faults \in Nat

Overlay(old, new) ==
    [k \in Keys |-> IF new[k] = Unset THEN old[k] ELSE new[k]]

\* Mutant: the values of the document are not merged with.
MergeNothing(r) == sent[r]

\* Mutant: only what was sent is stored.
StoreSentKeys(r) ==
    [k \in {key \in Keys : sent[r][key] # Unset} |-> sent[r][k]]

\* What request r writes.  UpdateModule merges config values only: of the
\* secrets it writes those it was sent.
Merged(r) ==
    [k \in Keys |-> IF k \in Secret /\ op[r] \in {"update", "toggle"}
                    THEN sent[r][k] ELSE Overlay(base[r], sent[r])[k]]

\* ActiveConfigValues, ActiveEncryptedValues.
ActiveValues == IF migrated THEN environments[active] ELSE legacy

Seeded == [k \in Keys |-> <<"production", 0>>]

\* A document just seeded, or one that predates the environments.
Init ==
    /\ hot \in HotReload
    /\ migrated \in BOOLEAN
    /\ active = "production"
    /\ legacy = Seeded
    /\ environments = [e \in DefaultEnvironments |->
                        IF migrated /\ e = "production" THEN Seeded ELSE Empty]
    /\ needsRestart = FALSE
    /\ loaded = Seeded
    /\ pc = [r \in Requests |-> "idle"]
    /\ op = [r \in Requests |-> "list"]
    /\ env = [r \in Requests |-> "production"]
    /\ sent = [r \in Requests |-> Empty]
    /\ onActive = [r \in Requests |-> FALSE]
    /\ base = [r \in Requests |-> Empty]
    /\ calm = TRUE /\ toggled = FALSE
    /\ updates = 0 /\ faults = 0

Quiet == \A r \in Requests : pc[r] = "idle"

Fault == faults < MaxFaults /\ faults' = faults + 1 /\ calm' = FALSE
NoFault == UNCHANGED <<faults, calm>>

Goto(r, label) == pc' = [pc EXCEPT ![r] = label] /\ UNCHANGED request

\* The request is answered and its local variables are gone.
End(r) ==
    /\ pc' = [pc EXCEPT ![r] = "idle"]
    /\ op' = [op EXCEPT ![r] = "list"]
    /\ env' = [env EXCEPT ![r] = "production"]
    /\ sent' = [sent EXCEPT ![r] = Empty]
    /\ onActive' = [onActive EXCEPT ![r] = FALSE]
    /\ base' = [base EXCEPT ![r] = Empty]

(***************************************************************************)
(* Reading the document: GetConfig, which begins every request.            *)
(***************************************************************************)
\* The first step after GetConfig.
FirstStep(o) ==
    CASE o = "list" -> "done"
      [] o = "update" -> "writeLegacy"
      [] o = "toggle" -> "raise"
      [] o = "environment" -> "writeEnvironment"
      [] o = "activate" -> "setActive"

\* Request r is called for o with new values for the keys K.  UpdateModule
\* merges into the legacy values, the environment endpoints into those of
\* their environment.  A listing has nothing to do but to migrate.
Get(r, o, e, K) ==
    /\ pc[r] = "idle"
    /\ o \in {"list", "activate"} => K = {}
    /\ o \in {"update", "environment"} => K # {}
    /\ o \in {"list", "update", "toggle"} => e = active
    /\ o = "list" => ~migrated
    /\ K # {} => updates < MaxUpdates
    /\ updates' = IF K = {} THEN updates ELSE updates + 1
    /\ op' = [op EXCEPT ![r] = o]
    /\ env' = [env EXCEPT ![r] = e]
    /\ onActive' = [onActive EXCEPT ![r] = e = active]
    /\ sent' = [sent EXCEPT ![r] =
                    [k \in Keys |-> IF k \in K THEN <<e, updates'>> ELSE Unset]]
    /\ base' = [base EXCEPT ![r] =
                    IF migrated /\ o \in {"environment", "activate"}
                    THEN environments[e] ELSE legacy]
    /\ pc' = [pc EXCEPT ![r] = IF migrated THEN FirstStep(o) ELSE "migrate"]
    /\ calm' = (calm /\ Quiet)
    /\ UNCHANGED <<hot, document, loaded, toggled, faults>>

\* Mutant: both environments get the legacy values.
MigrateBoth(r) ==
    /\ pc[r] = "migrate"
    /\ NoFault
    /\ migrated' = TRUE /\ active' = "production"
    /\ environments' = [e \in DefaultEnvironments |-> base[r]]
    /\ Goto(r, FirstStep(op[r]))
    /\ UNCHANGED <<hot, legacy, needsRestart, loaded, toggled, updates>>

\* ensureEnvironments: the legacy values become the production environment,
\* next to an empty sandbox.  When the write fails the request goes on with
\* a document that has no environments, which the environment endpoints
\* refuse.
Migrate(r) ==
    /\ pc[r] = "migrate"
    /\ \/ /\ NoFault
          /\ migrated' = TRUE /\ active' = "production"
          /\ environments' = [e \in DefaultEnvironments |->
                                IF e = "production" THEN base[r] ELSE Empty]
          /\ base' = [base EXCEPT ![r] =
                        IF op[r] \in {"environment", "activate"}
                           /\ env[r] = "sandbox" THEN Empty ELSE @]
          /\ pc' = [pc EXCEPT ![r] = FirstStep(op[r])]
          /\ UNCHANGED <<op, env, sent, onActive>>
       \/ /\ Fault
          /\ IF op[r] \in {"environment", "activate"}
               THEN End(r)
               ELSE Goto(r, FirstStep(op[r]))
          /\ UNCHANGED <<migrated, active, environments>>
    /\ UNCHANGED <<hot, legacy, needsRestart, loaded, toggled, updates>>

(***************************************************************************)
(* UpdateModule.                                                           *)
(***************************************************************************)
\* A toggle: UpdateEnabled raises needsRestart, ClearNeedsRestart, whose
\* error is ignored, lowers it.  Init is not run again.
Raise(r) ==
    /\ pc[r] = "raise"
    /\ \/ NoFault /\ needsRestart' = TRUE /\ Goto(r, "clear")
       \/ Fault /\ needsRestart' \in {needsRestart, TRUE} /\ End(r)
    /\ UNCHANGED <<hot, migrated, active, legacy, environments, loaded,
                   toggled, updates>>

Clear(r) ==
    /\ pc[r] = "clear"
    /\ \/ NoFault /\ needsRestart' = FALSE /\ toggled' = TRUE
       \/ Fault /\ UNCHANGED <<needsRestart, toggled>>
    /\ Goto(r, IF sent[r] = Empty THEN "answer" ELSE "writeLegacy")
    /\ UNCHANGED <<hot, migrated, active, legacy, environments, loaded,
                   updates>>

\* UpdateConfig: the legacy fields, then the environment that is active by
\* then.  An error of the second read or write is logged.
WriteLegacy(r) ==
    /\ pc[r] = "writeLegacy"
    /\ \/ /\ NoFault
          /\ legacy' = Merged(r) /\ needsRestart' = TRUE
          /\ Goto(r, "readActive")
       \/ /\ Fault
          /\ End(r)
          /\ UNCHANGED <<legacy, needsRestart>>
    /\ UNCHANGED <<hot, migrated, active, environments, loaded, toggled,
                   updates>>

ReadActive(r) ==
    /\ pc[r] = "readActive"
    /\ \/ /\ NoFault /\ migrated
          /\ pc' = [pc EXCEPT ![r] = "writeActive"]
          /\ env' = [env EXCEPT ![r] = active]
          /\ UNCHANGED <<op, sent, onActive, base>>
       \/ /\ (NoFault /\ ~migrated) \/ Fault
          /\ Goto(r, "done")
    /\ UNCHANGED <<hot, document, loaded, toggled, updates>>

WriteActive(r) ==
    /\ pc[r] = "writeActive"
    /\ \/ /\ NoFault
          /\ environments' = [environments EXCEPT ![env[r]] = Merged(r)]
          /\ needsRestart' = TRUE
       \/ Fault /\ UNCHANGED <<environments, needsRestart>>
    /\ Goto(r, "done")
    /\ UNCHANGED <<hot, migrated, active, legacy, loaded, toggled, updates>>

(***************************************************************************)
(* The environment endpoints.                                              *)
(***************************************************************************)
\* Mutant: the environment is written and the flag is forgotten.
WriteEnvironmentQuietly(r) ==
    /\ pc[r] = "writeEnvironment"
    /\ NoFault
    /\ environments' = [environments EXCEPT ![env[r]] = Merged(r)]
    /\ Goto(r, "done")
    /\ UNCHANGED <<hot, migrated, active, legacy, needsRestart, loaded,
                   toggled, updates>>

\* UpdateEnvironmentConfig: the environment, then the legacy fields if it
\* was the active one in the document the request read.
WriteEnvironment(r) ==
    /\ pc[r] = "writeEnvironment"
    /\ \/ /\ NoFault
          /\ environments' = [environments EXCEPT ![env[r]] = Merged(r)]
          /\ needsRestart' = TRUE
          /\ Goto(r, IF onActive[r] THEN "syncLegacy" ELSE "done")
       \/ /\ Fault
          /\ End(r)
          /\ UNCHANGED <<environments, needsRestart>>
    /\ UNCHANGED <<hot, migrated, active, legacy, loaded, toggled, updates>>

\* SetActiveEnvironment: the switch, then the legacy fields.
SetActive(r) ==
    /\ pc[r] = "setActive"
    /\ \/ /\ NoFault
          /\ active' = env[r] /\ needsRestart' = TRUE
          /\ Goto(r, "syncLegacy")
       \/ /\ Fault
          /\ End(r)
          /\ UNCHANGED <<active, needsRestart>>
    /\ UNCHANGED <<hot, migrated, legacy, environments, loaded, toggled,
                   updates>>

\* Mutant: an environment that becomes active is not copied.
SyncLegacyNever(r) ==
    /\ pc[r] = "syncLegacy"
    /\ Goto(r, "done")
    /\ UNCHANGED <<hot, document, loaded, calm, toggled, updates, faults>>

\* A failure to write the legacy fields is logged.
SyncLegacy(r) ==
    /\ pc[r] = "syncLegacy"
    /\ \/ NoFault /\ legacy' = Merged(r) /\ needsRestart' = TRUE
       \/ Fault /\ UNCHANGED <<legacy, needsRestart>>
    /\ Goto(r, "done")
    /\ UNCHANGED <<hot, migrated, active, environments, loaded, toggled,
                   updates>>

\* InvalidateCache, whose error ends the request, and then, for a module
\* that reads its config lazily, ClearNeedsRestart, whose error is ignored.
Done(r) ==
    /\ pc[r] = "done"
    /\ \/ /\ NoFault
          /\ needsRestart' =
                (needsRestart /\ ~(hot /\ op[r] \notin {"list", "toggle"}))
          /\ IF op[r] \in {"update", "toggle"} THEN Goto(r, "answer") ELSE End(r)
       \/ /\ Fault
          /\ UNCHANGED needsRestart
          /\ End(r) \/ (op[r] = "update" /\ hot /\ Goto(r, "answer"))
    /\ UNCHANGED <<hot, migrated, active, legacy, environments, loaded,
                   toggled, updates>>

\* UpdateModule reads the document once more for its answer, which migrates
\* it if that has failed before.
Reread(r) ==
    /\ pc[r] = "answer"
    /\ \/ /\ NoFault /\ ~migrated
          /\ pc' = [pc EXCEPT ![r] = "migrate"]
          /\ op' = [op EXCEPT ![r] = "list"]
          /\ base' = [base EXCEPT ![r] = legacy]
          /\ UNCHANGED <<env, sent, onActive>>
       \/ /\ (NoFault /\ migrated) \/ Fault
          /\ End(r)
    /\ UNCHANGED <<hot, document, loaded, toggled, updates>>

\* The process ends, whatever is under way, and boots: SeedFromModules
\* lowers needsRestart, Init reads the values.
Restart ==
    /\ needsRestart' = FALSE
    /\ loaded' = ActiveValues
    /\ toggled' = FALSE
    /\ pc' = [r \in Requests |-> "idle"]
    /\ op' = [r \in Requests |-> "list"]
    /\ env' = [r \in Requests |-> "production"]
    /\ sent' = [r \in Requests |-> Empty]
    /\ onActive' = [r \in Requests |-> FALSE]
    /\ base' = [r \in Requests |-> Empty]
    /\ calm' = (calm /\ Quiet)
    /\ UNCHANGED <<hot, migrated, active, legacy, environments, updates,
                   faults>>

Step(r) ==
    \/ Migrate(r) \/ Raise(r) \/ Clear(r)
    \/ WriteLegacy(r) \/ ReadActive(r) \/ WriteActive(r)
    \/ WriteEnvironment(r) \/ SetActive(r) \/ SyncLegacy(r)
    \/ Done(r) \/ Reread(r)

Next ==
    \/ \E r \in Requests, o \in Operations, e \in DefaultEnvironments,
          K \in SUBSET Keys : Get(r, o, e, K)
    \/ \E r \in Requests : Step(r)
    \/ Restart

Spec == Init /\ [][Next]_vars

(***************************************************************************)
(* Properties.                                                             *)
(***************************************************************************)
\* While requests come one at a time and nothing fails, the legacy fields
\* are, between requests, a copy of the active environment: UpdateModule
\* merges into them and then overwrites the environment.
LegacyInSync ==
    calm /\ Quiet /\ migrated => legacy = environments[active]

\* Under the same conditions no environment ever holds a value that was
\* sent for another one, however often they are switched in between.
EnvironmentsApart ==
    calm => \A e \in DefaultEnvironments, k \in Keys :
                environments[e][k] # Unset => environments[e][k][1] = e

\* Under the same conditions only what was sent changes: once migrated, a
\* value of an environment stays until a request sends a new one for it.
\* (Not for the secrets of UpdateModule, see SecretsKept.)
OthersKept ==
    [][calm /\ calm' /\ migrated =>
        \A e \in DefaultEnvironments, k \in Plain :
            environments'[e][k] # environments[e][k] =>
                \E r \in Requests : env[r] = e /\ sent[r][k] # Unset]_vars

\* Whatever overlaps or fails, a module that reads its config at Init only
\* and shows no pending restart runs with the values that are in force (a
\* toggle may have lowered the flag, see FlagHonest).
RestartFlagged ==
    ~hot /\ ~needsRestart /\ ~toggled => loaded = ActiveValues

(***************************************************************************)
(* What comments say and the code does not do.                             *)
(***************************************************************************)
\* "Merge with existing values (don't wipe unset fields)" (handler.go:274):
\* with one request at a time and no failure, no secret disappears.
SecretsKept ==
    [][calm /\ calm' /\ migrated =>
        \A e \in DefaultEnvironments, k \in Secret :
            environments[e][k] # Unset => environments'[e][k] # Unset]_vars

\* needsRestart is "true when config changed post-init" (config_model.go:34).
FlagHonest == ~hot /\ ~needsRestart => loaded = ActiveValues
=============================================================================
