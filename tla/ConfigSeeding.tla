---------------------------- MODULE ConfigSeeding ----------------------------
(***************************************************************************)
(* Where a setting comes from: the documents SeedFromModules writes at the *)
(* first boot from the process environment, what later boots and lazySeed  *)
(* do to them, what an administrator stores in them, and how GetValue,     *)
(* GetSecret and UnmarshalModule look a key up.  Each process life has an  *)
(* environment of its own: the binary with its schema, ORKESTRA_PROFILE,   *)
(* the env vars and the encryption key.                                    *)
(*                                                                         *)
(* Switching environments and the races of updates are in ConfigStore,     *)
(* needsRestart there and in ModuleLifecycle.                              *)
(***************************************************************************)
EXTENDS Integers, Sequences, FiniteSets, Functions

CONSTANTS
    Known,            \* modules of RegisterAll and RegisterKnownModules
    Registered,       \* those of RegisterAll, in their order
    Core,             \* modules of category "core"
    Dev,              \* the module named "dev"
    EnabledByDefault, \* modules whose Enabled() is true
    ProfileAddons,    \* profile name -> the addons it lists, or <<"*">>
    Keys,             \* ModuleKeys[m]: the setting keys of m
    ModuleKeys,
    Secret,           \* the keys of type FieldSecret
    Default,          \* Default[k]: the default value in the schema
    Values, Empty,    \* non-empty raw values; the empty string
    CipherKeys,       \* values of OAUTH_TOKEN_ENCRYPTION_KEY
    NoCipher,         \* it is not set or malformed
    Processes,        \* the environments a process may have
    Updates,          \* bound: administrator's writes
    Restarts,         \* bound: restarts
    MaxFaults,        \* bound: failing calls and wipes
    NoDoc, Failed

Raw == Values \cup {Empty}
Sealed == Values \X CipherKeys
Environments == {"production", "sandbox"}

Process == [binary : SUBSET Keys,      \* the keys its schemas declare
            profile : STRING,          \* ORKESTRA_PROFILE
            env : [Keys -> Raw],       \* the env var of each key
            cipher : CipherKeys \cup {NoCipher}]

Doc == [enabled : BOOLEAN, schema : SUBSET Keys, active : Environments,
        stored : [Environments -> [Keys -> Raw \cup Sealed]]]

ASSUME SeedingAssumption ==
    /\ Registered \in Seq(Known) /\ IsInjective(Registered)
    /\ Core \subseteq Known /\ EnabledByDefault \subseteq Known
    /\ ModuleKeys \in [Known -> SUBSET Keys]
    /\ Secret \subseteq Keys
    /\ Default \in [Keys -> Raw]
    /\ \A p \in DOMAIN ProfileAddons :
        "*" \in Range(ProfileAddons[p]) => ProfileAddons[p] = <<"*">>
    /\ Empty \notin Values \cup (Values \X (CipherKeys \cup {NoCipher}))
    /\ Failed \notin Values /\ NoCipher \notin CipherKeys /\ NoDoc \notin Doc
    /\ Processes \subseteq Process
    /\ Updates \in Nat /\ Restarts \in Nat /\ MaxFaults \in Nat

VARIABLES
    phase,     \* "boot" or "serving"
    idx,       \* loop index of SeedFromModules
    process,   \* the environment of this process life
    docs,      \* MongoDB: module_configs
    seeding,   \* modules a request has found without a document
    origin,    \* history: the profile under which each document was created
    firstRead, \* history: what each key gave when its document was created
    toggled,   \* history: modules whose enabled an administrator has set
    edited,    \* history: the settings he has stored or wiped
    skipped,   \* history: modules that a failing call kept boot from updating
    updates, restarts, faults

history == <<origin, firstRead, toggled, edited>>
vars == <<phase, idx, process, docs, seeding, history, skipped,
          updates, restarts, faults>>

TypeOK ==
    /\ phase \in {"boot", "serving"}
    /\ idx \in 1 .. Len(Registered) + 1
    /\ process \in Processes
    /\ docs \in [Known -> Doc \cup {NoDoc}]
    /\ \A m \in Known : docs[m] # NoDoc =>
          /\ docs[m].schema \subseteq ModuleKeys[m]
          /\ \A e \in Environments, k \in Keys :
                docs[m].stored[e][k] \in
                    IF k \in Secret THEN Sealed \cup {Empty} ELSE Raw
    /\ seeding \subseteq Known
    /\ DOMAIN origin = Known
    /\ firstRead \in [Known -> [Keys -> Raw]]
    /\ toggled \subseteq Known
    /\ edited \subseteq Known \X Keys
    /\ skipped \subseteq Known
    /\ updates \in 0 .. Updates /\ restarts \in 0 .. Restarts
    /\ faults \in 0 .. MaxFaults

(***************************************************************************)
(* Building a document.                                                    *)
(***************************************************************************)
Schema(m) == ModuleKeys[m] \cap process.binary

\* Mutant: default before env var.
FromDefault(k) == IF Default[k] # Empty THEN Default[k] ELSE process.env[k]

FromEnv(k) == IF process.env[k] # Empty THEN process.env[k] ELSE Default[k]

\* computeProfileOverride: no override for an unset or unknown profile.
ProfileKnown == process.profile \in DOMAIN ProfileAddons

ProfileOverride ==
    LET addons == ProfileAddons[process.profile]
    IN IF addons = <<"*">> THEN Known \ (Core \cup {Dev}) ELSE Range(addons)

\* Mutant: the profile decides about the dev module, too.
InitialEnabledAll(m) ==
    IF ProfileKnown /\ m \notin Core
    THEN m \in ProfileOverride ELSE m \in EnabledByDefault

InitialEnabled(m) ==
    IF ProfileKnown /\ m \notin Core /\ m # Dev
    THEN m \in ProfileOverride ELSE m \in EnabledByDefault

\* Mutant: a secret that cannot be encrypted is stored as it is.
SeededValuePlain(k) ==
    IF k \in Secret /\ FromEnv(k) # Empty /\ process.cipher # NoCipher
    THEN <<FromEnv(k), process.cipher>> ELSE FromEnv(k)

\* A secret that cannot be encrypted is left out.
SeededValue(k) ==
    IF k \in Secret /\ FromEnv(k) # Empty
    THEN IF process.cipher = NoCipher THEN Empty
         ELSE <<FromEnv(k), process.cipher>>
    ELSE FromEnv(k)

\* buildInitialConfig.
InitialDoc(m) ==
    [enabled |-> InitialEnabled(m), schema |-> Schema(m), active |-> "production",
     stored |-> [e \in Environments |-> [k \in Keys |->
                    IF e = "production" /\ k \in Schema(m)
                    THEN SeededValue(k) ELSE Empty]]]

(***************************************************************************)
(* Looking a key up in a document.                                         *)
(***************************************************************************)
\* decryptSecret fails without the key or with another one.
Decrypt(x) == IF x \in Values \X {process.cipher} THEN x[1] ELSE Failed

Stored(doc, k) == doc.stored[doc.active][k]

\* schemaFallback works on the schema in the document.
SchemaFallback(doc, k) == IF k \in doc.schema THEN FromEnv(k) ELSE Empty

\* Mutant: the env var beats the stored value.
GetValueEnvFirst(doc, k) ==
    IF doc # NoDoc /\ process.env[k] # Empty THEN process.env[k]
    ELSE IF doc = NoDoc THEN Empty
    ELSE IF Stored(doc, k) # Empty THEN Stored(doc, k) ELSE SchemaFallback(doc, k)

\* Without a document (or when MongoDB fails) fallbackFromSchema gives "".
GetValue(doc, k) ==
    IF doc = NoDoc THEN Empty
    ELSE IF Stored(doc, k) # Empty THEN Stored(doc, k) ELSE SchemaFallback(doc, k)

GetSecret(doc, k) ==
    IF doc = NoDoc THEN Empty
    ELSE IF Stored(doc, k) # Empty /\ Decrypt(Stored(doc, k)) # Failed
    THEN Decrypt(Stored(doc, k)) ELSE SchemaFallback(doc, k)

Read(doc, k) == IF k \in Secret THEN GetSecret(doc, k) ELSE GetValue(doc, k)

\* Mutant: what the head comment says, schema default before env var.
ResolveDefaultFirst(doc, k) ==
    IF doc = NoDoc \/ k \notin doc.schema THEN Empty
    ELSE IF Stored(doc, k) = Empty THEN FromDefault(k)
    ELSE IF k \in Secret THEN Decrypt(Stored(doc, k)) ELSE Stored(doc, k)

\* UnmarshalModule: the raw value for a field, "Failed" for an error.
Resolve(doc, k) ==
    IF doc = NoDoc \/ k \notin doc.schema THEN Empty
    ELSE IF Stored(doc, k) = Empty THEN FromEnv(k)
    ELSE IF k \in Secret THEN Decrypt(Stored(doc, k)) ELSE Stored(doc, k)

(***************************************************************************)
(* Boot.                                                                   *)
(***************************************************************************)
Fault == faults < MaxFaults /\ faults' = faults + 1

Init ==
    /\ phase = "boot" /\ idx = 1
    /\ process \in Processes
    /\ docs = [m \in Known |-> NoDoc]
    /\ seeding = {} /\ skipped = {}
    /\ origin = [m \in Known |-> ""]
    /\ firstRead = [m \in Known |-> [k \in Keys |-> Empty]]
    /\ toggled = {} /\ edited = {}
    /\ updates = 0 /\ restarts = 0 /\ faults = 0

\* Upsert sets every field but createdAt.
Upsert(m) ==
    /\ docs' = [docs EXCEPT ![m] = InitialDoc(m)]
    /\ origin' = [origin EXCEPT ![m] = process.profile]
    /\ firstRead' = [firstRead EXCEPT ![m] =
                        [k \in Keys |-> Read(InitialDoc(m), k)]]
    /\ toggled' = toggled \ {m}
    /\ edited' = edited \ ({m} \X Keys)

\* Mutant: the document is written again at each boot.
SeedAgain ==
    /\ phase = "boot" /\ idx <= Len(Registered)
    /\ LET m == Registered[idx] IN docs' = [docs EXCEPT ![m] = InitialDoc(m)]
    /\ idx' = idx + 1
    /\ UNCHANGED <<phase, process, seeding, history, skipped, updates,
                   restarts, faults>>

\* Mutant: the metadata of an existing document is not refreshed.
SeedIfMissing ==
    /\ phase = "boot" /\ idx <= Len(Registered)
    /\ LET m == Registered[idx] IN
        IF docs[m] = NoDoc THEN Upsert(m) ELSE UNCHANGED <<docs, history>>
    /\ idx' = idx + 1
    /\ UNCHANGED <<phase, process, seeding, skipped, updates, restarts, faults>>

\* SeedFromModules, one module.  Of an existing document RefreshMetadata
\* rewrites what comes from the code.  A failing call is logged.
SeedFromModules ==
    /\ phase = "boot" /\ idx <= Len(Registered)
    /\ LET m == Registered[idx] IN
        \/ /\ docs[m] = NoDoc
           /\ Upsert(m)
           /\ UNCHANGED <<skipped, faults>>
        \/ /\ docs[m] # NoDoc
           /\ docs' = [docs EXCEPT ![m].schema = Schema(m)]
           /\ UNCHANGED <<history, skipped, faults>>
        \/ /\ Fault
           /\ skipped' = skipped \cup {m}
           /\ UNCHANGED <<docs, history>>
    /\ idx' = idx + 1
    /\ UNCHANGED <<phase, process, seeding, updates, restarts>>

SeedDone ==
    /\ phase = "boot" /\ idx > Len(Registered)
    /\ phase' = "serving"
    /\ UNCHANGED <<idx, process, docs, seeding, history, skipped, updates,
                   restarts, faults>>

(***************************************************************************)
(* Serving.                                                                *)
(***************************************************************************)
\* GetConfig and GetAllConfigs find no document for a known module ...
FindMissing(m) ==
    /\ phase = "serving"
    /\ docs[m] = NoDoc /\ m \notin seeding
    /\ seeding' = seeding \cup {m}
    /\ UNCHANGED <<phase, idx, process, docs, history, skipped, updates,
                   restarts, faults>>

\* ... and upsert the one of a first boot, over whatever is there by then.
\* Any number of calls may have found none: another may always follow.
LazySeed(m) ==
    /\ m \in seeding
    /\ \/ Upsert(m) /\ UNCHANGED faults
       \/ Fault /\ UNCHANGED <<docs, history>>
    /\ UNCHANGED <<phase, idx, process, seeding, skipped, updates, restarts>>

Update ==
    /\ phase = "serving"
    /\ updates < Updates /\ updates' = updates + 1
    /\ UNCHANGED <<phase, idx, process, seeding, origin, firstRead, skipped,
                   restarts, faults>>

\* UpdateEnabled: not for core modules.
UpdateEnabled(m, b) ==
    /\ m \notin Core /\ docs[m] # NoDoc
    /\ docs' = [docs EXCEPT ![m].enabled = b]
    /\ toggled' = toggled \cup {m}
    /\ Update
    /\ UNCHANGED edited

Sent(k, v) == IF k \in Secret THEN <<v, process.cipher>> ELSE v

\* A setting is sent for an environment; a secret is refused without an
\* encryption key.
Accepted(m, k) ==
    /\ docs[m] # NoDoc /\ k \in docs[m].schema
    /\ k \in Secret => process.cipher # NoCipher

\* UpdateEnvironmentConfig merges.
StoreSetting(m, e, k, v) ==
    /\ Accepted(m, k)
    /\ docs' = [docs EXCEPT ![m].stored[e][k] = Sent(k, v)]
    /\ edited' = edited \cup {<<m, k>>}
    /\ Update
    /\ UNCHANGED toggled

\* UpdateModule is about the active environment: its values are merged, its
\* secrets are replaced by those that were sent.
UpdateModule(m, k, v) ==
    /\ Accepted(m, k)
    /\ docs' = [docs EXCEPT ![m].stored[docs[m].active] =
                    [l \in Keys |-> IF l = k THEN Sent(k, v)
                                    ELSE IF l \in Secret THEN Empty ELSE @[l]]]
    /\ edited' = edited \cup ({m} \X (Secret \cup {k}))
    /\ Update
    /\ UNCHANGED toggled

SetActiveEnvironment(m, e) ==
    /\ docs[m] # NoDoc /\ docs[m].active # e
    /\ docs' = [docs EXCEPT ![m].active = e]
    /\ Update
    /\ UNCHANGED <<toggled, edited>>

\* A live wipe of the collection.
Wipe ==
    /\ phase = "serving" /\ Fault
    /\ docs' = [m \in Known |-> NoDoc]
    /\ UNCHANGED <<phase, idx, process, seeding, history, skipped, updates,
                   restarts>>

\* The process ends, at boot or later, and another one starts.
Restart ==
    /\ restarts < Restarts /\ restarts' = restarts + 1
    /\ process' \in Processes
    /\ phase' = "boot" /\ idx' = 1
    /\ seeding' = {} /\ skipped' = {}
    /\ UNCHANGED <<docs, history, updates, faults>>

Next ==
    \/ SeedFromModules \/ SeedDone \/ Wipe \/ Restart
    \/ \E m \in Known :
        \/ FindMissing(m) \/ LazySeed(m)
        \/ \E b \in BOOLEAN : UpdateEnabled(m, b)
        \/ \E e \in Environments :
            \/ SetActiveEnvironment(m, e)
            \/ \E k \in Keys, v \in Values : StoreSetting(m, e, k, v)
        \/ \E k \in Keys, v \in Values : UpdateModule(m, k, v)

Spec == Init /\ [][Next]_vars

(***************************************************************************)
(* Properties.                                                             *)
(***************************************************************************)
\* Until an administrator toggles it, a module is enabled as at its first
\* boot: core modules and dev by their own default, addons by the profile
\* of that boot if it is a known one.  No later profile changes that.
EnabledAsSeeded ==
    \A m \in Known \ toggled :
        docs[m] # NoDoc =>
            docs[m].enabled =
                IF m \in Core \cup {Dev} \/ origin[m] \notin DOMAIN ProfileAddons
                THEN m \in EnabledByDefault
                ELSE Range(ProfileAddons[origin[m]]) \cap {m, "*"} # {}

\* What a setting gave when its document was created it gives in every
\* later life, whatever the env vars are by then, until it is edited or the
\* environment is switched; a secret, if it could be encrypted then and the
\* key is still the same.
SettingsStick ==
    \A m \in Known, k \in Keys :
        /\ docs[m] # NoDoc
        /\ docs[m].active = "production" /\ <<m, k>> \notin edited
        /\ firstRead[m][k] # Empty
        /\ k \in Secret => Stored(docs[m], k) \in Values \X {process.cipher}
        => Read(docs[m], k) = firstRead[m][k]

\* UnmarshalModule gives what GetValue and GetSecret give for every key of
\* the stored schema, unless it reports an error.
AccessorsAgree ==
    \A m \in Known : docs[m] # NoDoc =>
        \A k \in docs[m].schema :
            Resolve(docs[m], k) \in {Read(docs[m], k), Failed}

\* Once a process serves, the documents of its modules carry the schema of
\* its binary, whatever the binary that wrote them and whoever seeded them
\* meanwhile, unless a call failed at boot.  A key the binary declares then
\* never falls through to "" if it has an env var or a default.
SchemaCurrent ==
    phase = "serving" =>
        \A m \in Range(Registered) \ skipped :
            docs[m] # NoDoc =>
                /\ docs[m].schema = Schema(m)
                /\ \A k \in Schema(m) :
                    FromEnv(k) # Empty => Read(docs[m], k) # Empty

\* Boot leaves what an administrator can set as it is: "admin-set values
\* are authoritative".
BootKeepsSettings ==
    [][phase = "boot" =>
        \A m \in Known : docs[m] # NoDoc =>
            /\ docs'[m] # NoDoc
            /\ docs'[m].enabled = docs[m].enabled
            /\ docs'[m].stored = docs[m].stored
            /\ docs'[m].active = docs[m].active]_vars

(***************************************************************************)
(* What comments say and the code does not do.                             *)
(***************************************************************************)
\* fallbackFromSchema "searches all module schemas" (config_service.go:662):
\* a setting with an env var or a default is found although the document is
\* not.
FallbackFindsDefaults ==
    phase = "serving" =>
        \A m \in Known, k \in Keys :
            k \in Schema(m) /\ FromEnv(k) # Empty => Read(docs[m], k) # Empty
=============================================================================
