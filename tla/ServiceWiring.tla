---------------------------- MODULE ServiceWiring ----------------------------
(***************************************************************************)
(* How modules get at each other: the service registry their Inits write   *)
(* to and read from, the catalogs of personal-data producers, permissions  *)
(* and capabilities, at boot (InitAll) and when the admin endpoint runs    *)
(* the Init of a failed module again (RetryInit) while others do the same. *)
(*                                                                         *)
(* What an Init is made of belongs to the host's modules.  Here it is a    *)
(* set of operations on the registries, done in any order, and it may      *)
(* fail after any of them.                                                 *)
(***************************************************************************)
EXTENDS Naturals, Sequences, Functions, RegistrationOrder

CONSTANTS
    Modules,      \* the registered modules
    Core,         \* those of category "core"
    DependsOn,    \* DependsOn[m]: the modules that m names in Dependencies()
    Order,        \* their registration order, which TopoSort produces
    Keys,         \* service keys
    Provides,     \* Provides[m]: the keys that the Init of m registers
    Resolves,     \* Resolves[m]: the keys it gets and keeps, if they are there
    Requires,     \* Requires[m]: those among them it gets with MustGet
    Producers,    \* the modules that register a personal-data producer
    Authz,        \* the key of the authorization service
    Capabilities, \* Capabilities[m]: the sequence that m declares
    Retries,      \* the goroutines that call RetryInit
    MaxRetries,   \* bound: calls of RetryInit
    NoService, NoModule, Unknown

Instance == Modules \X Nat
Ids == UNION {{c.id : c \in Range(Capabilities[m])} : m \in Modules}
Bodies == UNION {{c.body : c \in Range(Capabilities[m])} : m \in Modules}

ASSUME WiringAssumption ==
    /\ Core \subseteq Modules
    /\ DependsOn \in [Modules -> SUBSET Modules]
    /\ Provides \in [Modules -> SUBSET Keys]
    /\ \A m, n \in Modules : m # n => Provides[m] \cap Provides[n] = {}
    /\ Resolves \in [Modules -> SUBSET Keys]
    /\ Requires \in [Modules -> SUBSET Keys]
    /\ \A m \in Modules : Requires[m] \subseteq Resolves[m]
    /\ Producers \subseteq Modules
    /\ Authz \in Keys
    /\ \A m \in Modules : Capabilities[m] \in Seq([id : Ids, body : Bodies])
    /\ MaxRetries \in Nat
    /\ NoService \notin Instance /\ Unknown \notin Bodies
    /\ NoModule \notin Modules
    /\ "boot" \notin Retries

\* What topoSort guarantees, and what a host observes that uses MustGet only
\* "for hard dependencies that cannot be degraded".
ASSUME OrderAssumption ==
    /\ Topological(Order, Modules, DependsOn)
    /\ \A m \in Modules, k \in Keys :
            k \in Requires[m] => \E p \in DependsOn[m] \cap Core : k \in Provides[p]

VARIABLES
    phase,       \* "boot", "serving"; "coreFailed", "panicked": it has ended
    idx,         \* loop index of InitAll and of registerCapabilities
    initialized, \* r.initialized, as a set
    failed,      \* the keys of r.failed
    services,    \* ServiceRegistry.services
    replaceMode, \* ServiceRegistry.replaceMode
    holds,       \* holds[m]: what m has got from the registry in its Init
    producers,   \* PIIProducerRegistry: how often each module is in the list
    permitted,   \* the modules whose permissions the authz service has stored
    catalog,     \* capability.Registry.byID
    inits,       \* how often each Init was called
    pc,          \* where InitAll ("boot") and each RetryInit is
    target,      \* the module it is about
    left,        \* the operations its Init has still to do
    slice,       \* the value of r.initialized it has read
    everFailed,  \* history: modules that have been in r.failed
    overlapped,  \* history: two retries were under way at once
    retryPanic,  \* history: a Register panicked in a retry
    dropped,     \* history: the authz service refused a list of permissions
    retries      \* calls of RetryInit so far

threads == <<pc, target, left, slice>>
history == <<everFailed, overlapped, retryPanic, dropped, retries>>
vars == <<phase, idx, initialized, failed, services, replaceMode, holds,
          producers, permitted, catalog, inits, threads, history>>

Threads == {"boot"} \cup Retries
Phases == {"boot", "serving", "coreFailed", "panicked"}
Labels == {"idle", "replaceOn", "init", "append", "permissions", "send",
           "capabilities", "replaceOff"}
Operation == {"get", "register", "producer"} \X (Keys \cup Modules)

TypeOK ==
    /\ phase \in Phases
    /\ idx \in Nat
    /\ initialized \subseteq Modules /\ failed \subseteq Modules
    /\ services \in [Keys -> Instance \cup {NoService}]
    /\ replaceMode \in BOOLEAN
    /\ holds \in [Modules -> [Keys -> Instance \cup {NoService}]]
    /\ producers \in [Modules -> Nat]
    /\ permitted \subseteq Modules
    /\ catalog \in [Ids -> Bodies \cup {Unknown}]
    /\ inits \in [Modules -> Nat]
    /\ pc \in [Threads -> Labels]
    /\ target \in [Threads -> Modules \cup {NoModule}]
    /\ left \in [Threads -> SUBSET Operation]
    /\ slice \in [Threads -> SUBSET Modules]
    /\ everFailed \subseteq Modules
    /\ overlapped \in BOOLEAN /\ retryPanic \in BOOLEAN /\ dropped \in BOOLEAN
    /\ retries \in 0 .. MaxRetries

Init ==
    /\ phase = "boot" /\ idx = 1
    /\ initialized = {} /\ failed = {}
    /\ services = [k \in Keys |-> NoService] /\ replaceMode = FALSE
    /\ holds = [m \in Modules |-> [k \in Keys |-> NoService]]
    /\ producers = [m \in Modules |-> 0]
    /\ permitted = {}
    /\ catalog = [i \in Ids |-> Unknown]
    /\ inits = [m \in Modules |-> 0]
    /\ pc = [t \in Threads |-> "idle"]
    /\ target = [t \in Threads |-> NoModule]
    /\ left = [t \in Threads |-> {}] /\ slice = [t \in Threads |-> {}]
    /\ everFailed = {} /\ overlapped = FALSE
    /\ retryPanic = FALSE /\ dropped = FALSE
    /\ retries = 0

Goto(t, label) == pc' = [pc EXCEPT ![t] = label]

\* A retry that ends leaves nothing behind but what it wrote.
Forget(t) ==
    /\ target' = [target EXCEPT ![t] = NoModule]
    /\ left' = [left EXCEPT ![t] = {}]
    /\ slice' = [slice EXCEPT ![t] = {}]

(***************************************************************************)
(* The Init of a module, in InitAll or in RetryInit.                       *)
(***************************************************************************)
Operations(m) ==
    ({"get"} \X Resolves[m]) \cup ({"register"} \X Provides[m])
        \cup ({"producer"} \X ({m} \cap Producers))

CallInit(t, m) ==
    /\ inits' = [inits EXCEPT ![m] = @ + 1]
    /\ target' = [target EXCEPT ![t] = m]
    /\ left' = [left EXCEPT ![t] = Operations(m)]
    /\ Goto(t, "init")

\* A panic ends the process at boot.  In a request it is recovered by the
\* HTTP server, after the deferred SetReplaceMode(false).
Panic(t) ==
    IF t = "boot"
    THEN phase' = "panicked" /\ UNCHANGED <<pc, left, retryPanic>>
    ELSE /\ Goto(t, "replaceOff")
         /\ left' = [left EXCEPT ![t] = {}]
         /\ retryPanic' = TRUE
         /\ UNCHANGED phase

Did(t, kind, x) ==
    /\ <<kind, x>> \in left[t]
    /\ left' = [left EXCEPT ![t] = @ \ {<<kind, x>>}]
    /\ UNCHANGED <<phase, pc, retryPanic>>

\* Get and GetTyped give nil for a key nobody has registered, MustGet panics.
Get(t, k) ==
    /\ pc[t] = "init" /\ <<"get", k>> \in left[t]
    /\ IF services[k] = NoService /\ k \in Requires[target[t]]
         THEN Panic(t) /\ UNCHANGED holds
         ELSE Did(t, "get", k) /\ holds' = [holds EXCEPT ![target[t]][k] = services[k]]
    /\ UNCHANGED <<idx, initialized, failed, services, replaceMode, producers,
                   permitted, catalog, inits, target, slice, everFailed,
                   overlapped, dropped, retries>>

\* ServiceRegistry.Register.
Register(t, k) ==
    /\ pc[t] = "init" /\ <<"register", k>> \in left[t]
    /\ IF services[k] # NoService /\ ~replaceMode
         THEN Panic(t) /\ UNCHANGED services
         ELSE /\ Did(t, "register", k)
              /\ services' = [services EXCEPT ![k] = <<target[t], inits[target[t]]>>]
    /\ UNCHANGED <<idx, initialized, failed, replaceMode, holds, producers,
                   permitted, catalog, inits, target, slice, everFailed,
                   overlapped, dropped, retries>>

\* PIIProducerRegistry.Register appends, whatever is in the list already.
RegisterProducer(t) ==
    /\ pc[t] = "init"
    /\ Did(t, "producer", target[t])
    /\ producers' = [producers EXCEPT ![target[t]] = @ + 1]
    /\ UNCHANGED <<idx, initialized, failed, services, replaceMode, holds,
                   permitted, catalog, inits, target, slice, everFailed,
                   overlapped, dropped, retries>>

\* Init returns an error: fatal for a core module at boot, otherwise noted.
InitFails(t) ==
    /\ pc[t] = "init"
    /\ IF t = "boot" /\ target[t] \in Core
         THEN /\ phase' = "coreFailed"
              /\ UNCHANGED <<idx, failed, pc, left, everFailed>>
         ELSE /\ failed' = failed \cup {target[t]}
              /\ everFailed' = everFailed \cup {target[t]}
              /\ left' = [left EXCEPT ![t] = {}]
              /\ Goto(t, IF t = "boot" THEN "idle" ELSE "replaceOff")
              /\ idx' = IF t = "boot" THEN idx + 1 ELSE idx
              /\ UNCHANGED phase
    /\ UNCHANGED <<initialized, services, replaceMode, holds, producers,
                   permitted, catalog, inits, target, slice, overlapped,
                   retryPanic, dropped, retries>>

(***************************************************************************)
(* InitAll.                                                                *)
(***************************************************************************)
\* Mutant: consumers before producers.
BootInitReversed ==
    /\ phase = "boot" /\ pc["boot"] = "idle" /\ idx <= Len(Order)
    /\ CallInit("boot", Order[Len(Order) + 1 - idx])
    /\ UNCHANGED <<phase, idx, initialized, failed, services, replaceMode,
                   holds, producers, permitted, catalog, slice, history>>

BootInit ==
    /\ phase = "boot" /\ pc["boot"] = "idle" /\ idx <= Len(Order)
    /\ CallInit("boot", Order[idx])
    /\ UNCHANGED <<phase, idx, initialized, failed, services, replaceMode,
                   holds, producers, permitted, catalog, slice, history>>

BootInitDone ==
    /\ phase = "boot" /\ pc["boot"] = "init" /\ left["boot"] = {}
    /\ initialized' = initialized \cup {target["boot"]}
    /\ idx' = idx + 1
    /\ Goto("boot", "idle")
    /\ UNCHANGED <<phase, failed, services, replaceMode, holds, producers,
                   permitted, catalog, inits, target, left, slice, history>>

BootInitsDone ==
    /\ phase = "boot" /\ pc["boot"] = "idle" /\ idx > Len(Order)
    /\ idx' = 1
    /\ Goto("boot", "permissions")
    /\ UNCHANGED <<phase, initialized, failed, services, replaceMode, holds,
                   producers, permitted, catalog, inits, target, left, slice,
                   history>>

\* Mutant: a retry hands over the permissions of its own module only.
CollectOwnPermissions(t) ==
    /\ pc[t] = "permissions"
    /\ IF services[Authz] = NoService
         THEN /\ Goto(t, IF t = "boot" THEN "capabilities" ELSE "replaceOff")
              /\ UNCHANGED slice
         ELSE /\ Goto(t, "send")
              /\ slice' = [slice EXCEPT ![t] = {target[t]}]
    /\ UNCHANGED <<phase, idx, initialized, failed, services, replaceMode,
                   holds, producers, permitted, catalog, inits, target, left,
                   history>>

\* registerPermissions: nothing without an authz service, otherwise the
\* permissions of all initialized modules, in one call that may fail.
CollectPermissions(t) ==
    /\ pc[t] = "permissions"
    /\ IF services[Authz] = NoService
         THEN /\ Goto(t, IF t = "boot" THEN "capabilities" ELSE "replaceOff")
              /\ UNCHANGED slice
         ELSE /\ Goto(t, "send")
              /\ slice' = [slice EXCEPT ![t] = initialized]
    /\ UNCHANGED <<phase, idx, initialized, failed, services, replaceMode,
                   holds, producers, permitted, catalog, inits, target, left,
                   history>>

\* The authz service keeps them in its own store, an instance that replaces
\* another finds them there.
SendPermissions(t) ==
    /\ pc[t] = "send"
    /\ \/ permitted' = permitted \cup slice[t] /\ UNCHANGED dropped
       \/ dropped' = TRUE /\ UNCHANGED permitted
    /\ Goto(t, IF t = "boot" THEN "capabilities" ELSE "replaceOff")
    /\ UNCHANGED <<phase, idx, initialized, failed, services, replaceMode,
                   holds, producers, catalog, inits, target, left, slice,
                   everFailed, overlapped, retryPanic, retries>>

\* capability.Registry.Register: it stops at the first declaration that has
\* no ID or collides, and keeps those before it.
Valid(c) == c.id # "" /\ c.body # "noModule"

Accepts(caps, i) ==
    /\ Valid(caps[i])
    /\ catalog[caps[i].id] \in {Unknown, caps[i].body}
    /\ \A j \in 1 .. i - 1 : caps[j].id = caps[i].id => caps[j] = caps[i]

\* Mutant: one bad declaration and none is taken.
RegisterCapsAllOrNone(caps) ==
    IF \A i \in DOMAIN caps : Accepts(caps, i)
    THEN [id \in Ids |-> IF \E i \in DOMAIN caps : caps[i].id = id
                         THEN caps[CHOOSE i \in DOMAIN caps : caps[i].id = id].body
                         ELSE catalog[id]]
    ELSE catalog

\* Mutant: the catalog is the last module's.
RegisterCapsOnly(caps) ==
    [id \in {caps[i].id : i \in DOMAIN caps} |->
        caps[CHOOSE i \in DOMAIN caps : caps[i].id = id].body]

RegisterCaps(caps) ==
    LET taken == {i \in DOMAIN caps : \A j \in 1 .. i : Accepts(caps, j)}
    IN [id \in Ids |-> IF \E i \in taken : caps[i].id = id
                       THEN caps[CHOOSE i \in taken : caps[i].id = id].body
                       ELSE catalog[id]]

\* registerCapabilities walks the initialized modules; an error of one is
\* logged.
RegisterCapabilities ==
    /\ pc["boot"] = "capabilities" /\ idx <= Len(Order)
    /\ idx' = idx + 1
    /\ catalog' = IF Order[idx] \in initialized
                  THEN RegisterCaps(Capabilities[Order[idx]])
                  ELSE catalog
    /\ UNCHANGED <<phase, initialized, failed, services, replaceMode, holds,
                   producers, permitted, inits, threads, history>>

\* InitAll is done.  StartAll records the addons that fail to start in the
\* same map as those that failed to initialise.
StartAll ==
    /\ pc["boot"] = "capabilities" /\ idx > Len(Order)
    /\ phase' = "serving" /\ Goto("boot", "idle") /\ Forget("boot")
    /\ \E F \in SUBSET (initialized \ Core) :
            failed' = failed \cup F /\ everFailed' = everFailed \cup F
    /\ UNCHANGED <<idx, initialized, services, replaceMode, holds, producers,
                   permitted, catalog, inits, overlapped, retryPanic, dropped,
                   retries>>

(***************************************************************************)
(* RetryInit.                                                              *)
(***************************************************************************)
\* Mutant: Init is run again whether the module has failed or not.
CheckNothing(r, m) ==
    /\ phase = "serving" /\ pc[r] = "idle"
    /\ retries < MaxRetries /\ retries' = retries + 1
    /\ target' = [target EXCEPT ![r] = m]
    /\ Goto(r, "replaceOn")
    /\ overlapped' = (overlapped \/ \E s \in Retries : pc[s] # "idle")
    /\ UNCHANGED <<phase, idx, initialized, failed, services, replaceMode,
                   holds, producers, permitted, catalog, inits, left, slice,
                   everFailed, retryPanic, dropped>>

CheckFailed(r, m) ==
    /\ phase = "serving" /\ pc[r] = "idle"
    /\ m \in failed
    /\ retries < MaxRetries /\ retries' = retries + 1
    /\ target' = [target EXCEPT ![r] = m]
    /\ Goto(r, "replaceOn")
    /\ overlapped' = (overlapped \/ \E s \in Retries : pc[s] # "idle")
    /\ UNCHANGED <<phase, idx, initialized, failed, services, replaceMode,
                   holds, producers, permitted, catalog, inits, left, slice,
                   everFailed, retryPanic, dropped>>

\* Mutant: replace mode is not switched on.
ReplaceOnNever(r) ==
    /\ pc[r] = "replaceOn"
    /\ CallInit(r, target[r])
    /\ UNCHANGED <<phase, idx, initialized, failed, services, replaceMode,
                   holds, producers, permitted, catalog, slice, history>>

ReplaceOn(r) ==
    /\ pc[r] = "replaceOn"
    /\ replaceMode' = TRUE
    /\ CallInit(r, target[r])
    /\ UNCHANGED <<phase, idx, initialized, failed, services, holds, producers,
                   permitted, catalog, slice, history>>

\* Init succeeded: the failure is deleted and r.initialized read, without
\* the lock, for the append.
RetryInitDone(r) ==
    /\ pc[r] = "init" /\ left[r] = {}
    /\ failed' = failed \ {target[r]}
    /\ slice' = [slice EXCEPT ![r] = initialized]
    /\ Goto(r, "append")
    /\ UNCHANGED <<phase, idx, initialized, services, replaceMode, holds,
                   producers, permitted, catalog, inits, target, left, history>>

AppendInitialized(r) ==
    /\ pc[r] = "append"
    /\ initialized' = slice[r] \cup {target[r]}
    /\ Goto(r, "permissions")
    /\ UNCHANGED <<phase, idx, failed, services, replaceMode, holds, producers,
                   permitted, catalog, inits, target, left, slice, history>>

\* Mutant: switched off after a success, not by a deferred call.
ReplaceOffOnSuccess(r) ==
    /\ pc[r] = "replaceOff"
    /\ replaceMode' = (replaceMode /\ target[r] \in failed)
    /\ Goto(r, "idle") /\ Forget(r)
    /\ UNCHANGED <<phase, idx, initialized, failed, services, holds, producers,
                   permitted, catalog, inits, history>>

ReplaceOff(r) ==
    /\ pc[r] = "replaceOff"
    /\ replaceMode' = FALSE
    /\ Goto(r, "idle") /\ Forget(r)
    /\ UNCHANGED <<phase, idx, initialized, failed, services, holds, producers,
                   permitted, catalog, inits, history>>

\* The commit of StopModule and of StartModule forgets the failure.
ForgetFailure(m) ==
    /\ phase = "serving" /\ m \in failed
    /\ failed' = failed \ {m}
    /\ UNCHANGED <<phase, idx, initialized, services, replaceMode, holds,
                   producers, permitted, catalog, inits, threads, history>>

Next ==
    \/ BootInit \/ BootInitDone \/ BootInitsDone \/ RegisterCapabilities
    \/ StartAll
    \/ /\ phase \in {"boot", "serving"}
       /\ \E t \in Threads :
            \/ \E k \in Keys : Get(t, k) \/ Register(t, k)
            \/ RegisterProducer(t) \/ InitFails(t)
            \/ CollectPermissions(t) \/ SendPermissions(t)
    \/ \E r \in Retries :
            \/ \E m \in Modules : CheckFailed(r, m)
            \/ ReplaceOn(r) \/ RetryInitDone(r) \/ AppendInitialized(r)
            \/ ReplaceOff(r)
    \/ \E m \in Modules : ForgetFailure(m)

Spec == Init /\ [][Next]_vars

(***************************************************************************)
(* Properties.                                                             *)
(***************************************************************************)
Quiet == phase = "serving" /\ \A t \in Threads : pc[t] = "idle"

\* The boot ends for a core module that fails and for nothing else: no
\* Register finds its key taken, no MustGet misses a service, although the
\* modules in between fail anywhere in their Init.
NoBootPanic == phase # "panicked"

\* Replacing services is possible while a retry is under way and at no
\* other time, whether retries succeed, fail or panic, and in any overlap.
ReplaceModeEnds == replaceMode => \E r \in Retries : pc[r] # "idle"

\* Retries that come one at a time register all their services again.
SerialRetriesDoNotPanic == retryPanic => overlapped

\* A module holds the registered service of each of its dependencies, and
\* not an earlier one or none, as long as the dependency has never failed.
HoldsCurrent ==
    \A m \in initialized, p \in initialized \ everFailed :
        p \in DependsOn[m] =>
            \A k \in Resolves[m] \cap Provides[p] :
                holds[m][k] # NoService /\ holds[m][k] = services[k]

\* The authz service has the permissions of every module in r.initialized,
\* whichever module brought it up and whatever was initialized meanwhile,
\* once that module has passed Init and unless the service refused them.
PermissionsSeeded ==
    /\ Quiet /\ ~dropped
    /\ \E p \in initialized : Authz \in Provides[p]
    => initialized \subseteq permitted

\* A capability of a module that passed Init at boot is in the catalog as
\* declared, except behind a declaration of that module which is not valid
\* or which an earlier module, or the module itself, has made with another
\* body: the first one wins.
CatalogExplained ==
    phase = "serving" =>
        \A n \in DOMAIN Order :
            LET caps == Capabilities[Order[n]] IN
            Order[n] \in initialized \ everFailed =>
                \A i \in DOMAIN caps :
                    \/ catalog[caps[i].id] = caps[i].body
                    \/ \E j \in 1 .. i :
                        \/ ~Valid(caps[j])
                        \/ \E e \in 1 .. n :
                              /\ catalog[caps[j].id] # caps[j].body
                              /\ [id |-> caps[j].id, body |-> catalog[caps[j].id]]
                                    \in Range(Capabilities[Order[e]])

(***************************************************************************)
(* What comments say and the code does not do.                             *)
(***************************************************************************)
\* "Uses ServiceRegistry.Replace() so re-registration doesn't panic"
\* (registry.go:513).
RetryNeverPanics == ~retryPanic
=============================================================================
