# TLA+ models of orkestra-sdk

orkestra-sdk is the Go library an Orkestra host process is built from: a host
registers *modules*, the SDK seeds their configuration documents, orders and
initialises them, starts their jobs and containers, lets an administrator turn
them on and off while the process serves requests, and gates the routes of the
modules that are off. This directory holds TLA+ models of that machinery, TLC
configurations that check them on small instances, and TLAPS proofs: each safety
property that a run checks and the code keeps is also a theorem for all values of
the constants. Paths below are relative to the repository root.

Contents: 1 inventory, 2 the models, 3 the runs, 4 fairness, 5 the proofs,
6 where code and comments disagree, 7 what is not modelled, 8 plan.

## 1. Inventory

| Component | State it keeps | Operations | Modelled by |
|---|---|---|---|
| Module registry (`module/registry.go`) | `modules`, `moduleByName`, `initialized`, `failed`, `started`; the jobs and containers of the modules | `InitAll`, `StartAll`, `StopAll`, `StartModule`, `StopModule`, `RetryInit`, `CheckCanDisable`, `HealthCheckAll`, `ensureCollections` | `ModuleLifecycle`; what Inits do to the other registries in `ServiceWiring`; `ensureCollections` in `MongoSetup` |
| Registration order (`topoSort`, `RegisterAll`) | local to one call | Kahn's algorithm over `Dependencies()` | `TopoSort` |
| Admin handler (`module/handler.go`) | none of its own; drives registry and config service | `UpdateModule`, environment endpoints, listings | `ModuleLifecycle` (start and stop), `ConfigStore` (values) |
| Module gate (`modulegate/`, `IsEnabled`) | answers in Redis, 30 s TTL | `IsEnabled`, `UpdateEnabled`, `InvalidateCache` | `EnabledCache`, contract in `ModuleGate` |
| Config store (`config_service.go`, `config_repository.go`, `config_model.go`) | one MongoDB document per module: `enabled`, `needsRestart`, values, encrypted secrets, environments, active environment | `UpdateConfig`, `UpdateEnvironmentConfig`, `SetActiveEnvironment`, `ensureEnvironments` | `enabled` and its `needsRestart` in `ModuleLifecycle`; values, secrets, environments and their `needsRestart` in `ConfigStore` |
| Config seeding (`config_service.go`) | the same documents, through restarts | `SeedFromModules`, `RefreshMetadata`, `RegisterKnownModules`, `lazySeed`, profile override | `ConfigSeeding`; `needsRestart` in `ModuleLifecycle` |
| Unmarshalling and secrets (`config_unmarshal.go`, `secrets.go`) | none | precedence of stored value, env var and default; conversion to Go types; sealing | precedence and sealing in `ConfigSeeding`, bool, int and duration in `ConfigTypes` |
| Service registry (`services.go`) | key to service map, `replaceMode` | `Register`, `Get`, `MustGet`, `SetReplaceMode` | `ServiceWiring` |
| Capability registry (`capability/`) | id to capability map | `Register`, lookups | `ServiceWiring` |
| Metrics (`metrics/`) | collectors, registered flag, last applies, lag gauge | `Register`, `RecordEntitlementApply`, `Start`, recorders | `Metrics` (all but the counters) |
| Tenant scoping (`tenantrepo/`, `ctxauth/`) | none, values in the request context | filters and stamps | `TenantScope` |
| Interfaces (`iface/`, `module.go`, `types.go`) | OAuth links of a user, list of personal-data producers | `AddOAuthLink`, `RemoveOAuthLink`, `SetPrimaryOAuthLink`; `PIIProducerRegistry.Register` | `OAuthLinks`, `ServiceWiring` |

How they interact. The host calls `RegisterAll` (which sorts), `SeedFromModules`,
`InitAll`, `StartAll` with the names it takes from `FindEnabledAddonNames`, and
at the end, with its HTTP server drained, `StopAll`. In between each admin
request is a goroutine in `UpdateModule` that calls the config service (MongoDB,
then a Redis delete) and the registry. Every request to an addon's routes goes
through the gate, which asks `IsEnabled` (Redis, else MongoDB).

What is hard here:

* *Concurrency.* The registry's mutex protects single map accesses. `Init`,
  `Start`, `Stop`, container operations and the append to `r.initialized` run
  outside it, so two requests interleave at every one of them.
* *Partial failure.* A request is a dozen steps over MongoDB, Redis, Docker and
  the module's own code. Each may fail and there is no transaction.
* *Three places that must agree.* The document (what should run), the registry's
  maps (what it thinks runs) and the jobs and containers (what runs).
* *Crashes.* Documents and containers survive the process, its maps do not, and the
  next process may come with another binary, profile, environment and encryption key.
* *Retries.* An Init that failed half way is run again while others are, over the
  services it has registered already, in a registry with one switch for all.
* *Stale values.* The enabled cache, and documents read at the start of a
  request and written back at its end.

What makes each component correct, in one line each: jobs run once per started
module and never over missing containers; the document agrees with the process
or says a restart is due; core modules run whatever is requested; replies tell
the truth; boot acts on the documents; requests and boot finish; the gate only
gives answers that are or were recently the setting, and converges; a module
whose values changed under it says so, environments do not leak into each other
and an update changes what it was sent; a setting keeps its meaning through
restarts until somebody changes it, and means the same to every reader; producers
come before consumers and cycles are refused; no Init misses the service of a
dependency, and a retry gives back what the failure took; a user has one primary
link; a scrape is not behind a finished apply; a tenant sees its own documents. The
hazards, with the lines where
they bite, are listed in `PROJECT.json`.

## 2. The models

**ModuleLifecycle** follows the host process from boot to exit, again and again.
`phase` and `idx` are the program counter and loop index of InitAll, StartAll and
StopAll. `initialized`, `failed`, `started` are the registry's fields of those
names, `startSet` what the host passed to StartAll. `jobs[m]` counts calls of `Start` of m not
undone by a `Stop`; it is what the fields are supposed to describe. `docs` is the
MongoDB collection reduced to `enabled` and `needsRestart`, `infra` the running
containers. Both survive `Crash` and `Exit`, everything else is lost.

An admin request h is at `pc[h]`, and each label is one critical section or one
external call of `UpdateModule`, so requests interleave wherever the code lets
them: `CheckCanDisable`, `UpdateEnabled` (document write and invalidation), `CheckFailed`,
`RetryInit`, `RunInit`, `ReadInitialized`/`AppendInitialized` (the two halves of the
unlocked `append`), `StartModule`, `StartInfra`, `StartJobs`, `CommitStart`,
`StopModule`, `StopJobs`, `StopInfra`, `CommitStop`, `ClearNeedsRestart`,
`UpdateConfig`, `HotClear`. Actions carry the name of the function they come from;
where one function is several steps the name says which. Whatever can fail has a
second disjunct with `Fault`, which counts against `MaxFaults` and leaves what
the code leaves: the first k containers up, the document written but the request
ended, the started flag still there after a failing Stop. The module's own code
decides what such a Stop has done before it returned its error: one that cancels its
workers and returns `ctx.Err()` has ended them, one that gives up early has not. So a
failing `StopJobs` (and a failing Stop in StopAll, `StopNext`) either ends the jobs or
leaves them. A failing Start is taken to leave no job behind.

`lateSeeded` and `stopErred` are history variables: the modules whose document
`lazySeed` rewrote while the process served, and those whose Stop returned an error and
that were not stopped with success since. `AtRest` says how the jobs of a module nobody
toggles go with its started flag: one set if started, none if not; only for a module in
`stopErred` may they be gone with the flag still set. `SerializedToggles` says whether the clients send
requests on one module one after the other. The code does not enforce it; section 6
says what happens when they do not.

**LifecycleInvariant** states the inductive invariant of ModuleLifecycle in parts;
**ModuleLifecycleProofs** proves it and its consequences. The other proofs are in
**ConfigStoreProofs**, **EnabledCacheProofs**, **ServiceWiringProofs** and
**WiringStateProofs** (both about ServiceWiring), **TopoSortProofs**,
**ConfigSeedingProofs** and **PartsProofs** (the five models of the run `parts`).

**ModuleGate** is the abstract contract of the gate: a setting per module, a set of
settings an answer may be based on, forgetting. **EnabledCache** is the design:
documents, Redis entries, `IsEnabled` calls in three steps (cache, MongoDB, fill)
and `UpdateEnabled` calls in two (write, invalidate), with the TTL as an action. Lazy
seeding is two steps (`FindMissing`, `LazySeed`): what it upserts may go over whatever
has been stored since it found no document.
The refinement mapping makes a setting visible when it is the document's, or is
in Redis, or is held by a call that has read it and not yet stored it.

**ConfigStore** is the rest of the document, for one module (no step of these
requests looks at two). `environments` and `active` are the two environments and
the chosen one, `legacy` the copy of it at the top of the document, `migrated`
says that the document has environments at all, `loaded` is what the module read
when it was initialised. A value is the pair of the environment and the number of the request
that sent it: nothing else of it matters. A request reads the document into
`base` (`Get`), migrates it if nobody has (`Migrate`), and writes its parts one by
one: `Raise`, `Clear` (the toggle), `WriteLegacy`, `ReadActive`, `WriteActive`
(UpdateConfig), `WriteEnvironment`, `SetActive`, `SyncLegacy`, `Done`, and the
second `GetConfig` of UpdateModule, `Reread`. `Merged` is the merge, with the
difference the code makes: UpdateModule merges config values and replaces
secrets. `Restart` ends the process wherever its requests are. `calm` and
`toggled` are history variables: no failure and no overlap so far, a toggle has
lowered the flag since boot. The start or stop behind a toggle, wipes and lazy
seeding are left to ModuleLifecycle and EnabledCache. A document from before the
environments starts with `migrated` false.

**TopoSort** is the loop structure of `topoSort`: seeding the queue, popping,
relaxing the dependents, and the count that decides between a result and a cycle.
The module names of the batch are distinct and a dependency list is taken as a set.
**RegistrationOrder** has the one definition by which TopoSort's result and ServiceWiring's
order are compared.

**ServiceWiring** is what the Inits do. An Init belongs to a host's module; what is
known of it is which keys it registers, gets and insists on (`Provides`, `Resolves`,
`Requires`), so here it is a set of such operations (`left`), done in any order and
failing or panicking after any of them. `services` maps a key to an instance, a
module and the number of the Init call that made it, so an outdated service can be
told from the current one; `holds` is what each module got. The thread "boot" goes
through InitAll (`BootInit`, `BootInitDone`, `CollectPermissions`, `SendPermissions`,
`RegisterCapabilities`, `StartAll`), each retry through RetryInit (`CheckFailed`,
`ReplaceOn`, the Init, `RetryInitDone`, `AppendInitialized`, the permissions again,
`ReplaceOff`, which is deferred and so also follows a failure or a panic).
`RegisterCaps` is `capability.Registry.Register`: it stops at the first declaration
that does not fit and keeps those before it. `permitted` is the catalog that the authz service keeps in its
store, so an instance that replaces another takes it over. `OrderAssumption` is what TopoSort
guarantees of the order, together with the rule of `services.go` that `MustGet` is
for hard dependencies; the rule is taken to mean core modules, as an addon's Init
may fail without ending the boot.

**ConfigSeeding** follows documents through process lives. `process` is what differs
between them: the binary with its schema, `ORKESTRA_PROFILE`, env vars, encryption
key. `SeedFromModules` creates a document (`Upsert` of `InitialDoc`) or refreshes
its schema, one module a step; `FindMissing` and `LazySeed` are the two halves of
the lazy path, between which another request may have created and edited the
document. Any number of requests may be between the two, so a module that was found
missing once stays in `seeding` until the process ends (in the three models that have
lazy seeding). An administrator toggles, switches environments, and edits by one of two ways:
`StoreSetting` (the endpoint of one environment) merges, `UpdateModule` merges values and
replaces all secrets of the active environment; the secrets it wipes count as edited. A secret is stored with the key it was sealed with. `GetValue`,
`GetSecret` and `Resolve` (the unmarshaller) are the three readers. `firstRead`,
`origin`, `toggled` and `edited` are history variables.

**MongoSetup** is `ensureCollections` with `retryTransient`, in time units of 200 ms.
MongoDB is usable from `outage` on and then answers at once. An attempt before that
fails at once or hangs until its own timeout or the shared deadline, either way with an error that is worth a
retry (`Transient`) or that is final (`Refused`).

**OAuthLinks** is the list of links in `user_types.go` with `chosen`, what should be
primary. **Metrics** is the lag gauge, with its lock and the ticker, and the
compare-and-swap in `Register`. **ConfigTypes** has the two conversions of a raw
setting, `Dependencies.GetConfig...` and `assignField`, with the integer widths.
**TenantScope** has the helpers of `tenantrepo` between the context and a MongoDB that
evaluates filters and pipelines of `$match` and `$limit` stages. **MCParts** checks these five in one run: a
behaviour is of one of them, and the others stand still.

MC modules give the constants; definitions called "Mutant" beside a definition
are deliberately wrong versions of it, used by no run: each property is tested
for being able to fail by putting one of them in place.

## 3. The runs

| Run | Instance | Question |
|---|---|---|
| `lifecycle` | core, a (one container), b (depends on a, hot-reload); 2 requests, 1 failure anywhere; 599 000 states | Do processes, documents, containers and replies stay in step? |
| `lifecycle_serial` | same modules, no hot reload, 1 request at a time, 2 failures, fairness; 822 000 states | Through sequences of failure, crash, retry and stop: no module is stopped under its dependents; every request is answered, every boot gets to serving |
| `gate` | a core module and an addon, 2 `IsEnabled` calls, 1 admin, Redis and MongoDB failing at will, 2 writes or wipes; 135 000 states | Does the cache implement the gate, do answers converge? |
| `toposort` | every dependency graph over 3 modules and a name outside | Order, completeness, verdict, termination |
| `config` | either a value and a secret, 1 request at a time, 3 updates (2 on a hot-reload module), or a value, 2 requests over each other, 2 updates, 1 failure | Does the legacy copy follow the active environment, do values stay in their environment, is what was not sent kept, does a module that runs with old values show it? |
| `wiring` | core, a (the authz service), b (uses both); Inits that fail anywhere, 3 retries in 2 goroutines, bad and colliding capabilities; 1.95 million states | Do Inits find what they depend on, does replace mode end, are permissions and capabilities complete after retries? |
| `seeding` | core, the dev module, an addon with settings and one that is only known (no document until somebody asks for it); a value and a secret; 2 process lives, 2 updates, 1 failure or wipe; 2.12 million states | Do toggles and settings survive restarts with another profile, binary, env or key, and do all readers agree? |
| `parts` | 3 collections and 13 outages; 4 links; 2 appliers, a ticker, 3 registrars, 4 families; integers of 4 bits; 2 tenants, 3 documents, pipelines of up to 2 stages; 849 000 states | Is setup done in time and complete, is there one primary link, is the gauge fresh, do typed reads agree, are tenants apart? |
| `retry_skipped`, `stop_error` | 1 request, 1 failure | Comments the code does not keep (section 6) |
| `secrets_wiped` | 1 request, no failure | The same |
| `replace_race` | 2 overlapping retries | The same |

Why the bounds are enough. Three modules give every role that the code tells
apart: core, addon with a container, addon with a dependency. Two requests give
every pairwise interleaving of steps, and no step looks at more than one other
module. A failure leaves at most one module in a half-way state, so one failure
under two requests and two failures under one reach crash after partial start,
retry after failed retry, and stop after failed stop. In `gate` two writes are enough for a setting to
change and change back, and two calls for one to fill behind the other. In
`config` three updates reach both environments and one of them twice, with
switches and restarts between them; keys do not influence each other,
so one of each kind is enough; requests over each other are checked with a value alone,
one update in each of them. In `wiring` three retries are one module retried
twice, or two modules with one of them failing again, and two goroutines make every
overlap of the flag. In `seeding` two lives differ in everything a life can differ in
(no profile, one that lists addons and one that lists all; env vars set or not; no
key, the same or another; a binary without one of the settings), though not in every
combination (`MCProcesses`), two updates set a value and
switch or toggle, one failure hits boot or the lazy path. In `parts` the outages lie
around every bound of the retry loop: within one wait, within the doubling, at the cap,
at one and at two attempts' timeouts, at the last one that can be survived (17 s)
and behind it, and after the deadline; the integers at both sides of two widths;
three registrars give one that wins and two that lose, two appliers and the ticker every
pair of writers of the gauge. The proofs remove the bounds where there are any.

## 4. Fairness

`Fairness` of ModuleLifecycle is weak fairness of the boot loop, of the shutdown
loop and of every request's goroutine: they are Go code that runs on, and the
external calls in them either return or fail (`startInfraContainers` waits at most
`ReadyTimeout`, Mongo and Redis calls carry deadlines). A module whose `Start`
never returns is outside this assumption. Restart after exit (`Boot`) is the work of the
host's supervisor. Nothing is assumed of crashes, wipes, new requests, shutdown
or lazy seeding. In EnabledCache calls under way finish and Redis expires keys. TopoSort
is one loop that runs on. The other models state safety only and assume nothing.

## 5. The proofs

`ModuleLifecycleProofs` proves, for any set of modules, dependency relation,
containers, number of requests and failures:

* `TypeCorrect`: `Spec => []TypeOK`, from `LifecycleAssumption` alone.
* `Invariant`: `Spec => []Ind`, if requests on one module are serialized
  (`SerializedToggles`). Without that assumption JobsMatchStarted is false (section 6).
  It covers what a failing Stop leaves, with either outcome.
* from it `JobsMatch`, `ContainersUnderJobs`, `EnabledIsStarted`,
  `CoreKeepsRunning`, `HonestReplies`, and the action property `BootActsOnDocs`.
* `DependentsSafe`: with one request at a time (`[]OneRequest`, what `lifecycle_serial`
  checks with one handler), no module is stopped under a started dependent. With two
  requests it is false, as TLC shows with the constants of `Lifecycle.cfg` and without its
  symmetry: `CheckCanDisable` and the commit of `StopModule` are separate
  critical sections, and an enable of the dependent fits in between. The invariant is `Guarded`: what `CheckCanDisable` saw
  of the dependents still holds at every label between it and the commit.
* `RequestsRunOut` and `LoopsRunOut`, with any overlap and failures: each step of a
  request lowers `StepsLeft` of its label (12 at most) and nobody else's step raises
  it; each pass of InitAll, StartAll and StopAll lowers `PassesLeft` or the process
  ends. They are the parts of `RequestsSettle` and `ServesAgain` that need neither
  fairness nor ENABLED: what remains of these is that a step that is due is enabled.

The safety properties are not inductive by themselves. "Jobs match the started
flag unless a request is about the module" says nothing about a request in the
middle, so `JobsAt(h)` says label by label what jobs, flag and containers of the
target are, and `Between` names the labels where they disagree; at any other the target
is `AtRest`. A failing Stop may leave the flag without jobs, never jobs without
containers (`JobsUp`), and it is never a core module's (`ErredAddons`). `EnabledInSync`
needs `DocAt(h)`: while an enable is under way its document says that a restart is
due. `BootReconciles` needs the loop invariants of InitAll and StartAll
(`InitProgress`, `StartProgress`). `CoreUntouched` needs `CoreStarted` and
`TogglesAddons`. The proof first shows `Shape` (types, targets, quiet outside
serving) preserved by every step, then each remaining part: one lemma per part and
group of actions. A request's step changes one module's jobs, flag, document and
containers, and the lemma that frames this (nothing of any other module, nor of
any other request, is touched) is used by all of them.

`ConfigStoreProofs` proves the five properties of ConfigStore for any keys, any
number of requests, updates and failures (assumption: `StoreAssumption`, the
types of the constants).

* `StoreTypeCorrect`: `Spec => []TypeOK`.
* `RestartIsFlagged`: with any overlap and failures. The invariant `FlagInv` adds
  what a request about to migrate holds: as long as the flag is down and no
  toggle lowered it, every such request has read the values the module was
  initialised with, so that migrating twice, the second time over values somebody has stored
  since, is either harmless or happens with the flag up.
* `LegacyStaysInSync`, `EnvironmentsStayApart`, `OthersAreKept`: while `calm`. Between
  requests the legacy copy equals the active environment, in the middle of one it does not:
  `CalmAt(r)` says label by label how far apart they are and that `base[r]` is what
  will be written under (`CalmInv`). `TagInv` adds that what a request was sent is for
  the environment it writes; both together give that values do not cross.

`EnabledCacheProofs` proves `CacheImplementsGate`, that EnabledCache implements
ModuleGate, for any modules, calls, admins and failures. `CacheInv` adds to the
types that no call about a core module goes to MongoDB. Each action is then a
`Change` or an `Answer` of the gate or a stutter, and what has to be shown of each is
the same, `NothingReturns`: no setting becomes visible but the one in force. What
`ReadMongo` holds and `Fill` stores was in force or held before.

`PartsProofs` has the five small models.

* *MongoSetup.* `BootNotHeldUp` proves `SetupInTime`. `OutageOutlasted` proves
  `OutageSurvived` for any list of collections and any limits of which one thing is
  true: the waits between the attempts add up to the deadline less one operation's
  timeout and one wait. The sum is given as a function `total` with `TotalWaits(total)`,
  as it cannot be computed by recursion in a proof. `CodeOutlastsOutage` shows it of
  the limits in `registry.go` (10 attempts, 200 ms doubling up to 3 s, 10 s an
  operation, 30 s in all), which leaves 17 s. The invariant `OnTime` says that as long
  as MongoDB is down the k-th attempt is not made before the k-1 waits are over, so that the
  last one is not used up too early; `Covering`, that all before the current
  operation is made or refused.
* *OAuthLinks.* `OnePrimary`, for lists of any length. `PrimaryIsChosen` is inductive; the
  work is in what the list operations keep (`OnlyPrimaryLinks`, `WithoutLinks`).
* *Metrics.* `GaugeFresh`, for any kinds and goroutines and unbounded time: whoever
  sets values took the time after every apply it sees and has set what it has passed
  (`RefreshAt`), because `Apply` waits for the readers. `RegistrationComplete`, for any number
  of families and callers: only the winner of the compare-and-swap is in the loop, and
  what is collected is what it has passed (`RegisterInv`).
* *ConfigTypes.* `TypedReadsSame`, for all settings and widths. `TypesAssumption`
  says that no field is wider than an int, as Go's 64-bit builds have it, and says
  it of the powers themselves: that 2^n grows with n is an induction.
* *TenantScope.* `TenantsAreApart`, for any documents and for pipelines of any length.
  `ScopeAggregate` puts one stage in front, which leaves the tenant's own documents
  (`OwnFirst`); each later stage then sees what the same stage sees without the scope
  (`ScopedAggregate`). A pipeline is a recursion; that this holds after n stages for all n,
  and that `Evaluate` is what its definition says (`ThroughExists`), is shown by
  a least counterexample (`Least`).

`ServiceWiringProofs` proves `NoBootPanic`, `ReplaceModeEnds` and
`SerialRetriesDoNotPanic` for any modules, Inits and number of retries, from
`WiringAssumption` and `OrderAssumption`, which takes the modules to be in a
topological order (`Topological` in RegistrationOrder). `WireInv` says what InitAll has behind
it (`Looping`): the core modules before idx have registered all they provide, and
what is registered comes from before idx or from the Init under way. With the order
a `MustGet` of a core dependency then finds it and a `Register` finds its key free.
`RetryInv` ties replace mode to the retries under way.

`WiringStateProofs` adds to it what boot and retries leave behind, from the same
assumptions: `WiringTypeCorrect`, `HoldingsAreCurrent`, `PermissionsAreSeeded` and
`CatalogIsExplained`. The invariants are, on top of `WireInv`:

* `Progress`, how far InitAll has come: a module before idx is initialized or has failed,
  and an append that writes over another one loses no module but such as have failed.
* `Wired`, for `HoldsCurrent`: an Init under way has got the current instance of each
  service it is through with (`OnItsWay`), and no later Init replaces the services of
  a module that came up at boot and has not failed since (`SettledServices`).
* `Permitting`: the permissions of an initialized module are with the authz service,
  or in the list that a thread is about to send, or some thread is about to
  collect that list.
* `Cataloging`: each declaration up to idx is registered as declared, or something
  before it explains why not. `RegisterCaps` stops at the first declaration that does not
  fit; that there is a first one is `Least`.

`TopoSortProofs` discharges that: `ResultIsTopological`, what `topoSort` returns is such
an order. It follows from `ProducersFirst` and `VerdictRight` for every batch and every dependency relation. The
invariant says that `inDegree[n]` is the cardinality of what n waits for
(`DegreeCounts`), where during the relax loop the current module counts for those still
`Ahead` of the index, and that a module is in the queue or the result exactly when
that is empty. That a reported cycle is one follows from what is left over; that an
accepted batch has none, from `NoneStuck`: no module of a cycle is ever sorted.
`PassesRunOut` bounds the passes of its loops, the part of `Terminates` that needs
no fairness.

`ConfigSeedingProofs` proves the six properties of ConfigSeeding for any modules,
schemas, profiles, processes and failures. `DocStep` says once what a step can do to one
module's document and to its history (created, refreshed, toggled, edited, switched,
gone or nothing); each property is then shown for those cases. `SettingsStick` needs
`Carries`, how a stored value and the first reading go together for values and for
sealed secrets; `SchemaCurrent` a loop invariant of SeedFromModules. `SeedingAssumption`
says of `profileAddons` that `"*"` stands alone in its list, as the map at
`config_service.go:25` has it.

Only model-checked: the liveness properties `RequestsSettle` and `ServesAgain`
(ModuleLifecycle), `Converges` (the gate) and `Terminates` (TopoSort), because reasoning
from fairness goes through ENABLED, which the prover does not have. For three of
them the bound on the steps is proved, see above; for `Converges` there is none, as
an administrator may go on writing for ever. Induction over data is
out of reach as a rule (the library's induction theorems take a predicate as a
parameter); where a concrete predicate on numbers sufficed it is replaced by a least
counterexample.

## 6. Where code and comments disagree

With a run that shows it:

* `retry_skipped`: failed Init, disable, enable. `StopModule` deletes the failure
  (`registry.go:477`, "re-enable will retry cleanly"), so the enable does not retry
  Init and starts the module, and `StopAll` never stops it.
* `stop_error`: after a failing Stop the document says disabled with nothing
  pending and the module may run on, against `registry.go:454`.
* `secrets_wiped`: `handler.go:274` promises not to wipe unset fields. Config values are
  merged; the secrets given to `UpdateConfig` are those of the request alone, and it
  replaces what is stored: an update without secrets deletes all of the active environment.
* `replace_race`: `RetryInit` "doesn't panic" on registering again (`registry.go:513`).
  Replace mode is one flag: the retry that ends first switches it off under the other.

Without a run of their own; the definition that states the comment is in the module,
and TLC refutes it under the constants named:

* Two enables of one module both call Start, although `registry.go:411` calls
  StartModule idempotent (`StartIdempotent` in ModuleLifecycle, with
  `SerializedToggles = FALSE`).
* An enable is answered with success and nothing runs: a Stop that ended the jobs and
  returned an error leaves `r.started` set (`registry.go:466`), so the next enable finds the module
  started (`registry.go:414`) and does nothing, against "Start the module's background
  jobs" (`handler.go:237`) (`EnabledRuns` in ModuleLifecycle, with the constants of
  `StopError.cfg`). `JobsMatchStarted` and `RepliesHonest` say what is left: it takes such
  a Stop, and it lasts no longer than to the next disable whose Stop succeeds.
* `InvalidateCache` is said to force the next call to MongoDB
  (`config_service.go:594`); a call that had read before the write fills Redis
  with the old answer afterwards (`FreshAfterInvalidate` in EnabledCache, with no
  failures). The TTL repairs it, which `Converges` shows.
* `needsRestart` is "true when config changed post-init"
  (`config_model.go:34`). An enable request on a module that runs already changes
  nothing in it and then clears the flag (`FlagHonest` in ConfigStore, with the constants of
  `SecretsWiped.cfg`). `RestartFlagged` states what is left: without
  such a toggle the flag is honest.
* `fallbackFromSchema` is said to search the schemas (`config_service.go:662`) and
  returns the empty string (`FallbackFindsDefaults` in ConfigSeeding).

Seen in the text of the code:

* The comments at `config_unmarshal.go:16` and `:137` put the schema default before the env
  var; the code, like the accessors, has it the other way round.
* `parseBool` trims and lowercases, `GetConfigBool` does not, against the comment at
  `config_unmarshal.go:256`. `TypedReadsAgree` is about values written plainly.
* `failed` holds failed Starts as well as failed Inits, so an enable after a failed Start
  runs Init again and lists the module in `initialized` twice (`registry.go:543`);
  `StopAll` then calls its Stop twice.
* Capabilities are registered at boot only: those of a module that comes up with a
  retry stay unknown. `CatalogExplained` leaves such modules out.
* `lazySeed` upserts over whatever is there by then, an administrator's edit included.
  The histories of ConfigSeeding treat such a document as a new one.

## 7. Not modelled, and why

* The host's `main`: not in the repository. The start set, the draining of HTTP before
  `StopAll` and the restart by a supervisor are taken from how `registry.go` and
  the doc comments use them, and marked external in `PROJECT.json`. So are the
  modules' Inits as far as no registry is concerned.
* Health checks, navigation items, OpenAPI documents, listings:
  I/O or reads that change no state the properties speak of.
* `buildIndexModels` and what an index looks like; a MongoDB that is up but slow
  (three attempts that time out then use up the 30 s).
* Aggregation stages that read further collections (`$lookup`, `$unionWith`):
  `ScopeAggregate` (`tenantrepo/scope.go:105`) scopes the first stage and lets them
  through, so what they join is up to the caller.
* A `MustGet` of an addon's service, which panics when that addon has failed:
  `OrderAssumption` excludes it, as the rule of `services.go` does.
* The mapping of struct fields to keys, enum and string list fields in
  `config_unmarshal.go`: reflection without state. AES-GCM in `secrets.go`: a sealed
  secret is a pair of value and key.
* A service of the wrong type under a key (`GetTyped`, `MustGetTyped`): Go's type
  assertion decides it alone.
* The Prometheus counters and histograms, which the client library keeps.
* `RequireInternalTenant`, `RequireExternalTenant` and the plain accessors of `ctxauth`.
* The type declarations of `iface/`.

## 8. Plan

Done: the lifecycle, the gate with its refinement, the ordering, ConfigStore,
ServiceWiring, ConfigSeeding and the small components in `parts`, each checked, and
proved as far as safety goes. Next:

1. What of `DependentsProtected` is true with requests over each other: whether a dependent
   is started while its dependency is being stopped, step by step.
2. The order of modules in ModuleLifecycle as `Topological` too, and from it that boot
   starts no module before its dependencies.
