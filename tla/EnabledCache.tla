----------------------------- MODULE EnabledCache -----------------------------
(***************************************************************************)
(* ModuleConfigService.IsEnabled, the check behind ModuleGate on every     *)
(* request to an addon's routes: a read-through cache in Redis (30 s TTL)  *)
(* over the documents in MongoDB, with UpdateEnabled and InvalidateCache   *)
(* writing beside it.  Reading a document and storing the answer in Redis  *)
(* are two steps, and so are writing a document and dropping the answer.   *)
(***************************************************************************)
EXTENDS Naturals

CONSTANTS
    Modules, Core,
    Requests,   \* concurrent IsEnabled calls
    Admins,     \* concurrent UpdateEnabled calls
    Faults,     \* what may fail: a subset of {"redis", "mongo", "wipe"}
    MaxWrites,  \* bound: document writes and wipes in one behaviour
    SeedDefault \* the enabled field buildInitialConfig gives each module

Settings == {"on", "off"}

ASSUME CacheAssumption ==
    /\ Core \subseteq Modules
    /\ Faults \subseteq {"redis", "mongo", "wipe"}
    /\ MaxWrites \in Nat
    /\ SeedDefault \in [Modules -> Settings]

VARIABLES
    db,      \* MongoDB: the enabled field, or "none" when no document
    cache,   \* Redis: the stored answer, or "miss"
    rpc,     \* each IsEnabled call: "idle", "mongo" (missed), "fill" (read)
    rmod,    \* the module it asks about
    rval,    \* the document's value it holds while filling
    asked, answer, \* the last answer each request got, and about what
    wpc,     \* each UpdateEnabled call: "idle" or "invalidate"
    wmod,    \* the module it is about
    writes,  \* document writes so far, bounded by MaxWrites
    seeding  \* modules a call found without a document

readerVars == <<rpc, rmod, rval, asked, answer>>
writerVars == <<wpc, wmod, writes>>
vars == <<db, cache, readerVars, writerVars, seeding>>

TypeOK ==
    /\ db \in [Modules -> Settings \cup {"none"}]
    /\ cache \in [Modules -> Settings \cup {"miss"}]
    /\ rpc \in [Requests -> {"idle", "mongo", "fill"}]
    /\ rmod \in [Requests -> Modules]
    /\ rval \in [Requests -> Settings]
    /\ asked \in [Requests -> Modules]
    /\ answer \in [Requests -> Settings]
    /\ wpc \in [Admins -> {"idle", "invalidate"}]
    /\ wmod \in [Admins -> Modules]
    /\ writes \in Nat
    /\ seeding \subseteq Modules

Init ==
    /\ db \in [Modules -> Settings \cup {"none"}]
    /\ cache = [m \in Modules |-> "miss"]
    /\ rpc = [r \in Requests |-> "idle"]
    /\ rmod \in [Requests -> Modules]
    /\ rval = [r \in Requests |-> "on"]
    /\ asked = rmod
    /\ answer = [r \in Requests |-> "on"]
    /\ wpc = [w \in Admins |-> "idle"]
    /\ wmod \in [Admins -> Modules]
    /\ writes = 0
    /\ seeding = {}

Reply(r, m, s) ==
    /\ asked' = [asked EXCEPT ![r] = m]
    /\ answer' = [answer EXCEPT ![r] = s]

(***************************************************************************)
(* IsEnabled.                                                              *)
(***************************************************************************)
\* A core module is on, with no I/O.
IsEnabledCore(r, m) ==
    /\ rpc[r] = "idle" /\ m \in Core
    /\ Reply(r, m, "on")
    /\ UNCHANGED <<db, cache, rpc, rmod, rval, writerVars, seeding>>

\* Mutant: the "nil" answer of Redis is taken for a setting.
CacheHitUnchecked(r, m) ==
    /\ rpc[r] = "idle" /\ m \notin Core
    /\ Reply(r, m, cache[m])
    /\ UNCHANGED <<db, cache, rpc, rmod, rval, writerVars, seeding>>

CacheHit(r, m) ==
    /\ rpc[r] = "idle" /\ m \notin Core
    /\ cache[m] # "miss"
    /\ Reply(r, m, cache[m])
    /\ UNCHANGED <<db, cache, rpc, rmod, rval, writerVars, seeding>>

\* Redis has no answer, or cannot be asked.
CacheMiss(r, m) ==
    /\ rpc[r] = "idle" /\ m \notin Core
    /\ cache[m] = "miss" \/ "redis" \in Faults
    /\ rpc' = [rpc EXCEPT ![r] = "mongo"]
    /\ rmod' = [rmod EXCEPT ![r] = m]
    /\ UNCHANGED <<db, cache, rval, asked, answer, writerVars, seeding>>

\* Mutant: a module whose document cannot be read counts as off.
ReadMongoFailClosed(r) ==
    /\ rpc[r] = "mongo"
    /\ LET m == rmod[r] IN
        \/ /\ db[m] = "none" \/ "mongo" \in Faults
           /\ Reply(r, m, "off")
           /\ rpc' = [rpc EXCEPT ![r] = "idle"]
           /\ UNCHANGED rval
        \/ /\ db[m] # "none"
           /\ rval' = [rval EXCEPT ![r] = db[m]]
           /\ rpc' = [rpc EXCEPT ![r] = "fill"]
           /\ UNCHANGED <<asked, answer>>
    /\ UNCHANGED <<db, cache, rmod, writerVars, seeding>>

\* FindByName: an error or a missing document means on, and is not cached.
ReadMongo(r) ==
    /\ rpc[r] = "mongo"
    /\ LET m == rmod[r] IN
        \/ /\ db[m] = "none" \/ "mongo" \in Faults
           /\ Reply(r, m, "on")
           /\ rpc' = [rpc EXCEPT ![r] = "idle"]
           /\ UNCHANGED rval
        \/ /\ db[m] # "none"
           /\ rval' = [rval EXCEPT ![r] = db[m]]
           /\ rpc' = [rpc EXCEPT ![r] = "fill"]
           /\ UNCHANGED <<asked, answer>>
    /\ UNCHANGED <<db, cache, rmod, writerVars, seeding>>

\* Store what was read and answer with it; a failing Set is only logged.
Fill(r) ==
    /\ rpc[r] = "fill"
    /\ LET m == rmod[r] IN
        /\ \/ cache' = [cache EXCEPT ![m] = rval[r]]
           \/ "redis" \in Faults /\ UNCHANGED cache
        /\ Reply(r, m, rval[r])
    /\ rpc' = [rpc EXCEPT ![r] = "idle"]
    /\ UNCHANGED <<db, rmod, rval, writerVars, seeding>>

(***************************************************************************)
(* The writers.                                                            *)
(***************************************************************************)
\* UpdateEnabled refuses a core module; on a missing document the update
\* matches nothing, and the cached answer is dropped all the same.
UpdateEnabled(w, m, s) ==
    /\ wpc[w] = "idle" /\ m \notin Core
    /\ writes < MaxWrites /\ writes' = writes + 1
    /\ db' = IF db[m] = "none" THEN db ELSE [db EXCEPT ![m] = s]
    /\ wpc' = [wpc EXCEPT ![w] = "invalidate"]
    /\ wmod' = [wmod EXCEPT ![w] = m]
    /\ UNCHANGED <<cache, readerVars, seeding>>

\* A failing Del is returned to the admin; the answer stays in Redis.
InvalidateCache(w) ==
    /\ wpc[w] = "invalidate"
    /\ \/ cache' = [cache EXCEPT ![wmod[w]] = "miss"]
       \/ "redis" \in Faults /\ UNCHANGED cache
    /\ wpc' = [wpc EXCEPT ![w] = "idle"]
    /\ UNCHANGED <<db, wmod, writes, readerVars, seeding>>

\* Mutant: the answer is stored without a TTL.
ExpireNever(m) == m \notin Modules /\ UNCHANGED vars

\* enabledCacheTTL runs out.
Expire(m) ==
    /\ cache[m] # "miss"
    /\ cache' = [cache EXCEPT ![m] = "miss"]
    /\ UNCHANGED <<db, readerVars, writerVars, seeding>>

\* The collection is dropped while the process runs.
Wipe ==
    /\ "wipe" \in Faults
    /\ writes < MaxWrites /\ writes' = writes + 1
    /\ db' = [m \in Modules |-> "none"]
    /\ UNCHANGED <<cache, readerVars, wpc, wmod, seeding>>

\* GetConfig and GetAllConfigs, from an admin page, find no document ...
FindMissing(m) ==
    /\ db[m] = "none"
    /\ seeding' = seeding \cup {m}
    /\ UNCHANGED <<db, cache, readerVars, writerVars>>

\* ... and lazySeed upserts the default one, over whatever is there by then,
\* and leaves the cached answer alone.  Any number of calls may have found
\* none: another may always follow, and one that fails changes nothing.
LazySeed(m) ==
    /\ m \in seeding
    /\ db' = [db EXCEPT ![m] = SeedDefault[m]]
    /\ UNCHANGED <<cache, readerVars, writerVars, seeding>>

Next ==
    \/ \E r \in Requests, m \in Modules :
            IsEnabledCore(r, m) \/ CacheHit(r, m) \/ CacheMiss(r, m)
    \/ \E r \in Requests : ReadMongo(r) \/ Fill(r)
    \/ \E w \in Admins, m \in Modules, s \in Settings : UpdateEnabled(w, m, s)
    \/ \E w \in Admins : InvalidateCache(w)
    \/ \E m \in Modules : Expire(m) \/ FindMissing(m) \/ LazySeed(m)
    \/ Wipe

Spec == Init /\ [][Next]_vars

\* Calls under way finish, and Redis drops what its TTL says.
Fairness ==
    /\ \A r \in Requests : WF_vars(ReadMongo(r) \/ Fill(r))
    /\ \A w \in Admins : WF_vars(InvalidateCache(w))
    /\ \A m \in Modules : WF_vars(Expire(m))

FairSpec == Spec /\ Fairness

(***************************************************************************)
(* Properties.                                                             *)
(***************************************************************************)
\* A module without a document counts as enabled.
Setting == [m \in Modules |-> IF db[m] = "none" THEN "on" ELSE db[m]]

Held(m) == {rval[r] : r \in {q \in Requests : rpc[q] = "fill" /\ rmod[q] = m}}

Visible == [m \in Modules |->
    {Setting[m]} \cup Held(m) \cup ({cache[m]} \ {"miss"})]

Gate == INSTANCE ModuleGate WITH setting <- Setting, visible <- Visible

\* The cache implements the gate: every answer is the setting in force, one
\* still held by the cache or by a call under way, or the fail-open "on";
\* a setting that is gone from all of them does not come back by itself;
\* core modules are never answered off.
ImplementsGate == Gate!GateSpec

\* When the admins stop writing, old answers die out: in the end every
\* answer (but a fail-open one) is the setting in force.
Converges == <>[](\A m \in Modules : Visible[m] = {Setting[m]})

\* InvalidateCache forces "the next IsEnabled call to re-fetch from MongoDB"
\* (config_service.go:595): with no call of UpdateEnabled under way, what
\* Redis holds is what the document says.
FreshAfterInvalidate ==
    (\A w \in Admins : wpc[w] = "idle") =>
        \A m \in Modules : cache[m] \in {"miss", Setting[m]}
=============================================================================
