-------------------------------- MODULE Metrics --------------------------------
(***************************************************************************)
(* metrics.Collector: callers of Register that race, and the gauge of the  *)
(* entitlement lag, written by RecordEntitlementApply and by the ticker    *)
(* that Start launches, under an RWMutex.  The counters are those of the   *)
(* Prometheus client.                                                      *)
(***************************************************************************)
EXTENDS Integers

CONSTANTS
    Kinds,       \* tenant kinds
    Appliers,    \* goroutines that call RecordEntitlementApply
    Registrars,  \* goroutines that call Register
    Families,    \* how many metric families there are
    MaxClock,    \* bound: time
    Never        \* no apply yet, no value in the gauge

ASSUME MetricsAssumption ==
    /\ Families \in Nat /\ MaxClock \in Nat /\ Never \notin Nat
    /\ "ticker" \notin Appliers

VARIABLES
    clock,
    lastApply,   \* Collector.lastApply
    gauge,       \* Collector.entitlementLag
    readers,     \* the goroutines that hold lastApplyMu for reading
    step,        \* where each of them is: "idle", "apply", "refresh", "set"
    kind,        \* the kind an apply is for
    now,         \* the time refreshLag took
    unset,       \* the kinds its loop has still to visit
    applied,     \* history: the latest apply per kind whose call has returned
    ticking,     \* Start was called and its stop was not
    registered,  \* Collector.registered
    collected,   \* the families in the Prometheus registry
    next,        \* the family each Register is at; 0 before the call
    errors       \* history: those that got an error

lagVars == <<clock, lastApply, gauge, readers, step, kind, now, unset, applied,
             ticking>>
registerVars == <<registered, collected, next, errors>>
metricsVars == <<lagVars, registerVars>>

Goroutines == Appliers \cup {"ticker"}

MetricsInit ==
    /\ clock = 0
    /\ lastApply = [k \in Kinds |-> Never] /\ gauge = [k \in Kinds |-> Never]
    /\ readers = {}
    /\ step = [g \in Goroutines |-> "idle"]
    /\ kind = [g \in Appliers |-> Never]
    /\ now = [g \in Goroutines |-> 0] /\ unset = [g \in Goroutines |-> {}]
    /\ applied = [k \in Kinds |-> Never]
    /\ ticking = FALSE
    /\ registered = FALSE /\ collected = {}
    /\ next = [r \in Registrars |-> 0] /\ errors = {}

(***************************************************************************)
(* The lag gauge.                                                          *)
(***************************************************************************)
RecordEntitlementApply(g, k) ==
    /\ step[g] = "idle"
    /\ step' = [step EXCEPT ![g] = "apply"]
    /\ kind' = [kind EXCEPT ![g] = k]
    /\ UNCHANGED <<clock, lastApply, gauge, readers, now, unset, applied, ticking>>

\* The write, under the lock.
Apply(g) ==
    /\ step[g] = "apply" /\ readers = {}
    /\ lastApply' = [lastApply EXCEPT ![kind[g]] = clock]
    /\ step' = [step EXCEPT ![g] = "refresh"]
    /\ UNCHANGED <<clock, gauge, readers, kind, now, unset, applied, ticking>>

Tick ==
    /\ ticking /\ step["ticker"] = "idle"
    /\ step' = [step EXCEPT !["ticker"] = "refresh"]
    /\ UNCHANGED <<clock, lastApply, gauge, readers, kind, now, unset, applied,
                   ticking>>

\* Mutant: the values are computed without the lock.
BeginRefreshUnlocked(g) ==
    /\ step[g] = "refresh"
    /\ now' = [now EXCEPT ![g] = clock]
    /\ unset' = [unset EXCEPT ![g] = {k \in Kinds : lastApply[k] # Never}]
    /\ step' = [step EXCEPT ![g] = "set"]
    /\ UNCHANGED <<clock, lastApply, gauge, readers, kind, applied, ticking>>

\* refreshLag holds the lock for reading until it has set every value.
BeginRefresh(g) ==
    /\ step[g] = "refresh"
    /\ readers' = readers \cup {g}
    /\ now' = [now EXCEPT ![g] = clock]
    /\ unset' = [unset EXCEPT ![g] = {k \in Kinds : lastApply[k] # Never}]
    /\ step' = [step EXCEPT ![g] = "set"]
    /\ UNCHANGED <<clock, lastApply, gauge, kind, applied, ticking>>

SetLag(g, k) ==
    /\ step[g] = "set" /\ k \in unset[g]
    /\ gauge' = [gauge EXCEPT ![k] = now[g] - lastApply[k]]
    /\ unset' = [unset EXCEPT ![g] = @ \ {k}]
    /\ UNCHANGED <<clock, lastApply, readers, step, kind, now, applied, ticking>>

EndRefresh(g) ==
    /\ step[g] = "set" /\ unset[g] = {}
    /\ readers' = readers \ {g}
    /\ step' = [step EXCEPT ![g] = "idle"]
    /\ now' = [now EXCEPT ![g] = 0]
    /\ applied' = IF g = "ticker" THEN applied
                  ELSE [applied EXCEPT ![kind[g]] = lastApply[kind[g]]]
    /\ kind' = IF g = "ticker" THEN kind ELSE [kind EXCEPT ![g] = Never]
    /\ UNCHANGED <<clock, lastApply, gauge, unset, ticking>>

\* Start, and the stop function it returns: a refresh under way goes on.
StartOrStop ==
    /\ ticking' = ~ticking
    /\ UNCHANGED <<clock, lastApply, gauge, readers, step, kind, now, unset, applied>>

Advance ==
    /\ clock < MaxClock /\ clock' = clock + 1
    /\ UNCHANGED <<lastApply, gauge, readers, step, kind, now, unset, applied,
                   ticking>>

LagNext ==
    \/ Tick \/ StartOrStop \/ Advance
    \/ \E g \in Appliers :
        Apply(g) \/ \E k \in Kinds : RecordEntitlementApply(g, k)
    \/ \E g \in Goroutines :
        \/ BeginRefresh(g) \/ EndRefresh(g)
        \/ \E k \in Kinds : SetLag(g, k)

(***************************************************************************)
(* Register.                                                               *)
(***************************************************************************)
Returned == Families + 1

\* Mutant: the flag is set, but not looked at.
RegisterUnguarded(r) ==
    /\ next[r] = 0
    /\ registered' = TRUE
    /\ next' = [next EXCEPT ![r] = 1]
    /\ UNCHANGED <<collected, errors>>

\* The compare-and-swap: whoever comes second has nothing to do.
Register(r) ==
    /\ next[r] = 0
    /\ registered' = TRUE
    /\ next' = [next EXCEPT ![r] = IF registered THEN Returned ELSE 1]
    /\ UNCHANGED <<collected, errors>>

\* One family; one that is there already is an error, which takes the flag
\* back.
RegisterFamily(r) ==
    /\ next[r] \in 1 .. Families
    /\ IF next[r] \in collected
         THEN /\ next' = [next EXCEPT ![r] = Returned]
              /\ errors' = errors \cup {r}
              /\ registered' = FALSE
              /\ UNCHANGED collected
         ELSE /\ collected' = collected \cup {next[r]}
              /\ next' = [next EXCEPT ![r] = @ + 1]
              /\ UNCHANGED <<registered, errors>>

RegisterNext == \E r \in Registrars : Register(r) \/ RegisterFamily(r)

MetricsNext ==
    \/ LagNext /\ UNCHANGED registerVars
    \/ RegisterNext /\ UNCHANGED lagVars

MetricsSpec == MetricsInit /\ [][MetricsNext]_metricsVars

\* A scrape after a RecordEntitlementApply has returned never finds the lag
\* of an earlier apply, although the ticker and other applies set the same
\* gauge, and never a negative one.
LagFresh ==
    \A k \in Kinds :
        /\ gauge[k] # Never => gauge[k] >= 0
        /\ applied[k] # Never => /\ gauge[k] # Never
                                 /\ gauge[k] <= clock - applied[k]

\* However many call Register, none gets an error, and once one has and none
\* is under way any more every family is there.
RegisteredOnce ==
    /\ errors = {}
    /\ registered /\ (\A r \in Registrars : next[r] \in {0, Returned}) =>
            collected = 1 .. Families
=============================================================================
