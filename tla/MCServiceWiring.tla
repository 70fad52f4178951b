--------------------------- MODULE MCServiceWiring ---------------------------
EXTENDS ServiceWiring, TLC

CONSTANTS core, a, b, r1, r2

\* A core module; an addon with the authz service, which may come up late;
\* an addon that uses both.  a declares a capability without a module between
\* good ones, b one that collides with core's and core one with itself.
cap(i, x) == [id |-> i, body |-> x]
MCOrder == <<core, a, b>>
MCDependsOn == core :> {} @@ a :> {core} @@ b :> {core, a}
MCProvides == core :> {"core"} @@ a :> {"authz"} @@ b :> {"b"}
MCResolves == core :> {} @@ a :> {"core"} @@ b :> {"core", "authz"}
MCRequires == core :> {} @@ a :> {} @@ b :> {"core"}
MCCapabilities ==
    core :> <<cap("shared", "core"), cap("shared", "again")>>
    @@ a :> <<cap("a", "a"), cap("bad", "noModule"), cap("behind", "a")>>
    @@ b :> <<cap("b", "b"), cap("shared", "b"), cap("behind", "b")>>

Symmetry == Permutations(Retries)
=============================================================================
