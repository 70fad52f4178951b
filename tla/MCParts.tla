------------------------------- MODULE MCParts -------------------------------
(***************************************************************************)
(* Five parts of the SDK that share no state with each other or with the   *)
(* module registry.  In a behaviour one of them runs.                      *)
(***************************************************************************)
EXTENDS MongoSetup, OAuthLinks, Metrics, ConfigTypes, TenantScope

VARIABLE part

\* Thirty seconds and their parts in units of 200 ms; the outages end around
\* every bound of the retries.
MCCollections == <<"users", "tenants", "audit">>
MCOutages == {0, 1, 3, 7, 15, 30, 45, 60, 75, 84, 85, 110, 160}

\* Around the bounds of the widths 3 and 4.
MCNumbers == -9 .. 9

\* The gauge and the registration of the metrics do not touch each other.
PartsInit ==
    /\ part \in {"setup", "links", "lag", "register", "types", "scope"}
    /\ SetupInit /\ LinksInit /\ MetricsInit /\ TypesInit /\ ScopeInit
    /\ part # "setup" => outage = 0

PartsNext ==
    /\ UNCHANGED part
    /\ \/ part = "setup" /\ SetupNext
       \/ part # "setup" /\ UNCHANGED setupVars
    /\ \/ part = "links" /\ LinksNext
       \/ part # "links" /\ UNCHANGED linksVars
    /\ \/ part = "lag" /\ LagNext
       \/ part # "lag" /\ UNCHANGED lagVars
    /\ \/ part = "register" /\ RegisterNext
       \/ part # "register" /\ UNCHANGED registerVars
    /\ \/ part = "types" /\ TypesNext
       \/ part # "types" /\ UNCHANGED typesVars
    /\ \/ part = "scope" /\ ScopeNext
       \/ part # "scope" /\ UNCHANGED scopeVars

PartsSpec ==
    PartsInit /\ [][PartsNext]_<<part, setupVars, linksVars, metricsVars,
                                 typesVars, scopeVars>>
=============================================================================
