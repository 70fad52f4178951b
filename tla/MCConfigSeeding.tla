--------------------------- MODULE MCConfigSeeding ---------------------------
EXTENDS ConfigSeeding, TLC

CONSTANTS default, env, k1, k2, none

\* A core module, the dev module, an addon with settings that is off by
\* default, and one that is on by default but only known, so that it has no
\* document until a request finds it missing.
MCRegistered == <<"core", "dev", "rag">>
MCProfileAddons == "ai" :> <<"rag">> @@ "enterprise" :> <<"*">>
MCModuleKeys == [m \in Known |-> IF m = "rag" THEN {"url", "token"} ELSE {}]
MCDefault == "url" :> default @@ "token" :> Empty

\* An older binary without "url"; profiles only with the newer one, and
\* other keys than k1 only with the newer one, without a profile and with
\* env vars.
MCProcesses ==
    {p \in [binary : {{"token"}, {"url", "token"}},
            profile : {"", "ai", "enterprise"},
            env : {("url" :> u) @@ ("token" :> u) : u \in {Empty, env}},
            cipher : {none, k1, k2}] :
        /\ p.profile # "" => "url" \in p.binary
        /\ p.cipher # k1 =>
            "url" \in p.binary /\ p.profile = "" /\ p.env["url"] # Empty}
=============================================================================
