---------------------------- MODULE MCEnabledCache ----------------------------
(* One core module and one addon, two calls of IsEnabled, one admin.  The *)
(* addon is off when its document is seeded, on when it has none.         *)
EXTENDS EnabledCache

CONSTANTS core, a

MCSeedDefault == [m \in {core, a} |-> IF m = core THEN "on" ELSE "off"]
=============================================================================
