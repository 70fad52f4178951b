-------------------------- MODULE MCModuleLifecycle --------------------------
(***************************************************************************)
(* A core module and two addons: a declares a container, b depends on a.   *)
(***************************************************************************)
EXTENDS LifecycleInvariant, TLC

CONSTANTS core, a, b

MCModules == {core, a, b}
MCOrder == <<core, a, b>>
MCDependsOn == [m \in MCModules |-> IF m = b THEN {a} ELSE {}]
HandlerSymmetry == Permutations(Handlers)
MCInfra == [m \in MCModules |-> IF m = a THEN 1 ELSE 0]
=============================================================================
