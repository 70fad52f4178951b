-------------------------- MODULE RegistrationOrder --------------------------
(***************************************************************************)
(* What InitAll may take for granted of the list of modules: RegisterAll   *)
(* writes r.modules in the order that topoSort returns.  TopoSort's result *)
(* is proved to be such an order, ServiceWiring assumes it of its own.     *)
(***************************************************************************)
EXTENDS Naturals, Sequences, Functions

\* Each module of the batch once, behind all of the batch it depends on.
Topological(order, batch, deps) ==
    /\ order \in Seq(batch) /\ Range(order) = batch /\ IsInjective(order)
    /\ \A i \in DOMAIN order :
            deps[order[i]] \cap batch \subseteq {order[j] : j \in 1 .. i - 1}
=============================================================================
