------------------------------ MODULE MCTopoSort ------------------------------
(* Every dependency graph over three modules and one name outside. *)
EXTENDS TopoSort

CONSTANTS a, b, c

MCInput == <<a, b, c>>
=============================================================================
