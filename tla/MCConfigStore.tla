---------------------------- MODULE MCConfigStore ----------------------------
(***************************************************************************)
(* Two explorations of one specification: requests one at a time that do   *)
(* not fail, with a value and a secret, MaxUpdates updates and one less on *)
(* a hot-reload module; and requests that overlap and fail, without        *)
(* secrets on a module that reads its config at Init, one update less.     *)
(***************************************************************************)
EXTENDS ConfigStore, FiniteSets, TLC

VARIABLE overlap

\* Requests are interchangeable.
RequestSymmetry == Permutations(Requests)

Busy == {r \in Requests : pc[r] # "idle"}

MCInit == Init /\ overlap \in BOOLEAN /\ (overlap => ~hot)

MCNext ==
    /\ Next
    /\ UNCHANGED overlap
    /\ overlap \/ hot => updates' < MaxUpdates
    /\ IF overlap
         THEN \A r \in Requests, k \in Secret : sent'[r][k] = Unset
         ELSE Cardinality(Busy') <= 1 /\ faults' = 0

MCSpec == MCInit /\ [][MCNext]_<<vars, overlap>>
=============================================================================
