------------------------------- MODULE TopoSort -------------------------------
(***************************************************************************)
(* topoSort, which RegisterAll uses to put producers before consumers:     *)
(* Kahn's algorithm over the Dependencies() of one batch of modules.  The  *)
(* local variables of the function are the state; each pass of a loop body *)
(* is a step.  A name outside the batch is assumed satisfied.              *)
(***************************************************************************)
EXTENDS Naturals, Sequences, FiniteSets, Functions

CONSTANTS
    Input,   \* the batch, in the order the caller lists it
    Outside, \* names of modules that are not in the batch
    NoModule

Batch == Range(Input)

ASSUME TopoAssumption ==
    /\ Input \in Seq(Batch)
    /\ IsInjective(Input)
    /\ Outside \cap Batch = {}
    /\ NoModule \notin Batch

VARIABLES
    deps,     \* deps[m]: what m's Dependencies() returns
    inDegree, \* deps inside the batch that are not sorted yet
    queue,    \* modules ready to be sorted
    sorted,   \* the result so far
    pc,       \* "seed", "pop", "relax", "ok", "cycle"
    k,        \* loop index of "seed" and "relax", over Input
    current   \* the module whose dependents are being relaxed

vars == <<deps, inDegree, queue, sorted, pc, k, current>>

\* Mutant: a name outside the batch is waited for.
InBatchOrOutside(m) == deps[m]

InBatch(m) == deps[m] \cap Batch

TypeOK ==
    /\ deps \in [Batch -> SUBSET (Batch \cup Outside)]
    /\ inDegree \in [Batch -> Nat]
    /\ queue \in Seq(Batch)
    /\ sorted \in Seq(Batch)
    /\ pc \in {"seed", "pop", "relax", "ok", "cycle"}
    /\ k \in 1 .. Len(Input) + 1
    /\ current \in Batch \cup {NoModule}

Init ==
    /\ deps \in [Batch -> SUBSET (Batch \cup Outside)]
    /\ inDegree = [m \in Batch |-> Cardinality(InBatch(m))]
    /\ queue = <<>>
    /\ sorted = <<>>
    /\ pc = "seed"
    /\ k = 1
    /\ current = NoModule

\* Queue the modules that wait for nothing in the batch.
Seed ==
    /\ pc = "seed" /\ k <= Len(Input)
    /\ queue' = IF inDegree[Input[k]] = 0 THEN Append(queue, Input[k]) ELSE queue
    /\ k' = k + 1
    /\ UNCHANGED <<deps, inDegree, sorted, pc, current>>

\* Mutant: off by one at the end of the first loop.
SeedDoneLate ==
    /\ pc = "seed" /\ k > Len(Input) + 1
    /\ pc' = "pop"
    /\ UNCHANGED <<deps, inDegree, queue, sorted, k, current>>

SeedDone ==
    /\ pc = "seed" /\ k > Len(Input)
    /\ pc' = "pop"
    /\ UNCHANGED <<deps, inDegree, queue, sorted, k, current>>

Pop ==
    /\ pc = "pop" /\ queue # <<>>
    /\ current' = Head(queue)
    /\ queue' = Tail(queue)
    /\ sorted' = Append(sorted, Head(queue))
    /\ pc' = "relax" /\ k' = 1
    /\ UNCHANGED <<deps, inDegree>>

\* Mutant: a module is ready as soon as one of its dependencies is sorted.
RelaxEager ==
    /\ pc = "relax" /\ k <= Len(Input)
    /\ queue' = IF current \in deps[Input[k]] /\ inDegree[Input[k]] > 0
                THEN Append(queue, Input[k]) ELSE queue
    /\ inDegree' = IF current \in deps[Input[k]]
                   THEN [inDegree EXCEPT ![Input[k]] = 0] ELSE inDegree
    /\ k' = k + 1
    /\ UNCHANGED <<deps, sorted, pc, current>>

\* dependents[current] lists, in the order of the batch, the modules that
\* name current.
Relax ==
    /\ pc = "relax" /\ k <= Len(Input)
    /\ LET n == Input[k] IN
        IF current \in deps[n]
        THEN /\ inDegree' = [inDegree EXCEPT ![n] = @ - 1]
             /\ queue' = IF inDegree[n] = 1 THEN Append(queue, n) ELSE queue
        ELSE UNCHANGED <<inDegree, queue>>
    /\ k' = k + 1
    /\ UNCHANGED <<deps, sorted, pc, current>>

RelaxDone ==
    /\ pc = "relax" /\ k > Len(Input)
    /\ pc' = "pop"
    /\ UNCHANGED <<deps, inDegree, queue, sorted, k, current>>

\* The queue is empty: sorted is the answer, or there is a cycle.
Finish ==
    /\ pc = "pop" /\ queue = <<>>
    /\ pc' = IF Len(sorted) = Len(Input) THEN "ok" ELSE "cycle"
    /\ UNCHANGED <<deps, inDegree, queue, sorted, k, current>>

Next == Seed \/ SeedDone \/ Pop \/ Relax \/ RelaxDone \/ Finish

Spec == Init /\ [][Next]_vars /\ WF_vars(Next)

(***************************************************************************)
(* Properties.                                                             *)
(***************************************************************************)
\* A set of modules none of which can ever be first: each waits for another
\* one of the set.  Such a set exists exactly when there is a cycle.
Stuck(S) == S # {} /\ \A m \in S : deps[m] \cap S # {}

\* Producers come before consumers: at every moment the dependencies (in
\* the batch) of each sorted module stand before it.
ProducersFirst ==
    \A i \in DOMAIN sorted : \A d \in InBatch(sorted[i]) :
        \E j \in 1 .. i - 1 : sorted[j] = d

\* A cycle is reported exactly when there is one, and a result is the whole
\* batch, each module once.
VerdictRight ==
    /\ pc = "ok" => /\ ~\E S \in SUBSET Batch : Stuck(S)
                    /\ Range(sorted) = Batch /\ IsInjective(sorted)
    /\ pc = "cycle" => \E S \in SUBSET Batch : Stuck(S)

\* The function returns.
Terminates == <>(pc \in {"ok", "cycle"})
=============================================================================
