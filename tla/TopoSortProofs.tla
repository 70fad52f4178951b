---------------------------- MODULE TopoSortProofs ----------------------------
(***************************************************************************)
(* For every batch and every dependency relation: producers stand before   *)
(* consumers, and a cycle is reported exactly when there is one.  inDegree *)
(* counts what a module still waits for; a module is in the queue or in    *)
(* the result as soon as that is nothing.                                  *)
(***************************************************************************)
EXTENDS TopoSort, RegistrationOrder, SequenceTheorems, FiniteSetTheorems, TLAPS

(***************************************************************************)
(* Sequences.                                                              *)
(***************************************************************************)
\* What Append does to the members of a sequence.
LEMMA AppendFacts ==
    ASSUME NEW S, NEW s \in Seq(S), NEW e \in S
    PROVE  /\ Append(s, e) \in Seq(S)
           /\ Range(Append(s, e)) = Range(s) \cup {e}
           /\ IsInjective(s) /\ e \notin Range(s) => IsInjective(Append(s, e))
<1>1. /\ Append(s, e) \in Seq(S)
      /\ Len(Append(s, e)) = Len(s) + 1
      /\ \A i \in 1 .. Len(s) : Append(s, e)[i] = s[i]
      /\ Append(s, e)[Len(s) + 1] = e
    BY AppendProperties
<1>2. Len(s) \in Nat /\ DOMAIN s = 1 .. Len(s)
    BY LenProperties
<1>3. DOMAIN Append(s, e) = 1 .. Len(s) + 1
    BY <1>1, LenProperties
<1>4. Range(Append(s, e)) = Range(s) \cup {e}
    <2>1. \A x \in Range(Append(s, e)) : x \in Range(s) \cup {e}
        BY <1>1, <1>2, <1>3 DEF Range
    <2>2. \A x \in Range(s) : x \in Range(Append(s, e))
        BY <1>1, <1>2, <1>3 DEF Range
    <2>3. e \in Range(Append(s, e))
        BY <1>1, <1>2, <1>3 DEF Range
    <2> QED
        BY <2>1, <2>2, <2>3
<1>5. IsInjective(s) /\ e \notin Range(s) => IsInjective(Append(s, e))
    BY <1>1, <1>2, <1>3 DEF IsInjective, Range
<1> QED
    BY <1>1, <1>4, <1>5

\* What Head and Tail do to the members of a sequence.
LEMMA TailFacts ==
    ASSUME NEW S, NEW s \in Seq(S), s # <<>>
    PROVE  /\ Head(s) \in S /\ Tail(s) \in Seq(S)
           /\ Range(s) = Range(Tail(s)) \cup {Head(s)}
           /\ IsInjective(s) => IsInjective(Tail(s)) /\ Head(s) \notin Range(Tail(s))
<1>1. /\ Head(s) \in S /\ Tail(s) \in Seq(S)
      /\ Len(Tail(s)) = Len(s) - 1
      /\ \A i \in 1 .. Len(Tail(s)) : Tail(s)[i] = s[i + 1]
    BY HeadTailProperties
<1>2. Len(s) \in Nat \ {0} /\ DOMAIN s = 1 .. Len(s) /\ Head(s) = s[1]
    BY LenProperties, EmptySeq
<1>3. DOMAIN Tail(s) = 1 .. Len(s) - 1
    BY <1>1, LenProperties
<1>4. Range(s) = Range(Tail(s)) \cup {Head(s)}
    <2>1. \A x \in Range(Tail(s)) : x \in Range(s)
        <3> TAKE x \in Range(Tail(s))
        <3>1. PICK i \in 1 .. Len(s) - 1 : x = Tail(s)[i]
            BY <1>3 DEF Range
        <3>2. x = s[i + 1] /\ i + 1 \in 1 .. Len(s)
            BY <1>1, <1>2, <3>1
        <3> QED
            BY <1>2, <3>2 DEF Range
    <2>2. \A x \in Range(s) : x \in Range(Tail(s)) \cup {Head(s)}
        <3> TAKE x \in Range(s)
        <3>1. PICK i \in 1 .. Len(s) : x = s[i]
            BY <1>2 DEF Range
        <3>2. CASE i = 1
            BY <1>2, <3>1, <3>2
        <3>3. CASE i # 1
            <4>1. i - 1 \in 1 .. Len(s) - 1
                BY <1>2, <3>3
            <4>2. Tail(s)[i - 1] = x
                BY <1>1, <1>2, <3>1, <4>1
            <4> QED
                BY <1>3, <4>1, <4>2 DEF Range
        <3> QED
            BY <3>2, <3>3
    <2>3. Head(s) \in Range(s)
        BY <1>2 DEF Range
    <2> QED
        BY <2>1, <2>2, <2>3
<1>5. ASSUME IsInjective(s)
      PROVE  IsInjective(Tail(s)) /\ Head(s) \notin Range(Tail(s))
    <2>1. \A i \in 1 .. Len(s) - 1 : Tail(s)[i] = s[i + 1] /\ i + 1 \in 1 .. Len(s)
        BY <1>1, <1>2
    <2>2. \A i, j \in 1 .. Len(s) : s[i] = s[j] => i = j
        BY <1>2, <1>5 DEF IsInjective
    <2>3. \A i, j \in 1 .. Len(s) - 1 : Tail(s)[i] = Tail(s)[j] => i = j
        BY <1>2, <2>1, <2>2
    <2>4. \A i \in 1 .. Len(s) - 1 : Tail(s)[i] # s[1]
        BY <1>2, <2>1, <2>2
    <2> QED
        BY <1>2, <1>3, <2>3, <2>4 DEF IsInjective, Range
<1> QED
    BY <1>1, <1>4, <1>5

\* The batch is finite, and a result without repetitions is as long as the
\* input exactly when it is the whole batch.
LEMMA BatchFinite == IsFiniteSet(Batch)
<1>1. DOMAIN Input = 1 .. Len(Input) /\ Len(Input) \in Nat
    BY TopoAssumption, LenProperties
<1>2. Input \in Surjection(1 .. Len(Input), Batch)
    BY <1>1, TopoAssumption DEF Batch, Range, Surjection
<1>3. IsFiniteSet(1 .. Len(Input))
    BY <1>1, FS_Interval
<1> QED
    BY <1>2, <1>3, FS_Surjection

\* A sequence without repetitions is as long as its range is large.
LEMMA LengthIsSize ==
    ASSUME NEW s \in Seq(Batch), IsInjective(s)
    PROVE  Cardinality(Range(s)) = Len(s)
<1>1. DOMAIN s = 1 .. Len(s) /\ Len(s) \in Nat
    BY LenProperties
<1>2. s \in [1 .. Len(s) -> Range(s)]
    BY <1>1 DEF Range
<1>3. s \in Surjection(1 .. Len(s), Range(s))
    BY <1>1, <1>2 DEF Range, Surjection
<1>4. s \in Injection(1 .. Len(s), Range(s))
    BY <1>1, <1>2 DEF IsInjective, Injection
<1>5. IsFiniteSet(1 .. Len(s)) /\ Cardinality(1 .. Len(s)) = Len(s)
    BY <1>1, FS_Interval
<1> QED
    BY <1>3, <1>4, <1>5, FS_Surjection

\* So the length test at the end of topoSort says whether all are sorted.
LEMMA FullLength ==
    ASSUME NEW s \in Seq(Batch), IsInjective(s)
    PROVE  Len(s) = Len(Input) <=> Range(s) = Batch
<1>1. Cardinality(Range(s)) = Len(s)
    BY LengthIsSize
<1>2. Cardinality(Batch) = Len(Input)
    BY LengthIsSize, TopoAssumption DEF Batch
<1>3. Range(s) \in SUBSET Batch
    BY LenProperties DEF Range
<1> QED
    BY <1>1, <1>2, <1>3, BatchFinite, FS_Subset

(***************************************************************************)
(* The invariant.                                                          *)
(***************************************************************************)
\* Types, and the module whose dependents are relaxed is sorted already.
Types == TypeOK /\ (pc = "relax" => current \in Range(sorted))

\* n is in the part of the batch that the loop over Input has not reached.
Ahead(n) == \E i \in k .. Len(Input) : Input[i] = n

\* The sorted modules that inDegree[n] does not count any more.
Settled(n) ==
    IF pc = "relax" /\ Ahead(n) THEN Range(sorted) \ {current} ELSE Range(sorted)

\* What n waits for.
Remaining(n) == InBatch(n) \ Settled(n)

\* What has been queued, sorted or not.
Queued == Range(queue) \cup Range(sorted)

DegreeCounts == \A n \in Batch : inDegree[n] = Cardinality(Remaining(n))

QueuedAreReady ==
    \A n \in Batch : n \in Queued <=> Remaining(n) = {} /\ ~(pc = "seed" /\ Ahead(n))

\* Each module is queued once and sorted once.
Once ==
    /\ IsInjective(queue) /\ IsInjective(sorted)
    /\ Range(queue) \cap Range(sorted) = {}
    /\ pc = "seed" => sorted = <<>>

\* What is sorted belongs to no cycle.
NoneStuck == \A S \in SUBSET Batch : Stuck(S) => S \cap Range(sorted) = {}

SortInv ==
    /\ Types
    /\ DegreeCounts
    /\ QueuedAreReady
    /\ Once
    /\ NoneStuck
    /\ ProducersFirst
    /\ VerdictRight

\* What the loop over Input leaves behind when it moves on: the module at k
\* is no longer ahead, and nothing else changes.
LEMMA AheadStep ==
    ASSUME Types, k <= Len(Input), k' = k + 1
    PROVE  \E n \in Batch :
            /\ n = Input[k]
            /\ Ahead(n) /\ ~Ahead(n)'
            /\ \A m \in Batch : m # n => (Ahead(m)' <=> Ahead(m))
<1>1. Len(Input) \in Nat /\ DOMAIN Input = 1 .. Len(Input)
    BY TopoAssumption, LenProperties
<1>2. k \in 1 .. Len(Input)
    BY <1>1 DEF Types, TypeOK
<1>3. \A i, j \in 1 .. Len(Input) : Input[i] = Input[j] => i = j
    BY <1>1, TopoAssumption DEF IsInjective
<1>4. PICK n \in Batch : n = Input[k]
    BY <1>1, <1>2 DEF Batch, Range
<1>5. Ahead(n)
    BY <1>1, <1>2, <1>4 DEF Ahead
<1>6. ~Ahead(n)'
    <2> SUFFICES ASSUME NEW i \in k + 1 .. Len(Input), Input[i] = n
                 PROVE  FALSE
        BY DEF Ahead
    <2> QED
        BY <1>1, <1>2, <1>3, <1>4
<1>7. \A m \in Batch : m # n => (Ahead(m)' <=> Ahead(m))
    <2> SUFFICES ASSUME NEW m \in Batch, m # n
                 PROVE  (\E i \in k + 1 .. Len(Input) : Input[i] = m)
                        <=> (\E i \in k .. Len(Input) : Input[i] = m)
        BY DEF Ahead
    <2> QED
        BY <1>1, <1>2, <1>4
<1> QED
    BY <1>4, <1>5, <1>6, <1>7

\* At the start of a loop all of the batch is ahead, at its end nothing.
LEMMA AheadEnds ==
    /\ k = 1 => \A n \in Batch : Ahead(n)
    /\ k > Len(Input) /\ k \in Nat => \A n \in Batch : ~Ahead(n)
<1>1. Len(Input) \in Nat /\ DOMAIN Input = 1 .. Len(Input)
    BY TopoAssumption, LenProperties
<1> QED
    BY <1>1 DEF Ahead, Batch, Range

\* The sets that are counted are finite.
LEMMA RemainingFinite ==
    ASSUME NEW n \in Batch
    PROVE  IsFiniteSet(Remaining(n)) /\ Cardinality(Remaining(n)) \in Nat
<1>1. Remaining(n) \in SUBSET Batch
    BY DEF Remaining, InBatch
<1>2. IsFiniteSet(Remaining(n))
    BY <1>1, BatchFinite, FS_Subset
<1> QED
    BY <1>2, FS_CardinalityType

\* The ranges of the two sequences are modules of the batch.
LEMMA RangesInBatch ==
    ASSUME Types
    PROVE  Range(queue) \in SUBSET Batch /\ Range(sorted) \in SUBSET Batch
BY LenProperties DEF Types, TypeOK, Range

(***************************************************************************)
(* The steps.                                                              *)
(***************************************************************************)
LEMMA InitSort == Init => SortInv
<1> SUFFICES ASSUME Init PROVE SortInv
    OBVIOUS
<1>1. Range(queue) = {} /\ Range(sorted) = {} /\ DOMAIN sorted = {}
    BY EmptySeq DEF Init, Range
<1>2. \A n \in Batch : Remaining(n) = InBatch(n)
    BY <1>1 DEF Init, Remaining, Settled
<1>3. \A n \in Batch : Ahead(n)
    BY AheadEnds DEF Init
<1>4. DegreeCounts
    BY <1>2 DEF Init, DegreeCounts
<1>5. inDegree \in [Batch -> Nat]
    BY <1>2, RemainingFinite DEF Init
<1>6. Types
    <2>1. 1 \in 1 .. Len(Input) + 1
        BY TopoAssumption, LenProperties
    <2>2. <<>> \in Seq(Batch)
        BY EmptySeq
    <2> QED
        BY <1>5, <2>1, <2>2 DEF Init, Types, TypeOK
<1>7. QueuedAreReady
    BY <1>1, <1>3 DEF Init, QueuedAreReady, Queued
<1>8. Once
    <2>1. IsInjective(<<>>)
        BY EmptySeq DEF IsInjective
    <2> QED
        BY <1>1, <2>1 DEF Init, Once
<1>9. NoneStuck /\ ProducersFirst /\ VerdictRight
    BY <1>1 DEF Init, NoneStuck, ProducersFirst, VerdictRight
<1> QED
    BY <1>4, <1>6, <1>7, <1>8, <1>9 DEF SortInv

\* Seed queues the module at k exactly when it waits for nothing.
LEMMA SeedSort == SortInv /\ Seed => SortInv'
<1> SUFFICES ASSUME SortInv, Seed PROVE SortInv'
    OBVIOUS
<1>1. Types /\ pc = "seed" /\ pc' = "seed" /\ k' = k + 1
    BY DEF SortInv, Seed
<1>2. PICK n \in Batch :
        /\ n = Input[k]
        /\ Ahead(n) /\ ~Ahead(n)'
        /\ \A m \in Batch : m # n => (Ahead(m)' <=> Ahead(m))
    BY <1>1, AheadStep DEF Seed
<1>3. \A m \in Batch : Remaining(m)' = Remaining(m) /\ Remaining(m) = InBatch(m) \ Range(sorted)
    BY <1>1 DEF Remaining, Settled, InBatch, Seed
<1>4. inDegree[n] = 0 <=> Remaining(n) = {}
    BY <1>2, RemainingFinite, FS_EmptySet DEF SortInv, DegreeCounts
<1>5. n \notin Queued
    BY <1>1, <1>2 DEF SortInv, QueuedAreReady
<1>6. /\ queue' \in Seq(Batch) /\ IsInjective(queue')
      /\ Range(queue') = IF Remaining(n) = {} THEN Range(queue) \cup {n} ELSE Range(queue)
    <2>1. queue \in Seq(Batch) /\ IsInjective(queue) /\ n \notin Range(queue)
        BY <1>5 DEF SortInv, Types, TypeOK, Once, Queued
    <2>2. CASE Remaining(n) = {}
        <3>1. queue' = Append(queue, n)
            BY <1>2, <1>4, <2>2 DEF Seed
        <3> QED
            BY <1>2, <2>1, <2>2, <3>1, AppendFacts
    <2>3. CASE Remaining(n) # {}
        BY <1>2, <1>4, <2>1, <2>3 DEF Seed
    <2> QED
        BY <2>2, <2>3
<1>7. Types'
    <2>1. k' \in 1 .. Len(Input) + 1
        BY TopoAssumption, LenProperties DEF SortInv, Types, TypeOK, Seed
    <2> QED
        BY <1>6, <2>1 DEF SortInv, Types, TypeOK, Seed
<1>8. DegreeCounts'
    BY <1>3 DEF SortInv, DegreeCounts, Seed
<1>9. QueuedAreReady'
    <2> SUFFICES ASSUME NEW m \in Batch
                 PROVE  m \in Queued' <=> Remaining(m)' = {} /\ ~Ahead(m)'
        BY <1>1 DEF QueuedAreReady
    <2>1. m \in Queued <=> Remaining(m) = {} /\ ~Ahead(m)
        BY <1>1 DEF SortInv, QueuedAreReady
    <2>2. Range(sorted') = Range(sorted)
        BY DEF Seed
    <2> QED
        BY <1>2, <1>3, <1>5, <1>6, <2>1, <2>2 DEF Queued
<1>10. Once'
    BY <1>5, <1>6 DEF SortInv, Once, Seed, Queued
<1>11. NoneStuck' /\ ProducersFirst' /\ VerdictRight'
    BY DEF SortInv, Seed, NoneStuck, Stuck, ProducersFirst, InBatch, VerdictRight
<1> QED
    BY <1>7, <1>8, <1>9, <1>10, <1>11 DEF SortInv

\* The ends of the two loops change the label only: nothing is ahead.
LEMMA LoopDoneSort == SortInv /\ (SeedDone \/ RelaxDone) => SortInv'
<1> SUFFICES ASSUME SortInv, SeedDone \/ RelaxDone PROVE SortInv'
    OBVIOUS
<1>1. /\ pc \in {"seed", "relax"} /\ pc' = "pop" /\ k > Len(Input)
      /\ UNCHANGED <<deps, inDegree, queue, sorted, k, current>>
    BY DEF SeedDone, RelaxDone
<1>2. \A n \in Batch : ~Ahead(n)
    BY <1>1, AheadEnds, TopoAssumption, LenProperties DEF SortInv, Types, TypeOK
<1>3. \A n \in Batch : Remaining(n)' = Remaining(n)
    BY <1>1, <1>2 DEF Remaining, Settled, InBatch
<1>4. Types'
    BY <1>1 DEF SortInv, Types, TypeOK
<1>5. DegreeCounts'
    BY <1>1, <1>3 DEF SortInv, DegreeCounts
<1>6. QueuedAreReady'
    BY <1>1, <1>2, <1>3 DEF SortInv, QueuedAreReady, Queued
<1>7. Once'
    BY <1>1 DEF SortInv, Once
<1>8. NoneStuck' /\ ProducersFirst' /\ VerdictRight'
    BY <1>1 DEF SortInv, NoneStuck, Stuck, ProducersFirst, InBatch, VerdictRight
<1> QED
    BY <1>4, <1>5, <1>6, <1>7, <1>8 DEF SortInv

\* Pop moves a module that waits for nothing to the end of the result; its
\* dependents still count it.
LEMMA PopSort == SortInv /\ Pop => SortInv'
<1> SUFFICES ASSUME SortInv, Pop PROVE SortInv'
    OBVIOUS
<1>1. /\ Types /\ Once /\ pc = "pop" /\ pc' = "relax" /\ k' = 1
      /\ deps' = deps /\ inDegree' = inDegree
    BY DEF SortInv, Pop
<1>2. PICK h \in Batch : h = Head(queue)
    BY TailFacts DEF SortInv, Types, TypeOK, Pop
<1>3. queue' = Tail(queue) /\ sorted' = Append(sorted, h) /\ current' = h
    BY <1>2 DEF Pop
<1>4. /\ queue' \in Seq(Batch) /\ IsInjective(queue')
      /\ Range(queue) = Range(queue') \cup {h} /\ h \notin Range(queue')
    BY <1>1, <1>2, <1>3, TailFacts DEF Types, TypeOK, Once, Pop
<1>5. h \notin Range(sorted)
    BY <1>1, <1>4 DEF Once
<1>6. /\ sorted' \in Seq(Batch) /\ IsInjective(sorted')
      /\ Range(sorted') = Range(sorted) \cup {h}
    BY <1>1, <1>3, <1>5, AppendFacts DEF Types, TypeOK, Once
<1>7. \A n \in Batch : Ahead(n)'
    <2>1. Len(Input) \in Nat /\ DOMAIN Input = 1 .. Len(Input)
        BY TopoAssumption, LenProperties
    <2> QED
        BY <1>1, <2>1 DEF Ahead, Batch, Range
<1>8. \A n \in Batch : Remaining(n)' = Remaining(n) /\ Remaining(n) = InBatch(n) \ Range(sorted)
    BY <1>1, <1>3, <1>5, <1>6, <1>7 DEF Remaining, Settled, InBatch
<1>9. InBatch(h) \subseteq Range(sorted)
    <2>1. Remaining(h) = {}
        BY <1>1, <1>4 DEF SortInv, QueuedAreReady, Queued
    <2> QED
        BY <1>8, <2>1
<1>10. Types'
    <2>1. 1 \in 1 .. Len(Input) + 1
        BY TopoAssumption, LenProperties
    <2> QED
        BY <1>1, <1>3, <1>4, <1>6, <2>1 DEF Types, TypeOK
<1>11. DegreeCounts'
    BY <1>1, <1>8 DEF SortInv, DegreeCounts
<1>12. QueuedAreReady'
    <2>1. Queued' = Queued
        BY <1>4, <1>6 DEF Queued
    <2> QED
        BY <1>1, <1>8, <2>1 DEF SortInv, QueuedAreReady
<1>13. Once'
    BY <1>1, <1>4, <1>5, <1>6 DEF Once
<1>14. NoneStuck'
    <2> SUFFICES ASSUME NEW S \in SUBSET Batch, Stuck(S), h \in S PROVE FALSE
        BY <1>1, <1>6 DEF SortInv, NoneStuck, Stuck
    <2>1. InBatch(h) \cap S # {}
        BY DEF Stuck, InBatch
    <2> QED
        BY <1>9, <2>1 DEF SortInv, NoneStuck
<1>15. ProducersFirst'
    <2> SUFFICES ASSUME NEW i \in DOMAIN sorted', NEW d \in (deps[sorted'[i]] \cap Batch)
                 PROVE  \E j \in 1 .. i - 1 : sorted'[j] = d
        BY <1>1 DEF ProducersFirst, InBatch
    <2>1. /\ DOMAIN sorted = 1 .. Len(sorted) /\ Len(sorted) \in Nat
          /\ DOMAIN sorted' = 1 .. Len(sorted) + 1
        BY <1>1, <1>2, <1>3, <1>6, LenProperties, AppendProperties DEF Types, TypeOK
    <2>2. /\ \A j \in 1 .. Len(sorted) : sorted'[j] = sorted[j]
          /\ sorted'[Len(sorted) + 1] = h
        BY <1>1, <1>2, <1>3, AppendProperties DEF Types, TypeOK
    <2>3. CASE i = Len(sorted) + 1
        <3>1. d \in Range(sorted)
            BY <1>9, <2>2, <2>3 DEF InBatch
        <3> QED
            BY <2>1, <2>2, <2>3, <3>1 DEF Range
    <2>4. CASE i \in 1 .. Len(sorted)
        <3>1. PICK j \in 1 .. i - 1 : sorted[j] = d
            BY <2>1, <2>2, <2>4 DEF SortInv, ProducersFirst, InBatch
        <3> QED
            BY <2>1, <2>2, <2>4, <3>1
    <2> QED
        BY <2>1, <2>3, <2>4
<1>16. VerdictRight'
    BY <1>1 DEF VerdictRight
<1> QED
    BY <1>10, <1>11, <1>12, <1>13, <1>14, <1>15, <1>16 DEF SortInv

\* Relax takes the current module off what the module at k waits for, and
\* queues it when that was the last one.
LEMMA RelaxSort == SortInv /\ Relax => SortInv'
<1> SUFFICES ASSUME SortInv, Relax PROVE SortInv'
    OBVIOUS
<1>1. /\ Types /\ Once /\ pc = "relax" /\ pc' = "relax" /\ k' = k + 1
      /\ deps' = deps /\ sorted' = sorted /\ current' = current
    BY DEF SortInv, Relax
<1>2. PICK n \in Batch :
        /\ n = Input[k]
        /\ Ahead(n) /\ ~Ahead(n)'
        /\ \A m \in Batch : m # n => (Ahead(m)' <=> Ahead(m))
    BY <1>1, AheadStep DEF Relax
<1>3. \A m \in Batch : m # n => Remaining(m)' = Remaining(m)
    BY <1>1, <1>2 DEF Remaining, Settled, InBatch
<1>4. current \in Range(sorted) /\ current \in Batch
    BY <1>1, RangesInBatch DEF Types, TypeOK
<1>5. Remaining(n)' = Remaining(n) \ {current}
    BY <1>1, <1>2, <1>4 DEF Remaining, Settled, InBatch
<1>6. current \in Remaining(n) <=> current \in deps[n]
    BY <1>1, <1>2, <1>4 DEF Remaining, Settled, InBatch
<1>7. /\ IsFiniteSet(Remaining(n)) /\ Cardinality(Remaining(n)) \in Nat
      /\ inDegree[n] = Cardinality(Remaining(n))
    BY RemainingFinite DEF SortInv, DegreeCounts
<1>8. ASSUME current \in deps[n]
      PROVE  /\ DegreeCounts' /\ QueuedAreReady' /\ Once'
             /\ queue' \in Seq(Batch) /\ inDegree' \in [Batch -> Nat]
    <2>1. /\ IsFiniteSet(Remaining(n)')
          /\ Cardinality(Remaining(n)') = inDegree[n] - 1
        BY <1>5, <1>6, <1>7, <1>8, FS_RemoveElement
    <2>2. inDegree[n] = 1 <=> Remaining(n)' = {}
        BY <1>7, <2>1, FS_EmptySet
    <2>3. inDegree' = [inDegree EXCEPT ![n] = @ - 1]
        BY <1>2, <1>8 DEF Relax
    <2>4. inDegree[n] \in Nat \ {0}
        BY <1>6, <1>7, <1>8, FS_EmptySet
    <2>5. n \notin Queued
        BY <1>6, <1>8 DEF SortInv, QueuedAreReady
    <2>6. /\ queue' \in Seq(Batch) /\ IsInjective(queue')
          /\ Range(queue') = IF Remaining(n)' = {} THEN Range(queue) \cup {n} ELSE Range(queue)
        <3>1. queue \in Seq(Batch) /\ IsInjective(queue) /\ n \notin Range(queue)
            BY <1>1, <2>5 DEF Types, TypeOK, Once, Queued
        <3>2. CASE Remaining(n)' = {}
            <4>1. queue' = Append(queue, n)
                BY <1>2, <1>8, <2>2, <3>2 DEF Relax
            <4> QED
                BY <3>1, <3>2, <4>1, AppendFacts
        <3>3. CASE Remaining(n)' # {}
            BY <1>2, <1>8, <2>2, <3>1, <3>3 DEF Relax
        <3> QED
            BY <3>2, <3>3
    <2>7. DegreeCounts'
        <3> SUFFICES ASSUME NEW m \in Batch
                     PROVE  inDegree'[m] = Cardinality(Remaining(m)')
            BY DEF DegreeCounts
        <3>1. CASE m = n
            BY <1>1, <2>1, <2>3, <3>1 DEF Types, TypeOK
        <3>2. CASE m # n
            BY <1>1, <1>3, <2>3, <3>2 DEF SortInv, DegreeCounts, Types, TypeOK
        <3> QED
            BY <3>1, <3>2
    <2>8. QueuedAreReady'
        <3> SUFFICES ASSUME NEW m \in Batch
                     PROVE  m \in Queued' <=> Remaining(m)' = {}
            BY <1>1 DEF QueuedAreReady
        <3>1. m \in Queued <=> Remaining(m) = {}
            BY <1>1 DEF SortInv, QueuedAreReady
        <3> QED
            BY <1>1, <1>3, <2>5, <2>6, <3>1 DEF Queued
    <2>9. Once'
        BY <1>1, <2>5, <2>6 DEF Once, Queued
    <2>10. inDegree' \in [Batch -> Nat]
        <3>1. inDegree[n] - 1 \in Nat
            BY <2>4
        <3> QED
            BY <1>1, <2>3, <3>1 DEF Types, TypeOK
    <2> QED
        BY <2>6, <2>7, <2>8, <2>9, <2>10
<1>9. ASSUME current \notin deps[n]
      PROVE  /\ DegreeCounts' /\ QueuedAreReady' /\ Once'
             /\ queue' \in Seq(Batch) /\ inDegree' \in [Batch -> Nat]
    <2>1. UNCHANGED <<inDegree, queue>>
        BY <1>2, <1>9 DEF Relax
    <2>2. \A m \in Batch : Remaining(m)' = Remaining(m)
        BY <1>3, <1>5, <1>6, <1>9
    <2>3. DegreeCounts'
        BY <2>1, <2>2 DEF SortInv, DegreeCounts
    <2>4. QueuedAreReady'
        BY <1>1, <2>1, <2>2 DEF SortInv, QueuedAreReady, Queued
    <2>5. Once'
        BY <1>1, <2>1 DEF Once
    <2> QED
        BY <1>1, <2>1, <2>3, <2>4, <2>5 DEF Types, TypeOK
<1>10. DegreeCounts' /\ QueuedAreReady' /\ Once'
       /\ queue' \in Seq(Batch) /\ inDegree' \in [Batch -> Nat]
    BY <1>8, <1>9
<1>11. Types'
    <2>1. k' \in 1 .. Len(Input) + 1
        BY <1>1, TopoAssumption, LenProperties DEF Types, TypeOK, Relax
    <2> QED
        BY <1>1, <1>10, <2>1 DEF Types, TypeOK
<1>12. NoneStuck' /\ ProducersFirst' /\ VerdictRight'
    BY <1>1 DEF SortInv, NoneStuck, Stuck, ProducersFirst, InBatch, VerdictRight
<1> QED
    BY <1>10, <1>11, <1>12 DEF SortInv

\* The queue is empty: every module left waits for another one that is left.
LEMMA FinishSort == SortInv /\ Finish => SortInv'
<1> SUFFICES ASSUME SortInv, Finish PROVE SortInv'
    OBVIOUS
<1>1. /\ Types /\ Once /\ pc = "pop" /\ queue = <<>> /\ pc' \in {"ok", "cycle"}
      /\ UNCHANGED <<deps, inDegree, queue, sorted, k, current>>
    BY DEF SortInv, Finish
<1>2. \A n \in Batch :
        Remaining(n)' = Remaining(n) /\ Remaining(n) = InBatch(n) \ Range(sorted)
    BY <1>1 DEF Remaining, Settled, InBatch
<1>3. \A n \in Batch \ Range(sorted) : InBatch(n) \cap (Batch \ Range(sorted)) # {}
    <2> SUFFICES ASSUME NEW n \in Batch \ Range(sorted)
                 PROVE  InBatch(n) \ Range(sorted) # {}
        BY DEF InBatch
    <2>1. Range(queue) = {}
        BY <1>1, EmptySeq DEF Range
    <2>2. n \notin Queued
        BY <2>1 DEF Queued
    <2>3. Remaining(n) # {}
        BY <1>1, <2>2 DEF SortInv, QueuedAreReady
    <2> QED
        BY <1>2, <2>3
<1>4. Range(sorted) \subseteq Batch
    BY <1>1, RangesInBatch
<1>5. Len(sorted) = Len(Input) <=> Range(sorted) = Batch
    BY <1>1, FullLength DEF Types, TypeOK, Once
<1>6. VerdictRight'
    <2>1. ASSUME pc' = "ok"
          PROVE  /\ ~\E S \in SUBSET Batch : Stuck(S)
                 /\ Range(sorted) = Batch /\ IsInjective(sorted)
        <3>1. Range(sorted) = Batch
            BY <1>5, <2>1 DEF Finish
        <3>2. \A S \in SUBSET Batch : Stuck(S) => S = {}
            BY <3>1 DEF SortInv, NoneStuck
        <3> QED
            BY <1>1, <3>1, <3>2 DEF Once, Stuck
    <2>2. ASSUME pc' = "cycle"
          PROVE  \E S \in SUBSET Batch : Stuck(S)
        <3>1. Range(sorted) # Batch
            BY <1>5, <2>2 DEF Finish
        <3>2. Stuck(Batch \ Range(sorted))
            BY <1>3, <1>4, <3>1 DEF Stuck, InBatch
        <3> QED
            BY <3>2
    <2> QED
        BY <1>1, <2>1, <2>2 DEF VerdictRight, Stuck
<1>7. Types' /\ DegreeCounts' /\ Once'
    BY <1>1, <1>2 DEF SortInv, Types, TypeOK, DegreeCounts, Once
<1>8. QueuedAreReady'
    BY <1>1, <1>2 DEF SortInv, QueuedAreReady, Queued
<1>9. NoneStuck' /\ ProducersFirst'
    BY <1>1 DEF SortInv, NoneStuck, Stuck, ProducersFirst, InBatch
<1> QED
    BY <1>6, <1>7, <1>8, <1>9 DEF SortInv

\* Nothing in the invariant speaks of anything but the variables.
LEMMA SortStutters == SortInv /\ UNCHANGED vars => SortInv'
<1> SUFFICES ASSUME SortInv, UNCHANGED vars PROVE SortInv'
    OBVIOUS
<1>1. UNCHANGED <<deps, inDegree, queue, sorted, pc, k, current>>
    BY DEF vars
<1>2. \A n \in Batch : Remaining(n)' = Remaining(n) /\ (Ahead(n)' <=> Ahead(n))
    BY <1>1 DEF Remaining, Settled, InBatch, Ahead
<1>3. Types' /\ DegreeCounts' /\ QueuedAreReady' /\ Once'
    BY <1>1, <1>2 DEF SortInv, Types, TypeOK, DegreeCounts, QueuedAreReady, Queued, Once
<1>4. NoneStuck' /\ ProducersFirst' /\ VerdictRight'
    BY <1>1 DEF SortInv, NoneStuck, Stuck, ProducersFirst, InBatch, VerdictRight
<1> QED
    BY <1>3, <1>4 DEF SortInv

(***************************************************************************)
(* The theorems.                                                           *)
(***************************************************************************)
\* The invariant of topoSort's loops.
LEMMA SortInvariant == Spec => []SortInv
<1>1. Init => SortInv
    BY InitSort
<1>2. SortInv /\ [Next]_vars => SortInv'
    <2> SUFFICES ASSUME SortInv, [Next]_vars PROVE SortInv'
        OBVIOUS
    <2>1. CASE Seed
        BY <2>1, SeedSort
    <2>2. CASE SeedDone \/ RelaxDone
        BY <2>2, LoopDoneSort
    <2>3. CASE Pop
        BY <2>3, PopSort
    <2>4. CASE Relax
        BY <2>4, RelaxSort
    <2>5. CASE Finish
        BY <2>5, FinishSort
    <2>6. CASE UNCHANGED vars
        BY <2>6, SortStutters
    <2> QED
        BY <2>1, <2>2, <2>3, <2>4, <2>5, <2>6 DEF Next
<1> QED
    BY <1>1, <1>2, PTL DEF Spec

\* For every batch and every dependency relation, what topoSort has put in
\* its result stands behind all it depends on.
THEOREM ProducersComeFirst == Spec => []ProducersFirst
<1>1. SortInv => ProducersFirst
    BY DEF SortInv
<1> QED
    BY <1>1, SortInvariant, PTL

\* For every batch and every dependency relation, topoSort reports a cycle
\* only when there is one, and returns the whole batch otherwise.
THEOREM VerdictIsRight == Spec => []VerdictRight
<1>1. SortInv => VerdictRight
    BY DEF SortInv
<1> QED
    BY <1>1, SortInvariant, PTL

\* What RegisterAll takes over as r.modules is what InitAll needs: ServiceWiring
\* assumes just this of its modules (OrderAssumption).
THEOREM ResultIsTopological == Spec => [](pc = "ok" => Topological(sorted, Batch, deps))
<1>1. SortInv => (pc = "ok" => Topological(sorted, Batch, deps))
    <2> SUFFICES ASSUME SortInv, pc = "ok" PROVE Topological(sorted, Batch, deps)
        OBVIOUS
    <2>1. sorted \in Seq(Batch) /\ Range(sorted) = Batch /\ IsInjective(sorted)
        BY DEF SortInv, Types, TypeOK, VerdictRight
    <2>2. \A i \in DOMAIN sorted :
                deps[sorted[i]] \cap Batch \subseteq {sorted[j] : j \in 1 .. i - 1}
        BY DEF SortInv, ProducersFirst, InBatch
    <2> QED
        BY <2>1, <2>2 DEF Topological
<1> QED
    BY <1>1, SortInvariant, PTL

\* How many passes of its loops topoSort has left at most: each module that is
\* not sorted yet costs one pop and one walk over the batch.
PassesLeft ==
    LET unsorted == (Len(Input) - Len(sorted)) * (Len(Input) + 2)
        ahead    == Len(Input) + 1 - k
    IN  IF pc = "seed" \/ pc = "relax" THEN ahead + unsorted + 2
        ELSE IF pc = "pop" THEN unsorted + 1
        ELSE 0

LEMMA SortedFits == SortInv => Len(sorted) \in 0 .. Len(Input)
<1> SUFFICES ASSUME SortInv PROVE Len(sorted) \in 0 .. Len(Input)
    OBVIOUS
<1>1. sorted \in Seq(Batch) /\ IsInjective(sorted)
    BY DEF SortInv, Types, TypeOK, Once
<1>2. Cardinality(Range(sorted)) = Len(sorted) /\ Cardinality(Batch) = Len(Input)
    BY <1>1, LengthIsSize, TopoAssumption DEF Batch
<1>3. Range(sorted) \in SUBSET Batch
    BY <1>1, LenProperties DEF Range
<1>4. Len(sorted) \in Nat /\ Len(Input) \in Nat
    BY <1>1, TopoAssumption, LenProperties
<1> QED
    BY <1>2, <1>3, <1>4, BatchFinite, FS_Subset

LEMMA PassesCounted == SortInv => PassesLeft \in Nat
<1> SUFFICES ASSUME SortInv PROVE PassesLeft \in Nat
    OBVIOUS
<1>1. Len(Input) \in Nat /\ Len(sorted) \in 0 .. Len(Input)
    BY SortedFits, TopoAssumption, LenProperties
<1>2. k \in 1 .. Len(Input) + 1
    BY DEF SortInv, Types, TypeOK
<1>3. (Len(Input) - Len(sorted)) * (Len(Input) + 2) \in Nat
    <2>1. \A r, p \in Nat : r * p \in Nat
        OBVIOUS
    <2>2. Len(Input) - Len(sorted) \in Nat /\ Len(Input) + 2 \in Nat
        BY <1>1
    <2> QED
        BY <2>1, <2>2
<1> QED
    BY <1>1, <1>2, <1>3 DEF PassesLeft

\* topoSort ends, whatever the batch and its dependencies: every pass of its
\* loops leaves fewer of them, and their number is bounded by the batch.
THEOREM PassesRunOut ==
    Spec => /\ [](PassesLeft \in Nat)
            /\ [][PassesLeft' < PassesLeft]_vars
<1>1. SortInv /\ SortInv' /\ [Next]_vars => [PassesLeft' < PassesLeft]_vars
    <2> SUFFICES ASSUME SortInv, SortInv', Next PROVE PassesLeft' < PassesLeft
        OBVIOUS
    <2> DEFINE N == Len(Input)
               unsorted == (N - Len(sorted)) * (N + 2)
    <2>1. /\ N \in Nat /\ k \in 1 .. N + 1 /\ Len(sorted) \in 0 .. N
          /\ Len(sorted') \in 0 .. N
        <3>1. (SortInv => Len(sorted) \in 0 .. Len(Input))'
            BY SortedFits, PTL
        <3> QED
            BY <3>1, SortedFits, TopoAssumption, LenProperties DEF SortInv, Types, TypeOK
    <2>2. unsorted \in Nat
        <3>1. \A r, p \in Nat : r * p \in Nat
            OBVIOUS
        <3>2. N - Len(sorted) \in Nat /\ N + 2 \in Nat
            BY <2>1
        <3> QED
            BY <3>1, <3>2
    <2>3. CASE Seed \/ Relax
        <3>1. pc' = pc /\ pc \in {"seed", "relax"} /\ k' = k + 1 /\ sorted' = sorted
            BY <2>3 DEF Seed, Relax
        <3>2. PassesLeft = N + 1 - k + unsorted + 2 /\ PassesLeft' = N + 1 - (k + 1) + unsorted + 2
            BY <3>1 DEF PassesLeft
        <3> HIDE DEF unsorted
        <3> QED
            BY <2>1, <2>2, <3>2
    <2>4. CASE SeedDone \/ RelaxDone
        <3>1. pc' = "pop" /\ pc \in {"seed", "relax"} /\ k > N /\ sorted' = sorted
            BY <2>4 DEF SeedDone, RelaxDone
        <3>2. PassesLeft = N + 1 - k + unsorted + 2 /\ PassesLeft' = unsorted + 1
            BY <3>1 DEF PassesLeft
        <3> HIDE DEF unsorted
        <3> QED
            BY <2>1, <2>2, <3>1, <3>2
    <2>5. CASE Pop
        <3>1. pc = "pop" /\ pc' = "relax" /\ k' = 1 /\ Len(sorted') = Len(sorted) + 1
            <4>1. queue \in Seq(Batch) /\ sorted \in Seq(Batch) /\ queue # <<>>
                BY <2>5 DEF SortInv, Types, TypeOK, Pop
            <4>2. Head(queue) \in Batch
                BY <4>1, HeadTailProperties
            <4>3. Len(Append(sorted, Head(queue))) = Len(sorted) + 1
                BY <4>1, <4>2, AppendProperties
            <4> QED
                BY <2>5, <4>3 DEF Pop
        <3>2. /\ PassesLeft = unsorted + 1
              /\ PassesLeft' = N + 1 - 1 + (N - (Len(sorted) + 1)) * (N + 2) + 2
            BY <3>1 DEF PassesLeft
        <3>3. (N - (Len(sorted) + 1)) * (N + 2) = unsorted - (N + 2)
            <4>1. \A a, b, p \in Int : (a - (b + 1)) * p = (a - b) * p - p
                OBVIOUS
            <4>2. N \in Int /\ Len(sorted) \in Int /\ N + 2 \in Int
                BY <2>1
            <4> QED
                BY <4>1, <4>2
        <3> HIDE DEF unsorted
        <3> QED
            BY <2>1, <2>2, <3>2, <3>3
    <2>6. CASE Finish
        <3>1. PassesLeft = unsorted + 1 /\ PassesLeft' = 0
            BY <2>6 DEF Finish, PassesLeft
        <3> HIDE DEF unsorted
        <3> QED
            BY <2>2, <3>1
    <2> QED
        BY <2>3, <2>4, <2>5, <2>6 DEF Next
<1> QED
    BY <1>1, SortInvariant, PassesCounted, PTL DEF Spec
=============================================================================
