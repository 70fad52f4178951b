------------------------------ MODULE PartsProofs ------------------------------
(***************************************************************************)
(* Theorems about the five parts that stand alone: the setup of the        *)
(* collections, the OAuth links of a user, the metrics, the typed reads of *)
(* settings and the tenant scope of queries.                               *)
(***************************************************************************)
EXTENDS MongoSetup, OAuthLinks, Metrics, ConfigTypes, TenantScope, FiniteSetTheorems, TLAPS

(***************************************************************************)
(* The setup of the collections.                                           *)
(***************************************************************************)
SetupTypes ==
    /\ elapsed \in Int /\ elapsed <= Deadline
    /\ outage \in Nat
    /\ at \in Nat \ {0} /\ stage \in {"collection", "indexes"}
    /\ attempt \in 1 .. MaxAttempts /\ waiting \in BOOLEAN
    /\ waiting => attempt < MaxAttempts
    /\ waiting \/ stage = "indexes" => at <= Len(Collections)

LEMMA CollectionFacts ==
    /\ Len(Collections) \in Nat
    /\ DOMAIN Collections = 1 .. Len(Collections)
BY SetupAssumption DEF SetupAssumption

LEMMA WaitFacts ==
    ASSUME attempt \in 1 .. MaxAttempts
    PROVE  Wait \in Int /\ Wait <= WaitCap
<1>1. attempt - 1 \in Nat /\ WaitCap \in Int /\ FirstWait \in Int
  BY SetupAssumption
<1>2. 2 ^ (attempt - 1) \in Int
  BY <1>1
<1>3. 2 ^ (attempt - 1) * FirstWait \in Int
  BY <1>1, <1>2
<1> QED
  BY <1>1, <1>3 DEF Wait, Earlier

LEMMA ProceedTypes ==
    ASSUME SetupTypes, at <= Len(Collections), NEW ok \in BOOLEAN, Proceed(ok)
    PROVE  /\ at' \in Nat \ {0} /\ stage' \in {"collection", "indexes"}
           /\ attempt' = 1 /\ attempt' \in 1 .. MaxAttempts
           /\ waiting' \in BOOLEAN /\ ~waiting'
           /\ stage' = "indexes" => at' <= Len(Collections)
<1>1. waiting' \in BOOLEAN /\ ~waiting'
  BY Zenon DEF Proceed
<1> QED
  BY <1>1, SetupAssumption, CollectionFacts DEF SetupTypes, Proceed

LEMMA SetupTypesNext == SetupTypes /\ [SetupNext]_setupVars => SetupTypes'
<1> SUFFICES ASSUME SetupTypes, [SetupNext]_setupVars PROVE SetupTypes'
  OBVIOUS
<1>0. /\ elapsed \in Int /\ outage \in Nat /\ at \in Nat \ {0} /\ elapsed <= Deadline
      /\ Deadline \in Nat \ {0} /\ OpTimeout \in Nat \ {0}
      /\ MaxAttempts \in Nat \ {0} /\ Len(Collections) \in Nat
      /\ AttemptEnd \in Int /\ AttemptEnd <= Deadline
  BY SetupAssumption, CollectionFacts DEF SetupTypes, AttemptEnd, Earlier
<1>1. CASE Created
  <2>1. Proceed(TRUE) /\ outage' = outage
    BY <1>1, Zenon DEF Created
  <2>0. at <= Len(Collections)
    BY <1>0, <1>1 DEF Created, SetupDone
  <2>2. elapsed' \in Int /\ elapsed' <= Deadline
    BY <1>0, <1>1 DEF Created
  <2> QED
    BY <1>0, <2>0, <2>1, <2>2, ProceedTypes DEF SetupTypes
<1>2. CASE Refused
  <2>1. Proceed(FALSE) /\ outage' = outage
    BY <1>2, Zenon DEF Refused
  <2>0. at <= Len(Collections)
    BY <1>0, <1>2 DEF Refused, SetupDone
  <2>2. elapsed' \in Int /\ elapsed' <= Deadline
    BY <1>0, <1>2 DEF Refused
  <2> QED
    BY <1>0, <2>0, <2>1, <2>2, ProceedTypes DEF SetupTypes
<1>3. CASE Transient
  <2>1. at <= Len(Collections) /\ outage' = outage
    BY <1>0, <1>3 DEF Transient, SetupDone
  <2>2. elapsed' \in Int /\ elapsed' <= Deadline
    BY <1>0, <1>3 DEF Transient
  <2>3. CASE attempt = MaxAttempts
    <3>1. Proceed(FALSE)
      BY <1>3, <2>3 DEF Transient
    <3> QED
      BY <1>0, <2>1, <2>2, <3>1, ProceedTypes DEF SetupTypes
  <2>4. CASE attempt # MaxAttempts
    <3>1. waiting' = TRUE /\ UNCHANGED <<at, stage, attempt>>
      BY <1>3, <2>4 DEF Transient
    <3>2. attempt \in 1 .. MaxAttempts /\ attempt < MaxAttempts
      BY <1>0, <2>4 DEF SetupTypes
    <3> QED
      BY <1>0, <2>1, <2>2, <3>1, <3>2 DEF SetupTypes
  <2> QED
    BY <2>3, <2>4
<1>4. CASE BackOff
  <2>1. Wait \in Int /\ at <= Len(Collections) /\ attempt + 1 \in 1 .. MaxAttempts
    BY <1>0, <1>4, WaitFacts DEF BackOff, SetupTypes
  <2>2. elapsed' \in Int /\ elapsed' <= Deadline /\ outage' = outage
    BY <1>0, <1>4, <2>1 DEF BackOff, Earlier
  <2>3. CASE elapsed + Wait < Deadline
    <3>1. waiting' = FALSE /\ attempt' = attempt + 1 /\ UNCHANGED <<at, stage>>
      BY <1>4, <2>3 DEF BackOff
    <3> QED
      BY <1>0, <2>1, <2>2, <3>1 DEF SetupTypes
  <2>4. CASE ~(elapsed + Wait < Deadline)
    <3>1. Proceed(FALSE)
      BY <1>4, <2>4 DEF BackOff
    <3> QED
      BY <1>0, <2>1, <2>2, <3>1, ProceedTypes DEF SetupTypes
  <2> QED
    BY <2>3, <2>4
<1>5. CASE FailExpired
  <2>1. Proceed(FALSE) /\ UNCHANGED <<elapsed, outage>>
    BY <1>5, Zenon DEF FailExpired
  <2>0. at <= Len(Collections)
    BY <1>0, <1>5 DEF FailExpired, SetupDone
  <2> QED
    BY <1>0, <2>0, <2>1, ProceedTypes DEF SetupTypes
<1>6. CASE UNCHANGED setupVars
  BY <1>6 DEF setupVars, SetupTypes
<1> QED
  BY <1>1, <1>2, <1>3, <1>4, <1>5, <1>6 DEF SetupNext

LEMMA SetupTypesInit == SetupInit => SetupTypes
<1> SUFFICES ASSUME SetupInit PROVE SetupTypes
  OBVIOUS
<1>1. waiting \in BOOLEAN /\ ~waiting
  BY Zenon DEF SetupInit
<1>2. outage \in Nat
  BY SetupAssumption DEF SetupInit
<1> QED
  BY <1>1, <1>2, SetupAssumption DEF SetupInit, SetupTypes

\* However MongoDB fails, the setup of the collections never takes longer than
\* the context that ensureCollections gives it, whatever the timeouts and the
\* waits are: the collections are not what keeps a boot from coming up.
THEOREM BootNotHeldUp == SetupSpec => []SetupInTime
<1>1. SetupTypes => SetupInTime
  BY DEF SetupTypes, SetupInTime
<1> QED
  BY SetupTypesInit, SetupTypesNext, <1>1, PTL DEF SetupSpec

\* What the i-th collection needs in the end.
Covered(i) ==
    LET c == Collections[i] IN
    /\ <<c, "collection">> \in made \cup refused
    /\ c \in Indexed /\ <<c, "collection">> \in made =>
            <<c, "indexes">> \in made \cup refused

\* Everything before the loop index is covered.  Two modules may declare one
\* collection: when MongoDB refused the first of them, the second one makes the
\* collection, and its indexes are due.
Covering ==
    /\ \A i \in 1 .. Len(Collections) : i < at =>
            Covered(i) \/ (stage = "indexes" /\ Collections[i] = Collections[at])
    /\ stage = "indexes" => <<Collections[at], "collection">> \in made
    /\ \A i \in 1 .. Len(Collections) : <<Collections[i], "collection">> \in made =>
            \E j \in 1 .. Len(Collections) :
                /\ Collections[j] = Collections[i]
                /\ j < at \/ (j = at /\ stage = "indexes")

LEMMA CoveringInit == SetupInit => Covering
BY CollectionFacts DEF SetupInit, Covering

\* An attempt that ends in a success or a refusal covers what it is about.
LEMMA ProceedCovers ==
    ASSUME SetupTypes, Covering, at <= Len(Collections), NEW ok \in BOOLEAN, Proceed(ok),
           \/ ok /\ made' = made \cup {Item} /\ refused' = refused
           \/ ~ok /\ made' = made /\ refused' = refused \cup {Item}
    PROVE  Covering'
<1> DEFINE c == Collections[at]
           N == Len(Collections)
<1>0. /\ at \in 1 .. N /\ N \in Nat /\ Item = <<c, stage>>
      /\ stage \in {"collection", "indexes"}
      /\ made \subseteq made' /\ refused \subseteq refused'
      /\ Item \in made' \cup refused'
  BY CollectionFacts DEF SetupTypes, Item
<1>k. PICK k \in 1 .. N : k = at
  BY <1>0
<1>1. CASE ok /\ stage = "collection" /\ c \in Indexed
  <2>1. stage' = "indexes" /\ at' = at
    BY <1>1 DEF Proceed
  <2>2. made' = made \cup {<<c, "collection">>} /\ refused' = refused
    BY <1>0, <1>1
  <2>3. ASSUME NEW i \in 1 .. N, i < at, Collections[i] # c
        PROVE  Covered(i)'
    <3>1. Covered(i)
      BY <1>1, <2>3 DEF Covering
    <3>2. <<Collections[i], "collection">> \in made' => <<Collections[i], "collection">> \in made
      BY <2>2, <2>3
    <3> QED
      BY <2>2, <3>1, <3>2 DEF Covered
  <2>4. ASSUME NEW i \in 1 .. N, <<Collections[i], "collection">> \in made'
        PROVE  \E j \in 1 .. N : Collections[j] = Collections[i] /\ (j < at \/ j = at)
    <3>1. CASE Collections[i] = c
      BY <1>0, <3>1
    <3>2. CASE Collections[i] # c
      <4>1. <<Collections[i], "collection">> \in made
        BY <2>2, <2>4, <3>2
      <4> QED
        BY <4>1 DEF Covering
    <3> QED
      BY <3>1, <3>2
  <2> QED
    BY <2>1, <2>2, <2>3, <2>4 DEF Covering
<1>2. CASE ~(ok /\ stage = "collection" /\ c \in Indexed)
  <2>1. stage' = "collection" /\ at' = at + 1
    BY <1>2 DEF Proceed
  <2>2. Covered(k)'
    <3>1. CASE stage = "indexes"
      <4>1. <<c, "collection">> \in made
        BY <3>1 DEF Covering
      <4> QED
        BY <1>0, <1>k, <3>1, <4>1 DEF Covered
    <3>2. CASE stage = "collection" /\ ok
      BY <1>0, <1>k, <1>2, <3>2 DEF Covered
    <3>3. CASE stage = "collection" /\ ~ok
      <4>1. <<c, "collection">> \in refused' /\ made' = made
        BY <1>0, <3>3
      <4>2. ASSUME <<c, "collection">> \in made, c \in Indexed
            PROVE  <<c, "indexes">> \in made' \cup refused'
        <5>1. PICK j \in 1 .. N : Collections[j] = c /\ j < at
          BY <1>0, <3>3, <4>2 DEF Covering
        <5>2. Covered(j)
          BY <3>3, <5>1 DEF Covering
        <5> QED
          BY <1>0, <4>2, <5>1, <5>2 DEF Covered
      <4> QED
        BY <1>k, <4>1, <4>2 DEF Covered
    <3> QED
      BY <1>0, <3>1, <3>2, <3>3
  <2>3. ASSUME NEW i \in 1 .. N, i < at
        PROVE  Covered(i)'
    <3>1. CASE Collections[i] = c
      BY <1>k, <2>2, <3>1 DEF Covered
    <3>2. CASE Collections[i] # c
      <4>1. Covered(i)
        BY <2>3, <3>2 DEF Covering
      <4>2. <<Collections[i], "collection">> \in made' => <<Collections[i], "collection">> \in made
        BY <1>0, <3>2
      <4> QED
        BY <1>0, <4>1, <4>2 DEF Covered
    <3> QED
      BY <3>1, <3>2
  <2>4. ASSUME NEW i \in 1 .. N, <<Collections[i], "collection">> \in made'
        PROVE  \E j \in 1 .. N : Collections[j] = Collections[i] /\ j < at + 1
    <3>1. CASE Collections[i] = c
      BY <1>0, <3>1
    <3>2. CASE Collections[i] # c
      <4>1. <<Collections[i], "collection">> \in made
        BY <1>0, <2>4, <3>2
      <4> QED
        BY <1>0, <4>1 DEF Covering
    <3> QED
      BY <3>1, <3>2
  <2>5. \A i \in 1 .. N : i < at' => Covered(i)'
    BY <1>0, <1>k, <2>1, <2>2, <2>3
  <2> QED
    BY <2>1, <2>4, <2>5 DEF Covering
<1> QED
  BY <1>1, <1>2

\* total[k]: how long the waits before the k-th attempt last.
TotalWaits(total) ==
    /\ total \in [1 .. MaxAttempts -> Nat]
    /\ total[1] = 0
    /\ \A k \in 1 .. MaxAttempts - 1 :
            total[k + 1] = total[k] + Earlier(2 ^ (k - 1) * FirstWait, WaitCap)

Short == outage <= Deadline - OpTimeout - WaitCap

\* While MongoDB is out for no longer than that, no attempt is the last one and
\* no wait is cut short.
OnTime(total) ==
    /\ total[attempt] <= elapsed /\ elapsed < Deadline
    /\ waiting => elapsed + WaitCap < Deadline

LEMMA SurvivingStep ==
    ASSUME NEW total, TotalWaits(total),
           total[MaxAttempts] >= Deadline - OpTimeout - WaitCap,
           SetupTypes, Short, OnTime(total), Covering, SetupNext
    PROVE  OnTime(total)' /\ Covering'
<1>0. /\ elapsed \in Int /\ outage \in Nat /\ at \in Nat \ {0} /\ elapsed <= Deadline
      /\ Deadline \in Nat \ {0} /\ OpTimeout \in Nat \ {0} /\ WaitCap \in Nat \ {0}
      /\ MaxAttempts \in Nat \ {0} /\ Len(Collections) \in Nat
      /\ attempt \in 1 .. MaxAttempts /\ total[attempt] \in Nat /\ total[1] = 0
      /\ 0 <= elapsed /\ elapsed < Deadline
      /\ outage < Deadline
  BY SetupAssumption, CollectionFacts DEF SetupTypes, TotalWaits, OnTime, Short
<1>1. CASE Created
  <2>1. Proceed(TRUE) /\ made' = made \cup {Item} /\ refused' = refused
    BY <1>1, Zenon DEF Created
  <2>2. at <= Len(Collections)
    BY <1>0, <1>1 DEF Created, SetupDone
  <2>3. 0 <= elapsed' /\ elapsed' < Deadline
    BY <1>0, <1>1 DEF Created
  <2>4. Covering'
    BY <2>1, <2>2, ProceedCovers
  <2> QED
    BY <1>0, <2>1, <2>2, <2>3, <2>4, ProceedTypes DEF OnTime
<1>2. CASE Refused
  <2>1. Proceed(FALSE) /\ made' = made /\ refused' = refused \cup {Item}
    BY <1>2, Zenon DEF Refused
  <2>2. at <= Len(Collections)
    BY <1>0, <1>2 DEF Refused, SetupDone
  <2>3. elapsed' = elapsed \/ (elapsed < outage /\ elapsed' = AttemptEnd)
    BY <1>2 DEF Refused
  <2>4. 0 <= elapsed' /\ elapsed' < Deadline
    <3>1. elapsed < outage => 0 <= AttemptEnd /\ AttemptEnd < Deadline
      BY <1>0 DEF AttemptEnd, Earlier, Short
    <3> QED
      BY <1>0, <2>3, <3>1
  <2>5. Covering'
    BY <2>1, <2>2, ProceedCovers
  <2> QED
    BY <1>0, <2>1, <2>2, <2>4, <2>5, ProceedTypes DEF OnTime
<1>3. CASE Transient
  <2>1. elapsed < outage /\ elapsed' \in {elapsed, AttemptEnd}
    BY <1>3 DEF Transient
  <2>2. attempt # MaxAttempts
    BY <1>0, <2>1 DEF OnTime, Short
  <2>3. waiting' = TRUE /\ UNCHANGED <<at, stage, attempt, made, refused>>
    BY <1>3, <2>2 DEF Transient
  <2>4. elapsed <= AttemptEnd /\ AttemptEnd <= elapsed + OpTimeout
    BY <1>0 DEF AttemptEnd, Earlier
  <2>5. AttemptEnd \in Int /\ elapsed + OpTimeout + WaitCap < Deadline
    BY <1>0, <2>1 DEF AttemptEnd, Earlier, Short
  <2>6. elapsed' \in Int /\ elapsed <= elapsed' /\ elapsed' <= elapsed + OpTimeout
    BY <1>0, <2>1, <2>4, <2>5
  <2>7. OnTime(total)'
    <3>1. attempt' = attempt
      BY <2>3
    <3>2. total[attempt] <= elapsed
      BY DEF OnTime
    <3>3. total[attempt] <= elapsed'
      BY <1>0, <2>6, <3>2
    <3>4. elapsed' < Deadline /\ elapsed' + WaitCap < Deadline
      <4>1. /\ elapsed \in Int /\ OpTimeout \in Int /\ Deadline \in Int
            /\ WaitCap \in Int /\ WaitCap > 0
        BY <1>0
      <4>2. \A e, f \in Int : /\ e <= f + OpTimeout /\ f + OpTimeout + WaitCap < Deadline
                            => e < Deadline /\ e + WaitCap < Deadline
        BY <4>1
      <4> QED
        BY <2>5, <2>6, <4>1, <4>2
    <3> QED
      BY <3>1, <3>3, <3>4 DEF OnTime
  <2> QED
    BY <2>3, <2>7 DEF Covering, Covered
<1>4. CASE BackOff
  <2>1. /\ waiting /\ Wait \in Int /\ Wait <= WaitCap
        /\ attempt \in 1 .. MaxAttempts - 1
    BY <1>0, <1>4, WaitFacts DEF BackOff, SetupTypes
  <2>2. elapsed + Wait < Deadline
    BY <1>0, <2>1 DEF OnTime
  <2>3. /\ elapsed' = elapsed + Wait /\ waiting' = FALSE /\ attempt' = attempt + 1
        /\ UNCHANGED <<at, stage, made, refused>>
    BY <1>0, <1>4, <2>2 DEF BackOff, Earlier
  <2>4. total[attempt + 1] = total[attempt] + Wait
    BY <2>1 DEF TotalWaits, Wait
  <2>5. total[attempt'] <= elapsed'
    BY <1>0, <2>1, <2>3, <2>4 DEF OnTime
  <2>6. ~waiting'
    BY <2>3, Zenon
  <2>7. OnTime(total)'
    BY <1>0, <2>1, <2>2, <2>3, <2>5, <2>6 DEF OnTime
  <2> QED
    BY <2>3, <2>7 DEF Covering, Covered
<1>5. CASE FailExpired
  BY <1>0, <1>5 DEF FailExpired, Expired
<1> QED
  BY <1>1, <1>2, <1>3, <1>4, <1>5 DEF SetupNext

\* An outage of MongoDB that ends a full attempt and a full wait before the
\* deadline costs no collection and no index, for any collections in any order,
\* declared by one module or by several, however the attempts fail: provided
\* the attempts of retryTransient, even when each fails at once, span so long.
THEOREM OutageOutlasted ==
    ASSUME NEW total, TotalWaits(total),
           total[MaxAttempts] >= Deadline - OpTimeout - WaitCap
    PROVE  SetupSpec => []OutageSurvived
<1> DEFINE Surviving == SetupTypes /\ (Short => OnTime(total) /\ Covering)
<1>1. SetupInit => Surviving
  <2> SUFFICES ASSUME SetupInit PROVE Surviving
    OBVIOUS
  <2>1. OnTime(total)
    BY SetupAssumption DEF SetupInit, OnTime, TotalWaits
  <2> QED
    BY <2>1, SetupTypesInit, CoveringInit
<1>2. Surviving /\ [SetupNext]_setupVars => Surviving'
  <2> SUFFICES ASSUME Surviving, [SetupNext]_setupVars PROVE Surviving'
    OBVIOUS
  <2>1. SetupTypes'
    BY SetupTypesNext
  <2>2. outage' = outage
    BY DEF SetupNext, Created, Refused, Transient, BackOff, FailExpired, setupVars
  <2>3. ASSUME Short', SetupNext PROVE OnTime(total)' /\ Covering'
    BY <2>2, <2>3, SurvivingStep DEF Short
  <2>4. ASSUME Short', UNCHANGED setupVars PROVE OnTime(total)' /\ Covering'
    BY <2>2, <2>4 DEF Short, OnTime, Covering, Covered, setupVars
  <2> QED
    BY <2>1, <2>3, <2>4
<1>3. Surviving => OutageSurvived
  <2> SUFFICES ASSUME Surviving, SetupDone, Short,
                      NEW i \in DOMAIN Collections
               PROVE  Covered(i)
    BY DEF OutageSurvived, Covered, Short
  <2>1. stage # "indexes" /\ i < at /\ i \in 1 .. Len(Collections)
    BY CollectionFacts DEF SetupDone, SetupTypes
  <2> QED
    BY <2>1 DEF Covering
<1> QED
  BY <1>1, <1>2, <1>3, PTL DEF SetupSpec

\* The constants of retryTransient and ensureCollections, in units of 200 ms.
CodeTimes ==
    /\ MaxAttempts = 10 /\ FirstWait = 1 /\ WaitCap = 15
    /\ OpTimeout = 50 /\ Deadline = 150

\* With the times that the code has, they do: a MongoDB that is up 17 s after
\* ensureCollections began costs nothing.
THEOREM CodeOutlastsOutage == CodeTimes => (SetupSpec => []OutageSurvived)
<1> DEFINE total == <<0, 1, 3, 7, 15, 30, 45, 60, 75, 90>>
<1> SUFFICES ASSUME CodeTimes PROVE SetupSpec => []OutageSurvived
  OBVIOUS
<1>1. total \in [1 .. MaxAttempts -> Nat] /\ total[1] = 0 /\ total[10] = 90
  BY DEF CodeTimes
<1>2. ASSUME NEW k \in 1 .. MaxAttempts - 1
      PROVE  total[k + 1] = total[k] + Earlier(2 ^ (k - 1) * FirstWait, WaitCap)
  <2>1. k \in {1, 2, 3, 4, 5, 6, 7, 8, 9}
    BY DEF CodeTimes
  <2>2. FirstWait = 1 /\ WaitCap = 15
    BY DEF CodeTimes
  <2>3. /\ total[1] = 0 /\ total[2] = 1 /\ total[3] = 3 /\ total[4] = 7 /\ total[5] = 15
        /\ total[6] = 30 /\ total[7] = 45 /\ total[8] = 60 /\ total[9] = 75 /\ total[10] = 90
    OBVIOUS
  <2>4. /\ 2 ^ 0 = 1 /\ 2 ^ 1 = 2 /\ 2 ^ 2 = 4 /\ 2 ^ 3 = 8 /\ 2 ^ 4 = 16 /\ 2 ^ 5 = 32
        /\ 2 ^ 6 = 64 /\ 2 ^ 7 = 128 /\ 2 ^ 8 = 256
    OBVIOUS
  <2> HIDE DEF total
  <2> USE <2>2, <2>3, <2>4 DEF Earlier
  <2>11. CASE k = 1
    BY <2>11
  <2>12. CASE k = 2
    BY <2>12
  <2>13. CASE k = 3
    BY <2>13
  <2>14. CASE k = 4
    BY <2>14
  <2>15. CASE k = 5
    BY <2>15
  <2>16. CASE k = 6
    BY <2>16
  <2>17. CASE k = 7
    BY <2>17
  <2>18. CASE k = 8
    BY <2>18
  <2>19. CASE k = 9
    BY <2>19
  <2> QED
    BY <2>1, <2>11, <2>12, <2>13, <2>14, <2>15, <2>16, <2>17, <2>18, <2>19
<1>3. TotalWaits(total) /\ total[MaxAttempts] >= Deadline - OpTimeout - WaitCap
  BY <1>1, <1>2 DEF TotalWaits, CodeTimes
<1> HIDE DEF total
<1> QED
  BY <1>3, OutageOutlasted

(***************************************************************************)
(* The OAuth links of a user: first what the operations make of the list.  *)
(***************************************************************************)
LinksInv == LinksTypeOK /\ PrimaryIsChosen

\* Clearing the primary flags, or moving them all to one link, keeps ids.
LEMMA OnlyPrimaryLinks ==
    ASSUME links \in Seq(Link), NEW n \in Nat
    PROVE  /\ OnlyPrimary(n) \in Seq(Link)
           /\ Len(OnlyPrimary(n)) = Len(links)
           /\ \A j \in 1 .. Len(links) : /\ OnlyPrimary(n)[j].id = links[j].id
                                         /\ OnlyPrimary(n)[j].primary <=> j = n
<1> DEFINE s == OnlyPrimary(n)
<1>1. Len(links) \in Nat /\ DOMAIN links = 1 .. Len(links)
  OBVIOUS
<1>2. \A j \in 1 .. Len(links) : links[j] \in Link
  OBVIOUS
<1>3. s = [j \in 1 .. Len(links) |-> [id |-> links[j].id, primary |-> j = n]]
  BY <1>1 DEF OnlyPrimary
<1>4. \A j \in 1 .. Len(links) : s[j] = [id |-> links[j].id, primary |-> j = n]
  BY <1>3
<1>5. \A j \in 1 .. Len(links) : s[j] \in Link
  <2> TAKE j \in 1 .. Len(links)
  <2>1. links[j].id \in LinkIds
    BY <1>2 DEF Link
  <2>2. (j = n) \in BOOLEAN
    OBVIOUS
  <2>3. [id |-> links[j].id, primary |-> j = n] \in Link
    BY <2>1, <2>2, Zenon DEF Link
  <2> QED
    BY <1>4, <2>3
<1>6. s \in Seq(Link) /\ Len(s) = Len(links)
  BY <1>1, <1>3, <1>5
<1>7. ASSUME NEW j \in 1 .. Len(links)
      PROVE  s[j].id = links[j].id /\ (s[j].primary <=> j = n)
  <2>1. s[j] = [id |-> links[j].id, primary |-> j = n]
    BY <1>4
  <2>2. s[j].id = links[j].id
    BY <2>1
  <2>3. ASSUME NEW b \in BOOLEAN, b = (j = n) PROVE s[j].primary = b
    <3>1. s[j] = [id |-> links[j].id, primary |-> b]
      BY <2>1, <2>3, Zenon
    <3> QED
      BY <3>1
  <2>4. s[j].primary = (j = n)
    BY <2>3, Zenon
  <2> QED
    BY <2>2, <2>4, Zenon
<1> QED
  BY <1>6, <1>7, Zenon

\* A function from positions to links is a list of links.
LEMMA LinkSeq ==
    ASSUME NEW m \in Nat, NEW s \in [1 .. m -> Link]
    PROVE  s \in Seq(Link) /\ Len(s) = m
OBVIOUS

\* Removing the i-th of several links moves those behind it down by one.
LEMMA WithoutLinks ==
    ASSUME links \in Seq(Link), Len(links) > 1, NEW i \in 1 .. Len(links)
    PROVE  /\ Without(i) \in Seq(Link)
           /\ Len(Without(i)) = Len(links) - 1
           /\ \A j \in 1 .. Len(links) - 1 :
                Without(i)[j] = IF j < i THEN links[j] ELSE links[j + 1]
<1>1. Len(links) \in Nat /\ Len(links) - 1 \in Nat
  OBVIOUS
<1>2. \A j \in 1 .. Len(links) - 1 :
        (IF j < i THEN links[j] ELSE links[j + 1]) \in Link
  BY <1>1
<1> QED
  BY <1>1, <1>2 DEF Without

\* At most one link of s is primary, it carries the chosen id, and there is
\* one as soon as an id was chosen.
Spelled(s, c) ==
    /\ \A i, j \in 1 .. Len(s) : s[i].primary /\ s[j].primary => i = j
    /\ \A i \in 1 .. Len(s) : s[i].primary => s[i].id \in c
    /\ \A id \in c : \E i \in 1 .. Len(s) : s[i].primary /\ s[i].id = id

\* The property, without the set Primary.
LEMMA SpelledOut ==
    ASSUME NEW s \in Seq(Link), NEW c
    PROVE  LET p == {i \in DOMAIN s : s[i].primary}
           IN  ((\A i, j \in p : i = j) /\ {s[i].id : i \in p} = c) <=> Spelled(s, c)
<1> DEFINE P(i) == s[i].primary
           p == {i \in DOMAIN s : s[i].primary}
<1>1. DOMAIN s = 1 .. Len(s)
  OBVIOUS
<1>3. \A i : i \in p <=> i \in 1 .. Len(s) /\ P(i)
  BY <1>1, Zenon
<1> HIDE DEF p
<1>4. (\A i, j \in p : i = j) <=>
        \A i, j \in 1 .. Len(s) : P(i) /\ P(j) => i = j
  BY <1>3, Zenon
<1>5. {s[i].id : i \in p} \subseteq c <=>
        \A i \in 1 .. Len(s) : P(i) => s[i].id \in c
  BY <1>3, Zenon
<1>6. c \subseteq {s[i].id : i \in p} <=>
        \A id \in c : \E i \in 1 .. Len(s) : P(i) /\ s[i].id = id
  BY <1>3, Zenon
<1>7. {s[i].id : i \in p} = c <=>
        {s[i].id : i \in p} \subseteq c /\ c \subseteq {s[i].id : i \in p}
  OBVIOUS
<1>8. ((\A i, j \in p : i = j) /\ {s[i].id : i \in p} = c) <=> Spelled(s, c)
  BY <1>4, <1>5, <1>6, <1>7, Zenon DEF Spelled
<1> QED
  BY <1>8 DEF p

\* For the state before a step ...
LEMMA PrimarySpelled ==
    links \in Seq(Link) => (PrimaryIsChosen <=> Spelled(links, chosen))
BY SpelledOut, Zenon DEF PrimaryIsChosen, Primary

\* ... and for the one after it.
LEMMA PrimarySpelledNext ==
    links' \in Seq(Link) => (PrimaryIsChosen' <=> Spelled(links', chosen'))
BY SpelledOut, Zenon DEF PrimaryIsChosen, Primary

(***************************************************************************)
(* The invariant of the links.                                             *)
(***************************************************************************)
\* A user starts without links.
LEMMA LinksInitInv == LinksInit => LinksInv
<1> SUFFICES ASSUME LinksInit PROVE LinksInv
  OBVIOUS
<1>1. links = <<>> /\ chosen = {}
  BY DEF LinksInit
<1>2. LinksTypeOK
  BY <1>1, LinksAssumption DEF LinksTypeOK
<1>3. Primary = {}
  BY <1>1 DEF Primary
<1> QED
  BY <1>1, <1>2, <1>3 DEF LinksInv, PrimaryIsChosen

\* One step of AddOAuthLink.
LEMMA AddInv ==
    ASSUME LinksInv, NEW id \in LinkIds, NEW primary \in BOOLEAN,
           AddOAuthLink(id, primary)
    PROVE  LinksInv'
<1>1. links \in Seq(Link) /\ Len(links) < MaxLinks /\ MaxLinks \in Nat
  BY LinksAssumption DEF LinksInv, LinksTypeOK, AddOAuthLink
<1>2. Spelled(links, chosen)
  BY <1>1, PrimarySpelled DEF LinksInv
<1> DEFINE new == [id |-> id, primary |-> primary]
           s == IF primary THEN OnlyPrimary(0) ELSE links
<1>3. new \in Link /\ new.id = id /\ new.primary = primary
  BY DEF Link
<1>4. /\ s \in Seq(Link) /\ Len(s) = Len(links)
      /\ primary => \A j \in 1 .. Len(links) : ~s[j].primary
  <2>1. CASE primary
    <3>1. s = OnlyPrimary(0)
      BY <2>1, Zenon
    <3>2. \A j \in 1 .. Len(links) : j # 0
      OBVIOUS
    <3> QED
      BY <1>1, <3>1, <3>2, OnlyPrimaryLinks, Zenon, 0 \in Nat
  <2>2. CASE ~primary
    BY <1>1, <2>2
  <2> QED
    BY <2>1, <2>2, Zenon
<1>5. links' = Append(s, new)
  BY DEF AddOAuthLink
<1> HIDE DEF new, s
<1>6. /\ links' \in Seq(Link) /\ Len(links') = Len(links) + 1
      /\ links'[Len(links) + 1] = new
      /\ \A j \in 1 .. Len(links) : links'[j] = s[j]
  BY <1>1, <1>3, <1>4, <1>5
<1>7. LinksTypeOK'
  BY <1>1, <1>6 DEF LinksTypeOK
<1>8. /\ 1 .. Len(links') = 1 .. Len(links) \cup {Len(links) + 1}
      /\ Len(links) + 1 \notin 1 .. Len(links)
  BY <1>1, <1>6
<1>9. Spelled(links', chosen')
  <2>1. CASE primary
    <3>1. \A j \in 1 .. Len(links) : ~links'[j].primary
      BY <1>4, <1>6, <2>1, Zenon
    <3>2. links'[Len(links) + 1].primary /\ links'[Len(links) + 1].id = id
      BY <1>3, <1>6, <2>1, Zenon
    <3>3. chosen' = {id}
      BY <2>1, Zenon DEF AddOAuthLink
    <3> QED
      BY <1>8, <3>1, <3>2, <3>3, Zenon DEF Spelled
  <2>2. CASE ~primary
    <3>1. \A j \in 1 .. Len(links) : links'[j] = links[j]
      BY <1>6, <2>2, Zenon DEF s
    <3>2. ~links'[Len(links) + 1].primary
      BY <1>3, <1>6, <2>2, Zenon
    <3>3. chosen' = chosen
      BY <2>2, Zenon DEF AddOAuthLink
    <3> QED
      BY <1>2, <1>8, <3>1, <3>2, <3>3, Zenon DEF Spelled
  <2> QED
    BY <2>1, <2>2, Zenon
<1> QED
  BY <1>6, <1>7, <1>9, PrimarySpelledNext DEF LinksInv

\* One step of RemoveOAuthLink.
LEMMA RemoveInv ==
    ASSUME LinksInv, NEW id \in LinkIds, RemoveOAuthLink(id)
    PROVE  LinksInv'
<1>1. links \in Seq(Link) /\ Len(links) <= MaxLinks /\ MaxLinks \in Nat
  BY LinksAssumption DEF LinksInv, LinksTypeOK
<1>2. Spelled(links, chosen)
  BY <1>1, PrimarySpelled DEF LinksInv
<1>3. PICK i \in DOMAIN links :
        /\ Len(links) > 1 /\ IsFirst(id, i)
        /\ links' = IF links[i].primary
                    THEN [Without(i) EXCEPT ![1] = [id |-> @.id, primary |-> TRUE]]
                    ELSE Without(i)
        /\ chosen' = IF links[i].primary THEN {Without(i)[1].id} ELSE chosen
  BY Zenon DEF RemoveOAuthLink
<1>4. i \in 1 .. Len(links) /\ Len(links) \in Nat
  BY <1>1, <1>3
<1> DEFINE w == Without(i)
           n == Len(links) - 1
<1>5. /\ w \in Seq(Link) /\ Len(w) = n /\ n \in Nat /\ 1 \in 1 .. n
      /\ \A j \in 1 .. n : w[j] = IF j < i THEN links[j] ELSE links[j + 1]
  BY <1>1, <1>3, <1>4, WithoutLinks
<1> DEFINE from(j) == IF j < i THEN j ELSE j + 1
<1>6. ASSUME NEW j \in 1 .. n
      PROVE  /\ from(j) \in 1 .. Len(links) /\ from(j) # i
             /\ w[j] = links[from(j)]
  BY <1>4, <1>5
<1>7. \A j, k \in 1 .. n : from(j) = from(k) => j = k
  BY <1>4
<1>8. \A k \in 1 .. Len(links) : k # i => \E j \in 1 .. n : from(j) = k
  <2> TAKE k \in 1 .. Len(links)
  <2> HAVE k # i
  <2>1. CASE k < i
    <3>1. k \in 1 .. n /\ from(k) = k
      BY <1>4, <2>1
    <3> QED
      BY <3>1
  <2>2. CASE k > i
    <3>1. k - 1 \in 1 .. n /\ from(k - 1) = k
      BY <1>4, <2>2
    <3> QED
      BY <3>1
  <2> QED
    BY <1>4, <2>1, <2>2
<1> HIDE DEF w, n, from
<1>9. CASE links[i].primary
  <2>1. links' = [w EXCEPT ![1] = [id |-> @.id, primary |-> TRUE]] /\ chosen' = {w[1].id}
    BY <1>3, <1>9, Zenon DEF w
  <2>2. \A j \in 1 .. n : ~w[j].primary
    BY <1>2, <1>4, <1>6, <1>9, Zenon DEF Spelled
  <2>3. DOMAIN w = 1 .. n /\ \A j \in 1 .. n : w[j] \in Link
    BY <1>5
  <2>5. links' = [j \in 1 .. n |-> IF j = 1 THEN [id |-> w[1].id, primary |-> TRUE] ELSE w[j]]
    BY <2>1, <2>3
  <2>6. [id |-> w[1].id, primary |-> TRUE] \in Link
    BY <1>5, <2>3 DEF Link
  <2>7. links' \in Seq(Link) /\ Len(links') = n
    <3>1. \A j \in 1 .. n : (IF j = 1 THEN [id |-> w[1].id, primary |-> TRUE] ELSE w[j]) \in Link
      BY <2>3, <2>6, Zenon
    <3>2. links' \in [1 .. n -> Link]
      BY <2>5, <3>1, Zenon
    <3> QED
      BY <1>5, <3>2, LinkSeq, Zenon
  <2>8. LinksTypeOK'
    BY <1>1, <2>7 DEF LinksTypeOK, n
  <2>9. links'[1].primary /\ links'[1].id = w[1].id
    BY <1>5, <2>5
  <2>10. \A j \in 1 .. n : j # 1 => ~links'[j].primary
    BY <2>2, <2>5, Zenon
  <2>11. Spelled(links', chosen')
    <3>1. \A j \in 1 .. n : links'[j].primary => j = 1
      BY <2>10, Zenon
    <3>2. \A j \in 1 .. n : links'[j].primary => links'[j].id \in {w[1].id}
      BY <2>9, <3>1, Zenon
    <3>3. \A c \in {w[1].id} : \E j \in 1 .. n : links'[j].primary /\ links'[j].id = c
      BY <1>5, <2>9, Zenon
    <3>4. \A j, k \in 1 .. n : links'[j].primary /\ links'[k].primary => j = k
      BY <3>1, Zenon
    <3> QED
      BY <2>1, <2>7, <3>2, <3>3, <3>4, Zenon DEF Spelled
  <2> QED
    BY <2>7, <2>8, <2>11, PrimarySpelledNext DEF LinksInv
<1>10. CASE ~links[i].primary
  <2>1. links' = w /\ chosen' = chosen
    BY <1>3, <1>10, Zenon DEF w
  <2>2. links' \in Seq(Link) /\ Len(links') = n
    BY <1>5, <2>1
  <2>3. LinksTypeOK'
    BY <1>1, <2>2 DEF LinksTypeOK, n
  <2>4. \A j, k \in 1 .. n : w[j].primary /\ w[k].primary => j = k
    BY <1>2, <1>6, <1>7, Zenon DEF Spelled
  <2>5. \A j \in 1 .. n : w[j].primary => w[j].id \in chosen
    BY <1>2, <1>6, Zenon DEF Spelled
  <2>6. \A c \in chosen : \E j \in 1 .. n : w[j].primary /\ w[j].id = c
    <3> TAKE c \in chosen
    <3>1. PICK k \in 1 .. Len(links) : links[k].primary /\ links[k].id = c
      BY <1>2, Zenon DEF Spelled
    <3>2. PICK j \in 1 .. n : from(j) = k
      BY <1>8, <1>10, <3>1, Zenon
    <3> QED
      BY <1>6, <3>1, <3>2, Zenon
  <2>7. Spelled(links', chosen')
    BY <2>1, <2>2, <2>4, <2>5, <2>6, Zenon DEF Spelled
  <2> QED
    BY <2>2, <2>3, <2>7, PrimarySpelledNext DEF LinksInv
<1> QED
  BY <1>9, <1>10, Zenon

\* One step of SetPrimaryOAuthLink.
LEMMA SetPrimaryInv ==
    ASSUME LinksInv, NEW id \in LinkIds, SetPrimaryOAuthLink(id)
    PROVE  LinksInv'
<1>1. links \in Seq(Link) /\ Len(links) <= MaxLinks
  BY DEF LinksInv, LinksTypeOK
<1>2. PICK i \in DOMAIN links :
        IsFirst(id, i) /\ links' = OnlyPrimary(i) /\ chosen' = {id}
  BY Zenon DEF SetPrimaryOAuthLink
<1>3. i \in Nat /\ i \in 1 .. Len(links) /\ links[i].id = id
  BY <1>1, <1>2 DEF IsFirst
<1>4. /\ links' \in Seq(Link) /\ Len(links') = Len(links)
      /\ \A j \in 1 .. Len(links) : /\ links'[j].id = links[j].id
                                    /\ links'[j].primary <=> j = i
  BY <1>1, <1>2, <1>3, OnlyPrimaryLinks, Zenon
<1>5. LinksTypeOK'
  BY <1>1, <1>4 DEF LinksTypeOK
<1>6. Spelled(links', chosen')
  <2> DEFINE n == Len(links)
  <2>1. \A j, k \in 1 .. n : links'[j].primary /\ links'[k].primary => j = k
    BY <1>4, Zenon
  <2>2. \A j \in 1 .. n : links'[j].primary => links'[j].id \in {id}
    BY <1>3, <1>4, Zenon
  <2>3. \A c \in {id} : \E j \in 1 .. n : links'[j].primary /\ links'[j].id = c
    BY <1>3, <1>4, Zenon
  <2> QED
    BY <1>2, <1>4, <2>1, <2>2, <2>3, Zenon DEF Spelled
<1> QED
  BY <1>4, <1>5, <1>6, PrimarySpelledNext DEF LinksInv

\* Whatever is called in whatever order, the primary link is the one chosen
\* last or the one that took over from it, and the only one.
THEOREM OnePrimary == LinksSpec => []PrimaryIsChosen
<1>1. LinksInv /\ [LinksNext]_linksVars => LinksInv'
  <2> SUFFICES ASSUME LinksInv, [LinksNext]_linksVars PROVE LinksInv'
    OBVIOUS
  <2>1. ASSUME NEW id \in LinkIds, NEW primary \in BOOLEAN,
               AddOAuthLink(id, primary)
        PROVE  LinksInv'
    BY <2>1, AddInv
  <2>2. ASSUME NEW id \in LinkIds, RemoveOAuthLink(id) PROVE LinksInv'
    BY <2>2, RemoveInv
  <2>3. ASSUME NEW id \in LinkIds, SetPrimaryOAuthLink(id) PROVE LinksInv'
    BY <2>3, SetPrimaryInv
  <2>4. CASE UNCHANGED linksVars
    <3>1. links' = links /\ chosen' = chosen
      BY <2>4 DEF linksVars
    <3> QED
      BY <3>1, Zenon DEF LinksInv, LinksTypeOK, PrimaryIsChosen, Primary
  <2> QED
    BY <2>1, <2>2, <2>3, <2>4, Zenon DEF LinksNext
<1>2. LinksInv => PrimaryIsChosen
  BY DEF LinksInv
<1> QED
  BY LinksInitInv, <1>1, <1>2, PTL DEF LinksSpec

(***************************************************************************)
(* The registration of the metrics.                                        *)
(***************************************************************************)
Registering(r) == next[r] \in 1 .. Families

\* Only the call that won the compare-and-swap is in the loop, and what is
\* collected is what it has passed.
RegisterInv ==
    /\ next \in [Registrars -> 0 .. Returned]
    /\ registered \in BOOLEAN
    /\ errors = {}
    /\ ~registered => collected = {} /\ \A r \in Registrars : next[r] = 0
    /\ \A r, s \in Registrars : Registering(r) /\ Registering(s) => r = s
    /\ \A r \in Registrars : Registering(r) => collected = 1 .. next[r] - 1
    /\ registered /\ (\A r \in Registrars : ~Registering(r)) =>
            collected = 1 .. Families

LEMMA RegisterInitInv == MetricsInit => RegisterInv
<1> SUFFICES ASSUME MetricsInit PROVE RegisterInv
  OBVIOUS
<1>1. /\ ~registered /\ registered \in BOOLEAN /\ collected = {} /\ errors = {}
      /\ next = [r \in Registrars |-> 0]
  BY Zenon DEF MetricsInit
<1>2. \A r \in Registrars : next[r] = 0 /\ ~Registering(r)
  BY <1>1 DEF Registering
<1> QED
  <2>1. next \in [Registrars -> 0 .. Returned]
    BY <1>1, MetricsAssumption DEF Returned
  <2> QED
    BY <1>1, <1>2, <2>1, Zenon DEF RegisterInv

\* The compare-and-swap lets in at most one call.
LEMMA RegisterKeeps ==
    ASSUME RegisterInv, NEW r \in Registrars, Register(r)
    PROVE  RegisterInv'
<1> USE MetricsAssumption DEF RegisterInv, Registering, Returned, Register
<1>1. CASE registered
  <2>1. next' = [next EXCEPT ![r] = Families + 1] /\ UNCHANGED registered
    BY <1>1
  <2>2. \A s \in Registrars : Registering(s)' <=> Registering(s)
    BY <2>1
  <2> QED
    BY <1>1, <2>1, <2>2
<1>2. CASE ~registered
  <2>1. next' = [next EXCEPT ![r] = 1] /\ registered' /\ collected' = {}
    BY <1>2
  <2>2. \A s \in Registrars : Registering(s)' => s = r
    BY <1>2, <2>1
  <2>3. 1 .. next'[r] - 1 = {} /\ next'[r] = 1
    BY <2>1
  <2>4. ~Registering(r)' => 1 .. Families = {}
    BY <2>3
  <2>5. next' \in [Registrars -> 0 .. Returned] /\ errors' = {}
    BY <2>1
  <2> QED
    BY <2>1, <2>2, <2>3, <2>4, <2>5
<1> QED
  BY <1>1, <1>2

\* One family: the call in the loop never finds it collected already.
LEMMA FamilyKeeps ==
    ASSUME RegisterInv, NEW r \in Registrars, RegisterFamily(r)
    PROVE  RegisterInv'
<1> USE MetricsAssumption DEF RegisterInv, Registering, Returned
<1>1. Registering(r) /\ collected = 1 .. next[r] - 1 /\ registered
  BY DEF RegisterFamily
<1>2. /\ collected' = collected \cup {next[r]} /\ next' = [next EXCEPT ![r] = @ + 1]
      /\ registered' = registered /\ errors' = errors
  <2>1. next[r] \notin collected
    BY <1>1
  <2> QED
    BY <2>1, Zenon DEF RegisterFamily
<1>3. collected' = 1 .. next[r]
  BY <1>1, <1>2
<1>4. \A s \in Registrars : s # r => ~Registering(s) /\ ~Registering(s)'
  BY <1>1, <1>2
<1>5. next'[r] = next[r] + 1 /\ next' \in [Registrars -> 0 .. Returned]
  BY <1>1, <1>2
<1>6. Registering(r)' => collected' = 1 .. next'[r] - 1
  BY <1>1, <1>3, <1>5
<1>7. ~Registering(r)' => collected' = 1 .. Families
  BY <1>1, <1>3, <1>5
<1>8. registered' /\ registered' \in BOOLEAN /\ errors' = {}
  BY <1>1, <1>2, Zenon
<1> QED
  BY <1>4, <1>5, <1>6, <1>7, <1>8, Zenon DEF RegisterInv

\* No caller of Register gets an error, and the metrics are all there when
\* the one that registers them has returned.
THEOREM RegistrationComplete == MetricsSpec => []RegisteredOnce
<1>1. RegisterInv /\ [MetricsNext]_metricsVars => RegisterInv'
  <2> SUFFICES ASSUME RegisterInv, [MetricsNext]_metricsVars PROVE RegisterInv'
    OBVIOUS
  <2>1. CASE UNCHANGED registerVars
    BY <2>1 DEF registerVars, RegisterInv, Registering
  <2>2. CASE RegisterNext
    BY <2>2, RegisterKeeps, FamilyKeeps DEF RegisterNext
  <2> QED
    BY <2>1, <2>2 DEF MetricsNext, metricsVars
<1>2. RegisterInv => RegisteredOnce
  BY MetricsAssumption DEF RegisterInv, RegisteredOnce, Registering, Returned
<1> QED
  BY RegisterInitInv, <1>1, <1>2, PTL DEF MetricsSpec

(***************************************************************************)
(* The lag gauge of the metrics.                                           *)
(***************************************************************************)
Time == Nat \cup {Never}

LagTypeOK ==
    /\ clock \in Nat
    /\ lastApply \in [Kinds -> Time] /\ applied \in [Kinds -> Time]
    /\ gauge \in [Kinds -> Int \cup {Never}]
    /\ step \in [Goroutines -> {"idle", "apply", "refresh", "set"}]
    /\ now \in [Goroutines -> Nat]
    /\ unset \in [Goroutines -> SUBSET Kinds]
    /\ \A g \in Appliers : step[g] # "idle" => kind[g] \in Kinds
    /\ DOMAIN kind = Appliers /\ kind = [g \in Appliers |-> kind[g]]

\* The lock is held for reading by the goroutines that set values.
ReadersSet == readers = {g \in Goroutines : step[g] = "set"}

\* Whoever sets values took the time after the applies it sees, and has set
\* all it has not still to set.
RefreshAt(g) ==
    step[g] = "set" =>
        /\ now[g] <= clock
        /\ \A k \in Kinds :
            lastApply[k] # Never =>
                /\ lastApply[k] <= now[g]
                /\ k \notin unset[g] => /\ gauge[k] # Never
                                        /\ gauge[k] <= clock - lastApply[k]
        /\ \A k \in unset[g] : lastApply[k] # Never

\* An apply that has written is behind no other.
WrittenAt(g) == step[g] \in {"refresh", "set"} => lastApply[kind[g]] # Never

LagAt(k) ==
    /\ lastApply[k] # Never => lastApply[k] <= clock
    /\ gauge[k] # Never => gauge[k] >= 0
    /\ applied[k] # Never =>
            /\ lastApply[k] # Never /\ applied[k] <= lastApply[k]
            /\ gauge[k] # Never /\ gauge[k] <= clock - applied[k]

LagInv ==
    /\ LagTypeOK /\ ReadersSet
    /\ \A g \in Goroutines : RefreshAt(g)
    /\ \A g \in Appliers : WrittenAt(g)
    /\ \A k \in Kinds : LagAt(k)

LEMMA LagInitInv == MetricsInit => LagInv
<1> SUFFICES ASSUME MetricsInit PROVE LagInv
  OBVIOUS
<1>1. /\ clock = 0 /\ readers = {}
      /\ lastApply = [k \in Kinds |-> Never] /\ gauge = [k \in Kinds |-> Never]
      /\ applied = [k \in Kinds |-> Never]
      /\ step = [g \in Goroutines |-> "idle"]
      /\ kind = [g \in Appliers |-> Never]
      /\ now = [g \in Goroutines |-> 0] /\ unset = [g \in Goroutines |-> {}]
  BY Zenon DEF MetricsInit
<1>2. LagTypeOK
  BY <1>1 DEF LagTypeOK, Time, Goroutines
<1>3. ReadersSet /\ \A g \in Goroutines : RefreshAt(g)
  BY <1>1 DEF ReadersSet, RefreshAt
<1>4. \A g \in Appliers : WrittenAt(g)
  BY <1>1 DEF WrittenAt, Goroutines
<1>5. \A k \in Kinds : LagAt(k)
  BY <1>1 DEF LagAt
<1> QED
  BY <1>2, <1>3, <1>4, <1>5 DEF LagInv

\* The write waits for every refresh under way, so it takes no value from
\* under one.
LEMMA ApplyKeeps ==
    ASSUME LagInv, NEW g \in Appliers, Apply(g)
    PROVE  LagInv'
<1> USE DEF LagInv, Goroutines
<1>1. /\ step[g] = "apply" /\ kind[g] \in Kinds /\ readers = {}
      /\ lastApply' = [lastApply EXCEPT ![kind[g]] = clock]
      /\ step' = [step EXCEPT ![g] = "refresh"]
      /\ UNCHANGED <<clock, gauge, readers, kind, now, unset, applied>>
  BY DEF Apply, LagTypeOK
<1>2. LagTypeOK'
  BY <1>1 DEF LagTypeOK, Time
<1>3. \A h \in Goroutines : step[h] # "set" /\ step'[h] # "set"
  BY <1>1 DEF ReadersSet, LagTypeOK
<1>4. ReadersSet' /\ \A h \in Goroutines : RefreshAt(h)'
  BY <1>1, <1>3 DEF ReadersSet, RefreshAt
<1>5. \A h \in Appliers : WrittenAt(h)'
  BY <1>1, MetricsAssumption DEF WrittenAt, LagTypeOK
<1>6. \A k \in Kinds : LagAt(k)'
  BY <1>1, MetricsAssumption DEF LagAt, LagTypeOK, Time
<1> QED
  BY <1>2, <1>4, <1>5, <1>6

\* The values set are those of the applies seen under the lock.
LEMMA RefreshKeeps ==
    ASSUME LagInv, NEW g \in Goroutines,
           BeginRefresh(g) \/ (\E k \in Kinds : SetLag(g, k))
    PROVE  LagInv'
<1> USE DEF LagInv
<1>1. CASE BeginRefresh(g)
  <2> USE <1>1 DEF BeginRefresh
  <2>1. LagTypeOK'
    BY DEF LagTypeOK
  <2>2. ReadersSet'
    BY DEF ReadersSet, LagTypeOK
  <2>3. \A h \in Goroutines : RefreshAt(h)'
    BY DEF RefreshAt, LagTypeOK, LagAt
  <2>4. \A h \in Appliers : WrittenAt(h)'
    BY DEF WrittenAt, LagTypeOK, Goroutines
  <2>5. \A k \in Kinds : LagAt(k)'
    BY DEF LagAt
  <2> QED
    BY <2>1, <2>2, <2>3, <2>4, <2>5
<1>2. ASSUME NEW k \in Kinds, SetLag(g, k) PROVE LagInv'
  <2>1. /\ step[g] = "set" /\ k \in unset[g]
        /\ gauge' = [gauge EXCEPT ![k] = now[g] - lastApply[k]]
        /\ unset' = [unset EXCEPT ![g] = @ \ {k}]
        /\ UNCHANGED <<clock, lastApply, readers, step, kind, now, applied>>
    BY <1>2 DEF SetLag
  <2>2. /\ lastApply[k] \in Nat /\ lastApply[k] <= now[g] /\ now[g] <= clock
        /\ now[g] \in Nat /\ clock \in Nat
    BY <2>1, MetricsAssumption DEF RefreshAt, LagTypeOK, Time
  <2>3. /\ gauge'[k] = now[g] - lastApply[k]
        /\ gauge'[k] \in Nat /\ gauge'[k] # Never
        /\ gauge'[k] <= clock - lastApply[k]
    BY <2>1, <2>2, MetricsAssumption DEF LagTypeOK
  <2>4. LagTypeOK'
    BY <2>1, <2>3 DEF LagTypeOK
  <2>5. ReadersSet' /\ \A h \in Appliers : WrittenAt(h)'
    BY <2>1 DEF ReadersSet, WrittenAt
  <2>6. \A h \in Goroutines : RefreshAt(h)'
    BY <2>1, <2>3 DEF RefreshAt, LagTypeOK
  <2>7. \A j \in Kinds : LagAt(j)'
    BY <2>1, <2>2, <2>3 DEF LagAt, LagTypeOK, Time
  <2> QED
    BY <2>4, <2>5, <2>6, <2>7
<1> QED
  BY <1>1, <1>2

\* When a refresh ends, its apply counts as returned.
LEMMA EndRefreshKeeps ==
    ASSUME LagInv, NEW g \in Goroutines, EndRefresh(g)
    PROVE  LagInv'
<1> USE DEF LagInv
<1>1. /\ step[g] = "set" /\ unset[g] = {} /\ readers' = readers \ {g}
      /\ step' = [step EXCEPT ![g] = "idle"] /\ now' = [now EXCEPT ![g] = 0]
      /\ UNCHANGED <<clock, lastApply, gauge, unset>>
      /\ applied' = IF g = "ticker" THEN applied
                    ELSE [applied EXCEPT ![kind[g]] = lastApply[kind[g]]]
      /\ kind' = IF g = "ticker" THEN kind ELSE [kind EXCEPT ![g] = Never]
  BY DEF EndRefresh
<1>2. /\ g # "ticker" => g \in Appliers /\ kind[g] \in Kinds
      /\ "ticker" \notin Appliers
  BY <1>1, MetricsAssumption DEF Goroutines, LagTypeOK
<1>3. LagTypeOK'
  BY <1>1, <1>2 DEF LagTypeOK, Goroutines
<1>4. ReadersSet'
  BY <1>1 DEF ReadersSet, LagTypeOK
<1>5. \A h \in Goroutines : RefreshAt(h)'
  BY <1>1 DEF RefreshAt, LagTypeOK
<1>6. \A h \in Appliers : WrittenAt(h)'
  BY <1>1, <1>2 DEF WrittenAt, LagTypeOK, Goroutines
<1>7. \A k \in Kinds : LagAt(k)'
  <2> TAKE k \in Kinds
  <2>1. CASE applied'[k] = applied[k]
    BY <1>1, <2>1 DEF LagAt
  <2>2. CASE applied'[k] = lastApply[k] /\ lastApply[k] # Never
    <3>1. gauge[k] # Never /\ gauge[k] <= clock - lastApply[k]
      BY <1>1, <2>2 DEF RefreshAt
    <3> QED
      BY <1>1, <2>2, <3>1 DEF LagAt, LagTypeOK, Time
  <2>3. applied'[k] = applied[k] \/ (applied'[k] = lastApply[k] /\ lastApply[k] # Never)
    BY <1>1, <1>2 DEF LagTypeOK, WrittenAt
  <2> QED
    BY <2>1, <2>2, <2>3
<1> QED
  BY <1>3, <1>4, <1>5, <1>6, <1>7

\* The steps that touch neither the gauge nor the last applies.
LEMMA OthersKeep ==
    ASSUME LagInv,
           \/ Tick \/ StartOrStop \/ Advance
           \/ \E g \in Appliers, k \in Kinds : RecordEntitlementApply(g, k)
    PROVE  LagInv'
<1> USE DEF LagInv
<1>1. CASE Tick
  <2> USE <1>1 DEF Tick
  <2>1. LagTypeOK' /\ ReadersSet'
    BY MetricsAssumption DEF LagTypeOK, ReadersSet, Goroutines
  <2>2. (\A g \in Goroutines : RefreshAt(g)') /\ (\A k \in Kinds : LagAt(k)')
    BY DEF RefreshAt, LagAt, LagTypeOK
  <2>3. \A g \in Appliers : WrittenAt(g)'
    BY MetricsAssumption DEF WrittenAt, LagTypeOK, Goroutines
  <2> QED
    BY <2>1, <2>2, <2>3
<1>2. CASE StartOrStop
  BY <1>2 DEF StartOrStop, LagTypeOK, ReadersSet, RefreshAt, WrittenAt, LagAt
<1>3. CASE Advance
  <2> USE <1>3 DEF Advance
  <2>1. LagTypeOK' /\ ReadersSet' /\ (\A g \in Appliers : WrittenAt(g)')
    BY DEF LagTypeOK, ReadersSet, WrittenAt
  <2>2. \A g \in Goroutines : RefreshAt(g)'
    BY DEF RefreshAt, LagTypeOK, Time
  <2>3. \A k \in Kinds : LagAt(k)'
    BY DEF LagAt, LagTypeOK, Time
  <2> QED
    BY <2>1, <2>2, <2>3
<1>4. ASSUME NEW g \in Appliers, NEW k \in Kinds, RecordEntitlementApply(g, k)
      PROVE  LagInv'
  <2> USE <1>4 DEF RecordEntitlementApply
  <2>1. LagTypeOK' /\ ReadersSet'
    BY DEF LagTypeOK, ReadersSet, Goroutines
  <2>2. (\A h \in Goroutines : RefreshAt(h)') /\ (\A j \in Kinds : LagAt(j)')
    BY DEF RefreshAt, LagAt, LagTypeOK
  <2>3. \A h \in Appliers : WrittenAt(h)'
    BY DEF WrittenAt, LagTypeOK, Goroutines
  <2> QED
    BY <2>1, <2>2, <2>3
<1> QED
  BY <1>1, <1>2, <1>3, <1>4

\* Whatever refreshes and applies overlap, a scrape after an apply has
\* returned never finds an older lag, nor a negative one.
THEOREM GaugeFresh == MetricsSpec => []LagFresh
<1>1. LagInv /\ [MetricsNext]_metricsVars => LagInv'
  <2> SUFFICES ASSUME LagInv, [MetricsNext]_metricsVars PROVE LagInv'
    OBVIOUS
  <2>1. CASE UNCHANGED lagVars
    BY <2>1 DEF lagVars, LagInv, LagTypeOK, ReadersSet, RefreshAt, WrittenAt, LagAt
  <2>2. CASE LagNext
    BY <2>2, ApplyKeeps, RefreshKeeps, EndRefreshKeeps, OthersKeep, Zenon DEF LagNext
  <2> QED
    BY <2>1, <2>2 DEF MetricsNext, metricsVars
<1>2. LagInv => LagFresh
  BY DEF LagInv, LagFresh, LagAt
<1> QED
  BY LagInitInv, <1>1, <1>2, PTL DEF MetricsSpec

(***************************************************************************)
(* Typed reads of settings.                                                *)
(***************************************************************************)
\* What fits a field fits an int.
LEMMA FitsInt ==
    ASSUME NEW bits \in TargetBits, NEW n \in Int, Fits(n, bits)
    PROVE  Fits(n, IntBits)
<1>1. bits - 1 \in Nat /\ IntBits - 1 \in Nat
  BY TypesAssumption
<1>2. 2 ^ (bits - 1) \in Int /\ 2 ^ (IntBits - 1) \in Int
  BY <1>1
<1>3. 2 ^ (bits - 1) <= 2 ^ (IntBits - 1)
  BY TypesAssumption
<1>4. \A p, q \in Int : p <= q /\ -p <= n /\ n < p => -q <= n /\ n < q
  OBVIOUS
<1> QED
  BY <1>2, <1>3, <1>4 DEF Fits

\* What a conversion leaves is what assignField gives for its type.
Converted(type, raw, bits) ==
    CASE type = "bool" -> [ok |-> TRUE, value |-> ParseBool(raw)]
      [] type = "int" -> AssignInt(raw, bits)
      [] type = "duration" -> AssignDuration(raw)

LEMMA RawFacts ==
    ASSUME NEW raw \in RawValue
    PROVE  /\ raw.class \in {"empty", "yes", "junk", "number", "duration"}
           /\ raw.n \in Int
<1>1. CASE raw \in [class : {"empty", "yes", "junk"}, n : {0}, plain : BOOLEAN]
  BY <1>1
<1>2. CASE raw \in [class : {"number", "duration"}, n : Numbers, plain : BOOLEAN]
  <2>1. raw.class \in {"number", "duration"} /\ raw.n \in Numbers
    BY <1>2
  <2> QED
    BY <2>1, TypesAssumption
<1> QED
  BY <1>1, <1>2 DEF RawValue

LEMMA BoolReadsAgree ==
    ASSUME NEW raw \in RawValue, raw.plain, NEW fallback
    PROVE  GetConfigBool(raw, fallback) =
               IF raw.class = "empty" THEN fallback ELSE ParseBool(raw)
BY DEF GetConfigBool, ParseBool

LEMMA IntReadsAgree ==
    ASSUME NEW raw \in RawValue, raw.plain, NEW bits \in TargetBits,
           NEW fallback
    PROVE  GetConfigInt(raw, fallback) =
               IF raw.class = "empty" THEN fallback
               ELSE IF AssignInt(raw, bits).ok THEN AssignInt(raw, bits).value
               ELSE IF raw.class = "number" /\ Fits(raw.n, IntBits) THEN raw.n
               ELSE fallback
<1>1. CASE raw.class = "empty"
  BY <1>1 DEF GetConfigInt
<1>2. CASE raw.class # "empty" /\ AssignInt(raw, bits).ok
  <2>1. raw.class = "number" /\ Fits(raw.n, bits) /\ AssignInt(raw, bits).value = raw.n
    BY <1>2 DEF AssignInt
  <2>2. Fits(raw.n, IntBits)
    BY <2>1, RawFacts, FitsInt
  <2> QED
    BY <1>2, <2>1, <2>2 DEF GetConfigInt
<1>3. CASE raw.class # "empty" /\ ~AssignInt(raw, bits).ok
  BY <1>3 DEF GetConfigInt
<1> QED
  BY <1>1, <1>2, <1>3

LEMMA DurationReadsAgree ==
    ASSUME NEW raw \in RawValue, raw.plain, NEW fallback
    PROVE  GetConfigDuration(raw, fallback) =
               IF raw.class = "empty" THEN fallback
               ELSE IF AssignDuration(raw).ok THEN AssignDuration(raw).value
               ELSE fallback
BY DEF GetConfigDuration, AssignDuration, IsDuration

\* A setting that is written plainly means the same to GetConfigInt and its
\* like as to UnmarshalModule, for every number that a Go program can meet, and
\* every width of the field it is read into.
THEOREM TypedReadsSame == TypesSpec => []TypedReadsAgree
<1>1. TypesInit => TypedReadsAgree
  BY DEF TypesInit, TypedReadsAgree, Get, GetConfigBool
<1>2. TypedReadsAgree /\ [TypesNext]_typesVars => TypedReadsAgree'
  <2> SUFFICES ASSUME TypedReadsAgree, [TypesNext]_typesVars PROVE TypedReadsAgree'
    OBVIOUS
  <2>1. ASSUME NEW type \in Types, NEW raw \in RawValue, NEW bits \in TargetBits,
               AssignField(type, raw, bits)
        PROVE  TypedReadsAgree'
    <3> DEFINE a == Converted(type, raw, bits)
    <3>1. conversion' = [type |-> type, raw |-> raw, bits |-> bits,
                         ok |-> a.ok, value |-> a.value]
      BY <2>1 DEF AssignField, Converted
    <3> SUFFICES ASSUME NEW fallback \in {-1, 1}, raw.plain
                 PROVE  Get(type, raw, fallback) =
                            IF raw.class = "empty" THEN fallback
                            ELSE IF a.ok THEN a.value
                            ELSE IF type = "int" /\ raw.class = "number"
                                    /\ Fits(raw.n, IntBits)
                            THEN raw.n ELSE fallback
      BY <3>1 DEF TypedReadsAgree
    <3>2. CASE type = "bool"
      BY <3>2, BoolReadsAgree DEF Get, Converted
    <3>3. CASE type = "int"
      BY <3>3, IntReadsAgree DEF Get, Converted
    <3>4. CASE type = "duration"
      BY <3>4, DurationReadsAgree DEF Get, Converted
    <3> QED
      BY <3>2, <3>3, <3>4 DEF Types
  <2>2. CASE UNCHANGED typesVars
    BY <2>2 DEF typesVars, TypedReadsAgree
  <2> QED
    BY <2>1, <2>2 DEF TypesNext
<1> QED
  BY <1>1, <1>2, PTL DEF TypesSpec

(***************************************************************************)
(* The tenant scope.                                                       *)
(***************************************************************************)
\* A non-empty set of natural numbers has a least element.
LEMMA Least ==
    ASSUME NEW S \in SUBSET Nat, S # {}
    PROVE  \E n \in S : \A m \in S : n <= m
<1> DEFINE T == {1 .. n : n \in S}
           R == StrictSubsetOrdering(Nat)
<1>1. \A n \in Nat : 1 .. n \in FiniteSubsetsOf(Nat)
  BY FS_Interval DEF FiniteSubsetsOf
<1>2. T \subseteq FiniteSubsetsOf(Nat) /\ T # {}
  BY <1>1
<1>3. IsWellFoundedOn(R, FiniteSubsetsOf(Nat))
  BY FS_StrictSubsetOrderingWellFounded
<1>4. \A m, n \in Nat : m < n => <<1 .. m, 1 .. n>> \in R
  <2> SUFFICES ASSUME NEW m \in Nat, NEW n \in Nat, m < n
               PROVE  <<1 .. m, 1 .. n>> \in R
    OBVIOUS
  <2>1. 1 .. m \subseteq 1 .. n /\ n \in 1 .. n /\ n \notin 1 .. m
    OBVIOUS
  <2> QED
    BY <2>1 DEF StrictSubsetOrdering
<1> HIDE DEF R
<1>5. \E x \in T : \A y \in T : ~ (<<y, x>> \in R)
  <2> HIDE DEF T
  <2> QED BY <1>2, <1>3, WFMin
<1>6. PICK n \in S : \A m \in S : ~ (<<1 .. m, 1 .. n>> \in R)
  BY <1>5
<1>7. \A m \in S : ~ (m < n)
  BY <1>4, <1>6
<1>8. \A m \in S : m \in Nat /\ n \in Nat
  OBVIOUS
<1> QED
  BY <1>7, <1>8

\* g[i] is what the first i stages of a pipeline make of the documents D.
Through(g, D, p, n) ==
    g = [i \in 0 .. n |-> IF i = 0 THEN D ELSE Stage(g[i - 1], p[i])]

\* There is such a g, so that Evaluate is what its definition says.
LEMMA ThroughExists ==
    ASSUME NEW D, NEW p, NEW n \in Nat
    PROVE  \E g : Through(g, D, p, n)
<1> DEFINE S == {k \in Nat : ~ \E g : Through(g, D, p, k)}
<1>1. SUFFICES ASSUME S # {} PROVE FALSE
  OBVIOUS
<1>2. PICK k \in S : \A m \in S : k <= m
  <2> HIDE DEF S
  <2>1. S \subseteq Nat
    BY DEF S
  <2> QED
    BY <1>1, <2>1, Least
<1>3. CASE k = 0
  <2> DEFINE f == [i \in 0 .. 0 |-> D]
  <2>1. \A i \in 0 .. 0 : i = 0
    OBVIOUS
  <2>2. f = [i \in 0 .. 0 |-> IF i = 0 THEN D ELSE Stage(f[i - 1], p[i])]
    BY <2>1
  <2> QED
    BY <1>2, <1>3, <2>2 DEF Through
<1>4. CASE k # 0
  <2>1. k \in Nat /\ k - 1 \in Nat /\ ~ (k <= k - 1)
    BY <1>2, <1>4
  <2>2. k - 1 \notin S
    BY <1>2, <2>1
  <2>3. PICK g : Through(g, D, p, k - 1)
    BY <2>1, <2>2
  <2> DEFINE f == [i \in 0 .. k |-> IF i = k THEN Stage(g[k - 1], p[k]) ELSE g[i]]
  <2>4. \A i \in 0 .. k - 1 : g[i] = IF i = 0 THEN D ELSE Stage(g[i - 1], p[i])
    BY <2>3 DEF Through
  <2>5. ASSUME NEW i \in 0 .. k
        PROVE  f[i] = IF i = 0 THEN D ELSE Stage(f[i - 1], p[i])
    <3>1. CASE i = k
      BY <1>4, <2>1, <3>1
    <3>2. CASE i # k
      <4>1. i \in 0 .. k - 1 /\ (i # 0 => i - 1 \in 0 .. k /\ i - 1 # k)
        BY <2>1, <3>2
      <4> QED
        BY <2>4, <3>2, <4>1
    <3> QED
      BY <3>1, <3>2
  <2>6. f = [i \in 0 .. k |-> f[i]]
    OBVIOUS
  <2>7. Through(f, D, p, k)
    <3> HIDE DEF f
    <3> QED
      BY <2>5, <2>6 DEF Through
  <2> QED
    BY <1>2, <2>7
<1> QED
  BY <1>3, <1>4

\* Evaluate takes the stages one by one.
LEMMA EvaluateSteps ==
    ASSUME NEW D, NEW p, Len(p) \in Nat
    PROVE  \E g : /\ g[0] = D /\ Evaluate(D, p) = g[Len(p)]
                  /\ \A i \in 1 .. Len(p) : g[i] = Stage(g[i - 1], p[i])
<1> DEFINE g == CHOOSE g : Through(g, D, p, Len(p))
<1>1. Through(g, D, p, Len(p))
  <2> HIDE DEF Through
  <2> QED
    BY ThroughExists
<1>2. Evaluate(D, p) = g[Len(p)]
  BY DEF Evaluate, Through
<1> HIDE DEF g
<1>3. \A i \in 0 .. Len(p) : g[i] = IF i = 0 THEN D ELSE Stage(g[i - 1], p[i])
  BY <1>1 DEF Through
<1>4. g[0] = D
  BY <1>3
<1>5. \A i \in 1 .. Len(p) : g[i] = Stage(g[i - 1], p[i])
  BY <1>3
<1> QED
  BY <1>2, <1>4, <1>5

LEMMA EvaluateOne ==
    ASSUME NEW D, NEW p, Len(p) = 1
    PROVE  Evaluate(D, p) = Stage(D, p[1])
<1>1. PICK g : /\ g[0] = D /\ Evaluate(D, p) = g[1]
               /\ \A i \in 1 .. 1 : g[i] = Stage(g[i - 1], p[i])
  BY EvaluateSteps
<1>2. g[1] = Stage(g[1 - 1], p[1])
  BY <1>1
<1> QED
  BY <1>1, <1>2

\* A document carries the tenant whose request inserted it.
ScopeInv ==
    /\ author \in Seq(Tenants)
    /\ \A d \in documents : d.id \in 1 .. Len(author) /\ d.tenant = author[d.id]

Own(ctx) == {d \in documents : author[d.id] = ctx}

LEMMA ScopeNextInv == ScopeInv /\ [ScopeNext]_scopeVars => ScopeInv'
<1> SUFFICES ASSUME ScopeInv, [ScopeNext]_scopeVars PROVE ScopeInv'
  OBVIOUS
<1>1. ASSUME NEW ctx \in Contexts, NEW f \in Filter, Find(ctx, f) PROVE ScopeInv'
  BY <1>1 DEF Find, ScopeInv
<1>2. ASSUME NEW ctx \in Contexts, NEW pipeline \in Pipeline, Aggregate(ctx, pipeline)
      PROVE  ScopeInv'
  BY <1>2 DEF Aggregate, ScopeInv
<1>3. ASSUME NEW ctx \in Contexts, NEW t, NEW s, Insert(ctx, t, s) PROVE ScopeInv'
  <2> DEFINE n == Len(author) + 1
             doc == [id |-> n, tenant |-> ctx, status |-> s]
  <2>1. /\ ctx \in Tenants /\ author' = Append(author, ctx)
        /\ documents' = documents \cup {doc}
    BY <1>3 DEF Insert, HasTenant, Contexts, StampInsertM
  <2>2. /\ author' \in Seq(Tenants) /\ Len(author') = n /\ n \in Nat
        /\ author'[n] = ctx
        /\ \A i \in 1 .. Len(author) : author'[i] = author[i] /\ i \in 1 .. n
    BY <2>1 DEF ScopeInv
  <2>3. ASSUME NEW d \in documents
        PROVE  d.id \in 1 .. n /\ d.tenant = author'[d.id]
    BY <2>2 DEF ScopeInv
  <2>4. doc.id \in 1 .. n /\ doc.tenant = author'[doc.id]
    BY <2>2
  <2> HIDE DEF doc
  <2> QED
    BY <2>1, <2>2, <2>3, <2>4 DEF ScopeInv
<1>4. CASE UNCHANGED scopeVars
  BY <1>4 DEF scopeVars, ScopeInv
<1> QED
  BY <1>1, <1>2, <1>3, <1>4 DEF ScopeNext

\* The filter of a tenant lets through its own documents and no others.
LEMMA OwnMatch ==
    ASSUME ScopeInv, NEW ctx \in Tenants, NEW f \in Filter
    PROVE  Stage(documents, MatchStage(Scope(ctx, f))) =
               Stage(Own(ctx), MatchStage([f EXCEPT !.tenant = Anything]))
<1> DEFINE g == Scope(ctx, f)
           h == [f EXCEPT !.tenant = Anything]
<1>1. /\ g.tenant = ctx /\ g.status = f.status
      /\ h.tenant = Anything /\ h.status = f.status
      /\ ctx # Anything
  BY ScopeAssumption DEF Scope, Filter
<1> HIDE DEF g, h
<1>2. \A d \in documents : Matches(d, g) <=> d \in Own(ctx) /\ Matches(d, h)
  BY <1>1 DEF Matches, Own, ScopeInv
<1>3. /\ Stage(documents, MatchStage(g)) = {d \in documents : Matches(d, g)}
      /\ Stage(Own(ctx), MatchStage(h)) = {d \in Own(ctx) : Matches(d, h)}
  BY DEF Stage, MatchStage
<1> QED
  BY <1>2, <1>3 DEF Own, g, h

\* What the $match in front leaves to the stages of the caller.
LEMMA OwnFirst ==
    ASSUME ScopeInv, NEW ctx \in Tenants
    PROVE  Stage(documents, MatchStage([tenant |-> ctx, status |-> Anything])) = Own(ctx)
<1> DEFINE g == [tenant |-> ctx, status |-> Anything]
<1>1. g.tenant = ctx /\ g.status = Anything /\ ctx # Anything
  BY ScopeAssumption
<1> HIDE DEF g
<1>2. \A d \in documents : Matches(d, g) <=> d \in Own(ctx)
  BY <1>1 DEF Matches, Own, ScopeInv
<1>3. Stage(documents, MatchStage(g)) = {d \in documents : Matches(d, g)}
  BY DEF Stage, MatchStage
<1> QED
  BY <1>2, <1>3 DEF Own, g

\* So the stages of the caller, which come one later in the scoped pipeline,
\* work on the tenant's own documents, each as it would without the scope.
LEMMA ScopedAggregate ==
    ASSUME ScopeInv, NEW ctx \in Tenants, NEW pipeline \in Seq(Stages)
    PROVE  Evaluate(documents, ScopeAggregate(ctx, pipeline)) = Evaluate(Own(ctx), pipeline)
<1> DEFINE m == MatchStage([tenant |-> ctx, status |-> Anything])
           scoped == <<m>> \o pipeline
           N == Len(pipeline)
<1>1. /\ N \in Nat /\ Len(scoped) = N + 1 /\ scoped[1] = m
      /\ \A i \in 1 .. N : scoped[i + 1] = pipeline[i]
  <2> HIDE DEF m
  <2> QED
    OBVIOUS
<1>2. Stage(documents, m) = Own(ctx)
  BY OwnFirst
<1>3. ScopeAggregate(ctx, pipeline) = scoped
  BY DEF ScopeAggregate
<1> HIDE DEF m, scoped
<1>4. PICK f : /\ f[0] = documents /\ Evaluate(documents, scoped) = f[N + 1]
               /\ \A i \in 1 .. N + 1 : f[i] = Stage(f[i - 1], scoped[i])
  BY <1>1, EvaluateSteps
<1>5. PICK g : /\ g[0] = Own(ctx) /\ Evaluate(Own(ctx), pipeline) = g[N]
               /\ \A i \in 1 .. N : g[i] = Stage(g[i - 1], pipeline[i])
  BY <1>1, EvaluateSteps
<1> HIDE DEF N
<1> DEFINE S == {k \in 0 .. N : f[k + 1] # g[k]}
<1>6. ASSUME S # {} PROVE FALSE
  <2>1. PICK k \in S : \A j \in S : k <= j
    <3>1. S \subseteq Nat
      BY <1>1
    <3> HIDE DEF S
    <3> QED
      BY <1>6, <3>1, Least
  <2>2. CASE k = 0
    <3>1. f[1] = Stage(f[0], scoped[1])
      BY <1>1, <1>4
    <3> QED
      BY <1>1, <1>2, <1>4, <1>5, <2>1, <2>2, <3>1
  <2>3. CASE k # 0
    <3>1. /\ k \in 1 .. N /\ k - 1 \in 0 .. N /\ ~ (k <= k - 1)
          /\ k + 1 \in 1 .. N + 1 /\ (k + 1) - 1 = k /\ (k - 1) + 1 = k
      BY <1>1, <2>1, <2>3
    <3>2. k - 1 \notin S
      BY <2>1, <3>1
    <3>3. f[k] = g[k - 1]
      BY <3>1, <3>2
    <3>4. f[k + 1] = Stage(f[k], pipeline[k])
      BY <1>1, <1>4, <3>1
    <3>5. g[k] = Stage(g[k - 1], pipeline[k])
      BY <1>5, <3>1
    <3> QED
      BY <2>1, <3>3, <3>4, <3>5
  <2> QED
    BY <2>2, <2>3
<1>7. f[N + 1] = g[N]
  BY <1>1, <1>6
<1> QED
  BY <1>3, <1>4, <1>5, <1>7

\* No query of one tenant shows what another one inserted, and none misses a
\* document of its own: for any tenants and documents, whatever tenant the
\* filter, the pipeline or the document that a repository passes in names.
THEOREM TenantsAreApart == ScopeSpec => TenantsApart
<1> DEFINE Apart == answer' # answer =>
                answer'.result = Evaluate({d \in documents : author[d.id] = answer'.by},
                                          answer'.pipeline)
<1>1. ScopeInit => ScopeInv
  BY DEF ScopeInit, ScopeInv
<1>2. ScopeInv /\ [ScopeNext]_scopeVars => [Apart]_scopeVars
  <2> SUFFICES ASSUME ScopeInv, ScopeNext, answer' # answer
               PROVE  answer'.result = Evaluate(Own(answer'.by), answer'.pipeline)
    BY DEF Own
  <2>1. ASSUME NEW ctx \in Contexts, NEW f \in Filter, Find(ctx, f)
        PROVE  answer'.result = Evaluate(Own(answer'.by), answer'.pipeline)
    <3> DEFINE h == MatchStage([f EXCEPT !.tenant = Anything])
               g == MatchStage(Scope(ctx, f))
    <3>1. /\ ctx \in Tenants
          /\ answer'.by = ctx /\ answer'.pipeline = <<h>>
          /\ answer'.result = Evaluate(documents, <<g>>)
      BY <2>1 DEF Find, HasTenant, Contexts
    <3>2. Stage(documents, g) = Stage(Own(ctx), h)
      BY <3>1, OwnMatch
    <3> HIDE DEF g, h
    <3>3. /\ Evaluate(documents, <<g>>) = Stage(documents, g)
          /\ Evaluate(Own(ctx), <<h>>) = Stage(Own(ctx), h)
      <4>1. Len(<<g>>) = 1 /\ <<g>>[1] = g /\ Len(<<h>>) = 1 /\ <<h>>[1] = h
        OBVIOUS
      <4> QED
        BY <4>1, EvaluateOne
    <3> QED
      BY <3>1, <3>2, <3>3
  <2>2. ASSUME NEW ctx \in Contexts, NEW pipeline \in Pipeline, Aggregate(ctx, pipeline)
        PROVE  answer'.result = Evaluate(Own(answer'.by), answer'.pipeline)
    <3>1. /\ ctx \in Tenants
          /\ answer'.by = ctx /\ answer'.pipeline = pipeline
          /\ answer'.result = Evaluate(documents, ScopeAggregate(ctx, pipeline))
      BY <2>2 DEF Aggregate, HasTenant, Contexts
    <3>2. pipeline \in Seq(Stages)
      BY DEF Pipeline
    <3> QED
      BY <3>1, <3>2, ScopedAggregate
  <2>3. ASSUME NEW ctx \in Contexts, NEW t, NEW s, Insert(ctx, t, s) PROVE FALSE
    BY <2>3 DEF Insert
  <2> QED
    BY <2>1, <2>2, <2>3 DEF ScopeNext
<1> QED
  BY <1>1, <1>2, ScopeNextInv, PTL DEF ScopeSpec, TenantsApart
=============================================================================
