--------------------------- MODULE ConfigStoreProofs ---------------------------
(***************************************************************************)
(* Proofs about ConfigStore, for every set of keys, every number of        *)
(* requests and every number of updates and failures.                      *)
(***************************************************************************)
EXTENDS ConfigStore, TLAPS

(***************************************************************************)
(* The operators.                                                          *)
(***************************************************************************)
LEMMA EmptyType == Empty \in Values
  BY DEF Empty, Values

\* Values laid over values are values.
LEMMA OverlayType ==
  ASSUME NEW old \in Values, NEW new \in Values
  PROVE  Overlay(old, new) \in Values
  BY DEF Overlay, Values

\* What a request writes is a map of values.
LEMMA MergedType ==
  ASSUME TypeOK, NEW r \in Requests
  PROVE  Merged(r) \in Values
<1>1. base[r] \in Values /\ sent[r] \in Values
  BY DEF TypeOK
<1>2. Overlay(base[r], sent[r]) \in Values
  BY <1>1, OverlayType
<1> QED
  BY <1>1, <1>2 DEF Merged, Values

\* The seeded document holds values.
LEMMA SeededType == Seeded \in Values
<1>1. <<"production", 0>> \in Value
  BY StoreAssumption DEF Value, DefaultEnvironments
<1> QED
  BY <1>1 DEF Seeded, Values

\* After GetConfig a request is neither idle nor migrating.
LEMMA FirstStepType ==
  ASSUME NEW o \in Operations
  PROVE  FirstStep(o) \in Labels \ {"idle", "migrate"}
  BY DEF FirstStep, Operations, Labels

\* The values in force are values.
LEMMA ActiveValuesType ==
  ASSUME TypeOK
  PROVE  ActiveValues \in Values
  BY DEF TypeOK, ActiveValues

(***************************************************************************)
(* Types.                                                                  *)
(***************************************************************************)
requestTypes == /\ pc \in [Requests -> Labels]
                /\ op \in [Requests -> Operations]
                /\ env \in [Requests -> DefaultEnvironments]
                /\ sent \in [Requests -> Values]
                /\ onActive \in [Requests -> BOOLEAN]
                /\ base \in [Requests -> Values]

\* Going to a label leaves a request well typed.
LEMMA GotoType ==
  ASSUME TypeOK, NEW r \in Requests, NEW label \in Labels, Goto(r, label)
  PROVE  requestTypes'
  BY DEF TypeOK, Goto, request, requestTypes

\* An answered request is well typed.
LEMMA EndType ==
  ASSUME TypeOK, NEW r \in Requests, End(r)
  PROVE  requestTypes'
<1>1. "idle" \in Labels /\ "list" \in Operations
      /\ "production" \in DefaultEnvironments
  BY DEF Labels, Operations, DefaultEnvironments
<1> QED
  BY <1>1, EmptyType DEF TypeOK, End, requestTypes

\* A step of a request counts at most one failure.
LEMMA CountersType ==
  ASSUME TypeOK, Fault \/ NoFault
  PROVE  faults' \in Nat /\ calm' \in BOOLEAN
<1>1. CASE Fault
  <2>1. faults \in Nat /\ faults' = faults + 1
    BY <1>1 DEF TypeOK, Fault
  <2>2. calm' = FALSE
    BY <1>1 DEF Fault
  <2>3. faults' \in Nat
    BY <2>1
  <2> QED
    BY <2>2, <2>3
<1>2. CASE NoFault
  <2>1. faults' = faults /\ calm' = calm
    BY <1>2 DEF NoFault
  <2> QED
    BY <2>1 DEF TypeOK
<1> QED
  BY <1>1, <1>2

\* The seeded and the old documents the program starts from are well typed.
THEOREM InitType == Init => TypeOK
<1> SUFFICES ASSUME Init PROVE TypeOK
  OBVIOUS
<1>1. "idle" \in Labels /\ "list" \in Operations
      /\ "production" \in DefaultEnvironments
  BY DEF Labels, Operations, DefaultEnvironments
<1>2. requestTypes
  BY <1>1, EmptyType DEF Init, requestTypes
<1>3. /\ hot \in BOOLEAN /\ migrated \in BOOLEAN /\ active \in DefaultEnvironments
      /\ needsRestart \in BOOLEAN /\ calm \in BOOLEAN /\ toggled \in BOOLEAN
  BY <1>1, StoreAssumption DEF Init
<1>4. legacy \in Values /\ loaded \in Values
  BY SeededType DEF Init
<1>5. environments \in [DefaultEnvironments -> Values]
  BY SeededType, EmptyType DEF Init
<1>6. updates \in 0 .. MaxUpdates /\ faults \in Nat
  BY StoreAssumption DEF Init
<1> QED
  BY <1>2, <1>3, <1>4, <1>5, <1>6 DEF TypeOK, requestTypes

\* Reading the document keeps the types.
LEMMA GetType ==
  ASSUME TypeOK, NEW r \in Requests, NEW o \in Operations,
         NEW e \in DefaultEnvironments, NEW K \in SUBSET Keys, Get(r, o, e, K)
  PROVE  TypeOK'
<1>1. updates' \in 0 .. MaxUpdates
  BY StoreAssumption DEF TypeOK, Get
<1>2. <<e, updates'>> \in Value
  BY <1>1 DEF Value
<1>3. [k \in Keys |-> IF k \in K THEN <<e, updates'>> ELSE Unset] \in Values
  BY <1>2 DEF Values
<1>4. sent' \in [Requests -> Values]
  BY <1>3 DEF TypeOK, Get
<1>5. pc' \in [Requests -> Labels]
  <2>1. (IF migrated THEN FirstStep(o) ELSE "migrate") \in Labels
    BY FirstStepType DEF Labels
  <2> QED
    BY <2>1 DEF TypeOK, Get
<1>6. base' \in [Requests -> Values]
  <2>1. (IF migrated /\ o \in {"environment", "activate"}
         THEN environments[e] ELSE legacy) \in Values
    BY DEF TypeOK
  <2> QED
    BY <2>1 DEF TypeOK, Get
<1>7. op' \in [Requests -> Operations] /\ env' \in [Requests -> DefaultEnvironments]
  BY DEF TypeOK, Get
<1>8. onActive' \in [Requests -> BOOLEAN]
  <2>1. (e = active) \in BOOLEAN
    OBVIOUS
  <2> QED
    BY <2>1 DEF TypeOK, Get
<1>9. calm' \in BOOLEAN
  BY DEF Get
<1> QED
  BY <1>1, <1>4, <1>5, <1>6, <1>7, <1>8, <1>9 DEF TypeOK, Get, document

\* Migrating a document keeps the types.
LEMMA MigrateType ==
  ASSUME TypeOK, NEW r \in Requests, Migrate(r)
  PROVE  TypeOK'
<1>1. FirstStep(op[r]) \in Labels
  BY FirstStepType DEF TypeOK
<1>2. "production" \in DefaultEnvironments
  BY DEF DefaultEnvironments
<1>3. faults' \in Nat /\ calm' \in BOOLEAN
  BY CountersType DEF Migrate
<1>4. requestTypes'
  <2>1. CASE End(r)
    BY <2>1, EndType
  <2>2. CASE Goto(r, FirstStep(op[r]))
    BY <1>1, <2>2, GotoType
  <2>3. CASE /\ base' = [base EXCEPT ![r] =
                            IF op[r] \in {"environment", "activate"}
                               /\ env[r] = "sandbox" THEN Empty ELSE @]
             /\ pc' = [pc EXCEPT ![r] = FirstStep(op[r])]
             /\ UNCHANGED <<op, env, sent, onActive>>
    BY <1>1, <2>3, EmptyType DEF TypeOK, requestTypes
  <2> QED
    BY <2>1, <2>2, <2>3 DEF Migrate
<1>5. migrated' \in BOOLEAN /\ active' \in DefaultEnvironments
  BY <1>2 DEF Migrate, TypeOK
<1>6. environments' \in [DefaultEnvironments -> Values]
  <2>1. base[r] \in Values
    BY DEF TypeOK
  <2> QED
    BY <2>1, EmptyType DEF Migrate, TypeOK
<1> QED
  BY <1>3, <1>4, <1>5, <1>6 DEF Migrate, TypeOK, requestTypes


\* The remaining steps of a request.
LEMMA UpdateModuleType ==
  ASSUME TypeOK, NEW r \in Requests,
         Raise(r) \/ Clear(r) \/ WriteLegacy(r) \/ ReadActive(r)
            \/ WriteActive(r) \/ Reread(r)
  PROVE  TypeOK'
<1>1. {"clear", "answer", "writeLegacy", "readActive", "done"} \subseteq Labels
  BY DEF Labels
<1>2. Merged(r) \in Values
  BY MergedType
<1>3. CASE Raise(r)
  <2>1. faults' \in Nat /\ calm' \in BOOLEAN
    BY <1>3, CountersType DEF Raise
  <2>2. requestTypes'
    BY <1>1, <1>3, GotoType, EndType DEF Raise
  <2>3. needsRestart' \in BOOLEAN
    BY <1>3 DEF Raise, TypeOK
  <2> QED
    BY <1>3, <2>1, <2>2, <2>3 DEF Raise, TypeOK, requestTypes
<1>4. CASE Clear(r)
  <2>1. faults' \in Nat /\ calm' \in BOOLEAN
    BY <1>4, CountersType DEF Clear
  <2>2. requestTypes'
    <3>1. (IF sent[r] = Empty THEN "answer" ELSE "writeLegacy") \in Labels
      BY <1>1
    <3> QED
      BY <1>4, <3>1, GotoType DEF Clear
  <2>3. needsRestart' \in BOOLEAN /\ toggled' \in BOOLEAN
    BY <1>4 DEF Clear, TypeOK
  <2> QED
    BY <1>4, <2>1, <2>2, <2>3 DEF Clear, TypeOK, requestTypes
<1>5. CASE WriteLegacy(r)
  <2>1. faults' \in Nat /\ calm' \in BOOLEAN
    BY <1>5, CountersType DEF WriteLegacy
  <2>2. requestTypes'
    BY <1>1, <1>5, GotoType, EndType DEF WriteLegacy
  <2>3. needsRestart' \in BOOLEAN /\ legacy' \in Values
    BY <1>2, <1>5 DEF WriteLegacy, TypeOK
  <2> QED
    BY <1>5, <2>1, <2>2, <2>3 DEF WriteLegacy, TypeOK, requestTypes
<1>6. CASE ReadActive(r)
  <2>1. faults' \in Nat /\ calm' \in BOOLEAN
    BY <1>6, CountersType DEF ReadActive
  <2>2. requestTypes'
    <3>1. CASE Goto(r, "done")
      BY <1>1, <3>1, GotoType
    <3>2. CASE /\ pc' = [pc EXCEPT ![r] = "writeActive"]
               /\ env' = [env EXCEPT ![r] = active]
               /\ UNCHANGED <<op, sent, onActive, base>>
      <4>1. "writeActive" \in Labels
        BY DEF Labels
      <4> QED
        BY <3>2, <4>1 DEF TypeOK, requestTypes
    <3> QED
      BY <1>6, <3>1, <3>2 DEF ReadActive
  <2> QED
    BY <1>6, <2>1, <2>2 DEF ReadActive, TypeOK, requestTypes, document
<1>7. CASE WriteActive(r)
  <2>1. faults' \in Nat /\ calm' \in BOOLEAN
    BY <1>7, CountersType DEF WriteActive
  <2>2. requestTypes'
    BY <1>1, <1>7, GotoType DEF WriteActive
  <2>3. needsRestart' \in BOOLEAN
    BY <1>7 DEF WriteActive, TypeOK
  <2>4. environments' \in [DefaultEnvironments -> Values]
    BY <1>2, <1>7 DEF WriteActive, TypeOK
  <2> QED
    BY <1>7, <2>1, <2>2, <2>3, <2>4 DEF WriteActive, TypeOK, requestTypes
<1>8. CASE Reread(r)
  <2>1. faults' \in Nat /\ calm' \in BOOLEAN
    BY <1>8, CountersType DEF Reread
  <2>2. requestTypes'
    <3>1. CASE End(r)
      BY <3>1, EndType
    <3>2. CASE /\ pc' = [pc EXCEPT ![r] = "migrate"]
               /\ op' = [op EXCEPT ![r] = "list"]
               /\ base' = [base EXCEPT ![r] = legacy]
               /\ UNCHANGED <<env, sent, onActive>>
      <4>1. "migrate" \in Labels /\ "list" \in Operations
        BY DEF Labels, Operations
      <4> QED
        BY <3>2, <4>1 DEF TypeOK, requestTypes
    <3> QED
      BY <1>8, <3>1, <3>2 DEF Reread
  <2> QED
    BY <1>8, <2>1, <2>2 DEF Reread, TypeOK, requestTypes, document
<1> QED
  BY <1>3, <1>4, <1>5, <1>6, <1>7, <1>8

\* The steps of the environment endpoints keep the types.
LEMMA EnvironmentType ==
  ASSUME TypeOK, NEW r \in Requests,
         WriteEnvironment(r) \/ SetActive(r) \/ SyncLegacy(r) \/ Done(r)
  PROVE  TypeOK'
<1>1. {"syncLegacy", "done", "answer"} \subseteq Labels
  BY DEF Labels
<1>2. Merged(r) \in Values
  BY MergedType
<1>3. CASE WriteEnvironment(r)
  <2>1. faults' \in Nat /\ calm' \in BOOLEAN
    BY <1>3, CountersType DEF WriteEnvironment
  <2>2. requestTypes'
    <3>1. (IF onActive[r] THEN "syncLegacy" ELSE "done") \in Labels
      BY <1>1
    <3> QED
      BY <1>3, <3>1, GotoType, EndType DEF WriteEnvironment
  <2>3. needsRestart' \in BOOLEAN
    BY <1>3 DEF WriteEnvironment, TypeOK
  <2>4. environments' \in [DefaultEnvironments -> Values]
    BY <1>2, <1>3 DEF WriteEnvironment, TypeOK
  <2> QED
    BY <1>3, <2>1, <2>2, <2>3, <2>4 DEF WriteEnvironment, TypeOK, requestTypes
<1>4. CASE SetActive(r)
  <2>1. faults' \in Nat /\ calm' \in BOOLEAN
    BY <1>4, CountersType DEF SetActive
  <2>2. requestTypes'
    BY <1>1, <1>4, GotoType, EndType DEF SetActive
  <2>3. needsRestart' \in BOOLEAN
    BY <1>4 DEF SetActive, TypeOK
  <2>4. active' \in DefaultEnvironments
    BY <1>4 DEF SetActive, TypeOK
  <2> QED
    BY <1>4, <2>1, <2>2, <2>3, <2>4 DEF SetActive, TypeOK, requestTypes
<1>5. CASE SyncLegacy(r)
  <2>1. faults' \in Nat /\ calm' \in BOOLEAN
    BY <1>5, CountersType DEF SyncLegacy
  <2>2. requestTypes'
    BY <1>1, <1>5, GotoType DEF SyncLegacy
  <2>3. needsRestart' \in BOOLEAN
    BY <1>5 DEF SyncLegacy, TypeOK
  <2>4. legacy' \in Values
    BY <1>2, <1>5 DEF SyncLegacy, TypeOK
  <2> QED
    BY <1>5, <2>1, <2>2, <2>3, <2>4 DEF SyncLegacy, TypeOK, requestTypes
<1>6. CASE Done(r)
  <2>1. faults' \in Nat /\ calm' \in BOOLEAN
    BY <1>6, CountersType DEF Done
  <2>2. requestTypes'
    BY <1>1, <1>6, GotoType, EndType DEF Done
  <2>3. needsRestart' \in BOOLEAN
    BY <1>6 DEF Done, TypeOK
  <2> QED
    BY <1>6, <2>1, <2>2, <2>3 DEF Done, TypeOK, requestTypes
<1> QED
  BY <1>3, <1>4, <1>5, <1>6

\* A restart keeps the types.
LEMMA RestartType ==
  ASSUME TypeOK, Restart
  PROVE  TypeOK'
<1>1. "idle" \in Labels /\ "list" \in Operations
      /\ "production" \in DefaultEnvironments
  BY DEF Labels, Operations, DefaultEnvironments
<1>2. requestTypes'
  BY <1>1, EmptyType DEF Restart, requestTypes
<1>3. loaded' \in Values
  BY ActiveValuesType DEF Restart
<1>4. needsRestart' \in BOOLEAN /\ toggled' \in BOOLEAN /\ calm' \in BOOLEAN
  BY DEF Restart
<1> QED
  BY <1>2, <1>3, <1>4 DEF Restart, TypeOK, requestTypes

\* Every step keeps the types.
LEMMA NextType == TypeOK /\ [Next]_vars => TypeOK'
<1> SUFFICES ASSUME TypeOK, [Next]_vars PROVE TypeOK'
  OBVIOUS
<1>1. CASE UNCHANGED vars
  BY <1>1 DEF vars, document, request, TypeOK
<1>2. ASSUME NEW r \in Requests, NEW o \in Operations,
             NEW e \in DefaultEnvironments, NEW K \in SUBSET Keys,
             Get(r, o, e, K)
      PROVE  TypeOK'
  BY <1>2, GetType
<1>3. ASSUME NEW r \in Requests, Step(r) PROVE TypeOK'
  BY <1>3, MigrateType, UpdateModuleType, EnvironmentType DEF Step
<1>4. CASE Restart
  BY <1>4, RestartType
<1> QED
  BY <1>1, <1>2, <1>3, <1>4 DEF Next

\* Whatever requests, failures and restarts do, the document, the values
\* the module has read and the requests keep their types.
THEOREM StoreTypeCorrect == Spec => []TypeOK
<1> QED
  BY InitType, NextType, PTL DEF Spec


(***************************************************************************)
(* The restart flag.  A request that found the document without            *)
(* environments will write back the values it read: while the flag is down *)
(* those are the ones the module runs with.                                *)
(***************************************************************************)
FlagDown == ~hot /\ ~needsRestart /\ ~toggled

FlagInv ==
    FlagDown =>
        /\ loaded = ActiveValues
        /\ \A r \in Requests : pc[r] = "migrate" => base[r] = loaded

\* The module boots with the values in force.
LEMMA FlagInit == Init => FlagInv
<1> SUFFICES ASSUME Init PROVE FlagInv
  OBVIOUS
<1>1. "production" \in DefaultEnvironments
  BY DEF DefaultEnvironments
<1>2. loaded = ActiveValues
  BY <1>1 DEF Init, ActiveValues
<1>3. \A r \in Requests : pc[r] # "migrate"
  BY DEF Init
<1> QED
  BY <1>2, <1>3 DEF FlagInv

\* A step that leaves the values in force alone, lowers no flag and takes no
\* request to "migrate".
LEMMA FlagFrame ==
  ASSUME FlagInv, FlagDown' => FlagDown, loaded' = loaded,
         FlagDown' => ActiveValues' = ActiveValues,
         \A r \in Requests : pc'[r] = "migrate" =>
            pc[r] = "migrate" /\ base'[r] = base[r]
  PROVE  FlagInv'
  BY DEF FlagInv

\* Going on or ending takes no request to "migrate".
LEMMA MovesOnly ==
  ASSUME TypeOK, NEW r \in Requests, NEW label \in Labels \ {"migrate"},
         Goto(r, label) \/ End(r)
  PROVE  \A q \in Requests : pc'[q] = "migrate" =>
            pc[q] = "migrate" /\ base'[q] = base[q]
  BY DEF TypeOK, Goto, End, request

\* A request that finds an old document holds its legacy values.
LEMMA FlagGet ==
  ASSUME TypeOK, FlagInv, NEW r \in Requests, NEW o \in Operations,
         NEW e \in DefaultEnvironments, NEW K \in SUBSET Keys, Get(r, o, e, K)
  PROVE  FlagInv'
<1>1. FlagDown' => FlagDown
  BY DEF Get, FlagDown, document
<1>2. loaded' = loaded /\ ActiveValues' = ActiveValues
  BY DEF Get, ActiveValues, document
<1>3. ASSUME FlagDown', NEW q \in Requests, pc'[q] = "migrate"
      PROVE  base'[q] = loaded
  <2>1. CASE q # r
    <3>1. pc[q] = "migrate" /\ base'[q] = base[q]
      BY <1>3, <2>1 DEF Get, TypeOK
    <3> QED
      BY <1>1, <1>3, <3>1 DEF FlagInv
  <2>2. CASE q = r
    <3>1. FirstStep(o) # "migrate"
      BY FirstStepType
    <3>2. ~migrated
      BY <1>3, <2>2, <3>1 DEF Get, TypeOK
    <3>3. base'[q] = legacy
      BY <2>2, <3>2 DEF Get, TypeOK
    <3> QED
      BY <1>1, <1>3, <3>2, <3>3 DEF FlagInv, ActiveValues
  <2> QED
    BY <2>1, <2>2
<1> QED
  BY <1>1, <1>2, <1>3 DEF FlagInv

\* Migration writes the values that were in force, even twice.
LEMMA FlagMigrate ==
  ASSUME TypeOK, FlagInv, NEW r \in Requests, Migrate(r)
  PROVE  FlagInv'
<1>1. FlagDown' => FlagDown
  BY DEF Migrate, FlagDown
<1>2. loaded' = loaded /\ pc[r] = "migrate"
  BY DEF Migrate
<1>3. FirstStep(op[r]) \in Labels \ {"idle", "migrate"}
  BY FirstStepType DEF TypeOK
<1>4. "production" \in DefaultEnvironments
  BY DEF DefaultEnvironments
<1>5. \A q \in Requests : pc'[q] = "migrate" =>
            pc[q] = "migrate" /\ base'[q] = base[q]
  <2>1. CASE End(r)
    BY <1>3, <2>1, MovesOnly
  <2>2. CASE Goto(r, FirstStep(op[r]))
    BY <1>3, <2>2, MovesOnly
  <2>3. CASE /\ base' = [base EXCEPT ![r] =
                            IF op[r] \in {"environment", "activate"}
                               /\ env[r] = "sandbox" THEN Empty ELSE @]
             /\ pc' = [pc EXCEPT ![r] = FirstStep(op[r])]
    BY <1>3, <2>3 DEF TypeOK
  <2> QED
    BY <2>1, <2>2, <2>3 DEF Migrate
<1>6. FlagDown' => ActiveValues' = ActiveValues
  <2>1. CASE UNCHANGED <<migrated, active, environments, legacy>>
    BY <2>1 DEF ActiveValues
  <2>2. CASE /\ migrated' = TRUE /\ active' = "production"
             /\ environments' = [e \in DefaultEnvironments |->
                                    IF e = "production" THEN base[r] ELSE Empty]
    <3>1. ActiveValues' = base[r]
      BY <1>4, <2>2 DEF ActiveValues
    <3> QED
      BY <1>1, <1>2, <3>1 DEF FlagInv
  <2> QED
    BY <2>1, <2>2 DEF Migrate
<1> QED
  BY <1>1, <1>2, <1>5, <1>6, FlagFrame

\* The second migration of an update starts from the legacy values.
LEMMA FlagReread ==
  ASSUME TypeOK, FlagInv, NEW r \in Requests, Reread(r)
  PROVE  FlagInv'
<1>1. FlagDown' => FlagDown
  BY DEF Reread, FlagDown, document
<1>2. loaded' = loaded /\ ActiveValues' = ActiveValues
  BY DEF Reread, ActiveValues, document
<1>3. CASE End(r)
  <2>1. "idle" \in Labels \ {"migrate"}
    BY DEF Labels
  <2> QED
    BY <1>1, <1>2, <1>3, <2>1, MovesOnly, FlagFrame
<1>4. CASE /\ ~migrated
           /\ pc' = [pc EXCEPT ![r] = "migrate"]
           /\ base' = [base EXCEPT ![r] = legacy]
  <2>1. ASSUME FlagDown', NEW q \in Requests, pc'[q] = "migrate"
        PROVE  base'[q] = loaded
    <3>1. CASE q # r
      <4>1. pc[q] = "migrate" /\ base'[q] = base[q]
        BY <1>4, <2>1, <3>1 DEF TypeOK
      <4> QED
        BY <1>1, <2>1, <4>1 DEF FlagInv
    <3>2. CASE q = r
      <4>1. base'[q] = legacy
        BY <1>4, <3>2 DEF TypeOK
      <4> QED
        BY <1>1, <1>4, <2>1, <4>1 DEF FlagInv, ActiveValues
    <3> QED
      BY <3>1, <3>2
  <2> QED
    BY <1>1, <1>2, <2>1 DEF FlagInv
<1> QED
  BY <1>3, <1>4 DEF Reread

\* Every write of values raises the flag with them.
LEMMA FlagStep ==
  ASSUME TypeOK, FlagInv, NEW r \in Requests, Step(r)
  PROVE  FlagInv'
<1> DEFINE Still == \A q \in Requests : pc'[q] = "migrate" =>
                        pc[q] = "migrate" /\ base'[q] = base[q]
<1>1. Labels \ {"migrate"} =
        {"idle", "raise", "clear", "writeLegacy", "readActive", "writeActive",
         "writeEnvironment", "setActive", "syncLegacy", "done", "answer"}
  BY DEF Labels
<1>2. CASE Migrate(r)
  BY <1>2, FlagMigrate
<1>3. CASE Reread(r)
  BY <1>3, FlagReread
<1>4. CASE Raise(r)
  <2>1. Still
    BY <1>1, <1>4, MovesOnly DEF Raise
  <2>2. FlagDown' => FlagDown
    BY <1>4 DEF Raise, FlagDown
  <2>3. loaded' = loaded /\ ActiveValues' = ActiveValues
    BY <1>4 DEF Raise, ActiveValues
  <2> QED
    BY <2>1, <2>2, <2>3, FlagFrame
<1>5. CASE Clear(r)
  <2>1. Still
    BY <1>1, <1>5, MovesOnly DEF Clear
  <2>2. FlagDown' => FlagDown
    BY <1>5 DEF Clear, FlagDown
  <2>3. loaded' = loaded /\ ActiveValues' = ActiveValues
    BY <1>5 DEF Clear, ActiveValues
  <2> QED
    BY <2>1, <2>2, <2>3, FlagFrame
<1>6. CASE WriteLegacy(r)
  <2>1. Still
    BY <1>1, <1>6, MovesOnly DEF WriteLegacy
  <2>2. FlagDown' => FlagDown /\ ActiveValues' = ActiveValues
    BY <1>6 DEF WriteLegacy, FlagDown, ActiveValues
  <2>3. loaded' = loaded
    BY <1>6 DEF WriteLegacy
  <2> QED
    BY <2>1, <2>2, <2>3, FlagFrame
<1>7. CASE ReadActive(r)
  <2>1. Still
    <3>1. CASE Goto(r, "done")
      BY <1>1, <3>1, MovesOnly
    <3>2. CASE /\ pc' = [pc EXCEPT ![r] = "writeActive"]
               /\ base' = base
      BY <3>2 DEF TypeOK
    <3> QED
      BY <1>7, <3>1, <3>2 DEF ReadActive
  <2>2. FlagDown' => FlagDown
    BY <1>7 DEF ReadActive, FlagDown, document
  <2>3. loaded' = loaded /\ ActiveValues' = ActiveValues
    BY <1>7 DEF ReadActive, ActiveValues, document
  <2> QED
    BY <2>1, <2>2, <2>3, FlagFrame
<1>8. CASE WriteActive(r)
  <2>1. Still
    BY <1>1, <1>8, MovesOnly DEF WriteActive
  <2>2. FlagDown' => FlagDown /\ ActiveValues' = ActiveValues
    BY <1>8 DEF WriteActive, FlagDown, ActiveValues
  <2>3. loaded' = loaded
    BY <1>8 DEF WriteActive
  <2> QED
    BY <2>1, <2>2, <2>3, FlagFrame
<1>9. CASE WriteEnvironment(r)
  <2>1. Still
    <3>1. (IF onActive[r] THEN "syncLegacy" ELSE "done") \in Labels \ {"migrate"}
      BY <1>1
    <3> QED
      BY <1>1, <1>9, <3>1, MovesOnly DEF WriteEnvironment
  <2>2. FlagDown' => FlagDown /\ ActiveValues' = ActiveValues
    BY <1>9 DEF WriteEnvironment, FlagDown, ActiveValues
  <2>3. loaded' = loaded
    BY <1>9 DEF WriteEnvironment
  <2> QED
    BY <2>1, <2>2, <2>3, FlagFrame
<1>10. CASE SetActive(r)
  <2>1. Still
    BY <1>1, <1>10, MovesOnly DEF SetActive
  <2>2. FlagDown' => FlagDown /\ ActiveValues' = ActiveValues
    BY <1>10 DEF SetActive, FlagDown, ActiveValues
  <2>3. loaded' = loaded
    BY <1>10 DEF SetActive
  <2> QED
    BY <2>1, <2>2, <2>3, FlagFrame
<1>11. CASE SyncLegacy(r)
  <2>1. Still
    BY <1>1, <1>11, MovesOnly DEF SyncLegacy
  <2>2. FlagDown' => FlagDown /\ ActiveValues' = ActiveValues
    BY <1>11 DEF SyncLegacy, FlagDown, ActiveValues
  <2>3. loaded' = loaded
    BY <1>11 DEF SyncLegacy
  <2> QED
    BY <2>1, <2>2, <2>3, FlagFrame
<1>12. CASE Done(r)
  <2>1. Still
    BY <1>1, <1>12, MovesOnly DEF Done
  <2>2. FlagDown' => FlagDown
    BY <1>12 DEF Done, FlagDown
  <2>3. loaded' = loaded /\ ActiveValues' = ActiveValues
    BY <1>12 DEF Done, ActiveValues
  <2> QED
    BY <2>1, <2>2, <2>3, FlagFrame
<1> QED
  BY <1>2, <1>3, <1>4, <1>5, <1>6, <1>7, <1>8, <1>9, <1>10, <1>11, <1>12 DEF Step

\* FlagInv is inductive.
LEMMA FlagNext == TypeOK /\ FlagInv /\ [Next]_vars => FlagInv'
<1> SUFFICES ASSUME TypeOK, FlagInv, [Next]_vars PROVE FlagInv'
  OBVIOUS
<1>1. CASE UNCHANGED vars
  BY <1>1 DEF vars, document, request, FlagInv, FlagDown, ActiveValues
<1>2. ASSUME NEW r \in Requests, NEW o \in Operations,
             NEW e \in DefaultEnvironments, NEW K \in SUBSET Keys,
             Get(r, o, e, K)
      PROVE  FlagInv'
  BY <1>2, FlagGet
<1>3. ASSUME NEW r \in Requests, Step(r) PROVE FlagInv'
  BY <1>3, FlagStep
<1>4. CASE Restart
  <2>1. loaded' = ActiveValues /\ ActiveValues' = ActiveValues
    BY <1>4 DEF Restart, ActiveValues
  <2>2. \A r \in Requests : pc'[r] # "migrate"
    BY <1>4 DEF Restart
  <2> QED
    BY <2>1, <2>2 DEF FlagInv
<1> QED
  BY <1>1, <1>2, <1>3, <1>4 DEF Next

\* However requests overlap and whatever fails, a module that shows no
\* pending restart (and whose flag no toggle lowered) runs with the values
\* that are in force.
THEOREM RestartIsFlagged == Spec => []RestartFlagged
<1>1. Init => TypeOK /\ FlagInv
  BY InitType, FlagInit
<1>2. TypeOK /\ FlagInv /\ [Next]_vars => (TypeOK /\ FlagInv)'
  BY NextType, FlagNext
<1>3. TypeOK /\ FlagInv => RestartFlagged
  BY DEF FlagInv, FlagDown, RestartFlagged
<1> QED
  BY <1>1, <1>2, <1>3, PTL DEF Spec


(***************************************************************************)
(* Requests one at a time, nothing failing.  CalmAt(r) says, label by      *)
(* label, how far the legacy values and the active environment are apart   *)
(* and where the values request r will write come from.                    *)
(***************************************************************************)
Synced == migrated /\ legacy = environments[active]

CalmAt(r) ==
    /\ pc[r] = "migrate" =>
        /\ ~migrated /\ base[r] = legacy
        /\ onActive[r] = (env[r] = "production")
        /\ op[r] \in {"list", "update", "toggle"} => env[r] = "production"
        /\ op[r] = "activate" => sent[r] = Empty
    /\ pc[r] \in {"raise", "clear", "writeLegacy"} =>
        /\ Synced /\ env[r] = active /\ base[r] = legacy
    /\ pc[r] \in {"readActive", "writeActive"} =>
        /\ migrated /\ env[r] = active
        /\ legacy = Merged(r) /\ base[r] = environments[active]
    /\ pc[r] \in {"writeEnvironment", "setActive"} =>
        /\ Synced /\ base[r] = environments[env[r]]
    /\ pc[r] = "writeEnvironment" => onActive[r] = (env[r] = active)
    /\ pc[r] = "setActive" => op[r] = "activate" /\ sent[r] = Empty
    /\ pc[r] = "syncLegacy" =>
        /\ migrated /\ env[r] = active
        /\ environments[active] = Merged(r)
    /\ pc[r] \in {"done", "answer"} => Synced

OneRequest ==
    \A q, r \in Requests : pc[q] # "idle" /\ pc[r] # "idle" => q = r

CalmInv ==
    calm =>
        /\ OneRequest
        /\ ~migrated => active = "production"
        /\ Quiet /\ migrated => Synced
        /\ \A r \in Requests : CalmAt(r)

Tagged(v, e) == \A k \in Keys : v[k] # Unset => v[k][1] = e

TagInv ==
    calm =>
        /\ \A e \in DefaultEnvironments : Tagged(environments[e], e)
        /\ ~migrated => Tagged(legacy, "production")
        /\ \A r \in Requests : pc[r] # "idle" => Tagged(sent[r], env[r])


\* A request that only moves would write the same.
LEMMA MergedSame ==
  ASSUME NEW r \in Requests, UNCHANGED request
  PROVE  Merged(r)' = Merged(r)
  BY DEF Merged, Overlay, request

\* Activating an environment merges nothing into its values.
LEMMA MergedNothing ==
  ASSUME TypeOK, NEW r \in Requests, op[r] = "activate", sent[r] = Empty
  PROVE  Merged(r) = base[r]
<1>1. base[r] \in [Keys -> Value \cup {Unset}]
  BY DEF TypeOK, Values
<1>2. \A k \in Keys : Overlay(base[r], sent[r])[k] = base[r][k]
  BY DEF Overlay, Empty
<1>3. Merged(r) = [k \in Keys |-> base[r][k]]
  BY <1>2 DEF Merged
<1> QED
  BY <1>1, <1>3

\* The request that moves is the only one, so only what concerns it is left
\* to show.
LEMMA CalmFrame ==
  ASSUME TypeOK, NEW r \in Requests, NEW label,
         \A q \in Requests : q # r => pc[q] = "idle",
         pc' = [pc EXCEPT ![r] = label],
         CalmAt(r)',
         label = "idle" /\ migrated' => Synced',
         ~migrated' => active' = "production"
  PROVE  CalmInv'
<1>1. pc'[r] = label /\ \A q \in Requests : q # r => pc'[q] = "idle"
  BY DEF TypeOK
<1>2. OneRequest'
  BY <1>1 DEF OneRequest
<1>3. Quiet' /\ migrated' => Synced'
  BY <1>1 DEF Quiet
<1>4. ASSUME NEW q \in Requests PROVE CalmAt(q)'
  <2>1. CASE q = r
    BY <2>1
  <2>2. CASE q # r
    BY <1>1, <2>2 DEF CalmAt
  <2> QED
    BY <2>1, <2>2
<1> QED
  BY <1>2, <1>3, <1>4 DEF CalmInv

\* The process starts quiet and in sync.
LEMMA CalmInit == Init => CalmInv
<1> SUFFICES ASSUME Init PROVE CalmInv
  OBVIOUS
<1>1. \A r \in Requests : pc[r] = "idle"
  BY DEF Init
<1>2. "production" \in DefaultEnvironments
  BY DEF DefaultEnvironments
<1>3. migrated => Synced
  BY <1>2 DEF Init, Synced
<1>4. \A r \in Requests : CalmAt(r)
  BY <1>1 DEF CalmAt
<1>5. active = "production"
  BY DEF Init
<1> QED
  BY <1>1, <1>3, <1>4, <1>5 DEF CalmInv, OneRequest

\* A request that starts alone finds the document in sync.
LEMMA CalmGet ==
  ASSUME TypeOK, CalmInv, NEW r \in Requests, NEW o \in Operations,
         NEW e \in DefaultEnvironments, NEW K \in SUBSET Keys, Get(r, o, e, K)
  PROVE  CalmInv'
<1> SUFFICES ASSUME calm' PROVE CalmInv'
  BY DEF CalmInv
<1>1. calm /\ Quiet
  BY DEF Get
<1>2. (migrated => Synced) /\ (~migrated => active = "production")
  BY <1>1 DEF CalmInv
<1> DEFINE label == IF migrated THEN FirstStep(o) ELSE "migrate"
<1>3. /\ pc' = [pc EXCEPT ![r] = label] /\ pc'[r] = label
      /\ op'[r] = o /\ env'[r] = e
      /\ onActive'[r] = (e = active)
      /\ UNCHANGED <<migrated, active, legacy, environments>>
  BY DEF Get, TypeOK, document
<1>4. base'[r] = IF migrated /\ o \in {"environment", "activate"}
                 THEN environments[e] ELSE legacy
  BY DEF Get, TypeOK
<1>5. o = "activate" => sent'[r] = Empty
  BY DEF Get, TypeOK, Empty
<1>6. o \in {"list", "update", "toggle"} => e = active
  BY DEF Get
<1>7. Synced' = Synced
  BY <1>3 DEF Synced
<1>8. CalmAt(r)'
  <2>1. CASE ~migrated
    BY <1>2, <1>3, <1>4, <1>5, <1>6, <2>1 DEF CalmAt
  <2>2. CASE migrated
    <3>0. o # "list"
      BY <2>2 DEF Get
    <3>1. CASE o = "update"
      <4>1. pc'[r] = "writeLegacy"
        BY <1>3, <2>2, <3>1 DEF FirstStep
      <4> QED
        BY <1>2, <1>3, <1>4, <1>6, <1>7, <2>2, <3>1, <4>1 DEF CalmAt
    <3>2. CASE o = "toggle"
      <4>1. pc'[r] = "raise"
        BY <1>3, <2>2, <3>2 DEF FirstStep
      <4> QED
        BY <1>2, <1>3, <1>4, <1>6, <1>7, <2>2, <3>2, <4>1 DEF CalmAt
    <3>3. CASE o = "environment"
      <4>1. pc'[r] = "writeEnvironment"
        BY <1>3, <2>2, <3>3 DEF FirstStep
      <4> QED
        BY <1>2, <1>3, <1>4, <1>7, <2>2, <3>3, <4>1 DEF CalmAt
    <3>4. CASE o = "activate"
      <4>1. pc'[r] = "setActive"
        BY <1>3, <2>2, <3>4 DEF FirstStep
      <4> QED
        BY <1>2, <1>3, <1>4, <1>5, <1>7, <2>2, <3>4, <4>1 DEF CalmAt
    <3> QED
      BY <3>0, <3>1, <3>2, <3>3, <3>4 DEF Operations
  <2> QED
    BY <2>1, <2>2
<1>9. label # "idle"
  BY FirstStepType
<1>10. \A q \in Requests : q # r => pc[q] = "idle"
  BY <1>1 DEF Quiet
<1> QED
  BY <1>2, <1>3, <1>8, <1>9, <1>10, CalmFrame

\* What a step of a request may assume when nothing has gone wrong, and
\* when its own call does not fail.
LEMMA CalmRequest ==
  ASSUME CalmInv, NEW r \in Requests, pc[r] # "idle", NoFault, calm'
  PROVE  /\ calm /\ CalmAt(r)
         /\ \A q \in Requests : q # r => pc[q] = "idle"
         /\ ~migrated => active = "production"
<1>1. calm
  BY DEF NoFault
<1> QED
  BY <1>1 DEF CalmInv, OneRequest

\* Migrating alone leaves the document in sync.
LEMMA CalmMigrate ==
  ASSUME TypeOK, CalmInv, NEW r \in Requests, Migrate(r)
  PROVE  CalmInv'
<1> SUFFICES ASSUME calm' PROVE CalmInv'
  BY DEF CalmInv
<1>1. pc[r] = "migrate" /\ UNCHANGED legacy
  BY DEF Migrate
<1>2. /\ NoFault
      /\ migrated' = TRUE /\ active' = "production"
      /\ environments' = [e \in DefaultEnvironments |->
                            IF e = "production" THEN base[r] ELSE Empty]
      /\ base' = [base EXCEPT ![r] =
                    IF op[r] \in {"environment", "activate"}
                       /\ env[r] = "sandbox" THEN Empty ELSE @]
      /\ pc' = [pc EXCEPT ![r] = FirstStep(op[r])]
      /\ UNCHANGED <<op, env, sent, onActive>>
  BY DEF Migrate, Fault
<1>3. /\ CalmAt(r) /\ \A q \in Requests : q # r => pc[q] = "idle"
  BY <1>1, <1>2, CalmRequest
<1>4. /\ base[r] = legacy
      /\ onActive[r] = (env[r] = "production")
      /\ op[r] \in {"list", "update", "toggle"} => env[r] = "production"
      /\ op[r] = "activate" => sent[r] = Empty
  BY <1>1, <1>3 DEF CalmAt
<1>5. /\ environments'["production"] = legacy
      /\ environments'["sandbox"] = Empty
  BY <1>2, <1>4 DEF DefaultEnvironments
<1>6. Synced'
  BY <1>1, <1>2, <1>5 DEF Synced
<1>7. op[r] \in Operations /\ env[r] \in DefaultEnvironments
  BY DEF TypeOK
<1>8. base'[r] = IF op[r] \in {"environment", "activate"} /\ env[r] = "sandbox"
                 THEN Empty ELSE legacy
  BY <1>2, <1>4 DEF TypeOK
<1>9. pc'[r] = FirstStep(op[r])
  BY <1>2 DEF TypeOK
<1>10. CalmAt(r)'
  <2>1. CASE op[r] = "list"
    <3>1. pc'[r] = "done"
      BY <1>9, <2>1 DEF FirstStep
    <3> QED
      BY <1>6, <3>1 DEF CalmAt
  <2>2. CASE op[r] \in {"update", "toggle"}
    <3>1. pc'[r] \in {"writeLegacy", "raise"}
      BY <1>9, <2>2 DEF FirstStep
    <3>2. env'[r] = active' /\ base'[r] = legacy'
      BY <1>1, <1>2, <1>4, <1>8, <2>2
    <3> QED
      BY <1>6, <3>1, <3>2 DEF CalmAt
  <2>3. CASE op[r] \in {"environment", "activate"}
    <3>1. base'[r] = environments'[env'[r]]
      BY <1>2, <1>5, <1>7, <1>8, <2>3 DEF DefaultEnvironments
    <3>2. pc'[r] = IF op[r] = "environment" THEN "writeEnvironment"
                                            ELSE "setActive"
      BY <1>9, <2>3 DEF FirstStep
    <3> QED
      BY <1>2, <1>4, <1>6, <2>3, <3>1, <3>2 DEF CalmAt
  <2> QED
    BY <1>7, <2>1, <2>2, <2>3 DEF Operations
<1> QED
  BY <1>2, <1>3, <1>6, <1>10, CalmFrame


\* A step that goes to another label and leaves the request's data alone.
LEMMA CalmGoto ==
  ASSUME TypeOK, CalmInv, NEW r \in Requests, pc[r] # "idle", NoFault, calm',
         NEW label, Goto(r, label), label # "idle",
         UNCHANGED migrated, ~migrated' => active' = "production",
         pc'[r] = label => CalmAt(r)'
  PROVE  CalmInv'
<1>1. pc' = [pc EXCEPT ![r] = label] /\ pc'[r] = label
  BY DEF Goto, TypeOK
<1>2. \A q \in Requests : q # r => pc[q] = "idle"
  BY CalmRequest
<1> QED
  BY <1>1, <1>2, CalmFrame

\* A request alone that ends in sync leaves a quiet store in sync.
LEMMA CalmEnd ==
  ASSUME TypeOK, CalmInv, NEW r \in Requests, pc[r] # "idle", NoFault, calm',
         End(r), Synced, UNCHANGED <<migrated, active, legacy, environments>>
  PROVE  CalmInv'
<1>1. pc' = [pc EXCEPT ![r] = "idle"] /\ pc'[r] = "idle"
  BY DEF End, TypeOK
<1>2. \A q \in Requests : q # r => pc[q] = "idle"
  BY CalmRequest
<1>3. CalmAt(r)'
  BY <1>1 DEF CalmAt
<1>4. Synced' /\ migrated'
  BY DEF Synced
<1> QED
  BY <1>1, <1>2, <1>3, <1>4, CalmFrame

\* The steps of UpdateModule, alone and without failures.
LEMMA CalmUpdate ==
  ASSUME TypeOK, CalmInv, NEW r \in Requests, calm',
         Raise(r) \/ Clear(r) \/ WriteLegacy(r) \/ ReadActive(r)
            \/ WriteActive(r) \/ Reread(r)
  PROVE  CalmInv'
<1>1. NoFault /\ pc[r] # "idle"
  BY DEF Raise, Clear, WriteLegacy, ReadActive, WriteActive, Reread, Fault
<1>2. CalmAt(r) /\ (~migrated => active = "production")
  BY <1>1, CalmRequest
<1>3. CASE Raise(r) \/ Clear(r)
  <2>1. /\ Synced /\ env[r] = active /\ base[r] = legacy
    BY <1>2, <1>3 DEF Raise, Clear, CalmAt
  <2>2. UNCHANGED <<migrated, active, legacy, environments>>
    BY <1>3 DEF Raise, Clear
  <2>3. PICK label \in {"clear", "answer", "writeLegacy"} : Goto(r, label)
    BY <1>3 DEF Raise, Clear, Fault
  <2>4. UNCHANGED request
    BY <2>3 DEF Goto
  <2>5. Synced' /\ env'[r] = active' /\ base'[r] = legacy'
    BY <2>1, <2>2, <2>4 DEF Synced, request
  <2>6. pc'[r] = label => CalmAt(r)'
    BY <2>5 DEF CalmAt
  <2> QED
    BY <1>1, <1>2, <2>2, <2>3, <2>6, CalmGoto
<1>4. CASE WriteLegacy(r)
  <2>1. /\ Synced /\ env[r] = active /\ base[r] = legacy
    BY <1>2, <1>4 DEF WriteLegacy, CalmAt
  <2>2. /\ legacy' = Merged(r) /\ Goto(r, "readActive")
        /\ UNCHANGED <<migrated, active, environments>>
    BY <1>4 DEF WriteLegacy, Fault
  <2>3. UNCHANGED request
    BY <2>2 DEF Goto
  <2>4. Merged(r)' = Merged(r)
    BY <2>3, MergedSame
  <2>5. /\ migrated' /\ env'[r] = active' /\ base'[r] = environments'[active']
        /\ legacy' = Merged(r)'
    BY <2>1, <2>2, <2>3, <2>4 DEF Synced, request
  <2>6. pc'[r] = "readActive" => CalmAt(r)'
    BY <2>5 DEF CalmAt
  <2> QED
    BY <1>1, <1>2, <2>2, <2>6, CalmGoto
<1>5. CASE ReadActive(r)
  <2>1. /\ migrated /\ env[r] = active
        /\ legacy = Merged(r) /\ base[r] = environments[active]
    BY <1>2, <1>5 DEF ReadActive, CalmAt
  <2>2. /\ pc' = [pc EXCEPT ![r] = "writeActive"]
        /\ env' = [env EXCEPT ![r] = active]
        /\ UNCHANGED <<op, sent, onActive, base>>
        /\ UNCHANGED <<migrated, active, legacy, environments>>
    BY <1>5, <2>1 DEF ReadActive, Fault, document
  <2>3. Merged(r)' = Merged(r)
    BY <2>2 DEF Merged, Overlay
  <2>4. pc'[r] = "writeActive" /\ env'[r] = active
    BY <2>2 DEF TypeOK
  <2>5. CalmAt(r)'
    BY <2>1, <2>2, <2>3, <2>4 DEF CalmAt
  <2>6. \A q \in Requests : q # r => pc[q] = "idle"
    BY <1>1, CalmRequest
  <2> QED
    BY <2>1, <2>2, <2>5, <2>6, CalmFrame
<1>6. CASE WriteActive(r)
  <2>1. /\ migrated /\ env[r] = active /\ legacy = Merged(r)
    BY <1>2, <1>6 DEF WriteActive, CalmAt
  <2>2. /\ environments' = [environments EXCEPT ![env[r]] = Merged(r)]
        /\ Goto(r, "done")
        /\ UNCHANGED <<migrated, active, legacy>>
    BY <1>6 DEF WriteActive, Fault
  <2>3. environments'[active] = Merged(r)
    BY <2>1, <2>2 DEF TypeOK
  <2>4. Synced'
    BY <2>1, <2>2, <2>3 DEF Synced
  <2>5. pc'[r] = "done" => CalmAt(r)'
    BY <2>4 DEF CalmAt
  <2> QED
    BY <1>1, <1>2, <2>2, <2>5, CalmGoto
<1>7. CASE Reread(r)
  <2>1. Synced /\ migrated
    BY <1>2, <1>7 DEF Reread, CalmAt, Synced
  <2>2. End(r) /\ UNCHANGED <<migrated, active, legacy, environments>>
    BY <1>7, <2>1 DEF Reread, document
  <2> QED
    BY <1>1, <2>1, <2>2, CalmEnd
<1> QED
  BY <1>3, <1>4, <1>5, <1>6, <1>7

\* The steps of the environment endpoints, alone and without failures.
LEMMA CalmEnvironment ==
  ASSUME TypeOK, CalmInv, NEW r \in Requests, calm',
         WriteEnvironment(r) \/ SetActive(r) \/ SyncLegacy(r) \/ Done(r)
  PROVE  CalmInv'
<1>1. NoFault /\ pc[r] # "idle"
  BY DEF WriteEnvironment, SetActive, SyncLegacy, Done, Fault
<1>2. CalmAt(r) /\ (~migrated => active = "production")
  BY <1>1, CalmRequest
<1>3. CASE WriteEnvironment(r)
  <2>1. /\ Synced /\ base[r] = environments[env[r]]
        /\ onActive[r] = (env[r] = active)
    BY <1>2, <1>3 DEF WriteEnvironment, CalmAt
  <2>2. /\ environments' = [environments EXCEPT ![env[r]] = Merged(r)]
        /\ Goto(r, IF onActive[r] THEN "syncLegacy" ELSE "done")
        /\ UNCHANGED <<migrated, active, legacy>>
    BY <1>3 DEF WriteEnvironment, Fault
  <2>3. UNCHANGED request
    BY <2>2 DEF Goto
  <2>4. Merged(r)' = Merged(r)
    BY <2>3, MergedSame
  <2>5. CASE env[r] = active
    <3>1. Goto(r, "syncLegacy")
      BY <2>1, <2>2, <2>5
    <3>2. environments'[active] = Merged(r)
      BY <2>2, <2>5 DEF TypeOK
    <3>3. /\ migrated' /\ env'[r] = active' /\ environments'[active'] = Merged(r)'
      BY <2>1, <2>2, <2>3, <2>4, <2>5, <3>2 DEF Synced, request
    <3>4. pc'[r] = "syncLegacy" => CalmAt(r)'
      BY <3>3 DEF CalmAt
    <3> QED
      BY <1>1, <1>2, <2>2, <3>1, <3>4, CalmGoto
  <2>6. CASE env[r] # active
    <3>1. Goto(r, "done")
      BY <2>1, <2>2, <2>6
    <3>2. environments'[active] = environments[active]
      BY <2>2, <2>6 DEF TypeOK
    <3>3. Synced'
      BY <2>1, <2>2, <3>2 DEF Synced
    <3>4. pc'[r] = "done" => CalmAt(r)'
      BY <3>3 DEF CalmAt
    <3> QED
      BY <1>1, <1>2, <2>2, <3>1, <3>4, CalmGoto
  <2> QED
    BY <2>5, <2>6
<1>4. CASE SetActive(r)
  <2>1. /\ Synced /\ base[r] = environments[env[r]]
        /\ op[r] = "activate" /\ sent[r] = Empty
    BY <1>2, <1>4 DEF SetActive, CalmAt
  <2>2. /\ active' = env[r] /\ Goto(r, "syncLegacy")
        /\ UNCHANGED <<migrated, legacy, environments>>
    BY <1>4 DEF SetActive, Fault
  <2>3. UNCHANGED request
    BY <2>2 DEF Goto
  <2>4. Merged(r)' = base[r]
    BY <2>1, <2>3, MergedSame, MergedNothing
  <2>5. /\ migrated' /\ env'[r] = active' /\ environments'[active'] = Merged(r)'
    BY <2>1, <2>2, <2>3, <2>4 DEF Synced, request
  <2>6. pc'[r] = "syncLegacy" => CalmAt(r)'
    BY <2>5 DEF CalmAt
  <2> QED
    BY <1>1, <1>2, <2>2, <2>5, <2>6, CalmGoto
<1>5. CASE SyncLegacy(r)
  <2>1. /\ migrated /\ env[r] = active /\ environments[active] = Merged(r)
    BY <1>2, <1>5 DEF SyncLegacy, CalmAt
  <2>2. /\ legacy' = Merged(r) /\ Goto(r, "done")
        /\ UNCHANGED <<migrated, active, environments>>
    BY <1>5 DEF SyncLegacy, Fault
  <2>3. Synced'
    BY <2>1, <2>2 DEF Synced
  <2>4. pc'[r] = "done" => CalmAt(r)'
    BY <2>3 DEF CalmAt
  <2> QED
    BY <1>1, <1>2, <2>2, <2>4, CalmGoto
<1>6. CASE Done(r)
  <2>1. Synced
    BY <1>2, <1>6 DEF Done, CalmAt
  <2>2. UNCHANGED <<migrated, active, legacy, environments>>
    BY <1>6 DEF Done
  <2>3. CASE End(r)
    BY <1>1, <2>1, <2>2, <2>3, CalmEnd
  <2>4. CASE Goto(r, "answer")
    <3>1. Synced'
      BY <2>1, <2>2 DEF Synced
    <3>2. pc'[r] = "answer" => CalmAt(r)'
      BY <3>1 DEF CalmAt
    <3> QED
      BY <1>1, <1>2, <2>2, <2>4, <3>2, CalmGoto
  <2> QED
    BY <1>6, <2>3, <2>4 DEF Done
<1> QED
  BY <1>3, <1>4, <1>5, <1>6

\* CalmInv is inductive.
LEMMA CalmNext == TypeOK /\ CalmInv /\ [Next]_vars => CalmInv'
<1> SUFFICES ASSUME TypeOK, CalmInv, [Next]_vars, calm' PROVE CalmInv'
  BY DEF CalmInv
<1>1. CASE UNCHANGED vars
  BY <1>1 DEF vars, document, request, CalmInv, OneRequest, Quiet, Synced,
              CalmAt, Merged, Overlay
<1>2. ASSUME NEW r \in Requests, NEW o \in Operations,
             NEW e \in DefaultEnvironments, NEW K \in SUBSET Keys,
             Get(r, o, e, K)
      PROVE  CalmInv'
  BY <1>2, CalmGet
<1>3. ASSUME NEW r \in Requests, Step(r) PROVE CalmInv'
  BY <1>3, CalmMigrate, CalmUpdate, CalmEnvironment DEF Step
<1>4. CASE Restart
  <2>1. \A r \in Requests : pc'[r] = "idle"
    BY <1>4 DEF Restart
  <2>2. calm /\ Quiet /\ UNCHANGED <<migrated, active, legacy, environments>>
    BY <1>4 DEF Restart
  <2>3. (migrated' => Synced') /\ (~migrated' => active' = "production")
    BY <2>2 DEF CalmInv, Synced
  <2>4. \A r \in Requests : CalmAt(r)'
    BY <2>1 DEF CalmAt
  <2> QED
    BY <2>1, <2>3, <2>4 DEF CalmInv, OneRequest
<1> QED
  BY <1>1, <1>2, <1>3, <1>4 DEF Next

\* CalmInv holds always.
LEMMA CalmCorrect == Spec => [](TypeOK /\ CalmInv)
<1>1. Init => TypeOK /\ CalmInv
  BY InitType, CalmInit
<1>2. TypeOK /\ CalmInv /\ [Next]_vars => (TypeOK /\ CalmInv)'
  BY NextType, CalmNext
<1> QED
  BY <1>1, <1>2, PTL DEF Spec

\* One request after the other and nothing failing, the legacy fields are a
\* copy of the active environment whenever no request is under way.
THEOREM LegacyStaysInSync == Spec => []LegacyInSync
<1>1. CalmInv => LegacyInSync
  BY DEF CalmInv, Synced, LegacyInSync
<1> QED
  BY <1>1, CalmCorrect, PTL


(***************************************************************************)
(* Environments do not mix.                                                *)
(***************************************************************************)
LEMMA EmptyTagged == \A e \in DefaultEnvironments : Tagged(Empty, e)
  BY DEF Empty, Tagged

\* What a request writes was sent for its environment.
LEMMA MergedTagged ==
  ASSUME NEW r \in Requests, NEW e \in DefaultEnvironments,
         Tagged(base[r], e), Tagged(sent[r], e)
  PROVE  Tagged(Merged(r), e)
  BY DEF Tagged, Merged, Overlay

\* A request that has begun keeps what it was sent and for what.
LEMMA SentStays ==
  ASSUME TypeOK, NEW r \in Requests, NEW label,
         (pc[r] # "idle" /\ Goto(r, label)) \/ End(r)
  PROVE  \A q \in Requests : pc'[q] # "idle" =>
            pc[q] # "idle" /\ sent'[q] = sent[q] /\ env'[q] = env[q]
  BY DEF TypeOK, Goto, End, request

\* Only an environment changes, and only to values that were sent for it.
LEMMA TagFrame ==
  ASSUME TagInv, calm,
         \A q \in Requests : pc'[q] # "idle" =>
            pc[q] # "idle" /\ sent'[q] = sent[q] /\ env'[q] = env[q],
         \A e \in DefaultEnvironments :
            environments'[e] = environments[e] \/ Tagged(environments'[e], e),
         ~migrated' => ~migrated /\ legacy' = legacy
  PROVE  TagInv'
<1>1. \A e \in DefaultEnvironments : Tagged(environments'[e], e)
  BY DEF TagInv
<1>2. ~migrated' => Tagged(legacy', "production")
  BY DEF TagInv
<1>3. \A q \in Requests : pc'[q] # "idle" => Tagged(sent'[q], env'[q])
  BY DEF TagInv
<1> QED
  BY <1>1, <1>2, <1>3 DEF TagInv, Tagged

\* What is seeded was sent for production.
LEMMA TagInit == Init => TagInv
<1> SUFFICES ASSUME Init PROVE TagInv
  OBVIOUS
<1>1. \A e \in DefaultEnvironments : Tagged(environments[e], e)
  BY DEF Init, Tagged, Seeded, Empty
<1>2. Tagged(legacy, "production")
  BY DEF Init, Tagged, Seeded
<1>3. \A r \in Requests : pc[r] = "idle"
  BY DEF Init
<1> QED
  BY <1>1, <1>2, <1>3 DEF TagInv

\* A request is sent values for its own environment.
LEMMA TagGet ==
  ASSUME TypeOK, TagInv, NEW r \in Requests, NEW o \in Operations,
         NEW e \in DefaultEnvironments, NEW K \in SUBSET Keys, Get(r, o, e, K)
  PROVE  TagInv'
<1> SUFFICES ASSUME calm' PROVE TagInv'
  BY DEF TagInv
<1>1. calm /\ Quiet
  BY DEF Get
<1>2. UNCHANGED <<migrated, legacy, environments>>
  BY DEF Get, document
<1>3. sent'[r] = [k \in Keys |-> IF k \in K THEN <<e, updates'>> ELSE Unset]
      /\ env'[r] = e
  BY DEF Get, TypeOK
<1>4. Tagged(sent'[r], env'[r])
  BY <1>3 DEF Tagged
<1>5. \A q \in Requests : q # r => pc'[q] = "idle"
  BY <1>1 DEF Get, Quiet, TypeOK
<1>6. \A q \in Requests : pc'[q] # "idle" => Tagged(sent'[q], env'[q])
  BY <1>4, <1>5
<1> QED
  BY <1>1, <1>2, <1>6 DEF TagInv, Tagged

\* A request alone stores values only in the environment they were sent for.
LEMMA TagStep ==
  ASSUME TypeOK, CalmInv, TagInv, NEW r \in Requests, Step(r)
  PROVE  TagInv'
<1> SUFFICES ASSUME calm' PROVE TagInv'
  BY DEF TagInv
<1>1. NoFault /\ pc[r] # "idle"
  BY DEF Step, Migrate, Raise, Clear, WriteLegacy, ReadActive, WriteActive,
         WriteEnvironment, SetActive, SyncLegacy, Done, Reread, Fault
<1>2. calm /\ CalmAt(r)
  BY <1>1, CalmRequest
<1>3. env[r] \in DefaultEnvironments /\ Tagged(sent[r], env[r])
  BY <1>1, <1>2 DEF TagInv, TypeOK
<1>4. CASE Migrate(r)
  <2>1. /\ migrated' = TRUE
        /\ environments' = [e \in DefaultEnvironments |->
                                IF e = "production" THEN base[r] ELSE Empty]
        /\ pc' = [pc EXCEPT ![r] = FirstStep(op[r])]
        /\ UNCHANGED <<env, sent>>
    BY <1>1, <1>4 DEF Migrate, Fault
  <2>2. ~migrated /\ base[r] = legacy
    BY <1>2, <1>4 DEF Migrate, CalmAt
  <2>3. Tagged(base[r], "production")
    BY <1>2, <2>2 DEF TagInv
  <2>4. \A e \in DefaultEnvironments : Tagged(environments'[e], e)
    BY <2>1, <2>3, EmptyTagged
  <2>5. \A q \in Requests : pc'[q] # "idle" =>
            pc[q] # "idle" /\ sent'[q] = sent[q] /\ env'[q] = env[q]
    BY <1>1, <2>1 DEF TypeOK
  <2> QED
    BY <1>2, <2>1, <2>4, <2>5, TagFrame
<1>5. CASE Raise(r) \/ Clear(r)
  <2>1. UNCHANGED <<migrated, legacy, environments>>
    BY <1>5 DEF Raise, Clear
  <2>2. \E label \in Labels : Goto(r, label)
    BY <1>5 DEF Raise, Clear, Fault, Labels
  <2> QED
    BY <1>1, <1>2, <2>1, <2>2, SentStays, TagFrame
<1>6. CASE WriteLegacy(r)
  <2>1. migrated /\ UNCHANGED <<migrated, environments>>
    BY <1>2, <1>6 DEF WriteLegacy, CalmAt, Synced
  <2>2. Goto(r, "readActive")
    BY <1>6 DEF WriteLegacy, Fault
  <2> QED
    BY <1>1, <1>2, <2>1, <2>2, SentStays, TagFrame
<1>7. CASE ReadActive(r)
  <2>1. /\ migrated /\ env[r] = active
    BY <1>2, <1>7 DEF ReadActive, CalmAt
  <2>2. /\ pc' = [pc EXCEPT ![r] = "writeActive"]
        /\ env' = [env EXCEPT ![r] = active]
        /\ UNCHANGED <<sent, migrated, legacy, environments>>
    BY <1>7, <2>1 DEF ReadActive, Fault, document
  <2>3. \A q \in Requests : pc'[q] # "idle" =>
            pc[q] # "idle" /\ sent'[q] = sent[q] /\ env'[q] = env[q]
    BY <1>1, <2>1, <2>2 DEF TypeOK
  <2> QED
    BY <1>2, <2>2, <2>3, TagFrame
<1>8. CASE WriteActive(r) \/ WriteEnvironment(r)
  <2>1. base[r] = environments[env[r]]
    BY <1>2, <1>8 DEF WriteActive, WriteEnvironment, CalmAt
  <2>2. Tagged(Merged(r), env[r])
    BY <1>2, <1>3, <2>1, MergedTagged DEF TagInv
  <2>3. /\ environments' = [environments EXCEPT ![env[r]] = Merged(r)]
        /\ UNCHANGED <<migrated, legacy>>
        /\ \E label \in Labels : Goto(r, label)
    BY <1>8 DEF WriteActive, WriteEnvironment, Fault, Labels
  <2>4. \A e \in DefaultEnvironments :
            environments'[e] = environments[e] \/ Tagged(environments'[e], e)
    BY <1>3, <2>2, <2>3 DEF TypeOK
  <2> QED
    BY <1>1, <1>2, <2>3, <2>4, SentStays, TagFrame
<1>9. CASE SetActive(r) \/ SyncLegacy(r)
  <2>1. migrated /\ UNCHANGED <<migrated, environments>>
    BY <1>2, <1>9 DEF SetActive, SyncLegacy, CalmAt, Synced
  <2>2. \E label \in Labels : Goto(r, label)
    BY <1>9 DEF SetActive, SyncLegacy, Fault, Labels
  <2> QED
    BY <1>1, <1>2, <2>1, <2>2, SentStays, TagFrame
<1>10. CASE Done(r) \/ Reread(r)
  <2>1. migrated
    BY <1>2, <1>10 DEF Done, Reread, CalmAt, Synced
  <2>2. UNCHANGED <<migrated, legacy, environments>>
    BY <1>10 DEF Done, Reread, document
  <2>3. End(r) \/ Goto(r, "answer")
    BY <1>10, <2>1 DEF Done, Reread
  <2> QED
    BY <1>1, <1>2, <2>2, <2>3, SentStays, TagFrame
<1> QED
  BY <1>4, <1>5, <1>6, <1>7, <1>8, <1>9, <1>10 DEF Step

\* TagInv is inductive, given CalmInv.
LEMMA TagNext == TypeOK /\ CalmInv /\ TagInv /\ [Next]_vars => TagInv'
<1> SUFFICES ASSUME TypeOK, CalmInv, TagInv, [Next]_vars, calm' PROVE TagInv'
  BY DEF TagInv
<1>1. CASE UNCHANGED vars
  BY <1>1 DEF vars, document, request, TagInv, Tagged
<1>2. ASSUME NEW r \in Requests, NEW o \in Operations,
             NEW e \in DefaultEnvironments, NEW K \in SUBSET Keys,
             Get(r, o, e, K)
      PROVE  TagInv'
  BY <1>2, TagGet
<1>3. ASSUME NEW r \in Requests, Step(r) PROVE TagInv'
  BY <1>3, TagStep
<1>4. CASE Restart
  <2>1. calm /\ UNCHANGED <<migrated, legacy, environments>>
        /\ \A q \in Requests : pc'[q] = "idle"
    BY <1>4 DEF Restart
  <2> QED
    BY <2>1, TagFrame
<1> QED
  BY <1>1, <1>2, <1>3, <1>4 DEF Next

\* Under the same conditions a value sent for one environment is never found
\* in another, whatever is switched, migrated and restarted in between.
THEOREM EnvironmentsStayApart == Spec => []EnvironmentsApart
<1>1. TypeOK /\ CalmInv /\ TagInv /\ [Next]_vars => TagInv'
  BY TagNext
<1>2. TagInv => EnvironmentsApart
  BY DEF TagInv, Tagged, EnvironmentsApart
<1> QED
  BY <1>1, <1>2, TagInit, CalmCorrect, PTL DEF Spec

\* Under the same conditions an environment's value only changes when a
\* request sends a new one for it.
KeptStep ==
    calm /\ calm' /\ migrated =>
        \A e \in DefaultEnvironments, k \in Plain :
            environments'[e][k] # environments[e][k] =>
                \E r \in Requests : env[r] = e /\ sent[r][k] # Unset

\* A request alone changes no value it was not sent.
LEMMA StepKeeps ==
  ASSUME TypeOK, CalmInv, NEW r \in Requests, Step(r), calm', migrated,
         NEW e \in DefaultEnvironments, NEW k \in Plain,
         environments'[e][k] # environments[e][k]
  PROVE  env[r] = e /\ sent[r][k] # Unset
<1>1. NoFault /\ pc[r] # "idle"
  BY DEF Step, Migrate, Raise, Clear, WriteLegacy, ReadActive, WriteActive,
         WriteEnvironment, SetActive, SyncLegacy, Done, Reread, Fault
<1>2. CalmAt(r)
  BY <1>1, CalmRequest
<1>3. ~Migrate(r)
  BY <1>2 DEF Migrate, CalmAt
<1>4. WriteActive(r) \/ WriteEnvironment(r)
  BY <1>3 DEF Step, Raise, Clear, WriteLegacy, ReadActive, SetActive,
              SyncLegacy, Done, Reread, document
<1>5. base[r] = environments[env[r]]
  BY <1>2, <1>4 DEF WriteActive, WriteEnvironment, CalmAt
<1>6. environments' = [environments EXCEPT ![env[r]] = Merged(r)]
  BY <1>4 DEF WriteActive, WriteEnvironment, Fault
<1>7. env[r] = e /\ environments'[e] = Merged(r)
  BY <1>6 DEF TypeOK
<1>8. k \in Keys /\ k \notin Secret
  BY StoreAssumption DEF Keys
<1>9. Merged(r)[k] = Overlay(base[r], sent[r])[k]
  BY <1>8 DEF Merged
<1>10. sent[r][k] = Unset => Merged(r)[k] = base[r][k]
  BY <1>8, <1>9 DEF Overlay
<1> QED
  BY <1>5, <1>7, <1>10

\* No step changes a value that was not sent.
LEMMA NextKeeps == TypeOK /\ CalmInv /\ [Next]_vars => KeptStep
<1> SUFFICES ASSUME TypeOK, CalmInv, [Next]_vars, calm', migrated,
                    NEW e \in DefaultEnvironments, NEW k \in Plain,
                    environments'[e][k] # environments[e][k]
             PROVE  \E r \in Requests : env[r] = e /\ sent[r][k] # Unset
  BY DEF KeptStep
<1>1. environments' # environments
  OBVIOUS
<1>2. PICK r \in Requests : Step(r)
  BY <1>1 DEF Next, Get, Restart, vars, document
<1> QED
  BY <1>2, StepKeeps

\* While requests come one at a time and nothing fails, an update changes no
\* config value that it was not sent.
THEOREM OthersAreKept == Spec => OthersKept
<1>1. TypeOK /\ CalmInv /\ [Next]_vars => [KeptStep]_vars
  BY NextKeeps
<1>2. Spec => [][KeptStep]_vars
  BY <1>1, CalmCorrect, PTL DEF Spec
<1> QED
  BY <1>2 DEF KeptStep, OthersKept
=============================================================================
