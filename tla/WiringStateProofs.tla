---------------------------- MODULE WiringStateProofs ----------------------------
(***************************************************************************)
(* What boot and retries leave behind: modules hold the services their     *)
(* dependencies registered, the authz service has the permissions of all   *)
(* initialized modules, and every capability is in the catalog or there is *)
(* a reason why not.  For any modules in a topological order, any          *)
(* operations of their Inits and any number of retries.                    *)
(***************************************************************************)
EXTENDS ServiceWiringProofs, FiniteSetTheorems

(***************************************************************************)
(* Types.  WireTypes has the types of what WireInv is about, StateTypes    *)
(* those of the rest.                                                      *)
(***************************************************************************)
Held == Instance \cup {NoService}

StateTypes ==
    /\ initialized \subseteq Modules /\ failed \subseteq Modules
    /\ permitted \subseteq Modules /\ everFailed \subseteq Modules
    /\ holds \in [Modules -> [Keys -> Held]]
    /\ producers \in [Modules -> Nat]
    /\ catalog \in [Ids -> Bodies \cup {Unknown}]
    /\ target \in [Threads -> Modules \cup {NoModule}]
    /\ left \in [Threads -> SUBSET Operation]
    /\ slice \in [Threads -> SUBSET Modules]
    /\ dropped \in BOOLEAN
    /\ retries \in 0 .. MaxRetries

LEMMA TypesInit == Init => StateTypes
<1> SUFFICES ASSUME Init PROVE StateTypes
  OBVIOUS
<1>1. dropped \in BOOLEAN
  BY Zenon DEF Init
<1>2. MaxRetries \in Nat
  BY WiringAssumption DEF WiringAssumption
<1> QED
  BY <1>1, <1>2 DEF Init, StateTypes, Held

\* The operations of an Init are operations.
LEMMA OperationsType ==
    ASSUME NEW m \in Modules
    PROVE  Operations(m) \subseteq Operation
<1>1. Resolves[m] \subseteq Keys /\ Provides[m] \subseteq Keys
  BY WiringAssumption DEF WiringAssumption
<1> QED
  BY <1>1 DEF Operations, Operation

\* Declarations have an id and a body.
LEMMA CapFacts ==
    ASSUME NEW m \in Modules, NEW i \in DOMAIN Capabilities[m]
    PROVE  /\ DOMAIN Capabilities[m] \subseteq Nat
           /\ i \in Nat /\ 1 .. i \subseteq DOMAIN Capabilities[m]
           /\ Capabilities[m][i].id \in Ids /\ Capabilities[m][i].body \in Bodies
           /\ Capabilities[m][i] = [id |-> Capabilities[m][i].id,
                                    body |-> Capabilities[m][i].body]
<1>1. Capabilities[m] \in Seq([id : Ids, body : Bodies])
  BY WiringAssumption DEF WiringAssumption
<1> DEFINE caps == Capabilities[m]
           C == [id : Ids, body : Bodies]
<1>2. caps \in Seq(C)
  BY <1>1
<1>3. caps[i] \in C /\ DOMAIN caps = 1 .. Len(caps) /\ Len(caps) \in Nat
  <2> HIDE DEF C
  <2> QED BY <1>2
<1>4. /\ caps[i].id \in Ids /\ caps[i].body \in Bodies
      /\ caps[i] = [id |-> caps[i].id, body |-> caps[i].body]
  BY <1>3
<1> QED
  BY <1>3, <1>4

\* Registering capabilities leaves a catalog.
LEMMA CatalogType ==
    ASSUME NEW m \in Modules, catalog \in [Ids -> Bodies \cup {Unknown}]
    PROVE  RegisterCaps(Capabilities[m]) \in [Ids -> Bodies \cup {Unknown}]
<1> DEFINE caps == Capabilities[m]
           taken == {i \in DOMAIN caps : \A j \in 1 .. i : Accepts(caps, j)}
           new(id) == IF \E i \in taken : caps[i].id = id
                      THEN caps[CHOOSE i \in taken : caps[i].id = id].body
                      ELSE catalog[id]
<1>1. ASSUME NEW id \in Ids
      PROVE  new(id) \in Bodies \cup {Unknown}
  <2>1. CASE \E i \in taken : caps[i].id = id
    <3>1. (CHOOSE i \in taken : caps[i].id = id) \in taken
      BY <2>1
    <3>2. (CHOOSE i \in taken : caps[i].id = id) \in DOMAIN caps
      BY <3>1
    <3> QED
      BY <2>1, <3>2, CapFacts
  <2>2. CASE ~ \E i \in taken : caps[i].id = id
    BY <2>2
  <2> QED
    BY <2>1, <2>2
<1>2. RegisterCaps(caps) = [id \in Ids |-> new(id)]
  BY DEF RegisterCaps
<1> HIDE DEF new
<1> QED
  BY <1>1, <1>2

\* The flag of the refused permissions is touched by SendPermissions only.
LEMMA DroppedType ==
    ASSUME dropped \in BOOLEAN, UNCHANGED dropped \/ dropped' = TRUE
    PROVE  dropped' \in BOOLEAN
<1>1. CASE dropped' = dropped
  BY <1>1
<1>2. CASE dropped' = TRUE
  BY <1>2
<1> QED
  BY <1>1, <1>2

LEMMA TypesBoot ==
    ASSUME WireInv, StateTypes,
           BootInit \/ BootInitDone \/ BootInitsDone \/ RegisterCapabilities \/ StartAll
    PROVE  StateTypes'
<1>1. "boot" \in Threads /\ WireTypes
  BY DEF Threads, WireInv
<1>2. dropped' \in BOOLEAN
  <2>1. dropped' = dropped
    BY Zenon DEF BootInit, BootInitDone, BootInitsDone, RegisterCapabilities,
                 StartAll, history
  <2> QED BY <2>1, DroppedType DEF StateTypes
<1>3. CASE BootInit
  <2>1. idx \in 1 .. Len(Order)
    BY <1>1, <1>3, OrderFacts DEF BootInit, WireTypes
  <2>2. Order[idx] \in Modules /\ Operations(Order[idx]) \subseteq Operation
    BY <2>1, OrderFacts, OperationsType
  <2> QED
    BY <1>1, <1>2, <1>3, <2>2 DEF BootInit, CallInit, history, StateTypes
<1>4. CASE BootInitDone
  <2>1. target["boot"] \in Modules
    BY <1>1, <1>4 DEF BootInitDone, WireTypes
  <2> QED
    BY <1>1, <1>2, <1>4, <2>1 DEF BootInitDone, history, StateTypes
<1>5. CASE BootInitsDone
  BY <1>2, <1>5 DEF BootInitsDone, history, StateTypes
<1>6. CASE RegisterCapabilities
  <2>1. Order[idx] \in Modules
    BY <1>1, <1>6, OrderFacts DEF RegisterCapabilities, WireTypes
  <2>2. catalog' \in [Ids -> Bodies \cup {Unknown}]
    BY <1>6, <2>1, CatalogType DEF RegisterCapabilities, StateTypes
  <2> QED
    BY <1>2, <1>6, <2>2 DEF RegisterCapabilities, threads, history, StateTypes
<1>7. CASE StartAll
  BY <1>1, <1>2, <1>7 DEF StartAll, Forget, StateTypes
<1> QED
  BY <1>3, <1>4, <1>5, <1>6, <1>7

LEMMA TypesInInit ==
    ASSUME WireInv, StateTypes, NEW t \in Threads,
           \/ \E k \in Keys : Get(t, k) \/ Register(t, k)
           \/ RegisterProducer(t) \/ InitFails(t)
           \/ CollectPermissions(t) \/ SendPermissions(t)
    PROVE  StateTypes'
<1>1. WireTypes
  BY DEF WireInv
<1>2. dropped' \in BOOLEAN
  <2>1. dropped' = dropped \/ dropped' = TRUE
    BY Zenon DEF Get, Register, RegisterProducer, InitFails, CollectPermissions,
                 SendPermissions, history
  <2> QED BY <2>1, DroppedType DEF StateTypes
<1>3. ASSUME NEW op \in Operation, left' = [left EXCEPT ![t] = @ \ {op}]
      PROVE  left' \in [Threads -> SUBSET Operation]
  BY <1>3 DEF StateTypes
<1>4. ASSUME left' = [left EXCEPT ![t] = {}]
      PROVE  left' \in [Threads -> SUBSET Operation]
  BY <1>4 DEF StateTypes
<1>5. ASSUME left' = left PROVE left' \in [Threads -> SUBSET Operation]
  BY <1>5 DEF StateTypes
<1>6. ASSUME Panic(t) PROVE left' \in [Threads -> SUBSET Operation]
  BY <1>4, <1>5, <1>6 DEF Panic
<1>7. ASSUME NEW k \in Keys, Get(t, k)
      PROVE  StateTypes'
  <2>1. target[t] \in Modules /\ services[k] \in Held
    BY <1>1, <1>7 DEF Get, WireTypes, Held
  <2>2. left' \in [Threads -> SUBSET Operation]
    <3>1. <<"get", k>> \in Operation
      BY DEF Operation
    <3> QED BY <1>3, <1>6, <1>7, <3>1 DEF Get, Did
  <2>3. holds' \in [Modules -> [Keys -> Held]]
    <3>1. [holds EXCEPT ![target[t]][k] = services[k]] \in [Modules -> [Keys -> Held]]
      BY <2>1 DEF StateTypes
    <3> QED BY <1>7, <3>1 DEF Get, StateTypes
  <2> QED
    BY <1>2, <1>7, <2>2, <2>3 DEF Get, StateTypes
<1>8. ASSUME NEW k \in Keys, Register(t, k)
      PROVE  StateTypes'
  <2>1. left' \in [Threads -> SUBSET Operation]
    <3>1. <<"register", k>> \in Operation
      BY DEF Operation
    <3> QED BY <1>3, <1>6, <1>8, <3>1 DEF Register, Did
  <2> QED
    BY <1>2, <1>8, <2>1 DEF Register, StateTypes
<1>9. CASE RegisterProducer(t)
  <2>1. target[t] \in Modules
    BY <1>1, <1>9 DEF RegisterProducer, WireTypes
  <2>2. left' \in [Threads -> SUBSET Operation]
    <3>1. <<"producer", target[t]>> \in Operation
      BY <2>1 DEF Operation
    <3> QED BY <1>3, <1>9, <3>1 DEF RegisterProducer, Did
  <2>3. producers[target[t]] + 1 \in Nat
    BY <2>1 DEF StateTypes
  <2> QED
    BY <1>2, <1>9, <2>2, <2>3 DEF RegisterProducer, StateTypes
<1>10. CASE InitFails(t)
  <2>1. target[t] \in Modules
    BY <1>1, <1>10 DEF InitFails, WireTypes
  <2>2. left' \in [Threads -> SUBSET Operation]
    BY <1>4, <1>5, <1>10 DEF InitFails
  <2>3. failed' \subseteq Modules /\ everFailed' \subseteq Modules
    BY <1>10, <2>1 DEF InitFails, StateTypes
  <2> QED
    BY <1>2, <1>10, <2>2, <2>3 DEF InitFails, StateTypes
<1>11. CASE CollectPermissions(t)
  BY <1>2, <1>11 DEF CollectPermissions, history, StateTypes
<1>12. CASE SendPermissions(t)
  <2>1. slice[t] \subseteq Modules
    BY DEF StateTypes
  <2> QED
    BY <1>2, <1>12, <2>1 DEF SendPermissions, StateTypes
<1> QED
  BY <1>7, <1>8, <1>9, <1>10, <1>11, <1>12

LEMMA TypesRetry ==
    ASSUME WireInv, StateTypes, NEW r \in Retries,
           \/ \E m \in Modules : CheckFailed(r, m)
           \/ ReplaceOn(r) \/ RetryInitDone(r) \/ AppendInitialized(r)
           \/ ReplaceOff(r)
    PROVE  StateTypes'
<1>1. r \in Threads /\ WireTypes
  BY DEF Threads, WireInv
<1>2. dropped' \in BOOLEAN
  <2>1. dropped' = dropped
    BY Zenon DEF CheckFailed, ReplaceOn, RetryInitDone, AppendInitialized,
                 ReplaceOff, history
  <2> QED BY <2>1, DroppedType DEF StateTypes
<1>3. ASSUME NEW m \in Modules, CheckFailed(r, m)
      PROVE  StateTypes'
  <2>1. retries' \in 0 .. MaxRetries
    BY <1>3, WiringAssumption DEF CheckFailed, StateTypes, WiringAssumption
  <2> QED
    BY <1>1, <1>2, <1>3, <2>1 DEF CheckFailed, StateTypes
<1>4. CASE ReplaceOn(r)
  <2>1. target[r] \in Modules /\ Operations(target[r]) \subseteq Operation
    BY <1>1, <1>4, OperationsType DEF ReplaceOn, WireTypes
  <2> QED
    BY <1>1, <1>2, <1>4, <2>1 DEF ReplaceOn, CallInit, history, StateTypes
<1>5. CASE RetryInitDone(r)
  BY <1>1, <1>2, <1>5 DEF RetryInitDone, history, StateTypes
<1>6. CASE AppendInitialized(r)
  <2>1. target[r] \in Modules /\ slice[r] \subseteq Modules
    BY <1>1, <1>6 DEF AppendInitialized, WireTypes, StateTypes
  <2> QED
    BY <1>2, <1>6, <2>1 DEF AppendInitialized, history, StateTypes
<1>7. CASE ReplaceOff(r)
  BY <1>1, <1>2, <1>7 DEF ReplaceOff, Forget, history, StateTypes
<1> QED
  BY <1>3, <1>4, <1>5, <1>6, <1>7

LEMMA TypesNext == WireInv /\ StateTypes /\ [Next]_vars => StateTypes'
<1> SUFFICES ASSUME WireInv, StateTypes, [Next]_vars PROVE StateTypes'
  OBVIOUS
<1>1. CASE UNCHANGED vars
  <2>1. dropped' \in BOOLEAN
    BY <1>1, DroppedType, Zenon DEF vars, history, StateTypes
  <2> QED
    BY <1>1, <2>1 DEF vars, threads, history, StateTypes
<1>2. ASSUME NEW m \in Modules, ForgetFailure(m)
      PROVE  StateTypes'
  <2>1. dropped' \in BOOLEAN
    BY <1>2, DroppedType, Zenon DEF ForgetFailure, history, StateTypes
  <2> QED
    BY <1>2, <2>1 DEF ForgetFailure, threads, history, StateTypes
<1> QED
  BY <1>1, <1>2, TypesBoot, TypesInInit, TypesRetry, Zenon DEF Next

(***************************************************************************)
(* Steps.  A thread's step leaves the other threads where they are.        *)
(***************************************************************************)
InInitStep(t) ==
    \/ \E k \in Keys : Get(t, k) \/ Register(t, k)
    \/ RegisterProducer(t) \/ InitFails(t)
    \/ CollectPermissions(t) \/ SendPermissions(t)

RetryStep(r) ==
    \/ \E m \in Modules : CheckFailed(r, m)
    \/ ReplaceOn(r) \/ RetryInitDone(r) \/ AppendInitialized(r)
    \/ ReplaceOff(r)

BootStep ==
    BootInit \/ BootInitDone \/ BootInitsDone \/ RegisterCapabilities \/ StartAll

\* One thread's step, with the others unchanged.
Alone(t) ==
    \A s \in Threads \ {t} :
        /\ pc'[s] = pc[s] /\ target'[s] = target[s]
        /\ left'[s] = left[s] /\ slice'[s] = slice[s]

LEMMA StepAlone ==
    ASSUME WireInv, StateTypes, NEW t \in Threads,
           \/ InInitStep(t)
           \/ t \in Retries /\ RetryStep(t)
           \/ t = "boot" /\ BootStep
    PROVE  Alone(t)
<1>1. /\ pc \in [Threads -> Labels] /\ target \in [Threads -> Modules \cup {NoModule}]
      /\ left \in [Threads -> SUBSET Operation] /\ slice \in [Threads -> SUBSET Modules]
  BY DEF WireInv, WireTypes, StateTypes
<1>2. ASSUME pc' = pc \/ \E l \in Labels : pc' = [pc EXCEPT ![t] = l],
             target' = target \/ \E m : target' = [target EXCEPT ![t] = m],
             left' = left \/ \E L : left' = [left EXCEPT ![t] = L],
             slice' = slice \/ \E S : slice' = [slice EXCEPT ![t] = S]
      PROVE  Alone(t)
  <2>1. \A s \in Threads \ {t} : pc'[s] = pc[s]  BY <1>1, <1>2
  <2>2. \A s \in Threads \ {t} : target'[s] = target[s]  BY <1>1, <1>2
  <2>3. \A s \in Threads \ {t} : left'[s] = left[s]  BY <1>1, <1>2
  <2>4. \A s \in Threads \ {t} : slice'[s] = slice[s]  BY <1>1, <1>2
  <2> QED BY <2>1, <2>2, <2>3, <2>4 DEF Alone
<1> USE <1>2 DEF Labels, Goto
<1>3. ASSUME NEW k \in Keys, Get(t, k) \/ Register(t, k)
      PROVE  Alone(t)
  BY <1>3 DEF Get, Register, Panic, Did
<1>4. CASE RegisterProducer(t)  BY <1>4 DEF RegisterProducer, Did
<1>5. CASE InitFails(t)  BY <1>5 DEF InitFails
<1>6. CASE CollectPermissions(t)  BY <1>6 DEF CollectPermissions
<1>7. CASE SendPermissions(t)  BY <1>7 DEF SendPermissions
<1>8. ASSUME NEW m \in Modules, CheckFailed(t, m)
      PROVE  Alone(t)
  BY <1>8 DEF CheckFailed
<1>9. CASE ReplaceOn(t)  BY <1>9 DEF ReplaceOn, CallInit
<1>10. CASE RetryInitDone(t)  BY <1>10 DEF RetryInitDone
<1>11. CASE AppendInitialized(t)  BY <1>11 DEF AppendInitialized
<1>12. CASE ReplaceOff(t)  BY <1>12 DEF ReplaceOff, Forget
<1>13. CASE t = "boot" /\ BootStep
  BY <1>13 DEF BootStep, BootInit, CallInit, BootInitDone, BootInitsDone,
               RegisterCapabilities, StartAll, Forget, threads
<1> QED
  BY <1>3, <1>4, <1>5, <1>6, <1>7, <1>8, <1>9, <1>10, <1>11, <1>12, <1>13
     DEF InInitStep, RetryStep

\* Retries run while the process serves, and their steps neither end it nor
\* touch what only the boot touches.
LEMMA ServingStep ==
    ASSUME WireInv, NEW r \in Retries, InInitStep(r) \/ RetryStep(r)
    PROVE  /\ phase = "serving" /\ pc["boot"] = "idle" /\ r # "boot" /\ r \in Threads
           /\ UNCHANGED <<phase, idx, catalog>>
<1>1. BootInv /\ r # "boot" /\ r \in Threads
  BY KeyFacts DEF WireInv, Threads
<1>2. phase = "serving"
  <2>1. pc[r] # "idle" \/ phase = "serving"
    BY DEF InInitStep, RetryStep, Get, Register, RegisterProducer, InitFails,
           CollectPermissions, SendPermissions, CheckFailed, ReplaceOn,
           RetryInitDone, AppendInitialized, ReplaceOff
  <2> QED BY <1>1, <2>1 DEF BootInv
<1>3. UNCHANGED <<phase, idx, catalog>>
  BY <1>1
     DEF InInitStep, RetryStep, Get, Register, RegisterProducer, InitFails,
         CollectPermissions, SendPermissions, CheckFailed, ReplaceOn,
         RetryInitDone, AppendInitialized, ReplaceOff, Panic, Did
<1> QED
  BY <1>1, <1>2, <1>3 DEF BootInv

(***************************************************************************)
(* Progress: who has been initialized.  InitAll leaves every module either *)
(* initialized or among those that have failed, retries are about failed   *)
(* modules, and an append that overwrites another one loses no module but  *)
(* those.                                                                  *)
(***************************************************************************)
\* The Inits of InitAll, and all that is behind them.
Early == phase = "boot" /\ pc["boot"] \in {"idle", "init"}
Late == \/ phase = "serving"
        \/ phase = "boot" /\ pc["boot"] \in {"permissions", "send", "capabilities"}

Covered(S) == Modules \subseteq S \cup everFailed

Progress ==
    /\ failed \subseteq everFailed
    /\ \A r \in Retries : pc[r] # "idle" => target[r] \in everFailed
    /\ Early => /\ initialized \subseteq {Order[j] : j \in 1 .. idx - 1}
                /\ \A j \in 1 .. Len(Order) :
                        j < idx => Order[j] \in initialized \cup everFailed
    /\ Late => Covered(initialized)
    /\ \A r \in Retries : pc[r] = "append" => Covered(slice[r])

LEMMA ProgressInit == Init => Progress
<1> SUFFICES ASSUME Init PROVE Progress
  OBVIOUS
<1>1. /\ phase = "boot" /\ idx = 1 /\ initialized = {} /\ failed = {}
      /\ \A t \in Threads : pc[t] = "idle"
  BY DEF Init
<1>2. "boot" \in Threads /\ Retries \subseteq Threads
  BY DEF Threads
<1> QED
  BY <1>1, <1>2 DEF Progress, Early, Late

\* The retries' part of Progress, when they stand still.
LEMMA RetriesProgress ==
    ASSUME Progress, WireInv, everFailed \subseteq everFailed',
           \A r \in Retries : pc'[r] = pc[r] /\ target'[r] = target[r] /\ slice'[r] = slice[r]
    PROVE  /\ \A r \in Retries : pc'[r] # "idle" => target'[r] \in everFailed'
           /\ \A r \in Retries : pc'[r] = "append" => Covered(slice[r])'
BY DEF Progress, Covered

LEMMA ProgressBoot ==
    ASSUME WireInv, StateTypes, Progress, BootStep
    PROVE  Progress'
<1>1. /\ WireTypes /\ BootInv /\ "boot" \in Threads
      /\ \A r \in Retries : r \in Threads /\ r # "boot"
  BY KeyFacts DEF WireInv, Threads
<1>2. \A r \in Retries : pc'[r] = pc[r] /\ target'[r] = target[r] /\ slice'[r] = slice[r]
  BY <1>1, StepAlone DEF Alone
<1>3. everFailed \subseteq everFailed' /\ failed' \subseteq everFailed'
  BY DEF BootStep, BootInit, BootInitDone, BootInitsDone, RegisterCapabilities,
         StartAll, history, Progress
<1>4. /\ \A r \in Retries : pc'[r] # "idle" => target'[r] \in everFailed'
      /\ \A r \in Retries : pc'[r] = "append" => Covered(slice[r])'
  BY <1>2, <1>3, RetriesProgress
<1> USE <1>3, <1>4
<1>5. CASE BootInit
  <2>1. /\ Early /\ pc'["boot"] = "init"
        /\ UNCHANGED <<phase, idx, initialized, everFailed>>
    BY <1>1, <1>5 DEF BootInit, CallInit, Goto, history, Early, WireTypes
  <2> QED
    BY <2>1 DEF Progress, Early, Late
<1>6. CASE BootInitDone
  <2>1. /\ Early /\ pc'["boot"] = "idle" /\ phase' = phase /\ idx' = idx + 1
        /\ idx \in 1 .. Len(Order) /\ initialized' = initialized \cup {Order[idx]}
        /\ everFailed' = everFailed
    BY <1>1, <1>6, OrderFacts
       DEF BootInitDone, Goto, history, Early, WireTypes, BootInv, Initializing
  <2>2. initialized' \subseteq {Order[j] : j \in 1 .. idx' - 1}
    <3>1. \A j \in 1 .. idx - 1 : j \in 1 .. idx' - 1
      BY <2>1
    <3>2. idx \in 1 .. idx' - 1
      BY <2>1
    <3> QED
      BY <2>1, <3>1, <3>2 DEF Progress
  <2>3. \A j \in 1 .. Len(Order) : j < idx' => Order[j] \in initialized' \cup everFailed'
    <3>1. \A j \in 1 .. Len(Order) : j < idx' => j < idx \/ j = idx
      BY <2>1, OrderFacts
    <3> QED
      BY <2>1, <3>1 DEF Progress
  <2> QED
    BY <2>1, <2>2, <2>3 DEF Progress, Early, Late
<1>7. CASE BootInitsDone
  <2>1. /\ Early /\ idx > Len(Order) /\ pc'["boot"] = "permissions"
        /\ UNCHANGED <<initialized, everFailed>>
    BY <1>1, <1>7 DEF BootInitsDone, Goto, history, Early, WireTypes
  <2>2. \A j \in 1 .. Len(Order) : j < idx
    BY <1>1, <2>1, OrderFacts DEF WireTypes
  <2>3. Covered(initialized)
    BY <2>1, <2>2, OrderFacts DEF Progress, Covered
  <2> QED
    BY <2>1, <2>3 DEF Progress, Early, Late, Covered
<1>8. CASE RegisterCapabilities
  <2>1. UNCHANGED <<phase, pc, initialized, everFailed>> /\ pc["boot"] = "capabilities"
    BY <1>8 DEF RegisterCapabilities, threads, history
  <2> QED
    BY <2>1 DEF Progress, Early, Late, Covered
<1>9. CASE StartAll
  <2>1. Late /\ phase' = "serving" /\ initialized' = initialized
    BY <1>1, <1>9 DEF StartAll, BootInv, WireTypes, Phases, Late
  <2> QED
    BY <2>1 DEF Progress, Early, Late, Covered
<1> QED
  BY <1>5, <1>6, <1>7, <1>8, <1>9 DEF BootStep

\* The Inits that InitAll calls.
LEMMA ProgressBootInits ==
    ASSUME WireInv, StateTypes, Progress, phase \in {"boot", "serving"},
           InInitStep("boot")
    PROVE  Progress'
<1>1. /\ WireTypes /\ BootInv /\ "boot" \in Threads
      /\ \A r \in Retries : r \in Threads /\ r # "boot"
  BY KeyFacts DEF WireInv, Threads
<1>2. \A r \in Retries : pc'[r] = pc[r] /\ target'[r] = target[r] /\ slice'[r] = slice[r]
  BY <1>1, StepAlone DEF Alone
<1>3. phase = "boot"
  <2>1. pc["boot"] # "idle"
    BY DEF InInitStep, Get, Register, RegisterProducer, InitFails,
           CollectPermissions, SendPermissions
  <2> QED BY <1>1, <2>1, InInit
<1>4. CASE InitFails("boot")
  <2>1. Early /\ UNCHANGED initialized /\ everFailed \subseteq everFailed'
    BY <1>3, <1>4 DEF InitFails, Early
  <2>2. CASE target["boot"] \in Core
    <3>1. phase' = "coreFailed" /\ UNCHANGED <<failed, everFailed>>
      BY <1>4, <2>2 DEF InitFails
    <3> QED
      BY <1>2, <3>1, RetriesProgress DEF Progress, Early, Late
  <2>3. CASE target["boot"] \notin Core
    <3>1. /\ phase' = phase /\ pc'["boot"] = "idle" /\ idx' = idx + 1
          /\ idx \in 1 .. Len(Order)
          /\ failed' = failed \cup {Order[idx]} /\ everFailed' = everFailed \cup {Order[idx]}
      BY <1>1, <1>3, <1>4, <2>3, OrderFacts
         DEF InitFails, Goto, WireTypes, BootInv, Initializing
    <3>2. initialized' \subseteq {Order[j] : j \in 1 .. idx' - 1}
      <4>1. \A j \in 1 .. idx - 1 : j \in 1 .. idx' - 1
        BY <3>1
      <4> QED
        BY <2>1, <4>1 DEF Progress
    <3>3. \A j \in 1 .. Len(Order) : j < idx' => Order[j] \in initialized' \cup everFailed'
      <4>1. \A j \in 1 .. Len(Order) : j < idx' => j < idx \/ j = idx
        BY <3>1, OrderFacts
      <4> QED
        BY <2>1, <3>1, <4>1 DEF Progress
    <3>4. failed' \subseteq everFailed'
      BY <3>1 DEF Progress
    <3> QED
      BY <1>2, <1>3, <2>1, <3>1, <3>2, <3>3, <3>4, RetriesProgress DEF Progress, Early, Late
  <2> QED
    BY <2>2, <2>3
<1>5. CASE ~InitFails("boot")
  <2>1. UNCHANGED <<initialized, failed, everFailed, idx>>
    BY <1>5 DEF InInitStep, Get, Register, RegisterProducer, CollectPermissions,
                SendPermissions, history
  <2>2. /\ Early' => Early
        /\ Late' => Late
    BY <1>1, <1>3, <1>5
       DEF InInitStep, Get, Register, RegisterProducer, CollectPermissions,
           SendPermissions, Panic, Did, Goto, Early, Late, WireTypes
  <2> QED
    BY <1>2, <2>1, <2>2, RetriesProgress DEF Progress, Covered
<1> QED
  BY <1>4, <1>5

\* Early and Late only look at the phase and at where the boot is.
LEMMA SamePlace ==
    ASSUME phase' = phase, pc'["boot"] = pc["boot"]
    PROVE  (Early' <=> Early) /\ (Late' <=> Late)
BY DEF Early, Late

LEMMA ProgressRetry ==
    ASSUME WireInv, StateTypes, Progress, NEW r \in Retries,
           InInitStep(r) \/ RetryStep(r)
    PROVE  Progress'
<1>1. /\ phase = "serving" /\ r # "boot" /\ r \in Threads
      /\ UNCHANGED <<phase, idx>>
  BY ServingStep
<1>2. /\ WireTypes /\ "boot" \in Threads /\ Retries \subseteq Threads
      /\ target \in [Threads -> Modules \cup {NoModule}]
      /\ slice \in [Threads -> SUBSET Modules]
      /\ pc \in [Threads -> Labels]
  BY DEF WireInv, WireTypes, StateTypes, Threads
<1>3. Alone(r)
  BY <1>1, StepAlone
<1>4. pc'["boot"] = pc["boot"]
  BY <1>1, <1>2, <1>3 DEF Alone
<1>5. Late /\ ~Early
  BY <1>1 DEF Late, Early
<1>6. ASSUME failed' \subseteq everFailed', everFailed \subseteq everFailed',
             pc'[r] # "idle" => target'[r] \in everFailed',
             pc'[r] = "append" => Covered(slice[r])',
             Covered(initialized)'
      PROVE  Progress'
  <2>1. \A s \in Retries : pc'[s] # "idle" => target'[s] \in everFailed'
    BY <1>2, <1>3, <1>6 DEF Alone, Progress
  <2>2. \A s \in Retries : pc'[s] = "append" => Covered(slice[s])'
    <3>1. ASSUME NEW s \in Retries, s # r, pc'[s] = "append"
          PROVE  Covered(slice[s])'
      BY <1>2, <1>3, <1>6, <3>1 DEF Alone, Progress, Covered
    <3> QED BY <1>6, <3>1
  <2> QED
    BY <1>1, <1>4, <1>5, <1>6, <2>1, <2>2, SamePlace DEF Progress
<1>7. pc[r] # "idle" => target[r] \in everFailed
  BY DEF Progress
<1>8. Covered(initialized) /\ failed \subseteq everFailed
  BY <1>5 DEF Progress
<1>9. CASE InInitStep(r) /\ ~InitFails(r)
  <2>1. /\ UNCHANGED <<initialized, failed, everFailed, target>>
        /\ pc[r] # "idle" /\ pc'[r] # "append"
    BY <1>1, <1>2, <1>9
       DEF InInitStep, Get, Register, RegisterProducer, CollectPermissions,
           SendPermissions, Panic, Did, Goto, history
  <2> QED
    BY <1>6, <1>7, <1>8, <2>1 DEF Covered
<1>10. CASE InitFails(r)
  <2>1. /\ UNCHANGED <<initialized, target>> /\ pc'[r] = "replaceOff" /\ pc[r] # "idle"
        /\ failed' = failed \cup {target[r]} /\ everFailed' = everFailed \cup {target[r]}
    BY <1>1, <1>2, <1>10 DEF InitFails, Goto
  <2> QED
    BY <1>6, <1>8, <2>1 DEF Covered
<1>11. ASSUME NEW m \in Modules, CheckFailed(r, m)
       PROVE  Progress'
  <2>1. /\ UNCHANGED <<initialized, failed, everFailed>> /\ m \in failed
        /\ pc'[r] = "replaceOn" /\ target'[r] = m
    BY <1>1, <1>2, <1>11 DEF CheckFailed, Goto
  <2> QED
    BY <1>6, <1>8, <2>1 DEF Covered
<1>12. CASE ReplaceOn(r)
  <2>1. /\ UNCHANGED <<initialized, failed, everFailed>>
        /\ pc[r] # "idle" /\ pc'[r] = "init" /\ target'[r] = target[r]
    BY <1>1, <1>2, <1>12 DEF ReplaceOn, CallInit, Goto, history
  <2> QED
    BY <1>6, <1>7, <1>8, <2>1 DEF Covered
<1>13. CASE RetryInitDone(r)
  <2>1. /\ UNCHANGED <<initialized, everFailed, target>> /\ failed' \subseteq failed
        /\ pc[r] # "idle" /\ slice'[r] = initialized
    BY <1>1, <1>2, <1>13 DEF RetryInitDone, history
  <2> QED
    BY <1>6, <1>7, <1>8, <2>1 DEF Covered
<1>14. CASE AppendInitialized(r)
  <2>1. /\ UNCHANGED <<failed, everFailed, target>>
        /\ pc[r] = "append" /\ pc'[r] = "permissions"
        /\ initialized' = slice[r] \cup {target[r]}
    BY <1>1, <1>2, <1>14 DEF AppendInitialized, Goto, history
  <2>2. Covered(slice[r])
    BY <2>1 DEF Progress
  <2> QED
    BY <1>6, <1>7, <1>8, <2>1, <2>2 DEF Covered
<1>15. CASE ReplaceOff(r)
  <2>1. /\ UNCHANGED <<initialized, failed, everFailed>> /\ pc'[r] = "idle"
    BY <1>1, <1>2, <1>15 DEF ReplaceOff, Goto, history
  <2> QED
    BY <1>6, <1>8, <2>1 DEF Covered
<1> QED
  BY <1>9, <1>10, <1>11, <1>12, <1>13, <1>14, <1>15 DEF RetryStep

LEMMA ProgressNext == WireInv /\ StateTypes /\ Progress /\ [Next]_vars => Progress'
<1> SUFFICES ASSUME WireInv, StateTypes, Progress, [Next]_vars PROVE Progress'
  OBVIOUS
<1>1. CASE UNCHANGED vars \/ \E m \in Modules : ForgetFailure(m)
  <2>1. /\ UNCHANGED <<phase, idx, initialized, everFailed, pc, target, slice>>
        /\ failed' \subseteq failed
    BY <1>1 DEF ForgetFailure, vars, threads, history
  <2> QED
    BY <2>1 DEF Progress, Early, Late, Covered
<1>2. CASE BootStep
  BY <1>2, ProgressBoot
<1>3. ASSUME phase \in {"boot", "serving"}, NEW t \in Threads, InInitStep(t)
      PROVE  Progress'
  BY <1>3, ProgressBootInits, ProgressRetry DEF Threads
<1>4. ASSUME NEW r \in Retries, RetryStep(r)
      PROVE  Progress'
  BY <1>4, ProgressRetry
<1> QED
  BY <1>1, <1>2, <1>3, <1>4, Zenon DEF Next, BootStep, InInitStep, RetryStep

(***************************************************************************)
(* Services.  What a step does to the registry, to what modules hold, to   *)
(* the Init it is in and to the set of modules that have passed one.       *)
(***************************************************************************)
\* r.initialized, and what an append under way is about to write there.
Passed(m) ==
    \/ m \in initialized
    \/ \E r \in Retries : pc[r] = "append" /\ (m \in slice[r] \/ m = target[r])

Through(t, m) == pc[t] = "init" /\ left[t] = {} /\ target[t] = m

\* Every step is the boot's, one in an Init, a retry's, or about failures.
LEMMA NextSteps ==
    ASSUME [Next]_vars
    PROVE  \/ UNCHANGED vars
           \/ \E m \in Modules : ForgetFailure(m)
           \/ BootStep
           \/ \E t \in Threads : InInitStep(t) /\ phase \in {"boot", "serving"}
           \/ \E r \in Retries : RetryStep(r)
BY Zenon DEF Next, BootStep, InInitStep, RetryStep

\* Neither the boot loop nor RetryInit writes services or what modules hold.
LEMMA ServicesStep ==
    ASSUME WireInv, StateTypes, [Next]_vars
    PROVE  /\ \A k \in Keys : services[k] # NoService => services'[k] # NoService
           /\ \A k \in Keys : services'[k] # services[k] =>
                \E t \in Threads : Register(t, k) /\ phase \in {"boot", "serving"}
           /\ \A m \in Modules, k \in Keys :
                holds'[m][k] = holds[m][k] \/ holds'[m][k] = services'[k]
<1>1. /\ WireTypes /\ services \in [Keys -> Instance \cup {NoService}]
      /\ holds \in [Modules -> [Keys -> Held]]
      /\ NoService \notin Instance
  BY KeyFacts DEF WireInv, WireTypes, StateTypes
<1>2. CASE UNCHANGED <<services, holds>>
  BY <1>2
<1>3. ASSUME NEW t \in Threads, NEW k \in Keys, Get(t, k)
      PROVE  /\ services' = services
             /\ \A m \in Modules, j \in Keys :
                    holds'[m][j] = holds[m][j] \/ holds'[m][j] = services'[j]
  BY <1>1, <1>3 DEF Get
<1>4. ASSUME NEW t \in Threads, NEW k \in Keys, Register(t, k),
             phase \in {"boot", "serving"}
      PROVE  /\ holds' = holds
             /\ \A j \in Keys : j # k => services'[j] = services[j]
             /\ services[k] # NoService => services'[k] # NoService
  <2>1. target[t] \in Modules /\ inits[target[t]] \in Nat
    BY <1>1, <1>4 DEF Register, WireTypes
  <2>2. <<target[t], inits[target[t]]>> \in Instance
    BY <2>1 DEF Instance
  <2> QED
    BY <1>1, <1>4, <2>2 DEF Register
<1>5. CASE UNCHANGED vars \/ (\E m \in Modules : ForgetFailure(m)) \/ BootStep
           \/ \E r \in Retries : RetryStep(r)
  <2>1. UNCHANGED <<services, holds>>
    BY <1>5
       DEF vars, ForgetFailure, BootStep, BootInit, BootInitDone, BootInitsDone,
           RegisterCapabilities, StartAll, RetryStep, CheckFailed, ReplaceOn,
           RetryInitDone, AppendInitialized, ReplaceOff
  <2> QED BY <1>2, <2>1
<1>6. ASSUME NEW t \in Threads, InInitStep(t), phase \in {"boot", "serving"}
      PROVE  \/ UNCHANGED <<services, holds>>
             \/ \E k \in Keys : Get(t, k) \/ Register(t, k)
  BY <1>6 DEF InInitStep, RegisterProducer, InitFails, CollectPermissions,
              SendPermissions
<1>7. CASE \E t \in Threads, k \in Keys : Get(t, k)
  BY <1>3, <1>7
<1>8. CASE \E t \in Threads, k \in Keys : Register(t, k) /\ phase \in {"boot", "serving"}
  BY <1>4, <1>8
<1> QED
  BY <1>2, <1>5, <1>6, <1>7, <1>8, NextSteps, Zenon

\* A module that passes its Init has done all of it.
LEMMA PassedStep ==
    ASSUME WireInv, StateTypes, [Next]_vars, NEW m \in Modules, Passed(m)'
    PROVE  Passed(m) \/ \E t \in Threads : Through(t, m)
<1>1. Retries \subseteq Threads /\ "boot" \in Threads /\ "boot" \notin Retries
  BY KeyFacts DEF Threads
<1>2. CASE UNCHANGED <<initialized, pc, slice, target>>
  BY <1>2 DEF Passed
<1>3. ASSUME NEW t \in Threads, Alone(t), initialized' = initialized,
             pc'[t] # "append"
      PROVE  Passed(m)
  BY <1>1, <1>3 DEF Passed, Alone
<1>4. CASE UNCHANGED vars \/ \E n \in Modules : ForgetFailure(n)
  BY <1>2, <1>4 DEF vars, threads, ForgetFailure
<1>5. CASE BootStep
  <2>1. Alone("boot")
    BY <1>1, <1>5, StepAlone
  <2>2. CASE BootInitDone
    <3>1. /\ initialized' = initialized \cup {target["boot"]}
          /\ pc["boot"] = "init" /\ left["boot"] = {}
      BY <2>2 DEF BootInitDone
    <3>2. ASSUME m \notin initialized'
          PROVE  Passed(m)
      BY <1>1, <2>1, <3>2 DEF Passed, Alone
    <3> QED
      BY <1>1, <3>1, <3>2 DEF Passed, Through
  <2>3. CASE ~BootInitDone
    <3>1. initialized' = initialized
      BY <1>5, <2>3 DEF BootStep, BootInit, BootInitsDone, RegisterCapabilities,
                        StartAll
    <3> QED
      BY <1>1, <2>1, <3>1 DEF Passed, Alone
  <2> QED
    BY <2>2, <2>3
<1>6. ASSUME NEW t \in Threads, InInitStep(t)
      PROVE  Passed(m)
  <2>1. Alone(t) /\ initialized' = initialized
    BY <1>6, StepAlone
       DEF InInitStep, Get, Register, RegisterProducer, InitFails,
           CollectPermissions, SendPermissions, history
  <2>2. pc'[t] # "append"
    BY <1>6 DEF InInitStep, Get, Register, RegisterProducer, InitFails,
           CollectPermissions, SendPermissions, Panic, Did, Goto, WireInv, WireTypes
  <2> QED
    BY <1>3, <2>1, <2>2
<1>7. ASSUME NEW r \in Retries, RetryStep(r)
      PROVE  Passed(m) \/ Through(r, m)
  <2>1. Alone(r) /\ r \in Threads
    BY <1>1, <1>7, StepAlone
  <2>2. CASE RetryInitDone(r)
    <3>1. /\ initialized' = initialized /\ slice'[r] = initialized
          /\ target'[r] = target[r] /\ pc[r] = "init" /\ left[r] = {}
      BY <2>1, <2>2 DEF RetryInitDone, StateTypes
    <3> QED
      BY <1>1, <2>1, <3>1 DEF Passed, Through, Alone
  <2>3. CASE AppendInitialized(r)
    <3>1. /\ initialized' = slice[r] \cup {target[r]} /\ pc[r] = "append"
          /\ pc'[r] = "permissions"
      BY <2>1, <2>3 DEF AppendInitialized, Goto, WireInv, WireTypes
    <3> QED
      BY <1>1, <2>1, <3>1 DEF Passed, Alone
  <2>4. CASE (\E n \in Modules : CheckFailed(r, n)) \/ ReplaceOn(r) \/ ReplaceOff(r)
    <3>1. initialized' = initialized /\ pc'[r] # "append"
      BY <2>1, <2>4 DEF CheckFailed, ReplaceOn, ReplaceOff, CallInit, Goto,
                        WireInv, WireTypes
    <3> QED
      BY <1>3, <2>1, <3>1
  <2> QED
    BY <1>7, <2>2, <2>3, <2>4 DEF RetryStep
<1> QED
  BY <1>1, <1>4, <1>5, <1>6, <1>7, NextSteps

\* An Init that goes on has done what it has no longer to do.
Advances(t) ==
    /\ pc[t] = "init" /\ target'[t] = target[t] /\ left'[t] \subseteq left[t]
    /\ \A k \in Keys :
        /\ <<"register", k>> \in left[t] \ left'[t] => services'[k] # NoService
        /\ <<"get", k>> \in left[t] \ left'[t] =>
                holds'[target[t]][k] = services'[k]

LEMMA InitAdvances ==
    ASSUME WireInv, StateTypes, [Next]_vars, NEW t \in Threads, pc'[t] = "init"
    PROVE  left'[t] = Operations(target'[t]) \/ Advances(t)
<1>1. /\ Retries \subseteq Threads /\ "boot" \in Threads /\ "boot" \notin Retries
      /\ pc \in [Threads -> Labels] /\ left \in [Threads -> SUBSET Operation]
      /\ target \in [Threads -> Modules \cup {NoModule}]
  BY KeyFacts DEF Threads, WireInv, WireTypes, StateTypes
<1>2. ASSUME pc'[t] = pc[t], target'[t] = target[t], left'[t] = left[t]
      PROVE  Advances(t)
  BY <1>2 DEF Advances
<1>3. CASE UNCHANGED vars \/ \E n \in Modules : ForgetFailure(n)
  BY <1>2, <1>3 DEF vars, threads, ForgetFailure
<1>4. ASSUME NEW s \in Threads, s # t, Alone(s)
      PROVE  Advances(t)
  BY <1>2, <1>4 DEF Alone
<1>5. ASSUME BootStep, t = "boot"
      PROVE  left'[t] = Operations(target'[t])
  BY <1>1, <1>5 DEF BootStep, BootInit, CallInit, BootInitDone, BootInitsDone,
                    RegisterCapabilities, StartAll, Goto, threads
<1>6. ASSUME RetryStep(t), t \in Retries
      PROVE  left'[t] = Operations(target'[t])
  BY <1>1, <1>6 DEF RetryStep, CheckFailed, ReplaceOn, CallInit, RetryInitDone,
                    AppendInitialized, ReplaceOff, Goto
<1>7. ASSUME InInitStep(t), phase \in {"boot", "serving"}
      PROVE  Advances(t)
  <2>1. ASSUME Panic(t), target' = target
        PROVE  Advances(t)
    BY <1>1, <1>2, <2>1 DEF Panic, Goto
  <2>2. ASSUME NEW kind \in {"get", "register", "producer"}, NEW x, Did(t, kind, x),
               pc[t] = "init", target' = target,
               kind = "register" /\ x \in Keys => services'[x] # NoService,
               kind = "get" /\ x \in Keys => holds'[target[t]][x] = services'[x]
        PROVE  Advances(t)
    BY <1>1, <2>2 DEF Did, Advances
  <2>3. ASSUME NEW k \in Keys, Get(t, k)
        PROVE  Advances(t)
    <3>1. pc[t] = "init" /\ target' = target /\ services' = services
      BY <2>3 DEF Get
    <3>2. target[t] \in Modules
      BY <3>1 DEF WireInv, WireTypes
    <3>3. CASE Panic(t)
      BY <2>1, <3>1, <3>3
    <3>4. CASE ~Panic(t)
      <4>1. Did(t, "get", k) /\ holds' = [holds EXCEPT ![target[t]][k] = services[k]]
        BY <2>3, <3>4 DEF Get
      <4>2. holds'[target[t]][k] = services'[k]
        BY <3>1, <3>2, <4>1 DEF StateTypes
      <4> QED
        BY <2>2, <3>1, <4>1, <4>2
    <3> QED
      BY <3>3, <3>4
  <2>4. ASSUME NEW k \in Keys, Register(t, k)
        PROVE  Advances(t)
    <3>1. pc[t] = "init" /\ target' = target
      BY <2>4 DEF Register
    <3>2. CASE Panic(t)
      BY <2>1, <3>1, <3>2
    <3>3. CASE ~Panic(t)
      <4>1. /\ Did(t, "register", k)
            /\ services' = [services EXCEPT ![k] = <<target[t], inits[target[t]]>>]
        BY <2>4, <3>3 DEF Register
      <4>2. services'[k] # NoService
        <5>1. target[t] \in Modules /\ inits[target[t]] \in Nat
          BY <3>1 DEF WireInv, WireTypes
        <5>2. <<target[t], inits[target[t]]>> \in Instance
          BY <5>1 DEF Instance
        <5> QED
          BY <4>1, <5>2, KeyFacts DEF WireInv, WireTypes
      <4> QED
        BY <2>2, <3>1, <4>1, <4>2
    <3> QED
      BY <3>2, <3>3
  <2>5. CASE RegisterProducer(t)
    <3>1. pc[t] = "init" /\ target' = target /\ Did(t, "producer", target[t])
      BY <2>5 DEF RegisterProducer
    <3> QED
      BY <2>2, <3>1
  <2>6. CASE InitFails(t) \/ CollectPermissions(t) \/ SendPermissions(t)
    BY <1>1, <1>2, <2>6 DEF InitFails, CollectPermissions, SendPermissions, Goto
  <2> QED
    BY <1>7, <2>3, <2>4, <2>5, <2>6 DEF InInitStep
<1>8. CASE BootStep
  BY <1>1, <1>4, <1>5, <1>8, StepAlone
<1>9. ASSUME NEW s \in Threads, InInitStep(s), phase \in {"boot", "serving"}
      PROVE  Advances(t)
  BY <1>4, <1>7, <1>9, StepAlone
<1>10. ASSUME NEW r \in Retries, RetryStep(r)
       PROVE  left'[t] = Operations(target'[t]) \/ Advances(t)
  BY <1>1, <1>4, <1>6, <1>10, StepAlone
<1> QED
  BY <1>3, <1>8, <1>9, <1>10, NextSteps

(***************************************************************************)
(* Registered: what has passed its Init has registered its services, and   *)
(* holds those of the dependencies that never failed.                      *)
(***************************************************************************)
Registered(m) == \A k \in Provides[m] : services[k] # NoService

\* p came up at boot and has not failed since.
Settled(p) == p \in initialized \ everFailed

HoldsOf(m, p) == \A k \in Resolves[m] \cap Provides[p] : holds[m][k] = services[k]

Current(m) == \A p \in DependsOn[m] : Settled(p) => HoldsOf(m, p)

\* The same of an Init that has some operations left to do.
OnItsWay(t) ==
    LET m == target[t] IN
    /\ left[t] \subseteq Operations(m)
    /\ \A k \in Provides[m] :
            <<"register", k>> \in left[t] \/ services[k] # NoService
    /\ \A p \in DependsOn[m] : Settled(p) =>
            \A k \in Resolves[m] \cap Provides[p] :
                <<"get", k>> \in left[t] \/ holds[m][k] = services[k]

Wired ==
    /\ \A m \in Modules : Passed(m) => Registered(m) /\ Current(m)
    /\ \A t \in Threads : pc[t] = "init" => OnItsWay(t)

LEMMA WiredInit == Init => Wired
<1> SUFFICES ASSUME Init PROVE Wired
  OBVIOUS
<1>1. initialized = {} /\ \A t \in Threads : pc[t] = "idle"
  BY DEF Init
<1>2. Retries \subseteq Threads
  BY DEF Threads
<1> QED
  BY <1>1, <1>2 DEF Wired, Passed

LEMMA DependencyFacts ==
    ASSUME NEW m \in Modules
    PROVE  /\ Resolves[m] \subseteq Keys /\ Provides[m] \subseteq Keys
           /\ DependsOn[m] \subseteq Modules
BY WiringAssumption DEF WiringAssumption

\* The Init of a module does not touch the services of a settled one.
LEMMA SettledServices ==
    ASSUME WireInv, Progress, Wired, [Next]_vars, StateTypes,
           NEW p \in Modules, Settled(p), NEW k \in Provides[p]
    PROVE  services'[k] = services[k]
<1> SUFFICES ASSUME services'[k] # services[k] PROVE FALSE
  OBVIOUS
<1>1. k \in Keys
  BY DependencyFacts
<1>2. PICK t \in Threads : Register(t, k) /\ phase \in {"boot", "serving"}
  BY <1>1, ServicesStep
<1>3. /\ pc[t] = "init" /\ <<"register", k>> \in left[t] /\ target[t] \in Modules
      /\ WireTypes /\ BootInv
  BY <1>2 DEF Register, WireInv, WireTypes
<1>4. k \in Provides[target[t]]
  BY <1>1, <1>3, OperationsOf DEF Wired, OnItsWay
<1>5. target[t] = p
  BY <1>1, <1>3, <1>4, KeyFacts
<1>6. CASE t \in Retries
  BY <1>3, <1>5, <1>6 DEF Progress, Settled
<1>7. CASE t = "boot"
  <2>1. phase = "boot" /\ Initializing
    BY <1>2, <1>3, <1>7, InInit DEF BootInv
  <2>2. PICK j \in 1 .. idx - 1 : Order[j] = p
    BY <1>3, <1>7, <2>1 DEF Progress, Early, Settled
  <2>3. /\ idx \in 1 .. Len(Order) /\ Order[idx] = p
        /\ j \in 1 .. Len(Order) /\ j # idx
    BY <1>3, <1>5, <1>7, <2>1, <2>2, OrderFacts DEF Initializing, WireTypes
  <2> QED
    BY <2>2, <2>3, OrderFacts
<1> QED
  BY <1>6, <1>7 DEF Threads

\* A module settles at the end of its Init at boot, when nothing that could
\* depend on it has run yet.
LEMMA NewlySettled ==
    ASSUME WireInv, StateTypes, Progress, [Next]_vars, NEW p \in Modules,
           Settled(p)', ~Settled(p), NEW m \in Modules, p \in DependsOn[m]
    PROVE  ~Passed(m)' /\ \A t \in Threads : pc'[t] # "init"
<1>1. /\ WireTypes /\ BootInv /\ "boot" \in Threads
      /\ \A r \in Retries : r \in Threads /\ r # "boot"
  BY KeyFacts DEF WireInv, Threads
<1>2. BootInitDone
  <2>1. ASSUME initialized' = initialized, everFailed \subseteq everFailed'
        PROVE  FALSE
    BY <2>1 DEF Settled
  <2>2. CASE UNCHANGED vars \/ \E n \in Modules : ForgetFailure(n)
    BY <2>1, <2>2 DEF vars, history, ForgetFailure
  <2>3. CASE BootStep
    BY <2>1, <2>3 DEF BootStep, BootInit, BootInitsDone, RegisterCapabilities,
                      StartAll, history
  <2>4. ASSUME NEW t \in Threads, InInitStep(t)
        PROVE  FALSE
    BY <2>1, <2>4 DEF InInitStep, Get, Register, RegisterProducer, InitFails,
                      CollectPermissions, SendPermissions, history
  <2>5. ASSUME NEW r \in Retries, RetryStep(r)
        PROVE  FALSE
    <3>1. Late
      BY <2>5, ServingStep DEF Late
    <3>2. p \in initialized \/ p \in everFailed
      BY <3>1 DEF Progress, Covered
    <3>3. everFailed \subseteq everFailed'
      BY <2>5 DEF RetryStep, CheckFailed, ReplaceOn, RetryInitDone,
                  AppendInitialized, ReplaceOff, history
    <3> QED
      BY <3>2, <3>3 DEF Settled
  <2> QED
    BY <2>2, <2>3, <2>4, <2>5, NextSteps
<1>3. /\ phase = "boot" /\ pc["boot"] = "init" /\ target["boot"] = Order[idx]
      /\ idx \in 1 .. Len(Order) /\ initialized' = initialized \cup {Order[idx]}
      /\ everFailed' = everFailed /\ Early /\ pc'["boot"] = "idle"
      /\ \A r \in Retries : pc'[r] = pc[r] /\ pc[r] = "idle"
  BY <1>1, <1>2, OrderFacts
     DEF BootInitDone, BootInv, Initializing, WireTypes, Goto, history, Early
<1>4. p = Order[idx]
  BY <1>3 DEF Settled
<1>5. \A t \in Threads : pc'[t] = "idle"
  BY <1>3 DEF Threads
<1>6. ASSUME m \in initialized'
      PROVE  FALSE
  <2>1. PICK i \in 1 .. idx : Order[i] = m
    <3>1. \A j \in 1 .. idx - 1 : j \in 1 .. idx
      BY <1>3
    <3>2. idx \in 1 .. idx
      BY <1>3
    <3> QED
      BY <1>3, <1>6, <3>1, <3>2 DEF Progress
  <2>2. i \in DOMAIN Order
    BY <1>3, <2>1, OrderFacts
  <2>3. PICK j \in 1 .. i - 1 : Order[j] = p
    BY <2>1, <2>2, DependencyFacts, OrderAssumption DEF OrderAssumption, Topological
  <2>4. j \in 1 .. Len(Order) /\ j # idx
    BY <1>3, <2>1, <2>3, OrderFacts
  <2> QED
    BY <1>3, <1>4, <2>3, <2>4, OrderFacts
<1> QED
  BY <1>1, <1>5, <1>6 DEF Passed

LEMMA WiredNext ==
    WireInv /\ StateTypes /\ Progress /\ Wired /\ [Next]_vars => Wired'
<1> SUFFICES ASSUME WireInv, StateTypes, Progress, Wired, [Next]_vars PROVE Wired'
  OBVIOUS
<1>1. WireTypes /\ WireTypes'
  BY StepInv DEF WireInv
\* What modules hold of a dependency that was settled stays right.
<1>2. ASSUME NEW m \in Modules, NEW p \in DependsOn[m], Settled(p),
             NEW k \in Resolves[m] \cap Provides[p], holds[m][k] = services[k]
      PROVE  holds'[m][k] = services'[k]
  BY <1>2, DependencyFacts, SettledServices, ServicesStep
<1>3. ASSUME NEW m \in Modules, Passed(m)'
      PROVE  Registered(m)' /\ Current(m)'
  <2>1. Registered(m) /\ Current(m)
    <3>1. CASE Passed(m)
      BY <3>1 DEF Wired
    <3>2. ASSUME NEW t \in Threads, Through(t, m)
          PROVE  Registered(m) /\ Current(m)
      BY <3>2 DEF Through, Wired, OnItsWay, Registered, Current, HoldsOf
    <3> QED
      BY <1>3, <3>1, <3>2, PassedStep
  <2>2. Registered(m)'
    BY <2>1, DependencyFacts, ServicesStep DEF Registered
  <2>3. ASSUME NEW p \in DependsOn[m], Settled(p)'
        PROVE  HoldsOf(m, p)'
    <3>1. Settled(p)
      BY <1>3, <2>3, NewlySettled, DependencyFacts
    <3> QED
      BY <1>2, <2>1, <3>1 DEF Current, HoldsOf
  <2> QED
    BY <2>2, <2>3 DEF Current
<1>4. ASSUME NEW t \in Threads, pc'[t] = "init"
      PROVE  OnItsWay(t)'
  <2>1. target'[t] \in Modules
    BY <1>1, <1>4 DEF WireTypes
  <2>2. CASE left'[t] = Operations(target'[t])
    <3>1. PICK m \in Modules : m = target'[t]
      BY <2>1
    <3>2. /\ \A k \in Provides[m] : <<"register", k>> \in left'[t]
          /\ \A k \in Resolves[m] : <<"get", k>> \in left'[t]
      BY <2>2, <3>1 DEF Operations
    <3> QED
      BY <2>2, <3>1, <3>2 DEF OnItsWay
  <2>3. CASE Advances(t)
    <3>1. PICK m \in Modules : m = target[t] /\ m = target'[t]
      BY <2>1, <2>3 DEF Advances
    <3>2. OnItsWay(t)
      BY <2>3 DEF Advances, Wired
    <3>3. left'[t] \subseteq Operations(m)
      BY <2>3, <3>1, <3>2 DEF Advances, OnItsWay
    <3>4. ASSUME NEW k \in Provides[m]
          PROVE  <<"register", k>> \in left'[t] \/ services'[k] # NoService
      BY <2>3, <3>1, <3>2, DependencyFacts, ServicesStep DEF Advances, OnItsWay
    <3>5. ASSUME NEW p \in DependsOn[m], Settled(p)',
                 NEW k \in Resolves[m] \cap Provides[p]
          PROVE  <<"get", k>> \in left'[t] \/ holds'[m][k] = services'[k]
      <4>1. Settled(p)
        BY <1>4, <3>5, NewlySettled, DependencyFacts
      <4>2. <<"get", k>> \in left[t] \/ holds[m][k] = services[k]
        BY <3>1, <3>2, <4>1 DEF OnItsWay
      <4>3. k \in Keys
        BY DependencyFacts
      <4> QED
        BY <1>2, <2>3, <3>1, <4>1, <4>2, <4>3 DEF Advances
    <3> QED
      BY <3>1, <3>3, <3>4, <3>5 DEF OnItsWay
  <2> QED
    BY <1>4, <2>2, <2>3, InitAdvances
<1> QED
  BY <1>3, <1>4 DEF Wired

(***************************************************************************)
(* Permissions: once the module with the authz service has passed its      *)
(* Init, the permissions of an initialized module are with that service or *)
(* on their way there.                                                     *)
(***************************************************************************)
AuthzIsUp == \E p \in initialized : Authz \in Provides[p]

HandedOver(m) ==
    \/ m \in permitted
    \/ \E t \in Threads : \/ pc[t] = "permissions"
                          \/ pc[t] = "send" /\ m \in slice[t]

Permitting ==
    Late /\ ~dropped => (AuthzIsUp => \A m \in initialized : HandedOver(m))

LEMMA PermittingInit == Init => Permitting
<1> SUFFICES ASSUME Init PROVE ~AuthzIsUp
  BY Zenon DEF Permitting
<1> QED
  BY DEF Init, AuthzIsUp

\* A step that neither hands over permissions nor adds modules.
LEMMA PermittingStays ==
    ASSUME Permitting, Late, dropped' = dropped, initialized' = initialized,
           permitted' = permitted, NEW t \in Threads, Alone(t),
           pc[t] \notin {"permissions", "send"}
    PROVE  Permitting'
<1>1. AuthzIsUp' <=> AuthzIsUp
  BY DEF AuthzIsUp
<1>2. ASSUME NEW m, HandedOver(m)
      PROVE  HandedOver(m)'
  BY <1>2 DEF HandedOver, Alone
<1>3. \A m \in initialized' : m \in initialized
  OBVIOUS
<1>4. ~dropped' => ~dropped
  OBVIOUS
<1> QED
  BY <1>1, <1>2, <1>3, <1>4, Zenon DEF Permitting

\* A step after which somebody is about to collect them all.
LEMMA PermittingBegins ==
    ASSUME NEW t \in Threads, pc'[t] = "permissions"
    PROVE  Permitting'
<1>1. \A m : HandedOver(m)'
  BY DEF HandedOver
<1> QED
  BY <1>1, Zenon DEF Permitting

LEMMA PermittingNext ==
    WireInv /\ StateTypes /\ Progress /\ Wired /\ Permitting /\ [Next]_vars
        => Permitting'
<1> SUFFICES ASSUME WireInv, StateTypes, Progress, Wired, Permitting, [Next]_vars
             PROVE  Permitting'
  OBVIOUS
<1>1. /\ WireTypes /\ BootInv /\ "boot" \in Threads
      /\ \A r \in Retries : r \in Threads /\ r # "boot"
      /\ pc \in [Threads -> Labels] /\ slice \in [Threads -> SUBSET Modules]
  BY KeyFacts DEF WireInv, WireTypes, StateTypes, Threads
<1>2. CASE UNCHANGED vars \/ \E m \in Modules : ForgetFailure(m)
  <2>1. UNCHANGED <<phase, pc, initialized, permitted, slice>>
    BY <1>2 DEF vars, threads, ForgetFailure
  <2>2. dropped' = dropped
    BY <1>2, Zenon DEF vars, history, ForgetFailure
  <2>3. (Late' <=> Late) /\ (AuthzIsUp' <=> AuthzIsUp) /\ initialized' = initialized
    BY <2>1 DEF Late, AuthzIsUp
  <2>4. \A m : HandedOver(m) => HandedOver(m)'
    BY <2>1 DEF HandedOver
  <2>5. ~dropped' => ~dropped
    BY <2>2
  <2> QED
    BY <2>3, <2>4, <2>5, Zenon DEF Permitting
<1>3. CASE BootStep
  <2>1. Alone("boot")
    BY <1>1, <1>3, StepAlone
  <2>2. CASE BootInit \/ BootInitDone
    <3>1. ~Late'
      BY <1>1, <2>2 DEF BootInit, CallInit, BootInitDone, Goto, Late
    <3> QED
      BY <3>1, Zenon DEF Permitting
  <2>3. CASE BootInitsDone
    <3>1. pc'["boot"] = "permissions"
      BY <1>1, <2>3 DEF BootInitsDone, Goto
    <3> QED
      BY <1>1, <3>1, PermittingBegins
  <2>4. CASE RegisterCapabilities \/ StartAll
    <3>1. /\ Late /\ UNCHANGED <<initialized, permitted>>
          /\ pc["boot"] = "capabilities"
      BY <1>1, <2>4 DEF RegisterCapabilities, StartAll, Late, BootInv, WireTypes, Phases
    <3>2. dropped' = dropped
      BY <2>4, Zenon DEF RegisterCapabilities, StartAll, history
    <3> QED
      BY <1>1, <2>1, <3>1, <3>2, PermittingStays
  <2> QED
    BY <1>3, <2>2, <2>3, <2>4 DEF BootStep
<1>4. ASSUME NEW t \in Threads, InInitStep(t), phase \in {"boot", "serving"}
      PROVE  Permitting'
  <2>1. Alone(t)
    BY <1>4, StepAlone
  <2>2. CASE (\E k \in Keys : Get(t, k) \/ Register(t, k)) \/ RegisterProducer(t)
             \/ InitFails(t)
    <3>1. /\ UNCHANGED <<initialized, permitted>> /\ pc[t] = "init"
          /\ (Late' => Late)
      <4>1. UNCHANGED <<initialized, permitted>> /\ pc[t] = "init"
        BY <2>2 DEF Get, Register, RegisterProducer, InitFails
      <4>2. CASE t \in Retries
        BY <4>2, <1>4, ServingStep, <4>1 DEF Late
      <4>3. CASE t = "boot"
        <5>1. Early /\ phase = "boot"
          BY <1>1, <1>4, <4>1, <4>3, InInit DEF Early
        <5>2. ~Late'
          BY <1>1, <2>2, <4>1, <4>3, <5>1
             DEF Get, Register, RegisterProducer, InitFails, Panic, Did, Goto, Late
        <5> QED
          BY <4>1, <5>2
      <4> QED
        BY <4>2, <4>3 DEF Threads
    <3>2. dropped' = dropped
      BY <2>2, Zenon DEF Get, Register, RegisterProducer, InitFails
    <3>3. CASE Late
      BY <2>1, <3>1, <3>2, <3>3, PermittingStays
    <3>4. CASE ~Late
      BY <3>1, <3>4, Zenon DEF Permitting
    <3> QED
      BY <3>3, <3>4
  <2>3. CASE CollectPermissions(t)
    <3>1. /\ UNCHANGED <<phase, initialized, permitted, services>>
          /\ pc[t] = "permissions"
      BY <2>3 DEF CollectPermissions
    <3>2. CASE services[Authz] = NoService
      <4>1. ~AuthzIsUp
        <5>1. \A p \in initialized : Registered(p)
          BY DEF Wired, Passed, StateTypes
        <5> QED
          BY <3>2, <5>1 DEF AuthzIsUp, Registered
      <4>2. ~AuthzIsUp'
        BY <3>1, <4>1 DEF AuthzIsUp
      <4> QED
        BY <4>2, Zenon DEF Permitting
    <3>3. CASE services[Authz] # NoService
      <4>1. pc'[t] = "send" /\ slice'[t] = initialized'
        BY <1>1, <2>3, <3>1, <3>3 DEF CollectPermissions, Goto
      <4>2. \A m \in initialized' : HandedOver(m)'
        BY <4>1 DEF HandedOver
      <4> QED
        BY <4>2, Zenon DEF Permitting
    <3> QED
      BY <3>2, <3>3
  <2>4. CASE SendPermissions(t)
    <3>1. /\ UNCHANGED <<phase, initialized>> /\ pc[t] = "send"
      BY <2>4 DEF SendPermissions
    <3>2. Late /\ (AuthzIsUp' <=> AuthzIsUp)
      <4>1. t \in Retries \/ t = "boot"
        BY DEF Threads
      <4>2. t \in Retries => phase = "serving"
        BY <1>4, ServingStep
      <4>3. t = "boot" => phase = "boot"
        BY <1>4, <3>1, InInit
      <4> QED
        BY <3>1, <4>1, <4>2, <4>3 DEF Late, AuthzIsUp
    <3>3. CASE dropped' = TRUE
      BY <3>3, Zenon DEF Permitting
    <3>4. CASE permitted' = permitted \cup slice[t] /\ dropped' = dropped
      <4>1. \A m : HandedOver(m) => HandedOver(m)'
        BY <2>1, <3>1, <3>4 DEF HandedOver, Alone
      <4>2. ~dropped' => ~dropped
        BY <3>4
      <4>3. \A m \in initialized' : m \in initialized
        BY <3>1
      <4> QED
        BY <3>2, <4>1, <4>2, <4>3, Zenon DEF Permitting
    <3>5. \/ dropped' = TRUE
          \/ permitted' = permitted \cup slice[t] /\ dropped' = dropped
      BY <2>4, Zenon DEF SendPermissions
    <3> QED
      BY <3>3, <3>4, <3>5
  <2> QED
    BY <1>4, <2>2, <2>3, <2>4 DEF InInitStep
<1>5. ASSUME NEW r \in Retries, RetryStep(r)
      PROVE  Permitting'
  <2>1. Alone(r) /\ r \in Threads /\ phase = "serving"
    BY <1>1, <1>5, StepAlone, ServingStep
  <2>2. CASE AppendInitialized(r)
    <3>1. pc'[r] = "permissions"
      BY <1>1, <2>1, <2>2 DEF AppendInitialized, Goto
    <3> QED
      BY <2>1, <3>1, PermittingBegins
  <2>3. CASE ~AppendInitialized(r)
    <3>1. /\ Late /\ UNCHANGED <<initialized, permitted>>
          /\ pc[r] \notin {"permissions", "send"}
      BY <1>5, <2>1, <2>3 DEF RetryStep, CheckFailed, ReplaceOn, RetryInitDone,
                              ReplaceOff, Late
    <3>2. dropped' = dropped
      BY <1>5, <2>3, Zenon DEF RetryStep, CheckFailed, ReplaceOn, RetryInitDone,
                               ReplaceOff, history
    <3> QED
      BY <2>1, <3>1, <3>2, PermittingStays
  <2> QED
    BY <2>2, <2>3
<1> QED
  BY <1>2, <1>3, <1>4, <1>5, NextSteps

(***************************************************************************)
(* The catalog.                                                            *)
(***************************************************************************)
\* A non-empty set of natural numbers has a least element.
LEMMA Least ==
    ASSUME NEW S \in SUBSET Nat, S # {}
    PROVE  \E n \in S : \A m \in S : n <= m
<1> DEFINE T == {1 .. n : n \in S}
           R == StrictSubsetOrdering(Nat)
<1>1. \A n \in Nat : 1 .. n \in FiniteSubsetsOf(Nat)
  BY FS_Interval DEF FiniteSubsetsOf
<1>2. T \subseteq FiniteSubsetsOf(Nat) /\ T # {}
  BY <1>1
<1>3. IsWellFoundedOn(R, FiniteSubsetsOf(Nat))
  BY FS_StrictSubsetOrderingWellFounded
<1>4. \A m, n \in Nat : m < n => <<1 .. m, 1 .. n>> \in R
  <2> SUFFICES ASSUME NEW m \in Nat, NEW n \in Nat, m < n
               PROVE  <<1 .. m, 1 .. n>> \in R
    OBVIOUS
  <2>1. 1 .. m \subseteq 1 .. n /\ n \in 1 .. n /\ n \notin 1 .. m
    OBVIOUS
  <2> QED
    BY <2>1 DEF StrictSubsetOrdering
<1> HIDE DEF R
<1>5. \E x \in T : \A y \in T : ~ (<<y, x>> \in R)
  <2> HIDE DEF T
  <2> QED BY <1>2, <1>3, WFMin
<1>6. PICK n \in S : \A m \in S : ~ (<<1 .. m, 1 .. n>> \in R)
  BY <1>5
<1>7. \A m \in S : ~ (m < n)
  BY <1>4, <1>6
<1>8. \A m \in S : m \in Nat /\ n \in Nat
  OBVIOUS
<1> QED
  BY <1>7, <1>8

\* The declarations that Register takes: those up to the first bad one.
Taken(caps) == {i \in DOMAIN caps : \A j \in 1 .. i : Accepts(caps, j)}

\* Two declarations of one id among those are the same.
LEMMA TakenAgree ==
    ASSUME NEW m \in Modules, NEW i \in Taken(Capabilities[m]),
           NEW j \in Taken(Capabilities[m]),
           Capabilities[m][i].id = Capabilities[m][j].id
    PROVE  Capabilities[m][i].body = Capabilities[m][j].body
<1> DEFINE caps == Capabilities[m]
<1>1. i \in Nat /\ j \in Nat /\ i >= 1 /\ j >= 1
  <2>1. DOMAIN caps = 1 .. Len(caps) /\ Len(caps) \in Nat
    BY WiringAssumption DEF WiringAssumption
  <2> QED
    BY <2>1 DEF Taken
<1>2. CASE i < j
  <2>1. Accepts(caps, j) /\ i \in 1 .. j - 1
    BY <1>1, <1>2 DEF Taken
  <2> QED
    BY <2>1 DEF Accepts
<1>3. CASE j < i
  <2>1. Accepts(caps, i) /\ j \in 1 .. i - 1
    BY <1>1, <1>3 DEF Taken
  <2> QED
    BY <2>1 DEF Accepts
<1>4. i < j \/ j < i \/ i = j
  BY <1>1
<1> QED
  BY <1>2, <1>3, <1>4

\* Register gives the ids it takes the declared body and leaves the others.
LEMMA RegisterCapsFacts ==
    ASSUME NEW m \in Modules, NEW id \in Ids
    PROVE  /\ \A i \in Taken(Capabilities[m]) : Capabilities[m][i].id = id =>
                RegisterCaps(Capabilities[m])[id] = Capabilities[m][i].body
           /\ (\A i \in Taken(Capabilities[m]) : Capabilities[m][i].id # id) =>
                RegisterCaps(Capabilities[m])[id] = catalog[id]
<1> DEFINE caps == Capabilities[m]
<1>1. RegisterCaps(caps)[id] =
        IF \E i \in Taken(caps) : caps[i].id = id
        THEN caps[CHOOSE i \in Taken(caps) : caps[i].id = id].body
        ELSE catalog[id]
  BY DEF RegisterCaps, Taken
<1>2. ASSUME NEW i \in Taken(caps), caps[i].id = id
      PROVE  RegisterCaps(caps)[id] = caps[i].body
  <2>1. PICK j \in Taken(caps) : /\ j = (CHOOSE x \in Taken(caps) : caps[x].id = id)
                                 /\ caps[j].id = id
    BY <1>2
  <2>2. caps[j].body = caps[i].body
    BY <1>2, <2>1, TakenAgree
  <2> QED
    BY <1>1, <1>2, <2>1, <2>2
<1> QED
  BY <1>1, <1>2

\* An id that is in the catalog keeps its body.
LEMMA RegisterCapsKeeps ==
    ASSUME NEW m \in Modules, NEW id \in Ids, catalog[id] # Unknown
    PROVE  RegisterCaps(Capabilities[m])[id] = catalog[id]
<1> DEFINE caps == Capabilities[m]
<1>1. ASSUME NEW i \in Taken(caps), caps[i].id = id
      PROVE  caps[i].body = catalog[id]
  <2>1. i \in 1 .. i
    <3>1. DOMAIN caps = 1 .. Len(caps) /\ Len(caps) \in Nat
      BY WiringAssumption DEF WiringAssumption
    <3> QED
      BY <3>1 DEF Taken
  <2>2. Accepts(caps, i)
    BY <2>1 DEF Taken
  <2> QED
    BY <1>1, <2>2 DEF Accepts
<1> QED
  BY <1>1, RegisterCapsFacts

\* One of the first n modules declares id with this body.
Declared(id, body, n) ==
    \E e \in 1 .. n : [id |-> id, body |-> body] \in Range(Capabilities[Order[e]])

\* Why the i-th declaration of the n-th module is in the catalog or not.
Explained(n, i) ==
    LET caps == Capabilities[Order[n]] IN
    \/ catalog[caps[i].id] = caps[i].body
    \/ \E j \in 1 .. i :
        \/ ~Valid(caps[j])
        \/ /\ catalog[caps[j].id] # caps[j].body
           /\ Declared(caps[j].id, catalog[caps[j].id], n)

Cataloging ==
    /\ Early => \A id \in Ids : catalog[id] = Unknown
    /\ phase = "boot" /\ pc["boot"] \in {"permissions", "send"} => idx = 1
    /\ phase = "serving" => idx > Len(Order)
    /\ Late => \A id \in Ids : catalog[id] # Unknown => Declared(id, catalog[id], idx - 1)
    /\ Late => \A n \in 1 .. Len(Order) : n < idx /\ Order[n] \notin everFailed =>
                    \A i \in DOMAIN Capabilities[Order[n]] : Explained(n, i)

\* A body that is in the catalog was declared by somebody.
LEMMA BodyKnown ==
    ASSUME NEW m \in Modules, NEW i \in DOMAIN Capabilities[m]
    PROVE  Capabilities[m][i].body # Unknown
<1>1. Capabilities[m][i].body \in Bodies
  BY CapFacts
<1>2. Unknown \notin Bodies
  BY WiringAssumption DEF WiringAssumption
<1> QED
  BY <1>1, <1>2

\* Registering the capabilities of the module at idx.
LEMMA RegisterCapsExplains ==
    ASSUME StateTypes, Cataloging, Late, NEW n \in 1 .. Len(Order), n = idx,
           catalog' = RegisterCaps(Capabilities[Order[n]]),
           NEW i \in DOMAIN Capabilities[Order[n]]
    PROVE  Explained(n, i)'
<1> DEFINE caps == Capabilities[Order[n]]
<1>1. PICK m \in Modules : m = Order[n]
  BY OrderFacts
<1>2. /\ DOMAIN caps = 1 .. Len(caps) /\ Len(caps) \in Nat /\ DOMAIN caps \subseteq Nat
      /\ i \in Nat /\ i >= 1
  BY <1>1, WiringAssumption DEF WiringAssumption
<1>3. \A j \in DOMAIN caps : /\ caps[j].id \in Ids /\ caps[j].body \in Bodies
                             /\ caps[j] = [id |-> caps[j].id, body |-> caps[j].body]
                             /\ caps[j] \in Range(caps)
  BY <1>1, CapFacts DEF Range
<1>4. CASE i \in Taken(caps)
  BY <1>1, <1>3, <1>4, RegisterCapsFacts DEF Explained
<1>5. CASE i \notin Taken(caps)
  <2> DEFINE Bad == {j \in 1 .. i : ~Accepts(caps, j)}
  <2>1. Bad \in SUBSET Nat /\ Bad # {}
    BY <1>2, <1>5 DEF Taken
  <2>2. PICK j \in Bad : \A k \in Bad : j <= k
    BY <2>1, Least
  <2>3. /\ j \in 1 .. i /\ j \in DOMAIN caps /\ j \in Nat /\ j >= 1 /\ ~Accepts(caps, j)
    BY <1>2, <2>2
  <2>4. \A k \in 1 .. j - 1 : k \in Taken(caps)
    <3> SUFFICES ASSUME NEW k \in 1 .. j - 1 PROVE k \in Taken(caps)
      OBVIOUS
    <3>1. k \in DOMAIN caps
      BY <1>2, <2>3
    <3>2. ASSUME NEW l \in 1 .. k
          PROVE  Accepts(caps, l)
      <4>1. l \in 1 .. i /\ ~ (j <= l)
        BY <1>2, <2>3
      <4> QED
        BY <2>2, <4>1
    <3> QED
      BY <3>1, <3>2 DEF Taken
  <2>5. CASE ~Valid(caps[j])
    BY <2>3, <2>5 DEF Explained
  <2>6. CASE catalog[caps[j].id] \notin {Unknown, caps[j].body}
    <3>1. PICK id \in Ids : id = caps[j].id
      BY <1>3, <2>3
    <3>2. catalog'[id] = catalog[id]
      BY <1>1, <2>6, <3>1, RegisterCapsKeeps
    <3>3. Declared(id, catalog[id], n)
      <4>1. Declared(id, catalog[id], idx - 1)
        BY <2>6, <3>1 DEF Cataloging
      <4>2. n \in Nat /\ \A e \in 1 .. idx - 1 : e \in 1 .. n
        BY OrderFacts
      <4> QED
        BY <4>1, <4>2 DEF Declared
    <3>4. catalog'[caps[j].id] # caps[j].body /\ Declared(caps[j].id, catalog'[caps[j].id], n)
      BY <2>6, <3>1, <3>2, <3>3
    <3> QED
      BY <2>3, <3>4 DEF Explained, Declared
  <2>7. ASSUME NEW k \in 1 .. j - 1, caps[k].id = caps[j].id, caps[k] # caps[j]
        PROVE  Explained(n, i)'
    <3>1. k \in Taken(caps) /\ k \in DOMAIN caps
      BY <1>2, <2>3, <2>4, <2>7
    <3>2. PICK id \in Ids : id = caps[j].id
      BY <1>3, <2>3
    <3>3. catalog'[id] = caps[k].body
      BY <1>1, <2>7, <3>1, <3>2, RegisterCapsFacts
    <3>4. caps[k].body # caps[j].body
      BY <1>3, <2>3, <2>7, <3>1
    <3>5. Declared(id, catalog'[id], n)
      <4>1. [id |-> id, body |-> catalog'[id]] = caps[k]
        BY <1>3, <2>7, <3>1, <3>2, <3>3
      <4>2. n \in 1 .. n
        BY OrderFacts
      <4> QED
        BY <1>3, <3>1, <4>1, <4>2 DEF Declared
    <3> QED
      BY <2>3, <3>2, <3>3, <3>4, <3>5 DEF Explained, Declared
  <2> QED
    BY <2>3, <2>5, <2>6, <2>7 DEF Accepts
<1> QED
  BY <1>4, <1>5

\* What is explained stays so: what is in the catalog is there to stay.
LEMMA ExplainedStays ==
    ASSUME NEW n \in 1 .. Len(Order), NEW i \in DOMAIN Capabilities[Order[n]],
           Explained(n, i), StateTypes,
           \A id \in Ids : catalog[id] # Unknown => catalog'[id] = catalog[id]
    PROVE  Explained(n, i)'
<1> DEFINE caps == Capabilities[Order[n]]
<1>1. PICK m \in Modules : m = Order[n]
  BY OrderFacts
<1>2. \A j \in 1 .. i : j \in DOMAIN caps
  BY <1>1, CapFacts
<1>3. CASE catalog[caps[i].id] = caps[i].body
  <2>1. caps[i].id \in Ids /\ caps[i].body # Unknown
    BY <1>1, CapFacts, BodyKnown
  <2>2. catalog'[caps[i].id] = caps[i].body
    BY <1>3, <2>1
  <2> QED
    BY <2>2 DEF Explained
<1>4. ASSUME NEW j \in 1 .. i, ~Valid(caps[j])
      PROVE  Explained(n, i)'
  BY <1>4 DEF Explained
<1>5. ASSUME NEW j \in 1 .. i, catalog[caps[j].id] # caps[j].body,
             Declared(caps[j].id, catalog[caps[j].id], n)
      PROVE  Explained(n, i)'
  <2>1. catalog[caps[j].id] # Unknown
    <3>1. PICK e \in 1 .. n : [id |-> caps[j].id, body |-> catalog[caps[j].id]]
                                \in Range(Capabilities[Order[e]])
      BY <1>5 DEF Declared
    <3>2. PICK o \in Modules : o = Order[e]
      BY OrderFacts
    <3>3. PICK x \in DOMAIN Capabilities[o] :
              Capabilities[o][x] = [id |-> caps[j].id, body |-> catalog[caps[j].id]]
      BY <3>1, <3>2 DEF Range
    <3>4. Capabilities[o][x].body = catalog[caps[j].id]
      BY <3>3
    <3> QED
      BY <3>4, BodyKnown
  <2>2. caps[j].id \in Ids
    BY <1>1, <1>2, CapFacts
  <2>3. catalog'[caps[j].id] = catalog[caps[j].id]
    BY <2>1, <2>2
  <2> QED
    BY <1>5, <2>3 DEF Explained, Declared
<1> QED
  BY <1>3, <1>4, <1>5 DEF Explained

\* A step that leaves the catalog and the loop over it alone.
LEMMA CatalogingStays ==
    ASSUME Cataloging, UNCHANGED <<catalog, idx>>, everFailed \subseteq everFailed',
           Early' => Early, Late' => Late,
           phase' = "serving" => phase = "serving",
           phase' = "boot" /\ pc'["boot"] \in {"permissions", "send"} => idx = 1
    PROVE  Cataloging'
<1>1. \A n, i : Explained(n, i) => Explained(n, i)'
  BY DEF Explained, Declared
<1>2. \A id, b, n : Declared(id, b, n) => Declared(id, b, n)'
  BY DEF Declared
<1> QED
  BY <1>1, <1>2 DEF Cataloging

LEMMA CatalogingInit == Init => Cataloging
<1> SUFFICES ASSUME Init PROVE Cataloging
  OBVIOUS
<1>1. /\ phase = "boot" /\ pc["boot"] = "idle" /\ \A id \in Ids : catalog[id] = Unknown
  BY DEF Init, Threads
<1> QED
  BY <1>1 DEF Cataloging, Early, Late

LEMMA CatalogingBoot ==
    ASSUME WireInv, StateTypes, Progress, Cataloging, BootStep
    PROVE  Cataloging'
<1>1. WireTypes /\ BootInv /\ "boot" \in Threads /\ pc \in [Threads -> Labels]
  BY DEF WireInv, WireTypes, Threads
<1>2. everFailed \subseteq everFailed'
  BY DEF BootStep, BootInit, BootInitDone, BootInitsDone, RegisterCapabilities,
         StartAll, history
<1>3. CASE BootInit \/ BootInitDone
  <2>1. Early /\ Early' /\ ~Late' /\ phase' = "boot" /\ catalog' = catalog
        /\ pc'["boot"] \in {"idle", "init"}
    BY <1>1, <1>3 DEF BootInit, CallInit, BootInitDone, Goto, Early, Late
  <2> QED
    BY <2>1 DEF Cataloging
<1>4. CASE BootInitsDone
  <2>1. /\ Early /\ ~Early' /\ phase' = "boot" /\ catalog' = catalog /\ idx' = 1
    BY <1>1, <1>4 DEF BootInitsDone, Goto, Early
  <2>2. \A n \in 1 .. Len(Order) : ~ (n < idx')
    BY <2>1, OrderFacts
  <2> QED
    BY <2>1, <2>2 DEF Cataloging
<1>5. CASE RegisterCapabilities
  <2>1. /\ phase = "boot" /\ pc["boot"] = "capabilities" /\ Late /\ Late' /\ ~Early'
        /\ UNCHANGED <<phase, pc, initialized, everFailed>> /\ idx' = idx + 1
        /\ idx \in 1 .. Len(Order)
    BY <1>1, <1>5, OrderFacts
       DEF RegisterCapabilities, BootInv, WireTypes, Phases, Late, Early, threads, history
  <2>2. PICK n \in 1 .. Len(Order) : n = idx
    BY <2>1
  <2>3. PICK m \in Modules : m = Order[n]
    BY OrderFacts
  <2> DEFINE caps == Capabilities[m]
  <2>4. ASSUME NEW id \in Ids, catalog[id] # Unknown
        PROVE  catalog'[id] = catalog[id]
    BY <1>5, <2>2, <2>3, <2>4, RegisterCapsKeeps DEF RegisterCapabilities
  <2>5. ASSUME NEW id \in Ids, catalog'[id] # Unknown
        PROVE  Declared(id, catalog'[id], idx)
    <3>1. CASE catalog[id] # Unknown
      <4>1. \A e \in 1 .. idx - 1 : e \in 1 .. idx
        BY <2>1
      <4> QED
        BY <2>1, <2>4, <3>1, <4>1 DEF Cataloging, Declared
    <3>2. CASE catalog[id] = Unknown
      <4>1. catalog'[id] = RegisterCaps(caps)[id] /\ catalog'[id] # catalog[id]
        BY <1>5, <2>2, <2>3, <2>5, <3>2 DEF RegisterCapabilities
      <4>2. PICK i \in Taken(caps) : caps[i].id = id
        BY <4>1, RegisterCapsFacts
      <4>3. i \in DOMAIN caps /\ catalog'[id] = caps[i].body
        BY <4>1, <4>2, RegisterCapsFacts DEF Taken
      <4>4. [id |-> id, body |-> catalog'[id]] \in Range(caps)
        BY <4>2, <4>3, CapFacts DEF Range
      <4>5. n \in 1 .. idx
        BY <2>1, <2>2
      <4> QED
        BY <2>3, <4>4, <4>5 DEF Declared
    <3> QED
      BY <3>1, <3>2
  <2>6. ASSUME NEW o \in 1 .. Len(Order), o < idx', Order[o] \notin everFailed',
               NEW i \in DOMAIN Capabilities[Order[o]]
        PROVE  Explained(o, i)'
    <3>1. CASE o < idx
      <4>1. Explained(o, i)
        BY <2>1, <2>6, <3>1 DEF Cataloging
      <4> QED
        BY <2>4, <4>1, ExplainedStays
    <3>2. CASE o = idx
      <4>1. Order[o] \in initialized
        BY <2>1, <2>6, OrderFacts DEF Progress, Covered
      <4>2. catalog' = RegisterCaps(Capabilities[Order[o]])
        BY <1>5, <3>2, <4>1 DEF RegisterCapabilities
      <4> QED
        BY <2>1, <3>2, <4>2, RegisterCapsExplains
    <3> QED
      BY <2>1, <2>6, <3>1, <3>2
  <2>7. \A id \in Ids : catalog'[id] # Unknown => Declared(id, catalog[id], idx - 1)'
    <3>1. idx' - 1 = idx
      BY <2>1
    <3> QED
      BY <2>5, <3>1 DEF Declared
  <2> QED
    BY <2>1, <2>6, <2>7 DEF Cataloging
<1>6. CASE StartAll
  <2>1. /\ phase = "boot" /\ Late /\ UNCHANGED <<idx, catalog>> /\ idx > Len(Order)
        /\ phase' = "serving" /\ ~Early'
    BY <1>1, <1>6 DEF StartAll, BootInv, WireTypes, Phases, Late, Early
  <2>2. \A o, i : Explained(o, i) => Explained(o, i)'
    BY <2>1 DEF Explained, Declared
  <2>3. \A id, b, o : Declared(id, b, o) => Declared(id, b, o)'
    BY DEF Declared
  <2> QED
    BY <1>2, <2>1, <2>2, <2>3 DEF Cataloging
<1> QED
  BY <1>3, <1>4, <1>5, <1>6 DEF BootStep

LEMMA CatalogingNext ==
    WireInv /\ StateTypes /\ Progress /\ Cataloging /\ [Next]_vars => Cataloging'
<1> SUFFICES ASSUME WireInv, StateTypes, Progress, Cataloging, [Next]_vars
             PROVE  Cataloging'
  OBVIOUS
<1>1. WireTypes /\ BootInv /\ "boot" \in Threads /\ pc \in [Threads -> Labels]
      /\ \A r \in Retries : r # "boot" /\ r \in Threads
  BY KeyFacts DEF WireInv, WireTypes, Threads
<1>2. CASE UNCHANGED vars \/ \E m \in Modules : ForgetFailure(m)
  <2>1. UNCHANGED <<phase, pc, idx, catalog, everFailed>>
    BY <1>2 DEF vars, threads, history, ForgetFailure
  <2> QED
    BY <2>1, CatalogingStays DEF Early, Late, Cataloging
<1>3. CASE BootStep
  BY <1>3, CatalogingBoot
<1>4. ASSUME NEW r \in Retries, InInitStep(r) \/ RetryStep(r)
      PROVE  Cataloging'
  <2>1. /\ phase = "serving" /\ UNCHANGED <<phase, idx, catalog>>
    BY <1>4, ServingStep
  <2>2. everFailed \subseteq everFailed'
    BY <1>4 DEF InInitStep, Get, Register, RegisterProducer, InitFails,
                CollectPermissions, SendPermissions, RetryStep, CheckFailed,
                ReplaceOn, RetryInitDone, AppendInitialized, ReplaceOff, history
  <2>3. Late /\ ~Early' /\ phase' # "boot"
    BY <2>1 DEF Late, Early
  <2> QED
    BY <2>1, <2>2, <2>3, CatalogingStays
<1>5. ASSUME InInitStep("boot"), phase \in {"boot", "serving"}
      PROVE  Cataloging'
  <2>1. phase = "boot"
    <3>1. pc["boot"] # "idle"
      BY <1>5 DEF InInitStep, Get, Register, RegisterProducer, InitFails,
                  CollectPermissions, SendPermissions
    <3> QED
      BY <1>1, <1>5, <3>1, InInit
  <2>2. CASE pc["boot"] = "init"
    <3>1. Early /\ catalog' = catalog /\ ~Late' /\ phase' # "serving"
          /\ ~(phase' = "boot" /\ pc'["boot"] \in {"permissions", "send"})
      BY <1>1, <1>5, <2>1, <2>2
         DEF InInitStep, Get, Register, RegisterProducer, InitFails,
             CollectPermissions, SendPermissions, Panic, Did, Goto, Early, Late
    <3> QED
      BY <3>1 DEF Cataloging
  <2>3. CASE pc["boot"] # "init"
    <3>1. /\ Late /\ UNCHANGED <<phase, idx, catalog, everFailed>> /\ ~Early'
          /\ pc["boot"] \in {"permissions", "send"}
      BY <1>1, <1>5, <2>1, <2>3
         DEF InInitStep, Get, Register, RegisterProducer, InitFails,
             CollectPermissions, SendPermissions, Goto, Early, Late, history
    <3>2. idx = 1
      BY <2>1, <3>1 DEF Cataloging
    <3> QED
      BY <2>1, <3>1, <3>2, CatalogingStays
  <2> QED
    BY <2>2, <2>3
<1> QED
  BY <1>2, <1>3, <1>4, <1>5, NextSteps DEF Threads

(***************************************************************************)
(* The theorems.                                                           *)
(***************************************************************************)
LEMMA StateInvariant ==
    Spec => [](WireInv /\ StateTypes /\ Progress /\ Wired /\ Permitting /\ Cataloging)
BY InitInv, StepInv, TypesInit, TypesNext, ProgressInit, ProgressNext, WiredInit,
   WiredNext, PermittingInit, PermittingNext, CatalogingInit, CatalogingNext,
   PTL DEF Spec

\* Type correctness: no Init, no retry and no panic in one takes the registries
\* and the catalogs out of their types.
THEOREM WiringTypeCorrect == Spec => []TypeOK
<1>1. WireInv /\ StateTypes => TypeOK
  <2> SUFFICES ASSUME WireInv, StateTypes PROVE TypeOK
    OBVIOUS
  <2>1. /\ replaceMode \in BOOLEAN /\ overlapped \in BOOLEAN
        /\ retryPanic \in BOOLEAN /\ dropped \in BOOLEAN
    BY Zenon DEF WireInv, RetryInv, StateTypes
  <2> QED
    BY <2>1 DEF WireInv, WireTypes, StateTypes, Held, TypeOK
<1> QED
  BY StateInvariant, <1>1, PTL

\* A module that passed its Init holds what its dependencies have registered,
\* for each of them that never failed: at boot the order puts them before it,
\* and no retry registers the services of a module that has not failed.
THEOREM HoldingsAreCurrent == Spec => []HoldsCurrent
<1>1. StateTypes /\ Wired => HoldsCurrent
  <2> SUFFICES ASSUME StateTypes, Wired, NEW m \in initialized,
                      NEW p \in initialized \ everFailed, p \in DependsOn[m],
                      NEW k \in Resolves[m] \cap Provides[p]
               PROVE  holds[m][k] # NoService /\ holds[m][k] = services[k]
    BY DEF HoldsCurrent
  <2>1. m \in Modules /\ p \in Modules /\ Passed(m) /\ Passed(p)
    BY DEF StateTypes, Passed
  <2> QED
    BY <2>1 DEF Wired, Registered, Current, Settled, HoldsOf
<1> QED
  BY StateInvariant, <1>1, PTL

\* With every thread at rest, the authz service has the permissions of every
\* initialized module, unless it refused some.
THEOREM PermissionsAreSeeded == Spec => []PermissionsSeeded
<1>1. Permitting => PermissionsSeeded
  <2>1. ASSUME Permitting, Quiet, ~dropped, AuthzIsUp
        PROVE  initialized \subseteq permitted
    <3>1. Late
      BY <2>1 DEF Quiet, Late
    <3>2. \A m \in initialized : HandedOver(m)
      BY <2>1, <3>1, Zenon DEF Permitting
    <3> QED
      BY <2>1, <3>2 DEF HandedOver, Quiet
  <2> QED
    BY <2>1, Zenon DEF PermissionsSeeded, AuthzIsUp
<1> QED
  BY StateInvariant, <1>1, PTL

\* Every capability of a module that passed Init at boot is in the catalog,
\* or one of its declarations up to there is invalid or came too late.
THEOREM CatalogIsExplained == Spec => []CatalogExplained
<1>1. WireInv /\ StateTypes /\ Cataloging => CatalogExplained
  <2> SUFFICES ASSUME WireInv, StateTypes, Cataloging, phase = "serving",
                      NEW n \in DOMAIN Order, Order[n] \in initialized \ everFailed,
                      NEW i \in DOMAIN Capabilities[Order[n]]
               PROVE  LET caps == Capabilities[Order[n]] IN
                      \/ catalog[caps[i].id] = caps[i].body
                      \/ \E j \in 1 .. i :
                          \/ ~Valid(caps[j])
                          \/ \E e \in 1 .. n :
                                /\ catalog[caps[j].id] # caps[j].body
                                /\ [id |-> caps[j].id, body |-> catalog[caps[j].id]]
                                      \in Range(Capabilities[Order[e]])
    BY DEF CatalogExplained
  <2>1. n \in 1 .. Len(Order) /\ n < idx /\ Late
    <3>1. n \in 1 .. Len(Order) /\ idx > Len(Order) /\ Late
      BY OrderFacts DEF Cataloging, Late
    <3>2. idx \in Nat
      BY DEF WireInv, WireTypes
    <3> QED
      BY <3>1, <3>2, OrderFacts
  <2>2. Explained(n, i)
    BY <2>1 DEF Cataloging
  <2> QED
    BY <2>2 DEF Explained, Declared
<1> QED
  BY StateInvariant, <1>1, PTL
=============================================================================
