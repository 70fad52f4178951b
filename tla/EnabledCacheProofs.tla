-------------------------- MODULE EnabledCacheProofs --------------------------
(***************************************************************************)
(* The cached IsEnabled implements the gate of ModuleGate, for any set of  *)
(* modules, any number of calls and admins, and whatever fails.            *)
(***************************************************************************)
EXTENDS EnabledCache, TLAPS

\* A call that goes to MongoDB is never about a core module.
NoCoreUnderWay == \A r \in Requests : rpc[r] # "idle" => rmod[r] \notin Core

CacheInv == TypeOK /\ NoCoreUnderWay

(***************************************************************************)
(* Types.                                                                  *)
(***************************************************************************)
LEMMA InitInv == Init => CacheInv
BY CacheAssumption DEF Init, CacheInv, TypeOK, NoCoreUnderWay, Settings

\* What IsEnabled does keeps the types, and it asks MongoDB about addons only.
LEMMA ReaderInv ==
    ASSUME CacheInv, NEW r \in Requests,
           \/ \E m \in Modules : IsEnabledCore(r, m) \/ CacheHit(r, m) \/ CacheMiss(r, m)
           \/ ReadMongo(r) \/ Fill(r)
    PROVE  CacheInv'
<1> USE DEF CacheInv, TypeOK, NoCoreUnderWay, Reply, readerVars, writerVars, Settings
<1>1. ASSUME NEW m \in Modules, IsEnabledCore(r, m) PROVE CacheInv'
  BY <1>1 DEF IsEnabledCore
<1>2. ASSUME NEW m \in Modules, CacheHit(r, m) PROVE CacheInv'
  BY <1>2 DEF CacheHit
<1>3. ASSUME NEW m \in Modules, CacheMiss(r, m) PROVE CacheInv'
  BY <1>3 DEF CacheMiss
<1>4. CASE ReadMongo(r)
  BY <1>4 DEF ReadMongo
<1>5. CASE Fill(r)
  BY <1>5 DEF Fill
<1> QED
  BY <1>1, <1>2, <1>3, <1>4, <1>5, Zenon

\* Nor do the writers, the TTL, a wipe and lazy seeding disturb them.
LEMMA WriterInv ==
    ASSUME CacheInv,
           \/ \E w \in Admins, m \in Modules, s \in Settings : UpdateEnabled(w, m, s)
           \/ \E w \in Admins : InvalidateCache(w)
           \/ \E m \in Modules : Expire(m) \/ FindMissing(m) \/ LazySeed(m)
           \/ Wipe
    PROVE  CacheInv'
<1> USE CacheAssumption DEF CacheInv, TypeOK, NoCoreUnderWay, readerVars, writerVars
<1>1. ASSUME NEW w \in Admins, NEW m \in Modules, NEW s \in Settings,
             UpdateEnabled(w, m, s)
      PROVE  CacheInv'
  BY <1>1 DEF UpdateEnabled
<1>2. ASSUME NEW w \in Admins, InvalidateCache(w) PROVE CacheInv'
  BY <1>2 DEF InvalidateCache
<1>3. ASSUME NEW m \in Modules, Expire(m) PROVE CacheInv'
  BY <1>3 DEF Expire
<1>4. ASSUME NEW m \in Modules, LazySeed(m) PROVE CacheInv'
  BY <1>4 DEF LazySeed
<1>5. ASSUME NEW m \in Modules, FindMissing(m) PROVE CacheInv'
  BY <1>5 DEF FindMissing
<1>6. CASE Wipe
  BY <1>6 DEF Wipe
<1> QED
  BY <1>1, <1>2, <1>3, <1>4, <1>5, <1>6, Zenon

LEMMA StepInv == CacheInv /\ [Next]_vars => CacheInv'
<1> SUFFICES ASSUME CacheInv, [Next]_vars PROVE CacheInv'
  OBVIOUS
<1>1. CASE Next
  BY <1>1, ReaderInv, WriterInv, Zenon DEF Next
<1>2. CASE UNCHANGED vars
  BY <1>2 DEF CacheInv, TypeOK, NoCoreUnderWay, vars, readerVars, writerVars
<1> QED
  BY <1>1, <1>2

\* The documents, the cache and the calls keep their types.
THEOREM TypeCorrect == Spec => []TypeOK
<1>1. CacheInv => TypeOK
  BY DEF CacheInv
<1> QED
  BY InitInv, StepInv, <1>1, PTL DEF Spec

(***************************************************************************)
(* The mapping: types, and what a step must do to be one of the gate's.    *)
(***************************************************************************)
LEMMA MappingTypes ==
    ASSUME TypeOK
    PROVE  /\ Setting \in [Modules -> Settings]
           /\ Visible \in [Modules -> SUBSET Settings]
           /\ \A m \in Modules : Setting[m] \in Visible[m]
BY DEF TypeOK, Setting, Visible, Held, Settings

LEMMA MappingTypesNext ==
    ASSUME TypeOK'
    PROVE  /\ Setting' \in [Modules -> Settings]
           /\ Visible' \in [Modules -> SUBSET Settings]
           /\ \A m \in Modules : Setting'[m] \in Visible'[m]
BY DEF TypeOK, Setting, Visible, Held, Settings

\* What one module shows.
LEMMA VisibleAt ==
    ASSUME NEW m \in Modules
    PROVE  /\ Setting[m] = IF db[m] = "none" THEN "on" ELSE db[m]
           /\ Setting'[m] = IF db'[m] = "none" THEN "on" ELSE db'[m]
           /\ Visible[m] = {Setting[m]} \cup Held(m) \cup ({cache[m]} \ {"miss"})
           /\ Visible'[m] = {Setting'[m]} \cup Held(m)' \cup ({cache'[m]} \ {"miss"})
BY DEF Setting, Visible

\* No setting comes into sight but the one in force.
NothingReturns ==
    \A m \in Modules : Visible'[m] \subseteq Visible[m] \cup {Setting'[m]}

LEMMA ChangeStep ==
    ASSUME TypeOK, TypeOK', UNCHANGED <<asked, answer>>, NothingReturns
    PROVE  Gate!Change
BY MappingTypesNext DEF NothingReturns, Gate!Change, Gate!Settings, Settings

LEMMA AnswerStep ==
    ASSUME TypeOK, TypeOK', NothingReturns, Setting' = Setting,
           NEW r \in Requests, NEW m \in Modules, NEW s \in Settings,
           Reply(r, m, s), s \in Visible[m] \cup {"on"}, m \in Core => s = "on"
    PROVE  Gate!Answer(r, m, s)
<1>1. Visible' \in [Modules -> SUBSET Gate!Settings]
  BY MappingTypesNext DEF Gate!Settings, Settings
<1>2. \A n \in Modules : Setting[n] \in Visible'[n] /\ Visible'[n] \subseteq Visible[n]
  BY MappingTypes, MappingTypesNext DEF NothingReturns
<1> QED
  BY <1>1, <1>2 DEF Gate!Answer, Reply

(***************************************************************************)
(* Each step is one of the gate's.                                         *)
(***************************************************************************)
\* What is held, cached and set changes like this, so nothing returns.
LEMMA Nothing ==
    ASSUME \A m \in Modules :
              /\ Held(m)' \subseteq Visible[m] \cup {Setting'[m]}
              /\ cache'[m] = "miss" \/ cache'[m] \in Visible[m]
    PROVE  NothingReturns
BY VisibleAt DEF NothingReturns

\* An answer of IsEnabled is an answer of the gate.
LEMMA ReaderAnswers ==
    ASSUME CacheInv, CacheInv', NEW r \in Requests, NEW m \in Modules,
           \/ IsEnabledCore(r, m) \/ CacheHit(r, m)
    PROVE  Gate!GateNext
<1>1. UNCHANGED <<db, cache, rpc, rmod, rval>> /\ TypeOK /\ TypeOK'
  BY DEF IsEnabledCore, CacheHit, CacheInv
<1>2. Setting' = Setting /\ NothingReturns
  BY <1>1 DEF Setting, NothingReturns, Visible, Held
<1>3. PICK s \in Settings :
          Reply(r, m, s) /\ s \in Visible[m] \cup {"on"} /\ (m \in Core => s = "on")
  <2>1. CASE IsEnabledCore(r, m)
    BY <2>1 DEF IsEnabledCore, Settings
  <2>2. CASE CacheHit(r, m)
    <3>1. cache[m] \in Settings /\ cache[m] \in Visible[m]
      BY <1>1, <2>2, VisibleAt DEF CacheHit, TypeOK
    <3> QED
      BY <2>2, <3>1 DEF CacheHit
  <2> QED
    BY <2>1, <2>2
<1>4. Gate!Answer(r, m, s)
  BY <1>1, <1>2, <1>3, AnswerStep
<1> QED
  BY <1>3, <1>4 DEF Gate!GateNext, Gate!Settings, Settings

\* A miss shows nothing new.
LEMMA MissHides ==
    ASSUME CacheInv, CacheInv', NEW r \in Requests, NEW m \in Modules,
           CacheMiss(r, m)
    PROVE  Gate!GateNext
<1>1. UNCHANGED <<db, cache, asked, answer, rval>> /\ TypeOK /\ TypeOK'
  BY DEF CacheMiss, CacheInv
<1>2. \A n \in Modules : Held(n)' \subseteq Held(n)
  BY <1>1 DEF CacheMiss, Held, TypeOK
<1>3. NothingReturns
  <2>1. ASSUME NEW n \in Modules
        PROVE  /\ Held(n)' \subseteq Visible[n] \cup {Setting'[n]}
               /\ cache'[n] = "miss" \/ cache'[n] \in Visible[n]
    BY <1>1, <1>2, VisibleAt
  <2> QED
    BY <2>1, Nothing
<1> QED
  BY <1>1, <1>3, ChangeStep DEF Gate!GateNext

\* Reading a document: the fail-open answer, or a setting that is held.
LEMMA ReadAnswers ==
    ASSUME CacheInv, CacheInv', NEW r \in Requests, ReadMongo(r)
    PROVE  Gate!GateNext
<1> DEFINE m == rmod[r]
<1>1. /\ UNCHANGED <<db, cache, rmod>> /\ TypeOK /\ TypeOK'
      /\ m \in Modules /\ Setting' = Setting
  BY DEF ReadMongo, CacheInv, TypeOK, Setting
<1>2. CASE rval' = rval
  <2>1. /\ Reply(r, m, "on") \/ UNCHANGED <<asked, answer>>
    BY <1>2 DEF ReadMongo
  <2>2. \A n \in Modules : Held(n)' \subseteq Visible[n]
    BY <1>1, <1>2, VisibleAt DEF ReadMongo, Held, TypeOK
  <2>3. NothingReturns
    BY <1>1, <2>2, VisibleAt, Nothing
  <2>4. CASE Reply(r, m, "on")
    <3>1. Gate!Answer(r, m, "on")
      BY <1>1, <2>3, <2>4, AnswerStep DEF Settings
    <3> QED
      BY <1>1, <3>1 DEF Gate!GateNext, Gate!Settings
  <2>5. CASE UNCHANGED <<asked, answer>>
    BY <1>1, <2>3, <2>5, ChangeStep DEF Gate!GateNext
  <2> QED
    BY <2>1, <2>4, <2>5
<1>3. CASE rval' # rval
  <2>1. /\ UNCHANGED <<asked, answer>> /\ db[m] # "none"
        /\ rval' = [rval EXCEPT ![r] = db[m]] /\ rpc' = [rpc EXCEPT ![r] = "fill"]
    BY <1>3 DEF ReadMongo
  <2>2. \A n \in Modules : Held(n)' \subseteq Held(n) \cup {Setting[n]}
    BY <1>1, <2>1 DEF Held, TypeOK, Setting
  <2>3. NothingReturns
    BY <1>1, <2>2, VisibleAt, Nothing
  <2> QED
    BY <1>1, <2>1, <2>3, ChangeStep DEF Gate!GateNext
<1> QED
  BY <1>2, <1>3

\* What is stored and answered was held.
LEMMA FillAnswers ==
    ASSUME CacheInv, CacheInv', NEW r \in Requests, Fill(r)
    PROVE  Gate!GateNext
<1> DEFINE m == rmod[r]
<1>1. /\ UNCHANGED <<db, rmod, rval>> /\ TypeOK /\ TypeOK'
      /\ m \in Modules /\ Setting' = Setting /\ rval[r] \in Settings
      /\ m \notin Core
  BY DEF Fill, CacheInv, TypeOK, Setting, NoCoreUnderWay
<1>2. rval[r] \in Held(m)
  BY DEF Held, Fill
<1>3. \A n \in Modules : Held(n)' \subseteq Held(n)
  BY <1>1 DEF Fill, Held, TypeOK
<1>4. \A n \in Modules : cache'[n] = cache[n] \/ (n = m /\ cache'[n] = rval[r])
  BY <1>1 DEF Fill, TypeOK
<1>5. NothingReturns
  <2>1. ASSUME NEW n \in Modules
        PROVE  /\ Held(n)' \subseteq Visible[n] \cup {Setting'[n]}
               /\ cache'[n] = "miss" \/ cache'[n] \in Visible[n]
    BY <1>2, <1>3, <1>4, VisibleAt
  <2> QED
    BY <2>1, Nothing
<1>6. Reply(r, m, rval[r]) /\ rval[r] \in Visible[m]
  BY <1>1, <1>2, VisibleAt DEF Fill
<1>7. Gate!Answer(r, m, rval[r])
  BY <1>1, <1>5, <1>6, AnswerStep
<1> QED
  BY <1>1, <1>7 DEF Gate!GateNext, Gate!Settings, Settings

\* The writers and the TTL only change the setting in force, or forget.
LEMMA WriterChanges ==
    ASSUME CacheInv, CacheInv',
           \/ \E w \in Admins, m \in Modules, s \in Settings : UpdateEnabled(w, m, s)
           \/ \E w \in Admins : InvalidateCache(w)
           \/ \E m \in Modules : Expire(m) \/ FindMissing(m) \/ LazySeed(m)
           \/ Wipe
    PROVE  Gate!GateNext
<1>1. UNCHANGED readerVars /\ TypeOK /\ TypeOK'
  BY DEF UpdateEnabled, InvalidateCache, Expire, FindMissing, LazySeed, Wipe,
         CacheInv
<1>2. \A n \in Modules : Held(n)' = Held(n)
  BY <1>1 DEF Held, readerVars
<1>3. \A n \in Modules : cache'[n] = "miss" \/ cache'[n] = cache[n]
  BY <1>1 DEF UpdateEnabled, InvalidateCache, Expire, FindMissing, LazySeed, Wipe,
         TypeOK
<1>4. NothingReturns
  <2>1. ASSUME NEW n \in Modules
        PROVE  /\ Held(n)' \subseteq Visible[n] \cup {Setting'[n]}
               /\ cache'[n] = "miss" \/ cache'[n] \in Visible[n]
    BY <1>2, <1>3, VisibleAt
  <2> QED
    BY <2>1, Nothing
<1> QED
  BY <1>1, <1>4, ChangeStep DEF Gate!GateNext, readerVars

LEMMA StepRefines ==
    ASSUME CacheInv, CacheInv', [Next]_vars
    PROVE  [Gate!GateNext]_(Gate!gateVars)
<1>1. CASE Next
  <2>1. Gate!GateNext
    BY <1>1, ReaderAnswers, MissHides, ReadAnswers, FillAnswers, WriterChanges, Zenon
       DEF Next
  <2> QED
    BY <2>1
<1>2. CASE UNCHANGED vars
  BY <1>2 DEF vars, readerVars, writerVars, Gate!gateVars, Setting, Visible, Held
<1> QED
  BY <1>1, <1>2

LEMMA InitRefines == Init => Gate!GateInit
BY InitInv, MappingTypes, VisibleAt
   DEF Init, CacheInv, TypeOK, Visible, Setting, Held, Gate!GateInit, Gate!Settings,
       Settings

\* The cache implements the gate: no step of it, for any number of calls and
\* whatever fails, answers what the gate may not answer, brings a forgotten
\* setting back or shows a core module as off.
THEOREM CacheImplementsGate == Spec => ImplementsGate
<1>1. Init => CacheInv /\ Gate!GateInit
  BY InitInv, InitRefines
<1>2. CacheInv /\ [Next]_vars => CacheInv'
  BY StepInv
<1>3. CacheInv /\ CacheInv' /\ [Next]_vars => [Gate!GateNext]_(Gate!gateVars)
  BY StepRefines
<1> QED
  BY <1>1, <1>2, <1>3, PTL DEF Spec, ImplementsGate, Gate!GateSpec
=============================================================================
