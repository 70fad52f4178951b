-------------------------- MODULE ServiceWiringProofs --------------------------
(***************************************************************************)
(* No Init misses a service it depends on or finds its key taken at boot,  *)
(* replace mode ends with the retries, and retries one at a time do not    *)
(* panic: for any modules in a topological order, any operations of their  *)
(* Inits and any number of retries.                                        *)
(***************************************************************************)
EXTENDS ServiceWiring, TLAPS

WireTypes ==
    /\ phase \in Phases
    /\ idx \in Nat \ {0}
    /\ services \in [Keys -> Instance \cup {NoService}]
    /\ inits \in [Modules -> Nat]
    /\ pc \in [Threads -> Labels]
    /\ DOMAIN target = Threads /\ DOMAIN left = Threads
    /\ \A t \in Threads :
            pc[t] \in {"replaceOn", "init", "append"} => target[t] \in Modules

\* The services of the core modules are there.
CoreUp == \A m \in Core : \A k \in Provides[m] : services[k] # NoService

\* While InitAll loops: the core modules behind idx have registered
\* everything, and what is registered comes from a module behind idx or from
\* the Init under way, which has it behind it.
Looping ==
    /\ \A j \in 1 .. Len(Order) : j < idx /\ Order[j] \in Core =>
            \A k \in Provides[Order[j]] : services[k] # NoService
    /\ \A k \in Keys : services[k] # NoService =>
            \E j \in 1 .. Len(Order) :
                /\ k \in Provides[Order[j]]
                /\ \/ j < idx
                   \/ /\ j = idx /\ pc["boot"] = "init"
                      /\ <<"register", k>> \notin left["boot"]

\* The Init of the module at idx registers each of its keys once.
Initializing ==
    /\ idx <= Len(Order) /\ target["boot"] = Order[idx]
    /\ \A k \in Keys :
            <<"register", k>> \in left["boot"] => k \in Provides[Order[idx]]
    /\ \A k \in Provides[Order[idx]] :
            <<"register", k>> \in left["boot"] \/ services[k] # NoService

BootInv ==
    /\ phase # "panicked"
    /\ phase = "serving" => pc["boot"] = "idle"
    /\ phase = "coreFailed" => pc["boot"] = "init"
    /\ \A r \in Retries : pc[r] # "idle" => phase = "serving"
    /\ phase = "boot" /\ pc["boot"] \in {"idle", "init"} => Looping
    /\ phase = "boot" /\ pc["boot"] = "init" => Initializing
    /\ \/ phase = "serving"
       \/ phase = "boot" /\ pc["boot"] \in {"permissions", "send", "capabilities"}
       => CoreUp

RetryInv ==
    /\ replaceMode \in BOOLEAN /\ overlapped \in BOOLEAN /\ retryPanic \in BOOLEAN
    /\ ReplaceModeEnds
    /\ ~overlapped => \A r, s \in Retries : pc[r] # "idle" /\ pc[s] # "idle" => r = s
    /\ ~overlapped => \A r \in Retries : pc[r] = "init" => replaceMode
    /\ SerialRetriesDoNotPanic

WireInv == WireTypes /\ BootInv /\ RetryInv

(***************************************************************************)
(* What the constants give.                                                *)
(***************************************************************************)
LEMMA OrderFacts ==
    /\ Order \in Seq(Modules) /\ Len(Order) \in Nat /\ DOMAIN Order = 1 .. Len(Order)
    /\ \A j \in 1 .. Len(Order) : Order[j] \in Modules
    /\ \A m \in Modules : \E j \in 1 .. Len(Order) : Order[j] = m
    /\ \A i, j \in 1 .. Len(Order) : Order[i] = Order[j] => i = j
BY OrderAssumption DEF OrderAssumption, Topological, IsInjective, Range

LEMMA KeyFacts ==
    /\ Core \subseteq Modules
    /\ \A m \in Modules : Provides[m] \subseteq Keys /\ Requires[m] \subseteq Keys
    /\ \A m, n \in Modules, k \in Keys : k \in Provides[m] /\ k \in Provides[n] => m = n
    /\ "boot" \notin Retries /\ NoService \notin Instance
BY WiringAssumption DEF WiringAssumption

\* A hard dependency is a core module before the one that needs it.
LEMMA HardDependency ==
    ASSUME NEW m \in Modules, NEW k \in Requires[m]
    PROVE  \E p \in Core : /\ k \in Provides[p]
                           /\ \A i \in 1 .. Len(Order) : Order[i] = m =>
                                \E j \in 1 .. i - 1 : Order[j] = p
<1>1. k \in Keys
  BY KeyFacts
<1>2. PICK p \in DependsOn[m] \cap Core : k \in Provides[p]
  BY <1>1, OrderAssumption DEF OrderAssumption
<1>3. ASSUME NEW i \in 1 .. Len(Order), Order[i] = m
      PROVE  \E j \in 1 .. i - 1 : Order[j] = p
  BY <1>2, <1>3, OrderFacts, KeyFacts, OrderAssumption DEF OrderAssumption, Topological
<1> QED
  BY <1>2, <1>3

LEMMA OperationsOf ==
    ASSUME NEW m \in Modules, NEW k \in Keys
    PROVE  <<"register", k>> \in Operations(m) <=> k \in Provides[m]
BY DEF Operations

LEMMA InitInv == Init => WireInv
<1> SUFFICES ASSUME Init PROVE WireInv
  OBVIOUS
<1>1. /\ phase = "boot" /\ idx = 1 /\ services = [k \in Keys |-> NoService]
      /\ inits = [m \in Modules |-> 0] /\ pc = [t \in Threads |-> "idle"]
      /\ target = [t \in Threads |-> NoModule] /\ left = [t \in Threads |-> {}]
  BY Zenon DEF Init
<1>2. ~replaceMode /\ ~overlapped /\ ~retryPanic
      /\ replaceMode \in BOOLEAN /\ overlapped \in BOOLEAN /\ retryPanic \in BOOLEAN
  BY Zenon DEF Init
<1>3. WireTypes
  BY <1>1 DEF WireTypes, Phases, Labels
<1>4. \A t \in Threads : pc[t] = "idle"
  BY <1>1
<1>5. BootInv
  <2>1. Looping
    BY <1>1, OrderFacts DEF Looping
  <2>2. /\ phase = "boot" /\ pc["boot"] = "idle"
        /\ \A r \in Retries : pc[r] = "idle"
    BY <1>1, <1>4 DEF Threads
  <2> QED
    BY <2>1, <2>2 DEF BootInv
<1>6. RetryInv
  BY <1>2, <1>4, Zenon DEF RetryInv, ReplaceModeEnds, SerialRetriesDoNotPanic, Threads
<1> QED
  BY <1>3, <1>5, <1>6 DEF WireInv

(***************************************************************************)
(* Frames.                                                                 *)
(***************************************************************************)
\* A step that leaves the retries alone.
LEMMA RetriesFrame ==
    ASSUME RetryInv, UNCHANGED <<replaceMode, overlapped, retryPanic>>,
           \A r \in Retries : pc'[r] = pc[r]
    PROVE  RetryInv'
<1>1. replaceMode' = replaceMode /\ overlapped' = overlapped /\ retryPanic' = retryPanic
  BY Zenon
<1>2. /\ replaceMode' <=> replaceMode
      /\ overlapped' <=> overlapped
      /\ retryPanic' <=> retryPanic
  BY <1>1, SMT
<1>3. replaceMode' \in BOOLEAN /\ overlapped' \in BOOLEAN /\ retryPanic' \in BOOLEAN
  BY <1>1, SMT DEF RetryInv
<1>4. SerialRetriesDoNotPanic'
  BY <1>2, Zenon DEF RetryInv, SerialRetriesDoNotPanic
<1>5. ReplaceModeEnds'
  BY <1>2, Zenon DEF RetryInv, ReplaceModeEnds
<1>6. ~overlapped' => \A r, s \in Retries : pc'[r] # "idle" /\ pc'[s] # "idle" => r = s
  BY <1>2, Zenon DEF RetryInv
<1>7. ~overlapped' => \A r \in Retries : pc'[r] = "init" => replaceMode'
  BY <1>2, Zenon DEF RetryInv
<1> QED
  BY <1>3, <1>4, <1>5, <1>6, <1>7, Zenon DEF RetryInv

\* A step while serving that takes no service away.
LEMMA ServingFrame ==
    ASSUME WireInv, phase = "serving", phase' = phase, pc'["boot"] = pc["boot"],
           \A k \in Keys : services[k] # NoService => services'[k] # NoService
    PROVE  BootInv'
BY KeyFacts DEF WireInv, BootInv, CoreUp

(***************************************************************************)
(* InitAll.                                                                *)
(***************************************************************************)
LEMMA BootInitKeeps == WireInv /\ BootInit => WireInv'
<1> SUFFICES ASSUME WireInv, BootInit PROVE WireInv'
  OBVIOUS
<1> DEFINE m == Order[idx]
<1>1. /\ phase = "boot" /\ pc["boot"] = "idle" /\ idx <= Len(Order)
      /\ inits' = [inits EXCEPT ![m] = @ + 1]
      /\ target' = [target EXCEPT !["boot"] = m]
      /\ left' = [left EXCEPT !["boot"] = Operations(m)]
      /\ pc' = [pc EXCEPT !["boot"] = "init"]
      /\ UNCHANGED <<phase, idx, services>>
  BY DEF BootInit, CallInit, Goto
<1>2. UNCHANGED <<replaceMode, overlapped, retryPanic>>
  BY Zenon DEF BootInit, history
<1>3. /\ WireTypes /\ BootInv /\ RetryInv /\ "boot" \in Threads
      /\ idx \in 1 .. Len(Order) /\ m \in Modules
  <2>1. WireTypes /\ BootInv /\ RetryInv /\ "boot" \in Threads
    BY DEF WireInv, Threads
  <2>2. idx \in 1 .. Len(Order)
    BY <1>1, <2>1, OrderFacts DEF WireTypes
  <2> QED
    BY <2>1, <2>2, OrderFacts
<1>4. WireTypes'
  BY <1>1, <1>3 DEF WireTypes, Labels
<1>5. BootInv'
  <2>1. /\ pc'["boot"] = "init" /\ target'["boot"] = m /\ left'["boot"] = Operations(m)
        /\ \A r \in Retries : pc'[r] = pc[r]
    BY <1>1, <1>3, KeyFacts DEF WireTypes
  <2>2. Looping'
    BY <1>1, <1>3, <2>1 DEF BootInv, Looping
  <2>3. Initializing'
    BY <1>1, <1>3, <2>1, OperationsOf, KeyFacts DEF Initializing
  <2> QED
    BY <1>1, <1>3, <2>1, <2>2, <2>3 DEF BootInv
<1>6. \A r \in Retries : pc'[r] = pc[r]
  BY <1>1, <1>3, KeyFacts DEF WireTypes, Threads
<1>7. RetryInv'
  BY <1>2, <1>3, <1>6, RetriesFrame, Zenon
<1> QED
  BY <1>4, <1>5, <1>7 DEF WireInv

LEMMA BootInitDoneKeeps == WireInv /\ BootInitDone => WireInv'
<1> SUFFICES ASSUME WireInv, BootInitDone PROVE WireInv'
  OBVIOUS
<1>1. /\ phase = "boot" /\ pc["boot"] = "init" /\ left["boot"] = {}
      /\ idx' = idx + 1 /\ pc' = [pc EXCEPT !["boot"] = "idle"]
      /\ UNCHANGED <<phase, services, inits, target, left>>
  BY DEF BootInitDone, Goto
<1>2. UNCHANGED <<replaceMode, overlapped, retryPanic>>
  BY Zenon DEF BootInitDone, history
<1>3. WireTypes /\ BootInv /\ RetryInv /\ "boot" \in Threads
  BY DEF WireInv, Threads
<1>4. WireTypes'
  BY <1>1, <1>3 DEF WireTypes, Labels
<1>5. pc'["boot"] = "idle" /\ \A r \in Retries : pc'[r] = pc[r]
  BY <1>1, <1>3, KeyFacts DEF WireTypes, Threads
<1>6. Looping'
  <2>1. Looping /\ Initializing /\ idx \in Nat
    BY <1>1, <1>3 DEF BootInv, WireTypes
  <2>2. \A j \in 1 .. Len(Order) : j < idx + 1 /\ Order[j] \in Core =>
            \A k \in Provides[Order[j]] : services[k] # NoService
    <3> SUFFICES ASSUME NEW j \in 1 .. Len(Order), j < idx + 1, Order[j] \in Core,
                        NEW k \in Provides[Order[j]]
                 PROVE  services[k] # NoService
      OBVIOUS
    <3>1. CASE j < idx
      BY <2>1, <3>1 DEF Looping
    <3>2. CASE j = idx
      BY <1>1, <2>1, <3>2 DEF Initializing
    <3> QED
      BY <2>1, <3>1, <3>2, OrderFacts
  <2>3. ASSUME NEW k \in Keys, services[k] # NoService
        PROVE  \E j \in 1 .. Len(Order) : k \in Provides[Order[j]] /\ j < idx + 1
    <3>1. PICK j \in 1 .. Len(Order) : k \in Provides[Order[j]] /\ (j < idx \/ j = idx)
      BY <2>1, <2>3 DEF Looping
    <3> QED
      BY <2>1, <3>1, OrderFacts
  <2> QED
    BY <1>1, <2>2, <2>3 DEF Looping
<1>7. BootInv'
  BY <1>1, <1>3, <1>5, <1>6 DEF BootInv
<1>8. RetryInv'
  BY <1>2, <1>3, <1>5, RetriesFrame, Zenon
<1> QED
  BY <1>4, <1>7, <1>8 DEF WireInv

LEMMA BootInitsDoneKeeps == WireInv /\ BootInitsDone => WireInv'
<1> SUFFICES ASSUME WireInv, BootInitsDone PROVE WireInv'
  OBVIOUS
<1>1. /\ phase = "boot" /\ pc["boot"] = "idle" /\ idx > Len(Order)
      /\ idx' = 1 /\ pc' = [pc EXCEPT !["boot"] = "permissions"]
      /\ UNCHANGED <<phase, services, inits, target, left>>
  BY DEF BootInitsDone, Goto
<1>2. UNCHANGED <<replaceMode, overlapped, retryPanic>>
  BY Zenon DEF BootInitsDone, history
<1>3. WireTypes /\ BootInv /\ RetryInv /\ "boot" \in Threads
  BY DEF WireInv, Threads
<1>4. WireTypes'
  BY <1>1, <1>3 DEF WireTypes, Labels
<1>5. pc'["boot"] = "permissions" /\ \A r \in Retries : pc'[r] = pc[r]
  BY <1>1, <1>3, KeyFacts DEF WireTypes, Threads
<1>6. CoreUp
  <2> SUFFICES ASSUME NEW m \in Core, NEW k \in Provides[m] PROVE services[k] # NoService
    BY DEF CoreUp
  <2>1. PICK j \in 1 .. Len(Order) : Order[j] = m
    BY OrderFacts, KeyFacts
  <2>2. j < idx
    BY <1>1, <1>3, OrderFacts DEF WireTypes
  <2> QED
    BY <1>1, <1>3, <2>1, <2>2 DEF BootInv, Looping
<1>7. BootInv'
  BY <1>1, <1>3, <1>5, <1>6 DEF BootInv, CoreUp
<1>8. RetryInv'
  BY <1>2, <1>3, <1>5, RetriesFrame, Zenon
<1> QED
  BY <1>4, <1>7, <1>8 DEF WireInv

\* The boot moves on behind the Inits.
LEMMA BootMoves ==
    ASSUME WireInv, phase = "boot", phase' = phase,
           pc["boot"] \in {"permissions", "send", "capabilities"},
           pc'["boot"] \in {"permissions", "send", "capabilities"},
           services' = services, \A r \in Retries : pc'[r] = pc[r]
    PROVE  BootInv'
BY DEF WireInv, BootInv, CoreUp

LEMMA RegisterCapabilitiesKeeps == WireInv /\ RegisterCapabilities => WireInv'
<1> SUFFICES ASSUME WireInv, RegisterCapabilities PROVE WireInv'
  OBVIOUS
<1>1. /\ pc["boot"] = "capabilities" /\ idx' = idx + 1
      /\ UNCHANGED <<phase, services, inits, pc, target, left>>
  BY DEF RegisterCapabilities, threads
<1>2. UNCHANGED <<replaceMode, overlapped, retryPanic>>
  BY Zenon DEF RegisterCapabilities, history
<1>3. WireTypes /\ BootInv /\ RetryInv
  BY DEF WireInv
<1>4. WireTypes'
  BY <1>1, <1>3 DEF WireTypes
<1>5. phase = "boot"
  BY <1>1, <1>3 DEF BootInv, WireTypes, Phases
<1>6. BootInv'
  BY <1>1, <1>5, BootMoves
<1>7. RetryInv'
  BY <1>1, <1>2, <1>3, RetriesFrame
<1> QED
  BY <1>4, <1>6, <1>7 DEF WireInv

LEMMA StartAllKeeps == WireInv /\ StartAll => WireInv'
<1> SUFFICES ASSUME WireInv, StartAll PROVE WireInv'
  OBVIOUS
<1>1. /\ pc["boot"] = "capabilities" /\ phase' = "serving"
      /\ pc' = [pc EXCEPT !["boot"] = "idle"]
      /\ target' = [target EXCEPT !["boot"] = NoModule]
      /\ left' = [left EXCEPT !["boot"] = {}]
      /\ UNCHANGED <<idx, services, inits>>
  BY DEF StartAll, Goto, Forget
<1>2. UNCHANGED <<replaceMode, overlapped, retryPanic>>
  BY Zenon DEF StartAll
<1>3. WireTypes /\ BootInv /\ RetryInv /\ "boot" \in Threads
  BY DEF WireInv, Threads
<1>4. WireTypes'
  BY <1>1, <1>3 DEF WireTypes, Labels, Phases
<1>5. phase = "boot"
  BY <1>1, <1>3 DEF BootInv, WireTypes, Phases
<1>6. pc'["boot"] = "idle" /\ \A r \in Retries : pc'[r] = pc[r]
  BY <1>1, <1>3, KeyFacts DEF WireTypes, Threads
<1>7. BootInv'
  BY <1>1, <1>3, <1>5, <1>6 DEF BootInv, CoreUp
<1>8. RetryInv'
  BY <1>2, <1>3, <1>6, RetriesFrame
<1> QED
  BY <1>4, <1>7, <1>8 DEF WireInv

(***************************************************************************)
(* Inits.                                                                  *)
(***************************************************************************)
\* Which thread can be in an Init.
LEMMA InInit ==
    ASSUME WireInv, phase \in {"boot", "serving"}, NEW t \in Threads, pc[t] # "idle"
    PROVE  \/ phase = "boot" /\ t = "boot"
           \/ phase = "serving" /\ t \in Retries /\ t # "boot"
BY KeyFacts DEF WireInv, BootInv, Threads

\* MustGet finds what it needs, at boot and in retries.
LEMMA NoServiceMissing ==
    ASSUME WireInv, phase \in {"boot", "serving"}, NEW t \in Threads, pc[t] = "init",
           NEW k \in Requires[target[t]]
    PROVE  services[k] # NoService
<1>1. WireTypes /\ BootInv /\ target[t] \in Modules
  BY DEF WireInv, WireTypes
<1>2. PICK p \in Core : /\ k \in Provides[p]
                        /\ \A i \in 1 .. Len(Order) : Order[i] = target[t] =>
                              \E j \in 1 .. i - 1 : Order[j] = p
  BY <1>1, HardDependency
<1>3. CASE phase = "serving"
  BY <1>1, <1>2, <1>3 DEF BootInv, CoreUp
<1>4. CASE phase = "boot" /\ t = "boot"
  <2>1. Looping /\ idx \in 1 .. Len(Order) /\ Order[idx] = target[t]
    BY <1>1, <1>4, OrderFacts DEF BootInv, Initializing, WireTypes
  <2>2. PICK j \in 1 .. idx - 1 : Order[j] = p
    BY <1>2, <2>1
  <2>3. j \in 1 .. Len(Order) /\ j < idx
    BY <2>1, OrderFacts
  <2> QED
    BY <1>2, <2>1, <2>2, <2>3 DEF Looping
<1> QED
  BY <1>3, <1>4, InInit

\* Nor does Register find a key taken at boot.
LEMMA NoKeyTaken ==
    ASSUME WireInv, phase = "boot", pc["boot"] = "init", NEW k \in Keys,
           <<"register", k>> \in left["boot"]
    PROVE  services[k] = NoService
<1> SUFFICES ASSUME services[k] # NoService PROVE FALSE
  OBVIOUS
<1>1. Looping /\ Initializing /\ idx \in 1 .. Len(Order)
  BY OrderFacts DEF WireInv, WireTypes, BootInv, Initializing
<1>2. PICK j \in 1 .. Len(Order) : k \in Provides[Order[j]] /\ j < idx
  BY <1>1 DEF Looping
<1>3. k \in Provides[Order[idx]]
  BY <1>1 DEF Initializing
<1>4. Order[j] = Order[idx]
  BY <1>1, <1>2, <1>3, OrderFacts, KeyFacts
<1> QED
  BY <1>1, <1>2, <1>4, OrderFacts

\* An operation that registers no service.
LEMMA OtherOperation ==
    ASSUME WireInv, phase \in {"boot", "serving"}, NEW t \in Threads, pc[t] = "init",
           NEW kind \in {"get", "producer"}, NEW x,
           left' = [left EXCEPT ![t] = @ \ {<<kind, x>>}],
           UNCHANGED <<phase, idx, services, inits, pc, target>>,
           UNCHANGED <<replaceMode, overlapped, retryPanic>>
    PROVE  WireInv'
<1>1. WireTypes /\ BootInv /\ RetryInv /\ "boot" \in Threads
  BY DEF WireInv, Threads
<1>2. WireTypes'
  BY <1>1 DEF WireTypes
<1>3. \A k \in Keys : <<"register", k>> \in left'["boot"] <=> <<"register", k>> \in left["boot"]
  BY <1>1 DEF WireTypes
<1>4. BootInv'
  <2>1. Looping => Looping'
    BY <1>3 DEF Looping
  <2>2. idx <= Len(Order) /\ idx \in Nat \ {0} => Provides[Order[idx]] \subseteq Keys
    BY OrderFacts, KeyFacts
  <2>3. Initializing => Initializing'
    BY <1>1, <1>3, <2>2 DEF Initializing, WireTypes
  <2> QED
    BY <1>1, <2>1, <2>3 DEF BootInv, CoreUp
<1>5. RetryInv'
  BY <1>1, RetriesFrame
<1> QED
  BY <1>2, <1>4, <1>5 DEF WireInv

LEMMA GetKeeps ==
    ASSUME WireInv, phase \in {"boot", "serving"}, NEW t \in Threads, NEW k \in Keys,
           Get(t, k)
    PROVE  WireInv'
<1>1. pc[t] = "init" /\ ~(services[k] = NoService /\ k \in Requires[target[t]])
  BY NoServiceMissing DEF Get
<1>2. /\ Did(t, "get", k)
      /\ UNCHANGED <<idx, services, replaceMode, inits, target, overlapped>>
  BY <1>1, Zenon DEF Get
<1> QED
  BY <1>1, <1>2, OtherOperation DEF Did

LEMMA ProducerKeeps ==
    ASSUME WireInv, phase \in {"boot", "serving"}, NEW t \in Threads,
           RegisterProducer(t)
    PROVE  WireInv'
<1>1. /\ pc[t] = "init" /\ Did(t, "producer", target[t])
      /\ UNCHANGED <<idx, services, replaceMode, inits, target, overlapped>>
  BY Zenon DEF RegisterProducer
<1> QED
  BY <1>1, OtherOperation DEF Did

\* A Register that does not panic.
LEMMA RegisterKeeps ==
    ASSUME WireInv, phase \in {"boot", "serving"}, NEW t \in Threads, NEW k \in Keys,
           Register(t, k), Did(t, "register", k),
           services' = [services EXCEPT ![k] = <<target[t], inits[target[t]]>>]
    PROVE  WireInv'
<1>1. /\ WireTypes /\ BootInv /\ RetryInv /\ "boot" \in Threads
      /\ pc[t] = "init" /\ target[t] \in Modules
      /\ <<"register", k>> \in left[t]
      /\ left' = [left EXCEPT ![t] = @ \ {<<"register", k>>}]
      /\ UNCHANGED <<phase, idx, inits, pc, target>>
  BY DEF WireInv, WireTypes, Register, Did, Threads
<1>2. UNCHANGED <<replaceMode, overlapped, retryPanic>>
  BY Zenon DEF Register, Did
<1>3. <<target[t], inits[target[t]]>> \in Instance
  BY <1>1 DEF WireTypes, Instance
<1>4. /\ services'[k] # NoService
      /\ \A j \in Keys : j # k => services'[j] = services[j]
  BY <1>1, <1>3, KeyFacts DEF WireTypes
<1>5. WireTypes'
  BY <1>1, <1>3 DEF WireTypes
<1>6. BootInv'
  <2>1. CASE phase = "serving"
    BY <1>1, <1>4, <2>1, ServingFrame
  <2>2. CASE phase = "boot" /\ t = "boot"
    <3>1. Looping /\ Initializing /\ idx \in 1 .. Len(Order) /\ k \in Provides[Order[idx]]
      BY <1>1, <2>2, OrderFacts DEF BootInv, Initializing, WireTypes
    <3>2. /\ <<"register", k>> \notin left'["boot"]
          /\ \A j \in Keys : j # k =>
                (<<"register", j>> \in left'["boot"] <=> <<"register", j>> \in left["boot"])
      BY <1>1, <2>2 DEF WireTypes
    <3>3. Provides[Order[idx]] \subseteq Keys /\ \A j \in 1 .. Len(Order) : Provides[Order[j]] \subseteq Keys
      BY <3>1, OrderFacts, KeyFacts
    <3>4. Looping'
      <4>1. \A j \in 1 .. Len(Order) : j < idx /\ Order[j] \in Core =>
                \A i \in Provides[Order[j]] : services'[i] # NoService
        BY <1>4, <3>1, <3>3 DEF Looping
      <4>2. ASSUME NEW i \in Keys, services'[i] # NoService
            PROVE  \E j \in 1 .. Len(Order) :
                    /\ i \in Provides[Order[j]]
                    /\ j < idx \/ (j = idx /\ <<"register", i>> \notin left'["boot"])
        <5>1. CASE i = k
          BY <3>1, <3>2, <5>1
        <5>2. CASE i # k
          BY <1>4, <3>1, <3>2, <4>2, <5>2 DEF Looping
        <5> QED
          BY <5>1, <5>2
      <4> QED
        BY <1>1, <2>2, <4>1, <4>2 DEF Looping
    <3>5. Initializing'
      BY <1>1, <1>4, <3>1, <3>2, <3>3 DEF Initializing
    <3> QED
      BY <1>1, <2>2, <3>4, <3>5 DEF BootInv
  <2> QED
    BY <1>1, <2>1, <2>2, InInit
<1>7. RetryInv'
  BY <1>1, <1>2, RetriesFrame
<1> QED
  BY <1>5, <1>6, <1>7 DEF WireInv

\* A retry goes on to something that is no Init.
LEMMA RetryMoves ==
    ASSUME RetryInv, NEW r \in Retries, pc[r] # "idle", pc'[r] \notin {"idle", "init"},
           \A s \in Retries \ {r} : pc'[s] = pc[s],
           replaceMode' <=> replaceMode, overlapped' <=> overlapped,
           replaceMode' \in BOOLEAN, overlapped' \in BOOLEAN, retryPanic' \in BOOLEAN,
           retryPanic' => overlapped
    PROVE  RetryInv'
<1>1. \A s \in Retries : pc'[s] # "idle" <=> pc[s] # "idle"
  OBVIOUS
<1>2. \A s \in Retries : pc'[s] = "init" => pc[s] = "init"
  OBVIOUS
<1>3. ReplaceModeEnds'
  BY <1>1, Zenon DEF RetryInv, ReplaceModeEnds
<1>4. SerialRetriesDoNotPanic'
  BY Zenon DEF SerialRetriesDoNotPanic
<1>5. ~overlapped' => \A q, s \in Retries : pc'[q] # "idle" /\ pc'[s] # "idle" => q = s
  BY <1>1, Zenon DEF RetryInv
<1>6. ~overlapped' => \A s \in Retries : pc'[s] = "init" => replaceMode'
  BY <1>2, Zenon DEF RetryInv
<1> QED
  BY <1>3, <1>4, <1>5, <1>6, Zenon DEF RetryInv

\* A Register that panics does so in a retry that another one overlaps.
LEMMA RegisterPanics ==
    ASSUME WireInv, phase \in {"boot", "serving"}, NEW t \in Threads, NEW k \in Keys,
           Register(t, k), services[k] # NoService, ~replaceMode, Panic(t),
           services' = services
    PROVE  WireInv'
<1>1. /\ WireTypes /\ BootInv /\ RetryInv
      /\ pc[t] = "init" /\ <<"register", k>> \in left[t]
      /\ UNCHANGED <<idx, inits, target>>
  BY DEF WireInv, Register
<1>2. UNCHANGED <<replaceMode, overlapped>>
  BY Zenon DEF Register
<1>3. t \in Retries /\ t # "boot" /\ phase = "serving"
  BY <1>1, InInit, NoKeyTaken
<1>4. overlapped
  BY <1>1, <1>3, Zenon DEF RetryInv
<1>5. /\ phase' = phase /\ pc' = [pc EXCEPT ![t] = "replaceOff"]
      /\ left' = [left EXCEPT ![t] = {}] /\ retryPanic' = TRUE
  BY <1>3, Zenon DEF Panic, Goto
<1>6. WireTypes'
  BY <1>1, <1>5 DEF WireTypes, Labels
<1>7. /\ pc'["boot"] = pc["boot"] /\ pc'[t] = "replaceOff"
      /\ \A s \in Retries \ {t} : pc'[s] = pc[s]
  BY <1>1, <1>3, <1>5 DEF WireTypes, Threads
<1>8. BootInv'
  BY <1>3, <1>5, <1>7, ServingFrame
<1>9. RetryInv'
  <2>1. (replaceMode' <=> replaceMode) /\ (overlapped' <=> overlapped)
    BY <1>2, SMT
  <2>2. replaceMode' \in BOOLEAN /\ overlapped' \in BOOLEAN
    BY <1>1, <1>2, SMT DEF RetryInv
  <2>3. retryPanic' \in BOOLEAN
    BY <1>5
  <2> QED
    BY <1>1, <1>3, <1>4, <1>7, <2>1, <2>2, <2>3, RetryMoves
<1> QED
  BY <1>6, <1>8, <1>9 DEF WireInv

\* The booleans a retry's step leaves alone.
LEMMA BooleansStay ==
    ASSUME RetryInv, UNCHANGED <<replaceMode, overlapped, retryPanic>>
    PROVE  /\ replaceMode' <=> replaceMode
           /\ overlapped' <=> overlapped
           /\ replaceMode' \in BOOLEAN /\ overlapped' \in BOOLEAN
           /\ retryPanic' \in BOOLEAN
           /\ retryPanic' => overlapped
<1>1. replaceMode' = replaceMode /\ overlapped' = overlapped /\ retryPanic' = retryPanic
  BY Zenon
<1>2. (replaceMode' <=> replaceMode) /\ (overlapped' <=> overlapped) /\ (retryPanic' <=> retryPanic)
  BY <1>1, SMT
<1>3. replaceMode' \in BOOLEAN /\ overlapped' \in BOOLEAN /\ retryPanic' \in BOOLEAN
  BY <1>1, SMT DEF RetryInv
<1>4. retryPanic' => overlapped
  BY <1>2, Zenon DEF RetryInv, SerialRetriesDoNotPanic
<1> QED
  BY <1>2, <1>3, <1>4, Zenon

\* A retry under way moves on without another Init.
LEMMA RetryGoesOn ==
    ASSUME WireInv, NEW r \in Retries, NEW label \in Labels \ {"idle", "init", "replaceOn"},
           pc[r] # "idle", label = "append" => pc[r] = "init",
           pc' = [pc EXCEPT ![r] = label],
           DOMAIN left' = Threads, DOMAIN target' = Threads, target' = target,
           UNCHANGED <<phase, idx, services, inits, replaceMode, overlapped, retryPanic>>
    PROVE  WireInv'
<1>1. WireTypes /\ BootInv /\ RetryInv /\ r # "boot" /\ r \in Threads
  BY KeyFacts DEF WireInv, Threads
<1>2. /\ pc'["boot"] = pc["boot"] /\ pc'[r] = label
      /\ \A s \in Retries \ {r} : pc'[s] = pc[s]
  BY <1>1 DEF WireTypes, Threads
<1>3. phase = "serving"
  BY <1>1 DEF BootInv
<1>4. WireTypes'
  BY <1>1 DEF WireTypes
<1>5. BootInv'
  BY <1>2, <1>3, ServingFrame
<1>6. RetryInv'
  BY <1>1, <1>2, BooleansStay, RetryMoves
<1> QED
  BY <1>4, <1>5, <1>6 DEF WireInv

LEMMA InitFailsKeeps ==
    ASSUME WireInv, phase \in {"boot", "serving"}, NEW t \in Threads, InitFails(t)
    PROVE  WireInv'
<1>1. /\ WireTypes /\ BootInv /\ RetryInv /\ "boot" \in Threads
      /\ pc[t] = "init" /\ UNCHANGED <<services, inits, target>>
  BY DEF WireInv, InitFails, Threads
<1>2. UNCHANGED <<replaceMode, overlapped, retryPanic>>
  BY Zenon DEF InitFails
<1>3. CASE t = "boot" /\ target[t] \in Core
  <2>1. phase' = "coreFailed" /\ UNCHANGED <<idx, pc, left>>
    BY <1>3 DEF InitFails
  <2>2. WireTypes'
    BY <1>1, <2>1 DEF WireTypes, Phases
  <2>3. phase = "boot" /\ pc["boot"] = "init" /\ \A r \in Retries : pc[r] = "idle"
    BY <1>1, <1>3, InInit DEF BootInv
  <2>4. BootInv'
    BY <1>1, <2>1, <2>3 DEF BootInv
  <2>5. RetryInv'
    BY <1>1, <1>2, <2>1, RetriesFrame
  <2> QED
    BY <2>2, <2>4, <2>5 DEF WireInv
<1>4. CASE t = "boot" /\ target[t] \notin Core
  <2>1. /\ phase' = phase /\ idx' = idx + 1 /\ pc' = [pc EXCEPT !["boot"] = "idle"]
        /\ left' = [left EXCEPT !["boot"] = {}]
    BY <1>4 DEF InitFails, Goto
  <2>2. WireTypes'
    BY <1>1, <2>1 DEF WireTypes, Labels
  <2>3. phase = "boot" /\ Looping /\ Initializing /\ idx \in 1 .. Len(Order)
    BY <1>1, <1>4, InInit, OrderFacts DEF BootInv, Initializing, WireTypes
  <2>4. pc'["boot"] = "idle" /\ \A r \in Retries : pc'[r] = pc[r]
    BY <1>1, <2>1, KeyFacts DEF WireTypes, Threads
  <2>5. Looping'
    <3>1. \A j \in 1 .. Len(Order) : j < idx + 1 /\ Order[j] \in Core => j < idx
      BY <1>4, <2>3, OrderFacts DEF Initializing
    <3>2. \A j \in 1 .. Len(Order) : j < idx \/ j = idx => j < idx + 1
      BY <2>3, OrderFacts
    <3>3. \A k \in Keys : services[k] # NoService =>
              \E j \in 1 .. Len(Order) : k \in Provides[Order[j]] /\ j < idx + 1
      BY <2>3, <3>2 DEF Looping
    <3> QED
      BY <1>1, <2>1, <2>3, <3>1, <3>3 DEF Looping
  <2>6. BootInv'
    BY <1>1, <2>1, <2>3, <2>4, <2>5 DEF BootInv
  <2>7. RetryInv'
    BY <1>1, <1>2, <2>4, RetriesFrame
  <2> QED
    BY <2>2, <2>6, <2>7 DEF WireInv
<1>5. CASE t # "boot"
  <2>1. t \in Retries
    BY <1>5 DEF Threads
  <2>2. /\ UNCHANGED <<phase, idx>> /\ pc' = [pc EXCEPT ![t] = "replaceOff"]
        /\ left' = [left EXCEPT ![t] = {}]
    BY <1>5 DEF InitFails, Goto
  <2>3. DOMAIN left' = Threads /\ DOMAIN target' = Threads
    BY <1>1, <2>2 DEF WireTypes
  <2> QED
    BY <1>1, <1>2, <2>1, <2>2, <2>3, RetryGoesOn DEF Labels
<1> QED
  BY <1>3, <1>4, <1>5

\* The permissions, at boot and in retries.
LEMMA PermissionsKeep ==
    ASSUME WireInv, NEW t \in Threads, CollectPermissions(t) \/ SendPermissions(t)
    PROVE  WireInv'
<1>1. /\ WireTypes /\ BootInv /\ RetryInv /\ "boot" \in Threads
      /\ pc[t] \in {"permissions", "send"}
      /\ UNCHANGED <<phase, idx, services, inits, target, left>>
  BY DEF WireInv, CollectPermissions, SendPermissions, Threads
<1>2. UNCHANGED <<replaceMode, overlapped, retryPanic>>
  BY Zenon DEF CollectPermissions, SendPermissions, history
<1>3. PICK label \in {"send", IF t = "boot" THEN "capabilities" ELSE "replaceOff"} :
          pc' = [pc EXCEPT ![t] = label]
  BY DEF CollectPermissions, SendPermissions, Goto
<1>4. CASE t = "boot"
  <2>1. phase = "boot"
    BY <1>1, <1>4 DEF BootInv, WireTypes, Phases
  <2>2. /\ pc'["boot"] \in {"send", "capabilities"}
        /\ \A r \in Retries : pc'[r] = pc[r]
    BY <1>1, <1>3, <1>4, KeyFacts DEF WireTypes, Threads
  <2>3. WireTypes'
    BY <1>1, <1>3, <1>4 DEF WireTypes, Labels
  <2>4. BootInv'
    BY <1>1, <1>4, <2>1, <2>2, BootMoves
  <2>5. RetryInv'
    BY <1>1, <1>2, <2>2, RetriesFrame
  <2> QED
    BY <2>3, <2>4, <2>5 DEF WireInv
<1>5. CASE t # "boot"
  <2>1. t \in Retries /\ label \in {"send", "replaceOff"}
    BY <1>3, <1>5 DEF Threads
  <2>2. DOMAIN left' = Threads /\ DOMAIN target' = Threads
    BY <1>1 DEF WireTypes
  <2> QED
    BY <1>1, <1>2, <1>3, <2>1, <2>2, RetryGoesOn DEF Labels
<1> QED
  BY <1>4, <1>5

(***************************************************************************)
(* RetryInit.                                                              *)
(***************************************************************************)
LEMMA CheckFailedKeeps ==
    ASSUME WireInv, NEW r \in Retries, NEW m \in Modules, CheckFailed(r, m)
    PROVE  WireInv'
<1>1. /\ WireTypes /\ BootInv /\ RetryInv /\ r \in Threads /\ r # "boot"
      /\ phase = "serving" /\ pc[r] = "idle"
      /\ target' = [target EXCEPT ![r] = m] /\ pc' = [pc EXCEPT ![r] = "replaceOn"]
      /\ UNCHANGED <<phase, idx, services, inits, left>>
  BY KeyFacts DEF WireInv, CheckFailed, Goto, Threads
<1>2. /\ replaceMode' = replaceMode /\ retryPanic' = retryPanic
      /\ overlapped' = (overlapped \/ \E s \in Retries : pc[s] # "idle")
  BY Zenon DEF CheckFailed
<1>3. WireTypes'
  BY <1>1 DEF WireTypes, Labels
<1>4. /\ pc'["boot"] = pc["boot"] /\ pc'[r] = "replaceOn"
      /\ \A s \in Retries \ {r} : pc'[s] = pc[s]
  BY <1>1 DEF WireTypes, Threads
<1>5. BootInv'
  BY <1>1, <1>4, ServingFrame
<1>6. /\ overlapped' \in BOOLEAN /\ (overlapped => overlapped')
      /\ ~overlapped' => \A s \in Retries : pc[s] = "idle"
  <2>1. ASSUME NEW b \in BOOLEAN, b = (overlapped \/ \E s \in Retries : pc[s] # "idle")
        PROVE  (overlapped => b) /\ (~b => \A s \in Retries : pc[s] = "idle")
    BY <2>1
  <2>2. (overlapped \/ \E s \in Retries : pc[s] # "idle") \in BOOLEAN
    OBVIOUS
  <2> QED
    BY <1>2, <2>1, <2>2, Zenon
<1>7. RetryInv'
  <2>1. replaceMode' \in BOOLEAN /\ retryPanic' \in BOOLEAN
    BY <1>1, <1>2, SMT DEF RetryInv
  <2>2. ReplaceModeEnds'
    BY <1>4, Zenon DEF ReplaceModeEnds
  <2>3. SerialRetriesDoNotPanic'
    <3>1. retryPanic' <=> retryPanic
      BY <1>2, SMT
    <3> QED
      BY <1>1, <1>6, <3>1, Zenon DEF RetryInv, SerialRetriesDoNotPanic
  <2>4. ~overlapped' => \A q \in Retries : pc'[q] # "idle" => q = r
    BY <1>4, <1>6, Zenon
  <2>5. ~overlapped' => \A q \in Retries : pc'[q] # "init"
    BY <1>4, <1>6
  <2> QED
    BY <1>6, <2>1, <2>2, <2>3, <2>4, <2>5, Zenon DEF RetryInv
<1> QED
  BY <1>3, <1>5, <1>7 DEF WireInv

LEMMA ReplaceOnKeeps ==
    ASSUME WireInv, NEW r \in Retries, ReplaceOn(r)
    PROVE  WireInv'
<1>1. /\ WireTypes /\ BootInv /\ RetryInv /\ r \in Threads /\ r # "boot"
      /\ pc[r] = "replaceOn" /\ phase = "serving" /\ target[r] \in Modules
  BY KeyFacts DEF WireInv, WireTypes, BootInv, ReplaceOn, Threads
<1>2. /\ inits' = [inits EXCEPT ![target[r]] = @ + 1]
      /\ target' = [target EXCEPT ![r] = target[r]]
      /\ left' = [left EXCEPT ![r] = Operations(target[r])]
      /\ pc' = [pc EXCEPT ![r] = "init"]
      /\ UNCHANGED <<phase, idx, services>>
  BY DEF ReplaceOn, CallInit, Goto
<1>3. replaceMode' = TRUE /\ overlapped' = overlapped /\ retryPanic' = retryPanic
  BY Zenon DEF ReplaceOn, history
<1>4. WireTypes'
  BY <1>1, <1>2 DEF WireTypes, Labels
<1>5. /\ pc'["boot"] = pc["boot"] /\ pc'[r] = "init"
      /\ \A s \in Retries \ {r} : pc'[s] = pc[s]
  BY <1>1, <1>2 DEF WireTypes, Threads
<1>6. BootInv'
  BY <1>1, <1>2, <1>5, ServingFrame
<1>7. RetryInv'
  <2>1. replaceMode' \in BOOLEAN /\ overlapped' \in BOOLEAN /\ retryPanic' \in BOOLEAN
    BY <1>1, <1>3, SMT DEF RetryInv
  <2>2. replaceMode' /\ (overlapped' <=> overlapped) /\ (retryPanic' <=> retryPanic)
    BY <1>3, SMT
  <2>3. \A s \in Retries : pc'[s] # "idle" <=> pc[s] # "idle"
    BY <1>1, <1>5
  <2>4. ReplaceModeEnds'
    BY <1>5, Zenon DEF ReplaceModeEnds
  <2>5. SerialRetriesDoNotPanic'
    BY <1>1, <2>2, Zenon DEF RetryInv, SerialRetriesDoNotPanic
  <2>6. ~overlapped' => \A q, s \in Retries : pc'[q] # "idle" /\ pc'[s] # "idle" => q = s
    BY <1>1, <2>2, <2>3, Zenon DEF RetryInv
  <2> QED
    BY <2>1, <2>2, <2>4, <2>5, <2>6, Zenon DEF RetryInv
<1> QED
  BY <1>4, <1>6, <1>7 DEF WireInv

LEMMA ReplaceOffKeeps ==
    ASSUME WireInv, NEW r \in Retries, ReplaceOff(r)
    PROVE  WireInv'
<1>1. /\ WireTypes /\ BootInv /\ RetryInv /\ r \in Threads /\ r # "boot"
      /\ pc[r] = "replaceOff" /\ phase = "serving"
  BY KeyFacts DEF WireInv, BootInv, ReplaceOff, Threads
<1>2. /\ target' = [target EXCEPT ![r] = NoModule]
      /\ left' = [left EXCEPT ![r] = {}] /\ pc' = [pc EXCEPT ![r] = "idle"]
      /\ UNCHANGED <<phase, idx, services, inits>>
  BY DEF ReplaceOff, Goto, Forget
<1>3. replaceMode' = FALSE /\ overlapped' = overlapped /\ retryPanic' = retryPanic
  BY Zenon DEF ReplaceOff, history
<1>4. WireTypes'
  BY <1>1, <1>2 DEF WireTypes, Labels
<1>5. /\ pc'["boot"] = pc["boot"] /\ pc'[r] = "idle"
      /\ \A s \in Retries \ {r} : pc'[s] = pc[s]
  BY <1>1, <1>2 DEF WireTypes, Threads
<1>6. BootInv'
  BY <1>1, <1>2, <1>5, ServingFrame
<1>7. RetryInv'
  <2>1. replaceMode' \in BOOLEAN /\ overlapped' \in BOOLEAN /\ retryPanic' \in BOOLEAN
    <3>1. overlapped \in BOOLEAN /\ retryPanic \in BOOLEAN
      BY <1>1, Zenon DEF RetryInv
    <3>2. replaceMode' \in BOOLEAN
      BY <1>3, Zenon
    <3> QED
      BY <1>3, <3>1, <3>2, Zenon
  <2>2. ~replaceMode' /\ (overlapped' <=> overlapped) /\ (retryPanic' <=> retryPanic)
    BY <1>3, SMT
  <2>3. ReplaceModeEnds'
    BY <2>2, Zenon DEF ReplaceModeEnds
  <2>4. SerialRetriesDoNotPanic'
    BY <1>1, <2>2, Zenon DEF RetryInv, SerialRetriesDoNotPanic
  <2>5. ~overlapped => \A s \in Retries : pc[s] # "idle" => s = r
    BY <1>1 DEF RetryInv
  <2>6. ~overlapped' => \A s \in Retries : pc'[s] = "idle"
    BY <1>5, <2>2, <2>5, Zenon
  <2>7. ~overlapped' => \A q, s \in Retries : pc'[q] # "idle" /\ pc'[s] # "idle" => q = s
    BY <2>6, Zenon
  <2>8. ~overlapped' => \A s \in Retries : pc'[s] # "init"
    BY <2>6
  <2> QED
    BY <2>1, <2>3, <2>4, <2>7, <2>8, Zenon DEF RetryInv
<1> QED
  BY <1>4, <1>6, <1>7 DEF WireInv

\* The two halves of the append.
LEMMA AppendKeeps ==
    ASSUME WireInv, NEW r \in Retries, RetryInitDone(r) \/ AppendInitialized(r)
    PROVE  WireInv'
<1>1. /\ UNCHANGED <<phase, idx, services, inits, target, left>>
      /\ pc[r] \in {"init", "append"}
      /\ pc' = [pc EXCEPT ![r] = IF pc[r] = "init" THEN "append" ELSE "permissions"]
  BY DEF RetryInitDone, AppendInitialized, Goto
<1>2. UNCHANGED <<replaceMode, overlapped, retryPanic>>
  BY Zenon DEF RetryInitDone, AppendInitialized, history
<1>3. DOMAIN left' = Threads /\ DOMAIN target' = Threads
  BY <1>1 DEF WireInv, WireTypes
<1> QED
  BY <1>1, <1>2, <1>3, RetryGoesOn DEF Labels

(***************************************************************************)
(* The theorems.                                                           *)
(***************************************************************************)
LEMMA StandsStill ==
    ASSUME WireInv, UNCHANGED <<phase, idx, services, inits, pc, target, left>>,
           UNCHANGED <<replaceMode, overlapped, retryPanic>>
    PROVE  WireInv'
<1>1. WireTypes /\ BootInv /\ RetryInv
  BY DEF WireInv
<1>2. WireTypes'
  BY <1>1 DEF WireTypes
<1>3. BootInv'
  BY <1>1 DEF BootInv, Looping, Initializing, CoreUp
<1>4. RetryInv'
  BY <1>1, RetriesFrame
<1> QED
  BY <1>2, <1>3, <1>4 DEF WireInv

LEMMA StepInv == WireInv /\ [Next]_vars => WireInv'
<1> SUFFICES ASSUME WireInv, [Next]_vars PROVE WireInv'
  OBVIOUS
<1>1. CASE BootInit \/ BootInitDone \/ BootInitsDone \/ RegisterCapabilities \/ StartAll
  BY <1>1, BootInitKeeps, BootInitDoneKeeps, BootInitsDoneKeeps,
     RegisterCapabilitiesKeeps, StartAllKeeps, Zenon
<1>2. ASSUME phase \in {"boot", "serving"}, NEW t \in Threads, NEW k \in Keys,
             Register(t, k)
      PROVE  WireInv'
  <2>1. CASE services[k] # NoService /\ ~replaceMode
    <3>1. Panic(t) /\ services' = services
      BY <1>2, <2>1, Zenon DEF Register
    <3> QED
      BY <1>2, <2>1, <3>1, RegisterPanics, Zenon
  <2>2. CASE ~(services[k] # NoService /\ ~replaceMode)
    <3>1. /\ Did(t, "register", k)
          /\ services' = [services EXCEPT ![k] = <<target[t], inits[target[t]]>>]
      BY <1>2, <2>2, Zenon DEF Register
    <3> QED
      BY <1>2, <3>1, RegisterKeeps, Zenon
  <2> QED
    BY <2>1, <2>2
<1>3. ASSUME phase \in {"boot", "serving"}, NEW t \in Threads,
             \/ \E k \in Keys : Get(t, k) \/ Register(t, k)
             \/ RegisterProducer(t) \/ InitFails(t)
             \/ CollectPermissions(t) \/ SendPermissions(t)
      PROVE  WireInv'
  BY <1>2, <1>3, GetKeeps, ProducerKeeps, InitFailsKeeps, PermissionsKeep, Zenon
<1>4. ASSUME NEW r \in Retries,
             \/ \E m \in Modules : CheckFailed(r, m)
             \/ ReplaceOn(r) \/ RetryInitDone(r) \/ AppendInitialized(r)
             \/ ReplaceOff(r)
      PROVE  WireInv'
  BY <1>4, CheckFailedKeeps, ReplaceOnKeeps, AppendKeeps, ReplaceOffKeeps, Zenon
<1>5. ASSUME NEW m \in Modules, ForgetFailure(m) PROVE WireInv'
  BY <1>5, StandsStill, Zenon DEF ForgetFailure, threads, history
<1>6. CASE UNCHANGED vars
  BY <1>6, StandsStill, Zenon DEF vars, threads, history
<1> QED
  BY <1>1, <1>3, <1>4, <1>5, <1>6, Zenon DEF Next

LEMMA WireInvariant == Spec => []WireInv
BY InitInv, StepInv, PTL DEF Spec

\* The boot does not end in a panic, wherever the Inits of addons fail.
THEOREM BootDoesNotPanic == Spec => []NoBootPanic
<1>1. WireInv => NoBootPanic
  BY DEF WireInv, BootInv, NoBootPanic
<1> QED
  BY WireInvariant, <1>1, PTL

\* Replace mode is on only while a retry is under way.
THEOREM ReplaceModeIsOver == Spec => []ReplaceModeEnds
<1>1. WireInv => ReplaceModeEnds
  BY DEF WireInv, RetryInv
<1> QED
  BY WireInvariant, <1>1, PTL

\* A retry that no other one has overlapped never panics in Register or
\* MustGet.
THEOREM RetriesOneAtATime == Spec => []SerialRetriesDoNotPanic
<1>1. WireInv => SerialRetriesDoNotPanic
  BY DEF WireInv, RetryInv
<1> QED
  BY WireInvariant, <1>1, PTL
=============================================================================
