------------------------- MODULE ConfigSeedingProofs -------------------------
(***************************************************************************)
(* Where settings come from, for any modules, schemas, profiles, process   *)
(* environments and encryption keys, any number of restarts and any calls  *)
(* that fail.  What a step does to the document of one module is said      *)
(* once, by DocStep; each property follows from it.                        *)
(***************************************************************************)
EXTENDS ConfigSeeding, TLAPS

(***************************************************************************)
(* The document of a first boot.                                           *)
(***************************************************************************)
LEMMA ProcessTypes ==
    ASSUME process \in Processes
    PROVE  /\ process.binary \subseteq Keys
           /\ process.env \in [Keys -> Raw]
           /\ process.cipher \in CipherKeys \cup {NoCipher}
<1>1. process \in Process
    BY SeedingAssumption
<1> QED
    BY <1>1 DEF Process

\* The empty string is not a sealed secret.
LEMMA EmptyApart ==
    /\ Empty \notin Sealed
    /\ \A v \in Values, c \in CipherKeys \cup {NoCipher} : <<v, c>> # Empty
BY SeedingAssumption DEF Sealed

\* An env var or a default is a raw value.
LEMMA FromEnvRaw ==
    ASSUME process \in Processes, NEW k \in Keys
    PROVE  FromEnv(k) \in Raw /\ (FromEnv(k) # Empty => FromEnv(k) \in Values)
BY ProcessTypes, SeedingAssumption DEF FromEnv, Raw

\* What is seeded for a key: never a secret in the clear.
LEMMA SeededType ==
    ASSUME process \in Processes, NEW k \in Keys
    PROVE  SeededValue(k) \in IF k \in Secret THEN Sealed \cup {Empty} ELSE Raw
<1>1. CASE k \notin Secret
    BY <1>1, FromEnvRaw DEF SeededValue
<1>2. CASE k \in Secret /\ process.cipher = NoCipher
    BY <1>2, FromEnvRaw DEF SeededValue
<1>3. CASE k \in Secret /\ process.cipher # NoCipher
    BY <1>3, FromEnvRaw, ProcessTypes DEF SeededValue, Sealed
<1> QED
    BY <1>1, <1>2, <1>3

LEMMA InitialStored ==
    ASSUME process \in Processes, NEW m \in Known, NEW e \in Environments, NEW k \in Keys
    PROVE  /\ InitialDoc(m).stored[e][k] =
                IF e = "production" /\ k \in Schema(m) THEN SeededValue(k) ELSE Empty
           /\ InitialDoc(m).stored[e][k] \in
                IF k \in Secret THEN Sealed \cup {Empty} ELSE Raw
<1>1. InitialDoc(m).stored[e][k] =
        IF e = "production" /\ k \in Schema(m) THEN SeededValue(k) ELSE Empty
    BY DEF InitialDoc
<1> QED
    BY <1>1, SeededType DEF Raw

LEMMA InitialDocType ==
    ASSUME process \in Processes, NEW m \in Known
    PROVE  /\ InitialDoc(m) \in Doc
           /\ InitialDoc(m).schema = Schema(m) /\ Schema(m) \subseteq ModuleKeys[m]
           /\ InitialDoc(m).enabled <=> InitialEnabled(m)
           /\ InitialDoc(m).active = "production"
<1>1. /\ InitialDoc(m).schema = Schema(m) /\ InitialDoc(m).active = "production"
      /\ InitialDoc(m).enabled <=> InitialEnabled(m)
    BY DEF InitialDoc
<1>2. Schema(m) \subseteq ModuleKeys[m] /\ Schema(m) \subseteq Keys
    BY SeedingAssumption DEF Schema
<1>3. InitialEnabled(m) \in BOOLEAN
    <2>1. \/ InitialEnabled(m) = (m \in ProfileOverride)
          \/ InitialEnabled(m) = (m \in EnabledByDefault)
        BY DEF InitialEnabled
    <2>2. (m \in ProfileOverride) \in BOOLEAN /\ (m \in EnabledByDefault) \in BOOLEAN
        OBVIOUS
    <2> QED
        BY <2>1, <2>2
<1>4. \A e \in Environments, k \in Keys :
        (IF e = "production" /\ k \in Schema(m) THEN SeededValue(k) ELSE Empty)
            \in Raw \cup Sealed
    BY SeededType DEF Raw
<1>5. InitialDoc(m) \in Doc
    <2> DEFINE stored == [e \in Environments |-> [k \in Keys |->
                            IF e = "production" /\ k \in Schema(m)
                            THEN SeededValue(k) ELSE Empty]]
    <2>1. stored \in [Environments -> [Keys -> Raw \cup Sealed]]
        BY <1>4
    <2>2. InitialDoc(m) = [enabled |-> InitialEnabled(m), schema |-> Schema(m),
                           active |-> "production", stored |-> stored]
        BY DEF InitialDoc
    <2> HIDE DEF stored
    <2>3. \A b \in BOOLEAN :
            [enabled |-> b, schema |-> Schema(m), active |-> "production",
             stored |-> stored] \in Doc
        BY <1>2, <2>1 DEF Doc, Environments
    <2> QED
        BY <1>3, <2>2, <2>3
<1> QED
    BY <1>1, <1>2, <1>5

\* What the accessors make of a value: a raw value, and not the empty
\* string if there is a value, an env var or a default.
LEMMA ReadRaw ==
    ASSUME process \in Processes, NEW d \in Doc, NEW k \in Keys,
           Stored(d, k) \in IF k \in Secret THEN Sealed \cup {Empty} ELSE Raw
    PROVE  /\ Read(d, k) \in Raw
           /\ k \in d.schema /\ FromEnv(k) # Empty => Read(d, k) # Empty
<1>1. SchemaFallback(d, k) \in Raw
    BY FromEnvRaw DEF SchemaFallback, Raw
<1>2. k \in d.schema => SchemaFallback(d, k) = FromEnv(k)
    BY DEF SchemaFallback
<1>3. d # NoDoc
    BY SeedingAssumption
<1>4. CASE k \notin Secret
    BY <1>1, <1>2, <1>3, <1>4 DEF Read, GetValue
<1>5. CASE k \in Secret
    <2>1. Decrypt(Stored(d, k)) # Failed => Decrypt(Stored(d, k)) \in Values
        BY DEF Decrypt
    <2> QED
        BY <1>1, <1>2, <1>3, <1>5, <2>1, SeedingAssumption DEF Read, GetSecret, Raw
<1> QED
    BY <1>4, <1>5

\* The value x stored for k is where r, what the accessors gave, comes from.
Carries(k, x, r) ==
    /\ k \notin Secret => x = r
    /\ k \in Secret /\ x \in Sealed => x[1] = r

LEMMA InitialCarries ==
    ASSUME process \in Processes, NEW m \in Known, NEW k \in Keys,
           Read(InitialDoc(m), k) # Empty
    PROVE  Carries(k, InitialDoc(m).stored["production"][k], Read(InitialDoc(m), k))
<1> DEFINE d == InitialDoc(m)
           x == InitialDoc(m).stored["production"][k]
<1>1. /\ d \in Doc /\ d # NoDoc /\ d.schema = Schema(m)
      /\ Stored(d, k) = x
    BY InitialDocType, SeedingAssumption DEF Stored
<1>2. /\ x = IF k \in Schema(m) THEN SeededValue(k) ELSE Empty
      /\ x \in IF k \in Secret THEN Sealed \cup {Empty} ELSE Raw
    BY InitialStored DEF Environments
<1>3. CASE k \notin Secret
    <2>1. Read(d, k) = IF x # Empty THEN x ELSE SchemaFallback(d, k)
        BY <1>1, <1>3 DEF Read, GetValue
    <2>2. x = Empty => SchemaFallback(d, k) = Empty
        BY <1>1, <1>2, <1>3 DEF SchemaFallback, SeededValue
    <2> HIDE DEF d, x
    <2>3. Carries(k, x, Read(d, k))
        BY <1>3, <2>1, <2>2 DEF Carries, d
    <2> QED
        BY <2>3 DEF d, x
<1>4. CASE k \in Secret /\ x \in Sealed
    <2>1. x # Empty
        BY <1>4, EmptyApart
    <2>2. FromEnv(k) \in Values /\ x = <<FromEnv(k), process.cipher>>
        BY <1>2, <1>4, <2>1, FromEnvRaw DEF SeededValue
    <2>3. Decrypt(x) = FromEnv(k) /\ x[1] = FromEnv(k)
        BY <2>2 DEF Decrypt
    <2>4. Read(d, k) = FromEnv(k)
        BY <1>1, <1>4, <2>1, <2>2, <2>3, SeedingAssumption DEF Read, GetSecret
    <2> QED
        BY <1>4, <2>3, <2>4 DEF Carries
<1> QED
    BY <1>3, <1>4 DEF Carries

(***************************************************************************)
(* What a step does to the document of m and to what is recorded of it.    *)
(***************************************************************************)
\* An update of one field leaves the others.
LEMMA DocFields ==
    ASSUME NEW d \in Doc
    PROVE  /\ \A S \in SUBSET Keys :
                LET n == [d EXCEPT !.schema = S]
                IN  /\ n \in Doc /\ n.schema = S
                    /\ n.enabled = d.enabled /\ n.active = d.active
                    /\ n.stored = d.stored
           /\ \A b \in BOOLEAN :
                LET n == [d EXCEPT !.enabled = b]
                IN  /\ n \in Doc /\ n.schema = d.schema
                    /\ n.active = d.active /\ n.stored = d.stored
           /\ \A e \in Environments :
                LET n == [d EXCEPT !.active = e]
                IN  /\ n \in Doc /\ n.schema = d.schema
                    /\ n.enabled = d.enabled /\ n.stored = d.stored
           /\ \A e \in Environments, row \in [Keys -> Raw \cup Sealed] :
                LET n == [d EXCEPT !.stored[e] = row]
                IN  /\ n \in Doc /\ n.schema = d.schema
                    /\ n.enabled = d.enabled /\ n.active = d.active
                    /\ \A f \in Environments :
                        n.stored[f] = IF f = e THEN row ELSE d.stored[f]
<1>1. \A S \in SUBSET Keys :
        LET n == [d EXCEPT !.schema = S]
        IN  /\ n \in Doc /\ n.schema = S
            /\ n.enabled = d.enabled /\ n.active = d.active
            /\ n.stored = d.stored
    BY DEF Doc
<1>2. \A b \in BOOLEAN :
        LET n == [d EXCEPT !.enabled = b]
        IN  /\ n \in Doc /\ n.schema = d.schema
            /\ n.active = d.active /\ n.stored = d.stored
    BY DEF Doc
<1>3. \A e \in Environments :
        LET n == [d EXCEPT !.active = e]
        IN  /\ n \in Doc /\ n.schema = d.schema
            /\ n.enabled = d.enabled /\ n.stored = d.stored
    BY DEF Doc
<1>4. \A e \in Environments, row \in [Keys -> Raw \cup Sealed] :
        LET n == [d EXCEPT !.stored[e] = row]
        IN  /\ n \in Doc /\ n.schema = d.schema
            /\ n.enabled = d.enabled /\ n.active = d.active
            /\ \A f \in Environments :
                n.stored[f] = IF f = e THEN row ELSE d.stored[f]
    <2> SUFFICES ASSUME NEW e \in Environments, NEW row \in [Keys -> Raw \cup Sealed]
                 PROVE  LET n == [d EXCEPT !.stored[e] = row]
                        IN  /\ n \in Doc /\ n.schema = d.schema
                            /\ n.enabled = d.enabled /\ n.active = d.active
                            /\ \A f \in Environments :
                                n.stored[f] = IF f = e THEN row ELSE d.stored[f]
        OBVIOUS
    <2> DEFINE s == [d.stored EXCEPT ![e] = row]
               n == [d EXCEPT !.stored[e] = row]
    <2>1. d.stored \in [Environments -> [Keys -> Raw \cup Sealed]]
        BY DEF Doc
    <2>2. /\ s \in [Environments -> [Keys -> Raw \cup Sealed]]
          /\ \A f \in Environments : s[f] = IF f = e THEN row ELSE d.stored[f]
        BY <2>1
    <2>3. n = [d EXCEPT !.stored = s]
        BY DEF Doc
    <2> HIDE DEF s, n
    <2>4. /\ n \in Doc /\ n.schema = d.schema /\ n.stored = s
          /\ n.enabled = d.enabled /\ n.active = d.active
        BY <2>2, <2>3 DEF Doc
    <2>5. \A f \in Environments : n.stored[f] = IF f = e THEN row ELSE d.stored[f]
        BY <2>2, <2>4
    <2> QED
        BY <2>4, <2>5 DEF n
<1> QED
    BY <1>1, <1>2, <1>3, <1>4

\* What the history says of m, apart from its toggles and its edits.
SameBirth(m) == origin'[m] = origin[m] /\ firstRead'[m] = firstRead[m]

SameEdits(m) == \A k \in Keys : <<m, k>> \in edited' <=> <<m, k>> \in edited

SameHistory(m) ==
    SameBirth(m) /\ (m \in toggled' <=> m \in toggled) /\ SameEdits(m)

Created(m) ==
    /\ docs'[m] = InitialDoc(m)
    /\ phase = "boot" => docs[m] = NoDoc
    /\ process' = process
    /\ origin'[m] = process.profile
    /\ firstRead'[m] = [k \in Keys |-> Read(InitialDoc(m), k)]

Refreshed(m) ==
    /\ docs[m] # NoDoc
    /\ docs'[m] = [docs[m] EXCEPT !.schema = Schema(m)]
    /\ process' = process
    /\ SameHistory(m)

Toggled(m) ==
    /\ docs[m] # NoDoc /\ phase = "serving"
    /\ \E b \in BOOLEAN : docs'[m] = [docs[m] EXCEPT !.enabled = b]
    /\ process' = process
    /\ SameBirth(m) /\ m \in toggled' /\ SameEdits(m)

Edited(m) ==
    /\ docs[m] # NoDoc /\ phase = "serving"
    /\ \E e \in Environments, row \in [Keys -> Raw \cup Sealed] :
        /\ docs'[m] = [docs[m] EXCEPT !.stored[e] = row]
        /\ \A k \in Keys :
            /\ row[k] \in IF k \in Secret THEN Sealed \cup {Empty} ELSE Raw
            /\ <<m, k>> \in edited \/ row[k] # docs[m].stored[e][k] => <<m, k>> \in edited'
    /\ process' = process
    /\ SameBirth(m) /\ (m \in toggled' <=> m \in toggled)

Switched(m) ==
    /\ docs[m] # NoDoc /\ phase = "serving"
    /\ \E e \in Environments : docs'[m] = [docs[m] EXCEPT !.active = e]
    /\ process' = process
    /\ SameHistory(m)

DocStep(m) ==
    \/ docs'[m] = docs[m] /\ SameHistory(m)
    \/ docs'[m] = NoDoc /\ phase = "serving"
    \/ Created(m) \/ Refreshed(m) \/ Toggled(m) \/ Edited(m) \/ Switched(m)

\* An upsert creates one document and leaves the others.
LEMMA UpsertStep ==
    ASSUME TypeOK, NEW u \in Known, Upsert(u), process' = process,
           phase = "boot" => docs[u] = NoDoc, NEW m \in Known
    PROVE  DocStep(m)
<1>1. /\ DOMAIN docs = Known /\ DOMAIN origin = Known
      /\ DOMAIN firstRead = Known
    BY DEF TypeOK
<1>2. CASE m = u
    <2>1. docs'[m] = InitialDoc(m)
        BY <1>1, <1>2 DEF Upsert
    <2>2. firstRead'[m] = [k \in Keys |-> Read(InitialDoc(m), k)]
        BY <1>1, <1>2 DEF Upsert
    <2>3. origin'[m] = process.profile
        BY <1>1, <1>2 DEF Upsert
    <2>4. phase = "boot" => docs[m] = NoDoc
        BY <1>2
    <2>5. Created(m)
        BY <2>1, <2>2, <2>3, <2>4 DEF Created
    <2> QED
        BY <2>5 DEF DocStep
<1>3. CASE m # u
    BY <1>1, <1>3 DEF Upsert, DocStep, SameHistory, SameBirth, SameEdits
<1> QED
    BY <1>2, <1>3

\* The documents keep their shape, and no secret is ever stored in the
\* clear.
DocType(d, m) ==
    /\ d \in Doc /\ d.schema \subseteq ModuleKeys[m]
    /\ \A e \in Environments, k \in Keys :
        d.stored[e][k] \in IF k \in Secret THEN Sealed \cup {Empty} ELSE Raw

LEMMA DocTyped ==
    ASSUME TypeOK, NEW m \in Known, docs[m] # NoDoc
    PROVE  DocType(docs[m], m)
BY DEF TypeOK, DocType

\* What is sent is stored raw, or sealed if it is a secret.
LEMMA SentType ==
    ASSUME process \in Processes, NEW m \in Known, NEW k \in Keys, NEW v \in Values,
           Accepted(m, k)
    PROVE  Sent(k, v) \in IF k \in Secret THEN Sealed \cup {Empty} ELSE Raw
BY ProcessTypes DEF Sent, Accepted, Sealed, Raw

\* An edit rewrites one environment of one document, and what it changes
\* there is recorded.
LEMMA EditStep ==
    ASSUME TypeOK, NEW n \in Known, NEW e \in Environments, docs[n] # NoDoc,
           NEW row \in [Keys -> Raw \cup Sealed], NEW K \in SUBSET Keys,
           \A k \in Keys :
                /\ row[k] \in IF k \in Secret THEN Sealed \cup {Empty} ELSE Raw
                /\ row[k] # docs[n].stored[e][k] => k \in K,
           docs' = [docs EXCEPT ![n].stored[e] = row],
           edited' = edited \cup ({n} \X K), Update, UNCHANGED toggled,
           NEW m \in Known
    PROVE  DocStep(m)
<1>1. DOMAIN docs = Known
    BY DEF TypeOK
<1>2. SameBirth(m) /\ (m \in toggled' <=> m \in toggled) /\ process' = process
    BY DEF Update, SameBirth
<1>3. CASE m = n
    <2>1. docs'[m] = [docs[m] EXCEPT !.stored[e] = row]
        BY <1>1, <1>3
    <2>2. \A k \in Keys :
            <<m, k>> \in edited \/ row[k] # docs[m].stored[e][k] => <<m, k>> \in edited'
        BY <1>3
    <2>3. phase = "serving" /\ docs[m] # NoDoc
        BY <1>3 DEF Update
    <2>4. \A k \in Keys : row[k] \in IF k \in Secret THEN Sealed \cup {Empty} ELSE Raw
        OBVIOUS
    <2>5. Edited(m)
        <3>1. \E f \in Environments, r \in [Keys -> Raw \cup Sealed] :
                /\ docs'[m] = [docs[m] EXCEPT !.stored[f] = r]
                /\ \A k \in Keys :
                    /\ r[k] \in IF k \in Secret THEN Sealed \cup {Empty} ELSE Raw
                    /\ <<m, k>> \in edited \/ r[k] # docs[m].stored[f][k] => <<m, k>> \in edited'
            <4> WITNESS e \in Environments, row \in [Keys -> Raw \cup Sealed]
            <4> QED
                BY <2>1, <2>2, <2>4
        <3> QED
            BY <1>2, <2>3, <3>1 DEF Edited
    <2> QED
        BY <2>5 DEF DocStep
<1>4. CASE m # n
    <2>1. docs'[m] = docs[m]
        BY <1>1, <1>4
    <2>2. SameEdits(m)
        BY <1>4 DEF SameEdits
    <2> QED
        BY <1>2, <2>1, <2>2 DEF DocStep, SameHistory
<1> QED
    BY <1>3, <1>4

\* Requests that found a document missing end with the process.
Quiet == phase = "boot" => seeding = {}

LEMMA StepOnDoc ==
    ASSUME TypeOK, Quiet, [Next]_vars, NEW m \in Known
    PROVE  DocStep(m)
<1>1. DOMAIN docs = Known
    BY DEF TypeOK
<1>2. CASE SeedFromModules
    <2>1. PICK s \in Known : s = Registered[idx]
        <3>1. idx \in 1 .. Len(Registered) /\ Registered \in Seq(Known)
            BY <1>2, SeedingAssumption DEF TypeOK, SeedFromModules
        <3> QED
            BY <3>1
    <2>2. CASE docs[s] = NoDoc /\ Upsert(s)
        BY <1>2, <2>2, UpsertStep DEF SeedFromModules
    <2>3. CASE docs[s] # NoDoc /\ docs' = [docs EXCEPT ![s].schema = Schema(s)] /\ UNCHANGED history
        <3>1. CASE m = s
            <4>1. docs'[m] = [docs[m] EXCEPT !.schema = Schema(m)]
                BY <1>1, <2>3, <3>1
            <4> QED
                BY <1>2, <2>3, <3>1, <4>1
                DEF SeedFromModules, DocStep, Refreshed, SameHistory, SameBirth, SameEdits, history
        <3>2. CASE m # s
            BY <1>1, <2>3, <3>2 DEF DocStep, SameHistory, SameBirth, SameEdits, history
        <3> QED
            BY <3>1, <3>2
    <2>4. CASE UNCHANGED <<docs, history>>
        BY <2>4 DEF DocStep, SameHistory, SameBirth, SameEdits, history
    <2> QED
        BY <1>2, <2>1, <2>2, <2>3, <2>4 DEF SeedFromModules
<1>3. CASE \E n \in Known : LazySeed(n)
    <2>1. PICK n \in Known : LazySeed(n)
        BY <1>3
    <2>2. phase # "boot"
        BY <2>1 DEF LazySeed, Quiet
    <2>3. CASE Upsert(n)
        BY <2>1, <2>2, <2>3, UpsertStep DEF LazySeed
    <2>4. CASE UNCHANGED <<docs, history>>
        BY <2>4 DEF DocStep, SameHistory, SameBirth, SameEdits, history
    <2> QED
        BY <2>1, <2>3, <2>4 DEF LazySeed
<1>4. CASE \E n \in Known, b \in BOOLEAN : UpdateEnabled(n, b)
    <2>1. PICK n \in Known, b \in BOOLEAN : UpdateEnabled(n, b)
        BY <1>4
    <2>2. CASE m = n
        <3>1. docs'[m] = [docs[m] EXCEPT !.enabled = b]
            BY <1>1, <2>1, <2>2 DEF UpdateEnabled
        <3> QED
            BY <2>1, <2>2, <3>1
            DEF UpdateEnabled, Update, DocStep, Toggled, SameBirth, SameEdits
    <2>3. CASE m # n
        BY <1>1, <2>1, <2>3
        DEF UpdateEnabled, Update, DocStep, SameHistory, SameBirth, SameEdits
    <2> QED
        BY <2>2, <2>3
<1>5. CASE \E n \in Known, e \in Environments : SetActiveEnvironment(n, e)
    <2>1. PICK n \in Known, e \in Environments : SetActiveEnvironment(n, e)
        BY <1>5
    <2>2. CASE m = n
        <3>1. docs'[m] = [docs[m] EXCEPT !.active = e]
            BY <1>1, <2>1, <2>2 DEF SetActiveEnvironment
        <3> QED
            BY <2>1, <2>2, <3>1
            DEF SetActiveEnvironment, Update, DocStep, Switched, SameHistory,
                SameBirth, SameEdits
    <2>3. CASE m # n
        BY <1>1, <2>1, <2>3
        DEF SetActiveEnvironment, Update, DocStep, SameHistory, SameBirth, SameEdits
    <2> QED
        BY <2>2, <2>3
<1>6. CASE \E n \in Known, e \in Environments, k \in Keys, v \in Values : StoreSetting(n, e, k, v)
    <2>1. PICK n \in Known, e \in Environments, k \in Keys, v \in Values : StoreSetting(n, e, k, v)
        BY <1>6
    <2>2. Sent(k, v) \in IF k \in Secret THEN Sealed \cup {Empty} ELSE Raw
        BY <2>1, SentType DEF TypeOK, StoreSetting
    <2>3. DocType(docs[n], n) /\ docs[n].stored \in [Environments -> [Keys -> Raw \cup Sealed]]
        BY <2>1, DocTyped DEF StoreSetting, Accepted, DocType, Doc
    <2>4. PICK row \in [Keys -> Raw \cup Sealed] :
            row = [docs[n].stored[e] EXCEPT ![k] = Sent(k, v)]
        BY <2>2, <2>3 DEF Raw
    <2>5. docs' = [docs EXCEPT ![n].stored[e] = row]
        BY <2>1, <2>4 DEF StoreSetting
    <2>6. edited' = edited \cup {<<n, k>>} /\ Update /\ UNCHANGED toggled
        BY <2>1 DEF StoreSetting
    <2>7. edited' = edited \cup ({n} \X {k})
        BY <2>6
    <2>8. \A l \in Keys :
            /\ row[l] \in IF l \in Secret THEN Sealed \cup {Empty} ELSE Raw
            /\ row[l] # docs[n].stored[e][l] => l \in {k}
        BY <2>2, <2>3, <2>4 DEF DocType
    <2>9. docs[n] # NoDoc /\ {k} \in SUBSET Keys
        BY <2>1 DEF StoreSetting, Accepted
    <2> QED
        BY <2>5, <2>6, <2>7, <2>8, <2>9, EditStep
<1>10. CASE \E n \in Known, k \in Keys, v \in Values : UpdateModule(n, k, v)
    <2>1. PICK n \in Known, k \in Keys, v \in Values : UpdateModule(n, k, v)
        BY <1>10
    <2>2. Sent(k, v) \in IF k \in Secret THEN Sealed \cup {Empty} ELSE Raw
        BY <2>1, SentType DEF TypeOK, UpdateModule
    <2>3. /\ DocType(docs[n], n) /\ docs[n].active \in Environments
          /\ docs[n].stored \in [Environments -> [Keys -> Raw \cup Sealed]]
        BY <2>1, DocTyped DEF UpdateModule, Accepted, DocType, Doc
    <2>4. PICK e \in Environments : e = docs[n].active
        BY <2>3
    <2>5. PICK row \in [Keys -> Raw \cup Sealed] :
            row = [l \in Keys |-> IF l = k THEN Sent(k, v)
                                  ELSE IF l \in Secret THEN Empty
                                  ELSE docs[n].stored[e][l]]
        BY <2>2, <2>3 DEF Raw
    <2>6. docs' = [docs EXCEPT ![n].stored[e] = row]
        BY <2>1, <2>4, <2>5 DEF UpdateModule
    <2>7. edited' = edited \cup ({n} \X (Secret \cup {k})) /\ Update /\ UNCHANGED toggled
        BY <2>1 DEF UpdateModule
    <2>8. \A l \in Keys :
            /\ row[l] \in IF l \in Secret THEN Sealed \cup {Empty} ELSE Raw
            /\ row[l] # docs[n].stored[e][l] => l \in Secret \cup {k}
        BY <2>2, <2>3, <2>5 DEF DocType
    <2>9. docs[n] # NoDoc /\ Secret \cup {k} \in SUBSET Keys
        BY <2>1, SeedingAssumption DEF UpdateModule, Accepted
    <2> QED
        BY <2>6, <2>7, <2>8, <2>9, EditStep
<1>7. CASE Wipe
    BY <1>7 DEF Wipe, DocStep
<1>8. CASE UNCHANGED <<docs, history>>
    BY <1>8 DEF DocStep, SameHistory, SameBirth, SameEdits, history
<1>9. CASE SeedDone \/ Restart \/ UNCHANGED vars \/ \E n \in Known : FindMissing(n)
    BY <1>8, <1>9 DEF SeedDone, Restart, FindMissing, vars
<1> QED
    BY <1>2, <1>3, <1>4, <1>5, <1>6, <1>7, <1>9, <1>10 DEF Next

(***************************************************************************)
(* Types.                                                                  *)
(***************************************************************************)
LEMMA DocTypeKept ==
    ASSUME process \in Processes, NEW m \in Known, DocStep(m),
           docs[m] # NoDoc => DocType(docs[m], m)
    PROVE  docs'[m] = NoDoc \/ DocType(docs'[m], m)
<1>1. CASE docs'[m] \in {docs[m], NoDoc}
    BY <1>1
<1>2. CASE Created(m)
    BY <1>2, InitialDocType, InitialStored DEF Created, DocType
<1>3. CASE Refreshed(m)
    <2>1. Schema(m) \in SUBSET Keys /\ Schema(m) \subseteq ModuleKeys[m]
        BY SeedingAssumption DEF Schema
    <2> QED
        BY <1>3, <2>1, DocFields DEF Refreshed, DocType
<1>4. CASE Toggled(m)
    BY <1>4, DocFields DEF Toggled, DocType
<1>5. CASE Edited(m)
    <2>1. PICK e \in Environments, row \in [Keys -> Raw \cup Sealed] :
            /\ docs'[m] = [docs[m] EXCEPT !.stored[e] = row]
            /\ \A k \in Keys :
                row[k] \in IF k \in Secret THEN Sealed \cup {Empty} ELSE Raw
        BY <1>5 DEF Edited
    <2>2. DocType(docs[m], m)
        BY <1>5 DEF Edited
    <2>3. /\ docs'[m] \in Doc /\ docs'[m].schema = docs[m].schema
          /\ \A f \in Environments :
                docs'[m].stored[f] = IF f = e THEN row ELSE docs[m].stored[f]
        BY <2>1, <2>2, DocFields DEF DocType
    <2> QED
        BY <2>1, <2>2, <2>3 DEF DocType
<1>6. CASE Switched(m)
    BY <1>6, DocFields DEF Switched, DocType
<1> QED
    BY <1>1, <1>2, <1>3, <1>4, <1>5, <1>6 DEF DocStep

Types == TypeOK /\ Quiet

LEMMA TypesInit == Init => Types
<1> SUFFICES ASSUME Init PROVE Types
    OBVIOUS
<1>1. Len(Registered) \in Nat
    BY SeedingAssumption
<1>2. DOMAIN origin = Known
    BY DEF Init
<1>3. firstRead \in [Known -> [Keys -> Raw]]
    BY DEF Init, Raw
<1>4. docs \in [Known -> Doc \cup {NoDoc}] /\ \A m \in Known : docs[m] = NoDoc
    BY DEF Init
<1>5. /\ phase \in {"boot", "serving"} /\ idx \in 1 .. Len(Registered) + 1
      /\ updates \in 0 .. Updates /\ restarts \in 0 .. Restarts
      /\ faults \in 0 .. MaxFaults
    <2>1. /\ 1 \in 1 .. Len(Registered) + 1 /\ 0 \in 0 .. Updates
          /\ 0 \in 0 .. Restarts /\ 0 \in 0 .. MaxFaults
        BY <1>1, SeedingAssumption
    <2>2. phase = "boot" /\ idx = 1 /\ updates = 0 /\ restarts = 0 /\ faults = 0
        BY DEF Init
    <2> QED
        BY <2>1, <2>2
<1>6. process \in Processes /\ seeding = {} /\ skipped = {} /\ toggled = {} /\ edited = {}
    BY DEF Init
<1> QED
    BY <1>2, <1>3, <1>4, <1>5, <1>6 DEF Types, TypeOK, Quiet

\* The part of TypeOK about the history and the requests under way.
LEMMA HistoryTypes ==
    ASSUME Types, [Next]_vars
    PROVE  /\ process' \in Processes
           /\ DOMAIN origin' = Known
           /\ firstRead' \in [Known -> [Keys -> Raw]]
           /\ toggled' \subseteq Known /\ edited' \subseteq Known \X Keys
<1>1. /\ process \in Processes
      /\ DOMAIN origin = Known
      /\ firstRead \in [Known -> [Keys -> Raw]]
      /\ toggled \subseteq Known /\ edited \subseteq Known \X Keys
    BY SeedingAssumption DEF Types, TypeOK, Process
<1>2. ASSUME NEW m \in Known, Upsert(m), process' = process
      PROVE  /\ process' \in Processes
             /\ DOMAIN origin' = Known
             /\ firstRead' \in [Known -> [Keys -> Raw]]
             /\ toggled' \subseteq Known /\ edited' \subseteq Known \X Keys
    <2>1. \A k \in Keys : Read(InitialDoc(m), k) \in Raw
        <3> SUFFICES ASSUME NEW k \in Keys PROVE Read(InitialDoc(m), k) \in Raw
            OBVIOUS
        <3>1. InitialDoc(m) \in Doc /\ InitialDoc(m).active = "production"
            BY <1>1, InitialDocType
        <3>2. Stored(InitialDoc(m), k) \in IF k \in Secret THEN Sealed \cup {Empty} ELSE Raw
            BY <1>1, <3>1, InitialStored DEF Stored, Environments
        <3> QED
            BY <1>1, <3>1, <3>2, ReadRaw
    <2>2. [k \in Keys |-> Read(InitialDoc(m), k)] \in [Keys -> Raw]
        BY <2>1
    <2>3. firstRead' \in [Known -> [Keys -> Raw]]
        BY <1>1, <1>2, <2>2 DEF Upsert
    <2> QED
        BY <1>1, <1>2, <2>3 DEF Upsert
<1>3. CASE SeedFromModules
    <2>1. PICK m \in Known : m = Registered[idx]
        <3>1. idx \in 1 .. Len(Registered) /\ Registered \in Seq(Known)
            BY <1>3, SeedingAssumption DEF Types, TypeOK, SeedFromModules
        <3> QED
            BY <3>1
    <2> QED
        BY <1>1, <1>2, <1>3, <2>1 DEF SeedFromModules, history
<1>4. CASE \E m \in Known : LazySeed(m)
    BY <1>1, <1>2, <1>4 DEF LazySeed, history
<1>5. CASE \E m \in Known, b \in BOOLEAN : UpdateEnabled(m, b)
    BY <1>1, <1>5 DEF UpdateEnabled, Update
<1>6. CASE \E m \in Known, e \in Environments : SetActiveEnvironment(m, e)
    BY <1>1, <1>6 DEF SetActiveEnvironment, Update
<1>7. CASE \/ \E m \in Known, e \in Environments, k \in Keys, v \in Values : StoreSetting(m, e, k, v)
          \/ \E m \in Known, k \in Keys, v \in Values : UpdateModule(m, k, v)
    <2>1. Secret \subseteq Keys
        BY SeedingAssumption
    <2>2. UNCHANGED <<process, origin, firstRead, toggled>>
        BY <1>7 DEF StoreSetting, UpdateModule, Update
    <2>3. edited' \subseteq Known \X Keys
        <3>1. PICK m \in Known, K \in SUBSET Keys : edited' = edited \cup ({m} \X K)
            <4>1. CASE \E m \in Known, k \in Keys, v \in Values : UpdateModule(m, k, v)
                <5>1. PICK m \in Known, k \in Keys, v \in Values : UpdateModule(m, k, v)
                    BY <4>1
                <5>2. Secret \cup {k} \in SUBSET Keys
                    BY <2>1
                <5> QED
                    BY <5>1, <5>2 DEF UpdateModule
            <4>2. CASE \E m \in Known, e \in Environments, k \in Keys, v \in Values :
                            StoreSetting(m, e, k, v)
                <5>1. PICK m \in Known, e \in Environments, k \in Keys, v \in Values :
                        StoreSetting(m, e, k, v)
                    BY <4>2
                <5>2. edited' = edited \cup ({m} \X {k}) /\ {k} \in SUBSET Keys
                    BY <5>1 DEF StoreSetting
                <5> QED
                    BY <5>2
            <4> QED
                BY <1>7, <4>1, <4>2
        <3> QED
            BY <1>1, <3>1
    <2> QED
        BY <1>1, <2>2, <2>3
<1>8. CASE SeedDone \/ Wipe \/ Restart \/ UNCHANGED vars \/ \E n \in Known : FindMissing(n)
    BY <1>1, <1>8 DEF SeedDone, Wipe, Restart, FindMissing, vars, history
<1> QED
    BY <1>3, <1>4, <1>5, <1>6, <1>7, <1>8 DEF Next

\* The bookkeeping of the process and the bounds.
LEMMA LifeTypes ==
    ASSUME Types, [Next]_vars
    PROVE  /\ phase' \in {"boot", "serving"}
           /\ idx' \in 1 .. Len(Registered) + 1
           /\ seeding' \subseteq Known /\ skipped' \subseteq Known
           /\ updates' \in 0 .. Updates /\ restarts' \in 0 .. Restarts
           /\ faults' \in 0 .. MaxFaults
           /\ Quiet'
<1>1. /\ phase \in {"boot", "serving"} /\ idx \in 1 .. Len(Registered) + 1
      /\ seeding \subseteq Known /\ skipped \subseteq Known
      /\ updates \in 0 .. Updates /\ restarts \in 0 .. Restarts
      /\ faults \in 0 .. MaxFaults
      /\ phase = "boot" => seeding = {}
    BY DEF Types, TypeOK, Quiet
<1>2. /\ Len(Registered) \in Nat /\ Registered \in Seq(Known)
      /\ Updates \in Nat /\ Restarts \in Nat /\ MaxFaults \in Nat
    BY SeedingAssumption
<1>3. CASE SeedFromModules
    <2>1. Registered[idx] \in Known
        BY <1>1, <1>2, <1>3 DEF SeedFromModules
    <2> QED
        BY <1>1, <1>2, <1>3, <2>1 DEF SeedFromModules, Fault, Quiet
<1>4. CASE SeedDone \/ Wipe \/ Restart \/ UNCHANGED vars
    BY <1>1, <1>2, <1>4 DEF SeedDone, Wipe, Restart, vars, Fault, Quiet
<1>5. CASE \E m \in Known : FindMissing(m) \/ LazySeed(m)
    BY <1>1, <1>2, <1>5 DEF FindMissing, LazySeed, Fault, Quiet
<1>6. CASE \E m \in Known, b \in BOOLEAN : UpdateEnabled(m, b)
    BY <1>1, <1>2, <1>6 DEF UpdateEnabled, Update, Quiet
<1>7. CASE \E m \in Known, e \in Environments : SetActiveEnvironment(m, e)
    BY <1>1, <1>2, <1>7 DEF SetActiveEnvironment, Update, Quiet
<1>8. CASE \/ \E m \in Known, e \in Environments, k \in Keys, v \in Values : StoreSetting(m, e, k, v)
          \/ \E m \in Known, k \in Keys, v \in Values : UpdateModule(m, k, v)
    <2>1. Update
        BY <1>8 DEF StoreSetting, UpdateModule
    <2> QED
        BY <1>1, <1>2, <2>1 DEF Update, Quiet
<1> QED
    BY <1>3, <1>4, <1>5, <1>6, <1>7, <1>8 DEF Next

LEMMA TypesStep == Types /\ [Next]_vars => Types'
<1> SUFFICES ASSUME Types, [Next]_vars PROVE Types'
    OBVIOUS
<1>1. \A m \in Known : docs'[m] = NoDoc \/ DocType(docs'[m], m)
    <2> SUFFICES ASSUME NEW m \in Known
                 PROVE  docs'[m] = NoDoc \/ DocType(docs'[m], m)
        OBVIOUS
    <2>1. DocStep(m) /\ process \in Processes
        BY StepOnDoc DEF Types, TypeOK
    <2> QED
        BY <2>1, DocTyped, DocTypeKept DEF Types
<1>2. DOMAIN docs' = Known /\ docs' = [m \in Known |-> docs'[m]]
    <2>1. docs \in [Known -> Doc \cup {NoDoc}]
        BY DEF Types, TypeOK
    <2> QED
        BY <2>1 DEF Next, SeedFromModules, SeedDone, Wipe, Restart, FindMissing, LazySeed,
            Upsert, UpdateEnabled, SetActiveEnvironment, StoreSetting, UpdateModule,
            Update, vars
<1>3. docs' \in [Known -> Doc \cup {NoDoc}]
    BY <1>1, <1>2 DEF DocType
<1>4. TypeOK'
    BY <1>1, <1>3, HistoryTypes, LifeTypes DEF TypeOK, DocType
<1> QED
    BY <1>4, LifeTypes DEF Types

(***************************************************************************)
(* Enabled as at the first boot.                                           *)
(***************************************************************************)
\* Whether a module starts enabled under a profile.
EnabledRule(m, p) ==
    IF m \in Core \cup {Dev} \/ p \notin DOMAIN ProfileAddons
    THEN m \in EnabledByDefault
    ELSE Range(ProfileAddons[p]) \cap {m, "*"} # {}

EnabledAt(m) ==
    m \notin toggled /\ docs[m] # NoDoc =>
        (docs[m].enabled <=> EnabledRule(m, origin[m]))

\* "*" stands for all addons; other lists name theirs.
LEMMA InitialRule ==
    ASSUME process \in Processes, NEW m \in Known
    PROVE  InitialEnabled(m) <=> EnabledRule(m, process.profile)
<1>1. CASE m \in Core \cup {Dev} \/ ~ProfileKnown
    BY <1>1 DEF InitialEnabled, EnabledRule, ProfileKnown
<1>2. CASE m \notin Core \cup {Dev} /\ ProfileKnown
    <2> DEFINE addons == ProfileAddons[process.profile]
    <2>1. InitialEnabled(m) <=> m \in ProfileOverride
        BY <1>2 DEF InitialEnabled
    <2>2. CASE addons = <<"*">>
        <3>1. "*" \in Range(addons)
            <4>1. 1 \in DOMAIN <<"*">> /\ <<"*">>[1] = "*"
                OBVIOUS
            <4> QED
                BY <2>2, <4>1 DEF Range
        <3>2. m \in ProfileOverride
            BY <1>2, <2>2 DEF ProfileOverride
        <3> QED
            BY <1>2, <2>1, <3>1, <3>2 DEF EnabledRule, ProfileKnown
    <2>3. CASE addons # <<"*">>
        <3>1. "*" \notin Range(addons)
            BY <1>2, <2>3, SeedingAssumption DEF ProfileKnown
        <3>2. m \in ProfileOverride <=> m \in Range(addons)
            BY <2>3 DEF ProfileOverride
        <3> QED
            BY <1>2, <2>1, <3>1, <3>2 DEF EnabledRule, ProfileKnown
    <2> QED
        BY <2>2, <2>3
<1> QED
    BY <1>1, <1>2

LEMMA EnabledStep ==
    ASSUME Types, [Next]_vars, NEW m \in Known, EnabledAt(m)
    PROVE  EnabledAt(m)'
<1>1. DocStep(m) /\ process \in Processes
    BY StepOnDoc DEF Types, TypeOK
<1>2. docs[m] # NoDoc => docs[m] \in Doc
    BY DocTyped DEF Types, DocType
<1>3. CASE docs'[m] = NoDoc \/ (docs'[m] = docs[m] /\ SameHistory(m))
    BY <1>3 DEF EnabledAt, SameHistory, SameBirth
<1>4. CASE Created(m)
    BY <1>1, <1>4, InitialRule, InitialDocType DEF Created, EnabledAt
<1>5. CASE Refreshed(m)
    <2>1. docs'[m].enabled = docs[m].enabled
        <3>1. Schema(m) \in SUBSET Keys
            BY SeedingAssumption DEF Schema
        <3> QED
            BY <1>2, <1>5, <3>1, DocFields DEF Refreshed
    <2> QED
        BY <1>5, <2>1 DEF Refreshed, EnabledAt, SameHistory, SameBirth
<1>6. CASE Toggled(m)
    BY <1>6 DEF Toggled, EnabledAt
<1>7. CASE Edited(m)
    <2>1. docs'[m].enabled = docs[m].enabled
        BY <1>2, <1>7, DocFields DEF Edited
    <2> QED
        BY <1>7, <2>1 DEF Edited, EnabledAt, SameBirth
<1>8. CASE Switched(m)
    <2>1. docs'[m].enabled = docs[m].enabled
        BY <1>2, <1>8, DocFields DEF Switched
    <2> QED
        BY <1>8, <2>1 DEF Switched, EnabledAt, SameHistory, SameBirth
<1>9. \/ docs'[m] = NoDoc \/ (docs'[m] = docs[m] /\ SameHistory(m))
      \/ Created(m) \/ Refreshed(m) \/ Toggled(m) \/ Edited(m) \/ Switched(m)
    BY <1>1 DEF DocStep
<1> QED
    BY <1>3, <1>4, <1>5, <1>6, <1>7, <1>8, <1>9

(***************************************************************************)
(* Settings stick.                                                         *)
(***************************************************************************)
StickAt(m) ==
    docs[m] # NoDoc =>
        \A k \in Keys : <<m, k>> \notin edited /\ firstRead[m][k] # Empty =>
            Carries(k, docs[m].stored["production"][k], firstRead[m][k])

LEMMA StickStep ==
    ASSUME Types, [Next]_vars, NEW m \in Known, StickAt(m)
    PROVE  StickAt(m)'
<1>1. DocStep(m) /\ process \in Processes /\ "production" \in Environments
    BY StepOnDoc DEF Types, TypeOK, Environments
<1>2. docs[m] # NoDoc => docs[m] \in Doc
    BY DocTyped DEF Types, DocType
<1>3. CASE docs'[m] = NoDoc \/ (docs'[m] = docs[m] /\ SameHistory(m))
    BY <1>3 DEF StickAt, SameHistory, SameBirth, SameEdits
<1>4. CASE Created(m)
    BY <1>1, <1>4, InitialCarries DEF Created, StickAt
<1>5. CASE SameBirth(m) /\ SameEdits(m) /\ docs[m] # NoDoc /\ docs'[m].stored = docs[m].stored
    BY <1>5 DEF StickAt, SameBirth, SameEdits
<1>6. CASE Refreshed(m)
    <2>1. Schema(m) \in SUBSET Keys
        BY SeedingAssumption DEF Schema
    <2>2. docs'[m].stored = docs[m].stored
        BY <1>2, <1>6, <2>1, DocFields DEF Refreshed
    <2> QED
        BY <1>5, <1>6, <2>2 DEF Refreshed, SameHistory
<1>7. CASE Toggled(m)
    <2>1. docs'[m].stored = docs[m].stored
        BY <1>2, <1>7, DocFields DEF Toggled
    <2> QED
        BY <1>5, <1>7, <2>1 DEF Toggled
<1>8. CASE Edited(m)
    <2>1. PICK e \in Environments, row \in [Keys -> Raw \cup Sealed] :
            /\ docs'[m] = [docs[m] EXCEPT !.stored[e] = row]
            /\ \A k \in Keys :
                <<m, k>> \in edited \/ row[k] # docs[m].stored[e][k] => <<m, k>> \in edited'
        BY <1>8 DEF Edited
    <2>2. docs[m] # NoDoc /\ docs[m] \in Doc /\ firstRead'[m] = firstRead[m]
        BY <1>2, <1>8 DEF Edited, SameBirth
    <2>3. docs'[m].stored["production"] =
            IF e = "production" THEN row ELSE docs[m].stored["production"]
        BY <1>1, <2>1, <2>2, DocFields
    <2>4. \A k \in Keys : <<m, k>> \notin edited' =>
            /\ <<m, k>> \notin edited
            /\ docs'[m].stored["production"][k] = docs[m].stored["production"][k]
        BY <2>1, <2>3
    <2> QED
        BY <2>2, <2>4 DEF StickAt
<1>9. CASE Switched(m)
    <2>1. docs'[m].stored = docs[m].stored
        BY <1>2, <1>9, DocFields DEF Switched
    <2> QED
        BY <1>5, <1>9, <2>1 DEF Switched, SameHistory
<1>10. \/ docs'[m] = NoDoc \/ (docs'[m] = docs[m] /\ SameHistory(m))
       \/ Created(m) \/ Refreshed(m) \/ Toggled(m) \/ Edited(m) \/ Switched(m)
    BY <1>1 DEF DocStep
<1> QED
    BY <1>3, <1>4, <1>6, <1>7, <1>8, <1>9, <1>10

\* Without an edit and a switch the accessors give what was seeded.
LEMMA StickReads ==
    ASSUME Types, \A m \in Known : StickAt(m)
    PROVE  SettingsStick
<1> SUFFICES ASSUME NEW m \in Known, NEW k \in Keys,
                    docs[m] # NoDoc, docs[m].active = "production",
                    <<m, k>> \notin edited, firstRead[m][k] # Empty,
                    k \in Secret => Stored(docs[m], k) \in Values \X {process.cipher}
             PROVE  Read(docs[m], k) = firstRead[m][k]
    BY DEF SettingsStick
<1> DEFINE x == Stored(docs[m], k)
<1>1. Carries(k, x, firstRead[m][k])
    BY DEF StickAt, Stored
<1>2. firstRead[m][k] \in Raw /\ firstRead[m][k] \in Values
    BY DEF Types, TypeOK, Raw
<1>3. CASE k \notin Secret
    BY <1>1, <1>3 DEF Carries, Read, GetValue
<1>4. CASE k \in Secret
    <2>1. x \in Sealed
        <3>1. PICK v \in Values : x = <<v, process.cipher>>
            BY <1>4
        <3>2. process.cipher \in CipherKeys
            <4>1. x \in Sealed \cup {Empty}
                <5>1. DocType(docs[m], m) /\ "production" \in Environments
                    BY DocTyped DEF Types, Environments
                <5> QED
                    BY <1>4, <5>1 DEF DocType, Stored
            <4>2. process.cipher \in CipherKeys \cup {NoCipher}
                BY ProcessTypes DEF Types, TypeOK
            <4>3. x \in Sealed
                BY <3>1, <4>1, <4>2, EmptyApart
            <4> QED
                BY <3>1, <4>3 DEF Sealed
        <3> QED
            BY <3>1, <3>2 DEF Sealed
    <2>2. x # Empty /\ x[1] = firstRead[m][k]
        BY <1>1, <1>4, <2>1, EmptyApart DEF Carries
    <2>3. Decrypt(x) = x[1]
        BY <1>4 DEF Decrypt
    <2> QED
        BY <1>2, <1>4, <2>2, <2>3, SeedingAssumption DEF Read, GetSecret
<1> QED
    BY <1>3, <1>4

(***************************************************************************)
(* The stored schema is that of the binary.                                *)
(***************************************************************************)
SchemaAt(m) == docs[m] # NoDoc => docs[m].schema = Schema(m)

\* At boot for the modules behind idx, then for all.
SchemaInv ==
    /\ phase = "boot" =>
        \A i \in 1 .. Len(Registered) :
            i < idx /\ Registered[i] \notin skipped => SchemaAt(Registered[i])
    /\ phase = "serving" =>
        \A i \in 1 .. Len(Registered) :
            Registered[i] \notin skipped => SchemaAt(Registered[i])

\* As long as the process lives nothing takes a document off its schema.
LEMMA SchemaKept ==
    ASSUME Types, [Next]_vars, NEW m \in Known, SchemaAt(m), process' = process
    PROVE  SchemaAt(m)'
<1>1. DocStep(m) /\ process \in Processes
    BY StepOnDoc DEF Types, TypeOK
<1>2. docs[m] # NoDoc => docs[m] \in Doc
    BY DocTyped DEF Types, DocType
<1>3. Schema(m)' = Schema(m) /\ Schema(m) \in SUBSET Keys
    BY SeedingAssumption DEF Schema
<1>4. CASE docs'[m] \in {docs[m], NoDoc}
    BY <1>3, <1>4 DEF SchemaAt
<1>5. CASE Created(m)
    BY <1>1, <1>3, <1>5, InitialDocType DEF Created, SchemaAt
<1>6. CASE Refreshed(m)
    BY <1>2, <1>3, <1>6, DocFields DEF Refreshed, SchemaAt
<1>7. CASE docs[m] # NoDoc /\ docs'[m].schema = docs[m].schema
    BY <1>3, <1>7 DEF SchemaAt
<1>8. CASE Toggled(m) \/ Switched(m)
    <2>1. CASE Toggled(m)
        <3>1. docs'[m].schema = docs[m].schema
            BY <1>2, <2>1, DocFields DEF Toggled
        <3> QED
            BY <1>7, <2>1, <3>1 DEF Toggled
    <2>2. CASE Switched(m)
        <3>1. docs'[m].schema = docs[m].schema
            BY <1>2, <2>2, DocFields DEF Switched
        <3> QED
            BY <1>7, <2>2, <3>1 DEF Switched
    <2> QED
        BY <1>8, <2>1, <2>2
<1>9. CASE Edited(m)
    <2>1. PICK e \in Environments, row \in [Keys -> Raw \cup Sealed] :
            docs'[m] = [docs[m] EXCEPT !.stored[e] = row]
        BY <1>9 DEF Edited
    <2> QED
        BY <1>2, <1>7, <1>9, <2>1, DocFields DEF Edited
<1>10. \/ docs'[m] \in {docs[m], NoDoc}
       \/ Created(m) \/ Refreshed(m) \/ Toggled(m) \/ Edited(m) \/ Switched(m)
    BY <1>1 DEF DocStep
<1> QED
    BY <1>4, <1>5, <1>6, <1>8, <1>9, <1>10

LEMMA SchemaStep ==
    ASSUME Types, SchemaInv, [Next]_vars
    PROVE  SchemaInv'
<1>1. /\ Len(Registered) \in Nat /\ idx \in 1 .. Len(Registered) + 1
      /\ \A i \in 1 .. Len(Registered) : Registered[i] \in Known
      /\ DOMAIN docs = Known /\ process \in Processes
    BY SeedingAssumption DEF Types, TypeOK
<1>2. process' = process =>
        \A i \in 1 .. Len(Registered) :
            SchemaAt(Registered[i]) => SchemaAt(Registered[i])'
    <2> SUFFICES ASSUME process' = process, NEW i \in 1 .. Len(Registered),
                        SchemaAt(Registered[i])
                 PROVE  SchemaAt(Registered[i])'
        OBVIOUS
    <2> QED
        BY <1>1, SchemaKept
<1>3. CASE SeedFromModules
    <2>1. /\ phase = "boot" /\ phase' = "boot" /\ idx' = idx + 1 /\ process' = process
          /\ skipped \subseteq skipped' /\ idx \in 1 .. Len(Registered)
        BY <1>1, <1>3 DEF SeedFromModules
    <2>2. PICK m \in Known : m = Registered[idx]
        BY <1>1, <2>1
    <2>3. m \notin skipped' => SchemaAt(m)'
        <3>1. Schema(m)' = Schema(m) /\ Schema(m) \in SUBSET Keys
            BY <2>1, SeedingAssumption DEF Schema
        <3>2. CASE docs[m] = NoDoc /\ Upsert(m)
            <4>1. docs'[m] = InitialDoc(m)
                BY <1>1, <3>2 DEF Upsert
            <4> QED
                BY <1>1, <3>1, <4>1, InitialDocType DEF SchemaAt
        <3>3. CASE docs[m] # NoDoc /\ docs' = [docs EXCEPT ![m].schema = Schema(m)]
            <4>1. docs'[m] = [docs[m] EXCEPT !.schema = Schema(m)] /\ docs[m] \in Doc
                BY <1>1, <3>3, DocTyped DEF Types, DocType
            <4> QED
                BY <3>1, <4>1, DocFields DEF SchemaAt
        <3>4. CASE m \in skipped'
            BY <3>4
        <3> QED
            BY <1>3, <2>2, <3>2, <3>3, <3>4 DEF SeedFromModules
    <2>4. \A i \in 1 .. Len(Registered) :
            i < idx + 1 /\ Registered[i] \notin skipped' => SchemaAt(Registered[i])'
        <3> SUFFICES ASSUME NEW i \in 1 .. Len(Registered), i < idx + 1,
                            Registered[i] \notin skipped'
                     PROVE  SchemaAt(Registered[i])'
            OBVIOUS
        <3>1. CASE i = idx
            BY <2>2, <2>3, <3>1 DEF SchemaAt
        <3>2. CASE i < idx
            BY <1>2, <2>1, <3>2 DEF SchemaInv
        <3> QED
            BY <1>1, <3>1, <3>2
    <2> QED
        BY <2>1, <2>4 DEF SchemaInv
<1>4. CASE SeedDone
    <2>1. /\ phase = "boot" /\ phase' = "serving" /\ skipped' = skipped
          /\ process' = process
          /\ \A i \in 1 .. Len(Registered) : i < idx
        BY <1>1, <1>4 DEF SeedDone
    <2> QED
        BY <1>2, <2>1 DEF SchemaInv
<1>5. CASE Restart
    BY <1>5 DEF Restart, SchemaInv
<1>6. ASSUME UNCHANGED <<phase, idx, process, skipped>>
      PROVE  SchemaInv'
    BY <1>2, <1>6 DEF SchemaInv
<1>7. CASE Wipe \/ UNCHANGED vars \/ \E m \in Known : FindMissing(m) \/ LazySeed(m)
    BY <1>6, <1>7 DEF Wipe, FindMissing, LazySeed, vars
<1>8. CASE \E m \in Known, b \in BOOLEAN : UpdateEnabled(m, b)
    BY <1>6, <1>8 DEF UpdateEnabled, Update
<1>9. CASE \E m \in Known, e \in Environments : SetActiveEnvironment(m, e)
    BY <1>6, <1>9 DEF SetActiveEnvironment, Update
<1>10. CASE \/ \E m \in Known, e \in Environments, k \in Keys, v \in Values : StoreSetting(m, e, k, v)
           \/ \E m \in Known, k \in Keys, v \in Values : UpdateModule(m, k, v)
    BY <1>6, <1>10 DEF StoreSetting, UpdateModule, Update
<1> QED
    BY <1>3, <1>4, <1>5, <1>7, <1>8, <1>9, <1>10 DEF Next

(***************************************************************************)
(* The theorems.                                                           *)
(***************************************************************************)
SeedInv ==
    /\ Types
    /\ \A m \in Known : EnabledAt(m)
    /\ \A m \in Known : StickAt(m)
    /\ SchemaInv

\* No document, no history: nothing to show at first.
LEMMA SeedInit == Init => SeedInv
<1> SUFFICES ASSUME Init PROVE SeedInv
    OBVIOUS
<1>1. \A m \in Known : docs[m] = NoDoc
    BY DEF Init
<1>2. \A m \in Known : EnabledAt(m) /\ StickAt(m)
    BY <1>1 DEF EnabledAt, StickAt
<1>3. SchemaInv
    <2>1. \A i \in 1 .. Len(Registered) : Registered[i] \in Known
        BY SeedingAssumption
    <2> QED
        BY <1>1, <2>1 DEF SchemaInv, SchemaAt
<1> QED
    BY <1>2, <1>3, TypesInit DEF SeedInv

LEMMA SeedInvariant == Spec => []SeedInv
<1>1. SeedInv /\ [Next]_vars => SeedInv'
    <2> SUFFICES ASSUME SeedInv, [Next]_vars PROVE SeedInv'
        OBVIOUS
    <2>1. \A m \in Known : EnabledAt(m)' /\ StickAt(m)'
        BY EnabledStep, StickStep DEF SeedInv
    <2>2. Types' /\ SchemaInv'
        BY TypesStep, SchemaStep DEF SeedInv
    <2> QED
        BY <2>1, <2>2 DEF SeedInv
<1> QED
    BY <1>1, SeedInit, PTL DEF Spec

\* Documents keep their shape and no secret is stored in the clear,
\* whatever key a process has.
THEOREM SecretsSealed == Spec => []TypeOK
<1>1. SeedInv => TypeOK
    BY DEF SeedInv, Types
<1> QED
    BY <1>1, SeedInvariant, PTL

\* A module that no administrator toggled is enabled as at its first boot,
\* whatever the profiles of later boots.
THEOREM FirstBootDecides == Spec => []EnabledAsSeeded
<1>1. SeedInv => EnabledAsSeeded
    <2> SUFFICES ASSUME SeedInv, NEW m \in Known \ toggled, docs[m] # NoDoc
                 PROVE  docs[m].enabled =
                            IF m \in Core \cup {Dev} \/ origin[m] \notin DOMAIN ProfileAddons
                            THEN m \in EnabledByDefault
                            ELSE Range(ProfileAddons[origin[m]]) \cap {m, "*"} # {}
        BY DEF EnabledAsSeeded
    <2>1. docs[m].enabled \in BOOLEAN
        BY DocTyped DEF SeedInv, Types, DocType, Doc
    <2>2. docs[m].enabled <=> EnabledRule(m, origin[m])
        BY DEF SeedInv, EnabledAt
    <2> QED
        BY <2>1, <2>2 DEF EnabledRule
<1> QED
    BY <1>1, SeedInvariant, PTL

\* Later env vars do not change a setting that was seeded and not edited.
THEOREM SettingsAreKept == Spec => []SettingsStick
<1>1. SeedInv => SettingsStick
    BY StickReads DEF SeedInv
<1> QED
    BY <1>1, SeedInvariant, PTL

\* UnmarshalModule and the accessors agree on every key.
THEOREM ReadersAgree == Spec => []AccessorsAgree
<1>1. SeedInv => AccessorsAgree
    <2> SUFFICES ASSUME NEW m \in Known, docs[m] # NoDoc, NEW k \in docs[m].schema
                 PROVE  Resolve(docs[m], k) \in {Read(docs[m], k), Failed}
        BY DEF AccessorsAgree
    <2> QED
        BY DEF Resolve, Read, GetValue, GetSecret, SchemaFallback
<1> QED
    BY <1>1, SeedInvariant, PTL

\* A serving process finds the schema of its binary in the documents.
THEOREM SchemaFollowsBinary == Spec => []SchemaCurrent
<1>1. SeedInv => SchemaCurrent
    <2> SUFFICES ASSUME SeedInv, phase = "serving",
                        NEW m \in Range(Registered) \ skipped, docs[m] # NoDoc
                 PROVE  /\ docs[m].schema = Schema(m)
                        /\ \A k \in Schema(m) :
                            FromEnv(k) # Empty => Read(docs[m], k) # Empty
        BY DEF SchemaCurrent
    <2>1. m \in Known /\ \E i \in 1 .. Len(Registered) : m = Registered[i]
        BY SeedingAssumption DEF Range
    <2>2. docs[m].schema = Schema(m)
        BY <2>1 DEF SeedInv, SchemaInv, SchemaAt
    <2>3. process \in Processes /\ DocType(docs[m], m)
        BY <2>1, DocTyped DEF SeedInv, Types, TypeOK
    <2>4. docs[m].active \in Environments /\ Schema(m) \subseteq Keys
        <3>1. docs[m].active \in Environments
            BY <2>3 DEF DocType, Doc
        <3>2. Schema(m) \subseteq Keys
            BY <2>1, SeedingAssumption DEF Schema
        <3> QED
            BY <3>1, <3>2
    <2>5. \A k \in Schema(m) : FromEnv(k) # Empty => Read(docs[m], k) # Empty
        <3> SUFFICES ASSUME NEW k \in Schema(m), FromEnv(k) # Empty
                     PROVE  Read(docs[m], k) # Empty
            OBVIOUS
        <3>1. Stored(docs[m], k) \in IF k \in Secret THEN Sealed \cup {Empty} ELSE Raw
            BY <2>3, <2>4 DEF DocType, Stored
        <3> QED
            BY <2>2, <2>3, <2>4, <3>1, ReadRaw DEF DocType
    <2> QED
        BY <2>2, <2>5
<1> QED
    BY <1>1, SeedInvariant, PTL

\* Boot leaves what an administrator can set as it is.
THEOREM BootPreservesSettings == Spec => BootKeepsSettings
<1>1. SeedInv /\ [Next]_vars =>
        [phase = "boot" =>
            \A m \in Known : docs[m] # NoDoc =>
                /\ docs'[m] # NoDoc
                /\ docs'[m].enabled = docs[m].enabled
                /\ docs'[m].stored = docs[m].stored
                /\ docs'[m].active = docs[m].active]_vars
    <2> SUFFICES ASSUME SeedInv, [Next]_vars, phase = "boot",
                        NEW m \in Known, docs[m] # NoDoc
                 PROVE  /\ docs'[m] # NoDoc
                        /\ docs'[m].enabled = docs[m].enabled
                        /\ docs'[m].stored = docs[m].stored
                        /\ docs'[m].active = docs[m].active
        OBVIOUS
    <2>1. DocStep(m) /\ docs[m] \in Doc
        BY StepOnDoc, DocTyped DEF SeedInv, Types, DocType
    <2>2. docs'[m] = docs[m] \/ Refreshed(m)
        BY <2>1 DEF DocStep, Created, Toggled, Edited, Switched
    <2>3. Schema(m) \in SUBSET Keys
        BY SeedingAssumption DEF Schema
    <2>4. CASE Refreshed(m)
        <3>1. /\ docs'[m] \in Doc /\ docs'[m].enabled = docs[m].enabled
              /\ docs'[m].stored = docs[m].stored
              /\ docs'[m].active = docs[m].active
            BY <2>1, <2>3, <2>4, DocFields DEF Refreshed
        <3> QED
            BY <3>1, SeedingAssumption
    <2> QED
        BY <2>2, <2>4
<1> QED
    BY <1>1, SeedInvariant, PTL DEF Spec, BootKeepsSettings
=============================================================================
