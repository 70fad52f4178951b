------------------------------ MODULE MongoSetup ------------------------------
(***************************************************************************)
(* ensureCollections at boot: every collection the modules declare, and    *)
(* its indexes, created with retryTransient, while MongoDB may still be    *)
(* coming up.  One context of 30 s is shared by all of it, every attempt   *)
(* has a timeout of its own, and the waits between the attempts double up  *)
(* to a cap.                                                               *)
(***************************************************************************)
EXTENDS Integers, Sequences

CONSTANTS
    Collections,  \* the declared collections, in the order of the modules
    Indexed,      \* those with indexes
    Outages,      \* until when MongoDB may refuse clients after the boot
    MaxAttempts,  \* 10
    FirstWait,    \* 200 ms: the unit of time
    WaitCap,      \* 3 s
    OpTimeout,    \* 10 s
    Deadline      \* 30 s

ASSUME SetupAssumption ==
    /\ Collections \in Seq({Collections[i] : i \in DOMAIN Collections})
    /\ Outages \subseteq Nat
    /\ MaxAttempts \in Nat \ {0} /\ FirstWait \in Nat \ {0}
    /\ WaitCap \in Nat \ {0} /\ OpTimeout \in Nat \ {0} /\ Deadline \in Nat \ {0}

VARIABLES
    elapsed,   \* time since ensureCollections began
    outage,    \* when MongoDB becomes usable
    at,        \* loop index of ensureCollections
    stage,     \* "collection", "indexes": what is being created
    attempt,   \* loop index of retryTransient
    waiting,   \* it is between two attempts
    made,      \* what has been created
    refused    \* what MongoDB has refused for good

setupVars == <<elapsed, outage, at, stage, attempt, waiting, made, refused>>

SetupInit ==
    /\ elapsed = 0 /\ outage \in Outages
    /\ at = 1 /\ stage = "collection" /\ attempt = 1 /\ waiting = FALSE
    /\ made = {} /\ refused = {}

Expired == elapsed >= Deadline
SetupDone == at > Len(Collections)
Item == <<Collections[at], stage>>

Earlier(s, t) == IF s < t THEN s ELSE t

\* An attempt ends at its own timeout or at the shared one.
AttemptEnd == Earlier(elapsed + OpTimeout, Deadline)

\* Mutant: the first failure ends the setup.
ProceedOrStop(ok) ==
    /\ attempt' = 1 /\ waiting' = FALSE
    /\ IF ok /\ stage = "collection" /\ Collections[at] \in Indexed
         THEN stage' = "indexes" /\ UNCHANGED at
         ELSE /\ stage' = "collection"
              /\ at' = IF ok THEN at + 1 ELSE Len(Collections) + 1

\* ensureCollection goes on to the indexes; a failure is logged and the next
\* collection is tried.
Proceed(ok) ==
    /\ attempt' = 1 /\ waiting' = FALSE
    /\ IF ok /\ stage = "collection" /\ Collections[at] \in Indexed
         THEN stage' = "indexes" /\ UNCHANGED at
         ELSE stage' = "collection" /\ at' = at + 1

\* The attempt creates it, or finds the collection there already, perhaps
\* after it has waited for MongoDB.
Created ==
    /\ ~SetupDone /\ ~waiting /\ ~Expired
    /\ IF elapsed >= outage
         THEN UNCHANGED elapsed
         ELSE outage < AttemptEnd /\ elapsed' = outage
    /\ made' = made \cup {Item}
    /\ Proceed(TRUE)
    /\ UNCHANGED <<outage, refused>>

\* An error that isTransientMongoError does not recognise ends the retries.
\* A MongoDB that is up answers at once; while it is not, a timeout may come
\* with such an error too, and has cost the attempt's time.
Refused ==
    /\ ~SetupDone /\ ~waiting /\ ~Expired
    /\ elapsed' \in {elapsed} \cup {t \in {AttemptEnd} : elapsed < outage}
    /\ refused' = refused \cup {Item}
    /\ Proceed(FALSE)
    /\ UNCHANGED <<outage, made>>

\* MongoDB is not usable yet: the attempt fails at once, or when its timeout
\* or the shared one runs out, with an error worth a retry (that
\* of the server selection, which is what a timeout usually ends).
Transient ==
    /\ ~SetupDone /\ ~waiting /\ ~Expired
    /\ elapsed < outage
    /\ elapsed' \in {elapsed, AttemptEnd}
    /\ IF attempt = MaxAttempts
         THEN Proceed(FALSE)
         ELSE waiting' = TRUE /\ UNCHANGED <<at, stage, attempt>>
    /\ UNCHANGED <<outage, made, refused>>

Wait == Earlier(2 ^ (attempt - 1) * FirstWait, WaitCap)

\* Mutant: time.Sleep.
BackOffDeaf ==
    /\ waiting
    /\ elapsed' = elapsed + Wait
    /\ waiting' = FALSE /\ attempt' = attempt + 1
    /\ UNCHANGED <<at, stage, outage, made, refused>>

\* The wait between two attempts ends early when the shared context expires.
BackOff ==
    /\ waiting
    /\ elapsed' = Earlier(elapsed + Wait, Deadline)
    /\ IF elapsed + Wait < Deadline
         THEN waiting' = FALSE /\ attempt' = attempt + 1 /\ UNCHANGED <<at, stage>>
         ELSE Proceed(FALSE)
    /\ UNCHANGED <<outage, made, refused>>

\* With an expired context every attempt fails at once, and so does the wait.
FailExpired ==
    /\ ~SetupDone /\ ~waiting /\ Expired
    /\ Proceed(FALSE)
    /\ UNCHANGED <<elapsed, outage, made, refused>>

SetupNext ==
    Created \/ Refused \/ Transient \/ BackOff \/ FailExpired

SetupSpec == SetupInit /\ [][SetupNext]_setupVars

\* An outage that ends a full attempt and a full wait before the deadline
\* costs no collection and no index, whether attempts fail fast or run into
\* their timeout: all that MongoDB did not refuse is there in the end.
OutageSurvived ==
    SetupDone /\ outage <= Deadline - OpTimeout - WaitCap =>
        \A i \in DOMAIN Collections :
            LET c == Collections[i] IN
            /\ <<c, "collection">> \in made \cup refused
            /\ c \in Indexed /\ <<c, "collection">> \in made =>
                    <<c, "indexes">> \in made \cup refused

\* Boot is never held up longer than the shared context lasts.
SetupInTime == elapsed <= Deadline
=============================================================================
