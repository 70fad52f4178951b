------------------------------ MODULE ConfigTypes ------------------------------
(***************************************************************************)
(* Two ways to give a raw setting its Go type: GetConfigBool, GetConfigInt *)
(* and GetConfigDuration of Dependencies, which fall back to a value of    *)
(* the caller's, and assignField of UnmarshalModule, which reports what it *)
(* cannot convert.  A raw value is a class of texts; numbers have widths,  *)
(* and 1 and 0 stand for the booleans.                                     *)
(***************************************************************************)
EXTENDS Integers

CONSTANTS
    IntBits,      \* width of int and int64
    TargetBits,   \* widths of the struct fields a setting is read into
    Numbers       \* the numbers that raw values denote

\* class "number" is a decimal number, "duration" a number with a unit,
\* "yes" one of the words true and yes, "junk" anything else; "plain" says
\* that it is in lower case and without blanks around it.
RawValue ==
    [class : {"empty", "yes", "junk"}, n : {0}, plain : BOOLEAN] \cup
    [class : {"number", "duration"}, n : Numbers, plain : BOOLEAN]

Types == {"bool", "int", "duration"}

\* No field is wider than an int; said of the powers, which the provers cannot
\* compare otherwise.
ASSUME TypesAssumption ==
    /\ IntBits \in Nat \ {0} /\ TargetBits \subseteq Nat \ {0}
    /\ \A bits \in TargetBits : 2 ^ (bits - 1) <= 2 ^ (IntBits - 1)
    /\ Numbers \subseteq Int

VARIABLE conversion  \* the last one: its input, whether it succeeded, its value

typesVars == conversion

TypesInit ==
    conversion = [type |-> "bool", raw |-> [class |-> "empty", n |-> 0, plain |-> TRUE],
                  bits |-> IntBits, ok |-> TRUE, value |-> 0]

Fits(n, bits) == -(2 ^ (bits - 1)) <= n /\ n < 2 ^ (bits - 1)

Affirmative(raw) ==
    \/ raw.class = "yes"
    \/ raw.class = "number" /\ raw.n = 1

(***************************************************************************)
(* Dependencies.                                                           *)
(***************************************************************************)
GetConfigBool(raw, fallback) ==
    IF raw.class = "empty" THEN fallback
    ELSE IF raw.plain /\ Affirmative(raw)
    THEN 1 ELSE 0

\* strconv.Atoi.
GetConfigInt(raw, fallback) ==
    IF raw.class = "number" /\ raw.plain /\ Fits(raw.n, IntBits)
    THEN raw.n ELSE fallback

\* time.ParseDuration; of plain numbers it takes only 0.
IsDuration(raw) ==
    /\ raw.plain /\ Fits(raw.n, IntBits)
    /\ \/ raw.class = "duration"
       \/ raw.class = "number" /\ raw.n = 0

GetConfigDuration(raw, fallback) == IF IsDuration(raw) THEN raw.n ELSE fallback

(***************************************************************************)
(* UnmarshalModule.                                                        *)
(***************************************************************************)
ParseBool(raw) ==
    IF Affirmative(raw) THEN 1 ELSE 0

\* Mutant: a number that does not fit loses its high bits.
AssignIntTruncating(raw, bits) ==
    IF raw.class = "empty" THEN [ok |-> TRUE, value |-> 0]
    ELSE IF raw.class # "number" \/ ~raw.plain \/ ~Fits(raw.n, IntBits)
    THEN [ok |-> FALSE, value |-> 0]
    ELSE [ok |-> TRUE, value |-> raw.n % 2 ^ bits]

AssignInt(raw, bits) ==
    IF raw.class = "empty" THEN [ok |-> TRUE, value |-> 0]
    ELSE IF raw.class # "number" \/ ~raw.plain \/ ~Fits(raw.n, bits)
    THEN [ok |-> FALSE, value |-> 0]
    ELSE [ok |-> TRUE, value |-> raw.n]

AssignDuration(raw) ==
    IF raw.class = "empty" THEN [ok |-> TRUE, value |-> 0]
    ELSE [ok |-> IsDuration(raw), value |-> IF IsDuration(raw) THEN raw.n ELSE 0]

AssignField(type, raw, bits) ==
    LET assigned == CASE type = "bool" -> [ok |-> TRUE, value |-> ParseBool(raw)]
                      [] type = "int" -> AssignInt(raw, bits)
                      [] type = "duration" -> AssignDuration(raw)
    IN conversion' = [type |-> type, raw |-> raw, bits |-> bits,
                      ok |-> assigned.ok, value |-> assigned.value]

TypesNext ==
    \E type \in Types, raw \in RawValue, bits \in TargetBits :
        AssignField(type, raw, bits)

TypesSpec == TypesInit /\ [][TypesNext]_typesVars

Get(type, raw, fallback) ==
    CASE type = "bool" -> GetConfigBool(raw, fallback)
      [] type = "int" -> GetConfigInt(raw, fallback)
      [] type = "duration" -> GetConfigDuration(raw, fallback)

\* A setting means the same to a module that reads it with an accessor and
\* to one that unmarshals it: what unmarshals gives the same value, what
\* does not gives the fallback, unless only the struct field is too narrow
\* for it.  An empty setting gives the zero value or the fallback.  Booleans
\* that are not written plainly are excluded: there the two differ.
TypedReadsAgree ==
    LET c == conversion IN
    \A fallback \in {-1, 1} :
        c.raw.plain =>
            Get(c.type, c.raw, fallback) =
                IF c.raw.class = "empty" THEN fallback
                ELSE IF c.ok THEN c.value
                ELSE IF c.type = "int" /\ c.raw.class = "number"
                        /\ Fits(c.raw.n, IntBits)
                THEN c.raw.n ELSE fallback
=============================================================================
