------------------------------ MODULE ModuleGate ------------------------------
(***************************************************************************)
(* What the gate in front of a module's routes promises, with nothing said *)
(* about caches or databases.                                              *)
(*                                                                         *)
(* setting[m] is what the admin's last change says.  visible[m] is the set *)
(* of settings an answer may still be based on: the current one, and older *)
(* ones that have not been forgotten yet.  An older setting can be         *)
(* forgotten at any time; once forgotten it never comes back unless the    *)
(* admin sets it again.  An answer is a visible setting, or "on" (the gate *)
(* fails open); a core module is always on.                                *)
(***************************************************************************)
CONSTANTS Modules, Core, Requests

Settings == {"on", "off"}

VARIABLES
    setting,  \* the setting in force, per module
    visible,  \* the settings an answer may be based on, per module
    asked,    \* the module each request last got an answer about
    answer    \* that answer

gateVars == <<setting, visible, asked, answer>>

GateTypeOK ==
    /\ setting \in [Modules -> Settings]
    /\ visible \in [Modules -> SUBSET Settings]
    /\ asked \in [Requests -> Modules]
    /\ answer \in [Requests -> Settings]

GateInit ==
    /\ setting \in [Modules -> Settings]
    /\ visible = [m \in Modules |-> {setting[m]}]
    /\ asked \in [Requests -> Modules]
    /\ answer = [r \in Requests |-> "on"]

\* Settings change, or old ones are forgotten.
Change ==
    /\ setting' \in [Modules -> Settings]
    /\ visible' \in [Modules -> SUBSET Settings]
    /\ \A m \in Modules : /\ setting'[m] \in visible'[m]
                          /\ visible'[m] \subseteq visible[m] \cup {setting'[m]}
    /\ UNCHANGED <<asked, answer>>

\* A request about m is answered with s; old settings may be forgotten in
\* the same step.
Answer(r, m, s) ==
    /\ s \in visible[m] \cup {"on"}
    /\ m \in Core => s = "on"
    /\ asked' = [asked EXCEPT ![r] = m]
    /\ answer' = [answer EXCEPT ![r] = s]
    /\ visible' \in [Modules -> SUBSET Settings]
    /\ \A n \in Modules : setting[n] \in visible'[n] /\ visible'[n] \subseteq visible[n]
    /\ UNCHANGED setting

GateNext ==
    \/ Change
    \/ \E r \in Requests, m \in Modules, s \in Settings : Answer(r, m, s)

GateSpec == GateInit /\ [][GateNext]_gateVars
=============================================================================
