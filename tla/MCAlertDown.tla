----------------------------- MODULE MCAlertDown -----------------------------
(* What an alert may never do, for TLC: AlertEngine with a device_down rule  *)
(* and a rule on samples.  And beside it an instance of Settings, which      *)
(* shares nothing with it here: a behaviour is one of either.                *)
EXTENDS MCAlertEngine

CONSTANTS Pages, Section, Known, Secrets, Words, Default, Mask, None

VARIABLES part, stored, page, meant

Form == INSTANCE Settings

ASSUME FormAssumption == Form!WordsAssumption

formVars == <<stored, page, meant>>

\* No property names one browser, and none is of liveness.
Symmetric == Permutations(Pages)

\* One of the initial states of the part that stands still is enough.
EitherInit ==
    /\ Init /\ Form!Init
    /\ \/ part = "alerts"
       \/ part = "settings" /\ \A r \in Rules : rule[r] = "off"

EitherNext ==
    \/ part = "alerts" /\ Next /\ UNCHANGED <<part, formVars>>
    \/ part = "settings" /\ Form!Next /\ UNCHANGED <<part, vars>>

Either == EitherInit /\ [][EitherNext]_<<part, vars, formVars>>

-----------------------------------------------------------------------------
\* The properties of Settings, see there.
FormKept == part = "settings" => Form!FormKept
TypedIsSaved == Form!TypedIsSaved
=============================================================================
