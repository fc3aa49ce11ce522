----------------------------- MODULE MCAlertLive -----------------------------
(* What must come about of an alert, for TLC.  AlertEngine with one rule, on *)
(* traps, and two instances of it with a device_down rule: for a device of   *)
(* the poll engine, and for one that a collector reports; they share the     *)
(* variables.  And beside them an instance of Inventory, the administration  *)
(* of devices, which shares nothing with them here: a behaviour is one of    *)
(* any.  The page of the settings that MCAlertDown has stands still.         *)
EXTENDS MCAlertDown

CONSTANTS
    Requests, Ids, Units, Credentials, Collecting, Local, Level, Depth,
    Names, Blank, Unassigned, Keys, Rows, Asks, Files,
    d3, k1, org, group, sub, n1, n2

VARIABLES row, used, unit, credential, collector, request

TrapOnly == r1 :> "trap"

Probed == INSTANCE AlertEngine WITH Polled <- Devices, Kind <- DownOnly
Reported == INSTANCE AlertEngine WITH Polled <- {}, Kind <- DownOnly

UnitLevels == org :> 1 @@ group :> 2 @@ sub :> 2

Base == [path |-> <<n1, Blank>>, collector |-> Local, credential |-> None, parent |-> None,
         peer |-> None, passive |-> FALSE]

Passive == [Base EXCEPT !.peer = d1, !.passive = TRUE, !.path = <<n1, Unassigned>>]

\* A device without anything, one of another org with the same group below it, one
\* with a credential and a parent, and the passive half of a pair.
Sent == {Base, [Base EXCEPT !.path = <<n2, Unassigned>>],
         [Base EXCEPT !.credential = k1, !.parent = d1], Passive}

Asked == {[path |-> <<n1, Unassigned>>], [credential |-> k1], [parent |-> d1], [parent |-> d2],
          [peer |-> d1], [peer |-> None]}

\* One org with a group that stands for its devices without a group, and two devices:
\* nothing between them, a child in the same place or another, a pair.
Started ==
    [unit : {org :> [name |-> n1, above |-> None] @@ group :> [name |-> Unassigned, above |-> org]},
     device : {d1 :> Base @@ d2 :> r : r \in Sent \ {Passive}}
              \cup {d1 :> [Base EXCEPT !.peer = d2] @@ d2 :> [Base EXCEPT !.peer = d1, !.passive = TRUE]}]

Stock == INSTANCE Inventory WITH Devices <- Ids, Collectors <- Collecting, device <- row

ASSUME StockAssumption ==
    Stock!SetsAssumption /\ Stock!LevelAssumption /\ Stock!InputAssumption /\ Stock!FilesAssumption

stockVars == <<row, used, unit, credential, collector, request>>

\* One of the initial states of the parts that stand still is enough.
AnyInit ==
    /\ Stock!Init /\ Form!Init
    /\ \/ part = "inventory" /\ Init /\ \A r \in Rules : rule[r] = "off"
       \/ /\ \A d \in DOMAIN row : row[d] = Base
          /\ \/ part = "polled" /\ Probed!Init
             \/ part = "reported" /\ Reported!Init
             \/ part = "trapped" /\ Init

AnyNext ==
    /\ UNCHANGED <<part, formVars>>
    /\ \/ part = "polled" /\ Probed!Next /\ UNCHANGED stockVars
       \/ part = "reported" /\ Reported!Next /\ UNCHANGED stockVars
       \/ part = "trapped" /\ Next /\ UNCHANGED stockVars
       \/ part = "inventory" /\ Stock!Next /\ UNCHANGED vars

\* The fairness of AlertEngine for the two that have a device_down rule.
AnyFair ==
    /\ AnyInit /\ [][AnyNext]_<<part, vars, formVars, stockVars>>
    /\ <>[](sweep.pc # "starting" \/ part = "inventory")
    /\ WF_vars(part = "polled" /\ Probed!Tick) /\ WF_vars(part = "reported" /\ Reported!Tick)
    /\ WF_vars(part = "polled" /\ Probed!SweepStep) /\ WF_vars(part = "reported" /\ Reported!SweepStep)
    /\ \A d \in Devices :
        /\ SF_vars(part = "polled" /\ sweep.pc = "idle" /\ Probed!PollDevice(d))
        /\ SF_vars(part = "polled" /\ sweep.pc = "idle" /\ Probed!WriteStatus(d))
        /\ \A r \in Probed!DownRules :
            /\ SF_vars(part = "polled" /\ sweep.pc = "rules" /\ sweep.rule = r /\ Probed!EvaluateDown(d))
            /\ SF_vars(part = "reported" /\ sweep.pc = "rules" /\ sweep.rule = r /\ Reported!EvaluateDown(d))

-----------------------------------------------------------------------------
\* The safety of a rule on traps: see AlertEngine.
CooldownOfTraps == part = "trapped" => CooldownRespected

\* The liveness of a device_down rule for each kind of device: see AlertEngine.
SilentIsAlerted ==
    /\ part = "polled" => Probed!DownIsAlerted
    /\ part = "reported" => Reported!DownIsAlerted

AnsweringIsResolved ==
    /\ part = "polled" => Probed!BackIsResolved
    /\ part = "reported" => Reported!BackIsResolved

\* The properties of Inventory, see there.
TreeKept == part = "inventory" => Stock!TreeKept
ChangesKept == Stock!ChangesKept
=============================================================================
