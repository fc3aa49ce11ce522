------------------------------- MODULE MCMain -------------------------------
(* main.py for TLC: the migrations of its start-up, and beside them the lock *)
(* its requests pass.  Release, which puts a new main.py in place, stands    *)
(* still.  They share no state here, so that a behaviour is one of either.   *)
EXTENDS Release

CONSTANTS Script, Needed, Oldest, MaxCuts, Visitors, Admins, Tokens, MaxAge

VARIABLES
    part,
    schema, recorded, shipped, process, cuts,           \* of Migrations
    lock, hub, visitor, admin, quiet, told, errors      \* of Access

baseVars == <<schema, recorded, shipped, process, cuts>>

gateVars == <<lock, hub, visitor, admin, quiet, told, errors>>

\* The scripts of the repository.
Sorted == INSTANCE Schema
Files == Sorted!Scripts

Database == INSTANCE MCMigrations WITH cut <- cuts

Gate == INSTANCE Access

ASSUME GateAssumption == Gate!AccessAssumption
ASSUME DatabaseAssumption ==
    Database!ScriptAssumption /\ Database!ReleaseAssumption /\ Database!CutsAssumption
ASSUME FilesAssumption == Database!RunsThrough /\ Database!EndsAgain

StartUpTables == {"settings", "users", "oid_catalog", "collectors"}

\* One of the initial states of the part that stands still is enough.
EitherInit ==
    /\ Init /\ mode = "manual" /\ Database!Init /\ Gate!Init
    /\ \/ part = "migrations"
       \/ part = "access" /\ shipped = Oldest

EitherNext ==
    \/ part = "migrations" /\ Database!Next /\ UNCHANGED <<part, gateVars, vars>>
    \/ part = "access" /\ Gate!Next /\ UNCHANGED <<part, baseVars, vars>>

\* The fairness of both.
EitherFair ==
    /\ EitherInit /\ [][EitherNext]_<<part, baseVars, gateVars, vars>>
    /\ WF_baseVars(part = "migrations" /\ Database!StartUp)
    /\ WF_gateVars(part = "access" /\ Gate!Tick)
    /\ \A v \in Visitors : WF_gateVars(part = "access" /\ Gate!VisitorStep(v))

-----------------------------------------------------------------------------
\* The properties of Migrations, see there.
ServesComplete == Database!ServesComplete
SchemaKept == Database!TypeOK /\ Database!InOrder /\ Database!HierarchyKept
StartsUp == part = "migrations" => Database!ComesUp

\* The properties of Access, see there.
LockHolds == Gate!LockHolds
LockEnds == part = "access" => Gate!LockEnds
=============================================================================
