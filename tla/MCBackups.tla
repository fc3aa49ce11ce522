------------------------------ MODULE MCBackups ------------------------------
(* LogForward for TLC, and beside it the other handler of the logger,         *)
(* LogStore, and Backups.  They share no state, so that a behaviour is one of *)
(* the three.  Backups is looked at twice: the directories of several minutes *)
(* while nothing is written to the database, and the database while the       *)
(* minute lasts.                                                              *)
EXTENDS LogForward

CONSTANTS MaxRows, Commits, Minutes, Counts, MaxFaults, Timer, Button, Torn, Bad, None

VARIABLES
    part, process, queue, flusher, rows, filed,
    db, minute, snaps, order, scheduled, count, bundle, run, faults

File == INSTANCE LogStore
Saved == INSTANCE Backups WITH enabled <- scheduled

ASSUME PartsAssumption == BoundsAssumption /\ File!BoundsAssumption /\ Saved!BackupsAssumption

wireVars == <<thread, live, forwarder, enabled, reload>>
fileVars == <<process, queue, flusher, rows, filed>>
savedVars == <<db, minute, snaps, order, scheduled, count, bundle, run, faults>>

Backing == {"rotation", "copying"}

\* One of the initial states of the parts that stand still is enough.
EitherInit ==
    /\ Init /\ File!Init /\ Saved!Init
    /\ part = "rotation" \/ count = 1
    /\ \/ part = "forward" /\ ~scheduled
       \/ part = "store" /\ ~scheduled /\ ~enabled
       \/ part = "rotation" /\ ~enabled
       \/ part = "copying" /\ ~enabled /\ scheduled

EitherNext ==
    \/ part = "forward" /\ Next /\ UNCHANGED <<part, fileVars, savedVars>>
    \/ part = "store" /\ File!Next /\ UNCHANGED <<part, wireVars, savedVars>>
    \/ part = "rotation" /\ Saved!Next /\ UNCHANGED <<part, emitted, wireVars, fileVars, db, bundle>>
    \/ part = "copying" /\ Saved!Next /\ UNCHANGED <<part, emitted, wireVars, fileVars, minute, scheduled>>

EitherFair ==
    /\ EitherInit /\ [][EitherNext]_<<part, emitted, wireVars, fileVars, savedVars>>
    /\ WF_savedVars(part \in Backing /\ Saved!RunStep(Timer))

-----------------------------------------------------------------------------
(* The properties of the parts, see there; LinesKept is LogForward's.         *)
LogsKept == part = "store" => File!LogsKept
SnapshotsKept == Saved!SnapshotsKept
GoesOn == part \in Backing => Saved!SchedulerGoesOn
=============================================================================
