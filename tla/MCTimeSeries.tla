---------------------------- MODULE MCTimeSeries ----------------------------
(* An instance of TimeSeries for TLC, and one of Charts beside it: the two   *)
(* share no state, so that a behaviour is one of either.  The poll engine,   *)
(* whose batches the store is given, stands still: Polling has a run of its  *)
(* own.                                                                      *)
EXTENDS Polling, TLC

CONSTANTS
    Tasks, Series, Known, Traps, Shapes, RetentionSettings, Horizon, Chunk, Never,
    Charted, Scoped, Widths, DayLength, Ticks, PerSeries, Overall, Alerts,
    octets, errors, uptime, traps

VARIABLES part, now, days, store, disk, task, pruned, late, rows, fired

\* A trap, and a batch whose points come in the wrong order.
SmallBatches == {<< <<octets, 0>>, <<octets, 1>> >>, << <<traps, 0>> >>}

Symmetric == Permutations(Tasks)

Data == INSTANCE TimeSeries

Chart == INSTANCE Charts WITH Series <- Charted, Horizon <- Ticks

ASSUME StoreAssumption == Data!SeriesAssumption /\ Data!BoundsAssumption /\ Chart!ChartAssumption

storeVars == <<now, days, store, disk, task, pruned, late>>

EitherInit ==
    /\ Init /\ Data!Init /\ Chart!Init
    /\ part \in {"store", "chart"} /\ (part = "chart" => days = 0)

\* Bound of the store: at the end of the time a batch arrives only while nothing else is
\* being done.
Closed ==
    now = Horizon => \A t \in Tasks :
        task[t] = Data!Idle /\ task'[t].pc = "insert" => \A u \in Tasks : task[u] = Data!Idle

EitherNext ==
    /\ UNCHANGED <<part, vars>>
    /\ \/ part = "store" /\ Data!Next /\ Closed /\ UNCHANGED <<rows, fired>>
       \/ part = "chart" /\ Chart!Next /\ UNCHANGED storeVars

Either == EitherInit /\ [][EitherNext]_<<part, vars, rows, fired, storeVars>>

-----------------------------------------------------------------------------
\* The properties of the parts, see there.
LatestKept == Data!LatestKept
OldIsRemoved == Data!OldIsRemoved
ChartKept == Chart!ChartKept
=============================================================================
