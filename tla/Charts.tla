------------------------------- MODULE Charts -------------------------------
(***************************************************************************)
(* What a chart of a device shows of the time-series store:                *)
(* query_poll_history_bucketed of storage/sqlite_ts.py and                 *)
(* device_metrics_history of api/snmp.py, which lays the alerts of the     *)
(* same window over it.                                                    *)
(***************************************************************************)
EXTENDS Naturals, FiniteSets

CONSTANTS
    Series,             \* the metrics of a device and of its interfaces
    Scoped,             \* those that carry an interface label
    Widths,             \* of the buckets, in ticks; 0 is no bucket
    DayLength,          \* in ticks
    Horizon,            \* bound of the time
    PerSeries,          \* buckets of a series
    Overall,            \* buckets of a chart
    Alerts              \* alerts over a chart: 500

ChartAssumption ==
    /\ Scoped \subseteq Series /\ Widths \subseteq Nat
    /\ {DayLength, PerSeries, Overall, Alerts} \subseteq Nat \ {0} /\ Horizon \in Nat

Times == 0 .. Horizon

VARIABLES rows, fired   \* points of the device, and the times of its alerts

vars == <<rows, fired>>

Init == rows = {} /\ fired = {}

At(row) == row[2]

\* Points and alerts come in any order: collectors deliver late.
Store == /\ \E r \in Series \X Times : rows' = rows \cup {r}
         /\ UNCHANGED fired

Fire == /\ \E t \in Times : fired' = fired \cup {t}
        /\ UNCHANGED rows

Next == Store \/ Fire

Spec == Init /\ [][Next]_vars

-----------------------------------------------------------------------------
(* The chart *)

Bucket(at, width) == IF width = 0 THEN at ELSE at - (at % width)

Buckets(points, width) == {<<r[1], Bucket(At(r), width)>> : r \in points}

\* Rank of a bucket among some of them, the newest being the first.
Rank(buckets, b) == 1 + Cardinality({c \in buckets : c[2] > b[2]})

Capped_Flat(buckets) == {b \in buckets : Rank(buckets, b) <= PerSeries}

\* ROW_NUMBER over each series.
Capped(buckets) == {b \in buckets : Rank({c \in buckets : c[1] = b[1]}, b) <= PerSeries}

\* The backstop over all of them, newest first: which of those of one time are left
\* out is not said.
Limited(buckets) ==
    {some \in SUBSET buckets :
        /\ Cardinality(some) <= Overall
        /\ some # buckets => Cardinality(some) = Overall
        /\ \A b \in some, c \in buckets \ some : c[2] <= b[2]}

\* The rows of an interface, and those of the device that belong to none.
InScope(interface) == {r \in rows : r[1] = interface \/ r[1] \notin Scoped}

Points(interface, since, width) ==
    Buckets({r \in InScope(interface) : At(r) >= since}, width)

\* The charts there may be of them.
History(buckets) == Limited(Capped(buckets))

-----------------------------------------------------------------------------
(* The alerts over it *)

\* Times are compared as texts: the day, a letter, the time of the day.  SQLite writes a
\* space for the letter, which comes before the T of the window.
Space == 0
T == 1

Text(t, letter) == <<t \div DayLength, letter, t % DayLength>>

Before(a, b) == \/ a[1] < b[1]
                \/ a[1] = b[1] /\ a[2] < b[2]
                \/ a[1] = b[1] /\ a[2] = b[2] /\ a[3] < b[3]

\* ORDER BY fired_at LIMIT 500: the oldest.
Oldest(times) == {t \in times : Cardinality({u \in times : u < t}) < Alerts}

Overlay_Open(since, until) == Oldest({t \in fired : ~Before(Text(until, T), Text(t, Space))})

Overlay(since, until) ==
    Oldest({t \in fired : /\ ~Before(Text(t, Space), Text(since, T))
                          /\ ~Before(Text(until, T), Text(t, Space))})

-----------------------------------------------------------------------------
(* Properties *)

\* Every variable has its type.
TypeOK == rows \subseteq Series \X Times /\ fired \subseteq Times

\* A chart reaches the newest point of every series it shows and goes back from there
\* without a hole, however many points the other series have; unless it is full, and
\* all of it is at least as new.
ChartReachesNow ==
    \A interface \in Scoped, since \in Times, width \in Widths :
        LET all == Points(interface, since, width)
        IN  \A shown \in History(all), b \in all :
                \/ b \in shown
                \/ Cardinality({c \in shown : c[1] = b[1] /\ c[2] > b[2]}) = PerSeries
                \/ Cardinality(shown) = Overall /\ \A c \in shown : c[2] >= b[2]

\* Of the alerts, the chart shows those of the days after the one its window begins on,
\* up to the end of the day it ends on, unless there are so many that the newest are left
\* out.  So the alerts of the first day are missing although they lie in the window, all
\* of them when it lies within a day, and those of the last day are there although they
\* came after it.
AlertsOfTheDays ==
    \A since, until \in Times :
        LET shown == Overlay(since, until)
            ofTheDays == {t \in fired : /\ since \div DayLength < t \div DayLength
                                       /\ t \div DayLength <= until \div DayLength}
        IN  /\ shown \subseteq ofTheDays
            /\ \A t \in ofTheDays \ shown : Cardinality({u \in shown : u < t}) = Alerts

\* A chart and the alerts laid over it.
ChartKept == TypeOK /\ ChartReachesNow /\ AlertsOfTheDays
=============================================================================
