------------------------------ MODULE LogStore ------------------------------
(***************************************************************************)
(* Log records on their way into app_logs (logging_handler.py): a thread   *)
(* that logs puts them into a queue without waiting, and a thread of the   *)
(* handler writes what is there in batches.  A failed write and the end of *)
(* the process lose records.                                               *)
(***************************************************************************)
EXTENDS Naturals, Sequences

CONSTANTS
    MaxRecords,     \* bound
    MaxRows         \* _MAX_ROWS

BoundsAssumption == MaxRecords \in Nat /\ MaxRows \in Nat \ {0}

VARIABLES
    process,        \* "up", "stopping" or "down"
    emitted,        \* history: a record is its number
    queue,          \* _queue
    flusher,        \* the thread; owed is history: the records there were when it was stopped
    rows,           \* app_logs
    filed           \* history: records written since app_logs was cleared

vars == <<process, emitted, queue, flusher, rows, filed>>

Waiting == [at |-> "wait", batch |-> <<>>, owed |-> 0]

Init ==
    /\ process = "up" /\ emitted = 0
    /\ queue = <<>> /\ flusher = Waiting
    /\ rows = <<>> /\ filed = {}

Emit ==
    /\ process # "down" /\ emitted < MaxRecords
    /\ emitted' = emitted + 1
    /\ queue' = Append(queue, emitted')
    /\ UNCHANGED <<process, flusher, rows, filed>>

Left_Peeked == queue

\* get_nowait until there is nothing left.
Left == <<>>

\* _drain: what is in the queue.
Drain ==
    /\ process # "down"
    /\ \/ flusher.at = "wait" /\ (queue # <<>> \/ process = "stopping")
       \/ flusher.at = "final"
    /\ flusher' = [flusher EXCEPT !.at = IF @ = "wait" THEN "write" ELSE "last", !.batch = queue]
    /\ queue' = Left
    /\ UNCHANGED <<process, emitted, rows, filed>>

Newest(s, n) == SubSeq(s, Len(s) - n + 1, Len(s))

Stored_TrimFirst(batch) ==
    (IF Len(rows) >= MaxRows THEN Newest(rows, MaxRows - 1) ELSE rows) \o batch

\* The insert, and the DELETE up to the row that is MaxRows from the end.
Stored(batch) ==
    LET all == rows \o batch IN IF Len(all) >= MaxRows THEN Newest(all, MaxRows - 1) ELSE all

After_NoFinal == IF process = "stopping" THEN "ended" ELSE "wait"

\* Where _flush_loop goes on after a drain.
After ==
    IF flusher.at = "last" THEN "ended" ELSE IF process = "stopping" THEN "final" ELSE "wait"

SetOf(s) == {s[i] : i \in 1 .. Len(s)}

\* One transaction, which fails when the database is busy: the batch is gone.
Write ==
    /\ process # "down" /\ flusher.at \in {"write", "last"}
    /\ \/ rows' = Stored(flusher.batch) /\ filed' = filed \cup SetOf(flusher.batch)
       \/ flusher.batch # <<>> /\ UNCHANGED <<rows, filed>>
    /\ flusher' = [flusher EXCEPT !.at = After, !.batch = <<>>]
    /\ UNCHANGED <<process, emitted, queue>>

\* DELETE /api/logs.
ClearLogs ==
    /\ process = "up" /\ rows # <<>>
    /\ rows' = <<>> /\ filed' = {}
    /\ UNCHANGED <<process, emitted, queue, flusher>>

\* stop() at the end of the lifespan.
Stop ==
    /\ process = "up" /\ process' = "stopping"
    /\ flusher' = [flusher EXCEPT !.owed = emitted]
    /\ UNCHANGED <<emitted, queue, rows, filed>>

\* The join ends or times out, or the process is killed: what is in memory is gone.
Exit ==
    /\ process # "down" /\ process' = "down"
    /\ queue' = <<>> /\ flusher' = Waiting
    /\ UNCHANGED <<emitted, rows, filed>>

Start ==
    /\ process = "down" /\ process' = "up"
    /\ UNCHANGED <<emitted, queue, flusher, rows, filed>>

Next == Emit \/ Drain \/ Write \/ ClearLogs \/ Stop \/ Exit \/ Start

Spec == Init /\ [][Next]_vars

-----------------------------------------------------------------------------
(* Properties *)

\* The types; a record is at one place on its way.
TypeOK ==
    /\ process \in {"up", "stopping", "down"} /\ emitted \in 0 .. MaxRecords
    /\ flusher.at \in {"wait", "write", "final", "last", "ended"} /\ flusher.owed \in 0 .. emitted
    /\ SetOf(queue) \cup SetOf(rows) \cup SetOf(flusher.batch) \cup filed \subseteq 1 .. emitted
    /\ SetOf(queue) \cap SetOf(flusher.batch) = {}

\* app_logs holds the newest of the records written since it was cleared, in the order
\* they were logged: all of them, or as many as there may be, or one less.
LogsAreNewest ==
    /\ Len(rows) <= MaxRows
    /\ Len(rows) >= MaxRows - 1 \/ SetOf(rows) = filed
    /\ \A i \in 1 .. Len(rows) : rows[i] \in filed /\ (i > 1 => rows[i - 1] < rows[i])
    /\ \A n \in filed \ SetOf(rows) : \A i \in 1 .. Len(rows) : n < rows[i]

\* "Call stop() at shutdown to flush the final batch" (logging_handler.py:12): when the
\* thread has ended, every record there was at the stop has been tried to be written.
StopFlushes ==
    flusher.at = "ended" => \A n \in 1 .. flusher.owed : n \notin SetOf(queue) \cup SetOf(flusher.batch)

\* What holds of the records on their way and in the table.
LogsKept == TypeOK /\ LogsAreNewest /\ StopFlushes
=============================================================================
