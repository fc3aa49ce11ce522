----------------------------- MODULE TimeSeries -----------------------------
(***************************************************************************)
(* The time-series store (storage/sqlite_ts.py, storage/retention.py):     *)
(* batches of poll results and traps are written, the table of last values *)
(* is kept beside them, old rows are pruned.                               *)
(*                                                                         *)
(* Every task of the process uses the one connection: a statement sees     *)
(* what the others have not committed yet, and a COMMIT commits it too.    *)
(***************************************************************************)
EXTENDS Integers, FiniteSets, SequencesExt

CONSTANTS
    Tasks,
    Series,             \* a metric of a device, or of one of its interfaces
    Known,              \* those of registered devices
    Traps,              \* the rows of snmp_traps are a series of their own
    Shapes,             \* the batches: sequences of a series and the age of a point
    RetentionSettings,  \* values of retention_days_raw, in ticks
    Horizon,            \* bound of the time
    Chunk,              \* rows deleted by a statement
    Never               \* NULL, of a time

SeriesAssumption ==
    /\ Traps \subseteq Series /\ Known \subseteq Series \ Traps
    /\ Shapes \subseteq Seq(Series \X Nat) /\ Never \notin Nat
BoundsAssumption ==
    /\ Horizon \in Nat /\ Chunk \in Nat \ {0}
    /\ RetentionSettings \subseteq Int

Times == 0 .. Horizon

Row == Series \X Times

VARIABLES
    now,
    days,           \* retention_days_raw, that nobody changes
    store,          \* the tables, as the connection sees them
    disk,           \* the tables, as they have been committed
    task,           \* where each task is, with its locals
    pruned,         \* history: the last cutoff a cleanup has used
    late            \* history: series that an older batch has overwritten, or one
                    \* that has ended between its two statements

vars == <<now, days, store, disk, task, pruned, late>>

Idle == [pc |-> "idle"]

Pruning(t) == task[t].pc \in {"prune", "pruned"}

At(row) == row[2]

Newest_MinusOne(rows, s) == Max({-1} \cup {At(r) : r \in {q \in rows : q[1] = s}})

Newest(rows, s) == IF \E r \in rows : r[1] = s THEN Max({At(r) : r \in {q \in rows : q[1] = s}}) ELSE Never

Init ==
    /\ now = 0 /\ days \in RetentionSettings
    /\ store = [rows |-> {}, latest |-> [s \in Known |-> Never]] /\ disk = store
    /\ task = [t \in Tasks |-> Idle]
    /\ pruned = 0 /\ late = {}

-----------------------------------------------------------------------------
(* Ingest *)

\* ingest_poll_results_bulk and ingest_trap are called with what has arrived.
Arrive(t) ==
    /\ task[t] = Idle
    /\ \E shape \in Shapes :
           /\ \A i \in DOMAIN shape : shape[i][2] <= now
           /\ task' = [task EXCEPT ![t] =
                  [pc |-> "insert",
                   batch |-> [i \in DOMAIN shape |-> <<shape[i][1], now - shape[i][2]>>]]]
    /\ UNCHANGED <<now, days, store, disk, pruned, late>>

SeriesOf(t) == {r[1] : r \in Range(task[t].batch)} \cap Known

\* A statement that fails leaves the rows it has written to the transaction.
Fail(t, written) ==
    /\ task' = [task EXCEPT ![t] = Idle]
    /\ late' = IF written THEN late \cup SeriesOf(t) ELSE late

Insert_Swallowed(t) ==
    /\ task[t].pc = "insert"
    /\ \/ store' = [store EXCEPT !.rows = @ \cup Range(task[t].batch)]
       \/ \E part \in Prefixes(task[t].batch) : store' = [store EXCEPT !.rows = @ \cup Range(part)]
    /\ task' = [task EXCEPT ![t].pc =
           IF \E i \in DOMAIN task[t].batch : task[t].batch[i][1] \in Known
           THEN "upsert" ELSE "commit"]
    /\ UNCHANGED <<now, days, disk, pruned, late>>

Insert(t) ==
    /\ task[t].pc = "insert"
    /\ \/ /\ store' = [store EXCEPT !.rows = @ \cup Range(task[t].batch)]
          /\ task' = [task EXCEPT ![t].pc =
                 IF \E i \in DOMAIN task[t].batch : task[t].batch[i][1] \in Known
                 THEN "upsert" ELSE "commit"]
          /\ UNCHANGED late
       \/ \E part \in Prefixes(task[t].batch) :
              /\ store' = [store EXCEPT !.rows = @ \cup Range(part)]
              /\ Fail(t, part # <<>>)
    /\ UNCHANGED <<now, days, disk, pruned>>

\* The points of a batch that have a last value.
KnownOf(batch) == {r \in Range(batch) : r[1] \in Known}

LatestRows_AsSent(batch) == {SelectSeq(batch, LAMBDA r : r[1] \in Known)}

\* latest_rows: in the order of their time, those of one time in any; a point that was
\* sent twice replaces itself.
LatestRows(batch) ==
    LET known == KnownOf(batch)
    IN  {rows \in [1 .. Cardinality(known) -> known] :
            Range(rows) = known /\ \A i, j \in DOMAIN rows : i < j => At(rows[i]) <= At(rows[j])}

\* INSERT OR REPLACE of one row after the other: the last one of a series stays.
Replaced(latest, rows) ==
    [s \in Known |->
        IF \E i \in DOMAIN rows : rows[i][1] = s
        THEN At(rows[CHOOSE i \in DOMAIN rows : /\ rows[i][1] = s
                                               /\ \A j \in DOMAIN rows : rows[j][1] = s => j <= i])
        ELSE latest[s]]

\* The series whose last value is newer than all that comes.
Overtaken(latest, rows) ==
    {s \in Known : /\ \E r \in Range(rows) : r[1] = s
                   /\ latest[s] # Never
                   /\ \A r \in Range(rows) : r[1] = s => At(r) < latest[s]}

Upsert(t) ==
    /\ task[t].pc = "upsert"
    /\ \E rows \in LatestRows(task[t].batch) :
           \/ /\ store' = [store EXCEPT !.latest = Replaced(@, rows)]
              /\ task' = [task EXCEPT ![t].pc = "commit"]
              /\ late' = late \cup Overtaken(store.latest, rows)
           \/ \E part \in Prefixes(rows) :
                  /\ store' = [store EXCEPT !.latest = Replaced(@, part)]
                  /\ Fail(t, TRUE)
    /\ UNCHANGED <<now, days, disk, pruned>>

Commit_LeftOpen(t) ==
    /\ task[t].pc = "commit"
    /\ task' = [task EXCEPT ![t].pc = "answer"]
    /\ UNCHANGED <<now, days, store, disk, pruned, late>>

Commit(t) ==
    /\ task[t].pc = "commit"
    /\ \/ disk' = store /\ task' = [task EXCEPT ![t].pc = "answer"] /\ UNCHANGED late
       \/ UNCHANGED disk /\ Fail(t, TRUE)
    /\ UNCHANGED <<now, days, store, pruned>>

\* The batch is accepted.
Answer(t) ==
    /\ task[t].pc = "answer"
    /\ task' = [task EXCEPT ![t] = Idle]
    /\ UNCHANGED <<now, days, store, disk, pruned, late>>

-----------------------------------------------------------------------------
(* Cleanup *)

StartCleanup(t) ==
    /\ task' = [task EXCEPT ![t] = [pc |-> "prune", table |-> "traps", cutoff |-> now - days, more |-> FALSE]]
    /\ pruned' = IF now - days > pruned THEN now - days ELSE pruned
    /\ UNCHANGED <<now, days, store, disk, late>>

\* StorageRetention.run_once.
Scheduled(t) == task[t] = Idle /\ days > 0 /\ StartCleanup(t)

\* POST /api/snmp/cleanup hands the setting on as it is.
Manual(t) == task[t] = Idle /\ StartCleanup(t)

Expired(t) ==
    {r \in store.rows : At(r) < task[t].cutoff /\ (r[1] \in Traps <=> task[t].table = "traps")}

Prune_Once(t) ==
    /\ task[t].pc = "prune"
    /\ \E some \in SUBSET Expired(t) :
           /\ Cardinality(some) = Min({Chunk, Cardinality(Expired(t))})
           /\ store' = [store EXCEPT !.rows = @ \ some]
           /\ task' = [task EXCEPT ![t].pc = "pruned", ![t].more = FALSE]
    /\ UNCHANGED <<now, days, disk, pruned, late>>

\* One bounded DELETE; was it a full one.
Prune(t) ==
    /\ task[t].pc = "prune"
    /\ \E some \in SUBSET Expired(t) :
           /\ Cardinality(some) = Min({Chunk, Cardinality(Expired(t))})
           /\ store' = [store EXCEPT !.rows = @ \ some]
           /\ task' = [task EXCEPT ![t].pc = "pruned", ![t].more = Cardinality(some) = Chunk]
    /\ UNCHANGED <<now, days, disk, pruned, late>>

\* Its COMMIT, and on to the next one, to the other table or to the end.
CommitPrune(t) ==
    /\ task[t].pc = "pruned"
    /\ disk' = store
    /\ task' = [task EXCEPT ![t] =
           IF @.more THEN [@ EXCEPT !.pc = "prune"]
           ELSE IF @.table = "traps" THEN [@ EXCEPT !.pc = "prune", !.table = "results"]
           ELSE Idle]
    /\ UNCHANGED <<now, days, store, pruned, late>>

StopCleanup(t) ==
    /\ Pruning(t)
    /\ task' = [task EXCEPT ![t] = Idle]
    /\ UNCHANGED <<now, days, store, disk, pruned, late>>

-----------------------------------------------------------------------------
(* The process *)

\* connect: an empty table of last values is filled from the results.
Backfilled(tables) ==
    IF \E s \in Known : tables.latest[s] # Never THEN tables
    ELSE [tables EXCEPT !.latest = [s \in Known |-> Newest(tables.rows, s)]]

Restart ==
    /\ store' = Backfilled(disk) /\ disk' = store'
    /\ task' = [t \in Tasks |-> Idle]
    /\ late' = late \cup UNION {SeriesOf(t) : t \in {u \in Tasks : task[u].pc \in {"upsert", "commit"}}}
    /\ UNCHANGED <<now, days, pruned>>

Tick ==
    /\ now < Horizon /\ now' = now + 1
    /\ UNCHANGED <<days, store, disk, task, pruned, late>>

TaskStep(t) ==
    \/ Arrive(t) \/ Insert(t) \/ Upsert(t) \/ Commit(t) \/ Answer(t)
    \/ Scheduled(t) \/ Manual(t) \/ Prune(t) \/ CommitPrune(t) \/ StopCleanup(t)

Next == (\E t \in Tasks : TaskStep(t)) \/ Restart \/ Tick

Spec == Init /\ [][Next]_vars

-----------------------------------------------------------------------------
(* Properties *)

\* Every variable has its type.
TypeOK ==
    /\ now \in Times /\ days \in RetentionSettings
    /\ {store, disk} \subseteq [rows : SUBSET Row, latest : [Known -> Times \cup {Never}]]
    /\ late \subseteq Known

\* What was accepted is on the disk, and stays there until a cleanup whose cutoff it
\* is older than: whatever the others have left open, and whatever a restart finds.
AcceptedIsKept ==
    [][/\ \A t \in Tasks : task'[t].pc = "answer" =>
              \A i \in DOMAIN task'[t].batch :
                  task'[t].batch[i] \in disk'.rows \/ At(task'[t].batch[i]) < pruned
       /\ \A r \in disk.rows \ disk'.rows : At(r) < pruned]_vars

\* A last value is the value of a row: none is shown that a crash has undone.
LatestHasRow ==
    \A s \in Known : disk.latest[s] # Never =>
        <<s, disk.latest[s]>> \in disk.rows \/ disk.latest[s] < pruned

\* The last value of a series is its newest one, in whatever order the points of a batch
\* came, as long as no batch of the series has come after a newer one or ended half way.
LatestIsNewest ==
    (\A t \in Tasks : task[t].pc # "upsert") =>
        \A r \in store.rows : r[1] \in Known \ late => store.latest[r[1]] >= At(r)

\* A cleanup goes on until nothing older than its cutoff is left in the table.
PruneIsWhole ==
    [][\A t \in Tasks :
          task[t].pc = "prune" /\ task'[t].pc = "pruned" /\ ~task'[t].more =>
              \A r \in store'.rows : At(r) < task[t].cutoff => (r[1] \in Traps <=> task[t].table = "results")]_vars

\* The two tables agree.
LatestKept == TypeOK /\ LatestHasRow /\ LatestIsNewest

\* A cleanup removes what is old, all of it and nothing else.
OldIsRemoved == AcceptedIsKept /\ PruneIsWhole
=============================================================================
