--------------------------- MODULE Polling_proofs ---------------------------
(***************************************************************************)
(* The poll loop, for any number of devices, interval, sleep and limit of  *)
(* polls side by side.  What waits in a round is due, and what is due has  *)
(* been left alone for an interval: the countdown of a device and the      *)
(* ticks since its answer make up an interval at least, as long as no      *)
(* status failed to be written.  At the end the store that the batches of  *)
(* the polls are written to, which MCTimeSeries has beside the loop, and   *)
(* the charts that are drawn of it.                                        *)
(***************************************************************************)
EXTENDS MCTimeSeries, Sequences, FiniteSetTheorems, WellFoundedInduction, TLAPS

\* Polls of an earlier round are left only by a status that could not be written.
NoStray == \A d \in Devices : stray[d] = "none"

Paced(d) ==
    /\ next[d] = None => since[d] = Interval /\ poll[d] = "none"
    /\ next[d] # None => next[d] + since[d] >= Interval
    /\ poll[d] = "waiting" => next[d] = 0

RoundInv ==
    /\ TypeOK /\ SignalNotMissed
    /\ ~raised =>
          /\ NoStray
          /\ Cardinality(Asking(poll)) <= Concurrency
          /\ \A d \in Devices : Paced(d)

LEMMA Asked == ASSUME NEW p PROVE IsFiniteSet(Asking(p)) /\ Cardinality(Asking(p)) \in Nat
  <1>1. Asking(p) \subseteq Devices
    BY DEF Asking
  <1> QED  BY <1>1, PollingAssumption, FS_Subset, FS_CardinalityType

LEMMA InitRound == Init => RoundInv
  <1> SUFFICES ASSUME Init PROVE RoundInv
    OBVIOUS
  <1>1. TypeOK
    <2>1. /\ next \in [Devices -> (0 .. Interval) \cup {None}] /\ since \in [Devices -> 0 .. Interval]
          /\ wake \in 0 .. LongestSleep
      BY PollingAssumption DEF Init
    <2>2. {poll, stray} \subseteq [Devices -> Polls] /\ status \in [Devices -> {"unknown", "up", "down"}]
      BY DEF Init, Polls
    <2> QED  BY <2>1, <2>2 DEF Init, TypeOK
  <1>2. Asking(poll) = {}
    BY DEF Init, Asking
  <1>3. Cardinality(Asking(poll)) <= Concurrency
    BY <1>2, FS_EmptySet, PollingAssumption
  <1> QED  BY <1>1, <1>3, PollingAssumption DEF Init, RoundInv, SignalNotMissed, NoStray, Paced

-----------------------------------------------------------------------------
(* Types *)

LEMMA PollTyped ==
    ASSUME TypeOK, NEW d \in Devices, NEW p \in [Devices -> Polls], NEW q, PollStep(p, q, d)
    PROVE  /\ q \in [Devices -> Polls] /\ next' \in [Devices -> (0 .. Interval) \cup {None}]
           /\ status' \in [Devices -> {"unknown", "up", "down"}]
           /\ since' \in [Devices -> 0 .. Interval]
  BY PollingAssumption DEF PollStep, Moved, Polls, TypeOK

LEMMA NextTyped == TypeOK /\ [Next]_vars => TypeOK'
  <1> SUFFICES ASSUME TypeOK, [Next]_vars PROVE TypeOK'
    OBVIOUS
  <1> USE PollingAssumption
  <1>1. ASSUME ChangeDevices \/ Signal \/ TakeSignal \/ LoadFails \/ NoSignal \/ Wake PROVE TypeOK'
    BY <1>1 DEF ChangeDevices, Signal, TakeSignal, LoadFails, NoSignal, Wake, TypeOK, history
  <1>2. ASSUME Start \/ Load PROVE TypeOK'
    <2>1. next' = Scheduled(enabled)
      BY <1>2 DEF Start, Load
    <2>2. next' \in [Devices -> (0 .. Interval) \cup {None}]
      BY <2>1 DEF Scheduled, TypeOK
    <2> QED  BY <1>2, <2>2 DEF Start, Load, TypeOK, history
  <1>3. ASSUME StartRound PROVE TypeOK'
    BY <1>3 DEF StartRound, TypeOK, history, Polls
  <1>4. ASSUME Sleep PROVE TypeOK'
    <2>1. wake' \in 0 .. LongestSleep
      BY <1>4 DEF Sleep, Least, TypeOK
    <2> QED  BY <1>4, <2>1 DEF Sleep, TypeOK, history
  <1>5. ASSUME Tick PROVE TypeOK'
    BY <1>5 DEF Tick, TypeOK, history
  <1>6. ASSUME NEW d \in Devices, RoundStep(d) PROVE TypeOK'
    BY <1>6, PollTyped DEF RoundStep, TypeOK, history
  <1>7. ASSUME NEW d \in Devices, StrayStep(d) PROVE TypeOK'
    BY <1>7, PollTyped DEF StrayStep, TypeOK, history
  <1>8. ASSUME NEW d \in Devices, RoundFails(d) \/ StrayFails(d) PROVE TypeOK'
    <2>1. {poll', stray'} \subseteq [Devices -> Polls]
      BY <1>8 DEF RoundFails, StrayFails, TypeOK, Polls
    <2> QED  BY <1>8, <2>1 DEF RoundFails, StrayFails, TypeOK, history
  <1>9. ASSUME UNCHANGED vars PROVE TypeOK'
    BY <1>9 DEF vars, TypeOK
  <1> QED  BY <1>1, <1>2, <1>3, <1>4, <1>5, <1>6, <1>7, <1>8, <1>9 DEF Next, LoopStep

-----------------------------------------------------------------------------
(* The signal *)

LEMMA NextSignalled == TypeOK /\ SignalNotMissed /\ [Next]_vars => SignalNotMissed'
  BY DEF Next, LoopStep, ChangeDevices, Signal, Start, TakeSignal, Load, LoadFails, NoSignal, StartRound,
         Sleep, Wake, Tick, RoundStep, StrayStep, RoundFails, StrayFails, vars, history, TypeOK,
         SignalNotMissed

-----------------------------------------------------------------------------
(* The rounds *)

\* A poll that waits is asked only below the limit; any other step asks nobody anew.
LEMMA AskingKept ==
    ASSUME NEW d \in Devices, NEW p \in [Devices -> Polls], NEW q, PollStep(p, q, d),
           Cardinality(Asking(p)) <= Concurrency
    PROVE  Cardinality(Asking(q)) <= Concurrency
  <1>1. IsFiniteSet(Asking(p)) /\ Cardinality(Asking(p)) \in Nat
    BY Asked
  <1>2. CASE p[d] = "waiting"
    <2>1. q = [p EXCEPT ![d] = "asking"] /\ Cardinality(Asking(p)) < Concurrency
      BY <1>2 DEF PollStep, Ask
    <2>2. Asking(q) = Asking(p) \cup {d}
      BY <2>1, <1>2 DEF Asking
    <2>3. d \notin Asking(p)
      BY <1>2 DEF Asking
    <2>4. Cardinality(Asking(q)) = Cardinality(Asking(p)) + 1
      BY <1>1, <2>2, <2>3, FS_AddElement
    <2> QED  BY <1>1, <2>1, <2>4, PollingAssumption
  <1>3. CASE p[d] # "waiting"
    <2>1. Asking(q) \subseteq Asking(p)
      BY <1>3 DEF PollStep, Ask, Asking
    <2>2. Cardinality(Asking(q)) <= Cardinality(Asking(p)) /\ Cardinality(Asking(q)) \in Nat
      BY <1>1, <2>1, FS_Subset, Asked
    <2> QED  BY <1>1, <2>2, PollingAssumption
  <1> QED  BY <1>2, <1>3

LEMMA NextPaced == RoundInv /\ [Next]_vars => RoundInv'
  <1> SUFFICES ASSUME RoundInv, [Next]_vars PROVE RoundInv'
    OBVIOUS
  <1> USE PollingAssumption
  <1>1. TypeOK' /\ SignalNotMissed'
    BY NextTyped, NextSignalled DEF RoundInv
  <1>2. SUFFICES ASSUME ~raised'
                 PROVE  /\ NoStray' /\ Cardinality(Asking(poll')) <= Concurrency
                        /\ \A d \in Devices : Paced(d)'
    BY <1>1 DEF RoundInv, Asking
  <1>3. ~raised
    BY <1>2 DEF Next, LoopStep, ChangeDevices, Signal, Start, TakeSignal, Load, LoadFails, NoSignal,
                StartRound, Sleep, Wake, Tick, RoundStep, StrayStep, RoundFails, StrayFails, vars, history
  <1>4. /\ NoStray /\ Cardinality(Asking(poll)) <= Concurrency
        /\ \A d \in Devices : Paced(d)
    BY <1>3 DEF RoundInv
  <1> DEFINE Kept == /\ NoStray' /\ Cardinality(Asking(poll')) <= Concurrency
                     /\ \A d \in Devices : Paced(d)'
  <1>5. ASSUME ChangeDevices \/ Signal \/ TakeSignal \/ LoadFails \/ NoSignal \/ Wake \/ Sleep
               \/ UNCHANGED vars
        PROVE  Kept
    BY <1>4, <1>5 DEF ChangeDevices, Signal, TakeSignal, LoadFails, NoSignal, Wake, Sleep, vars, NoStray, Paced
  <1>6. ASSUME Start \/ Load PROVE Kept
    BY <1>1, <1>4, <1>6 DEF Start, Load, Scheduled, NoStray, Paced, RoundInv, TypeOK
  <1>7. ASSUME StartRound PROVE Kept
    <2>1. Asking(poll') = {}
      BY <1>7 DEF StartRound, Asking
    <2>2. Cardinality(Asking(poll')) <= Concurrency
      BY <2>1, FS_EmptySet
    <2> QED  BY <1>4, <1>7, <2>2 DEF StartRound, NoStray, Paced, RoundInv, TypeOK
  <1>8. ASSUME Tick PROVE Kept
    BY <1>1, <1>4, <1>8 DEF Tick, NoStray, Paced, RoundInv, TypeOK
  <1>9. ASSUME NEW d \in Devices, RoundStep(d) PROVE Kept
    <2>1. poll \in [Devices -> Polls] /\ PollStep(poll, poll', d)
      BY <1>9 DEF RoundStep, RoundInv, TypeOK
    <2>2. Cardinality(Asking(poll')) <= Concurrency
      BY <1>4, <2>1, AskingKept
    <2>3. \A e \in Devices : Paced(e)'
      BY <1>1, <1>4, <2>1 DEF PollStep, Ask, Moved, Paced, RoundInv, TypeOK
    <2> QED  BY <1>4, <1>9, <2>2, <2>3 DEF RoundStep, NoStray
  <1>10. ASSUME NEW d \in Devices, StrayStep(d) \/ RoundFails(d) \/ StrayFails(d) PROVE Kept
    BY <1>2, <1>4, <1>10 DEF StrayStep, PollStep, Ask, RoundFails, StrayFails, NoStray
  <1> QED  BY <1>5, <1>6, <1>7, <1>8, <1>9, <1>10 DEF Next, LoopStep

THEOREM RoundInductive == Spec => []RoundInv
  BY InitRound, NextPaced, PTL DEF Spec

-----------------------------------------------------------------------------
(* What follows *)

\* Whatever fails, no change of the devices is missed and no more polls than
\* configured are under way (poll_engine.py _run).
THEOREM RoundsHold == Spec => []RoundsKept
  <1>1. RoundInv => RoundsKept
    <2> SUFFICES ASSUME RoundInv, ~raised
                 PROVE  Cardinality(Asking(poll) \cup Asking(stray)) <= Concurrency
      BY DEF RoundInv, RoundsKept, ConcurrencyKept
    <2>1. Asking(stray) = {}
      BY DEF RoundInv, NoStray, Asking
    <2>2. Asking(poll) \cup Asking(stray) = Asking(poll)
      BY <2>1
    <2> QED  BY <2>2 DEF RoundInv
  <1> QED  BY <1>1, RoundInductive, PTL

\* Nobody is asked again before an interval is over (poll_engine.py poll_with_sem).
THEOREM SpacedAlways == Spec => PollsAreSpaced
  <1>1. RoundInv /\ [Next]_vars =>
            [\A d \in Devices : poll[d] = "waiting" /\ poll'[d] = "asking" /\ ~raised
                                => since[d] = Interval]_vars
    BY PollingAssumption DEF RoundInv, Paced, TypeOK
  <1> QED  BY <1>1, RoundInductive, PTL DEF Spec, PollsAreSpaced

-----------------------------------------------------------------------------
(* The time-series store (TimeSeries)                                       *)

Points == Series \X Int

\* A table lacks only rows of another that a cleanup has removed.
Covers(table, other, cut) == \A r \in other \ table : r[2] < cut

\* A task: what it has inserted is in the tables as the connection sees them, what it
\* is about to answer for is on the disk, and no cutoff is newer than the newest.
Job(x, seen, written, cut) ==
    \/ x = [pc |-> "idle"]
    \/ /\ x = [pc |-> x.pc, batch |-> x.batch]
       /\ x.pc \in {"insert", "upsert", "commit", "answer"} /\ x.batch \in Seq(Points)
       /\ x.pc \in {"upsert", "commit"} => Covers(seen, Data!Range(x.batch), cut)
       /\ x.pc = "answer" => Covers(written, Data!Range(x.batch), cut)
    \/ /\ x = [pc |-> x.pc, table |-> x.table, cutoff |-> x.cutoff, more |-> x.more]
       /\ x.pc \in {"prune", "pruned"} /\ x.table \in {"traps", "results"} /\ x.more \in BOOLEAN
       /\ x.cutoff \in Int /\ x.cutoff <= cut

Tables(x) ==
    /\ x = [rows |-> x.rows, latest |-> x.latest]
    /\ x.rows \subseteq Points /\ IsFiniteSet(x.rows)

StoreInv ==
    /\ now \in Nat /\ days \in Int /\ pruned \in Int
    /\ Tables(store) /\ Tables(disk) /\ Covers(store.rows, disk.rows, pruned)
    /\ task = [t \in Tasks |-> task[t]]
    /\ \A t \in Tasks : Job(task[t], store.rows, disk.rows, pruned)

LEMMA Finite ==
    /\ \A A : Data!Cardinality(A) = Cardinality(A)
    /\ \A A : Data!IsFiniteSet(A) = IsFiniteSet(A)
  BY DEF Data!Cardinality, Cardinality, Data!IsFiniteSet, IsFiniteSet

\* The points of a batch, and of a part of it.
LEMMA BatchIs ==
    ASSUME NEW batch \in Seq(Points)
    PROVE  /\ Data!Range(batch) \subseteq Points /\ IsFiniteSet(Data!Range(batch))
           /\ \A some \in Data!Prefixes(batch) : Data!Range(some) \subseteq Data!Range(batch)
  <1> DEFINE R == Data!Range(batch)
  <1>1. R = {batch[i] : i \in 1 .. Len(batch)} /\ R \subseteq Points
    BY DEF Data!Range
  <1>2. batch \in Seq(R)
    BY <1>1
  <1>3. IsFiniteSet(R)
    BY <1>1, <1>2 DEF IsFiniteSet
  <1>4. ASSUME NEW l \in 0 .. Len(batch)
        PROVE  Data!Range(SubSeq(batch, 1, l)) \subseteq R
    BY <1>1, <1>4 DEF Data!Range
  <1> QED  BY <1>1, <1>3, <1>4 DEF Data!Prefixes

\* A task of a step of another: the rows are those there were or more, but for what
\* was removed by a cleanup.
LEMMA JobKept ==
    ASSUME NEW x, NEW s, NEW d, NEW c \in Int, Job(x, s, d, c),
           NEW s2, NEW d2, NEW c2 \in Int, c <= c2, Covers(s2, s, c2), Covers(d2, d, c2)
    PROVE  Job(x, s2, d2, c2)
  <1>1. ASSUME x.batch \in Seq(Points), NEW a, NEW b, Covers(a, Data!Range(x.batch), c), Covers(b, a, c2)
        PROVE  Covers(b, Data!Range(x.batch), c2)
    <2>1. Data!Range(x.batch) \subseteq Points
      BY <1>1, BatchIs
    <2> QED  BY <1>1, <2>1 DEF Covers, Points
  <1>2. CASE x = [pc |-> "idle"]
    BY <1>2 DEF Job
  <1>3. CASE x.pc \in {"insert", "upsert", "commit", "answer"}
    BY <1>1, <1>3 DEF Job
  <1>4. CASE x.pc \in {"prune", "pruned"}
    BY <1>4 DEF Job
  <1> QED  BY <1>2, <1>3, <1>4 DEF Job

\* A task takes a step.
LEMMA JobMoves ==
    ASSUME StoreInv, NEW t \in Tasks, NEW x, task' = [task EXCEPT ![t] = x],
           now' = now, days' = days, pruned' \in Int, pruned <= pruned',
           Tables(store)', Tables(disk)', Covers(store.rows, disk.rows, pruned)',
           Covers(store'.rows, store.rows, pruned'), Covers(disk'.rows, disk.rows, pruned'),
           Job(x, store'.rows, disk'.rows, pruned')
    PROVE  StoreInv'
  <1>1. ASSUME NEW u \in Tasks PROVE Job(task'[u], store'.rows, disk'.rows, pruned')
    <2>1. CASE u = t
      BY <2>1 DEF StoreInv
    <2>2. CASE u # t
      <3>1. task'[u] = task[u] /\ Job(task[u], store.rows, disk.rows, pruned)
        BY <2>2 DEF StoreInv
      <3> QED  BY <3>1, JobKept DEF StoreInv
    <2> QED  BY <2>1, <2>2
  <1>2. task' = [u \in Tasks |-> task'[u]]
    BY DEF StoreInv
  <1> QED  BY <1>1, <1>2 DEF StoreInv

LEMMA Onwards ==
    ASSUME NEW t, NEW pc, task[t] = [pc |-> task[t].pc, batch |-> task[t].batch],
           task' = [task EXCEPT ![t].pc = pc]
    PROVE  task' = [task EXCEPT ![t] = [pc |-> pc, batch |-> task[t].batch]]
  <1> DEFINE y == task[t]
             z == [y EXCEPT !.pc = pc]
  <1>1. task' = [task EXCEPT ![t] = z]
    OBVIOUS
  <1>2. y = [pc |-> y.pc, batch |-> y.batch]
    OBVIOUS
  <1> HIDE DEF y
  <1>3. z = [pc |-> pc, batch |-> y.batch]
    BY <1>2
  <1> HIDE DEF z
  <1> QED  BY <1>1, <1>3 DEF y

LEMMA IdleJob == \A s, d, c : Job(Data!Idle, s, d, c)
  BY DEF Job, Data!Idle

LEMMA CoversSelf == \A s, d, c : s \subseteq d => Covers(d, s, c)
  BY DEF Covers

\* Of a step that leaves the tables alone.
LEMMA StandStill ==
    ASSUME StoreInv, NEW t \in Tasks, NEW x, task' = [task EXCEPT ![t] = x],
           UNCHANGED <<now, days, store, disk, pruned>>, Job(x, store.rows, disk.rows, pruned)
    PROVE  StoreInv'
  <1>1. Tables(store)' /\ Tables(disk)' /\ Covers(store.rows, disk.rows, pruned)' /\ pruned <= pruned'
    BY DEF StoreInv, Tables
  <1>2. Covers(store'.rows, store.rows, pruned') /\ Covers(disk'.rows, disk.rows, pruned')
    BY DEF Covers
  <1> QED  BY <1>1, <1>2, JobMoves DEF StoreInv

-----------------------------------------------------------------------------
(* Its steps *)

LEMMA ArriveMoves ==
    ASSUME StoreInv, NEW t \in Tasks, Data!Arrive(t)
    PROVE  StoreInv'
  <1>1. PICK shape \in Shapes :
           task' = [task EXCEPT ![t] =
               [pc |-> "insert", batch |-> [i \in DOMAIN shape |-> <<shape[i][1], now - shape[i][2]>>]]]
    BY DEF Data!Arrive
  <1> DEFINE batch == [i \in DOMAIN shape |-> <<shape[i][1], now - shape[i][2]>>]
             x == [pc |-> "insert", batch |-> batch]
  <1>2. shape \in Seq(Series \X Nat)
    BY StoreAssumption DEF Data!SeriesAssumption
  <1>3. \A i \in DOMAIN shape : shape[i] \in Series \X Nat
    BY <1>2
  <1>4. \A i \in DOMAIN shape : <<shape[i][1], now - shape[i][2]>> \in Points
    BY <1>3 DEF StoreInv, Points
  <1>5. batch \in Seq(Points)
    BY <1>2, <1>4
  <1> HIDE DEF batch
  <1>6. Job(x, store.rows, disk.rows, pruned)
    BY <1>5 DEF Job
  <1>7. UNCHANGED <<now, days, store, disk, pruned>>
    BY DEF Data!Arrive
  <1>8. task' = [task EXCEPT ![t] = x]
    BY <1>1 DEF batch
  <1> HIDE DEF x
  <1> QED  BY <1>6, <1>7, <1>8, StandStill

\* A batch, or a part of it, is written.
LEMMA InsertMoves ==
    ASSUME StoreInv, NEW t \in Tasks, Data!Insert(t)
    PROVE  StoreInv'
  <1> DEFINE b == task[t].batch
  <1>1. /\ task[t].pc = "insert" /\ UNCHANGED <<now, days, disk, pruned>>
        /\ task[t] = [pc |-> task[t].pc, batch |-> b] /\ b \in Seq(Points)
    BY DEF Data!Insert, StoreInv, Job
  <1>2. /\ Data!Range(b) \subseteq Points /\ IsFiniteSet(Data!Range(b))
        /\ \A some \in Data!Prefixes(b) : Data!Range(some) \subseteq Data!Range(b)
    BY <1>1, BatchIs
  <1>3. PICK pc \in {"upsert", "commit"}, added \in SUBSET Data!Range(b) :
           /\ store' = [store EXCEPT !.rows = @ \cup added]
           /\ \/ task' = [task EXCEPT ![t].pc = pc] /\ added = Data!Range(b)
              \/ task' = [task EXCEPT ![t] = Data!Idle]
    BY <1>2 DEF Data!Insert, Data!Fail
  <1>4. /\ store' = [rows |-> store.rows \cup added, latest |-> store.latest]
        /\ disk' = disk /\ pruned' = pruned
    BY <1>1, <1>3 DEF StoreInv, Tables
  <1>5. IsFiniteSet(added) /\ added \subseteq Points
    BY <1>2, FS_Subset
  <1>6. IsFiniteSet(store.rows \cup added)
    BY <1>5, FS_Union DEF StoreInv, Tables
  <1>7. Tables(store)' /\ Tables(disk)'
    BY <1>4, <1>5, <1>6 DEF StoreInv, Tables
  <1>8. /\ Covers(store.rows, disk.rows, pruned)'
        /\ Covers(store'.rows, store.rows, pruned') /\ Covers(disk'.rows, disk.rows, pruned')
    BY <1>4 DEF StoreInv, Covers
  <1>9. CASE task' = [task EXCEPT ![t].pc = pc] /\ added = Data!Range(b)
    <2> DEFINE x == [pc |-> pc, batch |-> b]
    <2>1. task' = [task EXCEPT ![t] = x]
      BY <1>1, <1>9, Onwards
    <2>2. Job(x, store'.rows, disk'.rows, pruned')
      BY <1>1, <1>4, <1>9, CoversSelf DEF Job
    <2> HIDE DEF x
    <2> QED  BY <1>1, <1>7, <1>8, <2>1, <2>2, JobMoves DEF StoreInv
  <1>10. CASE task' = [task EXCEPT ![t] = Data!Idle]
    BY <1>1, <1>7, <1>8, <1>10, IdleJob, JobMoves DEF StoreInv
  <1> QED  BY <1>3, <1>9, <1>10

\* Last values are no rows.
LEMMA UpsertMoves ==
    ASSUME StoreInv, NEW t \in Tasks, Data!Upsert(t)
    PROVE  StoreInv'
  <1> DEFINE b == task[t].batch
  <1>1. /\ task[t].pc = "upsert" /\ UNCHANGED <<now, days, disk, pruned>>
        /\ task[t] = [pc |-> task[t].pc, batch |-> b] /\ b \in Seq(Points)
        /\ Covers(store.rows, Data!Range(b), pruned)
    BY DEF Data!Upsert, StoreInv, Job
  <1>2. PICK latest :
           /\ store' = [store EXCEPT !.latest = latest]
           /\ task' = [task EXCEPT ![t].pc = "commit"] \/ task' = [task EXCEPT ![t] = Data!Idle]
    <2>1. PICK all \in Data!LatestRows(b) :
             \/ /\ store' = [store EXCEPT !.latest = Data!Replaced(@, all)]
                /\ task' = [task EXCEPT ![t].pc = "commit"]
             \/ \E some \in Data!Prefixes(all) :
                    store' = [store EXCEPT !.latest = Data!Replaced(@, some)] /\ Data!Fail(t, TRUE)
      BY DEF Data!Upsert
    <2> QED  BY <2>1 DEF Data!Fail
  <1>3. store' = [rows |-> store.rows, latest |-> latest] /\ disk' = disk /\ pruned' = pruned
    BY <1>1, <1>2 DEF StoreInv, Tables
  <1>4. Tables(store)' /\ Tables(disk)'
    BY <1>3 DEF StoreInv, Tables
  <1>5. /\ Covers(store.rows, disk.rows, pruned)'
        /\ Covers(store'.rows, store.rows, pruned') /\ Covers(disk'.rows, disk.rows, pruned')
    BY <1>3 DEF StoreInv, Covers
  <1>6. CASE task' = [task EXCEPT ![t].pc = "commit"]
    <2> DEFINE x == [pc |-> "commit", batch |-> b]
    <2>1. task' = [task EXCEPT ![t] = x]
      BY <1>1, <1>6, Onwards
    <2>2. Job(x, store'.rows, disk'.rows, pruned')
      BY <1>1, <1>3 DEF Job
    <2> HIDE DEF x
    <2> QED  BY <1>1, <1>4, <1>5, <2>1, <2>2, JobMoves DEF StoreInv
  <1>7. CASE task' = [task EXCEPT ![t] = Data!Idle]
    BY <1>1, <1>4, <1>5, <1>7, IdleJob, JobMoves DEF StoreInv
  <1> QED  BY <1>2, <1>6, <1>7

\* A COMMIT commits what everybody has written.
LEMMA CommitMoves ==
    ASSUME StoreInv, NEW t \in Tasks, Data!Commit(t)
    PROVE  StoreInv'
  <1> DEFINE b == task[t].batch
             x == [pc |-> "answer", batch |-> b]
  <1>1. /\ task[t].pc = "commit" /\ UNCHANGED <<now, days, store, pruned>>
        /\ task[t] = [pc |-> task[t].pc, batch |-> b] /\ b \in Seq(Points)
        /\ Covers(store.rows, Data!Range(b), pruned)
    BY DEF Data!Commit, StoreInv, Job
  <1>2. CASE disk' = store /\ task' = [task EXCEPT ![t].pc = "answer"]
    <2>1. Tables(store)' /\ Tables(disk)'
      BY <1>1, <1>2 DEF StoreInv, Tables
    <2>2. /\ Covers(store.rows, disk.rows, pruned)'
          /\ Covers(store'.rows, store.rows, pruned') /\ Covers(disk'.rows, disk.rows, pruned')
      BY <1>1, <1>2 DEF StoreInv, Covers
    <2>3. task' = [task EXCEPT ![t] = x]
      BY <1>1, <1>2, Onwards
    <2>4. Job(x, store'.rows, disk'.rows, pruned')
      BY <1>1, <1>2 DEF Job
    <2> HIDE DEF x
    <2> QED  BY <1>1, <2>1, <2>2, <2>3, <2>4, JobMoves DEF StoreInv
  <1>3. CASE UNCHANGED disk /\ Data!Fail(t, TRUE)
    BY <1>1, <1>3, StandStill, IdleJob DEF Data!Fail
  <1> QED  BY <1>2, <1>3 DEF Data!Commit

LEMMA EndsMove ==
    ASSUME StoreInv, NEW t \in Tasks, Data!Answer(t) \/ Data!StopCleanup(t)
    PROVE  StoreInv'
  BY StandStill, IdleJob DEF Data!Answer, Data!StopCleanup

\* A cleanup starts; the newest cutoff is the largest there was.
LEMMA StartMoves ==
    ASSUME StoreInv, NEW t \in Tasks, Data!StartCleanup(t)
    PROVE  StoreInv'
  <1> DEFINE cutoff == now - days
             x == [pc |-> "prune", table |-> "traps", cutoff |-> cutoff, more |-> FALSE]
  <1>1. /\ task' = [task EXCEPT ![t] = x] /\ UNCHANGED <<now, days, store, disk>>
        /\ pruned' = IF cutoff > pruned THEN cutoff ELSE pruned
    BY DEF Data!StartCleanup
  <1>2. cutoff \in Int /\ pruned \in Int
    BY DEF StoreInv
  <1> HIDE DEF cutoff
  <1>3. pruned' \in Int /\ pruned <= pruned' /\ cutoff <= pruned'
    BY <1>1, <1>2
  <1>4. Job(x, store'.rows, disk'.rows, pruned')
    BY <1>2, <1>3 DEF Job
  <1>5. Tables(store)' /\ Tables(disk)'
    BY <1>1 DEF StoreInv, Tables
  <1>6. /\ Covers(store.rows, disk.rows, pruned)'
        /\ Covers(store'.rows, store.rows, pruned') /\ Covers(disk'.rows, disk.rows, pruned')
    BY <1>1, <1>2, <1>3 DEF StoreInv, Covers, Tables, Points
  <1> HIDE DEF x
  <1> QED  BY <1>1, <1>3, <1>4, <1>5, <1>6, JobMoves

\* A bounded DELETE removes what is older than the cutoff; when it was not a full one,
\* it has removed everything.
LEMMA PruneIs ==
    ASSUME StoreInv, NEW t \in Tasks, Data!Prune(t)
    PROVE  LET x == task[t]
               y == task'[t]
           IN  /\ x.pc = "prune" /\ y.pc = "pruned" /\ y.more \in BOOLEAN
               /\ y = [pc |-> y.pc, table |-> x.table, cutoff |-> x.cutoff, more |-> y.more]
               /\ task' = [task EXCEPT ![t] = y]
               /\ x.table \in {"traps", "results"} /\ x.cutoff \in Int /\ x.cutoff <= pruned
               /\ store' = [rows |-> store'.rows, latest |-> store.latest]
               /\ store'.rows \subseteq store.rows
               /\ \A r \in store.rows \ store'.rows : r[2] < x.cutoff
               /\ ~y.more => \A r \in store'.rows : r[2] < x.cutoff => (r[1] \in Traps <=> x.table = "results")
               /\ UNCHANGED <<now, days, disk, pruned>>
  <1> DEFINE x == task[t]
             E == Data!Expired(t)
  <1>1. PICK some \in SUBSET E :
           /\ Cardinality(some) = Data!Min({Chunk, Cardinality(E)})
           /\ store' = [store EXCEPT !.rows = @ \ some]
           /\ task' = [task EXCEPT ![t].pc = "pruned", ![t].more = Cardinality(some) = Chunk]
    BY Finite DEF Data!Prune
  <1>2. /\ x = [pc |-> x.pc, table |-> x.table, cutoff |-> x.cutoff, more |-> x.more]
        /\ x.pc = "prune" /\ x.table \in {"traps", "results"}
        /\ x.cutoff \in Int /\ x.cutoff <= pruned
    BY DEF Data!Prune, StoreInv, Job
  <1>3. E = {r \in store.rows : r[2] < x.cutoff /\ (r[1] \in Traps <=> x.table = "traps")}
    BY DEF Data!Expired, Data!At
  <1> DEFINE full == Cardinality(some) = Chunk
             y == [x EXCEPT !.pc = "pruned", !.more = full]
  <1>4. task' = [task EXCEPT ![t] = y]
    BY <1>1
  <1>5. y = [pc |-> "pruned", table |-> x.table, cutoff |-> x.cutoff, more |-> full]
    <2> HIDE DEF x, full
    <2> DEFINE z == [x EXCEPT !.pc = "pruned"]
    <2>1. z = [pc |-> "pruned", table |-> x.table, cutoff |-> x.cutoff, more |-> x.more]
      BY <1>2
    <2>2. y = [z EXCEPT !.more = full]
      OBVIOUS
    <2> HIDE DEF z, y
    <2>3. [z EXCEPT !.more = full] = [pc |-> z.pc, table |-> z.table, cutoff |-> z.cutoff, more |-> full]
      BY <2>1
    <2> QED  BY <2>1, <2>2, <2>3
  <1> HIDE DEF y, E, x
  <1>6. task'[t] = y /\ y.more = full /\ full \in BOOLEAN
    BY <1>4, <1>5 DEF StoreInv, full
  <1>7. store' = [rows |-> store.rows \ some, latest |-> store.latest]
    BY <1>1 DEF StoreInv, Tables
  <1>8. IsFiniteSet(E) /\ Cardinality(E) \in Nat /\ Chunk \in Nat
    BY <1>3, FS_Subset, FS_CardinalityType, StoreAssumption DEF StoreInv, Tables, Data!BoundsAssumption
  <1>9. ASSUME ~full PROVE some = E
    <2> DEFINE m == Data!Min({Chunk, Cardinality(E)})
    <2>1. m \in {Chunk, Cardinality(E)}
      <3>1. \E i \in {Chunk, Cardinality(E)} : \A j \in {Chunk, Cardinality(E)} : i <= j
        BY <1>8
      <3> QED  BY <3>1 DEF Data!Min
    <2>2. Cardinality(some) = Cardinality(E)
      BY <1>1, <1>9, <2>1 DEF full
    <2> QED  BY <1>8, <2>2, FS_Subset
  <1> HIDE DEF full
  <1>10. store'.rows = store.rows \ some
    BY <1>7
  <1>11. \A r \in store.rows \ store'.rows : r[2] < x.cutoff
    BY <1>3, <1>10
  <1>12. ASSUME ~full, NEW r \in store'.rows, r[2] < x.cutoff
         PROVE  r[1] \in Traps <=> x.table = "results"
    BY <1>2, <1>3, <1>9, <1>10, <1>12
  <1>13. UNCHANGED <<now, days, disk, pruned>>
    BY DEF Data!Prune
  <1>14. task' = [task EXCEPT ![t] = task'[t]]
    BY <1>4, <1>6
  <1>15. store' = [rows |-> store'.rows, latest |-> store.latest] /\ store'.rows \subseteq store.rows
    BY <1>7, <1>10
  <1>16. /\ y.pc = "pruned" /\ y.more \in BOOLEAN
         /\ y = [pc |-> y.pc, table |-> x.table, cutoff |-> x.cutoff, more |-> y.more]
    BY <1>5, <1>6
  <1>17. ~y.more => \A r \in store'.rows : r[2] < x.cutoff => (r[1] \in Traps <=> x.table = "results")
    BY <1>6, <1>12
  <1> QED
    BY <1>2, <1>6, <1>11, <1>13, <1>14, <1>15, <1>16, <1>17 DEF x

LEMMA PruneMoves ==
    ASSUME StoreInv, NEW t \in Tasks, Data!Prune(t)
    PROVE  StoreInv'
  <1> DEFINE x == task[t]
             y == task'[t]
  <1>1. /\ y.pc = "pruned" /\ y.more \in BOOLEAN
        /\ y = [pc |-> y.pc, table |-> x.table, cutoff |-> x.cutoff, more |-> y.more]
        /\ task' = [task EXCEPT ![t] = y]
        /\ x.table \in {"traps", "results"} /\ x.cutoff \in Int /\ x.cutoff <= pruned
        /\ store' = [rows |-> store'.rows, latest |-> store.latest]
        /\ store'.rows \subseteq store.rows
        /\ \A r \in store.rows \ store'.rows : r[2] < x.cutoff
        /\ now' = now /\ days' = days /\ disk' = disk /\ pruned' = pruned
    BY PruneIs
  <1> HIDE DEF x
  <1>2. Tables(store)' /\ Tables(disk)'
    <2>1. IsFiniteSet(store'.rows) /\ store'.rows \subseteq Points
      BY <1>1, FS_Subset DEF StoreInv, Tables
    <2>2. store' = [rows |-> store'.rows, latest |-> store'.latest]
      BY <1>1
    <2> QED  BY <1>1, <2>1, <2>2 DEF StoreInv, Tables
  <1>3. Covers(store'.rows, store.rows, pruned') /\ Covers(disk'.rows, disk.rows, pruned')
    BY <1>1 DEF Covers, StoreInv, Tables, Points
  <1>4. Covers(store.rows, disk.rows, pruned)'
    BY <1>1, <1>3 DEF Covers, StoreInv, Tables
  <1> DEFINE z == [pc |-> "pruned", table |-> x.table, cutoff |-> x.cutoff, more |-> y.more]
  <1>5. y = z /\ Job(z, store'.rows, disk'.rows, pruned')
    BY <1>1 DEF Job
  <1>6. Job(y, store'.rows, disk'.rows, pruned') /\ pruned <= pruned' /\ pruned' \in Int
    BY <1>1, <1>5 DEF StoreInv
  <1> HIDE DEF z
  <1> QED  BY <1>1, <1>2, <1>3, <1>4, <1>6, JobMoves

LEMMA CommitPruneMoves ==
    ASSUME StoreInv, NEW t \in Tasks, Data!CommitPrune(t)
    PROVE  StoreInv'
  <1> DEFINE x == task[t]
             y == task'[t]
  <1>1. /\ disk' = store /\ UNCHANGED <<now, days, store, pruned>>
        /\ x.pc = "pruned"
        /\ task' = [task EXCEPT ![t] =
               IF x.more THEN [x EXCEPT !.pc = "prune"]
               ELSE IF x.table = "traps" THEN [x EXCEPT !.pc = "prune", !.table = "results"]
               ELSE Data!Idle]
    BY DEF Data!CommitPrune
  <1>2. /\ x = [pc |-> x.pc, table |-> x.table, cutoff |-> x.cutoff, more |-> x.more]
        /\ x.table \in {"traps", "results"} /\ x.more \in BOOLEAN
        /\ x.cutoff \in Int /\ x.cutoff <= pruned
    BY <1>1 DEF StoreInv, Job
  <1>3. Tables(store)' /\ Tables(disk)'
    BY <1>1 DEF StoreInv, Tables
  <1>4. /\ Covers(store.rows, disk.rows, pruned)'
        /\ Covers(store'.rows, store.rows, pruned') /\ Covers(disk'.rows, disk.rows, pruned')
    BY <1>1 DEF StoreInv, Covers
  <1> HIDE DEF x
  <1> DEFINE p == [x EXCEPT !.pc = "prune"]
  <1>5. p = [pc |-> "prune", table |-> x.table, cutoff |-> x.cutoff, more |-> x.more]
    BY <1>2
  <1>6. [x EXCEPT !.pc = "prune", !.table = "results"] = [p EXCEPT !.table = "results"]
    OBVIOUS
  <1> HIDE DEF p
  <1> DEFINE n == [p EXCEPT !.table = "results"]
  <1>7. n = [pc |-> "prune", table |-> "results", cutoff |-> x.cutoff, more |-> x.more]
    BY <1>5
  <1>8. Job(p, store'.rows, disk'.rows, pruned') /\ Job(n, store'.rows, disk'.rows, pruned')
    BY <1>1, <1>2, <1>5, <1>7 DEF Job
  <1> HIDE DEF n
  <1>9. PICK z \in {p, n, Data!Idle} : task' = [task EXCEPT ![t] = z]
    BY <1>1, <1>6 DEF p, n
  <1>10. Job(z, store'.rows, disk'.rows, pruned')
    BY <1>8, <1>9, IdleJob
  <1> QED  BY <1>1, <1>3, <1>4, <1>9, <1>10, JobMoves DEF StoreInv

\* The process starts again: on what has been committed, without tasks.
LEMMA RestartMoves ==
    ASSUME StoreInv, Data!Restart
    PROVE  StoreInv' /\ disk'.rows = disk.rows
  <1>1. /\ store' = Data!Backfilled(disk) /\ disk' = store' /\ UNCHANGED <<now, days, pruned>>
        /\ task' = [t \in Tasks |-> Data!Idle]
    BY DEF Data!Restart
  <1>2. PICK latest : Data!Backfilled(disk) = disk \/ Data!Backfilled(disk) = [disk EXCEPT !.latest = latest]
    BY DEF Data!Backfilled
  <1>3. disk = [rows |-> disk.rows, latest |-> disk.latest]
    BY DEF StoreInv, Tables
  <1>4. Data!Backfilled(disk) = disk \/ Data!Backfilled(disk) = [rows |-> disk.rows, latest |-> latest]
    BY <1>2, <1>3
  <1>5. store'.rows = disk.rows /\ disk'.rows = disk.rows /\ Tables(store)' /\ Tables(disk)'
    BY <1>1, <1>3, <1>4 DEF StoreInv, Tables
  <1>6. Covers(store.rows, disk.rows, pruned)'
    BY <1>5 DEF Covers
  <1> QED  BY <1>1, <1>5, <1>6, IdleJob DEF StoreInv

LEMMA StoreStep ==
    ASSUME StoreInv, Data!Next
    PROVE  StoreInv'
  <1>1. ASSUME NEW t \in Tasks, Data!TaskStep(t) PROVE StoreInv'
    BY <1>1, ArriveMoves, InsertMoves, UpsertMoves, CommitMoves, EndsMove, StartMoves, PruneMoves,
       CommitPruneMoves
    DEF Data!TaskStep, Data!Scheduled, Data!Manual
  <1>2. CASE Data!Tick
    <2>1. now' \in Nat /\ UNCHANGED <<days, store, disk, task, pruned>>
      BY <1>2 DEF Data!Tick, StoreInv
    <2> QED  BY <2>1 DEF StoreInv, Tables
  <1> QED  BY <1>1, <1>2, RestartMoves DEF Data!Next

LEMMA StoreStart == Data!Init => StoreInv
  <1> SUFFICES ASSUME Data!Init PROVE StoreInv
    OBVIOUS
  <1>1. days \in Int /\ now = 0 /\ pruned = 0
    BY StoreAssumption DEF Data!Init, Data!BoundsAssumption
  <1>2. store = [rows |-> {}, latest |-> [s \in Known |-> Never]] /\ disk = store
    BY DEF Data!Init
  <1>3. Tables(store) /\ Tables(disk) /\ Covers(store.rows, disk.rows, pruned)
    BY <1>2, FS_EmptySet DEF Tables, Covers
  <1> QED  BY <1>1, <1>3, IdleJob DEF Data!Init, StoreInv

\* No row leaves the disk but by a cleanup, whatever task commits.
LEMMA RowsStay ==
    ASSUME StoreInv, Data!Next, NEW r \in disk.rows \ disk'.rows
    PROVE  r[2] < pruned
  <1>1. disk' = disk \/ disk' = store \/ disk'.rows = disk.rows
    <2>1. ASSUME NEW t \in Tasks, Data!TaskStep(t) PROVE disk' = disk \/ disk' = store
      BY <2>1 DEF Data!TaskStep, Data!Arrive, Data!Insert, Data!Upsert, Data!Commit, Data!Answer,
        Data!Scheduled, Data!Manual, Data!StartCleanup, Data!Prune, Data!CommitPrune, Data!StopCleanup
    <2> QED  BY <2>1, RestartMoves DEF Data!Next, Data!Tick
  <1> QED  BY <1>1 DEF StoreInv, Covers

\* What is answered for is on the disk.
LEMMA AnsweredStays ==
    ASSUME StoreInv, Data!Next, NEW t \in Tasks, task'[t].pc = "answer", NEW i \in DOMAIN task'[t].batch
    PROVE  task'[t].batch[i] \in disk'.rows \/ task'[t].batch[i][2] < pruned
  <1>1. StoreInv'
    BY StoreStep
  <1>2. ASSUME NEW x, NEW s, NEW d, NEW c, Job(x, s, d, c), x.pc = "answer", NEW j \in DOMAIN x.batch
        PROVE  x.batch[j] \in d \/ x.batch[j][2] < c
    BY <1>2 DEF Job, Covers, Data!Range
  <1>3. CASE pruned' = pruned
    <2>1. Job(task'[t], store'.rows, disk'.rows, pruned')
      BY <1>1 DEF StoreInv
    <2> QED  BY <1>2, <1>3, <2>1
  <1>4. CASE pruned' # pruned
    <2>1. PICK u \in Tasks : Data!StartCleanup(u)
      <3>1. PICK u \in Tasks : Data!TaskStep(u)
        BY <1>4 DEF Data!Next, Data!Restart, Data!Tick
      <3> QED
        BY <1>4, <3>1 DEF Data!TaskStep, Data!Arrive, Data!Insert, Data!Upsert, Data!Commit, Data!Answer,
          Data!Scheduled, Data!Manual, Data!Prune, Data!CommitPrune, Data!StopCleanup
    <2>2. t # u /\ task'[t] = task[t] /\ disk' = disk
      BY <2>1 DEF Data!StartCleanup, StoreInv
    <2>3. Job(task[t], store.rows, disk.rows, pruned)
      BY DEF StoreInv
    <2> QED  BY <1>2, <2>2, <2>3
  <1> QED  BY <1>3, <1>4

\* A cleanup that goes on to the next table has left nothing of this one.
LEMMA PruneEnds ==
    ASSUME StoreInv, Data!Next, NEW t \in Tasks,
           task[t].pc = "prune", task'[t].pc = "pruned", ~task'[t].more,
           NEW r \in store'.rows, r[2] < task[t].cutoff
    PROVE  r[1] \in Traps <=> task[t].table = "results"
  <1>1. Data!Prune(t)
    <2>1. ~Data!Tick /\ ~Data!Restart
      BY DEF Data!Tick, Data!Restart, Data!Idle
    <2>2. PICK u \in Tasks : Data!TaskStep(u)
      BY <2>1 DEF Data!Next
    <2>3. \E x : task' = [task EXCEPT ![u] = x]
      BY <2>2 DEF Data!TaskStep, Data!Arrive, Data!Insert, Data!Upsert, Data!Commit, Data!Answer, Data!Fail,
        Data!Scheduled, Data!Manual, Data!StartCleanup, Data!Prune, Data!CommitPrune, Data!StopCleanup
    <2>4. u = t
      BY <2>3 DEF StoreInv
    <2>5. Data!TaskStep(t)
      BY <2>2, <2>4
    <2>6. ~Data!Arrive(t) /\ ~Data!Scheduled(t) /\ ~Data!Manual(t)
      BY DEF Data!Arrive, Data!Scheduled, Data!Manual, Data!Idle
    <2>7. ~Data!Insert(t) /\ ~Data!Upsert(t) /\ ~Data!Commit(t) /\ ~Data!Answer(t) /\ ~Data!CommitPrune(t)
      BY DEF Data!Insert, Data!Upsert, Data!Commit, Data!Answer, Data!CommitPrune
    <2>8. ~Data!StopCleanup(t)
      BY DEF Data!StopCleanup, Data!Idle, StoreInv
    <2> QED  BY <2>5, <2>6, <2>7, <2>8 DEF Data!TaskStep
  <1> QED  BY <1>1, PruneIs

\* Over the rows and tasks: what OldIsRemoved says of a step.
LEMMA StoreMoves == StoreInv /\ [Data!Next]_(Data!vars) =>
    /\ [/\ \A t \in Tasks : task'[t].pc = "answer" =>
               \A i \in DOMAIN task'[t].batch :
                  task'[t].batch[i] \in disk'.rows \/ Data!At(task'[t].batch[i]) < pruned
        /\ \A r \in disk.rows \ disk'.rows : Data!At(r) < pruned]_(Data!vars)
    /\ [\A t \in Tasks :
           task[t].pc = "prune" /\ task'[t].pc = "pruned" /\ ~task'[t].more =>
              \A r \in store'.rows : Data!At(r) < task[t].cutoff => (r[1] \in Traps <=> task[t].table = "results")]_(Data!vars)
  <1>1. CASE Data!Next
    BY <1>1, RowsStay, AnsweredStays, PruneEnds DEF Data!At
  <1>2. CASE UNCHANGED Data!vars
    BY <1>2
  <1> QED  BY <1>1, <1>2

\* Accepted rows stay on the disk until a cleanup that they are too old for, and a cleanup
\* goes on until nothing of a table is too old (OldIsRemoved).
THEOREM OldHolds == Data!Spec => OldIsRemoved
  <1>1. Data!Init => StoreInv
    BY StoreStart
  <1>2. StoreInv /\ [Data!Next]_(Data!vars) => StoreInv'
    <2>1. CASE Data!Next
      BY <2>1, StoreStep
    <2>2. CASE UNCHANGED Data!vars
      BY <2>2 DEF Data!vars, StoreInv, Tables
    <2> QED  BY <2>1, <2>2
  <1> QED
    BY <1>1, <1>2, StoreMoves, PTL DEF Data!Spec, OldIsRemoved, Data!OldIsRemoved,
       Data!AcceptedIsKept, Data!PruneIsWhole

-----------------------------------------------------------------------------
(* Sets of naturals *)

LEMMA LessIsWellFounded == IsWellFoundedOn({ss \in Nat \X Nat : ss[1] < ss[2]}, Nat)
  BY NatLessThanWellFounded DEF OpToRel

\* A set of naturals that is not empty has a least element.
LEMMA HasLeast ==
    ASSUME NEW T \in SUBSET Nat, T # {}
    PROVE  \E m \in T : \A n \in T : m <= n
  <1> DEFINE R == {ss \in Nat \X Nat : ss[1] < ss[2]}
  <1>1. IsWellFoundedOn(R, Nat)
    BY LessIsWellFounded
  <1>2. \A n, m \in Nat : <<n, m>> \notin R => m <= n
    OBVIOUS
  <1> HIDE DEF R
  <1>3. \E m \in T : \A n \in T : ~(<<n, m>> \in R)
    BY <1>1, WFMin
  <1> QED  BY <1>2, <1>3

\* One that has a bound has a greatest.
LEMMA HasGreatest ==
    ASSUME NEW b \in Nat, NEW T \in SUBSET (0 .. b), T # {}
    PROVE  \E m \in T : \A n \in T : n <= m
  <1> DEFINE U == {b - n : n \in T}
  <1>1. U \in SUBSET Nat /\ U # {} /\ \A n \in T : b - n \in U
    <2>1. \A n \in T : n \in Int /\ b - n \in Nat
      OBVIOUS
    <2>2. PICK n \in T : b - n \in U
      OBVIOUS
    <2>3. U \in SUBSET Nat
      BY <2>1
    <2> QED  BY <2>2, <2>3
  <1>2. PICK l \in U : \A k \in U : l <= k
    <2> HIDE DEF U
    <2> QED  BY <1>1, HasLeast
  <1>3. PICK m \in T : l = b - m
    BY <1>2
  <1>4. ASSUME NEW n \in T PROVE n <= m
    <2>1. b - m <= b - n
      <3> HIDE DEF U
      <3> QED  BY <1>1, <1>2, <1>3
    <2> QED  BY <2>1
  <1> QED  BY <1>4

-----------------------------------------------------------------------------
(* The last values (TimeSeries, snmp_latest) *)

Timely == Series \X (0 .. now)

Writing == {"insert", "upsert", "commit", "answer"}

\* Nothing is newer than now.
InTime ==
    /\ now \in 0 .. Horizon /\ days \in RetentionSettings /\ late \subseteq Known
    /\ store.rows \subseteq Timely /\ disk.rows \subseteq Timely
    /\ store.latest \in [Known -> (0 .. now) \cup {Never}]
    /\ disk.latest \in [Known -> (0 .. now) \cup {Never}]
    /\ \A t \in Tasks : task[t].pc \in Writing => Data!Range(task[t].batch) \subseteq Timely

Reached(latest, r) == latest[r[1]] # Never /\ r[2] <= latest[r[1]]

\* The last values have got to every row, or a task has yet to write it there.
Ahead(points, latest, done, jobs, places) ==
    \A r \in points : r[1] \in Known \ done =>
        \/ Reached(latest, r)
        \/ \E t \in Tasks : jobs[t].pc \in places /\ r \in Data!Range(jobs[t].batch)

\* A last value is one of a row, or of one that a cleanup has removed.
Backed(points, latest, cut) ==
    \A s \in Known : latest[s] # Never => <<s, latest[s]>> \in points \/ latest[s] < cut

LatestInv ==
    /\ InTime
    /\ Backed(store.rows, store.latest, pruned) /\ Backed(disk.rows, disk.latest, pruned)
    /\ Ahead(store.rows, store.latest, late, task, {"upsert"})
    /\ Ahead(disk.rows, disk.latest, late, task, {"upsert", "commit"})

LEMMA InTimeMoves ==
    ASSUME StoreInv, InTime, NEW t \in Tasks, NEW x, task' = [task EXCEPT ![t] = x],
           UNCHANGED <<now, days>>, late' \subseteq Known,
           store'.rows \subseteq Timely, disk'.rows \subseteq Timely,
           store'.latest \in [Known -> (0 .. now) \cup {Never}],
           disk'.latest \in [Known -> (0 .. now) \cup {Never}],
           x.pc \in Writing => Data!Range(x.batch) \subseteq Timely
    PROVE  InTime'
  <1>1. ASSUME NEW u \in Tasks, task'[u].pc \in Writing PROVE Data!Range(task'[u].batch) \subseteq Timely
    <2>1. CASE u = t
      BY <1>1, <2>1 DEF StoreInv
    <2>2. CASE u # t
      <3>1. task'[u] = task[u]
        BY <2>2 DEF StoreInv
      <3> QED  BY <1>1, <3>1 DEF InTime
    <2> QED  BY <2>1, <2>2
  <1>2. Timely' = Timely
    BY DEF Timely
  <1> HIDE DEF Writing
  <1> QED  BY <1>1, <1>2 DEF InTime

\* A task that leaves leaves its series among those that are late.
LEMMA AheadKept ==
    ASSUME StoreInv, NEW t \in Tasks, NEW x, task' = [task EXCEPT ![t] = x], late \subseteq late',
           NEW places, task[t].pc \in places => Data!SeriesOf(t) \subseteq late'
    PROVE  \A points, latest : Ahead(points, latest, late, task, places) => Ahead(points, latest, late', task', places)
  <1> SUFFICES ASSUME NEW points, NEW latest, Ahead(points, latest, late, task, places),
                      NEW r \in points, r[1] \in Known \ late', ~Reached(latest, r)
               PROVE  \E u \in Tasks : task'[u].pc \in places /\ r \in Data!Range(task'[u].batch)
    BY DEF Ahead
  <1>1. PICK u \in Tasks : task[u].pc \in places /\ r \in Data!Range(task[u].batch)
    BY DEF Ahead
  <1>2. u # t
    BY <1>1 DEF Data!SeriesOf
  <1>3. task'[u] = task[u]
    BY <1>2 DEF StoreInv
  <1> QED  BY <1>1, <1>3

\* Rows and a place in the tables may go; nothing comes.
LEMMA LatestStays ==
    ASSUME StoreInv, LatestInv, NEW t \in Tasks, NEW x, task' = [task EXCEPT ![t] = x],
           UNCHANGED <<now, days>>, late \subseteq late', late' \subseteq Known,
           pruned' \in Int, pruned <= pruned',
           store'.latest = store.latest, store'.rows \subseteq store.rows,
           \A r \in store.rows \ store'.rows : r[2] < pruned',
           \/ disk' = disk /\ (task[t].pc = "commit" => Data!SeriesOf(t) \subseteq late')
           \/ disk' = store /\ store' = store,
           task[t].pc # "upsert",
           x.pc \in Writing => Data!Range(x.batch) \subseteq Timely
    PROVE  LatestInv'
  <1>1. InTime'
    BY InTimeMoves DEF LatestInv, InTime
  <1>2. Ahead(store.rows, store.latest, late', task', {"upsert"})
    BY AheadKept DEF LatestInv
  <1>3. Ahead(store'.rows, store'.latest, late', task', {"upsert"})
    BY <1>2 DEF Ahead
  <1>4. Ahead(disk'.rows, disk'.latest, late', task', {"upsert", "commit"})
    <2>1. CASE disk' = disk /\ (task[t].pc = "commit" => Data!SeriesOf(t) \subseteq late')
      BY <2>1, AheadKept DEF LatestInv
    <2>2. CASE disk' = store
      BY <1>2, <2>2 DEF Ahead
    <2> QED  BY <2>1, <2>2
  <1>5. ASSUME NEW points, NEW fewer \in SUBSET points, NEW latest,
               latest \in [Known -> (0 .. now) \cup {Never}], Backed(points, latest, pruned),
               \A r \in points \ fewer : r[2] < pruned'
        PROVE  Backed(fewer, latest, pruned')
    <2> SUFFICES ASSUME NEW s \in Known, latest[s] # Never, <<s, latest[s]>> \notin fewer
                 PROVE  latest[s] < pruned'
      BY DEF Backed
    <2>1. latest[s] \in Int
      BY <1>5 DEF StoreInv
    <2>2. CASE <<s, latest[s]>> \in points
      BY <1>5, <2>2
    <2>3. CASE latest[s] < pruned
      BY <2>1, <2>3 DEF StoreInv
    <2> QED  BY <1>5, <2>2, <2>3 DEF Backed
  <1>6. Backed(store'.rows, store'.latest, pruned')
    <2>1. Backed(store'.rows, store.latest, pruned')
      BY <1>5 DEF LatestInv, InTime
    <2> QED  BY <2>1
  <1>7. Backed(disk.rows, disk.latest, pruned')
    BY <1>5 DEF LatestInv, InTime
  <1>8. Backed(disk'.rows, disk'.latest, pruned')
    BY <1>6, <1>7
  <1> QED  BY <1>1, <1>3, <1>4, <1>6, <1>8 DEF LatestInv

LEMMA ArriveStays ==
    ASSUME StoreInv, LatestInv, NEW t \in Tasks, Data!Arrive(t)
    PROVE  LatestInv'
  <1>1. PICK shape \in Shapes :
           /\ \A i \in DOMAIN shape : shape[i][2] <= now
           /\ task' = [task EXCEPT ![t] =
               [pc |-> "insert", batch |-> [i \in DOMAIN shape |-> <<shape[i][1], now - shape[i][2]>>]]]
    BY DEF Data!Arrive
  <1> DEFINE batch == [i \in DOMAIN shape |-> <<shape[i][1], now - shape[i][2]>>]
             x == [pc |-> "insert", batch |-> batch]
  <1>2. \A i \in DOMAIN shape : shape[i] \in Series \X Nat
    BY StoreAssumption DEF Data!SeriesAssumption
  <1>3. \A i \in DOMAIN shape : <<shape[i][1], now - shape[i][2]>> \in Timely
    BY <1>1, <1>2 DEF LatestInv, InTime, Timely
  <1>4. Data!Range(batch) \subseteq Timely
    BY <1>3 DEF Data!Range
  <1>5. UNCHANGED <<now, days, store, disk, pruned, late>> /\ task[t].pc = "idle"
    BY DEF Data!Arrive, Data!Idle
  <1>6. task' = [task EXCEPT ![t] = x]
    BY <1>1
  <1>7. x.pc \in Writing => Data!Range(x.batch) \subseteq Timely
    BY <1>4
  <1> HIDE DEF x
  <1> QED  BY <1>5, <1>6, <1>7, LatestStays DEF LatestInv, InTime, StoreInv

LEMMA CommitStays ==
    ASSUME StoreInv, LatestInv, NEW t \in Tasks, Data!Commit(t)
    PROVE  LatestInv'
  <1> DEFINE b == task[t].batch
             x == [pc |-> "answer", batch |-> b]
  <1>1. /\ task[t].pc = "commit" /\ UNCHANGED <<now, days, store, pruned>>
        /\ task[t] = [pc |-> task[t].pc, batch |-> b] /\ Data!Range(b) \subseteq Timely
    BY DEF Data!Commit, StoreInv, Job, LatestInv, InTime, Writing
  <1>2. CASE disk' = store /\ task' = [task EXCEPT ![t].pc = "answer"] /\ late' = late
    <2>1. task' = [task EXCEPT ![t] = x]
      BY <1>1, <1>2, Onwards
    <2>2. Data!Range(x.batch) \subseteq Timely
      BY <1>1
    <2> HIDE DEF x
    <2> QED  BY <1>1, <1>2, <2>1, <2>2, LatestStays DEF LatestInv, InTime, StoreInv
  <1>3. CASE disk' = disk /\ Data!Fail(t, TRUE)
    <2>1. /\ task' = [task EXCEPT ![t] = Data!Idle] /\ late' = late \cup Data!SeriesOf(t)
          /\ Data!Idle.pc \notin Writing /\ Data!SeriesOf(t) \subseteq Known
      BY <1>3 DEF Data!Fail, Data!Idle, Writing, Data!SeriesOf
    <2>2. late \subseteq late' /\ late' \subseteq Known /\ pruned' \in Int /\ pruned <= pruned'
      BY <1>1, <2>1 DEF LatestInv, InTime, StoreInv
    <2>3. store'.latest = store.latest /\ store'.rows = store.rows
      BY <1>1
    <2> QED  BY <1>1, <1>3, <2>1, <2>2, <2>3, LatestStays
  <1> QED  BY <1>2, <1>3 DEF Data!Commit

LEMMA EndStays ==
    ASSUME StoreInv, LatestInv, NEW t \in Tasks, Data!Answer(t) \/ Data!StopCleanup(t)
    PROVE  LatestInv'
  <1>1. /\ task' = [task EXCEPT ![t] = Data!Idle] /\ UNCHANGED <<now, days, store, disk, pruned, late>>
        /\ task[t].pc \in {"answer", "prune", "pruned"} /\ Data!Idle.pc \notin Writing
    BY DEF Data!Answer, Data!StopCleanup, Data!Pruning, Data!Idle, Writing
  <1> QED  BY <1>1, LatestStays DEF LatestInv, InTime, StoreInv

LEMMA StartStays ==
    ASSUME StoreInv, LatestInv, NEW t \in Tasks, Data!StartCleanup(t), task[t] = Data!Idle
    PROVE  LatestInv'
  <1> DEFINE x == [pc |-> "prune", table |-> "traps", cutoff |-> now - days, more |-> FALSE]
  <1>1. /\ task' = [task EXCEPT ![t] = x] /\ UNCHANGED <<now, days, store, disk, late>>
        /\ pruned' = IF now - days > pruned THEN now - days ELSE pruned
        /\ task[t].pc = "idle" /\ x.pc \notin Writing
    BY DEF Data!StartCleanup, Data!Idle, Writing
  <1>2. pruned' \in Int /\ pruned <= pruned'
    BY <1>1 DEF StoreInv
  <1> HIDE DEF x
  <1> QED  BY <1>1, <1>2, LatestStays DEF LatestInv, InTime

LEMMA PruneStays ==
    ASSUME StoreInv, LatestInv, NEW t \in Tasks, Data!Prune(t)
    PROVE  LatestInv'
  <1> DEFINE y == task'[t]
  <1>1. /\ task[t].pc = "prune" /\ y.pc = "pruned" /\ task' = [task EXCEPT ![t] = y]
        /\ store'.latest = store.latest /\ store'.rows \subseteq store.rows
        /\ task[t].cutoff \in Int /\ task[t].cutoff <= pruned
        /\ \A r \in store.rows \ store'.rows : r[2] < task[t].cutoff
        /\ UNCHANGED <<now, days, disk, pruned>>
    <2>1. store' = [rows |-> store'.rows, latest |-> store.latest]
      BY PruneIs
    <2>2. store'.latest = store.latest
      BY <2>1
    <2> HIDE DEF y
    <2>3. /\ task[t].pc = "prune" /\ task'[t].pc = "pruned" /\ task' = [task EXCEPT ![t] = task'[t]]
          /\ task[t].cutoff \in Int /\ task[t].cutoff <= pruned /\ store'.rows \subseteq store.rows
          /\ \A r \in store.rows \ store'.rows : r[2] < task[t].cutoff
          /\ UNCHANGED <<now, days, disk, pruned>>
      BY PruneIs
    <2> QED  BY <2>2, <2>3 DEF y
  <1>2. late' = late /\ y.pc \notin Writing
    BY <1>1 DEF Data!Prune, Writing
  <1>3. \A r \in store.rows \ store'.rows : r[2] < pruned'
    BY <1>1 DEF StoreInv, Tables, Points
  <1> HIDE DEF y
  <1> QED  BY <1>1, <1>2, <1>3, LatestStays DEF LatestInv, InTime, StoreInv

LEMMA CommitPruneStays ==
    ASSUME StoreInv, LatestInv, NEW t \in Tasks, Data!CommitPrune(t)
    PROVE  LatestInv'
  <1> DEFINE x == task[t]
             p == [x EXCEPT !.pc = "prune"]
             n == [x EXCEPT !.pc = "prune", !.table = "results"]
  <1>1. /\ disk' = store /\ UNCHANGED <<now, days, store, pruned, late>> /\ x.pc = "pruned"
        /\ x = [pc |-> x.pc, table |-> x.table, cutoff |-> x.cutoff, more |-> x.more]
    BY DEF Data!CommitPrune, StoreInv, Job
  <1>2. PICK z \in {p, n, Data!Idle} : task' = [task EXCEPT ![t] = z]
    BY DEF Data!CommitPrune
  <1>3. p.pc \notin Writing /\ n.pc \notin Writing /\ Data!Idle.pc \notin Writing
    <2> HIDE DEF x
    <2> QED  BY <1>1 DEF Writing, Data!Idle
  <1>4. z.pc \notin Writing
    BY <1>2, <1>3
  <1> HIDE DEF p, n
  <1> QED  BY <1>1, <1>2, <1>4, LatestStays DEF LatestInv, InTime, StoreInv

\* A batch, or a part of it, is written: its series will have a last value, or are late.
LEMMA InsertStays ==
    ASSUME StoreInv, LatestInv, NEW t \in Tasks, Data!Insert(t)
    PROVE  LatestInv'
  <1> DEFINE b == task[t].batch
  <1>1. /\ task[t].pc = "insert" /\ UNCHANGED <<now, days, disk, pruned>>
        /\ task[t] = [pc |-> task[t].pc, batch |-> b] /\ b \in Seq(Points)
        /\ Data!Range(b) \subseteq Timely
    BY DEF Data!Insert, StoreInv, Job, LatestInv, InTime, Writing
  <1>2. \A some \in Data!Prefixes(b) : Data!Range(some) \subseteq Data!Range(b)
    BY <1>1, BatchIs
  <1>3. PICK added, x :
           /\ added \in SUBSET Data!Range(b)
           /\ store' = [store EXCEPT !.rows = @ \cup added] /\ task' = [task EXCEPT ![t] = x]
           /\ \/ /\ x = [pc |-> IF \E i \in DOMAIN b : b[i][1] \in Known THEN "upsert" ELSE "commit",
                         batch |-> b]
                 /\ late' = late
              \/ /\ x = Data!Idle /\ late \subseteq late' /\ late' \subseteq late \cup Data!SeriesOf(t)
                 /\ added = {} \/ Data!SeriesOf(t) \subseteq late'
    <2>1. CASE /\ store' = [store EXCEPT !.rows = @ \cup Data!Range(b)]
               /\ task' = [task EXCEPT ![t].pc = IF \E i \in DOMAIN b : b[i][1] \in Known THEN "upsert" ELSE "commit"]
               /\ late' = late
      <3>1. task' = [task EXCEPT ![t] = [pc |-> IF \E i \in DOMAIN b : b[i][1] \in Known THEN "upsert" ELSE "commit",
                                         batch |-> b]]
        BY <1>1, <2>1, Onwards
      <3> HIDE DEF b
      <3> QED  BY <2>1, <3>1
    <2>2. CASE \E some \in Data!Prefixes(b) :
                   /\ store' = [store EXCEPT !.rows = @ \cup Data!Range(some)]
                   /\ Data!Fail(t, some # << >>)
      <3>1. PICK some \in Data!Prefixes(b) :
                   /\ store' = [store EXCEPT !.rows = @ \cup Data!Range(some)]
                   /\ Data!Fail(t, some # << >>)
        BY <2>2
      <3>2. some = << >> => Data!Range(some) = {}
        BY DEF Data!Range
      <3>3. /\ task' = [task EXCEPT ![t] = Data!Idle]
            /\ late' = IF some # << >> THEN late \cup Data!SeriesOf(t) ELSE late
        BY <3>1 DEF Data!Fail
      <3> HIDE DEF b
      <3> QED  BY <1>2, <3>1, <3>2, <3>3
    <2> QED  BY <2>1, <2>2 DEF Data!Insert
  <1>4. /\ store' = [rows |-> store.rows \cup added, latest |-> store.latest]
        /\ disk' = disk /\ pruned' = pruned /\ now' = now /\ days' = days
    BY <1>1, <1>3 DEF StoreInv, Tables
  <1>5. store'.rows = store.rows \cup added /\ store'.latest = store.latest
    BY <1>4
  <1>6. Data!SeriesOf(t) = {r[1] : r \in Data!Range(b)} \cap Known
    BY DEF Data!SeriesOf
  <1>7. x.pc \in Writing => Data!Range(x.batch) \subseteq Timely
    BY <1>1, <1>3 DEF Data!Idle, Writing
  <1>8. late \subseteq late' /\ late' \subseteq Known
    BY <1>3, <1>6 DEF LatestInv, InTime
  <1>9. InTime'
    BY <1>1, <1>3, <1>4, <1>5, <1>7, <1>8, InTimeMoves DEF LatestInv, InTime
  <1>10. ASSUME NEW r \in added, r[1] \in Known \ late'
         PROVE  task'[t].pc = "upsert" /\ r \in Data!Range(task'[t].batch)
    <2>1. r \in Data!Range(b) /\ r[1] \in Data!SeriesOf(t)
      BY <1>3, <1>6, <1>10
    <2>2. \E i \in DOMAIN b : b[i][1] \in Known
      BY <1>10, <2>1 DEF Data!Range
    <2>3. x = [pc |-> "upsert", batch |-> b]
      BY <1>3, <1>10, <2>1, <2>2
    <2>4. task'[t] = x
      BY <1>3 DEF StoreInv
    <2> HIDE DEF b
    <2> QED  BY <2>1, <2>3, <2>4
  <1>11. Ahead(store.rows, store.latest, late', task', {"upsert"})
    BY <1>1, <1>3, <1>8, AheadKept DEF LatestInv
  <1>12. Ahead(store'.rows, store'.latest, late', task', {"upsert"})
    BY <1>5, <1>10, <1>11 DEF Ahead
  <1>13. Ahead(disk'.rows, disk'.latest, late', task', {"upsert", "commit"})
    BY <1>1, <1>3, <1>4, <1>8, AheadKept DEF LatestInv
  <1>14. Backed(store'.rows, store'.latest, pruned') /\ Backed(disk'.rows, disk'.latest, pruned')
    BY <1>4, <1>5 DEF LatestInv, Backed
  <1> QED  BY <1>9, <1>12, <1>13, <1>14 DEF LatestInv

\* What a list in the order of time leaves: of the series in it the newest time, of the
\* others what there was.
LEMMA ReplacedIs ==
    ASSUME NEW list \in Seq(Points), \A i, j \in DOMAIN list : i < j => list[i][2] <= list[j][2],
           NEW latest, NEW s \in Known
    PROVE  LET l == Data!Replaced(latest, list) IN
           /\ (\A i \in DOMAIN list : list[i][1] # s) => l[s] = latest[s]
           /\ (\E i \in DOMAIN list : list[i][1] = s) =>
                 /\ <<s, l[s]>> \in Data!Range(list)
                 /\ \A r \in Data!Range(list) : r[1] = s => r[2] <= l[s]
  <1> DEFINE l == Data!Replaced(latest, list)
             T == {i \in DOMAIN list : list[i][1] = s}
             k == CHOOSE i \in DOMAIN list : /\ list[i][1] = s
                                             /\ \A j \in DOMAIN list : list[j][1] = s => j <= i
  <1>1. l[s] = IF \E i \in DOMAIN list : list[i][1] = s THEN list[k][2] ELSE latest[s]
    BY DEF Data!Replaced, Data!At
  <1>2. \A i \in DOMAIN list : list[i] \in Series \X Int /\ i \in Nat
    BY DEF Points
  <1>3. ASSUME NEW i \in DOMAIN list, list[i][1] = s
        PROVE  /\ <<s, list[k][2]>> \in Data!Range(list)
               /\ \A r \in Data!Range(list) : r[1] = s => r[2] <= list[k][2]
    <2>1. T \in SUBSET (0 .. Len(list)) /\ T # {} /\ Len(list) \in Nat
      BY <1>3
    <2>2. \E m \in T : \A n \in T : n <= m
      <3> HIDE DEF T
      <3> QED  BY <2>1, HasGreatest
    <2>3. k \in DOMAIN list /\ list[k][1] = s /\ \A j \in DOMAIN list : list[j][1] = s => j <= k
      BY <2>2
    <2> HIDE DEF k, T
    <2>4. list[k] = <<s, list[k][2]>>
      BY <1>2, <2>3
    <2>5. \A j \in DOMAIN list : list[j][1] = s => list[j][2] <= list[k][2]
      <3> SUFFICES ASSUME NEW j \in DOMAIN list, list[j][1] = s PROVE list[j][2] <= list[k][2]
        OBVIOUS
      <3>1. CASE j = k
        BY <1>2, <2>3, <3>1
      <3>2. CASE j # k
        BY <1>2, <2>3, <3>2
      <3> QED  BY <3>1, <3>2
    <2> QED  BY <2>3, <2>4, <2>5 DEF Data!Range
  <1> HIDE DEF l, k
  <1> QED  BY <1>1, <1>3 DEF l

\* What one task writes into the last values, all of it or not.
LEMMA UpsertIs ==
    ASSUME StoreInv, NEW t \in Tasks, Data!Upsert(t)
    PROVE  \E list, x :
             /\ list \in Seq(Points)
             /\ \A i, j \in DOMAIN list : i < j => list[i][2] <= list[j][2]
             /\ Data!Range(list) \subseteq Data!KnownOf(task[t].batch)
             /\ store' = [store EXCEPT !.latest = Data!Replaced(@, list)]
             /\ task' = [task EXCEPT ![t] = x]
             /\ \/ /\ x = [pc |-> "commit", batch |-> task[t].batch]
                   /\ Data!Range(list) = Data!KnownOf(task[t].batch)
                   /\ late' = late \cup Data!Overtaken(store.latest, list)
                \/ x = Data!Idle /\ late' = late \cup Data!SeriesOf(t)
  <1> DEFINE b == task[t].batch
             known == Data!KnownOf(b)
  <1>1. task[t] = [pc |-> task[t].pc, batch |-> b] /\ b \in Seq(Points)
    BY DEF Data!Upsert, StoreInv, Job
  <1>2. known \subseteq Points /\ IsFiniteSet(known) /\ Cardinality(known) \in Nat
    <2>1. Data!Range(b) \subseteq Points /\ IsFiniteSet(Data!Range(b)) /\ known \subseteq Data!Range(b)
      BY <1>1, BatchIs DEF Data!KnownOf
    <2> HIDE DEF known
    <2> QED  BY <2>1, FS_Subset, FS_CardinalityType
  <1>3. PICK all \in Data!LatestRows(b) :
           \/ /\ store' = [store EXCEPT !.latest = Data!Replaced(@, all)]
              /\ task' = [task EXCEPT ![t].pc = "commit"]
              /\ late' = late \cup Data!Overtaken(store.latest, all)
           \/ \E some \in Data!Prefixes(all) :
                 store' = [store EXCEPT !.latest = Data!Replaced(@, some)] /\ Data!Fail(t, TRUE)
    BY DEF Data!Upsert
  <1>4. /\ all \in [1 .. Cardinality(known) -> known] /\ Data!Range(all) = known
        /\ \A i, j \in DOMAIN all : i < j => all[i][2] <= all[j][2]
    BY Finite DEF Data!LatestRows, Data!At
  <1> HIDE DEF known
  <1>5. all \in Seq(Points) /\ DOMAIN all = 1 .. Len(all)
    BY <1>2, <1>4
  <1>6. CASE /\ store' = [store EXCEPT !.latest = Data!Replaced(@, all)]
             /\ task' = [task EXCEPT ![t].pc = "commit"]
             /\ late' = late \cup Data!Overtaken(store.latest, all)
    <2>1. task' = [task EXCEPT ![t] = [pc |-> "commit", batch |-> b]]
      BY <1>1, <1>6, Onwards
    <2>2. all \in Seq(Points)
      BY <1>5
    <2> WITNESS all, [pc |-> "commit", batch |-> b]
    <2> QED  BY <1>4, <1>6, <2>1, <2>2 DEF known
  <1>7. CASE \E some \in Data!Prefixes(all) :
                store' = [store EXCEPT !.latest = Data!Replaced(@, some)] /\ Data!Fail(t, TRUE)
    <2>1. PICK n \in 0 .. Len(all) :
             store' = [store EXCEPT !.latest = Data!Replaced(@, SubSeq(all, 1, n))] /\ Data!Fail(t, TRUE)
      BY <1>7 DEF Data!Prefixes
    <2> DEFINE some == SubSeq(all, 1, n)
    <2>2. /\ some \in Seq(Points) /\ DOMAIN some = 1 .. n /\ n \in Nat /\ n <= Len(all)
          /\ \A i \in 1 .. n : some[i] = all[i] /\ i \in DOMAIN all
      BY <1>5
    <2>3. \A i, j \in DOMAIN some : i < j => some[i][2] <= some[j][2]
      <3> HIDE DEF some
      <3> QED  BY <1>4, <2>2
    <2>4. Data!Range(some) \subseteq known
      <3>1. Data!Range(some) \subseteq Data!Range(all)
        <4> HIDE DEF some
        <4> QED  BY <2>2 DEF Data!Range
      <3> QED  BY <1>4, <3>1
    <2>5. task' = [task EXCEPT ![t] = Data!Idle] /\ late' = late \cup Data!SeriesOf(t)
      BY <2>1 DEF Data!Fail
    <2>6. store' = [store EXCEPT !.latest = Data!Replaced(@, some)]
      BY <2>1
    <2>7. some \in Seq(Points)
      BY <2>2
    <2> HIDE DEF some
    <2> WITNESS some, Data!Idle
    <2> QED  BY <2>3, <2>4, <2>5, <2>6, <2>7 DEF known
  <1> QED  BY <1>3, <1>6, <1>7

LEMMA UpsertStays ==
    ASSUME StoreInv, LatestInv, NEW t \in Tasks, Data!Upsert(t)
    PROVE  LatestInv'
  <1> DEFINE b == task[t].batch
  <1>1. /\ task[t].pc = "upsert" /\ UNCHANGED <<now, days, disk, pruned>>
        /\ b \in Seq(Points) /\ Covers(store.rows, Data!Range(b), pruned)
        /\ Data!Range(b) \subseteq Timely /\ Data!KnownOf(b) \subseteq Data!Range(b)
        /\ Data!SeriesOf(t) = {r[1] : r \in Data!Range(b)} \cap Known
    BY DEF Data!Upsert, StoreInv, Job, LatestInv, InTime, Writing, Data!KnownOf, Data!SeriesOf
  <1>2. PICK list, x :
           /\ list \in Seq(Points)
           /\ \A i, j \in DOMAIN list : i < j => list[i][2] <= list[j][2]
           /\ Data!Range(list) \subseteq Data!KnownOf(b)
           /\ store' = [store EXCEPT !.latest = Data!Replaced(@, list)]
           /\ task' = [task EXCEPT ![t] = x]
           /\ \/ /\ x = [pc |-> "commit", batch |-> b]
                 /\ Data!Range(list) = Data!KnownOf(b)
                 /\ late' = late \cup Data!Overtaken(store.latest, list)
              \/ x = Data!Idle /\ late' = late \cup Data!SeriesOf(t)
    BY UpsertIs
  <1> DEFINE l == Data!Replaced(store.latest, list)
             Listed(s) == \E r \in Data!Range(list) : r[1] = s
  <1>3. store'.rows = store.rows /\ store'.latest = l
    BY <1>2 DEF StoreInv, Tables
  <1>4. /\ DOMAIN l = Known /\ l = [s \in Known |-> l[s]]
        /\ \A s \in Known : /\ ~Listed(s) => l[s] = store.latest[s]
                            /\ Listed(s) => /\ <<s, l[s]>> \in Data!Range(list)
                                            /\ \A r \in Data!Range(list) : r[1] = s => r[2] <= l[s]
    <2>1. DOMAIN l = Known /\ l = [s \in Known |-> l[s]]
      BY DEF Data!Replaced
    <2>2. ASSUME NEW s \in Known
          PROVE  /\ ~Listed(s) => l[s] = store.latest[s]
                 /\ Listed(s) => /\ <<s, l[s]>> \in Data!Range(list)
                                 /\ \A r \in Data!Range(list) : r[1] = s => r[2] <= l[s]
      <3>1. Listed(s) <=> \E i \in DOMAIN list : list[i][1] = s
        BY DEF Data!Range
      <3> QED  BY <1>2, <3>1, ReplacedIs
    <2> HIDE DEF l, Listed
    <2> QED  BY <2>1, <2>2
  <1> HIDE DEF l
  <1>5. \A s \in Known : Listed(s) => <<s, l[s]>> \in Data!Range(b) /\ <<s, l[s]>> \in Timely
    BY <1>1, <1>2, <1>4
  <1>6. \A s \in Known : Listed(s) => l[s] \in 0 .. now /\ l[s] # Never
    <2>1. now \in Nat /\ Never \notin Nat
      BY StoreAssumption DEF StoreInv, Data!SeriesAssumption
    <2>2. \A s : <<s, l[s]>> \in Timely => l[s] \in 0 .. now
      BY DEF Timely
    <2> HIDE DEF Listed
    <2>3. ASSUME NEW s \in Known, Listed(s) PROVE l[s] \in 0 .. now /\ l[s] # Never
      <3>1. l[s] \in 0 .. now
        BY <1>5, <2>2, <2>3
      <3> QED  BY <2>1, <3>1
    <2> QED  BY <2>3
  <1>7. l \in [Known -> (0 .. now) \cup {Never}]
    BY <1>4, <1>6 DEF LatestInv, InTime
  <1>8. late \subseteq late' /\ late' \subseteq Known
    BY <1>1, <1>2 DEF LatestInv, InTime, Data!Overtaken
  <1>9. x.pc \in Writing => Data!Range(x.batch) \subseteq Timely
    BY <1>1, <1>2 DEF Data!Idle, Writing
  <1>10. InTime'
    BY <1>1, <1>2, <1>3, <1>7, <1>8, <1>9, InTimeMoves DEF LatestInv, InTime
  <1>11. Backed(store'.rows, store'.latest, pruned')
    <2> SUFFICES ASSUME NEW s \in Known, l[s] # Never
                 PROVE  <<s, l[s]>> \in store.rows \/ l[s] < pruned
      BY <1>1, <1>3 DEF Backed
    <2>1. CASE Listed(s)
      BY <1>1, <1>5, <2>1 DEF Covers
    <2>2. CASE ~Listed(s)
      BY <1>4, <2>2 DEF LatestInv, Backed
    <2> QED  BY <2>1, <2>2
  <1>12. \A s \in Known : x = Data!Idle /\ s \notin late' => ~Listed(s)
    BY <1>1, <1>2 DEF Data!Idle
  <1>13. ASSUME NEW r \in store.rows, r[1] \in Known \ late'
         PROVE  \/ Reached(l, r)
                \/ \E u \in Tasks : task'[u].pc \in {"upsert"} /\ r \in Data!Range(task'[u].batch)
    <2>1. r[2] \in Int /\ r[1] \in Known \ late
      BY <1>8, <1>13 DEF StoreInv, Tables, Points
    <2>2. CASE Reached(store.latest, r) /\ ~Listed(r[1])
      BY <1>4, <2>1, <2>2 DEF Reached
    <2>3. CASE Reached(store.latest, r) /\ Listed(r[1])
      <3>1. r[1] \notin Data!Overtaken(store.latest, list)
        BY <1>2, <1>12, <1>13, <2>3
      <3>2. PICK q \in Data!Range(list) : q[1] = r[1] /\ ~(q[2] < store.latest[r[1]])
        BY <2>1, <2>3, <3>1 DEF Data!Overtaken, Reached, Data!At
      <3>3. q[2] \in Int /\ q[2] <= l[r[1]]
        <4>1. q \in Timely /\ now \in Nat
          BY <1>1, <1>2, <3>2 DEF StoreInv
        <4>2. q[2] <= l[r[1]]
          BY <1>4, <2>1, <2>3, <3>2
        <4> QED  BY <4>1, <4>2 DEF Timely
      <3>4. store.latest[r[1]] \in Int /\ l[r[1]] \in Int /\ r[2] <= store.latest[r[1]]
        BY <1>6, <2>1, <2>3 DEF Reached, LatestInv, InTime
      <3> QED  BY <1>6, <2>1, <2>3, <3>2, <3>3, <3>4 DEF Reached
    <2>4. CASE \E u \in Tasks : task[u].pc \in {"upsert"} /\ r \in Data!Range(task[u].batch)
      <3>1. PICK u \in Tasks : task[u].pc \in {"upsert"} /\ r \in Data!Range(task[u].batch)
        BY <2>4
      <3>2. CASE u # t
        <4>1. task'[u] = task[u]
          BY <1>2, <3>2 DEF StoreInv
        <4> QED  BY <3>1, <4>1
      <3>3. CASE u = t
        <4>1. r \in Data!KnownOf(b) /\ r[1] \in Data!SeriesOf(t)
          BY <1>1, <1>13, <3>1, <3>3 DEF Data!KnownOf
        <4>2. Data!Range(list) = Data!KnownOf(b)
          BY <1>2, <1>13, <4>1
        <4>3. Listed(r[1]) /\ r[2] <= l[r[1]]
          BY <1>4, <1>13, <4>1, <4>2
        <4> QED  BY <1>6, <1>13, <4>3 DEF Reached
      <3> QED  BY <3>2, <3>3
    <2> QED  BY <1>13, <2>1, <2>2, <2>3, <2>4 DEF LatestInv, Ahead
  <1>14. Ahead(store'.rows, store'.latest, late', task', {"upsert"})
    BY <1>3, <1>13 DEF Ahead
  <1>15. Ahead(disk'.rows, disk'.latest, late', task', {"upsert", "commit"})
    <2>1. CASE x = Data!Idle /\ late' = late \cup Data!SeriesOf(t)
      BY <1>1, <1>2, <1>8, <2>1, AheadKept DEF LatestInv
    <2>2. CASE x = [pc |-> "commit", batch |-> b]
      <3>1. ASSUME NEW u \in Tasks, NEW r, task[u].pc \in {"upsert", "commit"}, r \in Data!Range(task[u].batch)
            PROVE  task'[u].pc \in {"upsert", "commit"} /\ r \in Data!Range(task'[u].batch)
        <4>1. CASE u = t
          <5>1. task'[u] = x
            BY <1>2, <4>1 DEF StoreInv
          <5> QED  BY <2>2, <3>1, <4>1, <5>1
        <4>2. CASE u # t
          <5>1. task'[u] = task[u]
            BY <1>2, <4>2 DEF StoreInv
          <5> QED  BY <3>1, <5>1
        <4> QED  BY <4>1, <4>2
      <3>2. Ahead(disk.rows, disk.latest, late, task, {"upsert", "commit"}) /\ disk' = disk
        BY <1>1 DEF LatestInv
      <3> HIDE DEF b
      <3> QED  BY <1>8, <3>1, <3>2 DEF Ahead
    <2> QED  BY <1>2, <2>1, <2>2
  <1>16. Backed(disk'.rows, disk'.latest, pruned')
    BY <1>1 DEF LatestInv
  <1> QED  BY <1>10, <1>11, <1>14, <1>15, <1>16 DEF LatestInv

\* What the start of the process fills the last values with: the newest time of a series.
LEMMA NewestIs ==
    ASSUME now \in Nat, NEW points \in SUBSET Timely, NEW s \in Series
    PROVE  LET n == Data!Newest(points, s) IN
           \/ n = Never /\ \A r \in points : r[1] # s
           \/ n \in 0 .. now /\ <<s, n>> \in points /\ \A r \in points : r[1] = s => r[2] <= n
  <1> DEFINE T == {r[2] : r \in {q \in points : q[1] = s}}
  <1>1. CASE \E r \in points : r[1] = s
    <2>1. \A r \in points : r[2] \in 0 .. now /\ r = <<r[1], r[2]>>
      BY DEF Timely
    <2>2. T \in SUBSET (0 .. now) /\ T # {}
      BY <1>1, <2>1
    <2>3. \E m \in T : \A n \in T : n <= m
      <3> HIDE DEF T
      <3> QED  BY <2>2, HasGreatest
    <2>4. Data!Newest(points, s) = Data!Max(T)
      BY <1>1 DEF Data!Newest, Data!At
    <2>5. Data!Max(T) \in T /\ \A n \in T : n <= Data!Max(T)
      <3>1. \A m, n \in T : n <= m <=> m >= n
        BY <2>2
      <3> HIDE DEF T
      <3> QED  BY <2>3, <3>1 DEF Data!Max
    <2> DEFINE n == Data!Newest(points, s)
    <2>6. n \in T /\ \A m \in T : m <= n
      BY <2>4, <2>5
    <2> HIDE DEF n
    <2>7. PICK r \in points : r[1] = s /\ r[2] = n
      BY <2>6
    <2>8. n \in 0 .. now /\ <<s, n>> \in points /\ \A q \in points : q[1] = s => q[2] <= n
      BY <2>1, <2>2, <2>6, <2>7
    <2> QED  BY <2>8 DEF n
  <1>2. CASE ~\E r \in points : r[1] = s
    BY <1>2 DEF Data!Newest
  <1> QED  BY <1>1, <1>2

LEMMA RestartStays ==
    ASSUME StoreInv, LatestInv, Data!Restart
    PROVE  LatestInv'
  <1> DEFINE l == [s \in Known |-> Data!Newest(disk.rows, s)]
             Fresh == \A s \in Known : disk.latest[s] = Never
             Left == UNION {Data!SeriesOf(t) : t \in {u \in Tasks : task[u].pc \in {"upsert", "commit"}}}
  <1>1. /\ store' = Data!Backfilled(disk) /\ disk' = store' /\ now' = now /\ days' = days /\ pruned' = pruned
        /\ task' = [t \in Tasks |-> Data!Idle] /\ late' = late \cup Left
    BY DEF Data!Restart
  <1>2. now \in Nat /\ Never \notin Nat /\ Known \subseteq Series
    BY StoreAssumption DEF Data!SeriesAssumption, StoreInv
  <1>3. /\ disk.rows \subseteq Timely /\ disk.latest \in [Known -> (0 .. now) \cup {Never}]
        /\ Backed(disk.rows, disk.latest, pruned)
        /\ Ahead(disk.rows, disk.latest, late, task, {"upsert", "commit"})
    BY DEF LatestInv, InTime
  <1>4. \A s \in Known :
           \/ l[s] = Never /\ \A r \in disk.rows : r[1] # s
           \/ l[s] \in 0 .. now /\ <<s, l[s]>> \in disk.rows /\ \A r \in disk.rows : r[1] = s => r[2] <= l[s]
    BY <1>2, <1>3, NewestIs
  <1>5. disk = [rows |-> disk.rows, latest |-> disk.latest]
    BY DEF StoreInv, Tables
  <1> HIDE DEF l
  <1>6. PICK new : /\ new = IF Fresh THEN l ELSE disk.latest
                   /\ store'.rows = disk.rows /\ store'.latest = new
                   /\ disk'.rows = disk.rows /\ disk'.latest = new
    <2>1. CASE Fresh
      <3>1. store' = [disk EXCEPT !.latest = l]
        BY <1>1, <2>1 DEF Data!Backfilled, l
      <3>2. store' = [rows |-> disk.rows, latest |-> l]
        BY <1>5, <3>1
      <3> QED  BY <1>1, <2>1, <3>2
    <2>2. CASE ~Fresh
      <3>1. store' = disk
        BY <1>1, <2>2 DEF Data!Backfilled
      <3> QED  BY <1>1, <2>2, <3>1
    <2> QED  BY <2>1, <2>2
  <1>7. l \in [Known -> (0 .. now) \cup {Never}]
    <2>1. l = [s \in Known |-> l[s]]
      BY DEF l
    <2> QED  BY <1>4, <2>1
  <1>8. InTime'
    <2>1. \A t \in Tasks : task'[t].pc \notin Writing
      BY <1>1 DEF Data!Idle, Writing
    <2>2. late' \subseteq Known
      BY <1>1 DEF LatestInv, InTime, Data!SeriesOf
    <2>3. new \in [Known -> (0 .. now) \cup {Never}]
      BY <1>3, <1>6, <1>7
    <2>4. Timely' = Timely
      BY <1>1 DEF Timely
    <2> QED  BY <1>1, <1>3, <1>6, <2>1, <2>2, <2>3, <2>4 DEF InTime, LatestInv
  <1>9. Backed(disk.rows, new, pruned)
    BY <1>3, <1>4, <1>6 DEF Backed
  <1>10. ASSUME NEW r \in disk.rows, r[1] \in Known \ late' PROVE Reached(new, r)
    <2>1. CASE Fresh
      <3>1. new = l /\ r[1] \in Known
        BY <1>6, <1>10, <2>1
      <3> HIDE DEF Fresh, Left
      <3>2. l[r[1]] \in 0 .. now /\ r[2] <= l[r[1]]
        BY <1>4, <1>10, <3>1
      <3>3. l[r[1]] # Never
        BY <1>2, <3>2
      <3> QED  BY <3>1, <3>2, <3>3 DEF Reached
    <2>2. CASE ~Fresh
      <3>1. \A t \in Tasks : task[t].pc \in {"upsert", "commit"} => r \notin Data!Range(task[t].batch)
        BY <1>1, <1>10 DEF Data!SeriesOf
      <3>2. r[1] \in Known \ late
        BY <1>1, <1>10
      <3>3. Reached(disk.latest, r)
        BY <1>3, <3>1, <3>2 DEF Ahead
      <3> QED  BY <1>6, <2>2, <3>3
    <2> QED  BY <2>1, <2>2
  <1>11. /\ Ahead(store'.rows, store'.latest, late', task', {"upsert"})
         /\ Ahead(disk'.rows, disk'.latest, late', task', {"upsert", "commit"})
    BY <1>6, <1>10 DEF Ahead
  <1>12. Backed(store'.rows, store'.latest, pruned') /\ Backed(disk'.rows, disk'.latest, pruned')
    BY <1>1, <1>6, <1>9
  <1> QED  BY <1>8, <1>11, <1>12 DEF LatestInv

LEMMA TickStays ==
    ASSUME StoreInv, LatestInv, Data!Tick
    PROVE  LatestInv'
  <1>1. /\ now' = now + 1 /\ now' \in 0 .. Horizon /\ now \in Nat
        /\ days' = days /\ store' = store /\ disk' = disk /\ task' = task /\ pruned' = pruned /\ late' = late
    BY StoreAssumption DEF Data!Tick, StoreInv, Data!BoundsAssumption
  <1>2. Timely \subseteq Timely' /\ (0 .. now) \subseteq (0 .. now')
    BY <1>1 DEF Timely
  <1>3. InTime'
    <2> HIDE DEF Writing
    <2>1. \A t \in Tasks : task[t].pc \in Writing => Data!Range(task[t].batch) \subseteq Timely'
      BY <1>2 DEF LatestInv, InTime
    <2>2. \A f \in [Known -> (0 .. now) \cup {Never}] : f \in [Known -> (0 .. now') \cup {Never}]
      BY <1>2
    <2> QED  BY <1>1, <1>2, <2>1, <2>2 DEF LatestInv, InTime
  <1>4. /\ Ahead(store'.rows, store'.latest, late', task', {"upsert"})
        /\ Ahead(disk'.rows, disk'.latest, late', task', {"upsert", "commit"})
        /\ Backed(store'.rows, store'.latest, pruned') /\ Backed(disk'.rows, disk'.latest, pruned')
    BY <1>1 DEF LatestInv
  <1> QED  BY <1>3, <1>4 DEF LatestInv

LEMMA LatestStep ==
    ASSUME StoreInv, LatestInv, Data!Next
    PROVE  LatestInv'
  <1>1. ASSUME NEW t \in Tasks, Data!TaskStep(t) PROVE LatestInv'
    BY <1>1, ArriveStays, InsertStays, UpsertStays, CommitStays, EndStays, StartStays, PruneStays,
       CommitPruneStays
    DEF Data!TaskStep, Data!Scheduled, Data!Manual
  <1> QED  BY <1>1, RestartStays, TickStays DEF Data!Next

LEMMA LatestStart == Data!Init => LatestInv
  <1> SUFFICES ASSUME Data!Init PROVE LatestInv
    OBVIOUS
  <1> DEFINE none == [s \in Known |-> Never]
  <1>1. /\ store = [rows |-> {}, latest |-> none] /\ disk = store /\ task = [t \in Tasks |-> Data!Idle]
        /\ now = 0 /\ days \in RetentionSettings /\ late = {} /\ 0 \in 0 .. Horizon
    BY StoreAssumption DEF Data!Init, Data!BoundsAssumption
  <1>2. \A t \in Tasks : task[t].pc \notin Writing
    BY <1>1 DEF Data!Idle, Writing
  <1>3. none \in [Known -> (0 .. now) \cup {Never}] /\ \A s \in Known : none[s] = Never
    OBVIOUS
  <1> HIDE DEF none
  <1> QED  BY <1>1, <1>2, <1>3 DEF LatestInv, InTime, Backed, Ahead

\* The last values: each is the value of a row that the disk has, or a cleanup has removed,
\* and is the newest there is of its series once no task has still to write it, unless an
\* older batch came after a newer one or a task failed half way (LatestKept).
THEOREM LatestHolds == Data!Spec => []LatestKept
  <1>1. Data!Init => StoreInv /\ LatestInv
    BY StoreStart, LatestStart
  <1>2. StoreInv /\ LatestInv /\ [Data!Next]_(Data!vars) => (StoreInv /\ LatestInv)'
    <2>1. CASE Data!Next
      BY <2>1, StoreStep, LatestStep
    <2>2. CASE UNCHANGED Data!vars
      BY <2>2 DEF Data!vars, StoreInv, Tables, LatestInv, InTime, Timely
    <2> QED  BY <2>1, <2>2
  <1>3. StoreInv /\ LatestInv => LatestKept
    <2> SUFFICES ASSUME StoreInv, LatestInv PROVE LatestKept
      OBVIOUS
    <2>1. Data!TypeOK
      <3>1. now \in Nat /\ Horizon \in Nat /\ now <= Horizon
        BY StoreAssumption DEF LatestInv, InTime, Data!BoundsAssumption, StoreInv
      <3>2. Timely \subseteq Data!Row /\ (0 .. now) \subseteq Data!Times
        BY <3>1 DEF Timely, Data!Row, Data!Times
      <3>3. \A f \in [Known -> (0 .. now) \cup {Never}] : f \in [Known -> Data!Times \cup {Never}]
        BY <3>2
      <3>4. ASSUME NEW x, Tables(x), x.rows \subseteq Timely, x.latest \in [Known -> (0 .. now) \cup {Never}]
            PROVE  x \in [rows : SUBSET Data!Row, latest : [Known -> Data!Times \cup {Never}]]
        BY <3>2, <3>3, <3>4 DEF Tables
      <3>5. {store, disk} \subseteq [rows : SUBSET Data!Row, latest : [Known -> Data!Times \cup {Never}]]
        BY <3>4 DEF StoreInv, LatestInv, InTime
      <3> QED  BY <3>1, <3>5 DEF Data!TypeOK, Data!Times, LatestInv, InTime
    <2>2. Data!LatestHasRow
      BY DEF Data!LatestHasRow, LatestInv, Backed
    <2>3. Data!LatestIsNewest
      <3>1. now \in Nat
        BY DEF StoreInv
      <3>2. \A r \in store.rows : r[1] \in Known /\ Reached(store.latest, r) => store.latest[r[1]] >= r[2]
        BY <3>1 DEF Reached, LatestInv, InTime, Timely
      <3> QED  BY <3>2 DEF Data!LatestIsNewest, Data!At, LatestInv, Ahead
    <2> QED  BY <2>1, <2>2, <2>3 DEF LatestKept, Data!LatestKept
  <1> QED  BY <1>1, <1>2, <1>3, PTL DEF Data!Spec

-----------------------------------------------------------------------------
(* The charts *)

ChartInv == Chart!TypeOK /\ IsFiniteSet(rows)

LEMMA SameCount == \A A : Chart!Cardinality(A) = Cardinality(A)
  BY DEF Chart!Cardinality, Cardinality, Chart!IsFiniteSet, IsFiniteSet

LEMMA NewerIsOlder ==
    ASSUME NEW S, IsFiniteSet(S), \A x \in S : x[2] \in Nat, NEW x \in S, NEW y \in S, x[2] <= y[2]
    PROVE  /\ Chart!Rank(S, x) \in Nat /\ Chart!Rank(S, y) \in Nat
           /\ Chart!Rank(S, y) <= Chart!Rank(S, x)
  <1> DEFINE Nx == {c \in S : c[2] > x[2]}
             Ny == {c \in S : c[2] > y[2]}
  <1>1. Ny \in SUBSET Nx
    OBVIOUS
  <1>2. IsFiniteSet(Nx)
    BY FS_Subset
  <1>3. Cardinality(Nx) \in Nat /\ Cardinality(Ny) \in Nat /\ Cardinality(Ny) <= Cardinality(Nx)
    BY <1>1, <1>2, FS_Subset, FS_CardinalityType
  <1>4. Chart!Rank(S, x) = 1 + Cardinality(Nx) /\ Chart!Rank(S, y) = 1 + Cardinality(Ny)
    BY SameCount DEF Chart!Rank
  <1> HIDE DEF Nx, Ny
  <1> QED  BY <1>3, <1>4

\* Of the points of a series a full slice is shown if one is not, all newer.
LEMMA SliceIsFull ==
    ASSUME NEW S, IsFiniteSet(S), \A x \in S : x[2] \in 0 .. Ticks,
           \A x, z \in S : x[2] = z[2] => x = z,
           NEW y \in S, ~(Chart!Rank(S, y) <= PerSeries)
    PROVE  /\ Cardinality({x \in S : Chart!Rank(S, x) <= PerSeries}) = PerSeries
           /\ \A x \in S : Chart!Rank(S, x) <= PerSeries => x[2] > y[2]
  <1> DEFINE top == {x \in S : Chart!Rank(S, x) <= PerSeries}
             Newer(x) == {c \in S : c[2] > x[2]}
             out == {x[2] : x \in S \ top}
             in == {x[2] : x \in top}
  <1>0. Ticks \in Nat /\ PerSeries \in Nat \ {0}
    BY StoreAssumption DEF Chart!ChartAssumption
  <1>1. \A x \in S : x[2] \in Nat
    BY <1>0
  <1>2. \A x, z \in S : /\ Chart!Rank(S, x) \in Nat
                        /\ x[2] <= z[2] => Chart!Rank(S, z) <= Chart!Rank(S, x)
    BY <1>1, NewerIsOlder
  <1>3. \A x \in top, z \in S \ top : x[2] > z[2]
    BY <1>0, <1>1, <1>2
  <1>4. top \subseteq S /\ IsFiniteSet(top) /\ Cardinality(top) \in Nat
    BY FS_Subset, FS_CardinalityType
  <1>5. \A x \in S : Chart!Rank(S, x) = 1 + Cardinality(Newer(x)) /\ Cardinality(Newer(x)) \in Nat
    <2> TAKE x \in S
    <2>1. Newer(x) \subseteq S
      OBVIOUS
    <2>2. Cardinality(Newer(x)) \in Nat
      BY <2>1, FS_Subset, FS_CardinalityType
    <2> QED  BY <2>2, SameCount DEF Chart!Rank
  <1>6. Cardinality(top) >= PerSeries
    <2>1. out \in SUBSET (0 .. Ticks) /\ out # {}
      OBVIOUS
    <2>2. PICK n \in out : \A k \in out : k <= n
      BY <1>0, <2>1, HasGreatest
    <2>3. PICK m \in S \ top : m[2] = n
      OBVIOUS
    <2>4. \A x \in S \ top : ~(x[2] > m[2])
      BY <1>1, <2>2, <2>3
    <2>5. Newer(m) = top
      BY <1>3, <2>3, <2>4
    <2>6. ~(Chart!Rank(S, m) <= PerSeries)
      BY <2>3
    <2>7. Chart!Rank(S, m) = 1 + Cardinality(top)
      BY <1>5, <2>3, <2>5
    <2> HIDE DEF top
    <2> QED  BY <1>0, <1>4, <2>6, <2>7
  <1>7. top # {}
    <2> SUFFICES ASSUME top = {} PROVE FALSE
      OBVIOUS
    <2> QED  BY <1>0, <1>6, FS_EmptySet
  <1>8. Cardinality(top) <= PerSeries
    <2>1. in \in SUBSET Nat /\ in # {}
      BY <1>7
    <2>2. PICK n \in in : \A k \in in : n <= k
      BY <2>1, HasLeast
    <2>3. PICK m \in top : m[2] = n
      OBVIOUS
    <2>4. \A x \in top : x[2] > m[2] \/ x = m
      <3> TAKE x \in top
      <3>1. m[2] <= x[2] /\ x[2] \in Nat /\ m[2] \in Nat
        BY <1>1, <2>2, <2>3
      <3>2. x[2] = m[2] => x = m
        OBVIOUS
      <3> HIDE DEF top
      <3> QED  BY <3>1, <3>2
    <2>5. m \in S /\ Chart!Rank(S, m) <= PerSeries
      BY <2>3
    <2>6. \A x \in S \ top : ~(x[2] > m[2])
      BY <1>1, <1>3, <2>3
    <2>7. Newer(m) = top \ {m}
      BY <1>1, <2>3, <2>4, <2>6
    <2>8. Cardinality(top \ {m}) = Cardinality(top) - 1
      BY <1>4, <2>3, FS_RemoveElement
    <2>9. Chart!Rank(S, m) = 1 + (Cardinality(top) - 1)
      BY <1>5, <2>5, <2>7, <2>8
    <2> HIDE DEF top
    <2> QED  BY <1>0, <1>4, <2>5, <2>9
  <1>9. Cardinality(top) = PerSeries
    <2> HIDE DEF top
    <2> QED  BY <1>0, <1>4, <1>6, <1>8
  <1> QED  BY <1>3, <1>9

LEMMA BucketIsNoLater ==
    ASSUME NEW at \in Nat, NEW width \in Nat
    PROVE  Chart!Bucket(at, width) \in 0 .. at
  <1>1. CASE width = 0
    BY <1>1 DEF Chart!Bucket
  <1>2. CASE width # 0
    <2>1. at % width \in 0 .. width - 1 /\ at \div width \in Nat /\ at = width * (at \div width) + (at % width)
      BY <1>2
    <2>2. width * (at \div width) \in Nat
      BY <2>1
    <2>3. at - (at % width) \in 0 .. at
      BY <2>1, <2>2
    <2> QED  BY <1>2, <2>3 DEF Chart!Bucket
  <1> QED  BY <1>1, <1>2

LEMMA PointsAre ==
    ASSUME ChartInv, NEW interface, NEW from, NEW width \in Widths
    PROVE  /\ IsFiniteSet(Chart!Points(interface, from, width))
           /\ \A b \in Chart!Points(interface, from, width) : b = <<b[1], b[2]>> /\ b[2] \in 0 .. Ticks
  <1> DEFINE kept == {r \in Chart!InScope(interface) : Chart!At(r) >= from}
             Of(r) == <<r[1], Chart!Bucket(Chart!At(r), width)>>
             all == {Of(r) : r \in kept}
             f == [r \in kept |-> Of(r)]
  <1>1. Chart!Points(interface, from, width) = all
    BY DEF Chart!Points, Chart!Buckets
  <1>2. kept \subseteq rows
    BY DEF Chart!InScope
  <1>3. IsFiniteSet(all)
    <2>1. IsFiniteSet(kept)
      BY <1>2, FS_Subset DEF ChartInv
    <2>2. f \in [kept -> all]
      OBVIOUS
    <2>3. \A b \in all : \E r \in kept : f[r] = b
      OBVIOUS
    <2> HIDE DEF f, kept, all
    <2>4. f \in Surjection(kept, all)
      BY <2>2, <2>3 DEF Surjection
    <2> QED  BY <2>1, <2>4, FS_Surjection
  <1>4. ASSUME NEW b \in all PROVE b = <<b[1], b[2]>> /\ b[2] \in 0 .. Ticks
    <2>1. Widths \subseteq Nat /\ Ticks \in Nat
      BY StoreAssumption DEF Chart!ChartAssumption
    <2>2. PICK r \in rows : b = Of(r)
      BY <1>2
    <2>3. Chart!At(r) \in 0 .. Ticks
      BY <2>2 DEF ChartInv, Chart!TypeOK, Chart!Times, Chart!At
    <2>4. Chart!Bucket(Chart!At(r), width) \in 0 .. Chart!At(r)
      BY <2>1, <2>3, BucketIsNoLater
    <2>5. Chart!Bucket(Chart!At(r), width) \in 0 .. Ticks
      BY <2>1, <2>3, <2>4
    <2> QED  BY <2>2, <2>5
  <1> QED  BY <1>1, <1>3, <1>4

LEMMA ReachesNow == ChartInv => Chart!ChartReachesNow
  <1> SUFFICES ASSUME ChartInv, NEW interface \in Scoped, NEW from \in Chart!Times, NEW width \in Widths,
                      NEW shown \in Chart!History(Chart!Points(interface, from, width)),
                      NEW b \in Chart!Points(interface, from, width), b \notin shown
               PROVE  \/ Chart!Cardinality({c \in shown : c[1] = b[1] /\ c[2] > b[2]}) = PerSeries
                      \/ Chart!Cardinality(shown) = Overall /\ \A c \in shown : c[2] >= b[2]
    BY DEF Chart!ChartReachesNow
  <1> DEFINE all == Chart!Points(interface, from, width)
             ranked == Chart!Capped(all)
             mine == {c \in all : c[1] = b[1]}
             top == {c \in mine : Chart!Rank(mine, c) <= PerSeries}
             newer == {c \in shown : c[1] = b[1] /\ c[2] > b[2]}
  <1>1. Ticks \in Nat /\ PerSeries \in Nat \ {0}
    BY StoreAssumption DEF Chart!ChartAssumption
  <1>2. IsFiniteSet(all) /\ \A c \in all : c = <<c[1], c[2]>> /\ c[2] \in 0 .. Ticks
    BY PointsAre
  <1>3. /\ shown \subseteq ranked
        /\ shown # ranked => Chart!Cardinality(shown) = Overall
        /\ \A x \in shown, c \in ranked \ shown : c[2] <= x[2]
    BY DEF Chart!History, Chart!Limited
  <1>4. ranked \subseteq all /\ \A c \in mine : c \in ranked <=> c \in top
    BY DEF Chart!Capped
  <1>5. ASSUME NEW x \in ranked \ shown
        PROVE  Chart!Cardinality(shown) = Overall /\ \A c \in shown : c[2] >= x[2] /\ {c[2], x[2]} \subseteq Nat
    <2> HIDE DEF ranked, all
    <2>1. \A c \in shown : c \in all /\ c[2] \in 0 .. Ticks
      BY <1>2, <1>3, <1>4
    <2>2. x \in all /\ x[2] \in 0 .. Ticks
      BY <1>2, <1>4
    <2>3. \A c \in shown : c[2] >= x[2]
      BY <1>1, <1>3, <2>1, <2>2
    <2> QED  BY <1>1, <1>3, <2>1, <2>2, <2>3
  <1>6. CASE b \notin ranked
    <2>1. mine \subseteq all /\ b \in mine
      OBVIOUS
    <2>2. IsFiniteSet(mine) /\ \A c \in mine : c[2] \in 0 .. Ticks /\ c = <<b[1], c[2]>>
      BY <1>2, <2>1, FS_Subset
    <2>3. ~(Chart!Rank(mine, b) <= PerSeries)
      BY <1>4, <1>6, <2>1
    <2> HIDE DEF mine
    <2>4. Cardinality(top) = PerSeries /\ \A c \in top : c[2] > b[2]
      <3>1. \A c, d \in mine : c[2] = d[2] => c = d
        <4> TAKE c, d \in mine
        <4>1. c = <<b[1], c[2]>> /\ d = <<b[1], d[2]>>
          BY <2>2
        <4> QED  BY <4>1
      <3> QED  BY <2>1, <2>2, <2>3, <3>1, SliceIsFull
    <2>5. CASE top \subseteq shown
      <3>1. newer \subseteq top
        <4> HIDE DEF ranked, top, all
        <4>1. \A c \in newer : c \in all /\ c \in ranked /\ c[1] = b[1]
          BY <1>3, <1>4
        <4> QED  BY <1>4, <4>1 DEF mine
      <3>2. top \subseteq newer
        BY <2>1, <2>4, <2>5 DEF mine
      <3>3. newer = top
        BY <3>1, <3>2
      <3> QED  BY <2>4, <3>3, SameCount
    <2>6. CASE ~(top \subseteq shown)
      <3>1. PICK x \in top : x \notin shown
        BY <2>6
      <3>2. x \in ranked \ shown /\ x[2] > b[2] /\ x[2] \in Nat /\ b[2] \in Nat
        BY <1>1, <1>4, <2>1, <2>2, <2>4, <3>1
      <3> HIDE DEF ranked
      <3>3. Chart!Cardinality(shown) = Overall /\ \A c \in shown : c[2] >= x[2] /\ c[2] \in Nat
        BY <1>5, <3>2
      <3> QED  BY <3>2, <3>3
    <2> QED  BY <2>5, <2>6
  <1>7. CASE b \in ranked
    <2> HIDE DEF ranked
    <2> QED  BY <1>5, <1>7
  <1> QED  BY <1>6, <1>7

LEMMA DayIs == \A a \in Nat : a \div DayLength \in Nat
  <1>1. DayLength \in Nat \ {0}
    BY StoreAssumption DEF Chart!ChartAssumption
  <1> QED  BY <1>1

\* Of the alerts of a window, a full list of older ones is shown if one is not.
LEMMA ListIsFull ==
    ASSUME NEW W \in SUBSET Nat, IsFiniteSet(W), NEW limit \in Nat, W \subseteq 0 .. limit,
           NEW size \in Nat \ {0}, NEW t \in W, ~(Cardinality({u \in W : u < t}) < size)
    PROVE  /\ Cardinality({x \in W : Cardinality({u \in W : u < x}) < size}) = size
           /\ \A x \in W : Cardinality({u \in W : u < x}) < size => x < t
  <1> DEFINE Older(x) == {u \in W : u < x}
             listed == {x \in W : Cardinality(Older(x)) < size}
  <1>1. \A x \in W : IsFiniteSet(Older(x)) /\ Cardinality(Older(x)) \in Nat
    <2> TAKE x \in W
    <2>1. Older(x) \subseteq W
      OBVIOUS
    <2> QED  BY <2>1, FS_Subset, FS_CardinalityType
  <1>2. \A x, y \in W : x <= y => Cardinality(Older(x)) <= Cardinality(Older(y))
    <2> SUFFICES ASSUME NEW x \in W, NEW y \in W, x <= y PROVE Cardinality(Older(x)) <= Cardinality(Older(y))
      OBVIOUS
    <2>1. Older(x) \in SUBSET Older(y)
      <3>1. x \in Nat /\ y \in Nat /\ \A u \in W : u \in Nat
        OBVIOUS
      <3>2. \A u \in W : u < x => u < y
        BY <3>1
      <3> QED  BY <3>2
    <2>2. IsFiniteSet(Older(y))
      BY <1>1
    <2> HIDE DEF Older
    <2> QED  BY <2>1, <2>2, FS_Subset
  <1>3. t \in W \ listed
    OBVIOUS
  <1>4. \A x \in listed, y \in W \ listed : x < y
    <2> SUFFICES ASSUME NEW x \in listed, NEW y \in W \ listed, ~(x < y) PROVE FALSE
      OBVIOUS
    <2>1. x \in W /\ y \in W /\ y <= x
      OBVIOUS
    <2>2. Cardinality(Older(x)) < size /\ ~(Cardinality(Older(y)) < size)
      OBVIOUS
    <2> HIDE DEF Older
    <2> QED  BY <1>1, <1>2, <2>1, <2>2
  <1>5. listed \subseteq W /\ IsFiniteSet(listed) /\ Cardinality(listed) \in Nat
    <2>1. listed \subseteq W
      OBVIOUS
    <2> HIDE DEF listed
    <2> QED  BY <2>1, FS_Subset, FS_CardinalityType
  <1>6. Cardinality(listed) >= size
    <2> DEFINE out == W \ listed
    <2>1. out \in SUBSET Nat /\ out # {}
      BY <1>3
    <2>2. PICK m \in out : \A k \in out : m <= k
      BY <2>1, HasLeast
    <2>3. Older(m) = listed
      <3>1. \A x \in listed : x < m
        BY <1>4, <2>2
      <3>2. \A x \in W : x < m => x \in listed
        BY <2>1, <2>2
      <3> HIDE DEF listed
      <3> QED  BY <1>5, <3>1, <3>2
    <2>4. ~(Cardinality(Older(m)) < size)
      BY <2>2
    <2> HIDE DEF listed, Older
    <2> QED  BY <1>5, <2>3, <2>4
  <1>7. listed # {}
    <2> SUFFICES ASSUME listed = {} PROVE FALSE
      OBVIOUS
    <2> HIDE DEF listed
    <2> QED  BY <1>6, FS_EmptySet
  <1>8. Cardinality(listed) <= size
    <2>1. listed \in SUBSET (0 .. limit)
      OBVIOUS
    <2>2. PICK m \in listed : \A k \in listed : k <= m
      <3> HIDE DEF listed
      <3> QED  BY <1>7, <2>1, HasGreatest
    <2>3. Older(m) = listed \ {m}
      <3>1. \A y \in W \ listed : m < y
        BY <1>4, <2>2
      <3>2. \A y \in W : y < m => y \in listed
        BY <2>1, <2>2, <3>1
      <3>3. \A y \in listed : y \in W /\ y <= m /\ m \in Nat /\ y \in Nat
        BY <2>1, <2>2
      <3>4. m \in W /\ ~(m < m)
        BY <2>1, <2>2
      <3> HIDE DEF listed
      <3>5. \A y \in listed : y \in W /\ (y < m \/ y = m)
        BY <3>3
      <3> QED  BY <3>2, <3>4, <3>5
    <2>4. Cardinality(Older(m)) < size
      BY <2>2
    <2> HIDE DEF listed, Older
    <2>5. Cardinality(listed \ {m}) = Cardinality(listed) - 1
      BY <1>5, <2>2, FS_RemoveElement
    <2> QED  BY <1>5, <2>3, <2>4, <2>5
  <1>9. Cardinality(listed) = size
    <2> HIDE DEF listed
    <2> QED  BY <1>5, <1>6, <1>8
  <1> QED  BY <1>3, <1>4, <1>9

LEMMA OfTheDays == ChartInv => Chart!AlertsOfTheDays
  <1> SUFFICES ASSUME ChartInv, NEW from \in Chart!Times, NEW until \in Chart!Times
               PROVE  LET shown == Chart!Overlay(from, until)
                          ofTheDays == {t \in fired : /\ from \div DayLength < t \div DayLength
                                                     /\ t \div DayLength <= until \div DayLength}
                      IN  /\ shown \subseteq ofTheDays
                          /\ \A t \in ofTheDays \ shown : Chart!Cardinality({u \in shown : u < t}) = Alerts
    BY DEF Chart!AlertsOfTheDays
  <1> DEFINE W == {t \in fired : /\ ~Chart!Before(Chart!Text(t, Chart!Space), Chart!Text(from, Chart!T))
                                 /\ ~Chart!Before(Chart!Text(until, Chart!T), Chart!Text(t, Chart!Space))}
             Day(t) == t \div DayLength
             listed == {x \in W : Cardinality({u \in W : u < x}) < Alerts}
  <1>1. Ticks \in Nat /\ Alerts \in Nat \ {0} /\ from \in 0 .. Ticks /\ until \in 0 .. Ticks /\ fired \subseteq 0 .. Ticks
    BY StoreAssumption DEF Chart!ChartAssumption, Chart!Times, ChartInv, Chart!TypeOK
  <1>2. W \subseteq fired
    OBVIOUS
  <1>3. W \in SUBSET Nat /\ W \subseteq 0 .. Ticks /\ IsFiniteSet(W)
    <2>1. W \in SUBSET (0 .. Ticks)
      BY <1>1, <1>2
    <2>2. IsFiniteSet(0 .. Ticks)
      BY <1>1, FS_Interval
    <2> HIDE DEF W
    <2>3. IsFiniteSet(W)
      BY <2>1, <2>2, FS_Subset
    <2>4. W \in SUBSET Nat
      BY <2>1
    <2> QED  BY <2>1, <2>3, <2>4
  <1>4. Chart!Overlay(from, until) = listed
    BY SameCount DEF Chart!Overlay, Chart!Oldest
  <1>5. \A t \in fired : Day(t) \in Nat /\ Day(from) \in Nat /\ Day(until) \in Nat
    <2> TAKE t \in fired
    <2>1. t \in Nat /\ from \in Nat /\ until \in Nat
      BY <1>1
    <2> QED  BY <2>1, DayIs
  <1>6. \A t \in fired : t \in W <=> Day(from) < Day(t) /\ Day(t) <= Day(until)
    <2> TAKE t \in fired
    <2>1. /\ Chart!Text(t, Chart!Space) = <<Day(t), 0, t % DayLength>>
          /\ Chart!Text(from, Chart!T) = <<Day(from), 1, from % DayLength>>
          /\ Chart!Text(until, Chart!T) = <<Day(until), 1, until % DayLength>>
      BY DEF Chart!Text, Chart!Space, Chart!T
    <2>2. Day(t) \in Nat /\ Day(from) \in Nat /\ Day(until) \in Nat
      BY <1>5
    <2> HIDE DEF Day
    <2>3. Chart!Before(Chart!Text(t, Chart!Space), Chart!Text(from, Chart!T)) <=> Day(t) <= Day(from)
      BY <2>1, <2>2 DEF Chart!Before
    <2>4. Chart!Before(Chart!Text(until, Chart!T), Chart!Text(t, Chart!Space)) <=> Day(until) < Day(t)
      BY <2>1, <2>2 DEF Chart!Before
    <2> QED  BY <2>2, <2>3, <2>4
  <1> DEFINE ofTheDays == {t \in fired : Day(from) < Day(t) /\ Day(t) <= Day(until)}
  <1>7. ofTheDays = W
    <2> HIDE DEF W, Day
    <2> QED  BY <1>2, <1>6 DEF ofTheDays
  <1> HIDE DEF W
  <1>8. ASSUME NEW t \in W, t \notin listed PROVE Cardinality({u \in listed : u < t}) = Alerts
    <2>1. t \in W
      OBVIOUS
    <2>2. CASE Cardinality({u \in W : u < t}) < Alerts
      BY <1>8, <2>2
    <2>3. CASE ~(Cardinality({u \in W : u < t}) < Alerts)
      <3>1. Cardinality(listed) = Alerts /\ \A x \in W : Cardinality({u \in W : u < x}) < Alerts => x < t
        BY <1>1, <1>3, <2>1, <2>3, ListIsFull
      <3>2. {u \in listed : u < t} = listed
        BY <3>1
      <3> HIDE DEF listed
      <3> QED  BY <3>1, <3>2
    <2> QED  BY <2>2, <2>3
  <1>9. listed \subseteq W
    OBVIOUS
  <1> HIDE DEF listed, ofTheDays
  <1>10. /\ listed \subseteq ofTheDays
         /\ \A t \in ofTheDays \ listed : Chart!Cardinality({u \in listed : u < t}) = Alerts
    BY <1>7, <1>8, <1>9, SameCount
  <1> QED  BY <1>4, <1>10 DEF ofTheDays

\* A chart reaches the newest point of every series it shows and has no hole up to
\* there, unless it is full of points at least as new; of the alerts laid over it
\* exactly those of the days after its first one and up to its last one are there, less
\* what a list full of older ones leaves out (ChartKept).
THEOREM ChartHolds == Chart!Spec => []ChartKept
  <1>1. Chart!Init => ChartInv
    BY FS_EmptySet DEF Chart!Init, ChartInv, Chart!TypeOK
  <1>2. ChartInv /\ [Chart!Next]_(Chart!vars) => ChartInv'
    <2> SUFFICES ASSUME ChartInv, [Chart!Next]_(Chart!vars) PROVE ChartInv'
      OBVIOUS
    <2>1. CASE Chart!Store
      <3>1. PICK r \in Charted \X Chart!Times : rows' = rows \cup {r} /\ UNCHANGED fired
        BY <2>1 DEF Chart!Store
      <3> QED  BY <3>1, FS_AddElement DEF ChartInv, Chart!TypeOK
    <2>2. CASE Chart!Fire
      BY <2>2 DEF Chart!Fire, ChartInv, Chart!TypeOK
    <2>3. CASE UNCHANGED Chart!vars
      BY <2>3 DEF Chart!vars, ChartInv, Chart!TypeOK
    <2> QED  BY <2>1, <2>2, <2>3 DEF Chart!Next
  <1>3. ChartInv => ChartKept
    BY ReachesNow, OfTheDays DEF ChartInv, ChartKept, Chart!ChartKept
  <1> QED  BY <1>1, <1>2, <1>3, PTL DEF Chart!Spec
=============================================================================
