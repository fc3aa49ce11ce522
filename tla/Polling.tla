------------------------------- MODULE Polling -------------------------------
(***************************************************************************)
(* The poll loop of the local collector (snmp/poll_engine.py): it reads    *)
(* its devices, polls those that are due, writes their status, sleeps, and *)
(* is told to read its devices again when an administrator changes them.   *)
(*                                                                         *)
(* Polls run side by side.  A status that cannot be written ends the round *)
(* with an error, but not the other polls of the round: they go on as      *)
(* strays.  Times are countdowns, in ticks; 0.1 s is no tick.              *)
(***************************************************************************)
EXTENDS Naturals, FiniteSets

CONSTANTS
    Devices,
    Interval,       \* between the polls of a device, in ticks
    LongestSleep,   \* five seconds
    Concurrency,    \* snmp_poll_max_concurrency
    None

ASSUME PollingAssumption ==
    /\ IsFiniteSet(Devices)
    /\ {Interval, LongestSleep, Concurrency} \subseteq Nat \ {0} /\ None \notin Nat

VARIABLES
    enabled,        \* devices of the local collector that are enabled
    unsignalled,    \* a change of them is committed and not signalled yet
    reload,         \* _reload_event
    loop,           \* where the loop is
    loaded,         \* its devices
    next,           \* next_poll: countdown of a device, None if it has none
    wake,           \* countdown of the sleep
    poll, stray,    \* [Devices -> a poll of the round, or one left from an earlier one]
    status,         \* of the devices
    since,          \* history: ticks since the last answer, up to Interval
    lost,           \* history: a reload has failed, and none has worked since
    raised          \* history: a status could not be written

vars == <<enabled, unsignalled, reload, loop, loaded, next, wake, poll, stray, status,
          since, lost, raised>>

history == <<lost, raised>>

Polls == {"none", "waiting", "asking", "up", "down", "failed"}

\* A start of the process, with the table as it was left.
Init ==
    /\ enabled \in SUBSET Devices /\ unsignalled = FALSE /\ reload = FALSE
    /\ loop = "start" /\ loaded = {} /\ next = [d \in Devices |-> None] /\ wake = 0
    /\ poll = [d \in Devices |-> "none"] /\ stray = [d \in Devices |-> "none"]
    /\ status = [d \in Devices |-> "unknown"]
    /\ since = [d \in Devices |-> Interval]
    /\ lost = FALSE /\ raised = FALSE

-----------------------------------------------------------------------------
(* Administrators *)

\* create_device, update_device, delete_device and the import: commit, then signal.
ChangeDevices ==
    /\ enabled' \in SUBSET Devices \ {enabled}
    /\ unsignalled' = TRUE
    /\ UNCHANGED <<reload, loop, loaded, next, wake, poll, stray, status, since, history>>

Signal ==
    /\ unsignalled /\ unsignalled' = FALSE /\ reload' = TRUE
    /\ UNCHANGED <<enabled, loop, loaded, next, wake, poll, stray, status, since, history>>

-----------------------------------------------------------------------------
(* The loop *)

\* What is new is due at once; what is gone keeps its place.
Scheduled_NotNew(devices) == next

Scheduled(devices) == [d \in Devices |-> IF d \in devices /\ next[d] = None THEN 0 ELSE next[d]]

Start ==
    /\ loop = "start"
    /\ loop' = "top" /\ loaded' = enabled /\ next' = Scheduled(enabled)
    /\ UNCHANGED <<enabled, unsignalled, reload, wake, poll, stray, status, since, history>>

\* The event is cleared before anything is read again.
TakeSignal ==
    /\ loop = "top" /\ reload
    /\ reload' = FALSE /\ loop' = "load"
    /\ UNCHANGED <<enabled, unsignalled, loaded, next, wake, poll, stray, status, since, history>>

Load_OnlyAdds ==
    /\ loop = "load"
    /\ loaded' = loaded \cup enabled /\ next' = Scheduled(enabled) /\ loop' = "due" /\ lost' = FALSE
    /\ UNCHANGED <<enabled, unsignalled, reload, wake, poll, stray, status, since, raised>>

Load ==
    /\ loop = "load"
    /\ loaded' = enabled /\ next' = Scheduled(enabled) /\ loop' = "due" /\ lost' = FALSE
    /\ UNCHANGED <<enabled, unsignalled, reload, wake, poll, stray, status, since, raised>>

\* The settings or the devices cannot be read: the signal has been taken.
LoadFails ==
    /\ loop = "load"
    /\ loop' = "failed" /\ lost' = TRUE
    /\ UNCHANGED <<enabled, unsignalled, reload, loaded, next, wake, poll, stray, status, since, raised>>

NoSignal ==
    /\ loop = "top" /\ ~reload /\ loop' = "due"
    /\ UNCHANGED <<enabled, unsignalled, reload, loaded, next, wake, poll, stray, status, since, history>>

StartRound_ClearsSignal ==
    /\ loop = "due"
    /\ poll' = [d \in Devices |-> IF d \in loaded /\ next[d] = 0 THEN "waiting" ELSE "none"]
    /\ loop' = "round" /\ reload' = FALSE
    /\ UNCHANGED <<enabled, unsignalled, loaded, next, wake, stray, status, since, history>>

StartRound ==
    /\ loop = "due"
    /\ poll' = [d \in Devices |-> IF d \in loaded /\ next[d] = 0 THEN "waiting" ELSE "none"]
    /\ loop' = "round"
    /\ UNCHANGED <<enabled, unsignalled, reload, loaded, next, wake, stray, status, since, history>>

Least(S) == {n \in S : \A m \in S : n <= m}

Sleep ==
    /\ loop = "round" /\ \A d \in Devices : poll[d] = "none"
    /\ wake' \in Least({next[d] : d \in {e \in Devices : next[e] # None}} \cup {LongestSleep})
    /\ loop' = "sleep"
    /\ UNCHANGED <<enabled, unsignalled, reload, loaded, next, poll, stray, status, since, history>>

\* The time is up, or there is a signal; the five seconds after an error are slept out.
Wake ==
    /\ \/ loop = "sleep" /\ (wake = 0 \/ reload)
       \/ loop = "failed"
    /\ loop' = "top"
    /\ UNCHANGED <<enabled, unsignalled, reload, loaded, next, wake, poll, stray, status, since, history>>

-----------------------------------------------------------------------------
(* The polls: p is those of the round, or the strays *)

Asking(p) == {d \in Devices : p[d] \notin {"none", "waiting"}}

Ask_Unbounded(p, d) == p[d] = "waiting"

\* The semaphore of the round.
Ask(p, d) == p[d] = "waiting" /\ Cardinality(Asking(p)) < Concurrency

Moved_Early(d) == next

Moved_BacksOff(d) == [next EXCEPT ![d] = 2 * Interval]

\* An answer, or none, is followed by an interval; a poll that raises is not.
Moved(d) == [next EXCEPT ![d] = Interval]

PollStep(p, q, d) ==
    \/ /\ Ask(p, d)
       /\ q = [p EXCEPT ![d] = "asking"]
       /\ UNCHANGED <<next, status, since>>
    \/ /\ p[d] = "asking"
       /\ q \in {[p EXCEPT ![d] = "up"], [p EXCEPT ![d] = "down"]}
       /\ next' = Moved(d) /\ since' = [since EXCEPT ![d] = 0]
       /\ UNCHANGED status
    \/ /\ p[d] = "asking"
       /\ q = [p EXCEPT ![d] = "failed"]
       /\ UNCHANGED <<next, status, since>>
    \/ /\ p[d] \in {"up", "down"}
       /\ q = [p EXCEPT ![d] = "none"]
       /\ status' = [status EXCEPT ![d] = p[d]]
       /\ UNCHANGED <<next, since>>
    \* The status cannot be written, or the poll raised: it is "down", with the error.
    \/ /\ p[d] \in {"up", "down"}
       /\ q = [p EXCEPT ![d] = "failed"]
       /\ UNCHANGED <<next, status, since>>
    \/ /\ p[d] = "failed"
       /\ q = [p EXCEPT ![d] = "none"]
       /\ status' = [status EXCEPT ![d] = "down"]
       /\ UNCHANGED <<next, since>>

RoundStep(d) ==
    /\ loop = "round" /\ PollStep(poll, poll', d)
    /\ UNCHANGED <<enabled, unsignalled, reload, loop, loaded, wake, stray, history>>

StrayStep(d) ==
    /\ PollStep(stray, stray', d)
    /\ UNCHANGED <<enabled, unsignalled, reload, loop, loaded, wake, poll, history>>

\* That cannot be written either.  A bound: not while there are strays.
RoundFails(d) ==
    /\ loop = "round" /\ poll[d] = "failed" /\ \A e \in Devices : stray[e] = "none"
    /\ stray' = [poll EXCEPT ![d] = "none"]
    /\ poll' = [e \in Devices |-> "none"]
    /\ loop' = "failed" /\ raised' = TRUE
    /\ UNCHANGED <<enabled, unsignalled, reload, loaded, next, wake, status, since, lost>>

StrayFails(d) ==
    /\ stray[d] = "failed"
    /\ stray' = [stray EXCEPT ![d] = "none"]
    /\ UNCHANGED <<enabled, unsignalled, reload, loop, loaded, next, wake, poll, status, since, history>>

-----------------------------------------------------------------------------
(* The system *)

Tick ==
    /\ next' = [d \in Devices |-> IF next[d] \in {None, 0} THEN next[d] ELSE next[d] - 1]
    /\ wake' = IF wake = 0 THEN 0 ELSE wake - 1
    /\ since' = [d \in Devices |-> IF since[d] = Interval THEN Interval ELSE since[d] + 1]
    /\ UNCHANGED <<enabled, unsignalled, reload, loop, loaded, poll, stray, status, history>>

LoopStep == Start \/ TakeSignal \/ Load \/ LoadFails \/ NoSignal \/ StartRound \/ Sleep \/ Wake

Next ==
    \/ ChangeDevices \/ Signal \/ LoopStep \/ Tick
    \/ \E d \in Devices : RoundStep(d) \/ StrayStep(d) \/ RoundFails(d) \/ StrayFails(d)

Spec == Init /\ [][Next]_vars

\* The loop and the polls go on, every poll has a timeout, a request that has committed
\* its change signals it, and time passes.
Fairness ==
    /\ WF_vars(LoopStep) /\ WF_vars(Signal) /\ WF_vars(Tick)
    /\ \A d \in Devices : WF_vars(RoundStep(d)) /\ WF_vars(StrayStep(d))

FairSpec == Spec /\ Fairness

-----------------------------------------------------------------------------
(* Properties *)

\* Every variable has its type.
TypeOK ==
    /\ enabled \subseteq Devices /\ loaded \subseteq Devices
    /\ loop \in {"start", "top", "load", "due", "round", "sleep", "failed"}
    /\ next \in [Devices -> (0 .. Interval) \cup {None}] /\ wake \in 0 .. LongestSleep
    /\ {poll, stray} \subseteq [Devices -> Polls]
    /\ status \in [Devices -> {"unknown", "up", "down"}]
    /\ since \in [Devices -> 0 .. Interval]
    /\ {unsignalled, reload, lost, raised} \subseteq BOOLEAN

\* No change of the devices is missed: when no signal is on its way and none is being
\* answered, the loop has the devices of the table, unless a reload has failed.
SignalNotMissed ==
    ~unsignalled /\ ~reload /\ loop \notin {"start", "load"} /\ ~lost => loaded = enabled

\* A device is asked again no sooner than an interval after its answer, unless polls of
\* an earlier round are still under way or one raised.
PollsAreSpaced ==
    [][\A d \in Devices :
          poll[d] = "waiting" /\ poll'[d] = "asking" /\ ~raised => since[d] = Interval]_vars

\* No more polls than configured are under way, but for those of a round that failed.
ConcurrencyKept == ~raised => Cardinality(Asking(poll) \cup Asking(stray)) <= Concurrency

\* Every enabled device is polled again and again, whatever becomes of the others, if it
\* stays enabled and reloads do not fail for ever.
PolledAgain ==
    \A d \in Devices :
        <>[](d \in enabled /\ ~lost) => []<>(poll[d] = "asking" \/ stray[d] = "asking")

\* A device that has been taken from the collector is left alone after a while.
LeftAlone ==
    \A d \in Devices : <>[](d \notin enabled /\ ~lost) => <>[](poll[d] = "none" /\ stray[d] = "none")

\* What holds between any two steps of the loop, its polls and the requests.
RoundsKept == TypeOK /\ SignalNotMissed /\ ConcurrencyKept

\* The devices that are polled come to be the enabled ones.
PolledAsEnabled == PolledAgain /\ LeftAlone
=============================================================================
