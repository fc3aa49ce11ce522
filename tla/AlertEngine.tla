----------------------------- MODULE AlertEngine -----------------------------
(***************************************************************************)
(* The alert engine of pktSNMP (app/alerts/engine.py) and everything that  *)
(* writes the rows it works on: the poll engine and the ingest endpoint    *)
(* (devices.status, devices.last_seen), the administrator (devices and     *)
(* alert_rules) and the daily cleanup (alert_events).                      *)
(*                                                                         *)
(* A sweep reads the rules, then the devices, and evaluates every rule on  *)
(* what it read.  Its first INSERT or UPDATE opens a transaction that the  *)
(* one commit at its end closes; in between no other connection can write. *)
(* Times are kept as ages, in ticks, up to Horizon: no threshold of the    *)
(* code tells a greater age from Horizon.                                  *)
(***************************************************************************)
EXTENDS Integers, FiniteSets

CONSTANTS
    Devices,        \* ids of table devices (never reused)
    Collectors,     \* ids of table collectors
    NoSubject,      \* device_id NULL in alert_events
    Rules,          \* ids of table alert_rules (never reused)
    Kind,           \* [Rules -> Kinds]: rule_type, by how it is evaluated
    Scope,          \* [Rules -> SUBSET Devices]: the device the rule is limited to
    Silence,        \* [Rules -> Nat]: silence_minutes
    Cooldown,       \* [Rules -> Nat]: cooldown_min
    Retention,      \* alert_event_retention_days
    Horizon,        \* ages are kept up to here
    Polled          \* devices of the local collector, the poll engine's

\* "down": device_down.  "level": condition that fires and resolves on samples
\* of a device; "gap": the same for a collector.  "edge": interface_flap and
\* speed_change, which never resolve.  "trap": trap_received.  "unknown": a
\* rule_type the user interface offers and the engine does not evaluate.
Kinds == {"down", "level", "gap", "edge", "trap", "unknown"}

ASSUME RulesAssumption ==
    /\ Kind \in [Rules -> Kinds] /\ Scope \in [Rules -> SUBSET Devices]
    /\ Silence \in [Rules -> Nat] /\ Cooldown \in [Rules -> Nat]
ASSUME HorizonAssumption ==
    /\ Horizon \in Nat /\ Retention \in Nat /\ Retention < Horizon
    /\ \A r \in Rules : Silence[r] < Horizon /\ Cooldown[r] < Horizon
ASSUME SubjectsAssumption ==
    /\ Devices \cap Collectors = {} /\ NoSubject \notin Devices \cup Collectors
    /\ Polled \subseteq Devices

VARIABLES
    device,         \* [Devices -> row of devices]
    rule,           \* [Rules -> "on", "off" or "gone"]: alert_rules.enabled
    open,           \* rows of alert_events with resolved_at IS NULL
    before,         \* {} or, inside the sweep's transaction, what a rollback restores
    sweep,          \* the locals of _evaluate_rules
    poll,           \* [Devices -> what the poll in flight is about to write]
    quiet           \* history: ticks since a report of the device was last recorded

vars == <<device, rule, open, before, sweep, poll, quiet>>

-----------------------------------------------------------------------------
(* Rows.                                                                   *)

Ages == 0 .. Horizon

Older(age) == IF age < Horizon THEN age + 1 ELSE Horizon

DeviceRow == [listed : {"on", "off", "gone"}, status : {"unknown", "up", "down"}, seen : Ages]

Subjects == Devices \cup Collectors \cup {NoSubject}

Event == [rule : Rules, subject : Subjects, age : Ages]

\* A row that is gone is updated by nobody.
Updated(d, status, seen) ==
    IF device[d].listed = "gone" THEN device
    ELSE [device EXCEPT ![d].status = status, ![d].seen = seen]

-----------------------------------------------------------------------------
(* Firing and resolving.                                                   *)

OpenOf(r, s) == {e \in open : e.rule = r /\ e.subject = s}

Related_BySubject(r, s) == OpenOf(r, s)

\* The events a rule looks at before it fires: trap_received does not ask
\* whose event it is.
Related(r, s) == IF Kind[r] = "trap" THEN {e \in open : e.rule = r} ELSE OpenOf(r, s)

InCooldown_Open(r, s) == \E e \in Related(r, s) : e.age < Cooldown[r]

\* fired_at >= now - cooldown, on an event that is still open.
InCooldown(r, s) == \E e \in Related(r, s) : e.age <= Cooldown[r]

\* _fire, unless an open event is recent enough.
Fired(r, s) ==
    IF InCooldown(r, s) THEN open
    ELSE open \cup {[rule |-> r, subject |-> s, age |-> 0]}

Resolved_Recent(r, s) == open \ {e \in OpenOf(r, s) : e.age <= Cooldown[r]}

\* _auto_resolve: every open event of the rule and the subject.
Resolved(r, s) == open \ OpenOf(r, s)

Down_StaleOnly(row, r) == row.seen > Silence[r]

Down_StatusOnly(row, r) == row.status = "down"

\* device_down on the row as the sweep read it.
Down(row, r) == row.status = "down" \/ row.seen > Silence[r]

-----------------------------------------------------------------------------
(* The sweep.                                                              *)

Sleeping == [pc |-> "idle"]

\* The 15 s before the first sweep of a process.
Starting == [pc |-> "starting"]

Snapshots == UNION {[D -> DeviceRow] : D \in SUBSET Devices}

Sweeps ==
    {Sleeping, Starting}
        \cup [pc : {"devices"}, rules : SUBSET Rules]
        \cup [pc : {"rules"}, rules : SUBSET Rules, rows : Snapshots,
              rule : Rules, todo : SUBSET Subjects]

Init ==
    /\ device = [d \in Devices |-> [listed |-> "on", status |-> "unknown", seen |-> Horizon]]
    /\ rule \in [Rules -> {"on", "off"}]
    /\ open = {}
    /\ before = {}
    /\ sweep = Starting
    /\ poll = [d \in Devices |-> "none"]
    /\ quiet = [d \in Devices |-> Horizon]

StartSweep ==
    /\ sweep.pc \in {"idle", "starting"}
    /\ sweep' = [pc |-> "devices", rules |-> {r \in Rules : rule[r] = "on"}]
    /\ UNCHANGED <<device, rule, open, before, poll, quiet>>

\* What a rule goes through: every enabled device, those it is limited to, the
\* collectors, or the traps.  device_down never looks at its device.
Watched(r, read) ==
    CASE Kind[r] = "down" -> read
      [] Kind[r] \in {"level", "edge"} -> read \cap Scope[r]
      [] Kind[r] = "gap" -> Collectors
      [] Kind[r] = "trap" -> {NoSubject}
      [] OTHER -> {}

NextRule(rules, rows) ==
    IF rules = {} THEN sweep' = Sleeping
    ELSE \E r \in rules :
        sweep' = [pc |-> "rules", rules |-> rules \ {r}, rows |-> rows,
                  rule |-> r, todo |-> Watched(r, DOMAIN rows)]

\* The SELECT of the devices, after the one of the rules: from here on the
\* sweep works on this copy.
ReadDevices ==
    /\ sweep.pc = "devices"
    /\ NextRule(sweep.rules, [d \in {x \in Devices : device[x].listed = "on"} |-> device[d]])
    /\ UNCHANGED <<device, rule, open, before, poll, quiet>>

Evaluating(s) == sweep.pc = "rules" /\ s \in sweep.todo

\* The subject is done; the rows the sweep writes are in its transaction.
Advance(s) ==
    /\ sweep' = [sweep EXCEPT !.todo = @ \ {s}]
    /\ UNCHANGED <<rule, poll, quiet>>

Write ==
    before' = IF before = {} THEN {[device |-> device, open |-> open]} ELSE before

Mark_UpOnly(d, status) ==
    IF status = "up" THEN Updated(d, status, device[d].seen) ELSE device

Mark(d, status) == Updated(d, status, device[d].seen)

EvaluateDown(d) ==
    LET r == sweep.rule
        row == sweep.rows[d]
    IN  /\ Evaluating(d)
        /\ Kind[r] = "down"
        /\ IF Down(row, r)
           THEN /\ device' = Mark(d, "down")
                /\ open' = Fired(r, d)
           ELSE /\ device' = Mark(d, "up")
                /\ open' = Resolved(r, d)
        /\ Write
        /\ Advance(d)

\* A write that changes nothing is not made, and opens no transaction.
WriteEvents(events) ==
    /\ open' = events
    /\ IF events = open THEN UNCHANGED before ELSE Write
    /\ UNCHANGED device

\* The rules on samples: too few samples say nothing, enough of them fire or
\* resolve.  A gap is always known.
EvaluateSamples(s) ==
    LET r == sweep.rule
    IN  /\ Evaluating(s)
        /\ \/ Kind[r] \in {"level", "edge"} /\ WriteEvents(open)
           \/ Kind[r] \in {"level", "edge", "gap"} /\ WriteEvents(Fired(r, s))
           \/ Kind[r] \in {"level", "gap"} /\ WriteEvents(Resolved(r, s))
        /\ Advance(s)

\* The newest matching trap, of a known device or of none.
EvaluateTraps ==
    LET r == sweep.rule
    IN  /\ Evaluating(NoSubject)
        /\ Kind[r] = "trap"
        /\ \/ WriteEvents(open)
           \/ \E s \in Scope[r] : WriteEvents(Fired(r, s))
           \/ Scope[r] = Devices /\ WriteEvents(Fired(r, NoSubject))
        /\ Advance(NoSubject)

\* An exception ends the evaluation of one rule, not the sweep, and what the
\* rule has written stays: the storage raised or, before the transaction is
\* open, the database was busy for longer than the timeout.
RuleFails ==
    /\ sweep.pc = "rules"
    /\ sweep.todo # {}
    /\ Kind[sweep.rule] # "down" \/ before = {}
    /\ sweep' = [sweep EXCEPT !.todo = {}]
    /\ UNCHANGED <<device, rule, open, before, poll, quiet>>

FinishRule ==
    /\ sweep.pc = "rules"
    /\ sweep.todo = {}
    /\ sweep.rules # {}
    /\ NextRule(sweep.rules, sweep.rows)
    /\ UNCHANGED <<device, rule, open, before, poll, quiet>>

Commit ==
    /\ sweep.pc = "rules"
    /\ sweep.todo = {}
    /\ sweep.rules = {}
    /\ sweep' = Sleeping
    /\ before' = {}
    /\ UNCHANGED <<device, rule, open, poll, quiet>>

\* stop() or the end of the process: the transaction is rolled back.
Restart ==
    /\ \/ before = {} /\ UNCHANGED <<device, open>>
       \/ \E b \in before : device' = b.device /\ open' = b.open
    /\ before' = {}
    /\ sweep' = Starting
    /\ poll' = [d \in Devices |-> "none"]
    /\ UNCHANGED <<rule, quiet>>

-----------------------------------------------------------------------------
(* The other writers, each a transaction that waits for the sweep's.       *)

Unlocked == before = {}

\* The poll engine asks a device of its own; a device that returns no value of
\* any OID is down.
PollDevice(d) ==
    /\ d \in Polled
    /\ device[d].listed = "on"
    /\ poll[d] = "none"
    /\ \E answer \in {"up", "down"} : poll' = [poll EXCEPT ![d] = answer]
    /\ UNCHANGED <<device, rule, open, before, sweep, quiet>>

WriteStatus_AsPolled(d) ==
    /\ Unlocked
    /\ poll[d] # "none"
    /\ device' = Updated(d, poll[d], 0)
    /\ poll' = [poll EXCEPT ![d] = "none"]
    /\ quiet' = IF poll[d] = "up" THEN [quiet EXCEPT ![d] = 0] ELSE quiet
    /\ UNCHANGED <<rule, open, before, sweep>>

\* _update_device_status writes last_seen whatever the status is.
WriteStatus(d) ==
    /\ Unlocked
    /\ poll[d] # "none"
    /\ device' = Updated(d, IF poll[d] = "up" THEN "up" ELSE "down", 0)
    /\ poll' = [poll EXCEPT ![d] = "none"]
    /\ quiet' = IF poll[d] = "up" THEN [quiet EXCEPT ![d] = 0] ELSE quiet
    /\ UNCHANGED <<rule, open, before, sweep>>

\* The write waited for the sweep's transaction longer than the busy timeout:
\* the handler of the exception writes the device down, and when that fails
\* too the status is left alone until the next poll.
StatusBusy(d) ==
    /\ ~Unlocked
    /\ poll[d] # "none"
    /\ poll' = [poll EXCEPT ![d] = IF @ = "again" THEN "none" ELSE "again"]
    /\ UNCHANGED <<device, rule, open, before, sweep, quiet>>

\* An OpenTelemetry collector delivers data of one of its devices.
Ingest(d) ==
    /\ Unlocked
    /\ d \notin Polled
    /\ device[d].listed # "gone"
    /\ device' = Updated(d, "up", 0)
    /\ quiet' = [quiet EXCEPT ![d] = 0]
    /\ UNCHANGED <<rule, open, before, sweep, poll>>

\* update_device.
EnableDevice(d) ==
    /\ Unlocked
    /\ device[d].listed # "gone"
    /\ device' = [device EXCEPT ![d].listed = IF @ = "on" THEN "off" ELSE "on"]
    /\ UNCHANGED <<rule, open, before, sweep, poll, quiet>>

\* delete_device: its events outlive it, without the device.
DeleteDevice(d) ==
    /\ Unlocked
    /\ device[d].listed # "gone"
    /\ device' = [device EXCEPT ![d].listed = "gone"]
    /\ open' = {IF e.subject = d THEN [e EXCEPT !.subject = NoSubject] ELSE e : e \in open}
    /\ UNCHANGED <<rule, before, sweep, poll, quiet>>

\* toggle_rule: two of them that read the same value count as one.
ToggleRule(r) ==
    /\ Unlocked
    /\ rule[r] # "gone"
    /\ rule' = [rule EXCEPT ![r] = IF @ = "on" THEN "off" ELSE "on"]
    /\ UNCHANGED <<device, open, before, sweep, poll, quiet>>

DeleteRule(r) ==
    /\ Unlocked
    /\ rule[r] # "gone"
    /\ rule' = [rule EXCEPT ![r] = "gone"]
    /\ open' = {e \in open : e.rule # r}
    /\ UNCHANGED <<device, before, sweep, poll, quiet>>

\* AlertCleanup._cleanup: old events go, resolved or not.
Cleanup ==
    /\ Unlocked
    /\ open' = {e \in open : e.age <= Retention}
    /\ UNCHANGED <<device, rule, before, sweep, poll, quiet>>

AgedDevices(rows) == [d \in Devices |-> [rows[d] EXCEPT !.seen = Older(@)]]

AgedEvents(events) == {[e EXCEPT !.age = Older(@)] : e \in events}

Tick ==
    /\ device' = AgedDevices(device)
    /\ open' = AgedEvents(open)
    /\ before' = {[device |-> AgedDevices(b.device), open |-> AgedEvents(b.open)] : b \in before}
    /\ quiet' = [d \in Devices |-> Older(quiet[d])]
    /\ UNCHANGED <<rule, sweep, poll>>

SweepStep ==
    \/ StartSweep \/ ReadDevices \/ FinishRule \/ RuleFails \/ Commit
    \/ \E s \in Subjects : EvaluateSamples(s)
    \/ \E d \in Devices : EvaluateDown(d)
    \/ EvaluateTraps

Next ==
    \/ SweepStep
    \/ \E d \in Devices :
        PollDevice(d) \/ WriteStatus(d) \/ StatusBusy(d) \/ Ingest(d)
            \/ EnableDevice(d) \/ DeleteDevice(d)
    \/ \E r \in Rules : ToggleRule(r) \/ DeleteRule(r)
    \/ Cleanup \/ Restart \/ Tick

Spec == Init /\ [][Next]_vars

DownRules == {r \in Rules : Kind[r] = "down"}

\* The clock and the loops of the two engines go on, and the process is not
\* restarted for ever.  The sweep sleeps for most of its 60 s: polls begin and
\* are written while it does, and a rule that is evaluated again and again does
\* not find the database busy every time.
Fairness ==
    /\ WF_vars(Tick)
    /\ WF_vars(SweepStep)
    /\ <>[](sweep.pc # "starting")
    /\ \A d \in Devices :
        /\ SF_vars(sweep.pc = "idle" /\ PollDevice(d))
        /\ SF_vars(sweep.pc = "idle" /\ WriteStatus(d))
        /\ \A r \in DownRules :
            SF_vars(sweep.pc = "rules" /\ sweep.rule = r /\ EvaluateDown(d))

FairSpec == Spec /\ Fairness

-----------------------------------------------------------------------------
(* Correctness.                                                            *)

\* Every variable has its type.
TypeOK ==
    /\ device \in [Devices -> DeviceRow]
    /\ rule \in [Rules -> {"on", "off", "gone"}]
    /\ open \subseteq Event
    /\ before \subseteq [device : [Devices -> DeviceRow], open : SUBSET Event]
    /\ \A b, c \in before : b = c
    /\ sweep \in Sweeps
    /\ poll \in [Devices -> {"none", "up", "down", "again"}]
    /\ quiet \in [Devices -> Ages]

\* "Respects cooldown - won't re-fire if an open event already exists within the
\* cooldown window" (README.md): two events a rule has open about the same
\* subject were fired more than the cooldown apart, whatever sweeps, rollbacks,
\* cleanups and deletions came in between.  Events of deleted devices have lost
\* their subject; those of trap_received are told apart by the rule alone.
Spaced(events) ==
    \A e \in events, f \in events :
        /\ e # f /\ e.rule = f.rule
        /\ Kind[e.rule] = "trap" \/ (e.subject = f.subject /\ e.subject # NoSubject)
        /\ e.age <= f.age /\ f.age < Horizon
        => f.age - e.age > Cooldown[e.rule]

CooldownRespected == Spaced(open)

\* "When the device starts reporting again" its device_down events are resolved
\* (README.md): the sweep never resolves one of a device that has not reported
\* since it was fired, however the sweep's writes and those of the poll engine,
\* which refresh last_seen of a dead device too, fall on one another.
ResolvedByReport ==
    [][\A d \in Devices :
        EvaluateDown(d) => \A e \in open \ open' : quiet[d] <= e.age]_vars

\* Between two commits of the sweep the rows of alert_events and of devices
\* agree: an event the sweep adds about a listed device is committed with the
\* device shown down (README.md: "so the dashboard dot immediately turns red").
FiredShowsDown ==
    [][Commit => \A b \in before : \A e \in open \ b.open :
        Kind[e.rule] = "down" /\ device[e.subject].listed # "gone" =>
            device[e.subject].status = "down"]_vars

Watches(r, d) == rule[r] = "on" /\ device[d].listed = "on"

\* A device that stays silent has an open event of every device_down rule again
\* and again: cleanups, failed sweeps and overwritten statuses only delay it.
DownIsAlerted ==
    \A r \in DownRules, d \in Devices :
        <>[](Watches(r, d) /\ quiet[d] > 0) => []<>(OpenOf(r, d) # {})

\* A device that keeps reporting within the silence threshold, and not only
\* while a sweep is running, ends up with no open event of the rule.
BackIsResolved ==
    \A r \in DownRules, d \in Devices :
        /\ <>[](Watches(r, d) /\ device[d].seen <= Silence[r] /\ poll[d] \in {"none", "up"})
        /\ d \notin Polled => []<><<sweep.pc = "idle" /\ Ingest(d)>>_vars
        => <>[](OpenOf(r, d) = {})

\* What holds of the rows after every statement.
AlertsKept == TypeOK /\ CooldownRespected
=============================================================================
