-------------------------- MODULE AlertEngine_proofs --------------------------
(***************************************************************************)
(* Proofs about AlertEngine: its types, that no rule fires again about the *)
(* same subject within its cooldown, and for one device_down rule that the *)
(* events of a silent device stay, and are committed with its status.      *)
(* At the end what its MC modules have beside it: the page of the settings *)
(* and the administration of devices.                                      *)
(*                                                                         *)
(* CooldownRespected speaks of the rows as the sweep sees them.  A restart *)
(* in the middle of a sweep brings back the rows of before its             *)
(* transaction, so the inductive invariant asks the same of those.         *)
(***************************************************************************)
EXTENDS MCAlertLive, Sequences, FiniteSetTheorems, WellFoundedInduction, TLAPS

CooldownInv ==
    /\ TypeOK
    /\ Spaced(open)
    /\ \A b \in before : Spaced(b.open)

-----------------------------------------------------------------------------
(* Ages and events.                                                        *)

\* Ageing (Tick) stays within the horizon.
LEMMA OlderType == \A age \in Ages : Older(age) \in Ages
  BY HorizonAssumption DEF Ages, Older

\* Ageing keeps a set of rows a set of rows.
LEMMA AgedType ==
    /\ \A events \in SUBSET Event : AgedEvents(events) \in SUBSET Event
    /\ \A rows \in [Devices -> DeviceRow] : AgedDevices(rows) \in [Devices -> DeviceRow]
  BY OlderType DEF AgedEvents, AgedDevices, Event, DeviceRow

\* What _fire adds is a row of alert_events.
LEMMA FiredType ==
    ASSUME open \subseteq Event, NEW r \in Rules, NEW s \in Subjects
    PROVE  Fired(r, s) \subseteq Event
  BY HorizonAssumption DEF Fired, Event, Ages

\* The UPDATE of a device writes a row of devices.
LEMMA UpdatedType ==
    ASSUME device \in [Devices -> DeviceRow], NEW d \in Devices,
           NEW status \in {"unknown", "up", "down"}, NEW seen \in Ages
    PROVE  Updated(d, status, seen) \in [Devices -> DeviceRow]
  BY DEF Updated, DeviceRow

\* A subset of spaced events is spaced: resolving and deleting are safe.
LEMMA SpacedSubset ==
    ASSUME NEW A, NEW B, Spaced(A), B \subseteq A
    PROVE  Spaced(B)
  BY DEF Spaced

\* The cooldown check of every evaluator keeps the events apart.
LEMMA SpacedFired ==
    ASSUME open \subseteq Event, Spaced(open), NEW r \in Rules, NEW s \in Subjects
    PROVE  Spaced(Fired(r, s))
<1> DEFINE new == [rule |-> r, subject |-> s, age |-> 0]
<1>1. CASE InCooldown(r, s)
  BY <1>1 DEF Fired
<1>2. CASE ~InCooldown(r, s)
  <2>1. Fired(r, s) = open \cup {new}
    BY <1>2 DEF Fired
  <2>2. \A f \in open :
            f.rule = r /\ (Kind[r] = "trap" \/ f.subject = s) => f.age > Cooldown[r]
    <3> SUFFICES ASSUME NEW f \in open, f.rule = r, Kind[r] = "trap" \/ f.subject = s
                 PROVE  f.age > Cooldown[r]
      OBVIOUS
    <3>1. f \in Related(r, s)
      BY DEF Related, OpenOf
    <3>2. f.age \in Int /\ Cooldown[r] \in Int
      BY RulesAssumption, HorizonAssumption DEF Event, Ages
    <3> QED
      BY <1>2, <3>1, <3>2 DEF InCooldown
  <2>3. Cooldown[r] \in Nat
    BY RulesAssumption
  <2>4. \A e \in open : e.age \in Nat
    BY HorizonAssumption DEF Event, Ages
  <2> SUFFICES ASSUME NEW e \in open \cup {new}, NEW f \in open \cup {new},
                      e # f, e.rule = f.rule,
                      Kind[e.rule] = "trap" \/ (e.subject = f.subject /\ e.subject # NoSubject),
                      e.age <= f.age, f.age < Horizon
               PROVE  f.age - e.age > Cooldown[e.rule]
    BY <2>1 DEF Spaced
  <2>5. CASE e \in open /\ f \in open
    BY <2>5 DEF Spaced
  <2>6. CASE e = new /\ f \in open
    <3>1. e.rule = r /\ e.subject = s /\ e.age = 0
      BY <2>6
    <3> QED
      BY <2>2, <2>3, <2>4, <2>6, <3>1
  <2>7. CASE e \in open /\ f = new
    <3>1. f.rule = r /\ f.subject = s /\ f.age = 0
      BY <2>7
    <3>2. e.age > Cooldown[r]
      BY <2>2, <2>7, <3>1
    <3> QED
      BY <2>3, <2>4, <2>7, <3>1, <3>2
  <2> QED
    BY <2>5, <2>6, <2>7
<1> QED
  BY <1>1, <1>2

\* Events grow old together (Tick): the time between two of them stays.
LEMMA SpacedAged ==
    ASSUME NEW A \in SUBSET Event, Spaced(A)
    PROVE  Spaced(AgedEvents(A))
<1> SUFFICES ASSUME NEW x \in A, NEW y \in A,
                    NEW e, e = [x EXCEPT !.age = Older(@)],
                    NEW f, f = [y EXCEPT !.age = Older(@)],
                    e # f, e.rule = f.rule,
                    Kind[e.rule] = "trap" \/ (e.subject = f.subject /\ e.subject # NoSubject),
                    e.age <= f.age, f.age < Horizon
             PROVE  f.age - e.age > Cooldown[e.rule]
  BY DEF Spaced, AgedEvents
<1>1. /\ e.rule = x.rule /\ e.subject = x.subject /\ e.age = Older(x.age)
      /\ f.rule = y.rule /\ f.subject = y.subject /\ f.age = Older(y.age)
      /\ x.age \in Nat /\ y.age \in Nat /\ Horizon \in Nat
  BY HorizonAssumption DEF Event, Ages
<1>2. e.age = x.age + 1 /\ f.age = y.age + 1
  BY <1>1 DEF Older
<1>3. x # y
  OBVIOUS
<1>4. y.age - x.age > Cooldown[x.rule]
  BY <1>1, <1>2, <1>3 DEF Spaced
<1> QED
  BY <1>1, <1>2, <1>4

-----------------------------------------------------------------------------
(* The sweep's record.                                                     *)

\* In the middle of its rules the sweep holds a rule and subjects.
LEMMA SweepFields ==
    ASSUME sweep \in Sweeps, sweep.pc = "rules"
    PROVE  /\ sweep \in [pc : {"rules"}, rules : SUBSET Rules, rows : Snapshots,
                         rule : Rules, todo : SUBSET Subjects]
           /\ sweep.rule \in Rules /\ sweep.todo \subseteq Subjects
           /\ sweep.rules \subseteq Rules /\ sweep.rows \in Snapshots
  BY DEF Sweeps, Sleeping, Starting

\* Taking the next rule leaves a well-formed sweep.
LEMMA NextRuleType ==
    ASSUME NEW rules \in SUBSET Rules, NEW rows \in Snapshots, NextRule(rules, rows)
    PROVE  sweep' \in Sweeps
<1>1. CASE rules = {}
  BY <1>1 DEF NextRule, Sweeps
<1>2. CASE rules # {}
  <2>1. PICK r \in rules :
            sweep' = [pc |-> "rules", rules |-> rules \ {r}, rows |-> rows,
                      rule |-> r, todo |-> Watched(r, DOMAIN rows)]
    BY <1>2 DEF NextRule
  <2>2. DOMAIN rows \subseteq Devices
    BY DEF Snapshots
  <2>3. Watched(r, DOMAIN rows) \subseteq Subjects
    BY <2>2, RulesAssumption DEF Watched, Subjects, Kinds
  <2> QED
    BY <2>1, <2>3 DEF Sweeps
<1> QED
  BY <1>1, <1>2

\* Going on to the next subject leaves a well-formed sweep.
LEMMA AdvanceType ==
    ASSUME TypeOK, NEW s, Evaluating(s), Advance(s)
    PROVE  sweep' \in Sweeps /\ UNCHANGED <<rule, poll, quiet>>
<1>1. sweep \in [pc : {"rules"}, rules : SUBSET Rules, rows : Snapshots,
                 rule : Rules, todo : SUBSET Subjects]
  BY SweepFields DEF TypeOK, Evaluating
<1>2. sweep' \in [pc : {"rules"}, rules : SUBSET Rules, rows : Snapshots,
                  rule : Rules, todo : SUBSET Subjects]
  BY <1>1 DEF Advance
<1> QED
  BY <1>2 DEF Advance, Sweeps

\* The image a transaction starts from is spaced when the rows are.
LEMMA WriteKeeps ==
    ASSUME CooldownInv, Write
    PROVE  /\ before' \subseteq [device : [Devices -> DeviceRow], open : SUBSET Event]
           /\ \A b, c \in before' : b = c
           /\ \A b \in before' : Spaced(b.open)
  BY DEF CooldownInv, TypeOK, Write

\* The rules on samples write through WriteEvents.
LEMMA WriteEventsKeeps ==
    ASSUME CooldownInv, NEW events, WriteEvents(events),
           events \subseteq Event, Spaced(events)
    PROVE  /\ open' \subseteq Event /\ Spaced(open')
           /\ device' = device
           /\ before' \subseteq [device : [Devices -> DeviceRow], open : SUBSET Event]
           /\ \A b, c \in before' : b = c
           /\ \A b \in before' : Spaced(b.open)
<1>1. CASE events = open
  BY <1>1 DEF CooldownInv, TypeOK, WriteEvents
<1>2. CASE events # open
  <2>1. Write
    BY <1>2 DEF WriteEvents
  <2> QED
    BY <2>1, WriteKeeps DEF WriteEvents
<1> QED
  BY <1>1, <1>2

-----------------------------------------------------------------------------
(* The invariant.                                                          *)

\* What evaluating a subject may write, for any kind of rule.
LEMMA EvaluationWrites ==
    ASSUME CooldownInv, sweep.pc = "rules", NEW s \in Subjects
    PROVE  /\ Fired(sweep.rule, s) \subseteq Event /\ Spaced(Fired(sweep.rule, s))
           /\ Resolved(sweep.rule, s) \subseteq Event /\ Spaced(Resolved(sweep.rule, s))
           /\ open \subseteq Event /\ Spaced(open)
<1>1. sweep.rule \in Rules
  BY SweepFields DEF CooldownInv, TypeOK
<1>2. Resolved(sweep.rule, s) \subseteq open
  BY DEF Resolved
<1> QED
  BY <1>1, <1>2, FiredType, SpacedFired, SpacedSubset DEF CooldownInv, TypeOK

\* The initial rows: no event at all.
LEMMA CooldownInit == Init => CooldownInv
<1> SUFFICES ASSUME Init
             PROVE  CooldownInv
  OBVIOUS
<1>1. TypeOK
  BY HorizonAssumption DEF Init, TypeOK, DeviceRow, Ages, Sweeps, Starting
<1>2. Spaced(open) /\ \A b \in before : Spaced(b.open)
  BY DEF Init, Spaced
<1> QED
  BY <1>1, <1>2 DEF CooldownInv

\* Every step of the sweep keeps the invariant.
LEMMA CooldownSweep == CooldownInv /\ SweepStep => CooldownInv'
<1> SUFFICES ASSUME CooldownInv, SweepStep
             PROVE  CooldownInv'
  OBVIOUS
<1> USE DEF CooldownInv
<1>1. CASE StartSweep
  BY <1>1 DEF StartSweep, TypeOK, Sweeps, Spaced
<1>2. CASE ReadDevices
  <2> DEFINE listed == {x \in Devices : device[x].listed = "on"}
             read == [d \in listed |-> device[d]]
  <2>1. read \in Snapshots
    <3>1. listed \in SUBSET Devices
      OBVIOUS
    <3>2. read \in [listed -> DeviceRow]
      BY <3>1 DEF TypeOK
    <3> HIDE DEF listed, read
    <3> QED
      BY <3>1, <3>2 DEF Snapshots
  <2>2. sweep.rules \in SUBSET Rules
    BY <1>2 DEF ReadDevices, TypeOK, Sweeps, Sleeping, Starting
  <2>3. sweep' \in Sweeps
    BY <1>2, <2>1, <2>2, NextRuleType DEF ReadDevices
  <2> QED
    BY <1>2, <2>3 DEF ReadDevices, TypeOK, Spaced
<1>3. CASE FinishRule
  <2>1. sweep.rules \in SUBSET Rules /\ sweep.rows \in Snapshots
    BY <1>3, SweepFields DEF FinishRule, TypeOK
  <2>2. sweep' \in Sweeps
    BY <1>3, <2>1, NextRuleType DEF FinishRule
  <2> QED
    BY <1>3, <2>2 DEF FinishRule, TypeOK, Spaced
<1>4. CASE RuleFails
  <2>1. sweep \in [pc : {"rules"}, rules : SUBSET Rules, rows : Snapshots,
                   rule : Rules, todo : SUBSET Subjects]
    BY <1>4, SweepFields DEF RuleFails, TypeOK
  <2>2. sweep' \in Sweeps
    BY <1>4, <2>1 DEF RuleFails, Sweeps
  <2> QED
    BY <1>4, <2>2 DEF RuleFails, TypeOK, Spaced
<1>5. CASE Commit
  BY <1>5 DEF Commit, TypeOK, Sweeps, Spaced
<1>6. ASSUME NEW s \in Subjects, EvaluateSamples(s)
      PROVE  CooldownInv'
  <2>1. sweep' \in Sweeps /\ UNCHANGED <<rule, poll, quiet>>
    BY <1>6, AdvanceType DEF EvaluateSamples
  <2>2. PICK events : /\ WriteEvents(events)
                      /\ events \in {open, Fired(sweep.rule, s), Resolved(sweep.rule, s)}
    BY <1>6 DEF EvaluateSamples
  <2>3. events \subseteq Event /\ Spaced(events)
    BY <1>6, <2>2, EvaluationWrites DEF EvaluateSamples, Evaluating
  <2> QED
    BY <2>1, <2>2, <2>3, WriteEventsKeeps DEF TypeOK
<1>7. ASSUME NEW d \in Devices, EvaluateDown(d)
      PROVE  CooldownInv'
  <2>1. sweep' \in Sweeps /\ UNCHANGED <<rule, poll, quiet>>
    BY <1>7, AdvanceType DEF EvaluateDown
  <2>2. d \in Subjects
    BY DEF Subjects
  <2>3. open' \subseteq Event /\ Spaced(open')
    BY <1>7, <2>2, EvaluationWrites DEF EvaluateDown, Evaluating
  <2>4. device' \in [Devices -> DeviceRow]
    <3>1. device[d].seen \in Ages
      BY DEF TypeOK, DeviceRow
    <3> QED
      BY <1>7, <3>1, UpdatedType DEF EvaluateDown, Mark, TypeOK
  <2>5. Write
    BY <1>7 DEF EvaluateDown
  <2> QED
    BY <2>1, <2>3, <2>4, <2>5, WriteKeeps DEF TypeOK
<1>8. CASE EvaluateTraps
  <2>1. sweep' \in Sweeps /\ UNCHANGED <<rule, poll, quiet>>
    BY <1>8, AdvanceType DEF EvaluateTraps
  <2>2. sweep.pc = "rules" /\ sweep.rule \in Rules
    BY <1>8, SweepFields DEF EvaluateTraps, Evaluating, TypeOK
  <2>3. PICK s \in Subjects : \E events \in {open, Fired(sweep.rule, s)} : WriteEvents(events)
    BY <1>8, <2>2, RulesAssumption DEF EvaluateTraps, Subjects
  <2>4. PICK events \in {open, Fired(sweep.rule, s)} : WriteEvents(events)
    BY <2>3
  <2>5. events \subseteq Event /\ Spaced(events)
    BY <2>2, <2>4, EvaluationWrites
  <2> QED
    BY <2>1, <2>4, <2>5, WriteEventsKeeps DEF TypeOK
<1> QED
  BY <1>1, <1>2, <1>3, <1>4, <1>5, <1>6, <1>7, <1>8 DEF SweepStep

\* A step of another writer that adds no event and moves no sweep.
LEMMA CooldownOthers ==
    ASSUME CooldownInv,
           device' \in [Devices -> DeviceRow],
           rule' \in [Rules -> {"on", "off", "gone"}],
           open' \subseteq Event, Spaced(open'),
           UNCHANGED <<before, sweep>>,
           poll' \in [Devices -> {"none", "up", "down", "again"}],
           quiet' \in [Devices -> Ages]
    PROVE  CooldownInv'
  BY DEF CooldownInv, TypeOK

\* The other writers, the clock and a restart keep the invariant.
LEMMA CooldownRest ==
    ASSUME CooldownInv, Next, ~SweepStep
    PROVE  CooldownInv'
<1> USE DEF CooldownInv
<1>1. ASSUME NEW d \in Devices, PollDevice(d) \/ WriteStatus(d) \/ StatusBusy(d) \/ Ingest(d)
      PROVE  CooldownInv'
  <2>1. 0 \in Ages
    BY HorizonAssumption DEF Ages
  <2>2. /\ device' \in [Devices -> DeviceRow]
        /\ poll' \in [Devices -> {"none", "up", "down", "again"}]
        /\ quiet' \in [Devices -> Ages]
        /\ UNCHANGED <<rule, open, before, sweep>>
    <3>1. CASE PollDevice(d)
      BY <3>1 DEF PollDevice, TypeOK
    <3>2. CASE WriteStatus(d)
      BY <3>2, <2>1, UpdatedType DEF WriteStatus, TypeOK
    <3>3. CASE StatusBusy(d)
      BY <3>3 DEF StatusBusy, TypeOK
    <3>4. CASE Ingest(d)
      BY <3>4, <2>1, UpdatedType DEF Ingest, TypeOK
    <3> QED
      BY <1>1, <3>1, <3>2, <3>3, <3>4
  <2> QED
    BY <2>2, CooldownOthers DEF TypeOK, Spaced
<1>2. ASSUME NEW d \in Devices, EnableDevice(d)
      PROVE  CooldownInv'
  <2>1. device' \in [Devices -> DeviceRow]
    BY <1>2 DEF EnableDevice, TypeOK, DeviceRow
  <2> QED
    BY <1>2, <2>1, CooldownOthers DEF EnableDevice, TypeOK, Spaced
<1>3. ASSUME NEW d \in Devices, DeleteDevice(d)
      PROVE  CooldownInv'
  <2>1. device' \in [Devices -> DeviceRow]
    BY <1>3 DEF DeleteDevice, TypeOK, DeviceRow
  <2> DEFINE Forget(e) == IF e.subject = d THEN [e EXCEPT !.subject = NoSubject] ELSE e
  <2>2. open' = {Forget(e) : e \in open}
    BY <1>3 DEF DeleteDevice
  <2>3. \A e \in open : /\ Forget(e) \in Event
                        /\ Forget(e).rule = e.rule /\ Forget(e).age = e.age
                        /\ Forget(e).subject # NoSubject => Forget(e) = e
    BY DEF TypeOK, Event, Subjects
  <2>4. open' \subseteq Event
    BY <2>2, <2>3
  <2>5. Spaced(open')
    <3> SUFFICES ASSUME NEW x \in open, NEW y \in open,
                        NEW e, e = Forget(x), NEW f, f = Forget(y),
                        e # f, e.rule = f.rule,
                        Kind[e.rule] = "trap" \/ (e.subject = f.subject /\ e.subject # NoSubject),
                        e.age <= f.age, f.age < Horizon
                 PROVE  f.age - e.age > Cooldown[e.rule]
      BY <2>2 DEF Spaced
    <3> HIDE DEF Forget
    <3>1. /\ e.rule = x.rule /\ e.age = x.age /\ f.rule = y.rule /\ f.age = y.age
          /\ x # y
      BY <2>3
    <3>2. Kind[x.rule] = "trap" \/ (x.subject = y.subject /\ x.subject # NoSubject)
      BY <2>3, <3>1
    <3>3. y.age - x.age > Cooldown[x.rule]
      BY <3>1, <3>2 DEF Spaced
    <3> QED
      BY <3>1, <3>3
  <2> QED
    BY <1>3, <2>1, <2>4, <2>5, CooldownOthers DEF DeleteDevice, TypeOK
<1>4. ASSUME NEW r \in Rules, ToggleRule(r)
      PROVE  CooldownInv'
  <2>1. rule' \in [Rules -> {"on", "off", "gone"}]
    BY <1>4 DEF ToggleRule, TypeOK
  <2> QED
    BY <1>4, <2>1, CooldownOthers DEF ToggleRule, TypeOK, Spaced
<1>5. ASSUME NEW r \in Rules, DeleteRule(r)
      PROVE  CooldownInv'
  <2>1. rule' \in [Rules -> {"on", "off", "gone"}]
    BY <1>5 DEF DeleteRule, TypeOK
  <2>2. open' \subseteq open
    BY <1>5 DEF DeleteRule
  <2>3. Spaced(open')
    BY <2>2, SpacedSubset
  <2> QED
    BY <1>5, <2>1, <2>2, <2>3, CooldownOthers DEF DeleteRule, TypeOK
<1>6. CASE Cleanup
  <2>1. open' \subseteq open
    BY <1>6 DEF Cleanup
  <2>2. Spaced(open')
    BY <2>1, SpacedSubset
  <2> QED
    BY <1>6, <2>1, <2>2, CooldownOthers DEF Cleanup, TypeOK
<1>7. CASE Restart
  <2>1. /\ device' \in [Devices -> DeviceRow]
        /\ open' \subseteq Event
        /\ Spaced(open')
    <3>1. CASE before = {} /\ UNCHANGED <<device, open>>
      BY <3>1 DEF TypeOK, Spaced
    <3>2. CASE \E b \in before : device' = b.device /\ open' = b.open
      BY <3>2 DEF TypeOK
    <3> QED
      BY <1>7, <3>1, <3>2 DEF Restart
  <2> QED
    BY <1>7, <2>1 DEF Restart, TypeOK, Sweeps
<1>8. CASE Tick
  <2>1. /\ device' \in [Devices -> DeviceRow]
        /\ open' \subseteq Event
        /\ quiet' \in [Devices -> Ages]
    BY <1>8, AgedType, OlderType DEF Tick, TypeOK
  <2>2. Spaced(open')
    BY <1>8, SpacedAged DEF Tick, TypeOK
  <2>3. before' \subseteq [device : [Devices -> DeviceRow], open : SUBSET Event]
    BY <1>8, AgedType DEF Tick, TypeOK
  <2>4. \A b, c \in before' : b = c
    BY <1>8 DEF Tick, TypeOK
  <2>5. \A b \in before' : Spaced(b.open)
    <3> SUFFICES ASSUME NEW x \in before
                 PROVE  Spaced(AgedEvents(x.open))
      BY <1>8 DEF Tick
    <3>1. x.open \in SUBSET Event /\ Spaced(x.open)
      BY DEF TypeOK
    <3> QED
      BY <3>1, SpacedAged
  <2> QED
    BY <1>8, <2>1, <2>2, <2>3, <2>4, <2>5 DEF Tick, TypeOK
<1> QED
  BY <1>1, <1>2, <1>3, <1>4, <1>5, <1>6, <1>7, <1>8 DEF Next

\* The inductive invariant of every behaviour.
THEOREM CooldownInductive == Spec => []CooldownInv
<1>1. Init => CooldownInv
  BY CooldownInit
<1>2. CooldownInv /\ [Next]_vars => CooldownInv'
  <2>1. ASSUME CooldownInv, UNCHANGED vars
        PROVE  CooldownInv'
    BY <2>1 DEF CooldownInv, TypeOK, Spaced, vars
  <2> QED
    BY <2>1, CooldownSweep, CooldownRest
<1> QED
  BY <1>1, <1>2, PTL DEF Spec

\* The rows the engine, the pollers and the administrator share keep their types.
THEOREM EngineTyped == Spec => []TypeOK
<1>1. CooldownInv => TypeOK
  BY DEF CooldownInv
<1> QED
  BY <1>1, CooldownInductive, PTL

\* No rule has two open events about one subject within its cooldown, for any
\* rules, devices, thresholds, rollbacks, cleanups and deletions.
THEOREM CooldownKept == Spec => []CooldownRespected
<1>1. CooldownInv => CooldownRespected
  BY DEF CooldownInv, CooldownRespected
<1> QED
  BY <1>1, CooldownInductive, PTL

-----------------------------------------------------------------------------
(* ResolvedByReport, for one device_down rule.  An event of a device that  *)
(* has not reported since keeps the device's row at "down", in the rows, in *)
(* the image a rollback restores, and in the copy of every sweep that      *)
(* still has the rule and the device before it.                            *)

OneDownRule ==
    \A r \in Rules, s \in Rules : Kind[r] = "down" /\ Kind[s] = "down" => r = s

Unreported(e, q) == Kind[e.rule] = "down" /\ e.subject \in Devices /\ q[e.subject] > e.age

Shown(rows, events, q) ==
    \A e \in events :
        Unreported(e, q) => rows[e.subject].listed = "gone" \/ rows[e.subject].status = "down"

Pending(sw, r, d) ==
    /\ sw.pc = "rules"
    /\ \/ r \in sw.rules /\ d \in DOMAIN sw.rows
       \/ r = sw.rule /\ d \in sw.todo

SweepShown(sw, events, q) ==
    \A e \in events :
        Unreported(e, q) /\ Pending(sw, e.rule, e.subject) => sw.rows[e.subject].status = "down"

ReportInv ==
    /\ Shown(device, open, quiet)
    /\ \A b \in before : Shown(b.device, b.open, quiet)
    /\ sweep.pc = "rules" => sweep.rule \notin sweep.rules
    /\ SweepShown(sweep, open, quiet)

\* Fewer events, the same rows: nothing to show that was not shown.
LEMMA ShownSubset ==
    ASSUME NEW rows, NEW q, NEW sw, NEW A, NEW B, B \subseteq A
    PROVE  /\ Shown(rows, A, q) => Shown(rows, B, q)
           /\ SweepShown(sw, A, q) => SweepShown(sw, B, q)
  BY DEF Shown, SweepShown

\* A step of the sweep that leaves the rows alone and has less before it.
LEMMA SweepShownLess ==
    ASSUME NEW sw, NEW tw, NEW events, NEW q, SweepShown(sw, events, q),
           tw.pc = "rules" => tw.rows = sw.rows,
           \A r \in Rules, d \in Devices : Pending(tw, r, d) => Pending(sw, r, d),
           events \subseteq Event
    PROVE  SweepShown(tw, events, q)
  BY DEF SweepShown, Pending, Unreported, Event

\* A clock tick makes no event of a silent device newly silent.
LEMMA UnreportedAged ==
    ASSUME NEW e \in Event, NEW q \in [Devices -> Ages],
           NEW p, p = [d \in Devices |-> Older(q[d])],
           NEW f, f = [e EXCEPT !.age = Older(@)],
           Unreported(f, p)
    PROVE  Unreported(e, q) /\ f.subject = e.subject /\ f.rule = e.rule
<1>1. f.subject = e.subject /\ f.rule = e.rule /\ f.age = Older(e.age)
  BY DEF Event
<1>2. e.subject \in Devices /\ p[e.subject] = Older(q[e.subject])
  BY <1>1 DEF Unreported
<1>3. e.age \in Nat /\ e.age <= Horizon /\ q[e.subject] \in Nat /\ q[e.subject] <= Horizon
  BY <1>2, HorizonAssumption DEF Event, Ages
<1>4. q[e.subject] > e.age
  BY <1>1, <1>2, <1>3, HorizonAssumption DEF Unreported, Older
<1> QED
  BY <1>1, <1>2, <1>4 DEF Unreported

\* Rows and events age together.
LEMMA ShownAged ==
    ASSUME NEW rows \in [Devices -> DeviceRow], NEW events \in SUBSET Event,
           NEW q \in [Devices -> Ages], Shown(rows, events, q)
    PROVE  Shown(AgedDevices(rows), AgedEvents(events), [d \in Devices |-> Older(q[d])])
<1> DEFINE p == [d \in Devices |-> Older(q[d])]
<1> HIDE DEF p
<1> SUFFICES ASSUME NEW e \in events, NEW f, f = [e EXCEPT !.age = Older(@)], Unreported(f, p)
             PROVE  \/ AgedDevices(rows)[f.subject].listed = "gone"
                    \/ AgedDevices(rows)[f.subject].status = "down"
  BY DEF Shown, AgedEvents, p
<1>1. Unreported(e, q) /\ f.subject = e.subject
  BY UnreportedAged DEF p
<1>2. e.subject \in Devices
  BY <1>1 DEF Unreported
<1>3. /\ AgedDevices(rows)[e.subject].listed = rows[e.subject].listed
      /\ AgedDevices(rows)[e.subject].status = rows[e.subject].status
  BY <1>2 DEF AgedDevices, DeviceRow
<1> QED
  BY <1>1, <1>3 DEF Shown

\* A sweep that is not at its rules has nothing before it.
LEMMA NothingPending ==
    ASSUME NEW sw, NEW events, NEW q, sw.pc # "rules"
    PROVE  SweepShown(sw, events, q)
  BY DEF SweepShown, Pending

\* Before the first sweep there is no event.
LEMMA ReportInit == Init => ReportInv
  BY DEF Init, ReportInv, Shown, SweepShown, Starting

\* Opening the transaction keeps what the image shows.
LEMMA WriteShown ==
    ASSUME ReportInv, Write
    PROVE  \A b \in before' : Shown(b.device, b.open, quiet)
  BY DEF ReportInv, Write

\* An event of another kind of rule shows nothing about a device.
LEMMA WriteEventsShown ==
    ASSUME CooldownInv, ReportInv, NEW events, WriteEvents(events),
           UNCHANGED quiet,
           \A e \in events : e \in open \/ Kind[e.rule] # "down"
    PROVE  /\ Shown(device', open', quiet')
           /\ \A b \in before' : Shown(b.device, b.open, quiet')
           /\ SweepShown(sweep, open', quiet')
<1>1. Shown(device, events, quiet) /\ SweepShown(sweep, events, quiet)
  BY DEF ReportInv, Shown, SweepShown, Unreported
<1>2. \A b \in before' : Shown(b.device, b.open, quiet)
  <2>1. CASE events = open
    BY <2>1 DEF WriteEvents, ReportInv
  <2>2. CASE events # open
    BY <2>2, WriteShown DEF WriteEvents
  <2> QED
    BY <2>1, <2>2
<1> QED
  BY <1>1, <1>2 DEF WriteEvents

\* Being done with a subject leaves less before the sweep.
LEMMA AdvanceLess ==
    ASSUME TypeOK, NEW s, Evaluating(s), Advance(s)
    PROVE  /\ sweep'.pc = "rules" /\ sweep'.rows = sweep.rows
           /\ sweep'.rule = sweep.rule /\ sweep'.rules = sweep.rules
           /\ sweep'.todo = sweep.todo \ {s}
           /\ \A r \in Rules, d \in Devices : Pending(sweep', r, d) => Pending(sweep, r, d)
<1>1. sweep \in [pc : {"rules"}, rules : SUBSET Rules, rows : Snapshots,
                 rule : Rules, todo : SUBSET Subjects]
  BY SweepFields DEF TypeOK, Evaluating
<1>2. /\ sweep'.pc = "rules" /\ sweep'.rows = sweep.rows
      /\ sweep'.rule = sweep.rule /\ sweep'.rules = sweep.rules
      /\ sweep'.todo = sweep.todo \ {s}
  BY <1>1 DEF Advance
<1> QED
  BY <1>1, <1>2 DEF Pending

\* The verdict of device_down is written with the rows it is about.
LEMMA ReportDown ==
    ASSUME OneDownRule, CooldownInv, CooldownInv', ReportInv, NEW d \in Devices, EvaluateDown(d)
    PROVE  ReportInv'
<1> DEFINE r == sweep.rule
<1>1. /\ Evaluating(d) /\ Kind[r] = "down" /\ Write /\ Advance(d) /\ UNCHANGED quiet
      /\ r \in Rules /\ r \notin sweep.rules
      /\ open \subseteq Event /\ device \in [Devices -> DeviceRow] /\ TypeOK
  BY SweepFields DEF EvaluateDown, Advance, Evaluating, CooldownInv, TypeOK, ReportInv
<1>2. /\ sweep'.pc = "rules" /\ sweep'.rows = sweep.rows /\ sweep'.rule = r
      /\ sweep'.rules = sweep.rules /\ sweep'.todo = sweep.todo \ {d}
      /\ \A x \in Rules, y \in Devices : Pending(sweep', x, y) => Pending(sweep, x, y)
  BY <1>1, AdvanceLess
<1>3. ~Pending(sweep', r, d)
  BY <1>1, <1>2 DEF Pending
<1>4. \A e \in open : Kind[e.rule] = "down" => e.rule = r
  BY <1>1 DEF OneDownRule, Event
<1>5. \A y \in Devices : y # d => device'[y] = device[y]
  BY <1>1 DEF EvaluateDown, Mark, Updated
<1>6. \A e \in open' : Kind[e.rule] = "down" =>
          e.rule = r /\ (e \in open \/ (e.subject = d /\ Down(sweep.rows[d], r)))
  <2>1. CASE Down(sweep.rows[d], r)
    BY <2>1, <1>4 DEF EvaluateDown, Fired
  <2>2. CASE ~Down(sweep.rows[d], r)
    BY <2>2, <1>4 DEF EvaluateDown, Resolved
  <2> QED
    BY <2>1, <2>2
<1>7. Shown(device', open', quiet)
  <2> SUFFICES ASSUME NEW e \in open', Unreported(e, quiet)
               PROVE  device'[e.subject].listed = "gone" \/ device'[e.subject].status = "down"
    BY DEF Shown
  <2>1. e.rule = r /\ e.subject \in Devices
    BY <1>6 DEF Unreported
  <2>2. CASE e.subject # d
    <3>1. e \in open
      BY <1>6, <2>2 DEF Unreported
    <3>2. device[e.subject].listed = "gone" \/ device[e.subject].status = "down"
      BY <3>1 DEF ReportInv, Shown
    <3> QED
      BY <1>5, <2>1, <2>2, <3>2
  <2>3. CASE e.subject = d
    <3>1. Down(sweep.rows[d], r)
      BY <2>1, <2>3 DEF EvaluateDown, Resolved, OpenOf
    <3>2. device' = Mark(d, "down")
      BY <3>1 DEF EvaluateDown
    <3> QED
      BY <1>1, <2>3, <3>2 DEF Mark, Updated, DeviceRow
  <2> QED
    BY <2>2, <2>3
<1>8. SweepShown(sweep', open', quiet)
  <2> SUFFICES ASSUME NEW e \in open', Unreported(e, quiet), Pending(sweep', e.rule, e.subject)
               PROVE  sweep'.rows[e.subject].status = "down"
    BY DEF SweepShown
  <2>1. e.rule = r /\ e.subject \in Devices
    BY <1>6 DEF Unreported
  <2>2. e \in open /\ Pending(sweep, e.rule, e.subject)
    BY <1>1, <1>2, <1>3, <1>6, <2>1 DEF Unreported
  <2> QED
    BY <1>2, <2>2 DEF ReportInv, SweepShown
<1>9. \A b \in before' : Shown(b.device, b.open, quiet)
  BY <1>1, WriteShown
<1> QED
  BY <1>1, <1>2, <1>7, <1>8, <1>9 DEF ReportInv

\* The next rule comes with the copy of the rows the sweep already has.
LEMMA NextRuleShown ==
    ASSUME NEW rules \in SUBSET Rules, NEW rows \in Snapshots, NextRule(rules, rows),
           NEW events \in SUBSET Event, NEW q,
           \A e \in events : Unreported(e, q) /\ e.rule \in rules /\ e.subject \in DOMAIN rows
                                => rows[e.subject].status = "down"
    PROVE  /\ sweep'.pc = "rules" => sweep'.rule \notin sweep'.rules
           /\ SweepShown(sweep', events, q)
<1>1. CASE rules = {}
  BY <1>1, NothingPending DEF NextRule, Sleeping
<1>2. CASE rules # {}
  <2>1. PICK r \in rules :
            sweep' = [pc |-> "rules", rules |-> rules \ {r}, rows |-> rows,
                      rule |-> r, todo |-> Watched(r, DOMAIN rows)]
    BY <1>2 DEF NextRule
  <2>2. SweepShown(sweep', events, q)
    BY <2>1 DEF SweepShown, Pending, Unreported, Watched
  <2> QED
    BY <2>1, <2>2
<1> QED
  BY <1>1, <1>2

\* Every step of the sweep keeps the invariant.
LEMMA ReportSweep ==
    ASSUME OneDownRule, CooldownInv, CooldownInv', ReportInv, SweepStep
    PROVE  ReportInv'
<1>0. open \in SUBSET Event /\ TypeOK
  BY DEF CooldownInv, TypeOK
<1>1. CASE StartSweep
  <2>1. sweep'.pc # "rules"
    BY <1>1 DEF StartSweep
  <2> QED
    BY <1>1, <2>1, NothingPending DEF StartSweep, ReportInv
<1>2. CASE ReadDevices
  <2> DEFINE listed == {x \in Devices : device[x].listed = "on"}
             read == [d \in listed |-> device[d]]
  <2>1. read \in Snapshots
    <3>1. listed \in SUBSET Devices
      OBVIOUS
    <3>2. read \in [listed -> DeviceRow]
      BY <1>0, <3>1 DEF TypeOK
    <3> HIDE DEF listed, read
    <3> QED
      BY <3>1, <3>2 DEF Snapshots
  <2>2. sweep.rules \in SUBSET Rules
    BY <1>0, <1>2 DEF ReadDevices, TypeOK, Sweeps, Sleeping, Starting
  <2>3. \A e \in open : Unreported(e, quiet) /\ e.subject \in DOMAIN read
                            => read[e.subject].status = "down"
    BY DEF ReportInv, Shown
  <2>4. NextRule(sweep.rules, read)
    BY <1>2 DEF ReadDevices
  <2> HIDE DEF read
  <2>5. /\ sweep'.pc = "rules" => sweep'.rule \notin sweep'.rules
        /\ SweepShown(sweep', open, quiet)
    BY <1>0, <2>1, <2>2, <2>3, <2>4, NextRuleShown
  <2> QED
    BY <1>2, <2>5 DEF ReadDevices, ReportInv
<1>3. CASE FinishRule
  <2>1. sweep.rules \in SUBSET Rules /\ sweep.rows \in Snapshots
    BY <1>0, <1>3, SweepFields DEF FinishRule, TypeOK
  <2>2. \A e \in open : Unreported(e, quiet) /\ e.rule \in sweep.rules /\ e.subject \in DOMAIN sweep.rows
                            => sweep.rows[e.subject].status = "down"
    BY <1>3 DEF FinishRule, ReportInv, SweepShown, Pending
  <2>3. /\ sweep'.pc = "rules" => sweep'.rule \notin sweep'.rules
        /\ SweepShown(sweep', open, quiet)
    BY <1>0, <1>3, <2>1, <2>2, NextRuleShown DEF FinishRule
  <2> QED
    BY <1>3, <2>3 DEF FinishRule, ReportInv
<1>4. CASE RuleFails
  <2>1. /\ sweep'.pc = sweep.pc /\ sweep'.rows = sweep.rows /\ sweep'.rule = sweep.rule
        /\ sweep'.rules = sweep.rules /\ sweep'.todo = {}
    <3>1. sweep \in [pc : {"rules"}, rules : SUBSET Rules, rows : Snapshots,
                     rule : Rules, todo : SUBSET Subjects]
      BY <1>0, <1>4, SweepFields DEF RuleFails, TypeOK
    <3> QED
      BY <1>4, <3>1 DEF RuleFails
  <2>2. SweepShown(sweep', open, quiet)
    BY <2>1 DEF ReportInv, SweepShown, Pending
  <2> QED
    BY <1>4, <2>1, <2>2 DEF RuleFails, ReportInv
<1>5. CASE Commit
  <2>1. sweep'.pc # "rules"
    BY <1>5 DEF Commit, Sleeping
  <2> QED
    BY <1>5, <2>1, NothingPending DEF Commit, ReportInv
<1>6. ASSUME NEW s \in Subjects, EvaluateSamples(s) \/ (s = NoSubject /\ EvaluateTraps)
      PROVE  ReportInv'
  <2>1. Evaluating(s) /\ Advance(s) /\ UNCHANGED quiet /\ Kind[sweep.rule] # "down"
    BY <1>6 DEF EvaluateSamples, EvaluateTraps, Advance
  <2>2. PICK events : /\ WriteEvents(events)
                      /\ \A e \in events : e \in open \/ e.rule = sweep.rule
    <3>1. \A x : \A e \in Fired(sweep.rule, x) : e \in open \/ e.rule = sweep.rule
      BY DEF Fired
    <3>2. \A x : \A e \in Resolved(sweep.rule, x) : e \in open
      BY DEF Resolved
    <3>3. \E events : /\ WriteEvents(events)
                      /\ \/ events = open
                         \/ \E x : events = Fired(sweep.rule, x) \/ events = Resolved(sweep.rule, x)
      BY <1>6 DEF EvaluateSamples, EvaluateTraps
    <3> QED
      BY <3>1, <3>2, <3>3
  <2>3. /\ sweep'.pc = "rules" /\ sweep'.rows = sweep.rows /\ sweep'.rule = sweep.rule
        /\ sweep'.rules = sweep.rules
        /\ \A x \in Rules, y \in Devices : Pending(sweep', x, y) => Pending(sweep, x, y)
    BY <1>0, <2>1, AdvanceLess
  <2>4. /\ Shown(device', open', quiet')
        /\ \A b \in before' : Shown(b.device, b.open, quiet')
        /\ SweepShown(sweep, open', quiet')
    BY <2>1, <2>2, WriteEventsShown
  <2>5. open' \subseteq Event
    BY DEF CooldownInv, TypeOK
  <2>6. SweepShown(sweep', open', quiet')
    BY <2>3, <2>4, <2>5, SweepShownLess
  <2>7. sweep.rule \notin sweep.rules
    BY <2>1 DEF Evaluating, ReportInv
  <2> QED
    BY <2>3, <2>4, <2>6, <2>7 DEF ReportInv
<1>7. ASSUME NEW d \in Devices, EvaluateDown(d)
      PROVE  ReportInv'
  BY <1>7, ReportDown
<1> QED
  BY <1>1, <1>2, <1>3, <1>4, <1>5, <1>6, <1>7 DEF SweepStep, Subjects

\* Another writer that resets quiet, or leaves the rows of a silent device down.
LEMMA ReportOthers ==
    ASSUME ReportInv, before = {}, UNCHANGED <<before, sweep>>,
           \A e \in open' : Unreported(e, quiet') =>
               /\ e \in open /\ Unreported(e, quiet)
               /\ \/ device'[e.subject].listed = "gone"
                  \/ device'[e.subject].status = "down"
                  \/ device'[e.subject].status = device[e.subject].status
                     /\ device[e.subject].listed # "gone"
    PROVE  ReportInv'
  BY DEF ReportInv, Shown, SweepShown

\* The other writers, the clock and a restart keep the invariant.
LEMMA ReportRest ==
    ASSUME CooldownInv, ReportInv, Next, ~SweepStep
    PROVE  ReportInv'
<1>0. TypeOK /\ open \in SUBSET Event /\ device \in [Devices -> DeviceRow]
      /\ quiet \in [Devices -> Ages]
  BY DEF CooldownInv, TypeOK
<1>1. ASSUME NEW d \in Devices, PollDevice(d) \/ StatusBusy(d)
      PROVE  ReportInv'
  BY <1>1 DEF PollDevice, StatusBusy, ReportInv
<1>2. ASSUME NEW d \in Devices, WriteStatus(d) \/ Ingest(d)
      PROVE  ReportInv'
  <2>1. \A y \in Devices : y # d => device'[y] = device[y] /\ quiet'[y] = quiet[y]
    BY <1>0, <1>2 DEF WriteStatus, Ingest, Updated
  <2>2. \/ quiet'[d] = 0
        \/ /\ quiet' = quiet
           /\ device'[d].status = "down" \/ device'[d].listed = "gone"
    BY <1>0, <1>2 DEF WriteStatus, Ingest, Updated, DeviceRow
  <2>3. \A e \in open : e.age \in Nat
    BY <1>0, HorizonAssumption DEF Event, Ages
  <2>4. UNCHANGED <<open, before, sweep>> /\ before = {}
    BY <1>2 DEF WriteStatus, Ingest, Unlocked
  <2> SUFFICES ASSUME NEW e \in open, Unreported(e, quiet')
               PROVE  /\ Unreported(e, quiet)
                      /\ \/ device'[e.subject].listed = "gone"
                         \/ device'[e.subject].status = "down"
    BY <2>4 DEF ReportInv, Shown, SweepShown
  <2>5. CASE e.subject = d
    BY <2>2, <2>3, <2>5 DEF Unreported
  <2>6. CASE e.subject # d
    <3>1. Unreported(e, quiet)
      BY <2>1, <2>6 DEF Unreported
    <3> QED
      BY <2>1, <2>6, <3>1 DEF Unreported, ReportInv, Shown
  <2> QED
    BY <2>5, <2>6
<1>3. ASSUME NEW d \in Devices, EnableDevice(d)
      PROVE  ReportInv'
  <2>1. \A y \in Devices : device'[y].status = device[y].status
                            /\ (device[y].listed = "gone" => device'[y].listed = "gone")
    BY <1>0, <1>3 DEF EnableDevice, DeviceRow
  <2> QED
    BY <1>3, <2>1 DEF EnableDevice, Unlocked, ReportInv, Shown, Unreported
<1>4. ASSUME NEW d \in Devices, DeleteDevice(d)
      PROVE  ReportInv'
  <2>1. /\ device'[d].listed = "gone"
        /\ \A y \in Devices : y # d => device'[y] = device[y]
    BY <1>0, <1>4 DEF DeleteDevice, DeviceRow
  <2>2. \A e \in open' : e.subject \in Devices => e \in open
    BY <1>0, <1>4, SubjectsAssumption DEF DeleteDevice, Event
  <2>3. UNCHANGED <<before, sweep, quiet>> /\ before = {}
    BY <1>4 DEF DeleteDevice, Unlocked
  <2> QED
    BY <2>1, <2>2, <2>3 DEF ReportInv, Shown, SweepShown, Unreported
<1>5. CASE \/ \E r \in Rules : ToggleRule(r) \/ DeleteRule(r)
           \/ Cleanup
  <2>1. UNCHANGED <<device, before, sweep, quiet>> /\ open' \subseteq open
    BY <1>5 DEF ToggleRule, DeleteRule, Cleanup
  <2> QED
    BY <2>1, ShownSubset DEF ReportInv
<1>6. CASE Restart
  <2>1. sweep'.pc # "rules" /\ before' = {} /\ UNCHANGED quiet
    BY <1>6 DEF Restart, Starting
  <2>2. Shown(device', open', quiet)
    BY <1>6 DEF Restart, ReportInv
  <2> QED
    BY <2>1, <2>2, NothingPending DEF ReportInv
<1>7. CASE Tick
  <2>1. Shown(device', open', quiet')
    BY <1>0, <1>7, ShownAged DEF Tick, ReportInv
  <2>2. \A b \in before' : Shown(b.device, b.open, quiet')
    <3> SUFFICES ASSUME NEW x \in before
                 PROVE  Shown(AgedDevices(x.device), AgedEvents(x.open), quiet')
      BY <1>7 DEF Tick
    <3>1. x.device \in [Devices -> DeviceRow] /\ x.open \in SUBSET Event
      BY <1>0 DEF TypeOK
    <3> QED
      BY <1>0, <1>7, <3>1, ShownAged DEF Tick, ReportInv
  <2>3. SweepShown(sweep', open', quiet')
    <3> SUFFICES ASSUME NEW e \in open, NEW f, f = [e EXCEPT !.age = Older(@)],
                        Unreported(f, quiet'), Pending(sweep, f.rule, f.subject)
                 PROVE  sweep.rows[f.subject].status = "down"
      BY <1>7 DEF Tick, SweepShown, AgedEvents
    <3>1. Unreported(e, quiet) /\ f.subject = e.subject /\ f.rule = e.rule
      BY <1>0, <1>7, UnreportedAged DEF Tick
    <3> QED
      BY <3>1 DEF ReportInv, SweepShown
  <2> QED
    BY <1>7, <2>1, <2>2, <2>3 DEF Tick, ReportInv
<1> QED
  BY <1>1, <1>2, <1>3, <1>4, <1>5, <1>6, <1>7 DEF Next

\* With one device_down rule the sweep never resolves an event of a device that
\* has not reported since it was fired; two of them share the row's status, and
\* then it may.
THEOREM ReportedThenResolved == OneDownRule => (Spec => ResolvedByReport)
<1> SUFFICES ASSUME OneDownRule
             PROVE  Spec => ResolvedByReport
  OBVIOUS
<1> DEFINE Inv == CooldownInv /\ ReportInv
<1>1. Init => Inv
  BY CooldownInit, ReportInit
<1>2. Inv /\ [Next]_vars => Inv'
  <2>1. ASSUME Inv, UNCHANGED vars
        PROVE  Inv'
    BY <2>1 DEF CooldownInv, TypeOK, Spaced, ReportInv, Shown, SweepShown, vars
  <2>2. ASSUME Inv, SweepStep
        PROVE  Inv'
    BY <2>2, CooldownSweep, ReportSweep
  <2>3. ASSUME Inv, Next, ~SweepStep
        PROVE  Inv'
    BY <2>3, CooldownRest, ReportRest
  <2> QED
    BY <2>1, <2>2, <2>3
<1>3. Inv => \A d \in Devices :
                 EvaluateDown(d) => \A e \in open \ open' : quiet[d] <= e.age
  <2> SUFFICES ASSUME Inv, NEW d \in Devices, EvaluateDown(d), NEW e \in open \ open'
               PROVE  quiet[d] <= e.age
    OBVIOUS
  <2>1. ~Down(sweep.rows[d], sweep.rule) /\ e \in OpenOf(sweep.rule, d)
    BY DEF EvaluateDown, Fired, Resolved
  <2>2. sweep.rows[d].status # "down"
    BY <2>1 DEF Down
  <2>3. Evaluating(d) /\ Kind[sweep.rule] = "down"
    BY DEF EvaluateDown
  <2>4. ~Unreported(e, quiet)
    BY <2>1, <2>2, <2>3 DEF ReportInv, SweepShown, Pending, Evaluating, OpenOf
  <2>5. quiet[d] \in Int /\ e.age \in Int
    BY HorizonAssumption DEF CooldownInv, TypeOK, Event, Ages
  <2> QED
    BY <2>1, <2>3, <2>4, <2>5 DEF Unreported, OpenOf
<1> QED
  BY <1>1, <1>2, <1>3, PTL DEF Spec, ResolvedByReport

-----------------------------------------------------------------------------
(* FiredShowsDown, again for one device_down rule: with two, the one that  *)
(* does not find the device silent shows it up beside the other's event.   *)
(* Until the commit every event the sweep has added keeps its device down. *)

\* The event e is not of device_down, or its device is shown down if it is there.
ShownDown(e, rows) ==
    Kind[e.rule] = "down" =>
        /\ e.subject \in Devices
        /\ rows[e.subject].listed # "gone" => rows[e.subject].status = "down"

FiredInv == \A b \in before : \A e \in open \ b.open : ShownDown(e, device)

\* Opening the transaction: what is open then is no event of this sweep.
LEMMA WriteFired ==
    ASSUME FiredInv, Write, NEW b \in before', NEW e \in open \ b.open
    PROVE  ShownDown(e, device)
  BY DEF FiredInv, Write

\* The events of another kind of rule.
LEMMA WriteEventsFired ==
    ASSUME FiredInv, NEW events, WriteEvents(events),
           \A e \in events : e \in open \/ Kind[e.rule] # "down"
    PROVE  FiredInv'
<1> SUFFICES ASSUME NEW b \in before', NEW e \in events \ b.open
             PROVE  ShownDown(e, device)
  BY DEF FiredInv, WriteEvents, ShownDown
<1>1. CASE e \notin open
  BY <1>1 DEF ShownDown
<1>2. CASE e \in open /\ events = open
  BY <1>2 DEF WriteEvents, FiredInv
<1>3. CASE e \in open /\ events # open
  BY <1>3, WriteFired DEF WriteEvents
<1> QED
  BY <1>1, <1>2, <1>3

\* device_down adds an event with the mark, and takes all of its events with the other.
LEMMA FiredDown ==
    ASSUME OneDownRule, CooldownInv, FiredInv, NEW d \in Devices, EvaluateDown(d)
    PROVE  FiredInv'
<1> DEFINE r == sweep.rule
<1>1. r \in Rules /\ Kind[r] = "down" /\ Write
  BY SweepFields DEF CooldownInv, TypeOK, EvaluateDown, Evaluating
<1>2. device \in [Devices -> DeviceRow] /\ open \subseteq Event
  BY DEF CooldownInv, TypeOK
<1>3. \A x \in Devices : x # d => device'[x] = device[x]
  BY <1>2 DEF EvaluateDown, Mark, Updated
<1> SUFFICES ASSUME NEW b \in before', NEW e \in open' \ b.open
             PROVE  ShownDown(e, device')
  BY DEF FiredInv, ShownDown
<1>4. CASE Down(sweep.rows[d], r)
  <2>1. device' = Mark(d, "down") /\ open' = Fired(r, d)
    BY <1>4 DEF EvaluateDown
  <2>2. device'[d].listed # "gone" => device'[d].status = "down"
    BY <1>2, <2>1 DEF Mark, Updated, DeviceRow
  <2>3. e \in open \/ e.subject = d
    BY <2>1 DEF Fired
  <2>4. e \in open => ShownDown(e, device)
    BY <1>1, WriteFired
  <2> QED
    BY <1>3, <2>2, <2>3, <2>4 DEF ShownDown
<1>5. CASE ~Down(sweep.rows[d], r)
  <2>1. open' = Resolved(r, d)
    BY <1>5 DEF EvaluateDown
  <2>2. e \in open /\ ~(e.rule = r /\ e.subject = d)
    BY <2>1 DEF Resolved, OpenOf
  <2>3. ShownDown(e, device)
    BY <1>1, <2>2, WriteFired
  <2>4. Kind[e.rule] = "down" => e.subject # d
    BY <1>1, <1>2, <2>2 DEF OneDownRule, Event
  <2> QED
    BY <1>3, <2>3, <2>4 DEF ShownDown
<1> QED
  BY <1>4, <1>5

LEMMA FiredNext == OneDownRule /\ CooldownInv /\ FiredInv /\ [Next]_vars => FiredInv'
<1> SUFFICES ASSUME OneDownRule, CooldownInv, FiredInv, [Next]_vars
             PROVE  FiredInv'
  OBVIOUS
<1>1. CASE \/ StartSweep \/ ReadDevices \/ FinishRule \/ RuleFails \/ UNCHANGED vars
           \/ \E d \in Devices : PollDevice(d) \/ StatusBusy(d)
  <2>1. UNCHANGED <<device, open, before>>
    BY <1>1 DEF StartSweep, ReadDevices, FinishRule, RuleFails, PollDevice, StatusBusy, vars
  <2> QED
    BY <2>1 DEF FiredInv, ShownDown
<1>2. CASE \/ Commit \/ Restart \/ Cleanup \/ \E r \in Rules : ToggleRule(r) \/ DeleteRule(r)
           \/ \E d \in Devices : WriteStatus(d) \/ Ingest(d) \/ EnableDevice(d) \/ DeleteDevice(d)
  <2>1. before' = {}
    BY <1>2 DEF Commit, Restart, Cleanup, ToggleRule, DeleteRule, WriteStatus, Ingest,
                EnableDevice, DeleteDevice, Unlocked
  <2> QED
    BY <2>1 DEF FiredInv
<1>3. ASSUME NEW s \in Subjects, EvaluateSamples(s)
      PROVE  FiredInv'
  <2>1. Kind[sweep.rule] # "down"
    BY <1>3 DEF EvaluateSamples
  <2>2. PICK events \in {open, Fired(sweep.rule, s), Resolved(sweep.rule, s)} : WriteEvents(events)
    BY <1>3 DEF EvaluateSamples
  <2>3. \A e \in events : e \in open \/ Kind[e.rule] # "down"
    BY <2>1, <2>2 DEF Fired, Resolved
  <2> QED
    BY <2>2, <2>3, WriteEventsFired
<1>4. CASE EvaluateTraps
  <2>1. Kind[sweep.rule] # "down"
    BY <1>4 DEF EvaluateTraps
  <2>2. WriteEvents(open) \/ \E s \in Scope[sweep.rule] \cup {NoSubject} : WriteEvents(Fired(sweep.rule, s))
    BY <1>4 DEF EvaluateTraps
  <2>3. \A s : \A e \in Fired(sweep.rule, s) : e \in open \/ Kind[e.rule] # "down"
    BY <2>1 DEF Fired
  <2> QED
    BY <2>2, <2>3, WriteEventsFired
<1>5. CASE Tick
  <2> SUFFICES ASSUME NEW b \in before, NEW e \in AgedEvents(open) \ AgedEvents(b.open)
               PROVE  ShownDown(e, AgedDevices(device))
    BY <1>5 DEF Tick, FiredInv, ShownDown
  <2>1. PICK f \in open : e = [f EXCEPT !.age = Older(@)]
    BY DEF AgedEvents
  <2>2. f \notin b.open
    BY <2>1 DEF AgedEvents
  <2>3. ShownDown(f, device)
    BY <2>2 DEF FiredInv
  <2>4. e.rule = f.rule /\ e.subject = f.subject
    BY <2>1 DEF CooldownInv, TypeOK, Event
  <2>5. \A d \in Devices : /\ AgedDevices(device)[d].listed = device[d].listed
                           /\ AgedDevices(device)[d].status = device[d].status
    BY DEF AgedDevices, CooldownInv, TypeOK, DeviceRow
  <2> QED
    BY <2>3, <2>4, <2>5 DEF ShownDown
<1> QED
  BY <1>1, <1>2, <1>3, <1>4, <1>5, FiredDown DEF Next, SweepStep

\* With one device_down rule an event that a sweep adds is committed with its device
\* shown down (engine.py _fire and the UPDATE after it).
THEOREM FiredThenDown == OneDownRule => (Spec => FiredShowsDown)
<1> SUFFICES ASSUME OneDownRule
             PROVE  Spec => FiredShowsDown
  OBVIOUS
<1> DEFINE Inv == CooldownInv /\ FiredInv
<1>1. Init => Inv
  BY CooldownInit DEF Init, FiredInv
<1>2. Inv /\ [Next]_vars => Inv'
  <2>1. ASSUME Inv, UNCHANGED vars
        PROVE  CooldownInv'
    BY <2>1 DEF CooldownInv, TypeOK, Spaced, vars
  <2> QED
    BY <2>1, CooldownSweep, CooldownRest, FiredNext
<1>3. Inv => \A b \in before : \A e \in open \ b.open :
                 Kind[e.rule] = "down" /\ device[e.subject].listed # "gone" =>
                     device[e.subject].status = "down"
  BY DEF FiredInv, ShownDown
<1> QED
  BY <1>1, <1>2, <1>3, PTL DEF Spec, FiredShowsDown

-----------------------------------------------------------------------------
(* Together.                                                               *)

\* The rows of events and devices are typed and the open events of a rule and a
\* subject respect its cooldown, whatever fails or restarts (engine.py _fire).
THEOREM AlertsHold == Spec => []AlertsKept
  BY EngineTyped, CooldownKept, PTL DEF AlertsKept

-----------------------------------------------------------------------------
(* A rule on traps, beside the other parts of a run (MCAlertLive)          *)

\* What holds of the rule holds of it in the composition, whose other parts leave its
\* own part for ever.
THEOREM TrapsHold == AnyFair => []CooldownOfTraps
<1> DEFINE Inv == part = "trapped" => CooldownInv
<1>1. AnyInit => Inv
  BY CooldownInit DEF AnyInit
<1>2. Inv /\ [AnyNext]_<<part, vars, formVars, stockVars>> => Inv'
  <2> SUFFICES ASSUME Inv, [AnyNext]_<<part, vars, formVars, stockVars>>, part' = "trapped"
               PROVE  CooldownInv'
    OBVIOUS
  <2>1. part = "trapped" /\ CooldownInv /\ [Next]_vars
    BY DEF AnyNext
  <2>2. CASE UNCHANGED vars
    BY <2>1, <2>2 DEF CooldownInv, TypeOK, Spaced, vars
  <2>3. CASE Next
    BY <2>1, <2>3, CooldownSweep, CooldownRest
  <2> QED
    BY <2>1, <2>2, <2>3
<1>3. Inv => CooldownOfTraps
  BY DEF CooldownInv, CooldownRespected, CooldownOfTraps
<1> QED
  BY <1>1, <1>2, <1>3, PTL DEF AnyFair

-----------------------------------------------------------------------------
(* The Settings page and its rows (Settings)                               *)

Contents == Words \cup {None, Default, Mask}

Page == [at : {"closed", "loading", "ready", "saved"}, shows : [Section -> Contents], load : [Section -> Contents],
         silent : [Section -> Contents], dirty : BOOLEAN, typed : [Section -> Words \cup {None}],
         overtaken : SUBSET Section]

\* What a row may hold, and what the server answers of it.
Sealings == {Form!Sealed(w) : w \in Words}
Value(k) == {None, Default} \cup (IF k \in Secrets THEN Sealings ELSE Words)
Answer(k) == {None, Default} \cup (IF k \in Secrets THEN {Mask} ELSE Words)

\* What was typed is shown, and a silent reload is only on its way to a form that shows
\* nothing else typed than what it may take the place of.
Right(p) ==
    /\ p \in Page
    /\ \A k \in Section : /\ p.load[k] \in Answer(k) /\ p.silent[k] \in Answer(k)
                          /\ p.shows[k] \in Answer(k) \/ p.shows[k] = p.typed[k]
    /\ ~p.dirty \/ p.silent # Form!Nothing => \A k \in Section : p.typed[k] # None => k \in p.overtaken
    /\ \A k \in Section : p.typed[k] # None => p.shows[k] = p.typed[k]

\* A row and what was meant with it.
RowRight(k, value, word) ==
    /\ value \in Value(k) /\ word \in Words \cup {None}
    /\ word # None => Form!Opened(value) = word

RowsRight ==
    /\ DOMAIN stored = Section /\ stored = [k \in Section |-> stored[k]]
    /\ meant \in [Section -> Words \cup {None}]
    /\ \A k \in Section : RowRight(k, stored[k], meant[k])

FormInv ==
    /\ RowsRight
    /\ DOMAIN page = Pages /\ page = [a \in Pages |-> page[a]]
    /\ \A a \in Pages : Right(page[a])

-----------------------------------------------------------------------------
(* Rows *)

LEMMA OpenedIs ==
    ASSUME Form!WordsAssumption
    PROVE  /\ \A w \in Words : Form!Opened(Form!Sealed(w)) = w
           /\ \A v \in Words \cup {None, Default, Mask} : Form!Opened(v) = v
  <1>1. \A w, u : Form!Sealed(w) = Form!Sealed(u) => w = u
    <2> SUFFICES ASSUME NEW w, NEW u, Form!Sealed(w) = Form!Sealed(u) PROVE w = u
      OBVIOUS
    <2>1. Form!Sealed(w).sealed = w /\ Form!Sealed(u).sealed = u
      BY DEF Form!Sealed
    <2> QED  BY <2>1
  <1>2. ASSUME NEW w \in Words PROVE Form!Opened(Form!Sealed(w)) = w
    <2>1. Form!Opened(Form!Sealed(w)) = CHOOSE u \in Words : Form!Sealed(w) = Form!Sealed(u)
      BY DEF Form!Opened
    <2> QED  BY <1>1, <2>1
  <1>3. ASSUME NEW v \in Words \cup {None, Default, Mask} PROVE Form!Opened(v) = v
    <2>1. \A w \in Words : v # Form!Sealed(w)
      BY DEF Form!WordsAssumption, Form!Sealed
    <2> QED  BY <2>1 DEF Form!Opened
  <1> QED  BY <1>2, <1>3

LEMMA EncodedIs ==
    ASSUME Form!WordsAssumption, NEW k \in Section, NEW w \in Words
    PROVE  RowRight(k, Form!Encoded(k, w), w)
  <1>1. CASE k \in Secrets
    BY <1>1, OpenedIs DEF RowRight, Form!Encoded, Value, Sealings
  <1>2. CASE k \notin Secrets
    BY <1>2, OpenedIs DEF RowRight, Form!Encoded, Value
  <1> QED  BY <1>1, <1>2

\* The defaults take the place of rows that are not there.
LEMMA FilledIs ==
    ASSUME Form!WordsAssumption, RowsRight, stored' = Form!Filled(stored), meant' = meant
    PROVE  RowsRight' /\ \A k \in Section : Form!Answered(stored')[k] \in Answer(k)
  <1>1. ASSUME NEW k \in Section PROVE RowRight(k, stored'[k], meant'[k])
    <2>1. stored'[k] = IF k \in Known /\ stored[k] = None THEN Default ELSE stored[k]
      BY DEF Form!Filled
    <2>2. CASE stored[k] = None
      <3>1. meant[k] = None
        BY <2>2, OpenedIs DEF RowsRight, RowRight, Form!WordsAssumption
      <3> QED  BY <2>1, <2>2, <3>1 DEF RowRight, Value
    <2>3. CASE stored[k] # None
      BY <2>1, <2>3 DEF RowsRight
    <2> QED  BY <2>2, <2>3
  <1>2. RowsRight'
    BY <1>1 DEF RowsRight, Form!Filled
  <1>3. ASSUME NEW k \in Section PROVE Form!Answered(stored')[k] \in Answer(k)
    BY <1>1 DEF Form!Answered, Answer, RowRight, Value
  <1> QED  BY <1>2, <1>3

\* A save of a form, whose values are the server's or were typed.
LEMMA WrittenIs ==
    ASSUME Form!WordsAssumption, RowsRight, NEW values \in [Section -> Contents],
           \A k \in Section : values[k] \in Answer(k) \cup Words,
           stored' = Form!Written(values),
           meant' = [k \in Section |-> IF values[k] \in {Mask, None} THEN meant[k]
                                       ELSE IF values[k] \in Words THEN values[k] ELSE None]
    PROVE  RowsRight' /\ \A k \in Section : values[k] \in Words => Form!Opened(stored'[k]) = values[k]
  <1>1. ASSUME NEW k \in Section
        PROVE  /\ RowRight(k, stored'[k], meant'[k])
               /\ values[k] \in Words => Form!Opened(stored'[k]) = values[k]
    <2> DEFINE v == values[k]
    <2>1. /\ stored'[k] = IF v = None \/ Form!Kept(k, v) THEN stored[k] ELSE Form!Encoded(k, v)
          /\ meant'[k] = IF v \in {Mask, None} THEN meant[k] ELSE IF v \in Words THEN v ELSE None
      BY DEF Form!Written
    <2>2. v \in Answer(k) \cup Words /\ RowRight(k, stored[k], meant[k])
      BY DEF RowsRight
    <2> HIDE DEF v
    <2>3. CASE v \in Words
      <3>1. v \notin {Mask, None}
        BY <2>3 DEF Form!WordsAssumption
      <3>2. stored'[k] = Form!Encoded(k, v) /\ meant'[k] = v
        BY <2>1, <2>3, <3>1 DEF Form!Kept
      <3>3. RowRight(k, Form!Encoded(k, v), v)
        BY <2>3, EncodedIs
      <3> QED  BY <3>1, <3>2, <3>3 DEF RowRight, v
    <2>4. CASE v \notin Words /\ v \in {Mask, None}
      <3>1. v = Mask => k \in Secrets
        BY <2>2, <2>4 DEF Answer, Form!WordsAssumption
      <3>2. stored'[k] = stored[k] /\ meant'[k] = meant[k]
        BY <2>1, <2>4, <3>1 DEF Form!Kept
      <3> QED  BY <2>2, <2>4, <3>2 DEF v
    <2>5. CASE v \notin Words /\ v \notin {Mask, None}
      <3>1. v = Default
        BY <2>2, <2>5 DEF Answer
      <3>2. stored'[k] = Default /\ meant'[k] = None
        BY <2>1, <2>5, <3>1 DEF Form!Kept, Form!Encoded
      <3> QED  BY <2>5, <3>2 DEF RowRight, Value, v
    <2> QED  BY <2>3, <2>4, <2>5
  <1>2. RowsRight'
    <2>1. stored' = [k \in Section |-> stored'[k]] /\ DOMAIN stored' = Section
      BY DEF Form!Written
    <2>2. meant' \in [Section -> Words \cup {None}]
      BY <1>1 DEF RowRight
    <2> QED  BY <1>1, <2>1, <2>2 DEF RowsRight
  <1> QED  BY <1>1, <1>2

-----------------------------------------------------------------------------
(* Pages *)

LEMMA ClosedIs ==
    ASSUME NEW load \in [Section -> Contents], NEW silent \in [Section -> Contents],
           \A k \in Section : load[k] \in Answer(k) /\ silent[k] \in Answer(k)
    PROVE  /\ Right(Form!Closed)
           /\ Right([Form!Closed EXCEPT !.at = "ready", !.shows = load, !.silent = silent])
  <1>1. /\ Form!Nothing \in [Section -> Contents] /\ Form!Nothing \in [Section -> Words \cup {None}]
        /\ \A k \in Section : Form!Nothing[k] \in Answer(k) /\ Form!Nothing[k] = None
    BY DEF Form!Nothing, Contents, Answer
  <1> DEFINE p == [Form!Closed EXCEPT !.at = "ready", !.shows = load, !.silent = silent]
  <1>2. /\ p \in Page /\ p.at = "ready" /\ p.shows = load /\ p.silent = silent /\ p.load = Form!Nothing
        /\ p.dirty = FALSE /\ p.typed = Form!Nothing /\ p.overtaken = {}
    BY <1>1 DEF Form!Closed, Page
  <1> HIDE DEF p
  <1>3. Right(p)
    BY <1>1, <1>2 DEF Right
  <1>4. Form!Closed \in Page
    BY <1>1 DEF Form!Closed, Page
  <1>5. Right(Form!Closed)
    BY <1>1, <1>4 DEF Right, Form!Closed
  <1> QED  BY <1>3, <1>5 DEF p

LEMMA OnePage ==
    ASSUME FormInv, NEW a \in Pages, NEW p, page' = [page EXCEPT ![a] = p], Right(p), RowsRight'
    PROVE  FormInv'
  <1>1. \A b \in Pages : page'[b] = p \/ page'[b] = page[b]
    BY DEF FormInv
  <1>2. DOMAIN page' = Pages /\ page' = [b \in Pages |-> page'[b]]
    BY DEF FormInv
  <1> QED  BY <1>1, <1>2 DEF FormInv

LEMMA PageSteps ==
    ASSUME Form!WordsAssumption, FormInv, NEW a \in Pages,
           \/ Form!Load(a) \/ Form!ShowLoaded(a) \/ Form!LoadFails(a) \/ Form!LoadSilently(a) \/ Form!ShowSilently(a)
           \/ Form!Type(a) \/ Form!Save(a) \/ Form!Leave(a)
    PROVE  FormInv'
  <1> DEFINE p == page[a]
  <1>0. RowsRight /\ Right(p) /\ p \in Page
    BY DEF FormInv, Right
  <1>a. UNCHANGED <<stored, meant>> => RowsRight'
    BY <1>0 DEF RowsRight
  <1> HIDE DEF p
  <1>1. CASE Form!Load(a) \/ Form!LoadSilently(a)
    <2> DEFINE answer == Form!Answered(stored')
    <2>1. stored' = Form!Filled(stored) /\ meant' = meant
      BY <1>1 DEF Form!Load, Form!LoadSilently
    <2>2. RowsRight' /\ \A k \in Section : answer[k] \in Answer(k)
      BY <1>0, <2>1, FilledIs
    <2>3. answer \in [Section -> Contents]
      <3>1. \A k \in Section : Answer(k) \subseteq Contents
        BY DEF Answer, Contents
      <3>2. answer = [k \in Section |-> answer[k]]
        BY DEF Form!Answered
      <3> QED  BY <2>2, <3>1, <3>2
    <2>4. CASE Form!Load(a)
      <3> DEFINE q == [p EXCEPT !.at = "loading", !.load = answer]
      <3>1. page' = [page EXCEPT ![a] = q]
        BY <2>4 DEF Form!Load, Form!Put, p
      <3> HIDE DEF answer
      <3>2. /\ q \in Page /\ q.load = answer /\ q.silent = p.silent /\ q.shows = p.shows
            /\ q.typed = p.typed /\ q.dirty = p.dirty /\ q.overtaken = p.overtaken
        BY <1>0, <2>3 DEF Page
      <3> HIDE DEF q
      <3>3. Right(q)
        BY <1>0, <2>2, <3>2 DEF Right, answer
      <3> QED  BY <2>2, <3>1, <3>3, OnePage
    <2>5. CASE Form!LoadSilently(a)
      <3> DEFINE q == [p EXCEPT !.silent = answer]
      <3>1. page' = [page EXCEPT ![a] = q] /\ ~p.dirty
        BY <2>5 DEF Form!LoadSilently, Form!Put, Form!Clean, p
      <3> HIDE DEF answer
      <3>2. /\ q \in Page /\ q.load = p.load /\ q.silent = answer /\ q.shows = p.shows
            /\ q.typed = p.typed /\ q.dirty = p.dirty /\ q.overtaken = p.overtaken
        BY <1>0, <2>3 DEF Page
      <3>3. \A k \in Section : p.typed[k] # None => k \in p.overtaken
        BY <1>0, <3>1 DEF Right
      <3> HIDE DEF q
      <3>4. Right(q)
        BY <1>0, <2>2, <3>2, <3>3 DEF Right, answer
      <3> QED  BY <2>2, <3>1, <3>4, OnePage
    <2> QED  BY <1>1, <2>4, <2>5
  <1>2. CASE Form!ShowLoaded(a)
    <2>1. /\ page' = [page EXCEPT ![a] = [Form!Closed EXCEPT !.at = "ready", !.shows = p.load, !.silent = p.silent]]
          /\ UNCHANGED <<stored, meant>>
      BY <1>2 DEF Form!ShowLoaded, Form!Put, p
    <2>2. p.load \in [Section -> Contents] /\ p.silent \in [Section -> Contents]
      BY <1>0 DEF Page
    <2>3. Right([Form!Closed EXCEPT !.at = "ready", !.shows = p.load, !.silent = p.silent])
      <3>1. \A k \in Section : p.load[k] \in Answer(k) /\ p.silent[k] \in Answer(k)
        BY <1>0 DEF Right
      <3> QED  BY <2>2, <3>1, ClosedIs
    <2> QED  BY <1>a, <2>1, <2>3, OnePage
  <1>3. CASE Form!ShowSilently(a)
    <2> DEFINE typed == [k \in Section |-> IF k \in p.overtaken THEN None ELSE p.typed[k]]
               q == [p EXCEPT !.silent = Form!Nothing, !.shows = p.silent, !.overtaken = {}, !.typed = typed]
    <2>1. page' = [page EXCEPT ![a] = q] /\ UNCHANGED <<stored, meant>> /\ p.silent # Form!Nothing
      BY <1>3 DEF Form!ShowSilently, Form!Put, p
    <2>2. Form!Nothing \in [Section -> Contents] /\ \A k \in Section : Form!Nothing[k] \in Answer(k)
      BY DEF Form!Nothing, Contents, Answer
    <2>3. typed \in [Section -> Words \cup {None}] /\ \A k \in Section : typed[k] = None
      <3>1. \A k \in Section : p.typed[k] # None => k \in p.overtaken
        BY <1>0, <2>1 DEF Right
      <3> QED  BY <3>1
    <2> HIDE DEF typed
    <2>4. /\ q \in Page /\ q.load = p.load /\ q.silent = Form!Nothing /\ q.shows = p.silent
          /\ q.typed = typed /\ q.dirty = p.dirty /\ q.overtaken = {}
      BY <1>0, <2>2, <2>3 DEF Page
    <2> HIDE DEF q
    <2>5. Right(q)
      BY <1>0, <2>2, <2>3, <2>4 DEF Right
    <2> QED  BY <1>a, <2>1, <2>5, OnePage
  <1>4. CASE Form!Type(a)
    <2>1. PICK k \in Section, w \in Words :
             page' = [page EXCEPT ![a] = [p EXCEPT !.shows[k] = w, !.dirty = TRUE, !.typed[k] = w,
                                                   !.overtaken = IF p.silent = Form!Nothing THEN @ \ {k} ELSE @ \cup {k}]]
      BY <1>4 DEF Form!Type, Form!Put, p
    <2> DEFINE over == IF p.silent = Form!Nothing THEN p.overtaken \ {k} ELSE p.overtaken \cup {k}
               shows == [p.shows EXCEPT ![k] = w]
               typed == [p.typed EXCEPT ![k] = w]
               q == [p EXCEPT !.shows = shows, !.dirty = TRUE, !.typed = typed, !.overtaken = over]
    <2>2. page' = [page EXCEPT ![a] = q] /\ UNCHANGED <<stored, meant>>
      <3>1. UNCHANGED <<stored, meant>>
        BY <1>4 DEF Form!Type
      <3> QED  BY <2>1, <3>1
    <2>3. /\ shows \in [Section -> Contents] /\ typed \in [Section -> Words \cup {None}] /\ over \in SUBSET Section
          /\ shows[k] = w /\ typed[k] = w
          /\ \A l \in Section \ {k} : shows[l] = p.shows[l] /\ typed[l] = p.typed[l]
      BY <1>0 DEF Page, Contents
    <2>4. \A l \in Section \ {k} : l \in p.overtaken => l \in over
      OBVIOUS
    <2>5. p.silent # Form!Nothing => k \in over
      OBVIOUS
    <2> HIDE DEF over, shows, typed
    <2>6. /\ q \in Page /\ q.load = p.load /\ q.silent = p.silent /\ q.shows = shows
          /\ q.typed = typed /\ q.dirty = TRUE /\ q.overtaken = over
      BY <1>0, <2>3 DEF Page
    <2> HIDE DEF q
    <2>7. Right(q)
      BY <1>0, <2>3, <2>4, <2>5, <2>6 DEF Right
    <2> QED  BY <1>a, <2>2, <2>7, OnePage
  <1>5. CASE Form!Save(a) /\ ~Form!Refused(p.shows)
    <2> DEFINE q == [p EXCEPT !.at = "saved"]
    <2>1. /\ stored' = Form!Written(p.shows)
          /\ page' = [page EXCEPT ![a] = q] \/ page' = page
          /\ meant' = [k \in Section |-> IF p.shows[k] \in {Mask, None} THEN meant[k]
                                         ELSE IF p.shows[k] \in Words THEN p.shows[k] ELSE None]
      BY <1>5 DEF Form!Save, Form!Put, p
    <2>2. p.shows \in [Section -> Contents] /\ \A k \in Section : p.shows[k] \in Answer(k) \cup Words
      BY <1>0 DEF Right, Page, Answer
    <2>3. RowsRight'
      BY <1>0, <2>1, <2>2, WrittenIs
    <2>4. /\ q \in Page /\ q.load = p.load /\ q.silent = p.silent /\ q.shows = p.shows
          /\ q.typed = p.typed /\ q.dirty = p.dirty /\ q.overtaken = p.overtaken
      BY <1>0 DEF Page
    <2> HIDE DEF q
    <2>5. Right(q)
      BY <1>0, <2>4 DEF Right
    <2>6. CASE page' = page
      BY <2>3, <2>6 DEF FormInv
    <2> QED  BY <2>1, <2>3, <2>5, <2>6, OnePage
  <1>6. CASE Form!Save(a) /\ Form!Refused(p.shows)
    <2>1. UNCHANGED <<stored, page, meant>>
      BY <1>6 DEF Form!Save, p
    <2> QED  BY <1>a, <2>1 DEF FormInv
  <1>7. CASE Form!Leave(a)
    <2>1. page' = [page EXCEPT ![a] = Form!Closed] /\ UNCHANGED <<stored, meant>>
      BY <1>7 DEF Form!Leave, Form!Put
    <2>2. p.load \in [Section -> Contents] /\ p.silent \in [Section -> Contents]
      BY <1>0 DEF Page
    <2>3. Right(Form!Closed)
      BY <1>0, <2>2, ClosedIs DEF Right
    <2> QED  BY <1>a, <2>1, <2>3, OnePage
  <1>8. CASE Form!LoadFails(a)
    <2> DEFINE over == p.overtaken \cup {k \in Section : p.typed[k] # None}
               q == [p EXCEPT !.at = "ready", !.load = Form!Nothing, !.dirty = FALSE, !.overtaken = over]
    <2>1. page' = [page EXCEPT ![a] = q] /\ UNCHANGED <<stored, meant>>
      BY <1>8 DEF Form!LoadFails, Form!Put, p
    <2>2. Form!Nothing \in [Section -> Contents] /\ \A k \in Section : Form!Nothing[k] \in Answer(k)
      BY DEF Form!Nothing, Contents, Answer
    <2>3. over \in SUBSET Section /\ \A k \in Section : p.typed[k] # None => k \in over
      BY <1>0 DEF Page
    <2> HIDE DEF over
    <2>4. /\ q \in Page /\ q.load = Form!Nothing /\ q.silent = p.silent /\ q.shows = p.shows
          /\ q.typed = p.typed /\ q.dirty = FALSE /\ q.overtaken = over
      BY <1>0, <2>2, <2>3 DEF Page
    <2> HIDE DEF q
    <2>5. Right(q)
      BY <1>0, <2>2, <2>3, <2>4 DEF Right
    <2> QED  BY <1>a, <2>1, <2>5, OnePage
  <1> QED  BY <1>1, <1>2, <1>3, <1>4, <1>5, <1>6, <1>7, <1>8

LEMMA FormStep == ASSUME Form!WordsAssumption, FormInv, [Form!Next]_(Form!vars) PROVE FormInv'
  <1>1. CASE Form!UpdateSetting
    <2>1. PICK k \in Section \cap Known, w \in Words :
             stored' = [stored EXCEPT ![k] = Form!Encoded(k, w)] /\ meant' = [meant EXCEPT ![k] = w]
      BY <1>1 DEF Form!UpdateSetting
    <2>2. RowRight(k, Form!Encoded(k, w), w)
      BY EncodedIs
    <2>3. RowsRight'
      BY <2>1, <2>2 DEF FormInv, RowsRight
    <2>4. page' = page
      BY <1>1 DEF Form!UpdateSetting
    <2> QED  BY <2>3, <2>4 DEF FormInv
  <1>2. CASE UNCHANGED Form!vars
    BY <1>2 DEF Form!vars, FormInv, RowsRight
  <1> QED  BY <1>1, <1>2, PageSteps DEF Form!Next

LEMMA FormInit == ASSUME Form!WordsAssumption, Form!Init PROVE FormInv
  <1>1. /\ Form!Nothing \in [Section -> Contents] /\ Form!Nothing \in [Section -> Words \cup {None}]
        /\ \A k \in Section : Form!Nothing[k] = None
    BY DEF Form!Nothing, Contents
  <1>2. RowsRight
    BY <1>1 DEF Form!Init, RowsRight, RowRight, Value, Form!Nothing
  <1>3. Right(Form!Closed)
    BY <1>1, ClosedIs DEF Answer
  <1> QED  BY <1>2, <1>3 DEF Form!Init, FormInv

\* A save writes what was typed since the form was loaded.
LEMMA SaveWrites ==
    ASSUME Form!WordsAssumption, FormInv, [Form!Next]_(Form!vars), NEW a \in Pages,
           page[a].at = "ready", page'[a].at = "saved", NEW k \in Section
    PROVE  page[a].typed[k] = None \/ k \in page[a].overtaken \/ Form!Opened(stored'[k]) = page[a].typed[k]
  <1>1. Form!Save(a) /\ ~Form!Refused(page[a].shows)
    <2>0. Right(page[a]) /\ page[a] \in Page
      BY DEF FormInv, Right
    <2>1. ASSUME NEW b \in Pages, NEW q, page' = [page EXCEPT ![b] = q], q.at # "saved" \/ b # a PROVE FALSE
      BY <2>1 DEF FormInv
    <2>2. page' # page
      OBVIOUS
    <2>3. ASSUME NEW b \in Pages, Form!Load(b) PROVE FALSE
      <3>1. page' = [page EXCEPT ![b] = [page[b] EXCEPT !.at = "loading", !.load = Form!Answered(stored')]]
        BY <2>3 DEF Form!Load, Form!Put
      <3>2. page[b] \in Page
        BY DEF FormInv, Right
      <3>3. [page[b] EXCEPT !.at = "loading", !.load = Form!Answered(stored')].at = "loading"
        BY <3>2 DEF Page
      <3> QED  BY <2>1, <3>1, <3>3
    <2>8. ASSUME NEW b \in Pages, Form!LoadFails(b) PROVE FALSE
      <3> DEFINE q == [page[b] EXCEPT !.at = "ready", !.load = Form!Nothing, !.dirty = FALSE,
                                      !.overtaken = @ \cup {l \in Section : page[b].typed[l] # None}]
      <3>1. page' = [page EXCEPT ![b] = q]
        BY <2>8 DEF Form!LoadFails, Form!Put
      <3>2. page[b] \in Page
        BY DEF FormInv, Right
      <3>3. q.at = "ready"
        BY <3>2 DEF Page
      <3> QED  BY <2>1, <3>1, <3>3
    <2>4. ASSUME NEW b \in Pages, Form!ShowLoaded(b) \/ Form!Leave(b) PROVE FALSE
      <3>1. \E load, silent :
               \/ page' = [page EXCEPT ![b] = [Form!Closed EXCEPT !.at = "ready", !.shows = load, !.silent = silent]]
               \/ page' = [page EXCEPT ![b] = Form!Closed]
        BY <2>4 DEF Form!ShowLoaded, Form!Leave, Form!Put
      <3>2. \A load, silent : [Form!Closed EXCEPT !.at = "ready", !.shows = load, !.silent = silent].at = "ready"
        BY DEF Form!Closed
      <3>3. Form!Closed.at = "closed"
        BY DEF Form!Closed
      <3> QED  BY <2>1, <3>1, <3>2, <3>3
    <2>5. ASSUME NEW b \in Pages, NEW q, page' = [page EXCEPT ![b] = q], q.at = page[b].at PROVE FALSE
      BY <2>5 DEF FormInv
    <2>6. ASSUME NEW b \in Pages, Form!LoadSilently(b) \/ Form!ShowSilently(b) \/ Form!Type(b) PROVE FALSE
      <3>0. page[b] \in Page
        BY DEF FormInv, Right
      <3>1. PICK q : page' = [page EXCEPT ![b] = q] /\ q.at = page[b].at
        <4>1. CASE Form!LoadSilently(b)
          <5> DEFINE q == [page[b] EXCEPT !.silent = Form!Answered(stored')]
          <5>1. page' = [page EXCEPT ![b] = q]
            BY <4>1 DEF Form!LoadSilently, Form!Put
          <5>2. q.at = page[b].at
            BY <3>0 DEF Page
          <5> QED  BY <5>1, <5>2
        <4>2. CASE Form!ShowSilently(b)
          <5> DEFINE q == [page[b] EXCEPT !.silent = Form!Nothing, !.shows = page[b].silent, !.overtaken = {},
                                          !.typed = [l \in Section |-> IF l \in page[b].overtaken THEN None ELSE @[l]]]
          <5>1. page' = [page EXCEPT ![b] = q]
            BY <4>2 DEF Form!ShowSilently, Form!Put
          <5>2. q.at = page[b].at
            BY <3>0 DEF Page
          <5> QED  BY <5>1, <5>2
        <4>3. CASE Form!Type(b)
          <5>1. PICK l \in Section, w \in Words :
                   page' = [page EXCEPT ![b] =
                       [page[b] EXCEPT !.shows[l] = w, !.dirty = TRUE, !.typed[l] = w,
                                       !.overtaken = IF page[b].silent = Form!Nothing THEN @ \ {l} ELSE @ \cup {l}]]
            BY <4>3 DEF Form!Type, Form!Put
          <5> DEFINE q == [page[b] EXCEPT !.shows[l] = w, !.dirty = TRUE, !.typed[l] = w,
                                          !.overtaken = IF page[b].silent = Form!Nothing THEN @ \ {l} ELSE @ \cup {l}]
          <5>2. q.at = page[b].at
            BY <3>0 DEF Page
          <5> QED  BY <5>1, <5>2
        <4> QED  BY <2>6, <4>1, <4>2, <4>3
      <3> QED  BY <2>5, <3>1
    <2>7. ASSUME NEW b \in Pages, Form!Save(b) PROVE b = a /\ ~Form!Refused(page[a].shows)
      <3>1. /\ ~Form!Refused(page[b].shows)
            /\ page' = [page EXCEPT ![b] = [page[b] EXCEPT !.at = "saved"]] \/ page' = page
        BY <2>2, <2>7 DEF Form!Save, Form!Put
      <3> QED  BY <2>1, <2>2, <3>1
    <2> QED  BY <2>2, <2>3, <2>4, <2>6, <2>7, <2>8 DEF Form!Next, Form!UpdateSetting, Form!vars
  <1>2. CASE page[a].typed[k] # None /\ k \notin page[a].overtaken
    <2> DEFINE p == page[a]
    <2>1. Right(p) /\ RowsRight
      BY DEF FormInv
    <2>2. p.shows[k] = p.typed[k] /\ p.typed[k] \in Words
      BY <1>2, <2>1 DEF Right, Page
    <2>3. /\ stored' = Form!Written(p.shows)
          /\ meant' = [l \in Section |-> IF p.shows[l] \in {Mask, None} THEN meant[l]
                                         ELSE IF p.shows[l] \in Words THEN p.shows[l] ELSE None]
      BY <1>1 DEF Form!Save
    <2> HIDE DEF p
    <2>4. p.shows \in [Section -> Contents] /\ \A l \in Section : p.shows[l] \in Answer(l) \cup Words
      BY <2>1 DEF Right, Page, Answer
    <2>5. Form!Opened(stored'[k]) = p.shows[k]
      BY <2>1, <2>2, <2>3, <2>4, WrittenIs
    <2> QED  BY <2>2, <2>5 DEF p
  <1> QED  BY <1>2

\* A setting is what the last save showed of it, and a save writes what was typed, with
\* any number of browsers, for any keys, secret or not, and any words (Settings.tsx, api/settings.py).
THEOREM FormHolds == Form!Spec => []FormKept /\ TypedIsSaved
  <1>1. Form!Init => FormInv
    BY FormInit, FormAssumption
  <1>2. FormInv /\ [Form!Next]_(Form!vars) => FormInv'
    BY FormStep, FormAssumption
  <1>3. FormInv => FormKept
    <2> SUFFICES ASSUME FormInv PROVE Form!FormKept
      BY DEF FormKept
    <2>1. ASSUME NEW a \in Pages
          PROVE  /\ page[a].at \in {"closed", "loading", "ready", "saved"}
                 /\ page[a].dirty \in BOOLEAN /\ page[a].overtaken \subseteq Section
                 /\ page[a].typed \in [Section -> Words \cup {None}]
                 /\ \A k \in Section :
                       page[a].shows[k] \in {None, Default, Mask} \cup (IF k \in Secrets THEN {page[a].typed[k]} ELSE Words)
      <3>1. Right(page[a]) /\ page[a] \in Page
        BY DEF FormInv, Right
      <3> QED  BY <3>1 DEF Right, Page, Answer
    <2>2. Form!TypeOK
      BY <2>1 DEF Form!TypeOK, FormInv, RowsRight, RowRight, Value, Sealings
    <2>3. Form!MeantIsStored
      BY DEF Form!MeantIsStored, FormInv, RowsRight, RowRight
    <2> QED  BY <2>2, <2>3 DEF Form!FormKept
  <1>4. FormInv /\ [Form!Next]_(Form!vars) =>
          [\A a \in Pages : page[a].at = "ready" /\ page'[a].at = "saved" =>
              \A k \in Section : page[a].typed[k] = None \/ k \in page[a].overtaken
                                 \/ Form!Opened(stored'[k]) = page[a].typed[k]]_(Form!vars)
    BY SaveWrites, FormAssumption
  <1>5. TypedIsSaved <=>
          [][\A a \in Pages : page[a].at = "ready" /\ page'[a].at = "saved" =>
              \A k \in Section : page[a].typed[k] = None \/ k \in page[a].overtaken
                                 \/ Form!Opened(stored'[k]) = page[a].typed[k]]_(Form!vars)
    BY DEF TypedIsSaved, Form!TypedIsSaved
  <1> QED  BY <1>1, <1>2, <1>3, <1>4, <1>5, PTL DEF Form!Spec

\* The half of it about steps: a save writes what was typed, unless it was typed while a
\* silent reload was on its way or a failed load has left it in the form (Settings.tsx,
\* load, silentLoad and the Save buttons).
THEOREM TypedHolds == Form!Spec => TypedIsSaved
  BY FormHolds, PTL

-----------------------------------------------------------------------------
(* The administration of devices (Inventory) *)

Fields == {"path", "collector", "credential", "parent", "peer", "passive"}

\* The names of a unit in a hierarchy: PathOf, of any hierarchy.
PathIn(units, u) ==
    LET At[l \in 1 .. Depth] ==
            IF Depth - l + 1 >= Level[u] THEN u ELSE units[At[l - 1]].above
    IN  [l \in 1 .. Level[u] |-> units[At[Depth - l + 1]].name]

\* A request on its way: it was asked something of the kind its operation takes.
Ongoing(x) ==
    /\ x = [pc |-> x.pc, op |-> x.op, on |-> x.on, ask |-> x.ask, got |-> x.got,
            moved |-> x.moved, refiled |-> x.refiled]
    /\ x.pc \in {"look", "link", "exists", "write"} /\ x.refiled \in BOOLEAN
    /\ x.op \in {"createDevice", "importDevices"} => x.ask \in Stock!Row
    /\ x.op = "createDevice" /\ x.pc = "link" => x.on \in Ids
    /\ x.op = "importDevices" /\ x.pc = "write" =>
           x.got \in [collector : Collecting, credential : Credentials \cup {None}]
    /\ x.op = "updateDevice" =>
           /\ x.on \in Ids /\ x.ask \in Asks
           /\ x.pc = "write" => x.got \in Stock!Row
    /\ x.op = "createUnit" => x.ask \in [name : Names, above : Units \cup {None}]
    /\ x.op = "renameUnit" => x.on \in Units /\ x.ask.name \in Names
    /\ x.op = "updateCredential" =>
           /\ x.ask \in [key : Keys \cup {Mask}]
           /\ x.pc = "write" => x.got \in Keys
    /\ x.op = "deleteCollector" /\ x.pc = "write" => x.on # Local

\* What it has read is still so, unless it was told otherwise.
Current(x, rows, units) ==
    /\ x.op = "updateDevice" /\ x.pc = "write" /\ x.on \in DOMAIN rows \ x.moved => x.got = rows[x.on]
    /\ x.op = "renameUnit" /\ x.pc = "write" /\ ~x.refiled =>
           x.on \in DOMAIN units /\ x.got = PathIn(units, x.on)
    /\ x.op = "deleteCredential" /\ x.pc \in {"exists", "write"} =>
           \A d \in DOMAIN rows : rows[d].credential = x.on => d \in x.moved

Rests(x) == x.pc \in {"idle", "done"}

\* Every row has its type, and every reference of one names a row that there is.
Sound(rows) ==
    /\ DOMAIN rows \subseteq Ids /\ rows \in [DOMAIN rows -> Stock!Row]
    /\ \A d \in DOMAIN rows : Stock!Refers(rows[d], DOMAIN rows)

\* Every credential has a key.
Keyed(keys) == DOMAIN keys \subseteq Credentials /\ \A c \in DOMAIN keys : keys[c] \in Keys

StockInv ==
    /\ Sound(row) /\ Local \in collector /\ collector \subseteq Collecting
    /\ Keyed(credential)
    /\ request = [q \in Requests |-> request[q]]
    /\ \A q \in Requests : Rests(request[q]) \/ (Ongoing(request[q]) /\ Current(request[q], row, unit))

LEMMA PathIs == \A u : Stock!PathOf(u) = PathIn(unit, u)
  BY DEF Stock!PathOf, PathIn

LEMMA AtIs ==
    ASSUME NEW q, Ongoing(request[q]), NEW pc
    PROVE  LET x == Stock!At(q, pc) IN
           /\ x.pc = pc /\ x.op = request[q].op /\ x.on = request[q].on /\ x.ask = request[q].ask
           /\ x.got = request[q].got /\ x.moved = request[q].moved /\ x.refiled = request[q].refiled
           /\ x = [pc |-> x.pc, op |-> x.op, on |-> x.on, ask |-> x.ask, got |-> x.got,
                   moved |-> x.moved, refiled |-> x.refiled]
  <1> DEFINE r == request[q]
  <1>1. r = [pc |-> r.pc, op |-> r.op, on |-> r.on, ask |-> r.ask, got |-> r.got,
             moved |-> r.moved, refiled |-> r.refiled]
    BY DEF Ongoing
  <1> HIDE DEF r
  <1>2. Stock!At(q, pc) = [r EXCEPT !.pc = pc]
    BY DEF Stock!At, r
  <1>3. [r EXCEPT !.pc = pc] = [pc |-> pc, op |-> r.op, on |-> r.on, ask |-> r.ask, got |-> r.got,
                                moved |-> r.moved, refiled |-> r.refiled]
    BY <1>1
  <1> QED  BY <1>2, <1>3 DEF r

\* The same with something that has been read.
LEMMA GotIs ==
    ASSUME NEW q, Ongoing(request[q]), NEW pc, NEW got
    PROVE  LET x == [Stock!At(q, pc) EXCEPT !.got = got] IN
           /\ x.pc = pc /\ x.op = request[q].op /\ x.on = request[q].on /\ x.ask = request[q].ask
           /\ x.got = got /\ x.moved = request[q].moved /\ x.refiled = request[q].refiled
           /\ x = [pc |-> x.pc, op |-> x.op, on |-> x.on, ask |-> x.ask, got |-> x.got,
                   moved |-> x.moved, refiled |-> x.refiled]
  <1> DEFINE r == Stock!At(q, pc)
  <1>1. /\ r = [pc |-> r.pc, op |-> r.op, on |-> r.on, ask |-> r.ask, got |-> r.got,
                moved |-> r.moved, refiled |-> r.refiled]
        /\ r.pc = pc /\ r.op = request[q].op /\ r.on = request[q].on /\ r.ask = request[q].ask
        /\ r.moved = request[q].moved /\ r.refiled = request[q].refiled
    BY AtIs
  <1> HIDE DEF r
  <1>2. [r EXCEPT !.got = got] = [pc |-> r.pc, op |-> r.op, on |-> r.on, ask |-> r.ask, got |-> got,
                                  moved |-> r.moved, refiled |-> r.refiled]
    BY <1>1
  <1> QED  BY <1>1, <1>2 DEF r

LEMMA RacingIs ==
    ASSUME NEW p, Ongoing(request[p]), Current(request[p], row, unit)
    PROVE  LET x == Stock!Racing(p) IN
           Ongoing(x) /\ Current(x, row', unit') /\ x.pc = request[p].pc
  <1> DEFINE r == request[p]
             x == Stock!Racing(p)
  <1>1. r = [pc |-> r.pc, op |-> r.op, on |-> r.on, ask |-> r.ask, got |-> r.got,
             moved |-> r.moved, refiled |-> r.refiled]
    BY DEF Ongoing
  <1> HIDE DEF r
  <1> DEFINE moved == r.moved \cup Stock!Changed
             refiled == r.refiled \/ unit' # unit
  <1>2. x = [r EXCEPT !.moved = moved, !.refiled = refiled]
    BY DEF Stock!Racing, r
  <1> HIDE DEF moved, refiled
  <1> DEFINE s == [r EXCEPT !.moved = moved]
  <1>11. s = [pc |-> r.pc, op |-> r.op, on |-> r.on, ask |-> r.ask, got |-> r.got,
              moved |-> moved, refiled |-> r.refiled]
    BY <1>1
  <1>12. [r EXCEPT !.moved = moved, !.refiled = refiled] = [s EXCEPT !.refiled = refiled]
    OBVIOUS
  <1> HIDE DEF s
  <1>13. [s EXCEPT !.refiled = refiled]
            = [pc |-> s.pc, op |-> s.op, on |-> s.on, ask |-> s.ask, got |-> s.got,
               moved |-> s.moved, refiled |-> refiled]
    BY <1>11
  <1>3. [r EXCEPT !.moved = moved, !.refiled = refiled]
            = [pc |-> r.pc, op |-> r.op, on |-> r.on, ask |-> r.ask, got |-> r.got,
               moved |-> moved, refiled |-> refiled]
    BY <1>11, <1>12, <1>13
  <1> HIDE DEF x
  <1>4. /\ x.pc = r.pc /\ x.op = r.op /\ x.on = r.on /\ x.ask = r.ask /\ x.got = r.got
        /\ x.moved = moved /\ x.refiled = refiled
        /\ x = [pc |-> x.pc, op |-> x.op, on |-> x.on, ask |-> x.ask, got |-> x.got,
                moved |-> x.moved, refiled |-> x.refiled]
    BY <1>2, <1>3
  <1>5. Ongoing(x)
    BY <1>4 DEF Ongoing, r, refiled
  <1>6. \A d \in DOMAIN row' : d \notin Stock!Changed => d \in DOMAIN row /\ row'[d] = row[d]
    BY DEF Stock!Changed
  <1>7. ASSUME x.op = "updateDevice", x.pc = "write", x.on \in DOMAIN row' \ x.moved
        PROVE  x.got = row'[x.on]
    BY <1>4, <1>6, <1>7 DEF Current, r, moved
  <1>8. ASSUME x.op = "renameUnit", x.pc = "write", ~x.refiled
        PROVE  x.on \in DOMAIN unit' /\ x.got = PathIn(unit', x.on)
    BY <1>4, <1>8 DEF Current, r, refiled
  <1>9. ASSUME x.op = "deleteCredential", x.pc \in {"exists", "write"},
               NEW d \in DOMAIN row', row'[d].credential = x.on
        PROVE  d \in x.moved
    BY <1>4, <1>6, <1>9 DEF Current, r, moved
  <1>10. Current(x, row', unit')
    BY <1>7, <1>8, <1>9 DEF Current
  <1> QED  BY <1>4, <1>5, <1>10 DEF r, x

\* A request takes a step.
LEMMA GoesOn ==
    ASSUME StockInv, NEW q \in Requests, NEW x, Stock!Goto(q, x),
           Rests(x) \/ (Ongoing(x) /\ Current(x, row', unit')),
           Sound(row)', Local \in collector', collector' \subseteq Collecting,
           Keyed(credential')
    PROVE  StockInv'
  <1>1. request' = [p \in Requests |-> IF p = q THEN x ELSE IF Stock!Active(p) THEN Stock!Racing(p) ELSE request[p]]
    BY DEF Stock!Goto
  <1>2. ASSUME NEW p \in Requests PROVE Rests(request'[p]) \/ (Ongoing(request'[p]) /\ Current(request'[p], row', unit'))
    <2>1. CASE p = q
      BY <1>1, <2>1
    <2>2. CASE p # q /\ Rests(request[p])
      BY <1>1, <2>2 DEF Stock!Active, Rests
    <2>3. CASE p # q /\ ~Rests(request[p])
      <3>1. Ongoing(request[p]) /\ Current(request[p], row, unit) /\ Stock!Active(p)
        BY <2>3 DEF StockInv, Stock!Active, Rests
      <3>2. request'[p] = Stock!Racing(p)
        BY <1>1, <2>3, <3>1
      <3> QED  BY <3>1, <3>2, RacingIs
    <2> QED  BY <2>1, <2>2, <2>3
  <1>3. request' = [p \in Requests |-> request'[p]]
    BY <1>1
  <1> QED  BY <1>2, <1>3 DEF StockInv

\* A step that only reads.
LEMMA Reads ==
    ASSUME StockInv, NEW q \in Requests, NEW x, Stock!Goto(q, x), UNCHANGED Stock!tables,
           Rests(x) \/ (Ongoing(x) /\ Current(x, row, unit))
    PROVE  StockInv'
  <1>1. row' = row /\ unit' = unit /\ credential' = credential /\ collector' = collector
    BY DEF Stock!tables
  <1>2. Sound(row)'
    BY <1>1 DEF StockInv, Sound, Stock!Refers
  <1>3. Rests(x) \/ (Ongoing(x) /\ Current(x, row', unit'))
    BY <1>1
  <1> QED  BY <1>1, <1>2, <1>3, GoesOn DEF StockInv

LEMMA Answered == \A q, reply : Rests(Stock!Answer(q, reply)) /\ Stock!Answer(q, reply).reply = reply
  BY DEF Stock!Answer, Rests

\* The same with another row to work on.
LEMMA OnIs ==
    ASSUME NEW q, Ongoing(request[q]), NEW pc, NEW on
    PROVE  LET x == [Stock!At(q, pc) EXCEPT !.on = on] IN
           /\ x.pc = pc /\ x.op = request[q].op /\ x.on = on /\ x.ask = request[q].ask
           /\ x.got = request[q].got /\ x.moved = request[q].moved /\ x.refiled = request[q].refiled
           /\ x = [pc |-> x.pc, op |-> x.op, on |-> x.on, ask |-> x.ask, got |-> x.got,
                   moved |-> x.moved, refiled |-> x.refiled]
  <1> DEFINE r == Stock!At(q, pc)
  <1>1. /\ r = [pc |-> r.pc, op |-> r.op, on |-> r.on, ask |-> r.ask, got |-> r.got,
                moved |-> r.moved, refiled |-> r.refiled]
        /\ r.pc = pc /\ r.op = request[q].op /\ r.got = request[q].got /\ r.ask = request[q].ask
        /\ r.moved = request[q].moved /\ r.refiled = request[q].refiled
    BY AtIs
  <1> HIDE DEF r
  <1>2. [r EXCEPT !.on = on] = [pc |-> r.pc, op |-> r.op, on |-> on, ask |-> r.ask, got |-> r.got,
                                  moved |-> r.moved, refiled |-> r.refiled]
    BY <1>1
  <1> QED  BY <1>1, <1>2 DEF r

\* A row that refers to rows there are is put into the table.
LEMMA PutSound ==
    ASSUME NEW rows, Sound(rows), NEW id \in Ids, NEW r \in Stock!Row,
           Stock!Refers(r, DOMAIN rows \cup {id})
    PROVE  Sound(Stock!Put(rows, id, r)) /\ DOMAIN Stock!Put(rows, id, r) = DOMAIN rows \cup {id}
  <1> DEFINE new == Stock!Put(rows, id, r)
  <1>1. new = [i \in DOMAIN rows \cup {id} |-> IF i = id THEN r ELSE rows[i]]
    BY DEF Stock!Put
  <1>2. DOMAIN new = DOMAIN rows \cup {id} /\ \A i \in DOMAIN new : new[i] = r \/ (i \in DOMAIN rows /\ new[i] = rows[i])
    BY <1>1
  <1>3. new \in [DOMAIN new -> Stock!Row] /\ DOMAIN new \subseteq Ids
    BY <1>1, <1>2 DEF Sound
  <1>4. \A i \in DOMAIN new : Stock!Refers(new[i], DOMAIN new)
    BY <1>2 DEF Sound, Stock!Refers
  <1> QED  BY <1>2, <1>3, <1>4 DEF Sound

\* A partner is linked.
LEMMA LinkSound ==
    ASSUME NEW rows, Sound(rows), NEW p \in DOMAIN rows, NEW d \in DOMAIN rows
    PROVE  Sound([rows EXCEPT ![p].peer = d])
  <1> DEFINE r == rows[p]
             n == [r EXCEPT !.peer = d]
             new == [rows EXCEPT ![p] = n]
  <1>1. r \in Stock!Row /\ d \in Ids
    BY DEF Sound
  <1> HIDE DEF r
  <1>2. /\ n \in Stock!Row /\ n.parent = r.parent /\ n.peer = d
        /\ n.collector = r.collector /\ n.credential = r.credential
    BY <1>1 DEF Stock!Row
  <1>3. Stock!Refers(n, DOMAIN rows)
    BY <1>2 DEF Sound, Stock!Refers, r
  <1> HIDE DEF n
  <1>4. DOMAIN new = DOMAIN rows /\ \A i \in DOMAIN rows : new[i] = IF i = p THEN n ELSE rows[i]
    BY DEF Sound
  <1>5. Sound(new)
    BY <1>2, <1>3, <1>4 DEF Sound
  <1>6. new = [rows EXCEPT ![p].peer = d]
    BY DEF n, r
  <1> QED  BY <1>5, <1>6

\* Asked for columns of a row, a row is still one.
LEMMA Merged ==
    ASSUME NEW r \in Stock!Row, NEW a \in Asks
    PROVE  Stock!Merge(r, a) \in Stock!Row
  <1> DEFINE m == Stock!Merge(r, a)
  <1>1. DOMAIN r = Fields
    BY DEF Stock!Row, Fields
  <1>2. m = [f \in Fields |-> IF f \in DOMAIN a THEN a[f] ELSE r[f]]
    BY <1>1 DEF Stock!Merge
  <1>3. PICK s \in Stock!Row : DOMAIN a \subseteq DOMAIN s /\ \A f \in DOMAIN a : a[f] = s[f]
    BY StockAssumption DEF Stock!InputAssumption
  <1>4. \A f \in Fields : m[f] = r[f] \/ m[f] = s[f]
    BY <1>2, <1>3
  <1>5. m = [path |-> m.path, collector |-> m.collector, credential |-> m.credential,
             parent |-> m.parent, peer |-> m.peer, passive |-> m.passive]
    BY <1>2 DEF Fields
  <1> HIDE DEF m
  <1>6. /\ m.path \in Stock!Paths /\ m.collector \in Collecting /\ m.credential \in Credentials \cup {None}
        /\ m.parent \in Ids \cup {None} /\ m.peer \in Ids \cup {None} /\ m.passive \in BOOLEAN
    BY <1>3, <1>4 DEF Stock!Row, Fields
  <1>7. m \in Stock!Row
    BY <1>5, <1>6 DEF Stock!Row
  <1> QED  BY <1>7 DEF m

\* What a request asks for when it comes is of the kind its operation takes.
LEMMA ArriveKeeps ==
    ASSUME StockInv, NEW q \in Requests, Stock!Arrive(q)
    PROVE  StockInv'
  <1>1. PICK op, on, ask :
           /\ op = "updateDevice" => on \in Ids /\ ask \in Asks
           /\ op \in {"createDevice", "importDevices"} => ask \in Rows
           /\ op = "createUnit" => ask \in [name : Names, above : Units \cup {None}]
           /\ op = "renameUnit" => on \in Units /\ ask \in [name : Names]
           /\ op = "updateCredential" => ask \in [key : Keys \cup {Mask}]
           /\ UNCHANGED Stock!tables
           /\ Stock!Goto(q, [pc |-> "look", op |-> op, on |-> on, ask |-> ask, got |-> <<>>,
                             moved |-> {}, refiled |-> FALSE])
    BY DEF Stock!Arrive
  <1> DEFINE x == [pc |-> "look", op |-> op, on |-> on, ask |-> ask, got |-> <<>>,
                   moved |-> {}, refiled |-> FALSE]
  <1>2. Rows \subseteq Stock!Row
    BY StockAssumption DEF Stock!InputAssumption
  <1>3. Ongoing(x)
    BY <1>1, <1>2 DEF Ongoing
  <1>4. Current(x, row, unit)
    BY DEF Current
  <1>5. Stock!Goto(q, x)
    BY <1>1
  <1> HIDE DEF x
  <1> QED  BY <1>1, <1>3, <1>4, <1>5, Reads

\* A row is inserted; the request goes on only to link its partner.
LEMMA InsertKeeps ==
    ASSUME StockInv, NEW q \in Requests, ~Rests(request[q]), NEW r \in Stock!Row, NEW next,
           next = "done" \/ (next = "link" /\ request[q].op = "createDevice"),
           Stock!InsertDevice(q, r, next)
    PROVE  StockInv'
  <1>1. Ongoing(request[q])
    BY DEF StockInv
  <1>2. CASE ~Stock!Refers(r, DOMAIN row)
    <2>1. Stock!Goto(q, Stock!Answer(q, "error")) /\ UNCHANGED Stock!tables
      BY <1>2 DEF Stock!InsertDevice, Stock!End
    <2> QED  BY <2>1, Reads, Answered
  <1>3. CASE Stock!Refers(r, DOMAIN row)
    <2>1. PICK d \in Ids \ used :
             /\ row' = Stock!Put(row, d, r) /\ UNCHANGED <<unit, credential, collector>>
             /\ Stock!Goto(q, IF next = "done" THEN Stock!Answer(q, "ok")
                              ELSE [Stock!At(q, next) EXCEPT !.on = d])
      BY <1>3 DEF Stock!InsertDevice
    <2>2. Stock!Refers(r, DOMAIN row \cup {d})
      BY <1>3 DEF Stock!Refers
    <2>3. Sound(Stock!Put(row, d, r))
      BY <2>2, PutSound DEF StockInv
    <2>4. Sound(row)'
      BY <2>1, <2>3 DEF Sound, Stock!Refers
    <2>5. CASE next = "done"
      BY <2>1, <2>4, <2>5, GoesOn, Answered DEF StockInv
    <2>6. CASE next = "link" /\ request[q].op = "createDevice"
      <3> DEFINE x == [Stock!At(q, "link") EXCEPT !.on = d]
      <3>1. /\ x.pc = "link" /\ x.op = "createDevice" /\ x.on = d /\ x.ask = request[q].ask
            /\ x.refiled = request[q].refiled
            /\ x = [pc |-> x.pc, op |-> x.op, on |-> x.on, ask |-> x.ask, got |-> x.got,
                    moved |-> x.moved, refiled |-> x.refiled]
        BY <1>1, <2>6, OnIs
      <3>2. Stock!Goto(q, x)
        BY <2>1, <2>6
      <3> HIDE DEF x
      <3>3. Ongoing(x)
        BY <1>1, <2>6, <3>1 DEF Ongoing
      <3>4. Current(x, row', unit')
        BY <3>1 DEF Current
      <3> QED  BY <2>1, <2>4, <3>2, <3>3, <3>4, GoesOn DEF StockInv
    <2> QED  BY <2>5, <2>6
  <1> QED  BY <1>2, <1>3

LEMMA CreateDeviceKeeps ==
    ASSUME StockInv, NEW q \in Requests, Stock!CreateDevice(q)
    PROVE  StockInv'
  <1>1. ~Rests(request[q]) /\ request[q].op = "createDevice"
    BY DEF Stock!CreateDevice, Stock!Step, Rests
  <1>2. request[q].ask \in Stock!Row
    BY <1>1 DEF StockInv, Ongoing
  <1> DEFINE next == IF request[q].ask.peer = None THEN "done" ELSE "link"
  <1>3. Stock!InsertDevice(q, request[q].ask, next) /\ next \in {"done", "link"}
    BY DEF Stock!CreateDevice
  <1> HIDE DEF next
  <1> QED  BY <1>1, <1>2, <1>3, InsertKeeps

LEMMA ImportDeviceKeeps ==
    ASSUME StockInv, NEW q \in Requests, Stock!ImportDevice(q)
    PROVE  StockInv'
  <1> DEFINE a == request[q].ask
             g == request[q].got
             m == Stock!Merge(a, g)
             r == [m EXCEPT !.parent = None, !.peer = None]
  <1>1. /\ ~Rests(request[q])
        /\ Stock!InsertDevice(q, r, "done")
    BY DEF Stock!ImportDevice, Stock!Step, Rests
  <1>2. a \in Stock!Row /\ g \in [collector : Collecting, credential : Credentials \cup {None}]
    BY <1>1 DEF StockInv, Ongoing, Stock!ImportDevice, Stock!Step
  <1> HIDE DEF a, g
  <1>3. m = [f \in Fields |-> IF f \in {"collector", "credential"} THEN g[f] ELSE a[f]]
    <2>1. DOMAIN a = Fields /\ DOMAIN g = {"collector", "credential"}
      BY <1>2 DEF Stock!Row, Fields
    <2> QED  BY <2>1 DEF Stock!Merge
  <1>4. m = [path |-> a.path, collector |-> g.collector, credential |-> g.credential,
             parent |-> a.parent, peer |-> a.peer, passive |-> a.passive]
    BY <1>3 DEF Fields
  <1> HIDE DEF m
  <1>5. r \in Stock!Row
    BY <1>2, <1>4 DEF Stock!Row
  <1> HIDE DEF r
  <1> QED  BY <1>1, <1>5, InsertKeeps

LEMMA LinkPartnerKeeps ==
    ASSUME StockInv, NEW q \in Requests, Stock!LinkPartner(q)
    PROVE  StockInv'
  <1> DEFINE d == request[q].on
             p == request[q].ask.peer
  <1>1. CASE p \in DOMAIN row /\ d \in DOMAIN row
    <2>1. /\ row' = [row EXCEPT ![p].peer = d] /\ UNCHANGED <<unit, credential, collector>>
          /\ Stock!Goto(q, Stock!Answer(q, "ok"))
      BY <1>1 DEF Stock!LinkPartner
    <2>2. Sound([row EXCEPT ![p].peer = d])
      BY <1>1, LinkSound DEF StockInv
    <2>3. Sound(row)'
      BY <2>1, <2>2 DEF Sound, Stock!Refers
    <2> QED  BY <2>1, <2>3, GoesOn, Answered DEF StockInv
  <1>2. CASE ~(p \in DOMAIN row /\ d \in DOMAIN row)
    <2>1. PICK reply : Stock!Goto(q, Stock!Answer(q, reply)) /\ UNCHANGED Stock!tables
      BY <1>2 DEF Stock!LinkPartner, Stock!End
    <2> QED  BY <2>1, Reads, Answered
  <1> QED  BY <1>1, <1>2

LEMMA LookAtDeviceKeeps ==
    ASSUME StockInv, NEW q \in Requests, Stock!LookAtDevice(q)
    PROVE  StockInv'
  <1>1. /\ Ongoing(request[q]) /\ UNCHANGED Stock!tables
        /\ request[q].op \in {"updateDevice", "deleteDevice"}
    BY DEF Stock!LookAtDevice, Stock!Step, StockInv, Rests
  <1>2. CASE request[q].on \in DOMAIN row
    <2> DEFINE x == [Stock!At(q, "write") EXCEPT !.got = row[request[q].on]]
    <2>1. Stock!Goto(q, x)
      BY <1>2 DEF Stock!LookAtDevice
    <2>2. /\ x.pc = "write" /\ x.op = request[q].op /\ x.on = request[q].on /\ x.ask = request[q].ask
          /\ x.got = row[request[q].on] /\ x.refiled = request[q].refiled
          /\ x = [pc |-> x.pc, op |-> x.op, on |-> x.on, ask |-> x.ask, got |-> x.got,
                  moved |-> x.moved, refiled |-> x.refiled]
      BY <1>1, GotIs
    <2> HIDE DEF x
    <2>3. Ongoing(x)
      BY <1>1, <1>2, <2>2 DEF Ongoing, StockInv, Sound
    <2>4. Current(x, row, unit)
      BY <1>1, <2>2 DEF Current
    <2> QED  BY <1>1, <2>1, <2>3, <2>4, Reads
  <1>3. CASE request[q].on \notin DOMAIN row
    <2>1. Stock!Goto(q, Stock!Answer(q, "missing"))
      BY <1>3 DEF Stock!LookAtDevice
    <2> QED  BY <1>1, <2>1, Reads, Answered
  <1> QED  BY <1>2, <1>3

\* What UpdateDevice writes, when the database takes it.
LEMMA UpdateIs ==
    ASSUME StockInv, NEW q \in Requests, Stock!UpdateDevice(q),
           request'[q] # Stock!Answer(q, "error")
    PROVE  LET d == request[q].on
               r == Stock!Merge(request[q].got, request[q].ask)
               written == IF d \in DOMAIN row THEN Stock!Put(row, d, r) ELSE row
           IN  /\ row' = Stock!LinkBack(written, d, r.peer) /\ UNCHANGED <<unit, credential, collector>>
               /\ Stock!Goto(q, Stock!Answer(q, "ok"))
               /\ d \in DOMAIN row => Stock!Refers(r, DOMAIN row)
               /\ row' # written => d \in DOMAIN row
               /\ d \in Ids /\ r \in Stock!Row
               /\ request[q].pc = "write" /\ request[q].op = "updateDevice"
  <1>1. ~Stock!Goto(q, Stock!Answer(q, "error"))
    BY DEF Stock!Goto
  <1>2. request[q].pc = "write" /\ request[q].op = "updateDevice" /\ Ongoing(request[q])
    BY DEF Stock!UpdateDevice, Stock!Step, StockInv, Rests
  <1>3. /\ request[q].on \in Ids /\ request[q].got \in Stock!Row /\ request[q].ask \in Asks
    BY <1>2 DEF Ongoing
  <1>4. Stock!Merge(request[q].got, request[q].ask) \in Stock!Row
    BY <1>3, Merged
  <1> QED  BY <1>1, <1>2, <1>3, <1>4 DEF Stock!UpdateDevice, Stock!End

LEMMA UpdateDeviceKeeps ==
    ASSUME StockInv, NEW q \in Requests, Stock!UpdateDevice(q)
    PROVE  StockInv'
  <1>1. CASE request'[q] = Stock!Answer(q, "error")
    <2>1. Stock!Answer(q, "ok") # Stock!Answer(q, "error")
      BY DEF Stock!Answer
    <2>2. ~Stock!Goto(q, Stock!Answer(q, "ok"))
      BY <1>1, <2>1 DEF Stock!Goto
    <2>3. Stock!Goto(q, Stock!Answer(q, "error")) /\ UNCHANGED Stock!tables
      BY <2>2 DEF Stock!UpdateDevice, Stock!End
    <2> QED  BY <2>3, Reads, Answered
  <1>2. CASE request'[q] # Stock!Answer(q, "error")
    <2> DEFINE d == request[q].on
               r == Stock!Merge(request[q].got, request[q].ask)
               written == IF d \in DOMAIN row THEN Stock!Put(row, d, r) ELSE row
    <2>1. /\ row' = Stock!LinkBack(written, d, r.peer) /\ UNCHANGED <<unit, credential, collector>>
          /\ Stock!Goto(q, Stock!Answer(q, "ok"))
          /\ d \in DOMAIN row => Stock!Refers(r, DOMAIN row)
          /\ row' # written => d \in DOMAIN row
          /\ d \in Ids /\ r \in Stock!Row
      BY <1>2, UpdateIs
    <2> HIDE DEF r, d
    <2>2. Sound(written) /\ (d \in DOMAIN row => d \in DOMAIN written)
      <3>1. CASE d \in DOMAIN row
        <4>1. Stock!Refers(r, DOMAIN row \cup {d})
          BY <2>1, <3>1 DEF Stock!Refers
        <4>2. /\ Sound(Stock!Put(row, d, r))
              /\ DOMAIN Stock!Put(row, d, r) = DOMAIN row \cup {d}
          BY <2>1, <4>1, PutSound DEF StockInv
        <4> QED  BY <3>1, <4>2
      <3>2. CASE d \notin DOMAIN row
        BY <3>2 DEF StockInv
      <3> QED  BY <3>1, <3>2
    <2> HIDE DEF written
    <2>3. Sound(Stock!LinkBack(written, d, r.peer))
      <3>1. CASE row' = written
        BY <2>1, <2>2, <3>1
      <3>2. CASE row' # written
        <4> DEFINE p == r.peer
        <4>1. p \in DOMAIN written /\ row' = [written EXCEPT ![p].peer = d] /\ d \in DOMAIN written
          BY <2>1, <2>2, <3>2 DEF Stock!LinkBack
        <4> HIDE DEF p
        <4>2. Sound(row')
          BY <2>2, <4>1, LinkSound
        <4> QED  BY <2>1, <4>2
      <3> QED  BY <3>1, <3>2
    <2>4. Sound(row)'
      BY <2>1, <2>3 DEF Sound, Stock!Refers
    <2> QED  BY <2>1, <2>4, GoesOn, Answered DEF StockInv
  <1> QED  BY <1>1, <1>2

\* A device is deleted: the others forget it.
LEMMA DeleteDeviceKeeps ==
    ASSUME StockInv, NEW q \in Requests, Stock!DeleteDevice(q)
    PROVE  StockInv'
  <1> DEFINE d == request[q].on
             without(r) == [r EXCEPT !.parent = Stock!Unless(@, {d}), !.peer = Stock!Unless(@, {d})]
  <1>1. /\ row' = Stock!Forget(row, d) /\ UNCHANGED <<unit, credential, collector>>
        /\ Stock!Goto(q, Stock!Answer(q, "ok"))
    BY DEF Stock!DeleteDevice
  <1> HIDE DEF d
  <1>2. ASSUME NEW r \in Stock!Row
        PROVE  /\ without(r) \in Stock!Row
               /\ without(r).parent = Stock!Unless(r.parent, {d})
               /\ without(r).peer = Stock!Unless(r.peer, {d})
               /\ without(r).collector = r.collector /\ without(r).credential = r.credential
    <2> DEFINE up == Stock!Unless(r.parent, {d})
               to == Stock!Unless(r.peer, {d})
    <2>1. up \in Ids \cup {None} /\ to \in Ids \cup {None}
      BY DEF Stock!Unless, Stock!Row
    <2>2. without(r) = [r EXCEPT !.parent = up, !.peer = to]
      OBVIOUS
    <2> HIDE DEF up, to
    <2> DEFINE s == [r EXCEPT !.parent = up]
    <2>21. r = [path |-> r.path, collector |-> r.collector, credential |-> r.credential,
                parent |-> r.parent, peer |-> r.peer, passive |-> r.passive]
      BY DEF Stock!Row
    <2>22. s = [path |-> r.path, collector |-> r.collector, credential |-> r.credential,
                parent |-> up, peer |-> r.peer, passive |-> r.passive]
      BY <2>21
    <2>23. [r EXCEPT !.parent = up, !.peer = to] = [s EXCEPT !.peer = to]
      OBVIOUS
    <2> HIDE DEF s
    <2>24. [s EXCEPT !.peer = to] =
              [path |-> s.path, collector |-> s.collector, credential |-> s.credential,
               parent |-> s.parent, peer |-> to, passive |-> s.passive]
      BY <2>22
    <2>3. [r EXCEPT !.parent = up, !.peer = to] =
              [path |-> r.path, collector |-> r.collector, credential |-> r.credential,
               parent |-> up, peer |-> to, passive |-> r.passive]
      BY <2>22, <2>23, <2>24
    <2>4. without(r) = [path |-> r.path, collector |-> r.collector, credential |-> r.credential,
                        parent |-> up, peer |-> to, passive |-> r.passive]
      BY <2>2, <2>3
    <2> HIDE DEF without
    <2> QED  BY <2>1, <2>4 DEF Stock!Row, up, to
  <1>3. row' = [i \in DOMAIN row \ {d} |-> without(row[i])]
    BY <1>1 DEF Stock!Forget
  <1> HIDE DEF without
  <1>4. DOMAIN row' = DOMAIN row \ {d} /\ \A i \in DOMAIN row' : row'[i] = without(row[i])
    BY <1>3
  <1>5. \A i \in DOMAIN row : row[i] \in Stock!Row /\ Stock!Refers(row[i], DOMAIN row)
    BY DEF StockInv, Sound
  <1>6. /\ row' \in [DOMAIN row' -> Stock!Row] /\ DOMAIN row' \subseteq Ids
    BY <1>2, <1>3, <1>4, <1>5 DEF StockInv, Sound
  <1>7. ASSUME NEW i \in DOMAIN row' PROVE Stock!Refers(row[i], DOMAIN row)' 
    BY <1>1, <1>2, <1>4, <1>5, <1>7 DEF Stock!Refers, Stock!Unless
  <1>8. Sound(row)'
    BY <1>6, <1>7 DEF Sound
  <1> QED  BY <1>1, <1>8, GoesOn, Answered DEF StockInv

LEMMA LookUpNamesKeeps ==
    ASSUME StockInv, NEW q \in Requests, Stock!LookUpNames(q)
    PROVE  StockInv'
  <1> DEFINE a == request[q].ask
             got == [collector |-> IF a.collector \in collector THEN a.collector ELSE Local,
                     credential |-> IF a.credential \in DOMAIN credential THEN a.credential ELSE None]
             x == [Stock!At(q, "write") EXCEPT !.got = got]
  <1>1. /\ Ongoing(request[q]) /\ UNCHANGED Stock!tables
        /\ request[q].op = "importDevices" /\ Stock!Goto(q, x)
    BY DEF Stock!LookUpNames, Stock!Step, StockInv, Rests
  <1>2. got \in [collector : Collecting, credential : Credentials \cup {None}]
    BY DEF StockInv, Keyed
  <1> HIDE DEF got
  <1>3. /\ x.pc = "write" /\ x.op = request[q].op /\ x.on = request[q].on /\ x.ask = request[q].ask
        /\ x.got = got /\ x.refiled = request[q].refiled
        /\ x = [pc |-> x.pc, op |-> x.op, on |-> x.on, ask |-> x.ask, got |-> x.got,
                moved |-> x.moved, refiled |-> x.refiled]
    BY <1>1, GotIs
  <1> HIDE DEF x
  <1>4. Ongoing(x)
    BY <1>1, <1>2, <1>3 DEF Ongoing
  <1>5. Current(x, row, unit)
    BY <1>1, <1>3 DEF Current
  <1> QED  BY <1>1, <1>4, <1>5, Reads

LEMMA LookAtUnitKeeps ==
    ASSUME StockInv, NEW q \in Requests, Stock!LookAtUnit(q)
    PROVE  StockInv'
  <1> DEFINE u == IF request[q].op = "createUnit" THEN request[q].ask.above ELSE request[q].on
  <1>1. /\ Ongoing(request[q]) /\ UNCHANGED Stock!tables
        /\ request[q].op \in {"createUnit", "renameUnit", "deleteUnit"}
    BY DEF Stock!LookAtUnit, Stock!Step, StockInv, Rests
  <1>2. Stock!Goto(q, IF u = None THEN Stock!At(q, "write")
                      ELSE IF u \in DOMAIN unit
                           THEN [Stock!At(q, "write") EXCEPT !.got = Stock!PathOf(u)]
                           ELSE Stock!Answer(q, "missing"))
    BY DEF Stock!LookAtUnit
  <1>3. request[q].op = "renameUnit" => u = request[q].on /\ u # None
    BY <1>1, StockAssumption DEF Ongoing, Stock!SetsAssumption
  <1> HIDE DEF u
  <1>4. CASE u = None
    <2> DEFINE x == Stock!At(q, "write")
    <2>1. Stock!Goto(q, x)
      BY <1>2, <1>4
    <2>2. /\ x.pc = "write" /\ x.op = request[q].op /\ x.on = request[q].on /\ x.ask = request[q].ask
          /\ x.refiled = request[q].refiled
          /\ x = [pc |-> x.pc, op |-> x.op, on |-> x.on, ask |-> x.ask, got |-> x.got,
                  moved |-> x.moved, refiled |-> x.refiled]
      BY <1>1, AtIs
    <2> HIDE DEF x
    <2>3. Ongoing(x) /\ Current(x, row, unit)
      BY <1>1, <1>3, <1>4, <2>2 DEF Ongoing, Current
    <2> QED  BY <1>1, <2>1, <2>3, Reads
  <1>5. CASE u # None /\ u \in DOMAIN unit
    <2> DEFINE path == Stock!PathOf(u)
               x == [Stock!At(q, "write") EXCEPT !.got = path]
    <2>1. Stock!Goto(q, x) /\ path = PathIn(unit, u)
      BY <1>2, <1>5, PathIs
    <2> HIDE DEF path
    <2>2. /\ x.pc = "write" /\ x.op = request[q].op /\ x.on = request[q].on /\ x.ask = request[q].ask
          /\ x.got = path /\ x.refiled = request[q].refiled
          /\ x = [pc |-> x.pc, op |-> x.op, on |-> x.on, ask |-> x.ask, got |-> x.got,
                  moved |-> x.moved, refiled |-> x.refiled]
      BY <1>1, GotIs
    <2> HIDE DEF x
    <2>3. Ongoing(x)
      BY <1>1, <2>2 DEF Ongoing
    <2>4. Current(x, row, unit)
      BY <1>1, <1>3, <1>5, <2>1, <2>2 DEF Current
    <2> QED  BY <1>1, <2>1, <2>3, <2>4, Reads
  <1>6. CASE u # None /\ u \notin DOMAIN unit
    <2>1. Stock!Goto(q, Stock!Answer(q, "missing"))
      BY <1>2, <1>6
    <2> QED  BY <1>1, <2>1, Reads, Answered
  <1> QED  BY <1>4, <1>5, <1>6

LEMMA CreateUnitKeeps ==
    ASSUME StockInv, NEW q \in Requests, Stock!CreateUnit(q)
    PROVE  StockInv'
  <1>1. CASE \E reply : Stock!Goto(q, Stock!Answer(q, reply)) /\ UNCHANGED Stock!tables
    BY <1>1, Reads, Answered
  <1>2. CASE ~\E reply : Stock!Goto(q, Stock!Answer(q, reply)) /\ UNCHANGED Stock!tables
    <2>1. UNCHANGED <<row, credential, collector>> /\ Stock!Goto(q, Stock!Answer(q, "ok"))
      BY <1>2 DEF Stock!CreateUnit, Stock!End
    <2>2. Sound(row)'
      BY <2>1 DEF StockInv, Sound, Stock!Refers
    <2> QED  BY <2>1, <2>2, GoesOn, Answered DEF StockInv
  <1> QED  BY <1>1, <1>2

\* What RenameUnit writes, when the name is free.
LEMMA RenameIs ==
    ASSUME StockInv, NEW q \in Requests, Stock!RenameUnit(q),
           request'[q] # Stock!Answer(q, "error")
    PROVE  LET u == request[q].on
               name == request[q].ask.name
           IN  /\ row' = [d \in DOMAIN row |->
                      IF Stock!FiledUnder(row[d].path, request[q].got)
                      THEN [row[d] EXCEPT !.path[Level[u]] = name] ELSE row[d]]
               /\ UNCHANGED <<credential, collector>>
               /\ Stock!Goto(q, Stock!Answer(q, "ok"))
               /\ u \in Units /\ Level[u] \in 1 .. Depth /\ name \in Names
               /\ request[q].pc = "write" /\ request[q].op = "renameUnit"
  <1>1. ~Stock!Goto(q, Stock!Answer(q, "error"))
    BY DEF Stock!Goto
  <1>2. request[q].pc = "write" /\ request[q].op = "renameUnit" /\ Ongoing(request[q])
    BY DEF Stock!RenameUnit, Stock!Step, StockInv, Rests
  <1>3. request[q].on \in Units /\ request[q].ask.name \in Names
    BY <1>2 DEF Ongoing
  <1>4. Level[request[q].on] \in 1 .. Depth
    BY <1>3, StockAssumption DEF Stock!LevelAssumption
  <1> QED  BY <1>1, <1>2, <1>3, <1>4 DEF Stock!RenameUnit, Stock!End

LEMMA RenameUnitKeeps ==
    ASSUME StockInv, NEW q \in Requests, Stock!RenameUnit(q)
    PROVE  StockInv'
  <1>1. CASE request'[q] = Stock!Answer(q, "error")
    <2>1. Stock!Answer(q, "ok") # Stock!Answer(q, "error")
      BY DEF Stock!Answer
    <2>2. ~Stock!Goto(q, Stock!Answer(q, "ok"))
      BY <1>1, <2>1 DEF Stock!Goto
    <2>3. Stock!Goto(q, Stock!Answer(q, "error")) /\ UNCHANGED Stock!tables
      BY <2>2 DEF Stock!RenameUnit, Stock!End
    <2> QED  BY <2>3, Reads, Answered
  <1>2. CASE request'[q] # Stock!Answer(q, "error")
    <2> DEFINE l == Level[request[q].on]
               name == request[q].ask.name
               names == request[q].got
               renamed(r) == [r EXCEPT !.path[l] = name]
    <2>1. /\ row' = [d \in DOMAIN row |->
                IF Stock!FiledUnder(row[d].path, names) THEN renamed(row[d]) ELSE row[d]]
          /\ UNCHANGED <<credential, collector>>
          /\ Stock!Goto(q, Stock!Answer(q, "ok")) /\ l \in 1 .. Depth /\ name \in Names
      BY <1>2, RenameIs
    <2> HIDE DEF l, name, names
    <2>2. ASSUME NEW r \in Stock!Row
          PROVE  /\ renamed(r) \in Stock!Row /\ renamed(r).collector = r.collector
                 /\ renamed(r).credential = r.credential
                 /\ renamed(r).parent = r.parent /\ renamed(r).peer = r.peer
      <3> DEFINE path == [r.path EXCEPT ![l] = name]
      <3>1. path \in Stock!Paths
        BY <2>1 DEF Stock!Row, Stock!Paths
      <3>2. renamed(r) = [r EXCEPT !.path = path]
        OBVIOUS
      <3> HIDE DEF path, renamed
      <3> QED  BY <3>1, <3>2 DEF Stock!Row
    <2> HIDE DEF renamed
    <2>3. DOMAIN row' = DOMAIN row /\ \A d \in DOMAIN row' : row'[d] = renamed(row[d]) \/ row'[d] = row[d]
      BY <2>1
    <2>4. \A d \in DOMAIN row : row[d] \in Stock!Row /\ Stock!Refers(row[d], DOMAIN row)
      BY DEF StockInv, Sound
    <2>5. row' \in [DOMAIN row' -> Stock!Row] /\ DOMAIN row' \subseteq Ids
      BY <2>1, <2>2, <2>3, <2>4 DEF StockInv, Sound
    <2>6. ASSUME NEW d \in DOMAIN row' PROVE Stock!Refers(row[d], DOMAIN row)'
      BY <2>1, <2>2, <2>3, <2>4, <2>6 DEF Stock!Refers
    <2>7. Sound(row)'
      BY <2>5, <2>6 DEF Sound
    <2> QED  BY <2>1, <2>7, GoesOn, Answered DEF StockInv
  <1> QED  BY <1>1, <1>2

LEMMA DeleteUnitKeeps ==
    ASSUME StockInv, NEW q \in Requests, Stock!DeleteUnit(q)
    PROVE  StockInv'
  <1>1. UNCHANGED <<row, credential, collector>> /\ Stock!Goto(q, Stock!Answer(q, "ok"))
    BY DEF Stock!DeleteUnit
  <1>2. Sound(row)'
    BY <1>1 DEF StockInv, Sound, Stock!Refers
  <1> QED  BY <1>1, <1>2, GoesOn, Answered DEF StockInv

\* A request that only reads goes on, or is answered.
LEMMA LooksKeeps ==
    ASSUME StockInv, NEW q \in Requests,
           \/ Stock!LookAtCredential(q) \/ Stock!CountUsers(q) \/ Stock!CheckExists(q)
    PROVE  StockInv'
  <1>1. UNCHANGED Stock!tables /\ Ongoing(request[q]) /\ Current(request[q], row, unit)
    BY DEF Stock!LookAtCredential, Stock!CountUsers, Stock!CheckExists, Stock!Step, StockInv, Rests
  <1>2. CASE \E reply : Stock!Goto(q, Stock!Answer(q, reply))
    BY <1>1, <1>2, Reads, Answered
  <1>3. CASE ~\E reply : Stock!Goto(q, Stock!Answer(q, reply))
    <2>1. CASE Stock!LookAtCredential(q)
      <3> DEFINE got == credential[request[q].on]
                 x == [Stock!At(q, "write") EXCEPT !.got = got]
      <3>1. Stock!Goto(q, x) /\ request[q].op = "updateCredential" /\ got \in Keys
        BY <1>3, <2>1 DEF Stock!LookAtCredential, Stock!Step, StockInv, Keyed
      <3> HIDE DEF got
      <3>2. /\ x.pc = "write" /\ x.op = request[q].op /\ x.on = request[q].on /\ x.ask = request[q].ask
            /\ x.got = got /\ x.refiled = request[q].refiled
            /\ x = [pc |-> x.pc, op |-> x.op, on |-> x.on, ask |-> x.ask, got |-> x.got,
                    moved |-> x.moved, refiled |-> x.refiled]
        BY <1>1, GotIs
      <3> HIDE DEF x
      <3>3. Ongoing(x) /\ Current(x, row, unit)
        BY <1>1, <3>1, <3>2 DEF Ongoing, Current
      <3> QED  BY <1>1, <3>1, <3>3, Reads
    <2>2. CASE Stock!CountUsers(q)
      <3> DEFINE x == Stock!At(q, "exists")
      <3>1. /\ Stock!Goto(q, x) /\ request[q].op = "deleteCredential"
            /\ \A d \in DOMAIN row : row[d].credential # request[q].on
        BY <1>3, <2>2 DEF Stock!CountUsers, Stock!Step
      <3>2. /\ x.pc = "exists" /\ x.op = request[q].op /\ x.on = request[q].on /\ x.ask = request[q].ask
            /\ x.refiled = request[q].refiled
            /\ x = [pc |-> x.pc, op |-> x.op, on |-> x.on, ask |-> x.ask, got |-> x.got,
                    moved |-> x.moved, refiled |-> x.refiled]
        BY <1>1, AtIs
      <3> HIDE DEF x
      <3>3. Ongoing(x) /\ Current(x, row, unit)
        BY <1>1, <3>1, <3>2 DEF Ongoing, Current
      <3> QED  BY <1>1, <3>1, <3>3, Reads
    <2>3. CASE Stock!CheckExists(q)
      <3> DEFINE x == Stock!At(q, "write")
      <3>1. /\ Stock!Goto(q, x) /\ request[q].on # Local
            /\ \/ request[q].op = "deleteCredential" /\ request[q].pc = "exists"
               \/ request[q].op = "deleteCollector"
        BY <1>3, <2>3 DEF Stock!CheckExists, Stock!Step
      <3>2. /\ x.pc = "write" /\ x.op = request[q].op /\ x.on = request[q].on /\ x.ask = request[q].ask
            /\ x.moved = request[q].moved /\ x.refiled = request[q].refiled
            /\ x = [pc |-> x.pc, op |-> x.op, on |-> x.on, ask |-> x.ask, got |-> x.got,
                    moved |-> x.moved, refiled |-> x.refiled]
        BY <1>1, AtIs
      <3> HIDE DEF x
      <3>3. Ongoing(x) /\ Current(x, row, unit)
        BY <1>1, <3>1, <3>2 DEF Ongoing, Current
      <3> QED  BY <1>1, <3>1, <3>3, Reads
    <2> QED  BY <2>1, <2>2, <2>3
  <1> QED  BY <1>2, <1>3

LEMMA UpdateCredentialKeeps ==
    ASSUME StockInv, NEW q \in Requests, Stock!UpdateCredential(q)
    PROVE  StockInv'
  <1> DEFINE c == request[q].on
             key == IF request[q].ask.key = Mask THEN request[q].got ELSE request[q].ask.key
  <1>1. /\ UNCHANGED <<row, unit, collector>>
        /\ credential' = IF c \in DOMAIN credential THEN [credential EXCEPT ![c] = key] ELSE credential
        /\ Stock!Goto(q, Stock!Answer(q, "ok"))
    BY DEF Stock!UpdateCredential
  <1>2. Sound(row)'
    BY <1>1 DEF StockInv, Sound, Stock!Refers
  <1>3. key \in Keys
    BY DEF Stock!UpdateCredential, Stock!Step, StockInv, Rests, Ongoing
  <1> HIDE DEF c, key
  <1>4. Keyed(credential')
    BY <1>1, <1>3 DEF StockInv, Keyed
  <1> QED  BY <1>1, <1>2, <1>4, GoesOn, Answered DEF StockInv

\* A credential is deleted: the devices that have it lose it.
LEMMA DeleteCredentialKeeps ==
    ASSUME StockInv, NEW q \in Requests, Stock!DeleteCredential(q)
    PROVE  StockInv'
  <1> DEFINE c == request[q].on
             without(r) == [r EXCEPT !.credential = Stock!Unless(@, {c})]
  <1>1. /\ credential' = Stock!Drop(credential, {c}) /\ UNCHANGED <<unit, collector>>
        /\ row' = [d \in DOMAIN row |-> without(row[d])]
        /\ Stock!Goto(q, Stock!Answer(q, "ok"))
    BY DEF Stock!DeleteCredential
  <1> HIDE DEF c
  <1>2. ASSUME NEW r \in Stock!Row
        PROVE  /\ without(r) \in Stock!Row /\ without(r).collector = r.collector
               /\ without(r).credential = Stock!Unless(r.credential, {c})
               /\ without(r).parent = r.parent /\ without(r).peer = r.peer
    BY DEF Stock!Row, Stock!Unless
  <1> HIDE DEF without
  <1>3. DOMAIN row' = DOMAIN row /\ \A d \in DOMAIN row' : row'[d] = without(row[d])
    BY <1>1
  <1>4. DOMAIN credential' = DOMAIN credential \ {c} /\ Keyed(credential')
    BY <1>1 DEF Stock!Drop, StockInv, Keyed
  <1>5. \A d \in DOMAIN row : row[d] \in Stock!Row /\ Stock!Refers(row[d], DOMAIN row)
    BY DEF StockInv, Sound
  <1>6. row' \in [DOMAIN row' -> Stock!Row] /\ DOMAIN row' \subseteq Ids
    BY <1>1, <1>2, <1>3, <1>5 DEF StockInv, Sound
  <1>7. ASSUME NEW d \in DOMAIN row' PROVE Stock!Refers(row[d], DOMAIN row)'
    BY <1>1, <1>2, <1>3, <1>4, <1>5, <1>7 DEF Stock!Refers, Stock!Unless
  <1>8. Sound(row)'
    BY <1>6, <1>7 DEF Sound
  <1> QED  BY <1>1, <1>4, <1>8, GoesOn, Answered DEF StockInv

\* A collector that no device names is deleted.
LEMMA DeleteCollectorKeeps ==
    ASSUME StockInv, NEW q \in Requests, Stock!DeleteCollector(q)
    PROVE  StockInv'
  <1> DEFINE c == request[q].on
  <1>1. CASE \E d \in DOMAIN row : row[d].collector = c
    <2>1. Stock!Goto(q, Stock!Answer(q, "error")) /\ UNCHANGED Stock!tables
      BY <1>1 DEF Stock!DeleteCollector, Stock!End
    <2> QED  BY <2>1, Reads, Answered
  <1>2. CASE ~\E d \in DOMAIN row : row[d].collector = c
    <2>1. /\ collector' = collector \ {c} /\ UNCHANGED <<row, unit, credential>>
          /\ Stock!Goto(q, Stock!Answer(q, "ok"))
      BY <1>2 DEF Stock!DeleteCollector
    <2>2. c # Local
      BY DEF Stock!DeleteCollector, Stock!Step, StockInv, Rests, Ongoing
    <2>3. Sound(row)'
      BY <1>2, <2>1 DEF StockInv, Sound, Stock!Refers
    <2> QED  BY <2>1, <2>2, <2>3, GoesOn, Answered DEF StockInv
  <1> QED  BY <1>1, <1>2

LEMMA StockStep ==
    ASSUME StockInv, Stock!Next
    PROVE  StockInv'
  <1>1. PICK q \in Requests : Stock!RequestStep(q)
    BY DEF Stock!Next
  <1> QED
    BY <1>1, ArriveKeeps, CreateDeviceKeeps, LinkPartnerKeeps, LookAtDeviceKeeps, UpdateDeviceKeeps,
       DeleteDeviceKeeps, LookUpNamesKeeps, ImportDeviceKeeps, LookAtUnitKeeps, CreateUnitKeeps,
       RenameUnitKeeps, DeleteUnitKeeps, LooksKeeps, UpdateCredentialKeeps, DeleteCredentialKeeps,
       DeleteCollectorKeeps
    DEF Stock!RequestStep

LEMMA StockStart == Stock!Init => StockInv
  <1> SUFFICES ASSUME Stock!Init PROVE StockInv
    OBVIOUS
  <1>1. PICK file \in Files : row = file.device
    BY DEF Stock!Init
  <1>2. /\ DOMAIN row \subseteq Ids /\ row \in [DOMAIN row -> Stock!Row]
        /\ \A d \in DOMAIN row : {row[d].parent, row[d].peer} \subseteq DOMAIN row \cup {None}
    BY <1>1, StockAssumption DEF Stock!FilesAssumption
  <1>3. collector = Collecting /\ DOMAIN credential = Credentials /\ Keyed(credential)
    BY DEF Stock!Init, Keyed
  <1>4. \A d \in DOMAIN row : row[d].collector \in Collecting /\ row[d].credential \in Credentials \cup {None}
    BY <1>2 DEF Stock!Row
  <1>5. Sound(row)
    BY <1>2, <1>3, <1>4 DEF Sound, Stock!Refers
  <1>6. request = [q \in Requests |-> request[q]] /\ \A q \in Requests : Rests(request[q])
    BY DEF Stock!Init, Stock!Idle, Rests
  <1>7. Local \in Collecting
    BY StockAssumption DEF Stock!SetsAssumption
  <1> QED  BY <1>3, <1>5, <1>6, <1>7 DEF StockInv

\* A step that answers a request is that request's own.
LEMMA OwnStep ==
    ASSUME StockInv, Stock!Next, NEW q \in Requests, NEW op, Stock!Writes(q, op)
    PROVE  /\ op = "updateDevice" => Stock!UpdateDevice(q)
           /\ op = "renameUnit" => Stock!RenameUnit(q)
           /\ op = "deleteCredential" => Stock!DeleteCredential(q)
           /\ request'[q] # Stock!Answer(q, "error")
           /\ Ongoing(request[q]) /\ Current(request[q], row, unit)
  <1>1. /\ request[q].pc = "write" /\ request[q].op = op
        /\ request'[q].pc = "done" /\ request'[q].reply = "ok"
    BY DEF Stock!Writes, Stock!Step
  <1>2. Ongoing(request[q]) /\ Current(request[q], row, unit)
    BY <1>1 DEF StockInv, Rests
  <1>3. request'[q] # Stock!Answer(q, "error")
    BY <1>1 DEF Stock!Answer
  <1>4. PICK p \in Requests : Stock!RequestStep(p)
    BY DEF Stock!Next
  <1>5. p = q
    <2> SUFFICES ASSUME p # q PROVE FALSE
      OBVIOUS
    <2>1. \E x : Stock!Goto(p, x)
      BY <1>4 DEF Stock!RequestStep, Stock!Arrive, Stock!CreateDevice, Stock!LinkPartner,
        Stock!LookAtDevice, Stock!UpdateDevice, Stock!DeleteDevice, Stock!LookUpNames, Stock!ImportDevice,
        Stock!InsertDevice, Stock!End, Stock!LookAtUnit, Stock!CreateUnit, Stock!RenameUnit,
        Stock!DeleteUnit, Stock!LookAtCredential, Stock!UpdateCredential, Stock!CountUsers,
        Stock!CheckExists, Stock!DeleteCredential, Stock!DeleteCollector
    <2>2. request'[q] = Stock!Racing(q)
      BY <1>1, <2>1 DEF Stock!Goto, Stock!Active
    <2> QED  BY <1>1, <1>2, <2>2, RacingIs
  <1>6. ~Stock!Arrive(q)
    BY <1>1 DEF Stock!Arrive, Stock!Idle
  <1>7. /\ ~Stock!LookAtDevice(q) /\ ~Stock!LookUpNames(q) /\ ~Stock!LookAtUnit(q)
        /\ ~Stock!LookAtCredential(q) /\ ~Stock!CountUsers(q) /\ ~Stock!CheckExists(q)
    BY <1>1 DEF Stock!LookAtDevice, Stock!LookUpNames, Stock!LookAtUnit, Stock!LookAtCredential,
                Stock!CountUsers, Stock!CheckExists, Stock!Step
  <1>8. /\ Stock!CreateDevice(q) \/ Stock!LinkPartner(q) => op = "createDevice"
        /\ Stock!UpdateDevice(q) => op = "updateDevice"
        /\ Stock!DeleteDevice(q) => op = "deleteDevice"
        /\ Stock!ImportDevice(q) => op = "importDevices"
    BY <1>1 DEF Stock!CreateDevice, Stock!LinkPartner, Stock!UpdateDevice, Stock!DeleteDevice,
                Stock!ImportDevice, Stock!Step
  <1>9. /\ Stock!CreateUnit(q) => op = "createUnit"
        /\ Stock!RenameUnit(q) => op = "renameUnit"
        /\ Stock!DeleteUnit(q) => op = "deleteUnit"
    BY <1>1 DEF Stock!CreateUnit, Stock!RenameUnit, Stock!DeleteUnit, Stock!Step
  <1>10. /\ Stock!UpdateCredential(q) => op = "updateCredential"
         /\ Stock!DeleteCredential(q) => op = "deleteCredential"
         /\ Stock!DeleteCollector(q) => op = "deleteCollector"
    BY <1>1 DEF Stock!UpdateCredential, Stock!DeleteCredential, Stock!DeleteCollector, Stock!Step
  <1>11. /\ op = "updateDevice" => Stock!UpdateDevice(q)
         /\ op = "renameUnit" => Stock!RenameUnit(q)
         /\ op = "deleteCredential" => Stock!DeleteCredential(q)
    BY <1>4, <1>5, <1>6, <1>7, <1>8, <1>9, <1>10 DEF Stock!RequestStep
  <1> QED  BY <1>2, <1>3, <1>11

\* The row of the device is the merged one, but for a partner linked to itself; of the
\* others only that partner changes, and it had none, or has the device already.
LEMMA UpdateWrites ==
    ASSUME StockInv, NEW q \in Requests, Stock!UpdateDevice(q),
           request'[q] # Stock!Answer(q, "error")
    PROVE  LET d == request[q].on
               r == Stock!Merge(request[q].got, request[q].ask)
           IN  /\ DOMAIN row' = DOMAIN row
               /\ d \in DOMAIN row => row'[d] = r
               /\ \A i \in DOMAIN row \ {d} : row'[i].peer # row[i].peer => row[i].peer = None /\ row'[i].peer = d
  <1> DEFINE d == request[q].on
             r == Stock!Merge(request[q].got, request[q].ask)
             p == r.peer
             written == IF d \in DOMAIN row THEN Stock!Put(row, d, r) ELSE row
  <1>1. /\ row' = Stock!LinkBack(written, d, p) /\ (row' # written => d \in DOMAIN row)
        /\ r \in Stock!Row
    BY UpdateIs
  <1>2. /\ DOMAIN row' = DOMAIN written
        /\ \/ row' = written
           \/ /\ p \in DOMAIN written /\ written[p].peer \in {None, d}
              /\ row' = [written EXCEPT ![p].peer = d]
    BY <1>1 DEF Stock!LinkBack
  <1> HIDE DEF r, d
  <1>3. /\ DOMAIN written = DOMAIN row
        /\ d \in DOMAIN row => written[d] = r
        /\ \A i \in DOMAIN row \ {d} : written[i] = row[i]
    BY DEF Stock!Put
  <1> HIDE DEF written
  <1>4. CASE row' = written
    BY <1>3, <1>4 DEF r, d
  <1>5. CASE row' # written
    <2>1. p \in DOMAIN written /\ written[p].peer \in {None, d} /\ row' = [written EXCEPT ![p].peer = d]
      BY <1>2, <1>5
    <2> DEFINE n == [written[p] EXCEPT !.peer = d]
    <2>2. row' = [written EXCEPT ![p] = n]
      BY <2>1
    <2>3. written[p] \in Stock!Row
      BY <1>1, <1>3, <2>1 DEF StockInv, Sound
    <2>4. n.peer = d
      BY <2>3 DEF Stock!Row
    <2>5. ASSUME p = d PROVE n = r
      <3>1. written[p] = r /\ r.peer = d
        BY <1>1, <1>3, <2>1, <2>5
      <3> QED  BY <1>1, <3>1 DEF Stock!Row
    <2> HIDE DEF n
    <2>6. \A i \in DOMAIN row : row'[i] = IF i = p THEN n ELSE written[i]
      BY <1>3, <2>2
    <2>7. DOMAIN row' = DOMAIN row
      BY <1>2, <1>3
    <2>8. d \in DOMAIN row => row'[d] = r
      BY <1>3, <2>5, <2>6
    <2>9. ASSUME NEW i \in DOMAIN row \ {d}, row'[i].peer # row[i].peer
          PROVE  row[i].peer = None /\ row'[i].peer = d
      BY <1>3, <2>1, <2>4, <2>6, <2>9
    <2> QED  BY <2>7, <2>8, <2>9 DEF r, d
  <1> QED  BY <1>4, <1>5

LEMMA AskedOnly ==
    ASSUME StockInv, Stock!Next, NEW q \in Requests, Stock!Writes(q, "updateDevice"),
           request[q].on \in DOMAIN row \ request[q].moved,
           NEW f \in DOMAIN row[request[q].on] \ DOMAIN request[q].ask
    PROVE  row'[request[q].on][f] = row[request[q].on][f]
  <1> DEFINE d == request[q].on
  <1>1. /\ Stock!UpdateDevice(q) /\ request'[q] # Stock!Answer(q, "error")
        /\ Current(request[q], row, unit)
    BY OwnStep
  <1>2. request[q].got = row[d]
    BY <1>1 DEF Current, Stock!Writes, Stock!Step
  <1>3. row'[d] = Stock!Merge(row[d], request[q].ask)
    BY <1>1, <1>2, UpdateWrites
  <1> QED  BY <1>3 DEF Stock!Merge

LEMMA PartnersKept ==
    ASSUME StockInv, Stock!Next, NEW q \in Requests, Stock!Writes(q, "updateDevice"),
           NEW d \in DOMAIN row \ {request[q].on}, row'[d].peer # row[d].peer
    PROVE  row[d].peer = None /\ row'[d].peer = request[q].on
  BY OwnStep, UpdateWrites

LEMMA LosesNone ==
    ASSUME StockInv, Stock!Next, NEW q \in Requests, Stock!Writes(q, "deleteCredential"),
           NEW d \in DOMAIN row, row[d].credential = request[q].on
    PROVE  d \in request[q].moved
  BY OwnStep DEF Current, Stock!Writes, Stock!Step

\* A path of a unit has a name for each level.
LEMMA PathLength ==
    ASSUME NEW u \in Units
    PROVE  /\ Stock!PathOf(u) = [l \in 1 .. Level[u] |-> Stock!PathOf(u)[l]]
           /\ DOMAIN Stock!PathOf(u) = 1 .. Level[u] /\ Len(Stock!PathOf(u)) = Level[u]
           /\ Level[u] \in 1 .. Depth
  <1>1. Level[u] \in 1 .. Depth /\ Level[u] \in Nat
    BY StockAssumption DEF Stock!LevelAssumption
  <1>2. \E name : Stock!PathOf(u) = [l \in 1 .. Level[u] |-> name[l]]
    <2> DEFINE At[l \in 1 .. Depth] ==
                   IF Depth - l + 1 >= Level[u] THEN u ELSE unit[At[l - 1]].above
               name == [l \in 1 .. Level[u] |-> unit[At[Depth - l + 1]].name]
    <2> HIDE DEF At
    <2>1. name = [l \in 1 .. Level[u] |-> name[l]]
      OBVIOUS
    <2>2. Stock!PathOf(u) = name
      BY DEF Stock!PathOf, At
    <2> HIDE DEF name
    <2> QED  BY <2>1, <2>2
  <1>3. PICK name : Stock!PathOf(u) = [l \in 1 .. Level[u] |-> name[l]]
    BY <1>2
  <1>4. Stock!PathOf(u) \in Seq({name[l] : l \in 1 .. Level[u]})
    BY <1>1, <1>3
  <1> QED  BY <1>1, <1>3, <1>4

LEMMA Carries ==
    ASSUME StockInv, Stock!Next, NEW q \in Requests, Stock!Writes(q, "renameUnit"), ~request[q].refiled,
           NEW d \in DOMAIN row
    PROVE  LET u == request[q].on
               below == \A l \in 1 .. Level[u] :
                            Stock!PathOf(u)[l] \in {Stock!Branch(d)[l], row[d].path[l]}
               new == [Stock!PathOf(u) EXCEPT ![Level[u]] = request[q].ask.name]
           IN  IF row[d].path # row'[d].path
               THEN below /\ \A l \in 1 .. Level[u] : row'[d].path[l] = new[l]
               ELSE below => \/ new = Stock!PathOf(u)
                             \/ \E l \in 1 .. Level[u] : row[d].path[l] = Blank
  <1> DEFINE u == request[q].on
             n == Level[u]
             name == request[q].ask.name
             names == Stock!PathOf(u)
             new == [names EXCEPT ![n] = name]
             path == row[d].path
             after == row'[d].path
             below == \A l \in 1 .. n : names[l] \in {Stock!Branch(d)[l], path[l]}
  <1>1. /\ Stock!RenameUnit(q) /\ request'[q] # Stock!Answer(q, "error")
        /\ Current(request[q], row, unit)
    BY OwnStep
  <1>2. request[q].got = names
    BY <1>1, PathIs DEF Current, Stock!Writes, Stock!Step
  <1>3. /\ row' = [i \in DOMAIN row |-> IF Stock!FiledUnder(row[i].path, names)
                                       THEN [row[i] EXCEPT !.path[n] = name] ELSE row[i]]
        /\ u \in Units /\ n \in 1 .. Depth /\ name \in Names
    BY <1>1, <1>2, RenameIs
  <1>4. /\ DOMAIN names = 1 .. n /\ Len(names) = n
        /\ names = [l \in 1 .. n |-> names[l]]
    BY <1>3, PathLength
  <1>5. row[d] \in Stock!Row /\ path \in Stock!Paths /\ DOMAIN path = 1 .. Depth /\ Depth \in Nat
    BY StockAssumption DEF StockInv, Sound, Stock!Row, Stock!Paths, Stock!LevelAssumption
  <1>6. \A l \in 1 .. Depth : Stock!Branch(d)[l] = IF path[l] = Blank THEN Unassigned ELSE path[l]
    BY DEF Stock!Branch
  <1>7. Stock!FiledUnder(path, names) <=>
            /\ \A i \in 1 .. n - 1 : path[i] = names[i]
            /\ path[n] = names[n] \/ (n = 2 /\ names[n] = Unassigned /\ path[n] = Blank)
    BY <1>4 DEF Stock!FiledUnder
  <1>8. Stock!FiledUnder(path, names) => after = [path EXCEPT ![n] = name]
    BY <1>3, <1>5 DEF Stock!Row
  <1>9. ~Stock!FiledUnder(path, names) => after = path
    BY <1>3
  <1>10. /\ DOMAIN new = 1 .. n /\ new[n] = name
         /\ \A l \in 1 .. n : l # n => new[l] = names[l]
    BY <1>3, <1>4
  <1> HIDE DEF u, n, name, names, path, after
  <1>11. new = [l \in 1 .. n |-> new[l]]
    BY <1>4
  <1> HIDE DEF new
  <1>12. CASE Stock!FiledUnder(path, names)
    <2>1. /\ after[n] = name /\ \A l \in 1 .. n : l # n => after[l] = path[l] /\ path[l] = names[l]
      BY <1>3, <1>5, <1>7, <1>8, <1>12
    <2>2. \A l \in 1 .. n : after[l] = new[l]
      BY <1>10, <2>1
    <2>3. names[n] \in {Stock!Branch(d)[n], path[n]}
      BY <1>3, <1>6, <1>7, <1>12
    <2>4. below
      BY <2>1, <2>3
    <2>5. path = after => new = names \/ \E l \in 1 .. n : path[l] = Blank
      <3> SUFFICES ASSUME path = after, ~\E l \in 1 .. n : path[l] = Blank PROVE new = names
        OBVIOUS
      <3>1. n \in 1 .. n
        BY <1>3, <1>5
      <3>2. path[n] = names[n] /\ path[n] = name
        BY <1>7, <1>12, <2>1, <3>1
      <3>3. \A l \in 1 .. n : new[l] = names[l]
        BY <1>10, <3>2
      <3> QED  BY <1>4, <1>11, <3>3
    <2> QED  BY <2>2, <2>4, <2>5 DEF u, n, name, names, new, path, after
  <1>13. CASE ~Stock!FiledUnder(path, names)
    <2>1. ASSUME below, ~\E l \in 1 .. n : path[l] = Blank PROVE FALSE
      <3>1. \A l \in 1 .. n : names[l] = path[l]
        BY <1>3, <1>5, <1>6, <2>1
      <3> QED  BY <1>3, <1>5, <1>7, <1>13, <3>1
    <2>2. path = after
      BY <1>9, <1>13
    <2> QED  BY <2>1, <2>2 DEF u, n, name, names, new, path, after
  <1> QED  BY <1>12, <1>13

\* Over the requests: what ChangesKept says of a step.
LEMMA StockMoves == StockInv /\ [Stock!Next]_(Stock!vars) =>
    /\ [\A q \in Requests :
           Stock!Writes(q, "updateDevice") /\ request[q].on \in DOMAIN row \ request[q].moved =>
              \A f \in DOMAIN row[request[q].on] \ DOMAIN request[q].ask :
                  \/ row'[request[q].on][f] = row[request[q].on][f]
                  \/ f = "peer" /\ row[request[q].on].peer = None]_(Stock!vars)
    /\ [\A q \in Requests : Stock!Writes(q, "updateDevice") =>
           \A d \in DOMAIN row \ {request[q].on} :
               row'[d].peer # row[d].peer => row[d].peer = None /\ row'[d].peer = request[q].on]_(Stock!vars)
    /\ [\A q \in Requests : Stock!Writes(q, "renameUnit") /\ ~request[q].refiled =>
          \A d \in DOMAIN row :
              LET u == request[q].on
                  below == \A l \in 1 .. Level[u] : Stock!PathOf(u)[l] \in {Stock!Branch(d)[l], row[d].path[l]}
                  new == [Stock!PathOf(u) EXCEPT ![Level[u]] = request[q].ask.name]
              IN  IF row[d].path # row'[d].path
                  THEN below /\ \A l \in 1 .. Level[u] : row'[d].path[l] = new[l]
                  ELSE below => \/ new = Stock!PathOf(u)
                                \/ \E l \in 1 .. Level[u] : row[d].path[l] = Blank]_(Stock!vars)
    /\ [\A q \in Requests : Stock!Writes(q, "deleteCredential") =>
           \A d \in DOMAIN row :
              row[d].credential = request[q].on => d \in request[q].moved]_(Stock!vars)
  <1>1. CASE Stock!Next
    BY <1>1, AskedOnly, PartnersKept, Carries, LosesNone
  <1>2. CASE UNCHANGED Stock!vars
    BY <1>2
  <1> QED  BY <1>1, <1>2

\* What a request of the administration changes is what it was asked to (ChangesKept), and
\* no device ever names a row that is not there.
THEOREM ChangesHold == Stock!Spec => ChangesKept /\ []Sound(row)
  <1>1. Stock!Init => StockInv
    BY StockStart
  <1>2. StockInv /\ [Stock!Next]_(Stock!vars) => StockInv'
    <2>1. CASE Stock!Next
      BY <2>1, StockStep
    <2>2. CASE UNCHANGED Stock!vars
      BY <2>2 DEF Stock!vars, StockInv, Sound, Stock!Refers
    <2> QED  BY <2>1, <2>2
  <1>3. StockInv => Sound(row)
    BY DEF StockInv
  <1> QED
    BY <1>1, <1>2, <1>3, StockMoves, PTL DEF Stock!Spec, ChangesKept, Stock!ChangesKept,
       Stock!OnlyAsked, Stock!PartnerKept, Stock!RenameCarries, Stock!CredentialKept

-----------------------------------------------------------------------------
(* Induction over numbers and over sets of devices                         *)

\* The naturals have no endless descent.
LEMMA LessIsWellFounded == IsWellFoundedOn({ss \in Nat \X Nat : ss[1] < ss[2]}, Nat)
  BY NatLessThanWellFounded DEF OpToRel

\* A set of naturals that is not empty has a least element.
LEMMA HasLeast ==
    ASSUME NEW T \in SUBSET Nat, T # {}
    PROVE  \E m \in T : \A n \in T : m <= n
  <1> DEFINE R == {ss \in Nat \X Nat : ss[1] < ss[2]}
  <1>1. IsWellFoundedOn(R, Nat)
    BY LessIsWellFounded
  <1>2. \A n, m \in Nat : <<n, m>> \notin R => m <= n
    OBVIOUS
  <1> HIDE DEF R
  <1>3. \E m \in T : \A n \in T : ~(<<n, m>> \in R)
    BY <1>1, WFMin
  <1> QED  BY <1>2, <1>3

\* Induction up to N, of a set.
LEMMA UpTo ==
    ASSUME NEW N \in Nat, NEW T, 0 \in T, \A i \in 0 .. N : i \in T /\ i < N => i + 1 \in T
    PROVE  0 .. N \subseteq T
  <1> SUFFICES ASSUME NEW i \in 0 .. N, i \notin T PROVE FALSE
    OBVIOUS
  <1> DEFINE Out == {j \in 0 .. N : j \notin T}
  <1>1. Out \in SUBSET Nat /\ Out # {}
    OBVIOUS
  <1>2. PICK m \in Out : \A j \in Out : m <= j
    <2> HIDE DEF Out
    <2> QED  BY <1>1, HasLeast
  <1>3. m - 1 \in 0 .. N /\ m - 1 \in T
    BY <1>2
  <1> QED  BY <1>2, <1>3

\* The ways to go on from a value of V, N times.
Steps(N, V) == [1 .. N -> [V -> V]]

\* g starts with a and goes on by F.
Follows(g, N, V, a, F) == g \in [0 .. N -> V] /\ g[0] = a /\ \A i \in 1 .. N : g[i] = F[i][g[i - 1]]

\* There is such a function.
LEMMA Recursion ==
    ASSUME NEW N, N \in Nat, NEW V, NEW a, a \in V, NEW F, F \in Steps(N, V)
    PROVE  \E g : Follows(g, N, V, a, F)
  <1> USE DEF Steps
  <1> DEFINE Runs(g, n) == g \in [0 .. n -> V] /\ g[0] = a /\ \A i \in 1 .. n : g[i] = F[i][g[i - 1]]
             T == {n \in 0 .. N : \E g : Runs(g, n)}
  <1>1. 0 \in T
    <2>1. Runs([i \in 0 .. 0 |-> a], 0)
      OBVIOUS
    <2> HIDE DEF Runs
    <2> QED  BY <2>1
  <1>2. ASSUME NEW n \in 0 .. N, n \in T, n < N PROVE n + 1 \in T
    <2>1. PICK g : Runs(g, n)
      BY <1>2
    <2> DEFINE h == [i \in 0 .. n + 1 |-> IF i = n + 1 THEN F[n + 1][g[n]] ELSE g[i]]
    <2>2. g[n] \in V /\ n + 1 \in 1 .. N /\ F[n + 1][g[n]] \in V
      BY <1>2, <2>1
    <2>3. h \in [0 .. n + 1 -> V] /\ h[0] = a
      BY <2>1, <2>2
    <2>4. ASSUME NEW i \in 1 .. n + 1 PROVE h[i] = F[i][h[i - 1]]
      <3>1. h[i - 1] = g[i - 1]
        OBVIOUS
      <3>2. CASE i = n + 1
        BY <3>1, <3>2
      <3>3. CASE i \in 1 .. n
        <4>1. h[i] = g[i]
          BY <3>3
        <4> HIDE DEF h
        <4> QED  BY <2>1, <3>1, <3>3, <4>1
      <3> QED  BY <3>2, <3>3
    <2>5. Runs(h, n + 1)
      BY <2>3, <2>4
    <2>6. n + 1 \in 0 .. N
      BY <1>2
    <2> HIDE DEF Runs
    <2> QED  BY <2>5, <2>6
  <1>3. N \in T
    <2> HIDE DEF T
    <2>1. 0 .. N \subseteq T
      BY <1>1, <1>2, UpTo
    <2> QED  BY <2>1
  <1> QED  BY <1>3 DEF Follows


\* There are finitely many ids of devices.
LEMMA DevicesAreFew == IsFiniteSet(Ids) /\ None \notin Ids
  <1>1. Stock!IsFiniteSet(Ids) /\ None \notin Ids
    BY StockAssumption DEF Stock!SetsAssumption
  <1>2. Stock!IsFiniteSet(Ids) <=> IsFiniteSet(Ids)
    BY DEF Stock!IsFiniteSet, IsFiniteSet
  <1> QED  BY <1>1, <1>2

\* Inventory counts as everyone does.
LEMMA CountIs == \A S : Stock!Cardinality(S) = Cardinality(S)
  BY DEF Stock!Cardinality, Cardinality

\* A set of devices is finite, and one fewer without one of them.
LEMMA PartsAreFew ==
    ASSUME NEW S \in SUBSET Ids
    PROVE  /\ IsFiniteSet(S) /\ Cardinality(S) \in Nat /\ Cardinality(S) <= Cardinality(Ids)
           /\ (Cardinality(S) = 0 <=> S = {})
           /\ \A x \in S : Cardinality(S \ {x}) = Cardinality(S) - 1
  <1>1. IsFiniteSet(S) /\ Cardinality(S) <= Cardinality(Ids)
    BY DevicesAreFew, FS_Subset
  <1> QED  BY <1>1, FS_CardinalityType, FS_EmptySet, FS_RemoveElement

\* Induction over the sets of devices, taking one out.
LEMMA SetBySet ==
    ASSUME NEW T, {} \in T,
           \A S \in SUBSET Ids : S # {} /\ (\A x \in S : S \ {x} \in T) => S \in T
    PROVE  SUBSET Ids \subseteq T
  <1> DEFINE N == Cardinality(Ids)
             Small(n) == {S \in SUBSET Ids : Cardinality(S) <= n}
             U == {n \in 0 .. N : Small(n) \subseteq T}
  <1>1. N \in Nat
    BY PartsAreFew
  <1>2. 0 \in U
    <2>1. ASSUME NEW S \in Small(0) PROVE S \in T
      <3>1. S = {}
        BY <2>1, PartsAreFew
      <3> QED  BY <3>1
    <2> QED  BY <1>1, <2>1
  <1>3. ASSUME NEW n \in 0 .. N, n \in U, n < N PROVE n + 1 \in U
    <2>1. ASSUME NEW S \in Small(n + 1) PROVE S \in T
      <3>1. CASE S = {}
        BY <3>1
      <3>2. CASE S # {}
        <4>1. \A x \in S : S \ {x} \in Small(n)
          BY <1>1, <2>1, PartsAreFew
        <4> QED  BY <1>3, <3>2, <4>1
      <3> QED  BY <3>1, <3>2
    <2>2. n + 1 \in 0 .. N
      <3> HIDE DEF N, U
      <3> QED  BY <1>1, <1>3
    <2> QED  BY <2>1, <2>2
  <1>4. N \in U
    <2> HIDE DEF N, U
    <2>1. 0 .. N \subseteq U
      BY <1>1, <1>2, <1>3, UpTo
    <2> QED  BY <1>1, <2>1
  <1>5. Small(N) = SUBSET Ids
    BY PartsAreFew
  <1> QED  BY <1>4, <1>5

-----------------------------------------------------------------------------
(* Sums over a set of devices *)

\* MapThenSumSet, of a function.
SumOf(f, S) ==
    LET iter[s \in SUBSET S] ==
            IF s = {} THEN 0
            ELSE LET x == CHOOSE x \in s : TRUE IN f[x] + iter[s \ {x}]
    IN  iter[S]

\* The one that is added first.
Chosen(s) == CHOOSE x \in s : TRUE

\* One round of SumOf, with g for what is left.
Summed(f, g, s) == IF s = {} THEN 0 ELSE f[Chosen(s)] + g[s \ {Chosen(s)}]

\* There is a function that sums up over all sets.
LEMMA SumsExist ==
    ASSUME NEW f
    PROVE  \E g : g = [s \in SUBSET Ids |-> Summed(f, g, s)]
  <1> DEFINE N == Cardinality(Ids)
             Small(n) == {S \in SUBSET Ids : Cardinality(S) <= n}
             Is(g, n) == g = [S \in Small(n) |-> Summed(f, g, S)]
             T == {n \in 0 .. N : \E g : Is(g, n)}
  <1>0. N \in Nat
    BY PartsAreFew
  <1>1. \A S \in SUBSET Ids : S # {} =>
            /\ Chosen(S) \in S /\ S \ {Chosen(S)} \in SUBSET Ids
            /\ Cardinality(S \ {Chosen(S)}) = Cardinality(S) - 1
    BY PartsAreFew DEF Chosen
  <1>2. \A S \in SUBSET Ids : Cardinality(S) \in Nat /\ (Cardinality(S) <= 0 => S = {})
    BY PartsAreFew
  <1>3. 0 \in T
    <2> DEFINE h == [S \in Small(0) |-> 0]
    <2>1. \A S \in Small(0) : Summed(f, h, S) = 0
      BY <1>2 DEF Summed
    <2>2. Is(h, 0)
      BY <2>1
    <2> HIDE DEF Is
    <2> QED  BY <1>0, <2>2
  <1>4. ASSUME NEW n \in 0 .. N, n \in T, n < N PROVE n + 1 \in T
    <2>1. PICK g : Is(g, n)
      BY <1>4
    <2> DEFINE h == [S \in Small(n + 1) |-> Summed(f, g, S)]
    <2>2. ASSUME NEW S \in Small(n + 1) PROVE Summed(f, h, S) = Summed(f, g, S)
      <3>1. CASE S = {}
        BY <3>1 DEF Summed
      <3>2. CASE S # {}
        <4> DEFINE R == S \ {Chosen(S)}
        <4>1. R \in Small(n) /\ R \in Small(n + 1)
          BY <1>1, <1>2, <1>4, <3>2
        <4> HIDE DEF R
        <4>2. g[R] = Summed(f, g, R)
          BY <2>1, <4>1
        <4>3. h[R] = g[R]
          BY <4>1, <4>2
        <4> QED  BY <3>2, <4>3 DEF Summed, R
      <3> QED  BY <3>1, <3>2
    <2>3. Is(h, n + 1)
      BY <2>2
    <2>4. n + 1 \in 0 .. N
      <3> HIDE DEF N, T
      <3> QED  BY <1>0, <1>4
    <2> HIDE DEF Is
    <2> QED  BY <2>3, <2>4
  <1>5. PICK g : Is(g, N)
    <2> HIDE DEF T, N
    <2>1. 0 .. N \subseteq T
      BY <1>0, <1>3, <1>4, UpTo
    <2>2. N \in T
      BY <1>0, <2>1
    <2> QED  BY <2>2 DEF T
  <1>6. Small(N) = SUBSET Ids
    BY PartsAreFew
  <1> QED  BY <1>5, <1>6

\* It is the sum of each.
LEMMA SumIs ==
    ASSUME NEW f, NEW g, g = [s \in SUBSET Ids |-> Summed(f, g, s)], NEW S \in SUBSET Ids
    PROVE  SumOf(f, S) = g[S]
  <1> DEFINE Is(h) == h = [s \in SUBSET S |-> Summed(f, h, s)]
             c == CHOOSE h : Is(h)
             k == [s \in SUBSET S |-> g[s]]
  <1>1. SumOf(f, S) = c[S]
    BY DEF SumOf, Summed, Chosen
  <1>2. \A s \in SUBSET S : s # {} => Chosen(s) \in s /\ s \ {Chosen(s)} \in SUBSET S
    BY DEF Chosen
  <1>3. Is(k)
    <2>1. ASSUME NEW s \in SUBSET S PROVE k[s] = Summed(f, k, s)
      <3>1. k[s] = Summed(f, g, s)
        OBVIOUS
      <3>2. Summed(f, k, s) = Summed(f, g, s)
        BY <1>2 DEF Summed
      <3> QED  BY <3>1, <3>2
    <2> QED  BY <2>1
  <1>4. Is(c)
    <2> HIDE DEF Is
    <2> QED  BY <1>3
  <1> DEFINE T == {s \in SUBSET Ids : s \subseteq S => c[s] = g[s]}
  <1> HIDE DEF c
  <1>5. {} \in T
    BY <1>4 DEF Summed
  <1>6. ASSUME NEW s \in SUBSET Ids, s # {}, \A x \in s : s \ {x} \in T PROVE s \in T
    <2> SUFFICES ASSUME s \subseteq S PROVE c[s] = g[s]
      OBVIOUS
    <2> DEFINE R == s \ {Chosen(s)}
    <2>1. c[R] = g[R]
      BY <1>2, <1>6
    <2>2. c[s] = f[Chosen(s)] + c[R]
      BY <1>4, <1>6 DEF Summed
    <2>3. g[s] = f[Chosen(s)] + g[R]
      BY <1>6 DEF Summed
    <2> QED  BY <2>1, <2>2, <2>3
  <1>7. SUBSET Ids \subseteq T
    <2> HIDE DEF T
    <2> QED  BY <1>5, <1>6, SetBySet
  <1> QED  BY <1>1, <1>7

\* Sets that have nothing in common count together.
LEMMA Together ==
    ASSUME NEW A \in SUBSET Ids, NEW B \in SUBSET Ids, A \cap B = {}
    PROVE  Cardinality(A \cup B) = Cardinality(A) + Cardinality(B)
  <1>1. IsFiniteSet(A) /\ IsFiniteSet(B) /\ Cardinality(A) \in Nat /\ Cardinality(B) \in Nat
    BY PartsAreFew
  <1>2. Cardinality(A \cup B) = Cardinality(A) + Cardinality(B) - Cardinality(A \cap B)
    BY <1>1, FS_Union
  <1>3. Cardinality(A \cap B) = 0
    BY FS_EmptySet
  <1> QED  BY <1>1, <1>2, <1>3

\* Nothing adds up to nothing.
LEMMA SumEmpty == \A f : SumOf(f, {}) = 0
  <1> SUFFICES ASSUME NEW f PROVE SumOf(f, {}) = 0
    OBVIOUS
  <1>1. PICK g : g = [s \in SUBSET Ids |-> Summed(f, g, s)]
    BY SumsExist
  <1>2. g[{}] = 0
    BY <1>1 DEF Summed
  <1> QED  BY <1>1, <1>2, SumIs

\* A sum is a number, and any device may be taken out of it.
LEMMA SumTakes ==
    ASSUME NEW f, NEW D \in SUBSET Ids, \A x \in D : f[x] \in Nat
    PROVE  SumOf(f, D) \in Nat /\ \A x \in D : SumOf(f, D) = f[x] + SumOf(f, D \ {x})
  <1>1. PICK g : g = [s \in SUBSET Ids |-> Summed(f, g, s)]
    BY SumsExist
  <1>2. \A S \in SUBSET Ids : g[S] = Summed(f, g, S)
    BY <1>1
  <1>x. {} \in SUBSET Ids /\ g[{}] = 0
    <2>1. Summed(f, g, {}) = 0
      BY DEF Summed
    <2>2. {} \in SUBSET Ids
      OBVIOUS
    <2> QED  BY <1>2, <2>1, <2>2
  <1>y. \A S \in SUBSET Ids : S # {} => Chosen(S) \in S /\ g[S] = f[Chosen(S)] + g[S \ {Chosen(S)}]
    BY <1>2 DEF Chosen, Summed
  <1>3. \A S \in SUBSET D : g[S] \in Nat
    <2> DEFINE T == {S \in SUBSET Ids : S \subseteq D => g[S] \in Nat}
    <2>1. {} \in T
      BY <1>x
    <2>2. ASSUME NEW S \in SUBSET Ids, S # {}, \A x \in S : S \ {x} \in T PROVE S \in T
      <3> SUFFICES ASSUME S \subseteq D PROVE g[S] \in Nat
        OBVIOUS
      <3> DEFINE y == Chosen(S)
      <3>1. y \in S /\ g[S] = f[y] + g[S \ {y}]
        BY <1>y, <2>2
      <3> HIDE DEF y
      <3>2. g[S \ {y}] \in Nat /\ f[y] \in Nat
        BY <2>2, <3>1
      <3> QED  BY <3>1, <3>2
    <2>3. SUBSET Ids \subseteq T
      <3> HIDE DEF T
      <3> QED  BY <2>1, <2>2, SetBySet
    <2> QED  BY <2>3
  <1>4. \A S \in SUBSET D : \A x \in S : g[S] = f[x] + g[S \ {x}]
    <2> DEFINE Agrees(S) == \A x \in S : g[S] = f[x] + g[S \ {x}]
               T == {S \in SUBSET Ids : S \subseteq D => Agrees(S)}
    <2>1. {} \in T
      OBVIOUS
    <2>2. ASSUME NEW S \in SUBSET Ids, S # {}, \A x \in S : S \ {x} \in T PROVE S \in T
      <3> SUFFICES ASSUME S \subseteq D, NEW x \in S PROVE g[S] = f[x] + g[S \ {x}]
        OBVIOUS
      <3> DEFINE y == Chosen(S)
      <3>1. y \in S /\ g[S] = f[y] + g[S \ {y}]
        BY <1>y, <2>2
      <3> HIDE DEF y
      <3>2. CASE x = y
        BY <3>1, <3>2
      <3>3. CASE x # y
        <4> DEFINE R == S \ {x, y}
        <4>1. (S \ {x}) \ {y} = R /\ (S \ {y}) \ {x} = R /\ x \in S \ {y} /\ y \in S \ {x}
          BY <3>1, <3>3
        <4>2. Agrees(S \ {x}) /\ Agrees(S \ {y})
          BY <2>2, <3>1
        <4>3. g[S \ {y}] = f[x] + g[R] /\ g[S \ {x}] = f[y] + g[R]
          BY <4>1, <4>2
        <4>4. g[R] \in Nat /\ f[x] \in Nat /\ f[y] \in Nat
          BY <1>3, <3>1
        <4> QED  BY <3>1, <4>3, <4>4
      <3> QED  BY <3>2, <3>3
    <2>3. SUBSET Ids \subseteq T
      <3> HIDE DEF T
      <3> QED  BY <2>1, <2>2, SetBySet
    <2> QED  BY <2>3
  <1>5. \A S \in SUBSET Ids : SumOf(f, S) = g[S]
    BY <1>1, SumIs
  <1> QED  BY <1>3, <1>4, <1>5

\* The sums of functions that are the same on a set are the same.
LEMMA SumSame ==
    ASSUME NEW f, NEW h, NEW D \in SUBSET Ids, \A x \in D : f[x] \in Nat /\ h[x] = f[x]
    PROVE  SumOf(h, D) = SumOf(f, D)
  <1> DEFINE T == {S \in SUBSET Ids : S \subseteq D => SumOf(h, S) = SumOf(f, S)}
  <1>1. {} \in T
    BY SumEmpty
  <1>2. ASSUME NEW S \in SUBSET Ids, S # {}, \A x \in S : S \ {x} \in T PROVE S \in T
    <2> SUFFICES ASSUME S \subseteq D PROVE SumOf(h, S) = SumOf(f, S)
      OBVIOUS
    <2>1. PICK x \in S : TRUE
      BY <1>2
    <2>2. SumOf(f, S) = f[x] + SumOf(f, S \ {x})
      BY SumTakes
    <2>3. SumOf(h, S) = h[x] + SumOf(h, S \ {x})
      <3>1. \A z \in S : h[z] \in Nat
        OBVIOUS
      <3> QED  BY <3>1, SumTakes
    <2> QED  BY <1>2, <2>2, <2>3
  <1>3. SUBSET Ids \subseteq T
    <2> HIDE DEF T
    <2> QED  BY <1>1, <1>2, SetBySet
  <1> QED  BY <1>3

\* The sum of ones is a number of devices.
LEMMA SumOfOnes ==
    ASSUME NEW f, NEW D \in SUBSET Ids, NEW down, \A x \in D : f[x] = IF x \in down THEN 1 ELSE 0
    PROVE  SumOf(f, D) = Cardinality(D \cap down)
  <1> DEFINE T == {S \in SUBSET Ids : S \subseteq D => SumOf(f, S) = Cardinality(S \cap down)}
  <1>1. {} \in T
    <2>1. {} \cap down = {} /\ Cardinality({}) = 0
      BY FS_EmptySet
    <2> QED  BY <2>1, SumEmpty
  <1>2. ASSUME NEW S \in SUBSET Ids, S # {}, \A x \in S : S \ {x} \in T PROVE S \in T
    <2> SUFFICES ASSUME S \subseteq D PROVE SumOf(f, S) = Cardinality(S \cap down)
      OBVIOUS
    <2>1. PICK x \in S : TRUE
      BY <1>2
    <2>2. \A z \in S : f[z] \in Nat
      OBVIOUS
    <2>3. SumOf(f, S) = f[x] + SumOf(f, S \ {x})
      BY <2>2, SumTakes
    <2>4. SumOf(f, S \ {x}) = Cardinality((S \ {x}) \cap down)
      BY <1>2
    <2> DEFINE P == S \cap down
    <2>5. P \in SUBSET Ids /\ Cardinality(P) \in Nat
      BY PartsAreFew
    <2>6. CASE x \in down
      <3>1. (S \ {x}) \cap down = P \ {x} /\ x \in P
        BY <2>6
      <3>2. Cardinality(P \ {x}) = Cardinality(P) - 1
        BY <2>5, <3>1, PartsAreFew
      <3>3. f[x] = 1
        BY <2>6
      <3>4. SumOf(f, S \ {x}) = Cardinality(P) - 1
        BY <2>4, <3>1, <3>2
      <3> HIDE DEF P
      <3>5. SumOf(f, S) = Cardinality(P)
        BY <2>3, <2>5, <3>3, <3>4
      <3> QED  BY <3>5 DEF P
    <2>7. CASE x \notin down
      <3>1. (S \ {x}) \cap down = P
        BY <2>7
      <3>2. f[x] = 0
        BY <2>7
      <3> QED  BY <2>3, <2>4, <2>5, <3>1, <3>2
    <2> QED  BY <2>6, <2>7
  <1>3. SUBSET Ids \subseteq T
    <2> HIDE DEF T
    <2> QED  BY <1>1, <1>2, SetBySet
  <1> QED  BY <1>3

\* Two sets that have nothing in common.
LEMMA SumOfBoth ==
    ASSUME NEW f, NEW A \in SUBSET Ids, NEW B \in SUBSET Ids, A \cap B = {}, \A x \in A \cup B : f[x] \in Nat
    PROVE  SumOf(f, A \cup B) = SumOf(f, A) + SumOf(f, B)
  <1> DEFINE T == {S \in SUBSET Ids : S \subseteq A => SumOf(f, S \cup B) = SumOf(f, S) + SumOf(f, B)}
  <1>0. SumOf(f, B) \in Nat
    BY SumTakes
  <1>1. {} \in T
    <2>1. {} \cup B = B
      OBVIOUS
    <2> QED  BY <1>0, <2>1, SumEmpty
  <1>2. ASSUME NEW S \in SUBSET Ids, S # {}, \A x \in S : S \ {x} \in T PROVE S \in T
    <2> SUFFICES ASSUME S \subseteq A PROVE SumOf(f, S \cup B) = SumOf(f, S) + SumOf(f, B)
      OBVIOUS
    <2>1. PICK x \in S : TRUE
      BY <1>2
    <2> DEFINE R == S \ {x}
               P == S \cup B
    <2>2. P \ {x} = R \cup B /\ x \in P /\ P \in SUBSET Ids /\ R \in SUBSET Ids
      BY <2>1
    <2>3. \A z \in P : f[z] \in Nat
      OBVIOUS
    <2>4. SumOf(f, S) = f[x] + SumOf(f, R) /\ SumOf(f, R) \in Nat /\ f[x] \in Nat
      <3>1. \A z \in S : f[z] \in Nat
        OBVIOUS
      <3>2. \A z \in R : f[z] \in Nat
        OBVIOUS
      <3>3. SumOf(f, S) = f[x] + SumOf(f, R)
        BY <2>1, <3>1, SumTakes
      <3>4. SumOf(f, R) \in Nat
        BY <3>2, SumTakes
      <3> QED  BY <2>1, <3>1, <3>3, <3>4
    <2>5. SumOf(f, P) = f[x] + SumOf(f, P \ {x})
      BY <2>2, <2>3, SumTakes
    <2>6. SumOf(f, R \cup B) = SumOf(f, R) + SumOf(f, B)
      BY <1>2, <2>1
    <2> HIDE DEF P, R
    <2>7. SumOf(f, P) = SumOf(f, S) + SumOf(f, B)
      BY <1>0, <2>2, <2>4, <2>5, <2>6
    <2> QED  BY <2>7 DEF P
  <1>3. SUBSET Ids \subseteq T
    <2> HIDE DEF T
    <2> QED  BY <1>1, <1>2, SetBySet
  <1> QED  BY <1>3

\* The sum of two functions.
LEMMA SumOfSums ==
    ASSUME NEW f, NEW g, NEW h, NEW D \in SUBSET Ids,
           \A x \in D : f[x] \in Nat /\ g[x] \in Nat /\ h[x] = f[x] + g[x]
    PROVE  SumOf(h, D) = SumOf(f, D) + SumOf(g, D)
  <1> DEFINE T == {S \in SUBSET Ids : S \subseteq D => SumOf(h, S) = SumOf(f, S) + SumOf(g, S)}
  <1>1. {} \in T
    BY SumEmpty
  <1>2. ASSUME NEW S \in SUBSET Ids, S # {}, \A x \in S : S \ {x} \in T PROVE S \in T
    <2> SUFFICES ASSUME S \subseteq D PROVE SumOf(h, S) = SumOf(f, S) + SumOf(g, S)
      OBVIOUS
    <2>1. PICK x \in S : TRUE
      BY <1>2
    <2> DEFINE R == S \ {x}
    <2>2. /\ \A z \in S : f[z] \in Nat
          /\ \A z \in S : g[z] \in Nat
          /\ \A z \in S : h[z] \in Nat
      OBVIOUS
    <2>3. /\ SumOf(f, S) = f[x] + SumOf(f, R)
          /\ SumOf(g, S) = g[x] + SumOf(g, R)
          /\ SumOf(h, S) = h[x] + SumOf(h, R)
      BY <2>2, SumTakes
    <2>4. R \in SUBSET Ids /\ R \subseteq S
      OBVIOUS
    <2>5. SumOf(f, R) \in Nat /\ SumOf(g, R) \in Nat
      BY <2>2, <2>4, SumTakes
    <2>6. SumOf(h, R) = SumOf(f, R) + SumOf(g, R)
      BY <1>2, <2>1
    <2>7. f[x] \in Nat /\ g[x] \in Nat /\ h[x] = f[x] + g[x]
      BY <2>1
    <2> HIDE DEF R
    <2> QED  BY <2>3, <2>5, <2>6, <2>7
  <1>3. SUBSET Ids \subseteq T
    <2> HIDE DEF T
    <2> QED  BY <1>1, <1>2, SetBySet
  <1> QED  BY <1>3

\* The union of the sets that K gives the elements of S.
Joined(K, S) == UNION {K[x] : x \in S}

\* h is what f adds up to over each of the parts, and those have nothing in common.
SumsOfParts(h, f, parts, D) ==
    /\ \A x \in D : parts[x] \in SUBSET Ids /\ h[x] = SumOf(f, parts[x]) /\ \A z \in parts[x] : f[z] \in Nat
    /\ \A x, y \in D : x # y => parts[x] \cap parts[y] = {}

\* The sum over devices of the sums over the children of each.
LEMMA SumOfChildren ==
    ASSUME NEW f, NEW h, NEW D \in SUBSET Ids, NEW parts, SumsOfParts(h, f, parts, D)
    PROVE  SumOf(h, D) = SumOf(f, Joined(parts, D))
  <1> USE DEF SumsOfParts
  <1> DEFINE Of(S) == UNION {parts[x] : x \in S}
             T == {S \in SUBSET Ids : S \subseteq D => SumOf(h, S) = SumOf(f, Of(S))}
  <1>0. \A x \in D : h[x] \in Nat
    <2> SUFFICES ASSUME NEW x \in D PROVE h[x] \in Nat
      OBVIOUS
    <2> DEFINE K == parts[x]
    <2>1. K \in SUBSET Ids /\ \A z \in K : f[z] \in Nat
      OBVIOUS
    <2> HIDE DEF K
    <2>2. SumOf(f, K) \in Nat
      BY <2>1, SumTakes
    <2> QED  BY <2>2 DEF K
  <1>1. {} \in T
    <2>1. Of({}) = {}
      OBVIOUS
    <2> QED  BY <2>1, SumEmpty
  <1>2. ASSUME NEW S \in SUBSET Ids, S # {}, \A x \in S : S \ {x} \in T PROVE S \in T
    <2> SUFFICES ASSUME S \subseteq D PROVE SumOf(h, S) = SumOf(f, Of(S))
      OBVIOUS
    <2>1. PICK x \in S : TRUE
      BY <1>2
    <2> DEFINE R == S \ {x}
               A == parts[x]
               B == Of(R)
    <2>2. Of(S) = A \cup B
      BY <2>1
    <2>3. A \in SUBSET Ids /\ B \in SUBSET Ids /\ \A z \in A \cup B : f[z] \in Nat
      OBVIOUS
    <2>4. A \cap B = {}
      OBVIOUS
    <2>5. SumOf(h, S) = h[x] + SumOf(h, R)
      BY <1>0, <2>1, SumTakes
    <2>6. SumOf(h, R) = SumOf(f, B) /\ h[x] = SumOf(f, A)
      BY <1>2, <2>1
    <2> HIDE DEF A, B, Of
    <2>7. SumOf(f, A \cup B) = SumOf(f, A) + SumOf(f, B)
      BY <2>3, <2>4, SumOfBoth
    <2> QED  BY <2>2, <2>5, <2>6, <2>7
  <1>3. SUBSET Ids \subseteq T
    <2> HIDE DEF T, Of
    <2> QED  BY <1>1, <1>2, SetBySet
  <1>4. SumOf(h, D) = SumOf(f, Of(D))
    BY <1>3
  <1> QED  BY <1>4 DEF Joined

-----------------------------------------------------------------------------
(* The alerts of the tree: what is counted at a device                      *)

\* As many devices as there may be.
Height == Cardinality(Ids)

\* It is a number, and the one SubtreeAlerts and Drawn count to.
LEMMA HeightIs == Height \in Nat /\ Stock!Cardinality(Ids) = Height
  BY PartsAreFew, CountIs DEF Height

\* One step up.
Up(v) == IF Stock!Nested(v) THEN Stock!ParentNode(v) ELSE v

\* The children of some devices.
Kids(R) == UNION {Stock!Children(d) : d \in R}

\* What a device counts for itself (SubtreeAlerts).
One(d, down) == IF d \in down THEN 1 ELSE 0

\* The devices of the tree, their parents and their children are among the rows.
LEMMA ShownAre ==
    ASSUME Sound(row)
    PROVE  /\ Stock!Shown \in SUBSET Ids /\ Stock!Roots \in SUBSET Stock!Shown
           /\ Stock!Shown \subseteq DOMAIN row
           /\ \A d : Stock!Children(d) \in SUBSET Stock!Shown
           /\ \A d : Stock!Nested(d) => Stock!ParentNode(d) \in Stock!Shown
           /\ \A d \in Stock!Shown : Up(d) \in Stock!Shown
  <1>1. /\ Stock!Shown \in SUBSET Ids /\ Stock!Roots \in SUBSET Stock!Shown
        /\ Stock!Shown \subseteq DOMAIN row
        /\ \A d : Stock!Children(d) \in SUBSET Stock!Shown
    BY DEF Sound, Stock!Shown, Stock!Roots, Stock!Children
  <1>2. \A d : Stock!Nested(d) => Stock!ParentNode(d) \in Stock!Shown
    BY DEF Stock!Nested, Stock!ParentNode
  <1> QED  BY <1>1, <1>2 DEF Up

\* The way up from d, as far as it goes (Drawn).
Climbs(c, d) ==
    /\ c \in [0 .. Height -> Stock!Shown] /\ c[0] = d
    /\ \A i \in 1 .. Height : c[i] = Up(c[i - 1])

\* There is such a way, and it decides whether d is drawn.
LEMMA ClimbIs ==
    ASSUME Sound(row), NEW d \in Stock!Shown
    PROVE  \E c : Climbs(c, d) /\ (Stock!Drawn(d) <=> c[Height] \in Stock!Roots)
  <1> DEFINE N == Height
             V == Stock!Shown
             Is(c) == c = [n \in 0 .. N |-> IF n = 0 THEN d ELSE Up(c[n - 1])]
             F == [i \in 1 .. N |-> [v \in V |-> Up(v)]]
             a == CHOOSE c : Is(c)
  <1>1. N \in Nat
    BY HeightIs
  <1>2. Stock!Drawn(d) <=> a[N] \in Stock!Roots
    <2>1. Stock!Drawn(d) <=>
              (CHOOSE c : c = [n \in 0 .. Stock!Cardinality(Ids) |-> IF n = 0 THEN d
                                   ELSE IF Stock!Nested(c[n - 1]) THEN Stock!ParentNode(c[n - 1]) ELSE c[n - 1]])
                 [Stock!Cardinality(Ids)] \in Stock!Roots
      BY DEF Stock!Drawn
    <2> QED  BY <2>1, HeightIs DEF Up
  <1>3. F \in Steps(N, V)
    BY ShownAre DEF Steps
  <1>4. PICK c : Follows(c, N, V, d, F)
    <2> HIDE DEF N, F, V
    <2>1. d \in V
      BY DEF V
    <2> QED  BY <1>1, <1>3, <2>1, Recursion
  <1>5. c \in [0 .. N -> V] /\ c[0] = d /\ \A i \in 1 .. N : c[i] = F[i][c[i - 1]]
    BY <1>4 DEF Follows
  <1>6. \A i \in 1 .. N : c[i - 1] \in V /\ c[i] = Up(c[i - 1])
    <2> SUFFICES ASSUME NEW i \in 1 .. N PROVE c[i - 1] \in V /\ c[i] = Up(c[i - 1])
      OBVIOUS
    <2>1. i - 1 \in 0 .. N
      BY <1>1
    <2>2. c[i - 1] \in V
      BY <1>5, <2>1
    <2>3. c[i] = F[i][c[i - 1]] /\ F[i] = [v \in V |-> Up(v)]
      BY <1>5
    <2> QED  BY <2>2, <2>3
  <1>7. Is(c)
    <2>1. \A n \in 0 .. N : c[n] = IF n = 0 THEN d ELSE Up(c[n - 1])
      BY <1>1, <1>5, <1>6
    <2> QED  BY <1>5, <2>1
  <1>8. Is(a)
    <2> HIDE DEF Is
    <2> QED  BY <1>7
  <1>9. a[N] = c[N]
    <2> HIDE DEF a, V, F
    <2> DEFINE T == {j \in 0 .. N : a[j] = c[j]}
    <2>1. 0 \in T
      BY <1>1, <1>5, <1>8
    <2>2. ASSUME NEW j \in 0 .. N, j \in T, j < N PROVE j + 1 \in T
      <3>1. j + 1 \in 1 .. N /\ (j + 1) - 1 = j /\ j + 1 \in 0 .. N
        BY <1>1, <2>2
      <3>2. a[j + 1] = Up(a[j])
        BY <1>8, <3>1
      <3> QED  BY <1>6, <2>2, <3>1, <3>2
    <2>3. 0 .. N \subseteq T
      <3> HIDE DEF T, N
      <3> QED  BY <1>1, <2>1, <2>2, UpTo
    <2> QED  BY <1>1, <2>3
  <1>10. Climbs(c, d)
    BY <1>5, <1>6 DEF Climbs
  <1> QED  BY <1>2, <1>9, <1>10

\* The alerts below each device, level by level.
Totals(t, down) ==
    /\ t \in [0 .. Height -> [Stock!Shown -> Nat]]
    /\ \A d \in Stock!Shown : t[0][d] = One(d, down)
    /\ \A i \in 1 .. Height : \A d \in Stock!Shown :
           t[i][d] = One(d, down) + SumOf(t[i - 1], Stock!Children(d))

\* There are such numbers, and SubtreeAlerts gives the last of them.
LEMMA TotalsAre ==
    ASSUME Sound(row), NEW down
    PROVE  \E t : Totals(t, down) /\ Stock!SubtreeAlerts(down) = t[Height]
  <1> DEFINE N == Height
             V == [Stock!Shown -> Nat]
             Add(v) == [d \in Stock!Shown |-> One(d, down) + SumOf(v, Stock!Children(d))]
             ones == [d \in Stock!Shown |-> One(d, down)]
             Is(t) == t = [n \in 0 .. N |-> [d \in Stock!Shown |->
                              One(d, down) + IF n = 0 THEN 0 ELSE SumOf(t[n - 1], Stock!Children(d))]]
             F == [i \in 1 .. N |-> [v \in V |-> Add(v)]]
             a == CHOOSE t : Is(t)
  <1>1. N \in Nat
    BY HeightIs
  <1>2. Stock!SubtreeAlerts(down) = a[N]
    <2>1. Stock!SubtreeAlerts(down) =
              (CHOOSE t : t = [n \in 0 .. Stock!Cardinality(Ids) |-> [d \in Stock!Shown |->
                    (IF d \in down THEN 1 ELSE 0)
                    + (IF n = 0 THEN 0 ELSE Stock!MapThenSumSet(LAMBDA c : t[n - 1][c], Stock!Children(d)))]])
                 [Stock!Cardinality(Ids)]
      BY DEF Stock!SubtreeAlerts
    <2> QED  BY <2>1, HeightIs DEF Stock!MapThenSumSet, Stock!MapThenFoldSet, SumOf, One
  <1>a. ones \in V /\ \A d : One(d, down) \in Nat
    BY DEF One
  <1>b. \A v \in V : Add(v) \in V
    <2> SUFFICES ASSUME NEW v \in V, NEW d \in Stock!Shown PROVE SumOf(v, Stock!Children(d)) \in Nat
      BY <1>a
    <2> DEFINE K == Stock!Children(d)
    <2>1. K \in SUBSET Ids /\ \A x \in K : v[x] \in Nat
      BY ShownAre
    <2> HIDE DEF K
    <2>2. SumOf(v, K) \in Nat
      BY <2>1, SumTakes
    <2> QED  BY <2>2 DEF K
  <1>3. F \in Steps(N, V)
    <2> HIDE DEF V, Add
    <2> QED  BY <1>b DEF Steps
  <1>4. PICK t : Follows(t, N, V, ones, F)
    <2> HIDE DEF N, F, V, ones
    <2> QED  BY <1>1, <1>3, <1>a, Recursion
  <1>5. t \in [0 .. N -> V] /\ t[0] = ones /\ \A i \in 1 .. N : t[i] = F[i][t[i - 1]]
    BY <1>4 DEF Follows
  <1>6. \A i \in 1 .. N : t[i] = Add(t[i - 1])
    <2> SUFFICES ASSUME NEW i \in 1 .. N PROVE t[i] = Add(t[i - 1])
      OBVIOUS
    <2> HIDE DEF Add, V
    <2>1. i - 1 \in 0 .. N
      BY <1>1
    <2>2. t[i - 1] \in V
      BY <1>5, <2>1
    <2>3. t[i] = F[i][t[i - 1]] /\ F[i] = [v \in V |-> Add(v)]
      BY <1>5
    <2> QED  BY <2>2, <2>3
  <1>7. Is(t)
    <2>1. ASSUME NEW n \in 0 .. N
          PROVE  t[n] = [d \in Stock!Shown |-> One(d, down) + IF n = 0 THEN 0 ELSE SumOf(t[n - 1], Stock!Children(d))]
      <3>1. CASE n = 0
        BY <1>5, <1>a, <3>1
      <3>2. CASE n # 0
        <4>1. n \in 1 .. N
          BY <1>1, <3>2
        <4> QED  BY <1>6, <3>2, <4>1
      <3> QED  BY <3>1, <3>2
    <2> QED  BY <1>5, <2>1
  <1>8. Is(a)
    <2> HIDE DEF Is
    <2> QED  BY <1>7
  <1>9. a[N] = t[N]
    <2> HIDE DEF a, V, F
    <2> DEFINE T == {j \in 0 .. N : a[j] = t[j]}
    <2>1. 0 \in T
      BY <1>1, <1>7, <1>8
    <2>2. ASSUME NEW j \in 0 .. N, j \in T, j < N PROVE j + 1 \in T
      <3>1. j + 1 \in 1 .. N /\ (j + 1) - 1 = j /\ j + 1 \in 0 .. N
        BY <1>1, <2>2
      <3>2. a[j + 1] = Add(a[j])
        BY <1>8, <3>1
      <3>3. t[j + 1] = Add(t[j])
        BY <1>6, <3>1
      <3> HIDE DEF Add
      <3> QED  BY <2>2, <3>1, <3>2, <3>3
    <2>3. 0 .. N \subseteq T
      <3> HIDE DEF T, N
      <3> QED  BY <1>1, <2>1, <2>2, UpTo
    <2> QED  BY <1>1, <2>3
  <1>10. Totals(t, down)
    <2>1. \A d \in Stock!Shown : t[0][d] = One(d, down)
      BY <1>5
    <2>2. \A i \in 1 .. N : \A d \in Stock!Shown : t[i][d] = One(d, down) + SumOf(t[i - 1], Stock!Children(d))
      BY <1>6
    <2> QED  BY <1>5, <2>1, <2>2 DEF Totals
  <1> QED  BY <1>2, <1>9, <1>10

-----------------------------------------------------------------------------
(* The devices of the tree, by their distance from the top                  *)

\* The devices at each distance from the top.
Layers(y) ==
    /\ y \in [0 .. Height -> SUBSET Stock!Shown] /\ y[0] = Stock!Roots
    /\ \A k \in 1 .. Height : y[k] = Kids(y[k - 1])

\* There are such layers.
LEMMA LayersAre == Sound(row) => \E y : Layers(y)
  <1> SUFFICES ASSUME Sound(row) PROVE \E y : Layers(y)
    OBVIOUS
  <1> DEFINE N == Height
             V == SUBSET Stock!Shown
             top == Stock!Roots
             F == [i \in 1 .. N |-> [R \in V |-> Kids(R)]]
  <1>1. N \in Nat /\ top \in V
    BY HeightIs, ShownAre
  <1>2. F \in Steps(N, V)
    <2>1. \A R \in V : Kids(R) \in V
      BY ShownAre DEF Kids
    <2> QED  BY <2>1 DEF Steps
  <1>3. PICK y : Follows(y, N, V, top, F)
    <2> HIDE DEF N, F, V, top
    <2> QED  BY <1>1, <1>2, Recursion
  <1>4. y \in [0 .. N -> V] /\ y[0] = top /\ \A i \in 1 .. N : y[i] = F[i][y[i - 1]]
    BY <1>3 DEF Follows
  <1>5. \A i \in 1 .. N : y[i] = Kids(y[i - 1])
    <2> SUFFICES ASSUME NEW i \in 1 .. N PROVE y[i] = Kids(y[i - 1])
      OBVIOUS
    <2>1. i - 1 \in 0 .. N
      BY <1>1
    <2>2. y[i - 1] \in V
      BY <1>4, <2>1
    <2>3. y[i] = F[i][y[i - 1]] /\ F[i] = [R \in V |-> Kids(R)]
      BY <1>4
    <2> QED  BY <2>2, <2>3
  <1> QED  BY <1>4, <1>5 DEF Layers

\* A child is a nested device whose parent is one of those.
LEMMA KidsAre ==
    ASSUME Sound(row), NEW R \in SUBSET Stock!Shown, NEW x
    PROVE  x \in Kids(R) <=> x \in Stock!Shown /\ Stock!Nested(x) /\ Stock!ParentNode(x) \in R
  BY DEF Kids, Stock!Children

\* No device is in two layers.
LEMMA LayersApart ==
    ASSUME Sound(row), NEW y, Layers(y)
    PROVE  \A j, k \in 0 .. Height : j < k => y[j] \cap y[k] = {}
  <1> DEFINE N == Height
             T == {j \in 0 .. N : \A k \in 0 .. N : j < k => y[j] \cap y[k] = {}}
  <1>1. N \in Nat
    BY HeightIs
  <1>2. \A k \in 1 .. N : k - 1 \in 0 .. N /\ y[k - 1] \in SUBSET Stock!Shown /\ y[k] = Kids(y[k - 1])
    BY <1>1 DEF Layers
  <1>3. 0 \in T
    <2>1. ASSUME NEW k \in 0 .. N, 0 < k, NEW x \in y[0], x \in y[k] PROVE FALSE
      <3>1. k \in 1 .. N
        BY <1>1, <2>1
      <3>2. Stock!Nested(x)
        BY <1>2, <2>1, <3>1, KidsAre
      <3> QED  BY <2>1, <3>2 DEF Layers, Stock!Roots
    <2> QED  BY <1>1, <2>1
  <1>4. ASSUME NEW j \in 0 .. N, j \in T, j < N PROVE j + 1 \in T
    <2>1. j + 1 \in 1 .. N /\ j + 1 \in 0 .. N /\ (j + 1) - 1 = j
      BY <1>1, <1>4
    <2>2. ASSUME NEW k \in 0 .. N, j + 1 < k, NEW x \in y[j + 1], x \in y[k] PROVE FALSE
      <3>1. k \in 1 .. N /\ k - 1 \in 0 .. N /\ j < k - 1
        BY <1>1, <1>4, <2>2
      <3> DEFINE p == Stock!ParentNode(x)
      <3>2. p \in y[j]
        BY <1>2, <2>1, <2>2, KidsAre
      <3>3. p \in y[k - 1]
        BY <1>2, <2>2, <3>1, KidsAre
      <3> QED  BY <1>4, <3>1, <3>2, <3>3
    <2> QED  BY <2>1, <2>2
  <1>5. 0 .. N \subseteq T
    <2> HIDE DEF T, N
    <2> QED  BY <1>1, <1>3, <1>4, UpTo
  <1> QED  BY <1>5

\* What is drawn is in a layer.
LEMMA DrawnIs ==
    ASSUME Sound(row), NEW y, Layers(y), NEW d \in Stock!Shown
    PROVE  Stock!Drawn(d) <=> \E k \in 0 .. Height : d \in y[k]
  <1> DEFINE N == Height
  <1>1. PICK c : Climbs(c, d) /\ (Stock!Drawn(d) <=> c[N] \in Stock!Roots)
    BY ClimbIs
  <1>2. N \in Nat
    BY HeightIs
  <1> DEFINE In(x, n) == \E k \in 0 .. n : x \in y[k]
             T == {i \in 0 .. N : In(d, N) <=> In(c[i], N - i)}
  <1>3. 0 \in T
    BY <1>1, <1>2 DEF Climbs
  <1>4. ASSUME NEW i \in 0 .. N, i \in T, i < N PROVE i + 1 \in T
    <2> DEFINE x == c[i]
               n == N - i
    <2>1. /\ i + 1 \in 1 .. N /\ i + 1 \in 0 .. N /\ (i + 1) - 1 = i /\ N - (i + 1) = n - 1
          /\ n \in 1 .. N /\ n - 1 \in 0 .. N
      BY <1>2, <1>4
    <2>2. x \in Stock!Shown /\ c[i + 1] = Up(x)
      BY <1>1, <2>1 DEF Climbs
    <2>3. \A k \in 1 .. N : k - 1 \in 0 .. N /\ y[k - 1] \in SUBSET Stock!Shown /\ y[k] = Kids(y[k - 1])
      BY <1>2 DEF Layers
    <2> HIDE DEF x, n, N
    <2>4. CASE Stock!Nested(x)
      <3> DEFINE p == Stock!ParentNode(x)
      <3>1. Up(x) = p
        BY <2>4 DEF Up
      <3>2. \A k \in 1 .. N : x \in y[k] <=> p \in y[k - 1]
        BY <2>2, <2>3, <2>4, KidsAre
      <3>3. x \notin y[0]
        BY <2>4 DEF Layers, Stock!Roots
      <3>4. In(x, n) => In(p, n - 1)
        <4> SUFFICES ASSUME NEW k \in 0 .. n, x \in y[k] PROVE In(p, n - 1)
          OBVIOUS
        <4>1. k \in 1 .. N /\ k - 1 \in 0 .. n - 1
          BY <1>2, <2>1, <3>3
        <4> QED  BY <3>2, <4>1
      <3>5. In(p, n - 1) => In(x, n)
        <4> SUFFICES ASSUME NEW k \in 0 .. n - 1, p \in y[k] PROVE In(x, n)
          OBVIOUS
        <4>1. k + 1 \in 1 .. N /\ (k + 1) - 1 = k /\ k + 1 \in 0 .. n
          BY <1>2, <2>1
        <4> QED  BY <3>2, <4>1
      <3> QED  BY <1>4, <2>1, <2>2, <3>1, <3>4, <3>5 DEF x, n
    <2>5. CASE ~Stock!Nested(x)
      <3>1. Up(x) = x
        BY <2>5 DEF Up
      <3>2. x \in y[0]
        BY <2>2, <2>5 DEF Layers, Stock!Roots
      <3>3. 0 \in 0 .. n /\ 0 \in 0 .. n - 1
        BY <1>2, <2>1
      <3>4. In(x, n) /\ In(x, n - 1)
        BY <3>2, <3>3
      <3> QED  BY <1>4, <2>1, <2>2, <3>1, <3>4 DEF x, n
    <2> QED  BY <2>4, <2>5
  <1>5. N \in T
    <2> HIDE DEF T, N
    <2>1. 0 .. N \subseteq T
      BY <1>2, <1>3, <1>4, UpTo
    <2> QED  BY <1>2, <2>1
  <1>6. In(c[N], 0) <=> c[N] \in Stock!Roots
    <2>1. y[0] = Stock!Roots
      BY DEF Layers
    <2>2. 0 .. 0 = {0}
      OBVIOUS
    <2> QED  BY <2>1, <2>2
  <1> QED  BY <1>1, <1>2, <1>5, <1>6

\* The devices of a branch.
Home(names) == {d \in Stock!Shown : \A l \in 1 .. Len(names) : Stock!Branch(d)[l] = names[l]}

\* A device is drawn at its parent's.
LEMMA HomeKept ==
    ASSUME Sound(row), NEW names, NEW x \in Stock!Shown, Stock!Nested(x)
    PROVE  x \in Home(names) <=> Stock!ParentNode(x) \in Home(names)
  <1> DEFINE p == Stock!ParentNode(x)
  <1>1. p \in Stock!Shown /\ row[p].path = row[x].path
    BY ShownAre DEF Stock!Nested
  <1> HIDE DEF p
  <1>2. Stock!Branch(p) = Stock!Branch(x)
    BY <1>1 DEF Stock!Branch
  <1> QED  BY <1>1, <1>2 DEF Home, p

\* What a layer counts: itself and the next one.
Counts(y, t, down, names, k) ==
    /\ SumOf(t[Height - k], y[k] \cap Home(names)) \in Nat
    /\ SumOf(t[Height - k], y[k] \cap Home(names))
         = Cardinality((y[k] \cap Home(names)) \cap down)
           + IF k = Height THEN 0
             ELSE SumOf(t[Height - (k + 1)], y[k + 1] \cap Home(names))

\* What is counted at a layer of a branch, from the next one.
LEMMA LayerCounts ==
    ASSUME Sound(row), NEW y, Layers(y), NEW down, NEW t, Totals(t, down), NEW names, NEW k \in 0 .. Height
    PROVE  Counts(y, t, down, names, k)
  <1> DEFINE N == Height
             H == Home(names)
             R == y[k] \cap H
             ones == [d \in Stock!Shown |-> One(d, down)]
             f == t[N - k]
  <1>1. N \in Nat /\ N - k \in 0 .. N
    BY HeightIs
  <1>2. R \in SUBSET Ids /\ R \subseteq Stock!Shown /\ y[k] \in SUBSET Stock!Shown
    BY ShownAre DEF Layers
  <1>3. f \in [Stock!Shown -> Nat]
    BY <1>1 DEF Totals
  <1> HIDE DEF R, H, f
  <1>4. SumOf(f, R) \in Nat
    BY <1>2, <1>3, SumTakes
  <1>5. SumOf(ones, R) = Cardinality(R \cap down)
    <2>1. \A d \in R : ones[d] = IF d \in down THEN 1 ELSE 0
      BY <1>2 DEF One
    <2> HIDE DEF ones
    <2> QED  BY <1>2, <2>1, SumOfOnes
  <1>6. CASE k = N
    <2>1. \A d \in R : ones[d] \in Nat /\ f[d] = ones[d]
      BY <1>1, <1>2, <1>6 DEF Totals, f, One
    <2> HIDE DEF ones
    <2>2. SumOf(f, R) = SumOf(ones, R)
      BY <1>2, <2>1, SumSame
    <2>3. Cardinality(R \cap down) \in Nat
      BY <1>2, PartsAreFew
    <2> QED  BY <1>4, <1>5, <1>6, <2>2, <2>3 DEF R, H, f, Counts
  <1>7. CASE k # N
    <2> DEFINE g == t[N - (k + 1)]
               K == [d \in R |-> Stock!Children(d)]
               h == [d \in R |-> SumOf(g, Stock!Children(d))]
               all == Stock!Shown
               Q == y[k + 1] \cap H
    <2>1. N - k \in 1 .. N /\ (N - k) - 1 = N - (k + 1) /\ N - (k + 1) \in 0 .. N
          /\ k + 1 \in 1 .. N /\ (k + 1) - 1 = k
      BY <1>1, <1>7
    <2>2. g \in [Stock!Shown -> Nat]
      BY <2>1 DEF Totals
    <2>3. \A d \in R : f[d] = ones[d] + SumOf(g, Stock!Children(d))
      BY <1>2, <2>1 DEF Totals, f
    <2> HIDE DEF g
    <2>4. \A d \in R : SumOf(g, Stock!Children(d)) \in Nat
      <3> SUFFICES ASSUME NEW d \in R PROVE SumOf(g, Stock!Children(d)) \in Nat
        OBVIOUS
      <3> DEFINE C == Stock!Children(d)
      <3>1. C \in SUBSET Ids /\ \A z \in C : g[z] \in Nat
        BY <2>2, ShownAre
      <3> HIDE DEF C
      <3>2. SumOf(g, C) \in Nat
        BY <3>1, SumTakes
      <3> QED  BY <3>2 DEF C
    <2>5. SumOf(f, R) = SumOf(ones, R) + SumOf(h, R)
      <3>1. \A d \in R : ones[d] \in Nat /\ h[d] \in Nat /\ f[d] = ones[d] + h[d]
        BY <1>2, <2>3, <2>4 DEF One
      <3> HIDE DEF ones, h
      <3> QED  BY <1>2, <3>1, SumOfSums
    <2>6. SumOf(h, R) = SumOf(g, Joined(K, R))
      <3>1. \A d \in R : K[d] \in SUBSET all /\ h[d] = SumOf(g, K[d])
        BY ShownAre
      <3>2. \A d, e \in R : d # e => K[d] \cap K[e] = {}
        BY DEF Stock!Children
      <3>3. all \in SUBSET Ids /\ \A z \in all : g[z] \in Nat
        BY <2>2, ShownAre
      <3>4. \A d, e \in R : d # e => K[d] \cap K[e] = {}
        BY <3>2
      <3>5. R \in SUBSET Ids
        BY <1>2
      <3>6. PICK kk : kk = K
        OBVIOUS
      <3>7. PICK hh : hh = h
        OBVIOUS
      <3> HIDE DEF K, h, all
      <3>8. /\ \A d \in R : kk[d] \in SUBSET all /\ hh[d] = SumOf(g, kk[d])
            /\ \A d, e \in R : d # e => kk[d] \cap kk[e] = {}
        BY <3>1, <3>4, <3>6, <3>7
      <3>9. SumOf(hh, R) = SumOf(g, Joined(kk, R))
        <4>1. SumsOfParts(hh, g, kk, R)
          BY <3>3, <3>8 DEF SumsOfParts
        <4> QED  BY <3>5, <4>1, SumOfChildren
      <3> QED  BY ONLY <3>6, <3>7, <3>9
    <2>7. Joined(K, R) = Q
      <3>1. y[k + 1] = Kids(y[k])
        BY <2>1 DEF Layers
      <3>2. \A x : x \in y[k + 1] <=> x \in Stock!Shown /\ Stock!Nested(x) /\ Stock!ParentNode(x) \in y[k]
        BY <1>2, <3>1, KidsAre
      <3>3. \A x : x \in Q <=> x \in Stock!Shown /\ Stock!Nested(x) /\ Stock!ParentNode(x) \in R
        BY <3>2, HomeKept DEF R, H
      <3>4. \A x : x \in Joined(K, R) <=>
                      x \in Stock!Shown /\ Stock!Nested(x) /\ Stock!ParentNode(x) \in R
        BY DEF Stock!Children, Joined
      <3> HIDE DEF K, Q
      <3> QED  BY <3>3, <3>4
    <2>8. SumOf(f, R) = Cardinality(R \cap down) + SumOf(g, Q)
      BY <1>5, <2>5, <2>6, <2>7
    <2> QED  BY <1>4, <1>7, <2>8 DEF R, H, f, g, N, Counts
  <1> QED  BY <1>6, <1>7 DEF Counts

\* From the top down: what the first layers hold of the down devices, and what is counted
\* from the next on.
LEMMA TreeCounts ==
    ASSUME Sound(row), NEW y, Layers(y), NEW down, NEW t, Totals(t, down), NEW names
    PROVE  SumOf(t[Height], Stock!Roots \cap Home(names))
             = Cardinality({d \in Home(names) \cap down : \E k \in 0 .. Height : d \in y[k]})
  <1> DEFINE N == Height
             H == Home(names)
             S(k) == SumOf(t[N - k], y[k] \cap H)
             D(k) == {d \in H \cap down : \E j \in 0 .. k : d \in y[j]}
             P(k) == y[k] \cap H \cap down
             After(k) == IF k = N THEN 0 ELSE S(k + 1)
             T == {k \in 0 .. N : S(0) = Cardinality(D(k)) + After(k)}
  <1>1. N \in Nat
    BY HeightIs
  <1>2. \A k \in 0 .. N : S(k) \in Nat /\ S(k) = Cardinality(P(k)) + After(k)
    <2> SUFFICES ASSUME NEW k \in 0 .. N PROVE S(k) \in Nat /\ S(k) = Cardinality(P(k)) + After(k)
      OBVIOUS
    <2>1. Counts(y, t, down, names, k)
      BY LayerCounts
    <2> QED  BY <2>1 DEF Counts
  <1>3. \A k \in 0 .. N : After(k) \in Nat
    <2>1. \A k \in 0 .. N : k # N => k + 1 \in 0 .. N
      BY <1>1
    <2> HIDE DEF N, S
    <2> QED  BY <1>2, <2>1
  <1>4. \A k : D(k) \in SUBSET Ids /\ P(k) \in SUBSET Ids
    BY ShownAre DEF Home
  <1>5. 0 \in T
    <2>1. D(0) = P(0)
      OBVIOUS
    <2>2. 0 \in 0 .. N
      BY <1>1
    <2> HIDE DEF D, P, S, After, N
    <2> QED  BY <1>2, <2>1, <2>2
  <1>6. ASSUME NEW k \in 0 .. N, k \in T, k < N PROVE k + 1 \in T
    <2>1. k + 1 \in 0 .. N /\ k # N
      BY <1>1, <1>6
    <2>2. D(k + 1) = D(k) \cup P(k + 1)
      <3>1. \A j : j \in 0 .. k + 1 <=> j \in 0 .. k \/ j = k + 1
        BY <1>1
      <3> QED  BY <3>1
    <2>3. D(k) \cap P(k + 1) = {}
      <3>1. \A j \in 0 .. k : j \in 0 .. N /\ j < k + 1
        BY <1>1, <1>6
      <3>2. \A j \in 0 .. k : y[j] \cap y[k + 1] = {}
        BY <2>1, <3>1, LayersApart
      <3> QED  BY <3>2
    <2>4. S(0) = Cardinality(D(k)) + S(k + 1)
      BY <1>6, <2>1
    <2> HIDE DEF D, P, S, After
    <2>5. S(k + 1) = Cardinality(P(k + 1)) + After(k + 1)
      BY <1>2, <2>1
    <2>6. Cardinality(D(k + 1)) = Cardinality(D(k)) + Cardinality(P(k + 1))
      BY <1>4, <2>2, <2>3, Together
    <2>7. Cardinality(D(k)) \in Nat /\ Cardinality(P(k + 1)) \in Nat /\ After(k + 1) \in Nat
      BY <1>3, <1>4, <2>1, PartsAreFew
    <2>8. S(0) = Cardinality(D(k + 1)) + After(k + 1)
      BY <2>4, <2>5, <2>6, <2>7
    <2> QED  BY <2>1, <2>8
  <1>7. N \in T
    <2> HIDE DEF T, N
    <2>1. 0 .. N \subseteq T
      BY <1>1, <1>5, <1>6, UpTo
    <2> QED  BY <1>1, <2>1
  <1>8. S(0) = Cardinality(D(N))
    <2>1. Cardinality(D(N)) \in Nat
      BY <1>4, PartsAreFew
    <2> HIDE DEF S, D
    <2> QED  BY <1>7, <2>1
  <1>9. y[0] = Stock!Roots /\ N - 0 = N
    BY <1>1 DEF Layers
  <1> QED  BY <1>8, <1>9

\* The first names of two paths are the same.
LEMMA PrefixIs ==
    ASSUME NEW s \in [1 .. Depth -> Names], NEW r \in [1 .. Depth -> Names], NEW l \in 1 .. Depth
    PROVE  /\ Len(SubSeq(r, 1, l)) = l
           /\ SubSeq(s, 1, l) = SubSeq(r, 1, l) <=> \A i \in 1 .. l : s[i] = SubSeq(r, 1, l)[i]
  <1>1. Depth \in Nat
    BY StockAssumption DEF Stock!LevelAssumption
  <1>2. ASSUME NEW w \in [1 .. Depth -> Names]
        PROVE  SubSeq(w, 1, l) = [i \in 1 .. l |-> w[i]] /\ Len(SubSeq(w, 1, l)) = l
    <2>1. w \in Seq(Names) /\ Len(w) = Depth
      BY <1>1
    <2>2. l \in 1 .. Len(w)
      BY <2>1
    <2> QED  BY <1>1, <2>1, <2>2
  <1>3. SubSeq(s, 1, l) = [i \in 1 .. l |-> s[i]] /\ SubSeq(r, 1, l) = [i \in 1 .. l |-> r[i]]
        /\ Len(SubSeq(r, 1, l)) = l
    BY <1>2
  <1> QED  BY <1>3

\* What TreeAddsUp says of a branch.
Adds(branch, down) ==
    Stock!Number(branch, Stock!SubtreeAlerts(down))
      = Stock!Cardinality({d \in {d \in Stock!Shown : Stock!Drawn(d)} \cap down :
                              SubSeq(Stock!Branch(d), 1, Len(branch)) = branch})

\* The number at every branch is how many of the drawn devices there are down.
LEMMA BranchAdds ==
    ASSUME Sound(row), NEW down \in SUBSET DOMAIN row, NEW e \in Stock!Shown, NEW l \in 1 .. Depth
    PROVE  Adds(SubSeq(Stock!Branch(e), 1, l), down)
  <1> DEFINE b == SubSeq(Stock!Branch(e), 1, l)
             alerts == Stock!SubtreeAlerts(down)
             there == {d \in {d \in Stock!Shown : Stock!Drawn(d)} \cap down :
                          SubSeq(Stock!Branch(d), 1, Len(b)) = b}
  <1>1. Stock!Number(b, alerts) = SumOf(alerts, Stock!Roots \cap Home(b))
    <2>1. Stock!Number(b, alerts)
            = SumOf(alerts, {d \in Stock!Roots : \A i \in 1 .. Len(b) : Stock!Branch(d)[i] = b[i]})
      BY DEF Stock!MapThenSumSet, Stock!MapThenFoldSet, SumOf, Stock!Number
    <2> HIDE DEF b
    <2>2. {d \in Stock!Roots : \A i \in 1 .. Len(b) : Stock!Branch(d)[i] = b[i]} = Stock!Roots \cap Home(b)
      BY ShownAre DEF Home
    <2> QED  BY <2>1, <2>2
  <1>2. PICK y : Layers(y)
    BY LayersAre
  <1>3. PICK t : Totals(t, down) /\ alerts = t[Height]
    BY TotalsAre
  <1> DEFINE counted == {d \in Home(b) \cap down : \E k \in 0 .. Height : d \in y[k]}
  <1>4. SumOf(t[Height], Stock!Roots \cap Home(b)) = Cardinality(counted)
    <2> HIDE DEF b
    <2> QED  BY <1>2, <1>3, TreeCounts
  <1>5. there = counted
    <2>1. \A d \in Stock!Shown : Stock!Branch(d) \in [1 .. Depth -> Names]
      <3>1. Blank \in Names /\ Unassigned \in Names
        BY StockAssumption DEF Stock!SetsAssumption
      <3>2. \A d \in Stock!Shown : row[d].path \in [1 .. Depth -> Names]
        BY ShownAre DEF Sound, Stock!Row, Stock!Paths
      <3> QED  BY <3>1, <3>2 DEF Stock!Branch
    <2>2. \A d \in Stock!Shown : SubSeq(Stock!Branch(d), 1, Len(b)) = b <=> d \in Home(b)
      <3> SUFFICES ASSUME NEW d \in Stock!Shown
                   PROVE  SubSeq(Stock!Branch(d), 1, Len(b)) = b <=> d \in Home(b)
        OBVIOUS
      <3>1. Len(b) = l
        BY <2>1, PrefixIs
      <3>2. SubSeq(Stock!Branch(d), 1, l) = b <=> \A i \in 1 .. l : Stock!Branch(d)[i] = b[i]
        BY <2>1, PrefixIs
      <3> HIDE DEF b
      <3> QED  BY <3>1, <3>2 DEF Home
    <2>3. \A d \in Stock!Shown : Stock!Drawn(d) <=> \E k \in 0 .. Height : d \in y[k]
      BY <1>2, DrawnIs
    <2>4. Home(b) \subseteq Stock!Shown
      BY DEF Home
    <2> HIDE DEF b
    <2> QED  BY <2>2, <2>3, <2>4
  <1> HIDE DEF b, there, counted, alerts
  <1>6. Stock!Number(b, alerts) = Stock!Cardinality(there)
    BY <1>1, <1>3, <1>4, <1>5, CountIs
  <1> QED  BY <1>6 DEF b, there, alerts, Adds

\* So it is at every branch.
LEMMA TreeAdds == Sound(row) => Stock!TreeAddsUp
  <1> SUFFICES ASSUME Sound(row), NEW down \in SUBSET DOMAIN row,
                      NEW branch \in {SubSeq(Stock!Branch(d), 1, l) : d \in Stock!Shown, l \in 1 .. Depth}
               PROVE  Adds(branch, down)
    BY DEF Stock!TreeAddsUp, Adds
  <1>1. PICK d \in Stock!Shown, l \in 1 .. Depth : branch = SubSeq(Stock!Branch(d), 1, l)
    OBVIOUS
  <1> QED  BY <1>1, BranchAdds

-----------------------------------------------------------------------------
(* The hierarchy, and the theorem                                         *)

\* The sets Below collects, level by level: the unit, and what is below those before.
Reaches(g, u) ==
    /\ g \in [1 .. Depth -> SUBSET DOMAIN unit] /\ g[1] = {u}
    /\ \A n \in 2 .. Depth : g[n] = g[n - 1] \cup {v \in DOMAIN unit : unit[v].above \in g[n - 1]}

\* Levels count from 1 to Depth.
LEMMA DepthIs == Depth \in Nat /\ 1 \in 1 .. Depth /\ \A u \in Units : Level[u] \in 1 .. Depth
  BY StockAssumption DEF Stock!LevelAssumption

\* There are such sets, and Below gives the last of them.
LEMMA BelowIs ==
    ASSUME NEW u \in DOMAIN unit
    PROVE  \E g : Reaches(g, u) /\ Stock!Below(u) = g[Depth]
  <1> DEFINE N == Depth - 1
             V == SUBSET DOMAIN unit
             More(S) == S \cup {v \in DOMAIN unit : unit[v].above \in S}
             Is(r) == r = [n \in 1 .. Depth |-> IF n = 1 THEN {u} ELSE More(r[n - 1])]
             F == [i \in 1 .. N |-> [S \in V |-> More(S)]]
             g == CHOOSE r : Is(r)
  <1>1. N \in Nat /\ N + 1 = Depth /\ Depth \in Nat
    BY DepthIs
  <1>2. Stock!Below(u) = g[Depth]
    BY DEF Stock!Below
  <1>3. F \in Steps(N, V)
    <2>1. \A S \in V : More(S) \in V
      OBVIOUS
    <2> HIDE DEF More
    <2> QED  BY <2>1 DEF Steps
  <1>4. PICK c : Follows(c, N, V, {u}, F)
    <2> DEFINE a == {u}
    <2>1. a \in V
      OBVIOUS
    <2> HIDE DEF N, F, V, a
    <2>2. \E c : Follows(c, N, V, a, F)
      BY <1>1, <1>3, <2>1, Recursion
    <2> QED  BY <2>2 DEF a
  <1> HIDE DEF N
  <1>5. c \in [0 .. N -> V] /\ c[0] = {u} /\ \A i \in 1 .. N : c[i] = F[i][c[i - 1]]
    BY <1>4 DEF Follows
  <1> DEFINE r == [n \in 1 .. Depth |-> c[n - 1]]
  <1>6. \A n \in 1 .. Depth : n - 1 \in 0 .. N /\ r[n] = c[n - 1] /\ r[n] \in V
    BY <1>1, <1>5
  <1>7. r[1] = {u}
    BY <1>1, <1>5, DepthIs
  <1>8. \A n \in 1 .. Depth : n # 1 => r[n] = More(r[n - 1])
    <2> SUFFICES ASSUME NEW n \in 1 .. Depth, n # 1 PROVE r[n] = More(r[n - 1])
      OBVIOUS
    <2>1. n - 1 \in 1 .. Depth /\ n - 1 \in 1 .. N /\ (n - 1) - 1 \in 0 .. N
      BY <1>1
    <2>2. c[n - 1] = F[n - 1][c[(n - 1) - 1]] /\ c[(n - 1) - 1] \in V
      BY <1>5, <2>1
    <2>3. F[n - 1] = [S \in V |-> More(S)]
      BY <2>1
    <2>4. r[n - 1] = c[(n - 1) - 1] /\ r[n] = c[n - 1]
      BY <1>6, <2>1
    <2> HIDE DEF More, F, r, V
    <2> QED  BY <2>2, <2>3, <2>4
  <1>9. Is(r)
    <2> DEFINE s == [n \in 1 .. Depth |-> IF n = 1 THEN {u} ELSE More(r[n - 1])]
    <2>1. \A n \in 1 .. Depth : r[n] = s[n]
      <3> HIDE DEF r, More
      <3> QED  BY <1>7, <1>8
    <2>2. r = s
      <3> HIDE DEF More
      <3> QED  BY <2>1
    <2> QED  BY <2>2
  <1>10. Is(g)
    <2> HIDE DEF Is, r
    <2> QED  BY <1>9
  <1> HIDE DEF g
  <1>11. g[1] = {u} /\ \A n \in 1 .. Depth : n # 1 => g[n] = More(g[n - 1])
    <2>1. \A n \in 1 .. Depth : g[n] = IF n = 1 THEN {u} ELSE More(g[n - 1])
      <3> HIDE DEF More
      <3> QED  BY <1>10
    <2> HIDE DEF More
    <2> QED  BY <2>1, DepthIs
  <1> DEFINE T == {i \in 0 .. N : g[i + 1] \in V}
  <1>12. 0 \in T
    BY <1>1, <1>11
  <1>13. ASSUME NEW i \in 0 .. N, i \in T, i < N PROVE i + 1 \in T
    <2>1. (i + 1) + 1 \in 1 .. Depth /\ (i + 1) + 1 # 1 /\ ((i + 1) + 1) - 1 = i + 1 /\ i + 1 \in 0 .. N
      BY <1>1, <1>13
    <2>2. g[(i + 1) + 1] = More(g[i + 1])
      BY <1>11, <2>1
    <2> QED  BY <1>13, <2>1, <2>2
  <1>14. 0 .. N \subseteq T
    <2> HIDE DEF T
    <2> QED  BY <1>1, <1>12, <1>13, UpTo
  <1>15. \A n \in 1 .. Depth : g[n] \in V
    <2> SUFFICES ASSUME NEW n \in 1 .. Depth PROVE g[n] \in V
      OBVIOUS
    <2>1. n - 1 \in T /\ (n - 1) + 1 = n
      BY <1>1, <1>6, <1>14
    <2> QED  BY <2>1
  <1>16. g = [n \in 1 .. Depth |-> g[n]]
    BY <1>10
  <1>17. \A n \in 2 .. Depth : n \in 1 .. Depth /\ n # 1
    BY <1>1
  <1>18. Reaches(g, u)
    BY <1>11, <1>15, <1>16, <1>17 DEF Reaches
  <1> QED  BY <1>2, <1>18

\* The hierarchy, and the ids given out.
FiledInv ==
    /\ DOMAIN unit \subseteq Units
    /\ unit \in [DOMAIN unit -> [name : Names, above : Units \cup {None}]]
    /\ Stock!Hierarchical(unit)
    /\ DOMAIN row \cup DOMAIN unit \subseteq used

\* Below leaves out no unit that is below one it has.
LEMMA BelowClosed ==
    ASSUME FiledInv, NEW u \in DOMAIN unit
    PROVE  \A v \in DOMAIN unit : unit[v].above \in Stock!Below(u) => v \in Stock!Below(u)
  <1>1. PICK g : Reaches(g, u) /\ Stock!Below(u) = g[Depth]
    BY BelowIs
  <1> DEFINE N == Depth - 1
             Closed(n) == \A v \in DOMAIN unit :
                              unit[v].above \in g[n] /\ Level[v] < Level[u] + n => v \in g[n]
             T == {i \in 0 .. N : Closed(i + 1)}
  <1>2. N \in Nat /\ N + 1 = Depth /\ Depth \in Nat
    BY DepthIs
  <1>3. \A v \in DOMAIN unit : v \in Units /\ Level[v] \in 1 .. Depth
    BY DepthIs DEF FiledInv
  <1>4. \A n \in 1 .. Depth : g[n] \subseteq DOMAIN unit
    BY <1>1 DEF Reaches
  <1>5. \A v \in DOMAIN unit : unit[v].above \in DOMAIN unit => Level[v] = Level[unit[v].above] + 1
    <2>1. None \notin DOMAIN unit
      BY StockAssumption DEF Stock!SetsAssumption, FiledInv
    <2> QED  BY <1>3, <2>1 DEF FiledInv, Stock!Hierarchical
  <1>6. 0 \in T
    <2>1. \A v \in DOMAIN unit : unit[v].above \in g[1] => Level[v] = Level[u] + 1
      BY <1>1, <1>5 DEF Reaches
    <2> QED  BY <1>2, <1>3, <2>1
  <1>7. ASSUME NEW i \in 0 .. N, i \in T, i < N PROVE i + 1 \in T
    <2> DEFINE n == i + 1
    <2>1. n \in 1 .. Depth /\ n \in 0 .. N /\ n + 1 \in 2 .. Depth /\ n + 1 \in 1 .. Depth /\ (n + 1) - 1 = n
      BY <1>2, <1>7
    <2>2. g[n + 1] = g[n] \cup {v \in DOMAIN unit : unit[v].above \in g[n]}
      BY <1>1, <2>1 DEF Reaches
    <2>3. ASSUME NEW v \in DOMAIN unit, unit[v].above \in g[n + 1], Level[v] < Level[u] + (n + 1)
          PROVE  v \in g[n + 1]
      <3> DEFINE w == unit[v].above
      <3>1. CASE w \in g[n]
        BY <2>2, <3>1
      <3>2. CASE w \notin g[n]
        <4>1. w \in DOMAIN unit /\ unit[w].above \in g[n]
          BY <2>2, <2>3, <3>2
        <4>2. Level[v] = Level[w] + 1
          BY <1>5, <4>1
        <4>3. Level[w] \in Nat /\ Level[u] \in Nat /\ Level[v] \in Nat /\ n \in Nat
          BY <1>2, <1>3, <2>1, <4>1
        <4>4. Level[w] < Level[u] + n
          BY <2>3, <4>2, <4>3
        <4> QED  BY <1>7, <3>2, <4>1, <4>4
      <3> QED  BY <3>1, <3>2
    <2> QED  BY <2>1, <2>3
  <1>8. 0 .. N \subseteq T
    <2> HIDE DEF T, N
    <2> QED  BY <1>2, <1>6, <1>7, UpTo
  <1>9. Closed(Depth)
    <2>1. N \in T
      BY <1>2, <1>8
    <2> QED  BY <1>2, <2>1
  <1>10. \A v \in DOMAIN unit : Level[v] < Level[u] + Depth
    BY <1>2, <1>3
  <1> QED  BY <1>1, <1>9, <1>10

\* A unit is created below one that is there, or as an org.
LEMMA CreateFiles ==
    ASSUME StockInv, FiledInv, NEW q \in Requests, Stock!CreateUnit(q)
    PROVE  FiledInv'
  <1> DEFINE ask == request[q].ask
             r == [name |-> ask.name, above |-> ask.above]
  <1>1. ask \in [name : Names, above : Units \cup {None}]
    BY DEF Stock!CreateUnit, Stock!Step, StockInv, Rests, Ongoing
  <1>2. CASE UNCHANGED <<row, unit, used>>
    BY <1>2 DEF FiledInv, Stock!Hierarchical
  <1>3. CASE ~UNCHANGED <<row, unit, used>>
    <2>1. PICK u \in Units \ used :
             /\ Level[u] = IF ask.above = None THEN 1 ELSE Level[ask.above] + 1
             /\ ask.above \in DOMAIN unit \cup {None}
             /\ unit' = Stock!Put(unit, u, r) /\ used' = used \cup {u} /\ row' = row
      BY <1>3 DEF Stock!CreateUnit, Stock!End, Stock!tables
    <2> HIDE DEF ask
    <2>2. unit' = [i \in DOMAIN unit \cup {u} |-> IF i = u THEN r ELSE unit[i]]
      BY <2>1 DEF Stock!Put
    <2>3. r \in [name : Names, above : Units \cup {None}] /\ r.name \in Names /\ r.above = ask.above
      BY <1>1
    <2> HIDE DEF r
    <2>4. u \notin DOMAIN unit /\ DOMAIN unit' = DOMAIN unit \cup {u} /\ unit'[u] = r
          /\ \A i \in DOMAIN unit : unit'[i] = unit[i]
      BY <2>1, <2>2 DEF FiledInv
    <2>5. /\ DOMAIN unit' \subseteq Units
          /\ unit' \in [DOMAIN unit' -> [name : Names, above : Units \cup {None}]]
      BY <2>1, <2>2, <2>3, <2>4 DEF FiledInv
    <2>6. IF Level[u] = 1 THEN ask.above = None
          ELSE ask.above \in DOMAIN unit /\ Level[ask.above] = Level[u] - 1
      <3>1. CASE ask.above = None
        BY <2>1, <3>1
      <3>2. CASE ask.above # None
        <4>1. ask.above \in DOMAIN unit /\ Level[ask.above] \in 1 .. Depth
          BY <2>1, <3>2, DepthIs DEF FiledInv
        <4>2. Level[u] = Level[ask.above] + 1
          BY <2>1, <3>2
        <4> QED  BY <4>1, <4>2, DepthIs
      <3> QED  BY <3>1, <3>2
    <2>7. Stock!Hierarchical(unit')
      <3> SUFFICES ASSUME NEW v \in DOMAIN unit'
                   PROVE  /\ unit'[v].name \in Names
                          /\ IF Level[v] = 1 THEN unit'[v].above = None
                             ELSE unit'[v].above \in DOMAIN unit' /\ Level[unit'[v].above] = Level[v] - 1
        BY DEF Stock!Hierarchical
      <3>1. CASE v = u
        BY <2>3, <2>4, <2>6, <3>1
      <3>2. CASE v # u
        BY <2>4, <3>2 DEF FiledInv, Stock!Hierarchical
      <3> QED  BY <3>1, <3>2
    <2> QED  BY <2>1, <2>4, <2>5, <2>7 DEF FiledInv
  <1> QED  BY <1>2, <1>3

\* A unit that gets another name stays where it is.
LEMMA RenameFiles ==
    ASSUME StockInv, FiledInv, NEW q \in Requests, Stock!RenameUnit(q)
    PROVE  FiledInv'
  <1> DEFINE u == request[q].on
             name == request[q].ask.name
  <1>1. name \in Names
    BY DEF Stock!RenameUnit, Stock!Step, StockInv, Rests, Ongoing
  <1>2. CASE UNCHANGED <<row, unit, used>>
    BY <1>2 DEF FiledInv, Stock!Hierarchical
  <1>3. CASE ~UNCHANGED <<row, unit, used>>
    <2>1. /\ unit' = IF u \in DOMAIN unit THEN [unit EXCEPT ![u].name = name] ELSE unit
          /\ DOMAIN row' = DOMAIN row /\ used' = used
      BY <1>3 DEF Stock!RenameUnit, Stock!End, Stock!tables
    <2> HIDE DEF u, name
    <2>2. DOMAIN unit' = DOMAIN unit /\ \A v \in DOMAIN unit :
              /\ unit'[v] \in [name : Names, above : Units \cup {None}]
              /\ unit'[v].above = unit[v].above /\ unit'[v].name \in Names
      <3>1. CASE u \in DOMAIN unit
        <4> DEFINE n == [unit[u] EXCEPT !.name = name]
        <4>1. unit' = [unit EXCEPT ![u] = n]
          BY <2>1, <3>1
        <4>2. unit[u] \in [name : Names, above : Units \cup {None}]
          BY <3>1 DEF FiledInv
        <4>3. n \in [name : Names, above : Units \cup {None}] /\ n.above = unit[u].above
          BY <1>1, <4>2
        <4> HIDE DEF n
        <4>4. DOMAIN unit' = DOMAIN unit /\ \A v \in DOMAIN unit : unit'[v] = IF v = u THEN n ELSE unit[v]
          BY <4>1
        <4>5. \A v \in DOMAIN unit : unit'[v] \in [name : Names, above : Units \cup {None}]
                                     /\ unit'[v].above = unit[v].above
          BY <4>3, <4>4 DEF FiledInv
        <4> QED  BY <4>4, <4>5
      <3>2. CASE u \notin DOMAIN unit
        BY <2>1, <3>2 DEF FiledInv
      <3> QED  BY <3>1, <3>2
    <2>3. unit' \in [DOMAIN unit' -> [name : Names, above : Units \cup {None}]]
      <3>1. unit' = [v \in DOMAIN unit' |-> unit'[v]]
        BY <2>1 DEF FiledInv
      <3> QED  BY <2>2, <3>1
    <2>4. Stock!Hierarchical(unit')
      BY <2>2 DEF FiledInv, Stock!Hierarchical
    <2> QED  BY <2>1, <2>2, <2>3, <2>4 DEF FiledInv
  <1> QED  BY <1>2, <1>3

\* What is left has what it is below.
LEMMA DeleteFiles ==
    ASSUME StockInv, FiledInv, NEW q \in Requests, Stock!DeleteUnit(q)
    PROVE  FiledInv'
  <1> DEFINE u == request[q].on
             gone == IF u \in DOMAIN unit THEN Stock!Below(u) ELSE {}
  <1>1. unit' = [i \in DOMAIN unit \ gone |-> unit[i]] /\ UNCHANGED <<row, used>>
    BY DEF Stock!DeleteUnit, Stock!Drop
  <1>2. \A v \in DOMAIN unit : unit[v].above \in gone => v \in gone
    BY BelowClosed
  <1> HIDE DEF gone
  <1>3. DOMAIN unit' = DOMAIN unit \ gone /\ \A v \in DOMAIN unit' : unit'[v] = unit[v]
    BY <1>1
  <1>4. unit' \in [DOMAIN unit' -> [name : Names, above : Units \cup {None}]]
    BY <1>1, <1>3 DEF FiledInv
  <1>5. Stock!Hierarchical(unit')
    BY <1>2, <1>3 DEF FiledInv, Stock!Hierarchical
  <1> QED  BY <1>1, <1>3, <1>4, <1>5 DEF FiledInv

\* The other requests leave the hierarchy alone, and add no row without an id of its own.
LEMMA OthersFile ==
    ASSUME FiledInv, unit' = unit, used \subseteq used', DOMAIN row' \subseteq DOMAIN row \cup used'
    PROVE  FiledInv'
  BY DEF FiledInv, Stock!Hierarchical

\* A new row has an id that was never given out.
LEMMA InsertFiles ==
    ASSUME FiledInv, NEW q, NEW r, NEW next, Stock!InsertDevice(q, r, next)
    PROVE  FiledInv'
  <1>1. CASE UNCHANGED Stock!tables
    BY <1>1, OthersFile DEF Stock!tables
  <1>2. CASE ~UNCHANGED Stock!tables
    <2>1. PICK d \in Ids \ used : row' = Stock!Put(row, d, r) /\ used' = used \cup {d} /\ unit' = unit
      BY <1>2 DEF Stock!InsertDevice, Stock!End
    <2>2. DOMAIN row' = DOMAIN row \cup {d}
      BY <2>1 DEF Stock!Put
    <2> QED  BY <2>1, <2>2, OthersFile
  <1> QED  BY <1>1, <1>2

\* An update makes no row.
LEMMA UpdateFiles ==
    ASSUME FiledInv, NEW q \in Requests, Stock!UpdateDevice(q)
    PROVE  FiledInv'
  <1>1. CASE UNCHANGED Stock!tables
    BY <1>1, OthersFile DEF Stock!tables
  <1>2. CASE ~UNCHANGED Stock!tables
    <2> DEFINE d == request[q].on
               r == Stock!Merge(request[q].got, request[q].ask)
               written == IF d \in DOMAIN row THEN Stock!Put(row, d, r) ELSE row
    <2>1. row' = Stock!LinkBack(written, d, r.peer) /\ unit' = unit /\ used' = used
      BY <1>2 DEF Stock!UpdateDevice, Stock!End
    <2>2. DOMAIN written = DOMAIN row
      BY DEF Stock!Put
    <2>3. DOMAIN row' = DOMAIN written
      <3> HIDE DEF written, r, d
      <3> QED  BY <2>1 DEF Stock!LinkBack
    <2> QED  BY <2>1, <2>2, <2>3, OthersFile
  <1> QED  BY <1>1, <1>2

\* Every step of a request leaves the hierarchy one.
LEMMA FiledStep ==
    ASSUME StockInv, FiledInv, Stock!Next
    PROVE  FiledInv'
  <1>1. PICK q \in Requests : Stock!RequestStep(q)
    BY DEF Stock!Next
  <1>2. CASE Stock!CreateUnit(q) \/ Stock!RenameUnit(q) \/ Stock!DeleteUnit(q)
    BY <1>2, CreateFiles, RenameFiles, DeleteFiles
  <1>3. CASE Stock!CreateDevice(q) \/ Stock!ImportDevice(q)
    <2>1. \E r, next : Stock!InsertDevice(q, r, next)
      BY <1>3 DEF Stock!CreateDevice, Stock!ImportDevice
    <2> QED  BY <2>1, InsertFiles
  <1>4. CASE UNCHANGED Stock!tables
    BY <1>4, OthersFile DEF Stock!tables
  <1>5. CASE /\ ~UNCHANGED Stock!tables
             /\ Stock!LinkPartner(q) \/ Stock!DeleteDevice(q) \/ Stock!DeleteCredential(q)
    <2>1. unit' = unit /\ used' = used /\ DOMAIN row' \subseteq DOMAIN row
      BY <1>5 DEF Stock!LinkPartner, Stock!DeleteDevice, Stock!DeleteCredential, Stock!End, Stock!Forget
    <2> QED  BY <2>1, OthersFile
  <1>6. CASE /\ ~UNCHANGED Stock!tables
             /\ Stock!UpdateCredential(q) \/ Stock!DeleteCollector(q)
    <2>1. unit' = unit /\ used' = used /\ row' = row
      BY <1>6 DEF Stock!UpdateCredential, Stock!DeleteCollector, Stock!End
    <2> QED  BY <2>1, OthersFile
  <1>7. CASE \/ Stock!Arrive(q) \/ Stock!LookAtDevice(q) \/ Stock!LookUpNames(q) \/ Stock!LookAtUnit(q)
             \/ Stock!LookAtCredential(q) \/ Stock!CountUsers(q) \/ Stock!CheckExists(q)
    <2>1. UNCHANGED Stock!tables
      BY <1>7 DEF Stock!Arrive, Stock!LookAtDevice, Stock!LookUpNames, Stock!LookAtUnit,
                  Stock!LookAtCredential, Stock!CountUsers, Stock!CheckExists
    <2> QED  BY <1>4, <2>1
  <1>8. CASE Stock!UpdateDevice(q)
    BY <1>8, UpdateFiles
  <1> QED  BY <1>1, <1>2, <1>3, <1>4, <1>5, <1>6, <1>7, <1>8 DEF Stock!RequestStep

\* It is one at the start.
LEMMA FiledStart == Stock!Init => FiledInv
  <1> SUFFICES ASSUME Stock!Init PROVE FiledInv
    OBVIOUS
  <1>1. PICK file \in Files : unit = file.unit
    BY DEF Stock!Init
  <1>2. /\ DOMAIN unit \subseteq Units /\ Stock!Hierarchical(unit)
        /\ unit \in [DOMAIN unit -> [name : Names, above : Units \cup {None}]]
    BY <1>1, StockAssumption DEF Stock!FilesAssumption
  <1>3. used = DOMAIN row \cup DOMAIN unit
    BY DEF Stock!Init
  <1> QED  BY <1>2, <1>3 DEF FiledInv

\* The two invariants have the types of Inventory.
LEMMA TypesHold ==
    ASSUME StockInv, FiledInv
    PROVE  Stock!TypeOK
  <1>1. /\ DOMAIN row \subseteq Ids /\ \A d \in DOMAIN row : row[d] \in Stock!Row
        /\ \A d \in DOMAIN row : Stock!Refers(row[d], DOMAIN row)
    BY DEF StockInv, Sound
  <1>2. DOMAIN row \cup DOMAIN unit \subseteq used /\ Stock!Hierarchical(unit)
    BY DEF FiledInv
  <1>3. /\ DOMAIN credential \subseteq Credentials /\ \A c \in DOMAIN credential : credential[c] \in Keys
        /\ Local \in collector /\ collector \subseteq Collecting
    BY DEF StockInv, Keyed
  <1> QED  BY <1>1, <1>2, <1>3 DEF Stock!TypeOK

\* Whatever the requests of the administration do, in whatever order their steps come: every
\* reference of a device names a row, the units make a hierarchy, every credential has a key
\* and not the mask, and the numbers at the branches of the tree add up (TreeKept).
THEOREM TreeHolds == Stock!Spec => []TreeKept
  <1>1. Stock!Init => StockInv /\ FiledInv
    BY StockStart, FiledStart
  <1>2. StockInv /\ FiledInv /\ [Stock!Next]_(Stock!vars) => StockInv' /\ FiledInv'
    <2>1. CASE Stock!Next
      BY <2>1, StockStep, FiledStep
    <2>2. CASE UNCHANGED Stock!vars
      BY <2>2 DEF Stock!vars, StockInv, Sound, Stock!Refers, FiledInv, Stock!Hierarchical
    <2> QED  BY <2>1, <2>2
  <1>3. StockInv /\ FiledInv => TreeKept
    <2> SUFFICES ASSUME StockInv, FiledInv PROVE TreeKept
      OBVIOUS
    <2>1. Stock!TypeOK
      BY TypesHold
    <2>2. Stock!TreeAddsUp
      BY TreeAdds DEF StockInv
    <2> QED  BY <2>1, <2>2 DEF TreeKept, Stock!TreeKept
  <1> QED  BY <1>1, <1>2, <1>3, PTL DEF Stock!Spec
=============================================================================
