----------------------------- MODULE Assistant -----------------------------
(***************************************************************************)
(* What the embedded assistant may read and change                         *)
(* (api/resonance_data.py), next to the people who acknowledge alerts and  *)
(* switch rules in the interface (api/alerts.py).                          *)
(*                                                                         *)
(* A request of either kind is a coroutine: it reads the person, the       *)
(* settings and the rows in statements of their own, decides on what it    *)
(* has read and writes.  The settings, the people and the rows may change  *)
(* between any two of them.                                                *)
(***************************************************************************)
EXTENDS Integers, Sequences, FiniteSets

CONSTANTS
    Requests,               \* all requests there will be
    People,                 \* who is signed in
    Hub,                    \* the person a pktHub request acts for: no row in users
    Events, Rules, Devices, \* ids; events fire in the order of their ids
    RuleOf,                 \* [Events -> Rules]
    LevelSettings,          \* what an administrator may save as resonance_role_levels
    Declared,               \* operations the application has a route for
    Size, Budget,           \* bytes of a row, bytes of a result
    PageSize,               \* largest `limit` of a page
    MaxChanges              \* bound: changes by the administrator

Roles == {"admin", "analyst", "viewer"}

Levels == {"none", "read", "write", "other"}

Unset == [r \in {} |-> "none"]

ReadOps == {"getSnmpSummary", "listDevices", "listAlertEvents", "listAlertRules"}

WriteOps == {"ackAlertEvent", "ackAllAlertEvents", "toggleAlertRule"}

PageOps == WriteOps \cup {"deleteRule"}

ASSUME IdsAssumption ==
    /\ Events \subseteq Nat /\ Rules \subseteq Nat /\ Devices \subseteq Nat
    /\ RuleOf \in [Events -> Rules]
    /\ Size \in [Events \cup Rules \cup Devices -> Nat \ {0}]
    /\ {Budget, PageSize} \subseteq Nat \ {0} /\ MaxChanges \in Nat
    /\ People \cap {"none", "open", "gone"} = {}
\* A table has finitely many rows.
ASSUME RowsAssumption == IsFiniteSet(Events \cup Rules \cup Devices)
ASSUME LevelsAssumption ==
    \A s \in LevelSettings : DOMAIN s \subseteq Roles /\ \A r \in DOMAIN s : s[r] \in Levels
ASSUME OpsAssumption == Declared \subseteq ReadOps \cup WriteOps

VARIABLES
    setting,        \* rows resonance_enabled and resonance_role_levels of settings
    account,        \* role of each person, and whether they may sign in
    event,          \* alert_events: "none" yet, "open", "gone", or who acknowledged it
    rule,           \* alert_rules: "on", "off" or "gone"
    device,         \* status of each device, "none" when there is no such row
    request,        \* where each request is, with its locals
    panel,          \* the grant the panel holds, and whether the settings are the same still
    changes         \* bound: what the administrator has changed

vars == <<setting, account, event, rule, device, request, panel, changes>>

tables == <<setting, account, event, rule, device, panel, changes>>

\* A request that has not come yet.  Each comes once.
Idle == [pc |-> "idle"]

-----------------------------------------------------------------------------
(* The settings and the gates *)

RoleLevels == IF DOMAIN setting.levels = {} THEN [r \in Roles |-> "read"] ELSE setting.levels

RoleLevel(role) ==
    IF role \in DOMAIN RoleLevels /\ RoleLevels[role] # "other" THEN RoleLevels[role] ELSE "none"

AllowedRoles == {role \in DOMAIN RoleLevels : RoleLevels[role] \in {"read", "write"}}

\* build_grant: what the grant file offers.
GrantOps(allowWrites) == {op \in Declared : op \in WriteOps => allowWrites}

\* build_spec: the operations the published description keeps.
SpecOps(allowWrites) == Declared \cap (ReadOps \cup (IF allowWrites THEN WriteOps ELSE {}))

Signed(who) == who = Hub \/ account[who].active

-----------------------------------------------------------------------------
(* Requests *)

Init ==
    /\ \/ setting = [enabled |-> FALSE, levels |-> Unset]
       \/ setting \in [enabled : {TRUE}, levels : LevelSettings]
    /\ account = [p \in People |-> [role |-> "analyst", active |-> TRUE]]
    /\ event = [e \in Events |-> "none"]
    /\ rule = [r \in Rules |-> "on"]
    /\ device = [d \in Devices |-> "down"]
    /\ request = [q \in Requests |-> Idle]
    /\ panel = [grant |-> "none", current |-> FALSE]
    /\ changes = 0

Active(q) == request[q].pc \notin {"idle", "done"}

\* The tables a request must be alone with for what it says to be exact.
Watched(op) ==
    CASE op = "toggleAlertRule" -> {"setting", "rule"}
      [] op \in {"ackAlertEvent", "ackAllAlertEvents", "grant"} -> {"setting"}
      [] op = "getSnmpSummary" -> {"device"}
      [] OTHER -> {}

Racing(q, wrote) ==
    [request[q] EXCEPT !.raced = @ \cup (wrote \cap Watched(request[q].op))]

\* q goes on with the locals `next`; what it wrote has raced with the others.
Goto(q, next, wrote) ==
    request' = [p \in Requests |->
        IF p = q THEN next
        ELSE IF Active(p) THEN Racing(p, wrote) ELSE request[p]]

\* Something else than a request has written.
Disturb(wrote) ==
    request' = [p \in Requests |-> IF Active(p) THEN Racing(p, wrote) ELSE request[p]]

\* pc: the next statement.  owed, trusted and raced are histories: what was open
\* when the request came, whether a role could write at some time since then, and
\* which tables others have written since then.
Arriving(via, pc, op, who, on) ==
    [pc |-> pc, via |-> via, op |-> op, who |-> who, on |-> on, role |-> "none",
     got |-> <<>>, reply |-> "none", raced |-> {},
     owed |-> IF op = "ackAllAlertEvents" THEN {e \in Events : event[e] = "open"} ELSE {},
     trusted |-> \E r \in Roles : RoleLevel(r) = "write"]

Subjects(op) ==
    CASE op = "ackAlertEvent" -> {e \in Events : event[e] # "none"}
      [] op \in {"toggleAlertRule", "deleteRule"} -> Rules
      [] op \in {"listAlertEvents", "listDevices"} -> {0, 1}       \* offset of the page
      [] OTHER -> {0}

\* A call the panel makes on the session of the person in front of it.
Call(q) ==
    /\ request[q] = Idle
    /\ \E op \in Declared, who \in People : \E on \in Subjects(op) :
           Goto(q, Arriving("panel", "session", op, who, on), {})
    /\ UNCHANGED tables

\* A click in the interface: get_current_user, and then the handler.
Click(q) ==
    /\ request[q] = Idle
    /\ \E op \in PageOps, who \in People : \E on \in Subjects(op) :
           /\ Signed(who)
           /\ Goto(q, Arriving("page", "look", op, who, on), {})
    /\ UNCHANGED tables

\* Somebody fetches the grant file or the description.
Fetch(q) ==
    /\ request[q] = Idle
    /\ Goto(q, Arriving("panel", "roles", "grant", Hub, 0), {})
    /\ UNCHANGED tables

\* The request is answered, or refused, and is over.  Whose it was matters no more,
\* unless the database has rejected it.
Answer(q, reply) ==
    [request[q] EXCEPT !.pc = "done", !.reply = reply, !.via = "panel", !.on = 0,
                       !.who = IF reply = "rejected" THEN @ ELSE Hub,
                       !.role = "none", !.got = <<>>, !.raced = {}, !.trusted = FALSE]

\* _user_for_code: the person behind the cookie, as the database has them now.
Session(q) ==
    /\ request[q].pc = "session"
    /\ Goto(q, IF Signed(request[q].who)
               THEN [request[q] EXCEPT !.pc = "switch", !.role = account[request[q].who].role]
               ELSE Answer(q, "refused"), {})
    /\ UNCHANGED tables

\* resonance_session_user: is the feature on.
Switch(q) ==
    /\ request[q].pc = "switch"
    /\ Goto(q, IF setting.enabled THEN [request[q] EXCEPT !.pc = "allowed"]
               ELSE Answer(q, "refused"), {})
    /\ UNCHANGED tables

\* resonance_session_user: is the role on the list.
Allowed(q) ==
    /\ request[q].pc = "allowed"
    /\ Goto(q, IF request[q].role \notin AllowedRoles THEN Answer(q, "refused")
               ELSE [request[q] EXCEPT
                         !.pc = IF request[q].op \in WriteOps THEN "trusted" ELSE "look"], {})
    /\ UNCHANGED tables

Trusted_SignedIn(q) ==
    /\ request[q].pc = "trusted"
    /\ Goto(q, [request[q] EXCEPT !.pc = "look"], {})
    /\ UNCHANGED tables

\* resonance_write_user: may the role write.
Trusted(q) ==
    /\ request[q].pc = "trusted"
    /\ Goto(q, IF RoleLevel(request[q].role) = "write" THEN [request[q] EXCEPT !.pc = "look"]
               ELSE Answer(q, "refused"), {})
    /\ UNCHANGED tables

-----------------------------------------------------------------------------
(* Reading *)

\* In the order of the listing; ids stand for times and names.
Descending[S \in SUBSET (Events \cup Rules \cup Devices)] ==
    IF S = {} THEN <<>>
    ELSE LET newest == CHOOSE i \in S : \A j \in S : j <= i
         IN  <<newest>> \o Descending[S \ {newest}]

Open == {e \in Events : event[e] = "open"}

\* list_alert_events with unacked_only, list_alert_rules with enabled_only,
\* list_devices with status=down.
EventRows == Descending[Open]

RuleRows == Descending[{r \in Rules : rule[r] = "on"}]

DeviceRows == Descending[{d \in Devices : device[d] = "down"}]

RowsOf(op) ==
    CASE op = "listAlertEvents" -> EventRows
      [] op = "listAlertRules" -> RuleRows
      [] OTHER -> DeviceRows

Smaller(a, b) == IF a < b THEN a ELSE b

Page(rows, offset) == SubSeq(rows, offset + 1, Smaller(offset + PageSize, Len(rows)))

\* The rules are listed whole: that SELECT has no LIMIT.
Chosen(op, offset) == IF op = "listAlertRules" THEN RowsOf(op) ELSE Page(RowsOf(op), offset)

Fit_MayBeEmpty(rows) ==
    LET Kept[i \in 0 .. Len(rows)] ==
            IF i = 0 THEN [n |-> 0, used |-> 0, full |-> FALSE]
            ELSE LET k == Kept[i - 1] IN
                 IF k.full \/ k.used + Size[rows[i]] > Budget THEN [k EXCEPT !.full = TRUE]
                 ELSE [n |-> k.n + 1, used |-> k.used + Size[rows[i]], full |-> FALSE]
    IN  SubSeq(rows, 1, Kept[Len(rows)].n)

\* _fit: keep items until one is too much, but never none.
Fit(rows) ==
    LET Kept[i \in 0 .. Len(rows)] ==
            IF i = 0 THEN [n |-> 0, used |-> 0, full |-> FALSE]
            ELSE LET k == Kept[i - 1] IN
                 IF k.full \/ (k.n > 0 /\ k.used + Size[rows[i]] > Budget)
                 THEN [k EXCEPT !.full = TRUE]
                 ELSE [n |-> k.n + 1, used |-> k.used + Size[rows[i]], full |-> FALSE]
    IN  SubSeq(rows, 1, Kept[Len(rows)].n)

\* The SELECT COUNT of a list, before the SELECT of its page.
CountRows(q) ==
    /\ request[q].pc = "look" /\ request[q].op \in {"listAlertEvents", "listDevices"}
    /\ Goto(q, [request[q] EXCEPT !.pc = "select", !.got = <<Len(RowsOf(request[q].op))>>], {})
    /\ UNCHANGED tables

SelectPage(q) ==
    LET op == request[q].op
        rows == Chosen(op, request[q].on)
    IN  /\ \/ request[q].pc = "select"
           \/ request[q].pc = "look" /\ op = "listAlertRules"
        /\ Goto(q, [Answer(q, IF Len(Fit(rows)) < Len(rows) THEN "truncated" ELSE "whole")
                    EXCEPT !.got = Fit(rows)], {})
        /\ UNCHANGED tables

With(status) == Cardinality({d \in Devices : device[d] = status})

CountDevices_UpOrUnknown(q) ==
    LET got == request[q].got IN
    /\ request[q].pc = "look" /\ request[q].op = "getSnmpSummary"
    /\ Goto(q, CASE Len(got) = 0 ->
                        [request[q] EXCEPT !.got = <<Cardinality(Devices) - With("none")>>]
                 [] Len(got) = 1 -> [request[q] EXCEPT !.got = Append(@, With("up"))]
                 [] OTHER -> [Answer(q, "counts") EXCEPT
                                  !.got = <<got[1], got[2], With("down"), got[1] - got[2]>>], {})
    /\ UNCHANGED tables

\* get_snmp_summary: three counts, and what is left of them.
CountDevices(q) ==
    LET got == request[q].got IN
    /\ request[q].pc = "look" /\ request[q].op = "getSnmpSummary"
    /\ Goto(q, CASE Len(got) = 0 ->
                        [request[q] EXCEPT !.got = <<Cardinality(Devices) - With("none")>>]
                 [] Len(got) = 1 -> [request[q] EXCEPT !.got = Append(@, With("up"))]
                 [] OTHER -> [Answer(q, "counts") EXCEPT
                                  !.got = <<got[1], got[2], With("down"),
                                            got[1] - got[2] - With("down")>>], {})
    /\ UNCHANGED tables

EveryRole == <<"admin", "analyst", "viewer">>

FetchRole_AdminOnly(q) ==
    /\ request[q].pc = "roles"
    /\ LET offer == IF RoleLevel("admin") = "write" THEN "writes" ELSE "reads" IN
           /\ Goto(q, Answer(q, offer), {})
           /\ panel' = [grant |-> offer, current |-> "setting" \notin request[q].raced]
    /\ UNCHANGED <<setting, account, event, rule, device, changes>>

\* writes_are_enabled, a role at a time, and then the document.
FetchRole(q) ==
    LET next == EveryRole[Len(request[q].got) + 1]
        writes == RoleLevel(next) = "write"
        offer == IF writes THEN "writes" ELSE "reads"
    IN  /\ request[q].pc = "roles"
        /\ IF writes \/ next = "viewer"
           THEN /\ Goto(q, Answer(q, offer), {})
                /\ panel' = [grant |-> offer, current |-> "setting" \notin request[q].raced]
           ELSE /\ Goto(q, [request[q] EXCEPT !.got = Append(@, next)], {})
                /\ UNCHANGED panel
        /\ UNCHANGED <<setting, account, event, rule, device, changes>>

-----------------------------------------------------------------------------
(* Writing *)

\* The row of the event, before it is acknowledged.
LookAtEvent(q) ==
    LET found == event[request[q].on] IN
    /\ request[q].pc = "look" /\ request[q].op = "ackAlertEvent"
    /\ Goto(q, CASE found = "gone" -> Answer(q, "missing")
                 [] found \in People /\ request[q].via = "panel" -> Answer(q, "already")
                 [] OTHER -> [request[q] EXCEPT !.pc = "write"], {})
    /\ UNCHANGED tables

CountOpen_MoreThanOne(q) ==
    /\ request[q].pc = "look" /\ request[q].op = "ackAllAlertEvents"
    /\ Goto(q, IF request[q].via = "panel" /\ Cardinality(Open) <= 1 THEN Answer(q, "nothing")
               ELSE [request[q] EXCEPT !.pc = "write", !.got = <<Cardinality(Open)>>], {})
    /\ UNCHANGED tables

\* ack_all_alert_events: nothing to do?  The interface does not ask.
CountOpen(q) ==
    /\ request[q].pc = "look" /\ request[q].op = "ackAllAlertEvents"
    /\ Goto(q, IF request[q].via = "panel" /\ Open = {} THEN Answer(q, "nothing")
               ELSE [request[q] EXCEPT !.pc = "write", !.got = <<Cardinality(Open)>>], {})
    /\ UNCHANGED tables

\* The row of the rule, before it is switched or deleted.
LookAtRule(q) ==
    LET found == rule[request[q].on] IN
    /\ request[q].pc = "look" /\ request[q].op \in {"toggleAlertRule", "deleteRule"}
    /\ Goto(q, IF found = "gone" THEN Answer(q, "missing")
               ELSE [request[q] EXCEPT !.pc = "write", !.got = <<found>>], {})
    /\ UNCHANGED tables

Acknowledge_Unchecked(q, which) ==
    /\ event' = [e \in Events |-> IF e \in which THEN request[q].who ELSE event[e]]
    /\ Goto(q, IF request[q].via = "panel" /\ request[q].op = "ackAlertEvent"
               THEN [request[q] EXCEPT !.pc = "reread"] ELSE Answer(q, "ok"), {"event"})

\* acked_by is a foreign key, and there is no user 0 for it to name: the database
\* rejects what the hub acknowledges.
Acknowledge(q, which) ==
    IF which = {} \/ request[q].who # Hub
    THEN /\ event' = [e \in Events |-> IF e \in which THEN request[q].who ELSE event[e]]
         /\ Goto(q, IF request[q].via = "panel" /\ request[q].op = "ackAlertEvent"
                    THEN [request[q] EXCEPT !.pc = "reread"] ELSE Answer(q, "ok"), {"event"})
    ELSE /\ Goto(q, Answer(q, "rejected"), {})
         /\ UNCHANGED event

AckEvent_Overwrites(q) ==
    /\ request[q].pc = "write" /\ request[q].op = "ackAlertEvent"
    /\ Acknowledge(q, {request[q].on} \ {e \in Events : event[e] = "gone"})
    /\ UNCHANGED <<setting, account, rule, device, panel, changes>>

\* The UPDATE: the assistant's is for events nobody has acknowledged only.
AckEvent(q) ==
    /\ request[q].pc = "write" /\ request[q].op = "ackAlertEvent"
    /\ Acknowledge(q, IF request[q].via = "panel" THEN {request[q].on} \cap Open
                      ELSE {request[q].on} \ {e \in Events : event[e] = "gone"})
    /\ UNCHANGED <<setting, account, rule, device, panel, changes>>

AckAll(q) ==
    /\ request[q].pc = "write" /\ request[q].op = "ackAllAlertEvents"
    /\ Acknowledge(q, Open)
    /\ UNCHANGED <<setting, account, rule, device, panel, changes>>

\* ack_alert_event reads the event again for its answer; there may be none.
RereadEvent(q) ==
    /\ request[q].pc = "reread"
    /\ Goto(q, Answer(q, IF event[request[q].on] = "gone" THEN "error" ELSE "acknowledged"), {})
    /\ UNCHANGED tables

ToggleRule_Same(q) ==
    LET r == request[q].on IN
    /\ request[q].pc = "write" /\ request[q].op = "toggleAlertRule"
    /\ rule' = [rule EXCEPT ![r] = IF @ = "gone" THEN @ ELSE request[q].got[1]]
    /\ Goto(q, Answer(q, "ok"), {"rule"})
    /\ UNCHANGED <<setting, account, event, device, panel, changes>>

\* The opposite of what was read.
ToggleRule(q) ==
    LET r == request[q].on
        new == IF request[q].got[1] = "on" THEN "off" ELSE "on"
    IN  /\ request[q].pc = "write" /\ request[q].op = "toggleAlertRule"
        /\ rule' = [rule EXCEPT ![r] = IF @ = "gone" THEN @ ELSE new]
        /\ Goto(q, Answer(q, "ok"), {"rule"})
        /\ UNCHANGED <<setting, account, event, device, panel, changes>>

\* The rule and its events, in one transaction.
DeleteRule(q) ==
    LET r == request[q].on IN
    /\ request[q].pc = "write" /\ request[q].op = "deleteRule"
    /\ rule' = [rule EXCEPT ![r] = "gone"]
    /\ event' = [e \in Events |->
                    IF RuleOf[e] = r /\ event[e] # "none" THEN "gone" ELSE event[e]]
    /\ Goto(q, Answer(q, "ok"), {"rule", "event"})
    /\ UNCHANGED <<setting, account, device, panel, changes>>

-----------------------------------------------------------------------------
(* The rest of the program *)

\* The alert engine fires a rule that is on; ids are given in order.
Fire(e) ==
    /\ event[e] = "none" /\ \A f \in Events : f < e => event[f] # "none"
    /\ rule[RuleOf[e]] = "on"
    /\ event' = [event EXCEPT ![e] = "open"]
    /\ Disturb({"event"})
    /\ UNCHANGED <<setting, account, rule, device, panel, changes>>

\* A device is added, deleted, or found up or down.
ChangeDevice(d) ==
    /\ changes < MaxChanges
    /\ \E s \in {"none", "unknown", "up", "down"} \ {device[d]} :
           /\ s = "unknown" <=> device[d] = "none"
           /\ device' = [device EXCEPT ![d] = s]
    /\ Disturb({"device"})
    /\ changes' = changes + 1
    /\ UNCHANGED <<setting, account, event, rule, panel>>

\* An administrator saves the settings of the panel.
ChangeSetting ==
    /\ changes < MaxChanges
    /\ setting' \in [enabled : BOOLEAN, levels : LevelSettings \cup {setting.levels}]
    /\ request' = [q \in Requests |->
           IF Active(q)
           THEN [Racing(q, {"setting"}) EXCEPT
                     !.trusted = @ \/ (\E r \in Roles : RoleLevel(r)' = "write")]
           ELSE request[q]]
    /\ panel' = [panel EXCEPT !.current = FALSE]
    /\ changes' = changes + 1
    /\ UNCHANGED <<account, event, rule, device>>

\* An administrator, here or on the hub, changes somebody's role or takes it away.
ChangeAccount(p) ==
    /\ changes < MaxChanges
    /\ account' \in {[account EXCEPT ![p] = [role |-> r, active |-> a]] :
                         r \in Roles, a \in BOOLEAN}
    /\ Disturb({"account"})
    /\ changes' = changes + 1
    /\ UNCHANGED <<setting, event, rule, device, panel>>

RequestStep(q) ==
    \/ Call(q) \/ Click(q) \/ Fetch(q)
    \/ Session(q) \/ Switch(q) \/ Allowed(q) \/ Trusted(q)
    \/ CountRows(q) \/ SelectPage(q) \/ CountDevices(q) \/ FetchRole(q)
    \/ LookAtEvent(q) \/ CountOpen(q) \/ LookAtRule(q)
    \/ AckEvent(q) \/ AckAll(q) \/ RereadEvent(q) \/ ToggleRule(q) \/ DeleteRule(q)

Next ==
    \/ \E q \in Requests : RequestStep(q)
    \/ \E e \in Events : Fire(e)
    \/ \E d \in Devices : ChangeDevice(d)
    \/ ChangeSetting
    \/ \E p \in People \ {Hub} : ChangeAccount(p)

Spec == Init /\ [][Next]_vars

-----------------------------------------------------------------------------
(* Properties *)

\* Every variable has its type; an acknowledgement names a row of users, never the
\* synthetic person a hub request acts for.
TypeOK ==
    /\ setting.enabled \in BOOLEAN /\ setting.levels \in LevelSettings \cup {Unset}
    /\ account \in [People -> [role : Roles, active : BOOLEAN]]
    /\ event \in [Events -> {"none", "open", "gone"} \cup (People \ {Hub})]
    /\ rule \in [Rules -> {"on", "off", "gone"}]
    /\ device \in [Devices -> {"none", "unknown", "up", "down"}]
    /\ panel \in [grant : {"none", "reads", "writes"}, current : BOOLEAN]
    /\ changes \in 0 .. MaxChanges

\* q is a write of the assistant that is made in this step.
Writes(q) ==
    /\ request[q].pc = "write" /\ request'[q].pc # "write" /\ request[q].via = "panel"
    /\ <<event, rule>>' # <<event, rule>>

\* The assistant changes nothing on an install that has trusted no role with
\* writes at any time since it was asked (resonance_write_user), however the
\* settings and the roles change while its four gates are read one by one.
NoTrustNoWrite == [][\A q \in Requests : Writes(q) => request[q].trusted]_vars

\* What the assistant changes was on offer: when the settings have been the same
\* since the panel fetched the grant and since the request came, the operation is in
\* the grant and in the description.  The gates and the documents read the same rows
\* in different ways (role_level, _allowed_roles, writes_are_enabled).
OfferedWhenDone ==
    [][\A q \in Requests :
          Writes(q) /\ panel.current /\ "setting" \notin request[q].raced =>
              request[q].op \in GrantOps(panel.grant = "writes")
                                \cap SpecOps(panel.grant = "writes")]_vars

\* The assistant never takes an acknowledgement from the person it is recorded for,
\* who may come between its SELECT and its UPDATE (ack_alert_event).
FirstAckKept ==
    [][\A q \in Requests : Writes(q) /\ request[q].op # "toggleAlertRule" =>
          \A e \in Events : event[e] \in People => event'[e] = event[e]]_vars

\* When "acknowledge all" is over nothing is left open of what was open when it
\* came, whoever acknowledges or deletes events meanwhile: when it has been answered,
\* and also when the database has rejected it, which happens to the hub's alone.
NoneLeftOpen ==
    \A q \in Requests :
        /\ request[q].pc = "done" /\ request[q].op = "ackAllAlertEvents"
        /\ \/ request[q].reply \in {"ok", "nothing"}
           \/ request[q].reply = "rejected" /\ request[q].who # Hub
        => \A e \in request[q].owed : event[e] # "open"

\* A switch flips the rule, unless another request has changed the rule since this
\* one read it: two statements, one of the interface and one of the assistant.
FlipsUnlessRaced ==
    [][\A q \in Requests :
          request[q].pc = "write" /\ request[q].op = "toggleAlertRule"
              /\ request'[q].pc = "done" /\ "rule" \notin request[q].raced =>
                  rule'[request[q].on] # rule[request[q].on]]_vars

\* A page is a run of the matching rows from its offset on, within the budget when
\* it has more than one, complete when it is not said to be cut, and never empty
\* while there are rows: whoever asks for the rest of the rest comes to the end.
\* The rules have no offset: they are listed from the first, all of them when they
\* are not said to be cut, and what has been cut off cannot be asked for.
PageAdvances ==
    [][\A q \in Requests :
          request[q].pc # "done" /\ request'[q].pc = "done"
              /\ request'[q].reply \in {"whole", "truncated"} =>
              LET rows == RowsOf(request[q].op)
                  from == IF request[q].op = "listAlertRules" THEN 0 ELSE request[q].on
                  page == request'[q].got
                  bytes[i \in 0 .. Len(page)] == IF i = 0 THEN 0 ELSE bytes[i - 1] + Size[page[i]]
              IN  /\ \A i \in 1 .. Len(page) : page[i] = rows[from + i]
                  /\ from < Len(rows) => page # <<>>
                  /\ Len(page) > 1 => bytes[Len(page)] <= Budget
                  /\ /\ request'[q].reply = "whole"
                     /\ Len(page) < PageSize \/ request[q].op = "listAlertRules"
                     => from + Len(page) >= Len(rows)]_vars

\* The summary's "unknown" is the number of devices that have never answered, unless
\* a device changed between its three counts.
UnknownIsCounted ==
    [][\A q \in Requests :
          request[q].pc = "look" /\ request'[q].pc = "done" /\ request'[q].reply = "counts"
              /\ "device" \notin request[q].raced =>
                  request'[q].got[4] = With("unknown")]_vars

\* What is open when everything was to be acknowledged, and the types.
AcksComplete == TypeOK /\ NoneLeftOpen

\* What the assistant and the interface write is what they were trusted and asked to.
WritesTrusted == NoTrustNoWrite /\ OfferedWhenDone /\ FirstAckKept /\ FlipsUnlessRaced

\* What is answered is what there is.
AnswersRight == PageAdvances /\ UnknownIsCounted
=============================================================================
