--------------------------- MODULE Assistant_proofs ---------------------------
(***************************************************************************)
(* The assistant's calls and the clicks beside them, for any number of     *)
(* requests, people, events and rules and any change of the settings.      *)
(* What a request has read is still so unless a table it depends on has    *)
(* been written since, and that is in its history.                         *)
(***************************************************************************)
EXTENDS Assistant, FiniteSetTheorems, WellFoundedInduction, TLAPS

Ops == ReadOps \cup PageOps \cup {"grant"}

Tables == {"setting", "account", "event", "rule", "device"}

\* A request that has come.  What it got is a number, a row or a list of roles.
Request(r) ==
    r \in [pc : {"session", "switch", "allowed", "trusted", "roles", "look", "select",
                 "write", "reread", "done"},
           via : {"panel", "page"}, op : Ops, who : People \cup {Hub}, on : Nat,
           role : Roles \cup {"none"}, got : {r.got}, reply : {r.reply},
           raced : SUBSET Tables, owed : SUBSET Events, trusted : BOOLEAN]

\* Where a request is says what it may be about.
Placed(r) ==
    r.pc # "done" =>
        /\ r.op = "ackAlertEvent" => r.on \in Events
        /\ r.op \in {"toggleAlertRule", "deleteRule"} => r.on \in Rules
        /\ r.via = "panel" => r.op \in Declared \cup {"grant"}
        /\ r.pc = "session" => r.who \in People
        /\ r.pc = "roles" <=> r.op = "grant"
        /\ r.pc = "write" => r.op \in PageOps

\* The roles that may write.
Writers == {role \in Roles : RoleLevel(role) = "write"}

\* What the gates have seen of the writers w.
Gated(r, w) ==
    r.pc # "done" =>
        /\ w # {} => r.trusted
        /\ r.via = "panel" /\ r.op \in WriteOps /\ r.pc \in {"look", "write", "reread"} =>
               r.trusted /\ ("setting" \notin r.raced => w # {})
        /\ r.pc = "roles" =>
               /\ r.got \in Seq(Roles) /\ Len(r.got) \in 0 .. 2
               /\ "setting" \notin r.raced => \A i \in 1 .. Len(r.got) : EveryRole[i] \notin w

\* The rule that is to be switched is as it was read, in the rules R.
AsRead(r, R) ==
    r.pc = "write" /\ r.op = "toggleAlertRule" /\ "rule" \notin r.raced =>
        r.got = <<R[r.on]>> /\ R[r.on] \in {"on", "off"}

\* After this reply to who nothing that was owed is open.
Clears(reply, who) == reply \in {"ok", "nothing"} \/ (reply = "rejected" /\ who # Hub)

\* What was owed has been fired, and has been dealt with in the end, in the events E.
Paid(r, E) ==
    /\ \A e \in r.owed : E[e] # "none"
    /\ r.pc = "done" /\ r.op = "ackAllAlertEvents" /\ Clears(r.reply, r.who) =>
           \A e \in r.owed : E[e] # "open"

Good(r, w, R, E) == Request(r) /\ Placed(r) /\ Gated(r, w) /\ AsRead(r, R) /\ Paid(r, E)

Calls == \A q \in Requests : request[q] = Idle \/ Good(request[q], Writers, rule, event)

\* A grant that is as the settings are offers writes when there is somebody to write.
Granted == panel.current => (panel.grant = "writes" <=> Writers # {})

CallInv == TypeOK /\ Calls /\ Granted

-----------------------------------------------------------------------------
(* Requests *)

LEMMA WatchedIs ==
    /\ \A op : Watched(op) \subseteq Tables
    /\ \A op \in WriteOps \cup {"grant"} : "setting" \in Watched(op)
    /\ "rule" \in Watched("toggleAlertRule")
  <1>1. ASSUME NEW op PROVE Watched(op) \in {{"setting", "rule"}, {"setting"}, {"device"}, {}}
    BY DEF Watched
  <1>2. \A op : Watched(op) \subseteq Tables
    BY <1>1 DEF Tables
  <1>3. \A op \in WriteOps \cup {"grant"} : "setting" \in Watched(op)
    BY DEF Watched, WriteOps
  <1>4. "rule" \in Watched("toggleAlertRule")
    BY DEF Watched
  <1> QED  BY <1>2, <1>3, <1>4

LEMMA HasCome == ASSUME NEW r, Request(r) PROVE r.pc # "idle"
  BY DEF Request

\* The one place where a request is what it was.
Same(r, s) ==
    /\ Request(r) /\ r.via = s.via /\ r.op = s.op /\ r.who = s.who /\ r.on = s.on
    /\ r.raced = s.raced /\ r.owed = s.owed /\ r.trusted = s.trusted

\* An event is never back where it was.
Later(E, F) ==
    \A e \in Events : /\ E[e] # "none" => F[e] # "none"
                      /\ E[e] \notin {"none", "open"} => F[e] # "open"

\* A request sees others write; whether it can still trust what it has read is in its history.
LEMMA Raced ==
    ASSUME NEW r, NEW w, NEW R, NEW E, Good(r, w, R, E), r.pc # "done",
           NEW wrote \in SUBSET Tables, NEW S, NEW F, S = R \/ "rule" \in wrote, Later(E, F)
    PROVE  Good([r EXCEPT !.raced = @ \cup (wrote \cap Watched(r.op))], w, S, F)
  <1> DEFINE s == [r EXCEPT !.raced = @ \cup (wrote \cap Watched(r.op))]
  <1>1. Request(s) /\ s.raced = r.raced \cup (wrote \cap Watched(r.op))
    BY WatchedIs DEF Good, Request
  <1>2. /\ s.pc = r.pc /\ s.via = r.via /\ s.op = r.op /\ s.who = r.who /\ s.on = r.on
        /\ s.role = r.role /\ s.got = r.got /\ s.owed = r.owed /\ s.trusted = r.trusted
    BY DEF Good, Request
  <1> HIDE DEF s
  <1>3. r.owed \subseteq Events
    BY DEF Good, Request
  <1>4. Placed(s) /\ Gated(s, w)
    BY <1>1, <1>2 DEF Good, Placed, Gated
  <1>5. AsRead(s, S)
    BY <1>1, <1>2, WatchedIs DEF Good, AsRead
  <1>6. Paid(s, F)
    BY <1>2, <1>3 DEF Good, Paid, Later
  <1> QED  BY <1>1, <1>4, <1>5, <1>6 DEF Good, s

\* One that is over does not depend on anything but the events.
LEMMA Over ==
    ASSUME NEW r, NEW w, NEW R, NEW E, Good(r, w, R, E), r.pc = "done",
           NEW v, NEW S, NEW F, Later(E, F)
    PROVE  Good(r, v, S, F)
  <1>1. r.owed \subseteq Events
    BY DEF Good, Request
  <1> QED  BY <1>1 DEF Good, Placed, Gated, AsRead, Paid, Later

LEMMA Answered ==
    ASSUME NEW q \in Requests, Request(request[q]), NEW reply, NEW w, NEW R, NEW E,
           \A e \in request[q].owed : E[e] # "none",
           request[q].op = "ackAllAlertEvents" /\ Clears(reply, request[q].who) =>
               \A e \in request[q].owed : E[e] # "open"
    PROVE  Good(Answer(q, reply), w, R, E) /\ Answer(q, reply).pc = "done"
  <1> DEFINE r == Answer(q, reply)
  <1>1. Request(r)
    BY DEF Request, Answer
  <1>2. r.pc = "done" /\ r.op = request[q].op /\ r.owed = request[q].owed /\ r.reply = reply
    BY DEF Request, Answer
  <1>4. r.who = IF reply = "rejected" THEN request[q].who ELSE Hub
    BY DEF Request, Answer
  <1> HIDE DEF r
  <1>5. Clears(r.reply, r.who) => Clears(reply, request[q].who)
    BY <1>2, <1>4 DEF Clears
  <1>3. Good(r, w, R, E)
    BY <1>1, <1>2, <1>5 DEF Good, Placed, Gated, AsRead, Paid
  <1> QED  BY <1>2, <1>3 DEF r

\* What an answer carries makes no difference.
LEMMA Carried ==
    ASSUME NEW r, NEW w, NEW R, NEW E, Good(r, w, R, E), r.pc = "done", NEW g
    PROVE  Good([r EXCEPT !.got = g], w, R, E)
  <1> DEFINE s == [r EXCEPT !.got = g]
  <1>1. Request(s) /\ s.pc = r.pc /\ s.op = r.op /\ s.reply = r.reply /\ s.who = r.who /\ s.owed = r.owed
    BY DEF Good, Request
  <1> HIDE DEF s
  <1>2. Good(s, w, R, E)
    BY <1>1 DEF Good, Placed, Gated, AsRead, Paid
  <1> QED  BY <1>2 DEF s

-----------------------------------------------------------------------------
(* Steps *)

LEMMA SameWriters == setting' = setting => Writers' = Writers
  BY DEF Writers, RoleLevel, RoleLevels

LEMMA GoesOn ==
    ASSUME Calls, NEW q \in Requests, NEW r, NEW wrote \in SUBSET Tables, Goto(q, r, wrote),
           setting' = setting, rule' = rule \/ "rule" \in wrote, Later(event, event'),
           Good(r, Writers, rule', event')
    PROVE  Calls'
  <1> SUFFICES ASSUME NEW p \in Requests
               PROVE  request'[p] = Idle \/ Good(request'[p], Writers', rule', event')
    BY DEF Calls
  <1>0. Writers' = Writers
    BY SameWriters
  <1>1. CASE p = q
    BY <1>0, <1>1 DEF Goto
  <1>2. CASE p # q /\ Active(p)
    <2>1. request'[p] = [request[p] EXCEPT !.raced = @ \cup (wrote \cap Watched(request[p].op))]
      BY <1>2 DEF Goto, Racing
    <2>2. Good(request[p], Writers, rule, event) /\ request[p].pc # "done"
      BY <1>2 DEF Calls, Active, Idle
    <2> QED  BY <1>0, <2>1, <2>2, Raced
  <1>3. CASE p # q /\ ~Active(p)
    <2>1. request'[p] = request[p]
      BY <1>3 DEF Goto
    <2>2. request[p] = Idle \/ Good(request[p], Writers, rule, event)
      BY DEF Calls
    <2>3. Good(request[p], Writers, rule, event) => request[p].pc = "done"
      BY <1>3, HasCome DEF Active, Good
    <2> QED  BY <2>1, <2>2, <2>3, Over
  <1> QED  BY <1>1, <1>2, <1>3

\* Something else than a request writes.
LEMMA Disturbed ==
    ASSUME Calls, NEW wrote \in SUBSET Tables, Disturb(wrote),
           setting' = setting, rule' = rule, Later(event, event')
    PROVE  Calls'
  <1> SUFFICES ASSUME NEW p \in Requests
               PROVE  request'[p] = Idle \/ Good(request'[p], Writers', rule', event')
    BY DEF Calls
  <1>0. Writers' = Writers
    BY SameWriters
  <1>1. CASE Active(p)
    <2>1. request'[p] = [request[p] EXCEPT !.raced = @ \cup (wrote \cap Watched(request[p].op))]
      BY <1>1 DEF Disturb, Racing
    <2>2. Good(request[p], Writers, rule, event) /\ request[p].pc # "done"
      BY <1>1 DEF Calls, Active, Idle
    <2> QED  BY <1>0, <2>1, <2>2, Raced
  <1>2. CASE ~Active(p)
    <2>1. request'[p] = request[p]
      BY <1>2 DEF Disturb
    <2>2. request[p] = Idle \/ Good(request[p], Writers, rule, event)
      BY DEF Calls
    <2>3. Good(request[p], Writers, rule, event) => request[p].pc = "done"
      BY <1>2, HasCome DEF Active, Good
    <2> QED  BY <2>1, <2>2, <2>3, Over
  <1> QED  BY <1>1, <1>2

\* A step that only reads.
LEMMA Reads ==
    ASSUME CallInv, NEW q \in Requests, NEW r, Goto(q, r, {}), UNCHANGED tables,
           Good(r, Writers, rule, event)
    PROVE  CallInv'
  <1>1. /\ setting' = setting /\ account' = account /\ event' = event /\ rule' = rule
        /\ device' = device /\ panel' = panel /\ changes' = changes
    BY DEF tables
  <1>2. Later(event, event')
    BY <1>1 DEF Later
  <1>3. Calls'
    BY <1>1, <1>2, GoesOn DEF CallInv
  <1>4. Granted'
    BY <1>1, SameWriters DEF CallInv, Granted
  <1> QED  BY <1>1, <1>3, <1>4 DEF CallInv, TypeOK

\* A request that has come is what the invariant says.
LEMMA Underway ==
    ASSUME CallInv, NEW q \in Requests, request[q].pc # "idle"
    PROVE  /\ Good(request[q], Writers, rule, event) /\ Request(request[q])
           /\ \A e \in request[q].owed : event[e] # "none"
  BY DEF CallInv, Calls, Idle, Good, Paid

\* One that goes on as r.  A gate has to have been passed, a rule to have been read.
LEMMA MovesOn ==
    ASSUME NEW s, NEW w, NEW R, NEW E, Good(s, w, R, E), NEW S, NEW F, Later(E, F),
           NEW r, Same(r, s), s.pc \notin {"done", "roles"}, r.pc \notin {"done", "roles", "session"},
           r.via = "panel" /\ r.op \in WriteOps /\ r.pc \in {"look", "write", "reread"} =>
               r.trusted /\ ("setting" \notin r.raced => w # {}),
           r.pc = "write" => r.op \in PageOps /\ AsRead(r, S)
    PROVE  Good(r, w, S, F)
  <1>1. Placed(r) /\ Gated(r, w)
    BY DEF Good, Same, Placed, Gated
  <1>2. AsRead(r, S)
    BY DEF AsRead
  <1>3. r.owed \subseteq Events
    BY DEF Same, Request
  <1>4. Paid(r, F)
    BY <1>3 DEF Good, Same, Paid, Later
  <1> QED  BY <1>1, <1>2, <1>4 DEF Good, Same

Places == {"switch", "allowed", "trusted", "look", "select", "write", "reread"}

LEMMA ToPlace ==
    ASSUME NEW s, Request(s), NEW pc \in Places
    PROVE  Same([s EXCEPT !.pc = pc], s) /\ [s EXCEPT !.pc = pc].pc = pc
  BY DEF Same, Request, Places

LEMMA ToPlaceAs ==
    ASSUME NEW s, Request(s), NEW pc \in Places, NEW role \in Roles
    PROVE  Same([s EXCEPT !.pc = pc, !.role = role], s) /\ [s EXCEPT !.pc = pc, !.role = role].pc = pc
  BY DEF Same, Request, Places

LEMMA ToPlaceWith ==
    ASSUME NEW s, Request(s), NEW pc \in Places, NEW g
    PROVE  /\ Same([s EXCEPT !.pc = pc, !.got = g], s) /\ [s EXCEPT !.pc = pc, !.got = g].pc = pc
           /\ [s EXCEPT !.pc = pc, !.got = g].got = g
  BY DEF Same, Request, Places

LEMMA InPlaceWith ==
    ASSUME NEW s, Request(s), NEW g
    PROVE  /\ Same([s EXCEPT !.got = g], s) /\ [s EXCEPT !.got = g].pc = s.pc
           /\ [s EXCEPT !.got = g].got = g
  BY DEF Same, Request

LEMMA LaterSame == \A E : Later(E, E)
  BY DEF Later

LEMMA WriterIs == ASSUME TypeOK, NEW role, RoleLevel(role) = "write" PROVE role \in Writers
  <1>1. role \in DOMAIN RoleLevels
    BY DEF RoleLevel
  <1>2. DOMAIN setting.levels \subseteq Roles
    BY LevelsAssumption DEF TypeOK, Unset
  <1>3. DOMAIN RoleLevels \subseteq Roles
    BY <1>2 DEF RoleLevels
  <1> QED  BY <1>1, <1>3 DEF Writers

LEMMA Comes ==
    ASSUME CallInv, NEW via \in {"panel", "page"}, NEW pc \in {"session", "roles", "look"}, NEW op \in Ops,
           NEW who \in People \cup {Hub}, NEW on \in Nat,
           op = "ackAlertEvent" => on \in Events,
           op \in {"toggleAlertRule", "deleteRule"} => on \in Rules,
           via = "panel" => pc # "look" /\ op \in Declared \cup {"grant"},
           pc = "session" => who \in People,
           pc = "roles" <=> op = "grant"
    PROVE  Good(Arriving(via, pc, op, who, on), Writers, rule, event)
  <1> DEFINE r == Arriving(via, pc, op, who, on)
  <1>1. /\ r.pc = pc /\ r.via = via /\ r.op = op /\ r.who = who /\ r.on = on /\ r.got = <<>>
        /\ r.raced = {} /\ r.trusted = (\E role \in Roles : RoleLevel(role) = "write")
        /\ r.owed \subseteq {e \in Events : event[e] = "open"}
    BY DEF Arriving
  <1>2. Request(r)
    BY DEF Arriving, Request
  <1> HIDE DEF r
  <1>3. Placed(r)
    BY <1>1 DEF Placed
  <1>4. Writers # {} => r.trusted
    BY <1>1 DEF Writers
  <1>5. Gated(r, Writers)
    BY <1>1, <1>4 DEF Gated
  <1>6. Paid(r, event) /\ AsRead(r, rule)
    BY <1>1 DEF Paid, AsRead
  <1> QED  BY <1>2, <1>3, <1>5, <1>6 DEF Good, r

-----------------------------------------------------------------------------
(* Coming and passing the gates *)

LEMMA Arrivals ==
    ASSUME CallInv, NEW q \in Requests, Call(q) \/ Click(q) \/ Fetch(q) PROVE CallInv'
  <1>0. UNCHANGED tables
    BY DEF Call, Click, Fetch
  <1>1. CASE Call(q)
    <2>1. PICK op \in Declared, who \in People : \E on \in Subjects(op) :
              Goto(q, Arriving("panel", "session", op, who, on), {})
      BY <1>1 DEF Call
    <2>2. PICK on \in Subjects(op) : Goto(q, Arriving("panel", "session", op, who, on), {})
      BY <2>1
    <2>3. op \in Ops /\ op # "grant"
      BY OpsAssumption DEF Ops, ReadOps, WriteOps, PageOps
    <2>4. /\ on \in Nat /\ (op = "ackAlertEvent" => on \in Events)
          /\ (op \in {"toggleAlertRule", "deleteRule"} => on \in Rules)
      BY IdsAssumption DEF Subjects
    <2>5. Good(Arriving("panel", "session", op, who, on), Writers, rule, event)
      BY <2>3, <2>4, Comes
    <2> QED  BY <1>0, <2>2, <2>5, Reads
  <1>2. CASE Click(q)
    <2>1. PICK op \in PageOps, who \in People : \E on \in Subjects(op) :
              Goto(q, Arriving("page", "look", op, who, on), {})
      BY <1>2 DEF Click
    <2>2. PICK on \in Subjects(op) : Goto(q, Arriving("page", "look", op, who, on), {})
      BY <2>1
    <2>3. op \in Ops /\ op # "grant"
      BY DEF Ops, PageOps, WriteOps
    <2>4. /\ on \in Nat /\ (op = "ackAlertEvent" => on \in Events)
          /\ (op \in {"toggleAlertRule", "deleteRule"} => on \in Rules)
      BY IdsAssumption DEF Subjects
    <2>5. Good(Arriving("page", "look", op, who, on), Writers, rule, event)
      BY <2>3, <2>4, Comes
    <2> QED  BY <1>0, <2>2, <2>5, Reads
  <1>3. CASE Fetch(q)
    <2>1. Goto(q, Arriving("panel", "roles", "grant", Hub, 0), {})
      BY <1>3 DEF Fetch
    <2>2. Good(Arriving("panel", "roles", "grant", Hub, 0), Writers, rule, event)
      BY Comes DEF Ops
    <2> QED  BY <1>0, <2>1, <2>2, Reads
  <1> QED  BY <1>1, <1>2, <1>3

LEMMA Gates ==
    ASSUME CallInv, NEW q \in Requests, Session(q) \/ Switch(q) \/ Allowed(q) \/ Trusted(q) PROVE CallInv'
  <1>0. UNCHANGED tables /\ request[q].pc \in {"session", "switch", "allowed", "trusted"}
    BY DEF Session, Switch, Allowed, Trusted
  <1>1. /\ Good(request[q], Writers, rule, event) /\ Request(request[q])
        /\ \A e \in request[q].owed : event[e] # "none"
    BY <1>0, Underway
  <1>2. CASE Goto(q, Answer(q, "refused"), {})
    <2>1. Good(Answer(q, "refused"), Writers, rule, event)
      BY <1>1, Answered DEF Clears
    <2> QED  BY <1>0, <1>2, <2>1, Reads
  <1>3. ASSUME NEW r, Goto(q, r, {}), Same(r, request[q]), r.pc \in {"switch", "allowed", "trusted", "look"},
               r.pc = "look" /\ r.op \in WriteOps => r.trusted /\ Writers # {}
        PROVE  CallInv'
    <2>1. Good(r, Writers, rule, event)
      BY <1>0, <1>1, <1>3, MovesOn, LaterSame
    <2> QED  BY <1>0, <1>3, <2>1, Reads
  <1>4. CASE Session(q)
    <2> DEFINE role == account[request[q].who].role
               r == [request[q] EXCEPT !.pc = "switch", !.role = role]
    <2>1. Goto(q, r, {}) \/ Goto(q, Answer(q, "refused"), {})
      BY <1>4 DEF Session
    <2>2. role \in Roles
      BY <1>1, <1>4 DEF Session, Good, Placed, CallInv, TypeOK
    <2>3. Same(r, request[q]) /\ r.pc = "switch"
      <3> HIDE DEF role
      <3>1. "switch" \in Places
        BY DEF Places
      <3> QED  BY <1>1, <2>2, <3>1, ToPlaceAs
    <2> HIDE DEF r
    <2> QED  BY <1>2, <1>3, <2>1, <2>3
  <1>5. CASE Switch(q)
    <2> DEFINE r == [request[q] EXCEPT !.pc = "allowed"]
    <2>1. Goto(q, r, {}) \/ Goto(q, Answer(q, "refused"), {})
      BY <1>5 DEF Switch
    <2>2. Same(r, request[q]) /\ r.pc = "allowed"
      BY <1>1, ToPlace DEF Places
    <2> HIDE DEF r
    <2> QED  BY <1>2, <1>3, <2>1, <2>2
  <1>6. CASE Allowed(q)
    <2> DEFINE pc == IF request[q].op \in WriteOps THEN "trusted" ELSE "look"
               r == [request[q] EXCEPT !.pc = pc]
    <2>1. Goto(q, r, {}) \/ Goto(q, Answer(q, "refused"), {})
      BY <1>6 DEF Allowed
    <2>2. pc \in {"trusted", "look"} /\ (pc = "look" => request[q].op \notin WriteOps)
      OBVIOUS
    <2> HIDE DEF pc
    <2>3. Same(r, request[q]) /\ r.pc = pc
      BY <1>1, <2>2, ToPlace DEF Places
    <2> HIDE DEF r
    <2>4. r.op = request[q].op
      BY <2>3 DEF Same
    <2> QED  BY <1>2, <1>3, <2>1, <2>2, <2>3, <2>4
  <1>7. CASE Trusted(q)
    <2> DEFINE r == [request[q] EXCEPT !.pc = "look"]
    <2>1. (Goto(q, r, {}) /\ RoleLevel(request[q].role) = "write") \/ Goto(q, Answer(q, "refused"), {})
      BY <1>7 DEF Trusted
    <2>2. Same(r, request[q]) /\ r.pc = "look" /\ r.trusted = request[q].trusted
      BY <1>1, ToPlace DEF Same, Places
    <2>3. RoleLevel(request[q].role) = "write" => Writers # {} /\ request[q].trusted
      BY <1>0, <1>1, WriterIs DEF CallInv, Good, Gated
    <2> HIDE DEF r
    <2> QED  BY <1>2, <1>3, <2>1, <2>2, <2>3
  <1> QED  BY <1>4, <1>5, <1>6, <1>7

-----------------------------------------------------------------------------
(* Reading *)

LEMMA Lists ==
    ASSUME CallInv, NEW q \in Requests, CountRows(q) \/ SelectPage(q) \/ CountDevices(q) PROVE CallInv'
  <1>0. UNCHANGED tables /\ request[q].pc \in {"look", "select"}
    BY DEF CountRows, SelectPage, CountDevices
  <1>1. /\ Good(request[q], Writers, rule, event) /\ Request(request[q])
        /\ \A e \in request[q].owed : event[e] # "none"
    BY <1>0, Underway
  <1>2. ASSUME NEW reply, reply \notin {"ok", "nothing", "rejected"}, NEW g, Goto(q, [Answer(q, reply) EXCEPT !.got = g], {})
        PROVE  CallInv'
    <2>1. Good(Answer(q, reply), Writers, rule, event) /\ Answer(q, reply).pc = "done"
      BY <1>1, <1>2, Answered DEF Clears
    <2>2. Good([Answer(q, reply) EXCEPT !.got = g], Writers, rule, event)
      BY <2>1, Carried
    <2> QED  BY <1>0, <1>2, <2>2, Reads
  <1>3. ASSUME NEW r, Goto(q, r, {}), Same(r, request[q]), r.pc \in {"look", "select"},
               request[q].op \notin WriteOps
        PROVE  CallInv'
    <2>1. Good(r, Writers, rule, event)
      BY <1>0, <1>1, <1>3, MovesOn, LaterSame DEF Same
    <2> QED  BY <1>0, <1>3, <2>1, Reads
  <1>4. CASE CountRows(q)
    <2> DEFINE g == <<Len(RowsOf(request[q].op))>>
               r == [request[q] EXCEPT !.pc = "select", !.got = g]
    <2>1. Goto(q, r, {}) /\ request[q].op \notin WriteOps
      BY <1>4 DEF CountRows, WriteOps
    <2>2. Same(r, request[q]) /\ r.pc = "select"
      <3> HIDE DEF g
      <3> QED  BY <1>1 DEF Same, Request
    <2> HIDE DEF r
    <2> QED  BY <1>3, <2>1, <2>2
  <1>5. CASE SelectPage(q)
    <2> DEFINE rows == Chosen(request[q].op, request[q].on)
               reply == IF Len(Fit(rows)) < Len(rows) THEN "truncated" ELSE "whole"
    <2>1. Goto(q, [Answer(q, reply) EXCEPT !.got = Fit(rows)], {})
      BY <1>5 DEF SelectPage
    <2>2. reply \notin {"ok", "nothing", "rejected"}
      OBVIOUS
    <2> HIDE DEF rows, reply
    <2> QED  BY <1>2, <2>1, <2>2
  <1>6. CASE CountDevices(q)
    <2> DEFINE got == request[q].got
    <2>1. PICK g : \/ Goto(q, [request[q] EXCEPT !.got = g], {})
                   \/ Goto(q, [Answer(q, "counts") EXCEPT !.got = g], {})
      <3>1. CASE Len(got) = 0
        BY <1>6, <3>1 DEF CountDevices
      <3>2. CASE Len(got) = 1
        BY <1>6, <3>2 DEF CountDevices
      <3>3. CASE Len(got) # 0 /\ Len(got) # 1
        BY <1>6, <3>3 DEF CountDevices
      <3> QED  BY <3>1, <3>2, <3>3
    <2>2. CASE Goto(q, [request[q] EXCEPT !.got = g], {})
      <3> DEFINE r == [request[q] EXCEPT !.got = g]
      <3>1. Same(r, request[q]) /\ r.pc = request[q].pc
        BY <1>1, InPlaceWith
      <3>2. request[q].op \notin WriteOps
        BY <1>6 DEF CountDevices, WriteOps
      <3>3. Goto(q, r, {})
        BY <2>2
      <3> HIDE DEF r
      <3> QED  BY <1>0, <1>3, <3>1, <3>2, <3>3
    <2> QED  BY <1>2, <2>1, <2>2
  <1> QED  BY <1>4, <1>5, <1>6

\* The grant: a role at a time.
LEMMA InTurn ==
    /\ EveryRole[1] = "admin" /\ EveryRole[2] = "analyst" /\ EveryRole[3] = "viewer"
    /\ \A i \in 1 .. 3 : EveryRole[i] \in Roles
  BY DEF EveryRole, Roles

LEMMA Grants ==
    ASSUME CallInv, NEW q \in Requests, FetchRole(q) PROVE CallInv'
  <1>0. /\ request[q].pc = "roles" /\ setting' = setting /\ account' = account /\ event' = event
        /\ rule' = rule /\ device' = device /\ changes' = changes
    BY DEF FetchRole
  <1>1. /\ Good(request[q], Writers, rule, event) /\ Request(request[q])
        /\ \A e \in request[q].owed : event[e] # "none"
    BY <1>0, Underway
  <1>2. Later(event, event') /\ Writers' = Writers
    BY <1>0, SameWriters, LaterSame
  <1> DEFINE got == request[q].got
             next == EveryRole[Len(got) + 1]
             writes == RoleLevel(next) = "write"
             offer == IF writes THEN "writes" ELSE "reads"
  <1>3. /\ got \in Seq(Roles) /\ Len(got) \in 0 .. 2 /\ request[q].op = "grant"
        /\ "setting" \notin request[q].raced => \A i \in 1 .. Len(got) : EveryRole[i] \notin Writers
    BY <1>0, <1>1 DEF Good, Gated, Placed
  <1>4. next \in Roles /\ (next = "viewer" <=> Len(got) = 2)
    <2>1. CASE Len(got) = 0
      BY <2>1, InTurn
    <2>2. CASE Len(got) = 1
      BY <2>2, InTurn
    <2>3. CASE Len(got) = 2
      BY <2>3, InTurn
    <2> QED  BY <1>3, <2>1, <2>2, <2>3
  <1>5. writes <=> next \in Writers
    BY <1>4 DEF Writers, Roles
  <1>6. CASE writes \/ next = "viewer"
    <2>1. /\ Goto(q, Answer(q, offer), {})
          /\ panel' = [grant |-> offer, current |-> "setting" \notin request[q].raced]
      BY <1>6 DEF FetchRole
    <2>2. offer \in {"writes", "reads"}
      OBVIOUS
    <2>3. "setting" \notin request[q].raced => (offer = "writes" <=> Writers # {})
      <3>1. CASE writes
        BY <1>5, <3>1
      <3>2. CASE ~writes
        <4>1. Len(got) = 2 /\ next = "viewer" /\ "viewer" \notin Writers
          BY <1>4, <1>5, <1>6, <3>2
        <4>2. "setting" \notin request[q].raced => "admin" \notin Writers /\ "analyst" \notin Writers
          BY <1>3, <4>1, InTurn
        <4> QED  BY <3>2, <4>1, <4>2 DEF Writers, Roles
      <3> QED  BY <3>1, <3>2
    <2> HIDE DEF offer
    <2>4. Good(Answer(q, offer), Writers, rule, event)
      BY <1>1, <1>3, <2>2, Answered DEF Clears
    <2>5. Calls'
      BY <1>0, <1>2, <2>1, <2>4, GoesOn DEF CallInv
    <2>6. Granted'
      BY <1>2, <2>1, <2>3 DEF Granted
    <2>7. TypeOK'
      BY <1>0, <2>1, <2>2 DEF CallInv, TypeOK
    <2> QED  BY <2>5, <2>6, <2>7 DEF CallInv
  <1>7. CASE ~writes /\ next # "viewer"
    <2> DEFINE r == [request[q] EXCEPT !.got = Append(got, next)]
    <2>1. Goto(q, r, {}) /\ panel' = panel
      BY <1>7 DEF FetchRole
    <2>2. Same(r, request[q]) /\ r.pc = "roles" /\ r.got = Append(got, next)
      BY <1>0, <1>1, InPlaceWith
    <2>3. r.got \in Seq(Roles) /\ Len(r.got) = Len(got) + 1 /\ Len(got) \in 0 .. 1
      BY <1>3, <1>4, <1>7, <2>2
    <2> HIDE DEF r
    <2>4. Gated(r, Writers)
      <3>1. ASSUME "setting" \notin r.raced, NEW i \in 1 .. Len(r.got) PROVE EveryRole[i] \notin Writers
        <4>1. CASE i = Len(got) + 1
          BY <1>5, <1>7, <4>1
        <4>2. CASE i \in 1 .. Len(got)
          BY <1>3, <2>2, <3>1, <4>2 DEF Same
        <4> QED  BY <2>3, <4>1, <4>2
      <3>2. Writers # {} => r.trusted
        BY <1>0, <1>1, <2>2 DEF Same, Good, Gated
      <3> QED  BY <2>2, <2>3, <3>1, <3>2 DEF Gated
    <2>5. Placed(r) /\ AsRead(r, rule) /\ Paid(r, event)
      BY <1>0, <1>1, <2>2 DEF Same, Good, Placed, AsRead, Paid
    <2>6. Good(r, Writers, rule, event)
      BY <2>2, <2>4, <2>5 DEF Good, Same
    <2>7. Calls'
      BY <1>0, <1>2, <2>1, <2>6, GoesOn DEF CallInv
    <2>8. Granted' /\ TypeOK'
      BY <1>0, <1>2, <2>1 DEF Granted, CallInv, TypeOK
    <2> QED  BY <2>7, <2>8 DEF CallInv
  <1> QED  BY <1>6, <1>7

\* The rows a write is about.
LEMMA Looks ==
    ASSUME CallInv, NEW q \in Requests, LookAtEvent(q) \/ CountOpen(q) \/ LookAtRule(q) \/ RereadEvent(q)
    PROVE  CallInv'
  <1>0. UNCHANGED tables /\ request[q].pc \in {"look", "reread"}
    BY DEF LookAtEvent, CountOpen, LookAtRule, RereadEvent
  <1>1. /\ Good(request[q], Writers, rule, event) /\ Request(request[q])
        /\ \A e \in request[q].owed : event[e] # "none"
    BY <1>0, Underway
  <1>2. ASSUME NEW reply, Goto(q, Answer(q, reply), {}), reply # "rejected",
               request[q].op = "ackAllAlertEvents" /\ reply \in {"ok", "nothing"} =>
                   \A e \in request[q].owed : event[e] # "open"
        PROVE  CallInv'
    <2>1. Good(Answer(q, reply), Writers, rule, event)
      BY <1>1, <1>2, Answered DEF Clears
    <2> QED  BY <1>0, <1>2, <2>1, Reads
  <1>3. ASSUME NEW r, Goto(q, r, {}), Same(r, request[q]), r.pc = "write", request[q].pc = "look",
               r.op \in PageOps, AsRead(r, rule)
        PROVE  CallInv'
    <2>1. r.via = "panel" /\ r.op \in WriteOps => r.trusted /\ ("setting" \notin r.raced => Writers # {})
      BY <1>1, <1>3 DEF Good, Gated, Same
    <2>2. Good(r, Writers, rule, event)
      BY <1>0, <1>1, <1>3, <2>1, MovesOn, LaterSame
    <2> QED  BY <1>0, <1>3, <2>2, Reads
  <1>w. "write" \in Places
    BY DEF Places
  <1>4. CASE LookAtEvent(q)
    <2> DEFINE r == [request[q] EXCEPT !.pc = "write"]
    <2>1. PICK reply \in {"missing", "already"} : Goto(q, Answer(q, reply), {}) \/ Goto(q, r, {})
      <3> DEFINE found == event[request[q].on]
      <3>1. CASE found = "gone"
        <4>1. found \notin People
          BY <3>1, IdsAssumption
        <4> QED  BY <1>4, <3>1, <4>1 DEF LookAtEvent
      <3>2. CASE found # "gone" /\ found \in People /\ request[q].via = "panel"
        BY <1>4, <3>2 DEF LookAtEvent
      <3>3. CASE found # "gone" /\ ~(found \in People /\ request[q].via = "panel")
        BY <1>4, <3>3 DEF LookAtEvent
      <3> QED  BY <3>1, <3>2, <3>3
    <2>2. Same(r, request[q]) /\ r.pc = "write"
      BY <1>1, <1>w, ToPlace
    <2>3. request[q].pc = "look" /\ request[q].op = "ackAlertEvent"
      BY <1>4 DEF LookAtEvent
    <2> HIDE DEF r
    <2>4. r.op \in PageOps /\ AsRead(r, rule)
      BY <2>2, <2>3 DEF Same, AsRead, PageOps, WriteOps
    <2> QED  BY <1>2, <1>3, <2>1, <2>2, <2>3, <2>4
  <1>5. CASE CountOpen(q)
    <2> DEFINE g == <<Cardinality(Open)>>
               r == [request[q] EXCEPT !.pc = "write", !.got = g]
    <2>1. (Goto(q, Answer(q, "nothing"), {}) /\ Open = {}) \/ Goto(q, r, {})
      BY <1>5 DEF CountOpen
    <2>2. Same(r, request[q]) /\ r.pc = "write"
      <3> HIDE DEF g
      <3> QED  BY <1>1 DEF Same, Request
    <2>3. request[q].pc = "look" /\ request[q].op = "ackAllAlertEvents"
      BY <1>5 DEF CountOpen
    <2> HIDE DEF r
    <2>4. r.op \in PageOps /\ AsRead(r, rule)
      BY <2>2, <2>3 DEF Same, AsRead, PageOps, WriteOps
    <2>5. Open = {} => \A e \in request[q].owed : event[e] # "open"
      BY <1>1 DEF Request, Open
    <2> QED  BY <1>2, <1>3, <2>1, <2>2, <2>3, <2>4, <2>5
  <1>6. CASE LookAtRule(q)
    <2> DEFINE found == rule[request[q].on]
               g == <<found>>
               r == [request[q] EXCEPT !.pc = "write", !.got = g]
    <2>1. Goto(q, Answer(q, "missing"), {}) \/ (Goto(q, r, {}) /\ found # "gone")
      <3>1. CASE found = "gone"
        <4> HIDE DEF r
        <4> QED  BY <1>6, <3>1 DEF LookAtRule
      <3>2. CASE found # "gone"
        BY <1>6, <3>2 DEF LookAtRule
      <3> QED  BY <3>1, <3>2
    <2>2. Same(r, request[q]) /\ r.pc = "write" /\ r.got = g
      <3> HIDE DEF g
      <3> QED  BY <1>1 DEF Same, Request
    <2>3. request[q].pc = "look" /\ request[q].op \in {"toggleAlertRule", "deleteRule"}
      BY <1>6 DEF LookAtRule
    <2>4. found \in {"on", "off", "gone"}
      BY <1>1, <2>3 DEF Good, Placed, CallInv, TypeOK
    <2> HIDE DEF r
    <2>5. r.op \in PageOps /\ (found # "gone" => AsRead(r, rule))
      BY <2>2, <2>3, <2>4 DEF Same, AsRead, PageOps, WriteOps
    <2> QED  BY <1>2, <1>3, <2>1, <2>2, <2>3, <2>5
  <1>7. CASE RereadEvent(q)
    <2>1. PICK reply \in {"error", "acknowledged"} : Goto(q, Answer(q, reply), {})
      BY <1>7 DEF RereadEvent
    <2> QED  BY <1>2, <2>1
  <1> QED  BY <1>4, <1>5, <1>6, <1>7

-----------------------------------------------------------------------------
(* Writing *)

\* An acknowledgement: of what is named, or of nothing, rejected, when it is the hub's.
LEMMA AcksAre ==
    ASSUME CallInv, NEW q \in Requests, Request(request[q]), NEW which \in SUBSET Events, Acknowledge(q, which),
           request[q].pc = "write"
    PROVE  /\ event' \in [Events -> {"none", "open", "gone"} \cup (People \ {Hub})] /\ Later(event, event')
           /\ \A e \in Events \ which : event'[e] = event[e]
           /\ \/ \A e \in which : event'[e] # "open"
              \/ Goto(q, Answer(q, "rejected"), {}) /\ request[q].who = Hub
           /\ \/ Goto(q, [request[q] EXCEPT !.pc = "reread"], {"event"}) /\ request[q].op = "ackAlertEvent"
              \/ Goto(q, Answer(q, "ok"), {"event"})
              \/ Goto(q, Answer(q, "rejected"), {}) /\ request[q].who = Hub
  <1>0. event \in [Events -> {"none", "open", "gone"} \cup (People \ {Hub})]
    BY DEF CallInv, TypeOK
  <1>1. CASE which = {} \/ request[q].who # Hub
    <2>1. event' = [e \in Events |-> IF e \in which THEN request[q].who ELSE event[e]]
      BY <1>1 DEF Acknowledge
    <2>2. \A e \in which : request[q].who \in People \ {Hub}
      BY <1>1 DEF Request
    <2>3. \A e \in which : request[q].who \notin {"none", "open", "gone"}
      BY <2>2, IdsAssumption
    <2>4. /\ event' \in [Events -> {"none", "open", "gone"} \cup (People \ {Hub})]
          /\ \A e \in Events \ which : event'[e] = event[e]
      BY <1>0, <2>1, <2>2
    <2>5. Later(event, event') /\ \A e \in which : event'[e] # "open"
      BY <2>1, <2>3 DEF Later
    <2>6. \/ Goto(q, [request[q] EXCEPT !.pc = "reread"], {"event"}) /\ request[q].op = "ackAlertEvent"
          \/ Goto(q, Answer(q, "ok"), {"event"})
      BY <1>1 DEF Acknowledge
    <2> QED  BY <2>4, <2>5, <2>6
  <1>2. CASE ~(which = {} \/ request[q].who # Hub)
    <2>1. Goto(q, Answer(q, "rejected"), {}) /\ request[q].who = Hub /\ event' = event
      BY <1>2 DEF Acknowledge
    <2> QED  BY <1>0, <2>1, LaterSame
  <1> QED  BY <1>1, <1>2

LEMMA Acks ==
    ASSUME CallInv, NEW q \in Requests, AckEvent(q) \/ AckAll(q) PROVE CallInv'
  <1>0. /\ request[q].pc = "write" /\ setting' = setting /\ account' = account /\ rule' = rule
        /\ device' = device /\ panel' = panel /\ changes' = changes
        /\ request[q].op \in {"ackAlertEvent", "ackAllAlertEvents"}
    BY DEF AckEvent, AckAll
  <1>1. /\ Good(request[q], Writers, rule, event) /\ Request(request[q]) /\ request[q].owed \subseteq Events
        /\ \A e \in request[q].owed : event[e] # "none"
    BY <1>0, Underway DEF Request
  <1>2. PICK which \in SUBSET Events :
            Acknowledge(q, which) /\ (request[q].op = "ackAllAlertEvents" => which = Open)
    <2>1. CASE AckEvent(q)
      <3> DEFINE some == IF request[q].via = "panel" THEN {request[q].on} \cap Open
                         ELSE {request[q].on} \ {e \in Events : event[e] = "gone"}
      <3>1. Acknowledge(q, some) /\ request[q].op = "ackAlertEvent"
        BY <2>1 DEF AckEvent
      <3>2. request[q].on \in Events
        BY <1>0, <1>1, <3>1 DEF Good, Placed
      <3>3. some \in SUBSET Events
        BY <3>2
      <3> HIDE DEF some
      <3> QED  BY <3>1, <3>3
    <2>2. CASE AckAll(q)
      BY <2>2 DEF AckAll, Open
    <2> QED  BY <2>1, <2>2
  <1>3. /\ event' \in [Events -> {"none", "open", "gone"} \cup (People \ {Hub})] /\ Later(event, event')
        /\ \A e \in Events \ which : event'[e] = event[e]
        /\ \/ \A e \in which : event'[e] # "open"
           \/ Goto(q, Answer(q, "rejected"), {}) /\ request[q].who = Hub
        /\ \/ Goto(q, [request[q] EXCEPT !.pc = "reread"], {"event"}) /\ request[q].op = "ackAlertEvent"
           \/ Goto(q, Answer(q, "ok"), {"event"})
           \/ Goto(q, Answer(q, "rejected"), {}) /\ request[q].who = Hub
    BY <1>0, <1>1, <1>2, AcksAre
  <1>4. \A e \in request[q].owed : event'[e] # "none"
    BY <1>1, <1>3 DEF Later
  <1>w. setting' = setting /\ rule' = rule /\ Later(event, event') /\ Calls
    BY <1>0, <1>3 DEF CallInv
  <1>t. Granted' /\ TypeOK'
    BY <1>0, <1>3, SameWriters DEF CallInv, Granted, TypeOK
  <1> SUFFICES Calls'
    BY <1>t DEF CallInv
  <1>5. CASE Goto(q, Answer(q, "rejected"), {}) /\ request[q].who = Hub
    <2>1. Good(Answer(q, "rejected"), Writers, rule', event')
      BY <1>1, <1>4, <1>5, Answered DEF Clears
    <2> QED  BY <1>w, <1>5, <2>1, GoesOn
  <1>6. CASE Goto(q, Answer(q, "ok"), {"event"}) /\ \A e \in which : event'[e] # "open"
    <2>1. request[q].op = "ackAllAlertEvents" => \A e \in request[q].owed : event'[e] # "open"
      BY <1>1, <1>2, <1>3, <1>6 DEF Open
    <2>2. Good(Answer(q, "ok"), Writers, rule', event')
      BY <1>1, <1>4, <2>1, Answered DEF Clears
    <2>3. {"event"} \in SUBSET Tables
      BY DEF Tables
    <2> QED  BY <1>w, <1>6, <2>2, <2>3, GoesOn
  <1>7. CASE Goto(q, [request[q] EXCEPT !.pc = "reread"], {"event"}) /\ request[q].op = "ackAlertEvent"
    <2> DEFINE r == [request[q] EXCEPT !.pc = "reread"]
    <2>1. Same(r, request[q]) /\ r.pc = "reread"
      <3>1. "reread" \in Places
        BY DEF Places
      <3> QED  BY <1>1, <3>1, ToPlace
    <2>2. Goto(q, r, {"event"}) /\ {"event"} \in SUBSET Tables
      BY <1>7 DEF Tables
    <2> HIDE DEF r
    <2>3. r.via = "panel" /\ r.op \in WriteOps => r.trusted /\ ("setting" \notin r.raced => Writers # {})
      BY <1>0, <1>1, <2>1 DEF Good, Gated, Same
    <2>4. Good(r, Writers, rule', event')
      BY <1>0, <1>1, <1>3, <2>1, <2>3, MovesOn
    <2> QED  BY <1>w, <2>2, <2>4, GoesOn
  <1> QED  BY <1>3, <1>5, <1>6, <1>7

LEMMA RuleWrites ==
    ASSUME CallInv, NEW q \in Requests, ToggleRule(q) \/ DeleteRule(q) PROVE CallInv'
  <1>0. /\ request[q].pc = "write" /\ setting' = setting /\ account' = account
        /\ device' = device /\ panel' = panel /\ changes' = changes
        /\ request[q].op \in {"toggleAlertRule", "deleteRule"}
    BY DEF ToggleRule, DeleteRule
  <1>1. /\ Good(request[q], Writers, rule, event) /\ Request(request[q])
        /\ \A e \in request[q].owed : event[e] # "none"
    BY <1>0, Underway
  <1>2. request[q].owed \subseteq Events /\ request[q].on \in Rules
    BY <1>0, <1>1 DEF Good, Placed, Request
  <1>3. PICK wrote \in {{"rule"}, {"rule", "event"}} : Goto(q, Answer(q, "ok"), wrote)
    BY DEF ToggleRule, DeleteRule
  <1>4. /\ event' \in [Events -> {"none", "open", "gone"} \cup (People \ {Hub})] /\ Later(event, event')
        /\ rule' \in [Rules -> {"on", "off", "gone"}]
    <2>1. CASE ToggleRule(q)
      BY <1>2, <2>1, LaterSame DEF ToggleRule, CallInv, TypeOK
    <2>2. CASE DeleteRule(q)
      BY <1>2, <2>2 DEF DeleteRule, Later, CallInv, TypeOK
    <2> QED  BY <2>1, <2>2
  <1>5. Good(Answer(q, "ok"), Writers, rule', event')
    BY <1>0, <1>1, <1>2, <1>4, Answered DEF Later
  <1>6. wrote \in SUBSET Tables /\ "rule" \in wrote
    BY DEF Tables
  <1>7. Calls'
    BY <1>0, <1>3, <1>4, <1>5, <1>6, GoesOn DEF CallInv
  <1>8. Granted' /\ TypeOK'
    BY <1>0, <1>4, SameWriters DEF CallInv, Granted, TypeOK
  <1> QED  BY <1>7, <1>8 DEF CallInv

-----------------------------------------------------------------------------
(* The rest of the program *)

LEMMA RestWrites ==
    ASSUME CallInv, \/ \E e \in Events : Fire(e)
                    \/ \E d \in Devices : ChangeDevice(d)
                    \/ \E p \in People \ {Hub} : ChangeAccount(p)
    PROVE  CallInv'
  <1>1. CASE \E e \in Events : Fire(e)
    <2>1. PICK e \in Events : Fire(e)
      BY <1>1
    <2>2. /\ event' \in [Events -> {"none", "open", "gone"} \cup (People \ {Hub})] /\ Later(event, event')
          /\ Disturb({"event"}) /\ {"event"} \in SUBSET Tables
          /\ setting' = setting /\ account' = account /\ rule' = rule /\ device' = device /\ panel' = panel
          /\ changes' = changes
      BY <2>1 DEF Fire, CallInv, TypeOK, Later, Tables
    <2>3. Calls'
      BY <2>2, Disturbed DEF CallInv
    <2> QED  BY <2>2, <2>3, SameWriters DEF CallInv, Granted, TypeOK
  <1>2. CASE \E d \in Devices : ChangeDevice(d)
    <2>1. PICK d \in Devices : ChangeDevice(d)
      BY <1>2
    <2>2. /\ device' \in [Devices -> {"none", "unknown", "up", "down"}] /\ changes' \in 0 .. MaxChanges
          /\ Disturb({"device"}) /\ {"device"} \in SUBSET Tables
          /\ setting' = setting /\ account' = account /\ rule' = rule /\ event' = event /\ panel' = panel
      BY <2>1, IdsAssumption DEF ChangeDevice, CallInv, TypeOK, Tables
    <2>3. Calls'
      BY <2>2, Disturbed, LaterSame DEF CallInv
    <2> QED  BY <2>2, <2>3, SameWriters DEF CallInv, Granted, TypeOK
  <1>3. CASE \E p \in People \ {Hub} : ChangeAccount(p)
    <2>1. PICK p \in People \ {Hub} : ChangeAccount(p)
      BY <1>3
    <2>2. PICK r \in Roles, a \in BOOLEAN : account' = [account EXCEPT ![p] = [role |-> r, active |-> a]]
      BY <2>1 DEF ChangeAccount
    <2>3. /\ account' \in [People -> [role : Roles, active : BOOLEAN]]
      BY <2>2 DEF CallInv, TypeOK
    <2>4. /\ changes' \in 0 .. MaxChanges
          /\ Disturb({"account"}) /\ {"account"} \in SUBSET Tables
          /\ setting' = setting /\ device' = device /\ rule' = rule /\ event' = event /\ panel' = panel
      BY <2>1, IdsAssumption DEF ChangeAccount, CallInv, TypeOK, Tables
    <2>5. Calls'
      BY <2>4, Disturbed, LaterSame DEF CallInv
    <2> QED  BY <2>3, <2>4, <2>5, SameWriters DEF CallInv, Granted, TypeOK
  <1> QED  BY <1>1, <1>2, <1>3

\* The settings: whoever has passed a gate has raced with them now.
LEMMA SettingWrites == ASSUME CallInv, ChangeSetting PROVE CallInv'
  <1>1. /\ setting'.enabled \in BOOLEAN /\ setting'.levels \in LevelSettings \cup {Unset}
        /\ changes' \in 0 .. MaxChanges
        /\ panel' = [panel EXCEPT !.current = FALSE]
        /\ account' = account /\ event' = event /\ rule' = rule /\ device' = device
    BY IdsAssumption DEF ChangeSetting, CallInv, TypeOK
  <1>2. TypeOK' /\ Granted'
    BY <1>1 DEF CallInv, TypeOK, Granted
  <1>3. ASSUME NEW q \in Requests PROVE request'[q] = Idle \/ Good(request'[q], Writers', rule', event')
    <2>1. CASE Active(q)
      <3> DEFINE new == \E r \in Roles : RoleLevel(r)' = "write"
                 was == request[q]
                 r == [[was EXCEPT !.raced = @ \cup ({"setting"} \cap Watched(was.op))] EXCEPT !.trusted = @ \/ new]
      <3>1. request'[q] = r
        BY <2>1 DEF ChangeSetting, Racing
      <3>2. Good(was, Writers, rule, event) /\ Request(was) /\ was.pc # "done"
        BY <2>1 DEF CallInv, Calls, Active, Idle, Good
      <3>3. Writers' # {} => new
        BY DEF Writers
      <3>4. Request(r) /\ r.raced = was.raced \cup ({"setting"} \cap Watched(was.op)) /\ r.trusted = (was.trusted \/ new)
        <4> HIDE DEF new
        <4>1. {"setting"} \subseteq Tables
          BY DEF Tables
        <4> QED  BY <3>2, <4>1 DEF Request
      <3>5. /\ r.pc = was.pc /\ r.via = was.via /\ r.op = was.op /\ r.who = was.who /\ r.on = was.on
            /\ r.got = was.got /\ r.owed = was.owed /\ r.reply = was.reply
        BY <3>2 DEF Request
      <3> HIDE DEF r, new, was
      <3>6. r.op \in WriteOps \cup {"grant"} => "setting" \in r.raced
        BY <3>4, <3>5, WatchedIs
      <3>7. r.pc = "roles" => r.op = "grant"
        BY <3>2, <3>5 DEF Good, Placed
      <3>8. Gated(r, Writers')
        BY <3>2, <3>3, <3>4, <3>5, <3>6, <3>7 DEF Good, Gated
      <3>9. Placed(r) /\ AsRead(r, rule) /\ Paid(r, event)
        BY <3>2, <3>4, <3>5 DEF Good, Placed, AsRead, Paid
      <3> QED  BY <1>1, <3>1, <3>4, <3>8, <3>9 DEF Good
    <2>2. CASE ~Active(q)
      <3>1. request'[q] = request[q]
        BY <2>2 DEF ChangeSetting
      <3>2. request[q] = Idle \/ Good(request[q], Writers, rule, event)
        BY DEF CallInv, Calls
      <3>3. Good(request[q], Writers, rule, event) => request[q].pc = "done"
        BY <2>2, HasCome DEF Active, Good
      <3> QED  BY <1>1, <3>1, <3>2, <3>3, Over, LaterSame
    <2> QED  BY <2>1, <2>2
  <1> QED  BY <1>2, <1>3 DEF CallInv, Calls

-----------------------------------------------------------------------------
(* The theorems *)

LEMMA CallInit == Init => CallInv
  <1> SUFFICES ASSUME Init PROVE CallInv
    OBVIOUS
  <1>1. setting.enabled \in BOOLEAN /\ setting.levels \in LevelSettings \cup {Unset}
    <2>1. CASE setting = [enabled |-> FALSE, levels |-> Unset]
      <3> HIDE DEF Unset
      <3> QED  BY <2>1
    <2>2. CASE setting \in [enabled : {TRUE}, levels : LevelSettings]
      BY <2>2
    <2> QED  BY <2>1, <2>2 DEF Init
  <1>2. account \in [People -> [role : Roles, active : BOOLEAN]]
    BY DEF Init, Roles
  <1>3. TypeOK
    BY <1>1, <1>2, IdsAssumption DEF Init, TypeOK
  <1> QED  BY <1>3 DEF Init, CallInv, Calls, Granted

LEMMA CallStep == CallInv /\ [Next]_vars => CallInv'
  <1> SUFFICES ASSUME CallInv, [Next]_vars PROVE CallInv'
    OBVIOUS
  <1>1. ASSUME NEW q \in Requests, RequestStep(q) PROVE CallInv'
    BY <1>1, Arrivals, Gates, Lists, Grants, Looks, Acks, RuleWrites DEF RequestStep
  <1>2. CASE UNCHANGED vars
    BY <1>2, SameWriters DEF vars, CallInv, TypeOK, Calls, Granted
  <1> QED  BY <1>1, <1>2, RestWrites, SettingWrites DEF Next

THEOREM CallsTyped == Spec => []CallInv
  BY CallInit, CallStep, PTL DEF Spec

\* When "acknowledge all" is over nothing is left open of what was open when it came,
\* whoever acknowledges, deletes and fires meanwhile, unless it was the hub's and the
\* database has rejected it (ack_all_alert_events); no acknowledgement names the hub.
THEOREM AcksHold == Spec => []AcksComplete
  <1>1. CallInv => AcksComplete
    <2> SUFFICES ASSUME CallInv, NEW q \in Requests, request[q].pc = "done", request[q].op = "ackAllAlertEvents",
                        Clears(request[q].reply, request[q].who), NEW e \in request[q].owed
                 PROVE  event[e] # "open"
      BY DEF AcksComplete, NoneLeftOpen, CallInv, Clears
    <2>1. Good(request[q], Writers, rule, event)
      BY Underway
    <2> QED  BY <2>1 DEF Good, Paid
  <1> QED  BY <1>1, CallsTyped, PTL

\* The step of one request leaves the others where they are.
LEMMA Elsewhere ==
    ASSUME NEW p \in Requests, NEW q \in Requests \ {p}, NEW r, NEW wrote, Goto(p, r, wrote),
           CallInv, request[q].pc = "write"
    PROVE  request'[q].pc = "write"
  <1>1. Active(q) /\ Request(request[q])
    BY Underway DEF Active
  <1>2. request'[q] = [request[q] EXCEPT !.raced = @ \cup (wrote \cap Watched(request[q].op))]
    BY <1>1 DEF Goto, Racing
  <1> QED  BY <1>1, <1>2 DEF Request

LEMMA Stays ==
    ASSUME CallInv, NEW q \in Requests, request[q].pc = "write", NEW wrote, Disturb(wrote)
    PROVE  request'[q].pc = "write"
  <1>1. Active(q) /\ Request(request[q])
    BY Underway DEF Active
  <1>2. request'[q] = [request[q] EXCEPT !.raced = @ \cup (wrote \cap Watched(request[q].op))]
    BY <1>1 DEF Disturb, Racing
  <1> QED  BY <1>1, <1>2 DEF Request

LEMMA EachGoes == ASSUME NEW p \in Requests, RequestStep(p) PROVE \E r, wrote : Goto(p, r, wrote)
  <1>1. CASE Call(p) \/ Click(p) \/ Fetch(p)
    BY <1>1 DEF Call, Click, Fetch
  <1>2. CASE Session(p) \/ Switch(p) \/ Allowed(p) \/ Trusted(p)
    BY <1>2 DEF Session, Switch, Allowed, Trusted
  <1>3. CASE CountRows(p) \/ SelectPage(p) \/ CountDevices(p) \/ FetchRole(p)
    BY <1>3 DEF CountRows, SelectPage, CountDevices, FetchRole
  <1>4. CASE LookAtEvent(p) \/ CountOpen(p) \/ LookAtRule(p) \/ RereadEvent(p)
    BY <1>4 DEF LookAtEvent, CountOpen, LookAtRule, RereadEvent
  <1>5. CASE AckEvent(p) \/ AckAll(p) \/ ToggleRule(p) \/ DeleteRule(p)
    BY <1>5 DEF AckEvent, AckAll, Acknowledge, ToggleRule, DeleteRule
  <1> QED  BY <1>1, <1>2, <1>3, <1>4, <1>5 DEF RequestStep

\* What ends the writing of a request is its own statement.
LEMMA OwnWrite ==
    ASSUME CallInv, [Next]_vars, NEW q \in Requests, request[q].pc = "write", request'[q].pc # "write"
    PROVE  AckEvent(q) \/ AckAll(q) \/ ToggleRule(q) \/ DeleteRule(q)
  <1>1. ASSUME NEW p \in Requests, RequestStep(p), p # q PROVE FALSE
    <2>1. PICK r, wrote : Goto(p, r, wrote)
      BY <1>1, EachGoes
    <2> QED  BY <1>1, <2>1, Elsewhere
  <1>2. ASSUME RequestStep(q) PROVE AckEvent(q) \/ AckAll(q) \/ ToggleRule(q) \/ DeleteRule(q)
    BY <1>2 DEF RequestStep, Call, Click, Fetch, Session, Switch, Allowed, Trusted, CountRows, SelectPage,
                CountDevices, FetchRole, LookAtEvent, CountOpen, LookAtRule, RereadEvent, Idle
  <1>3. CASE \/ \E e \in Events : Fire(e)
             \/ \E d \in Devices : ChangeDevice(d)
             \/ \E p \in People \ {Hub} : ChangeAccount(p)
    <2>1. \E wrote : Disturb(wrote)
      BY <1>3 DEF Fire, ChangeDevice, ChangeAccount
    <2> QED  BY <2>1, Stays
  <1>4. CASE ChangeSetting
    <2>1. Active(q) /\ Request(request[q])
      BY Underway DEF Active
    <2>2. PICK new : request'[q] = [[request[q] EXCEPT !.raced = @ \cup ({"setting"} \cap Watched(request[q].op))]
                                        EXCEPT !.trusted = @ \/ new]
      BY <1>4, <2>1 DEF ChangeSetting, Racing
    <2>3. request'[q].pc = "write"
      BY <2>1, <2>2 DEF Request
    <2> QED  BY <2>3
  <1>5. CASE UNCHANGED vars
    BY <1>5 DEF vars
  <1> QED  BY <1>1, <1>2, <1>3, <1>4, <1>5 DEF Next

\* Nothing is changed on an install that has trusted no role with writes at any time since
\* the request came, however the settings change while the gates are read one by one.
LEMMA TrustStep == CallInv /\ [Next]_vars => [\A q \in Requests : Writes(q) => request[q].trusted]_vars
  <1> SUFFICES ASSUME CallInv, [Next]_vars, NEW q \in Requests, Writes(q) PROVE request[q].trusted
    OBVIOUS
  <1>1. request[q].pc = "write" /\ request'[q].pc # "write" /\ request[q].via = "panel"
    BY DEF Writes
  <1>2. Good(request[q], Writers, rule, event)
    BY <1>1, Underway
  <1>3. request[q].op \in WriteOps
    <2>1. request[q].op \in Declared \cup {"grant"} /\ request[q].op \in PageOps
      BY <1>1, <1>2 DEF Good, Placed
    <2> QED  BY <2>1, OpsAssumption DEF PageOps, ReadOps, WriteOps
  <1> QED  BY <1>1, <1>2, <1>3 DEF Good, Gated

\* What is changed was on offer, if the settings are those of the grant and of the request.
LEMMA OfferStep ==
    CallInv /\ [Next]_vars =>
        [\A q \in Requests :
            Writes(q) /\ panel.current /\ "setting" \notin request[q].raced =>
                request[q].op \in GrantOps(panel.grant = "writes") \cap SpecOps(panel.grant = "writes")]_vars
  <1> SUFFICES ASSUME CallInv, [Next]_vars, NEW q \in Requests, Writes(q), panel.current,
                      "setting" \notin request[q].raced
               PROVE  request[q].op \in GrantOps(panel.grant = "writes") \cap SpecOps(panel.grant = "writes")
    OBVIOUS
  <1>1. request[q].pc = "write" /\ request'[q].pc # "write" /\ request[q].via = "panel"
    BY DEF Writes
  <1>2. Good(request[q], Writers, rule, event)
    BY <1>1, Underway
  <1>3. request[q].op \in WriteOps /\ request[q].op \in Declared
    <2>1. request[q].op \in Declared \cup {"grant"} /\ request[q].op \in PageOps
      BY <1>1, <1>2 DEF Good, Placed
    <2> QED  BY <2>1, OpsAssumption DEF PageOps, ReadOps, WriteOps
  <1>4. Writers # {}
    BY <1>1, <1>2, <1>3 DEF Good, Gated
  <1>5. panel.grant = "writes"
    BY <1>4 DEF CallInv, Granted
  <1> QED  BY <1>3, <1>5 DEF GrantOps, SpecOps

\* The assistant takes no acknowledgement from the person it is recorded for.
LEMMA AckStep ==
    CallInv /\ [Next]_vars =>
        [\A q \in Requests : Writes(q) /\ request[q].op # "toggleAlertRule" =>
            \A e \in Events : event[e] \in People => event'[e] = event[e]]_vars
  <1> SUFFICES ASSUME CallInv, [Next]_vars, NEW q \in Requests, Writes(q), request[q].op # "toggleAlertRule",
                      NEW e \in Events, event[e] \in People
               PROVE  event'[e] = event[e]
    OBVIOUS
  <1>1. request[q].pc = "write" /\ request'[q].pc # "write" /\ request[q].via = "panel"
    BY DEF Writes
  <1>2. Good(request[q], Writers, rule, event) /\ Request(request[q])
    BY <1>1, Underway
  <1>3. request[q].op # "deleteRule"
    BY <1>1, <1>2, OpsAssumption DEF Good, Placed, ReadOps, WriteOps
  <1>4. AckEvent(q) \/ AckAll(q)
    BY <1>1, <1>3, OwnWrite DEF ToggleRule, DeleteRule
  <1>5. PICK which \in SUBSET Open : Acknowledge(q, which)
    <2>1. CASE AckEvent(q)
      BY <1>1, <2>1 DEF AckEvent
    <2>2. CASE AckAll(q)
      BY <2>2 DEF AckAll
    <2> QED  BY <1>4, <2>1, <2>2
  <1>6. e \notin which
    BY IdsAssumption DEF Open
  <1>7. which \in SUBSET Events
    BY DEF Open
  <1> QED  BY <1>1, <1>2, <1>5, <1>6, <1>7, AcksAre

\* A switch flips the rule, unless another request has changed one since it was read.
LEMMA FlipStep ==
    CallInv /\ [Next]_vars =>
        [\A q \in Requests :
            request[q].pc = "write" /\ request[q].op = "toggleAlertRule"
                /\ request'[q].pc = "done" /\ "rule" \notin request[q].raced =>
                    rule'[request[q].on] # rule[request[q].on]]_vars
  <1> SUFFICES ASSUME CallInv, [Next]_vars, NEW q \in Requests, request[q].pc = "write",
                      request[q].op = "toggleAlertRule", request'[q].pc = "done", "rule" \notin request[q].raced
               PROVE  rule'[request[q].on] # rule[request[q].on]
    OBVIOUS
  <1> DEFINE on == request[q].on
  <1>1. Good(request[q], Writers, rule, event)
    BY Underway
  <1>2. on \in Rules /\ request[q].got[1] = rule[on] /\ rule[on] \in {"on", "off"}
    BY <1>1 DEF Good, Placed, AsRead
  <1>3. ToggleRule(q)
    BY OwnWrite DEF AckEvent, AckAll, DeleteRule
  <1>4. rule' = [rule EXCEPT ![on] = IF @ = "gone" THEN @ ELSE IF request[q].got[1] = "on" THEN "off" ELSE "on"]
    BY <1>3 DEF ToggleRule
  <1>5. rule \in [Rules -> {"on", "off", "gone"}]
    BY DEF CallInv, TypeOK
  <1> HIDE DEF on
  <1>6. rule'[on] # rule[on]
    BY <1>2, <1>4, <1>5
  <1> QED  BY <1>6 DEF on

\* What the assistant and the interface write is what they were trusted and asked to
\* (resonance_write_user, build_grant, ack_alert_event, toggle_alert_rule).
THEOREM WritesHold == Spec => WritesTrusted
  <1>1. Spec => []CallInv
    BY CallsTyped
  <1>2. Spec => NoTrustNoWrite
    BY <1>1, TrustStep, PTL DEF Spec, NoTrustNoWrite
  <1>3. Spec => OfferedWhenDone
    BY <1>1, OfferStep, PTL DEF Spec, OfferedWhenDone
  <1>4. Spec => FirstAckKept
    BY <1>1, AckStep, PTL DEF Spec, FirstAckKept
  <1>5. Spec => FlipsUnlessRaced
    BY <1>1, FlipStep, PTL DEF Spec, FlipsUnlessRaced
  <1> QED  BY <1>2, <1>3, <1>4, <1>5 DEF WritesTrusted
-----------------------------------------------------------------------------
(* Functions on 0 .. N by recursion *)

LEMMA LessIsWellFounded == IsWellFoundedOn({ss \in Nat \X Nat : ss[1] < ss[2]}, Nat)
  BY NatLessThanWellFounded DEF OpToRel

\* A set of naturals that is not empty has a least element.
LEMMA HasLeast ==
    ASSUME NEW T \in SUBSET Nat, T # {}
    PROVE  \E m \in T : \A n \in T : m <= n
  <1> DEFINE R == {ss \in Nat \X Nat : ss[1] < ss[2]}
  <1>1. IsWellFoundedOn(R, Nat)
    BY LessIsWellFounded
  <1>2. \A n, m \in Nat : <<n, m>> \notin R => m <= n
    OBVIOUS
  <1> HIDE DEF R
  <1>3. \E m \in T : \A n \in T : ~(<<n, m>> \in R)
    BY <1>1, WFMin
  <1> QED  BY <1>2, <1>3

\* Induction up to N, of a set.
LEMMA UpTo ==
    ASSUME NEW N \in Nat, NEW T, 0 \in T, \A i \in 0 .. N : i \in T /\ i < N => i + 1 \in T
    PROVE  0 .. N \subseteq T
  <1> SUFFICES ASSUME NEW i \in 0 .. N, i \notin T PROVE FALSE
    OBVIOUS
  <1> DEFINE Out == {j \in 0 .. N : j \notin T}
  <1>1. Out \in SUBSET Nat /\ Out # {}
    OBVIOUS
  <1>2. PICK m \in Out : \A j \in Out : m <= j
    <2> HIDE DEF Out
    <2> QED  BY <1>1, HasLeast
  <1>3. m - 1 \in 0 .. N /\ m - 1 \in T
    BY <1>2
  <1> QED  BY <1>2, <1>3

Steps(N, V) == [1 .. N -> [V -> V]]

\* g starts with a and goes on by F.
Follows(g, N, V, a, F) == g \in [0 .. N -> V] /\ g[0] = a /\ \A i \in 1 .. N : g[i] = F[i][g[i - 1]]

\* There is such a function.
LEMMA Recursion ==
    ASSUME NEW N, N \in Nat, NEW V, NEW a, a \in V, NEW F, F \in Steps(N, V)
    PROVE  \E g : Follows(g, N, V, a, F)
  <1> USE DEF Steps
  <1> DEFINE Runs(g, n) == g \in [0 .. n -> V] /\ g[0] = a /\ \A i \in 1 .. n : g[i] = F[i][g[i - 1]]
             T == {n \in 0 .. N : \E g : Runs(g, n)}
  <1>1. 0 \in T
    <2>1. Runs([i \in 0 .. 0 |-> a], 0)
      OBVIOUS
    <2> HIDE DEF Runs
    <2> QED  BY <2>1
  <1>2. ASSUME NEW n \in 0 .. N, n \in T, n < N PROVE n + 1 \in T
    <2>1. PICK g : Runs(g, n)
      BY <1>2
    <2> DEFINE h == [i \in 0 .. n + 1 |-> IF i = n + 1 THEN F[n + 1][g[n]] ELSE g[i]]
    <2>2. g[n] \in V /\ n + 1 \in 1 .. N /\ F[n + 1][g[n]] \in V
      BY <1>2, <2>1
    <2>3. h \in [0 .. n + 1 -> V] /\ h[0] = a
      BY <2>1, <2>2
    <2>4. ASSUME NEW i \in 1 .. n + 1 PROVE h[i] = F[i][h[i - 1]]
      <3>1. h[i - 1] = g[i - 1]
        OBVIOUS
      <3>2. CASE i = n + 1
        BY <3>1, <3>2
      <3>3. CASE i \in 1 .. n
        <4>1. h[i] = g[i]
          BY <3>3
        <4> HIDE DEF h
        <4> QED  BY <2>1, <3>1, <3>3, <4>1
      <3> QED  BY <3>2, <3>3
    <2>5. Runs(h, n + 1)
      BY <2>3, <2>4
    <2>6. n + 1 \in 0 .. N
      BY <1>2
    <2> HIDE DEF Runs
    <2> QED  BY <2>5, <2>6
  <1>3. N \in T
    <2> HIDE DEF T
    <2>1. 0 .. N \subseteq T
      BY <1>1, <1>2, UpTo
    <2> QED  BY <2>1
  <1> QED  BY <1>3 DEF Follows

-----------------------------------------------------------------------------
(* Pages *)

Ids == Events \cup Rules \cup Devices

Count == [n : Nat, used : Nat, full : BOOLEAN]

Nothing == [n |-> 0, used |-> 0, full |-> FALSE]

\* One row more.
Keep(k, row) ==
    IF k.full \/ (k.n > 0 /\ k.used + Size[row] > Budget) THEN [k EXCEPT !.full = TRUE]
    ELSE [n |-> k.n + 1, used |-> k.used + Size[row], full |-> FALSE]

LEMMA SizeIs == Size \in [Ids -> Nat] /\ (\A i \in Ids : Size[i] \in Nat)
  BY IdsAssumption DEF Ids

LEMMA KeepIs ==
    ASSUME NEW k \in Count, NEW row \in Ids
    PROVE  /\ Keep(k, row) \in Count
           /\ \/ Keep(k, row).n = k.n /\ Keep(k, row).used = k.used /\ Keep(k, row).full /\ (k.n > 0 \/ k.full)
              \/ /\ Keep(k, row).n = k.n + 1 /\ Keep(k, row).used = k.used + Size[row] /\ ~Keep(k, row).full /\ ~k.full
                 /\ k.n > 0 => k.used + Size[row] <= Budget
  <1> DEFINE s == Size[row]
  <1>1. s \in Nat /\ Budget \in Nat
    BY SizeIs, IdsAssumption
  <1> HIDE DEF s
  <1>2. k.n \in Nat /\ k.used \in Nat /\ k.full \in BOOLEAN /\ k.used + s \in Nat
    BY <1>1 DEF Count
  <1>3. CASE k.full \/ (k.n > 0 /\ k.used + s > Budget)
    <2>1. Keep(k, row) = [k EXCEPT !.full = TRUE]
      BY <1>3 DEF Keep, s
    <2> QED  BY <1>2, <1>3, <2>1 DEF Count
  <1>4. CASE ~(k.full \/ (k.n > 0 /\ k.used + s > Budget))
    <2>1. Keep(k, row) = [n |-> k.n + 1, used |-> k.used + s, full |-> FALSE]
      BY <1>4 DEF Keep, s
    <2>2. k.n > 0 => k.used + s <= Budget
      BY <1>1, <1>2, <1>4
    <2>3. Keep(k, row) \in Count /\ ~k.full
      BY <1>2, <1>4, <2>1 DEF Count
    <2> QED  BY <2>1, <2>2, <2>3 DEF s
  <1> QED  BY <1>3, <1>4

\* The function in Fit.
LEMMA KeptIs ==
    ASSUME NEW rows \in Seq(Ids)
    PROVE  \E g \in [0 .. Len(rows) -> Count] :
              /\ Fit(rows) = SubSeq(rows, 1, g[Len(rows)].n)
              /\ g[0] = Nothing
              /\ \A i \in 1 .. Len(rows) : g[i] = Keep(g[i - 1], rows[i])
  <1> DEFINE N == Len(rows)
             Is(g) == g = [i \in 0 .. N |-> IF i = 0 THEN Nothing ELSE Keep(g[i - 1], rows[i])]
             F == [i \in 1 .. N |-> [k \in Count |-> Keep(k, rows[i])]]
             c == CHOOSE g : Is(g)
  <1>1. Fit(rows) = SubSeq(rows, 1, c[N].n)
    BY DEF Fit, Keep, Nothing
  <1>2. N \in Nat /\ \A i \in 1 .. N : rows[i] \in Ids
    OBVIOUS
  <1>3. F \in Steps(N, Count)
    BY <1>2, KeepIs DEF Steps
  <1>4. Nothing \in Count
    BY DEF Nothing, Count
  <1>5. PICK g : Follows(g, N, Count, Nothing, F)
    <2> HIDE DEF N, F
    <2> QED  BY <1>2, <1>3, <1>4, Recursion
  <1>g. g \in [0 .. N -> Count] /\ g[0] = Nothing
    BY <1>5 DEF Follows
  <1>6. \A i \in 1 .. N : g[i] = Keep(g[i - 1], rows[i])
    <2> SUFFICES ASSUME NEW i \in 1 .. N PROVE g[i] = Keep(g[i - 1], rows[i])
      OBVIOUS
    <2>1. g[i] = F[i][g[i - 1]] /\ g[i - 1] \in Count
      <3> HIDE DEF F
      <3> QED  BY <1>2, <1>5, <1>g DEF Follows
    <2>2. F[i] = [k \in Count |-> Keep(k, rows[i])]
      OBVIOUS
    <2> HIDE DEF F
    <2> QED  BY <2>1, <2>2
  <1>7. Is(g)
    <2>1. \A i \in 0 .. N : g[i] = IF i = 0 THEN Nothing ELSE Keep(g[i - 1], rows[i])
      BY <1>2, <1>g, <1>6
    <2> QED  BY <1>g, <2>1
  <1>8. Is(c)
    <2> HIDE DEF Is
    <2> QED  BY <1>7
  <1>9. c = g
    <2> SUFFICES ASSUME NEW i \in 0 .. N PROVE c[i] = g[i]
      <3> HIDE DEF c
      <3> QED  BY <1>g, <1>8
    <2> DEFINE T == {j \in 0 .. N : c[j] = g[j]}
    <2> HIDE DEF c
    <2>1. 0 \in T
      BY <1>2, <1>g, <1>8
    <2>2. ASSUME NEW j \in 0 .. N, j \in T, j < N PROVE j + 1 \in T
      <3>1. j + 1 \in 1 .. N /\ (j + 1) - 1 = j
        BY <1>2, <2>2
      <3>2. c[j + 1] = Keep(c[j], rows[j + 1])
        BY <1>8, <3>1
      <3> QED  BY <1>6, <2>2, <3>1, <3>2
    <2>3. 0 .. N \subseteq T
      <3> HIDE DEF T, N
      <3> QED  BY <1>2, <2>1, <2>2, UpTo
    <2> QED  BY <2>3
  <1> QED  BY <1>1, <1>g, <1>6, <1>9

\* Bytes of a page, as PageAdvances adds them up.
Bytes(page) ==
    LET bytes[i \in 0 .. Len(page)] == IF i = 0 THEN 0 ELSE bytes[i - 1] + Size[page[i]]
    IN  bytes[Len(page)]

LEMMA SumsExist ==
    ASSUME NEW rows \in Seq(Ids)
    PROVE  \E g \in [0 .. Len(rows) -> Nat] :
              g[0] = 0 /\ \A i \in 1 .. Len(rows) : g[i] = g[i - 1] + Size[rows[i]]
  <1> DEFINE N == Len(rows)
             F == [i \in 1 .. N |-> [k \in Nat |-> k + Size[rows[i]]]]
  <1>1. N \in Nat /\ \A i \in 1 .. N : rows[i] \in Ids /\ Size[rows[i]] \in Nat
    BY SizeIs
  <1>2. F \in Steps(N, Nat)
    BY <1>1 DEF Steps
  <1>3. PICK g : Follows(g, N, Nat, 0, F)
    <2> HIDE DEF N, F
    <2> QED  BY <1>1, <1>2, Recursion
  <1>4. g \in [0 .. N -> Nat] /\ g[0] = 0
    BY <1>3 DEF Follows
  <1>5. ASSUME NEW i \in 1 .. N PROVE g[i] = g[i - 1] + Size[rows[i]]
    <2>1. g[i] = F[i][g[i - 1]]
      <3> HIDE DEF F
      <3> QED  BY <1>3 DEF Follows
    <2>3. i - 1 \in 0 .. N /\ g[i - 1] \in Nat
      <3> HIDE DEF F
      <3> QED  BY <1>1, <1>4
    <2>2. F[i] = [k \in Nat |-> k + Size[rows[i]]]
      OBVIOUS
    <2> HIDE DEF F
    <2> QED  BY <2>1, <2>2, <2>3
  <1> QED  BY <1>4, <1>5

LEMMA BytesAre ==
    ASSUME NEW rows \in Seq(Ids), NEW g \in [0 .. Len(rows) -> Nat], NEW n \in 0 .. Len(rows),
           g[0] = 0, \A i \in 1 .. Len(rows) : g[i] = g[i - 1] + Size[rows[i]]
    PROVE  Bytes(SubSeq(rows, 1, n)) = g[n]
  <1> DEFINE page == SubSeq(rows, 1, n)
             Is(f) == f = [i \in 0 .. Len(page) |-> IF i = 0 THEN 0 ELSE f[i - 1] + Size[page[i]]]
             c == CHOOSE f : Is(f)
             h == [i \in 0 .. n |-> g[i]]
  <1>1. Bytes(page) = c[Len(page)]
    BY DEF Bytes
  <1>2. n \in Nat /\ Len(page) = n /\ \A i \in 1 .. n : page[i] = rows[i]
    OBVIOUS
  <1> HIDE DEF page
  <1>3. Is(h)
    BY <1>2
  <1>4. Is(c)
    <2> HIDE DEF Is
    <2> QED  BY <1>3
  <1> HIDE DEF c
  <1> DEFINE T == {j \in 0 .. n : c[j] = g[j]}
  <1>5. 0 \in T
    BY <1>2, <1>4
  <1>6. ASSUME NEW j \in 0 .. n, j \in T, j < n PROVE j + 1 \in T
    <2>1. j + 1 \in 1 .. n /\ (j + 1) - 1 = j /\ j + 1 \in 1 .. Len(rows)
      BY <1>2, <1>6
    <2>2. c[j + 1] = c[j] + Size[page[j + 1]]
      BY <1>2, <1>4, <2>1
    <2>3. g[j + 1] = g[j] + Size[rows[j + 1]]
      BY <2>1
    <2> QED  BY <1>2, <1>6, <2>1, <2>2, <2>3
  <1>7. 0 .. n \subseteq T
    <2> HIDE DEF T
    <2> QED  BY <1>2, <1>5, <1>6, UpTo
  <1>8. c[n] = g[n]
    BY <1>2, <1>7
  <1> QED  BY <1>1, <1>2, <1>8 DEF page

\* A page that fits: rows from the first on, never none, several only within the budget.
LEMMA FitIs ==
    ASSUME NEW rows \in Seq(Ids)
    PROVE  \E n \in 0 .. Len(rows) :
              /\ Fit(rows) = SubSeq(rows, 1, n)
              /\ rows # <<>> => n > 0
              /\ n > 1 => Bytes(SubSeq(rows, 1, n)) <= Budget
  <1> DEFINE N == Len(rows)
  <1>1. N \in Nat /\ \A i \in 1 .. N : rows[i] \in Ids /\ Size[rows[i]] \in Nat
    BY SizeIs
  <1>2. PICK k \in [0 .. N -> Count] :
            /\ Fit(rows) = SubSeq(rows, 1, k[N].n)
            /\ k[0] = Nothing
            /\ \A i \in 1 .. N : k[i] = Keep(k[i - 1], rows[i])
    BY KeptIs
  <1>3. PICK g \in [0 .. N -> Nat] : g[0] = 0 /\ \A i \in 1 .. N : g[i] = g[i - 1] + Size[rows[i]]
    BY SumsExist
  <1> DEFINE Right(i) ==
               /\ k[i].n <= i /\ (~k[i].full => k[i].n = i) /\ (i > 0 => k[i].n > 0)
               /\ k[i].used = g[k[i].n] /\ (k[i].n > 1 => k[i].used <= Budget)
             T == {i \in 0 .. N : Right(i)}
  <1>4. 0 \in T
    BY <1>1, <1>2, <1>3 DEF Nothing
  <1>5. ASSUME NEW i \in 0 .. N, i \in T, i < N PROVE i + 1 \in T
    <2> DEFINE old == k[i]
               new == k[i + 1]
               s == Size[rows[i + 1]]
    <2>1. i + 1 \in 1 .. N /\ (i + 1) - 1 = i /\ i + 1 \in 0 .. N /\ rows[i + 1] \in Ids /\ s \in Nat
      BY <1>1, <1>5
    <2>2. new = Keep(old, rows[i + 1]) /\ old \in Count /\ new \in Count
      BY <1>2, <2>1
    <2>3. \/ new.n = old.n /\ new.used = old.used /\ new.full /\ (old.n > 0 \/ old.full)
          \/ /\ new.n = old.n + 1 /\ new.used = old.used + s /\ ~new.full /\ ~old.full
             /\ old.n > 0 => old.used + s <= Budget
      BY <2>1, <2>2, KeepIs
    <2>4. /\ old.n <= i /\ (~old.full => old.n = i) /\ (i > 0 => old.n > 0)
          /\ old.used = g[old.n] /\ (old.n > 1 => old.used <= Budget)
      BY <1>5
    <2>5. g[i + 1] = g[i] + s
      BY <1>3, <2>1
    <2>6. old.n \in Nat /\ old.used \in Nat /\ new.n \in Nat /\ new.used \in Nat /\ Budget \in Nat
      BY <2>2, IdsAssumption DEF Count
    <2> HIDE DEF old, new, s
    <2>7. /\ new.n <= i + 1 /\ (~new.full => new.n = i + 1) /\ new.n > 0
          /\ new.used = g[new.n] /\ (new.n > 1 => new.used <= Budget)
      <3>1. CASE new.n = old.n /\ new.used = old.used /\ new.full /\ (old.n > 0 \/ old.full)
        <4>1. old.n > 0
          <5>1. CASE i > 0
            BY <2>4, <5>1
          <5>2. CASE i = 0
            <6>1. old = Nothing
              BY <1>2, <5>2 DEF old
            <6> QED  BY <3>1, <6>1 DEF Nothing
          <5> QED  BY <1>1, <5>1, <5>2
        <4> QED  BY <2>4, <2>6, <3>1, <4>1
      <3>2. CASE /\ new.n = old.n + 1 /\ new.used = old.used + s /\ ~new.full /\ ~old.full
                 /\ old.n > 0 => old.used + s <= Budget
        BY <2>1, <2>4, <2>5, <2>6, <3>2
      <3> QED  BY <2>3, <3>1, <3>2
    <2> QED  BY <2>1, <2>7 DEF new
  <1>6. N \in T
    <2> HIDE DEF T, N
    <2>1. 0 .. N \subseteq T
      BY <1>1, <1>4, <1>5, UpTo
    <2> QED  BY <1>1, <2>1
  <1>7. k[N].n \in 0 .. N /\ (N > 0 => k[N].n > 0) /\ (k[N].n > 1 => g[k[N].n] <= Budget)
    <2>1. k[N] \in Count
      BY <1>1, <1>2
    <2> QED  BY <1>1, <1>6, <2>1 DEF Count
  <1> DEFINE n == k[N].n
  <1>8. Fit(rows) = SubSeq(rows, 1, n) /\ n \in 0 .. N
    BY <1>2, <1>7
  <1>9. Bytes(SubSeq(rows, 1, n)) = g[n]
    <2> HIDE DEF n
    <2> QED  BY <1>3, <1>8, BytesAre
  <1>10. (rows # <<>> => n > 0) /\ (n > 1 => Bytes(SubSeq(rows, 1, n)) <= Budget)
    BY <1>1, <1>7, <1>9
  <1> HIDE DEF n
  <1> QED  BY <1>8, <1>10

-----------------------------------------------------------------------------
(* Lists *)

LEMMA PartsAreFew ==
    ASSUME NEW S \in SUBSET Ids
    PROVE  /\ IsFiniteSet(S) /\ Cardinality(S) \in Nat /\ Cardinality(S) <= Cardinality(Ids)
           /\ (Cardinality(S) = 0 <=> S = {})
           /\ \A x \in S : Cardinality(S \ {x}) = Cardinality(S) - 1
  <1>1. IsFiniteSet(S) /\ Cardinality(S) <= Cardinality(Ids)
    BY RowsAssumption, FS_Subset DEF Ids
  <1> QED  BY <1>1, FS_CardinalityType, FS_EmptySet, FS_RemoveElement

LEMMA HasNewest ==
    ASSUME NEW S \in SUBSET Ids, S # {} PROVE \E i \in S : \A j \in S : j <= i
  <1> DEFINE N == Cardinality(Ids)
             T == {n \in 0 .. N : \A A \in SUBSET Ids :
                       A # {} /\ Cardinality(A) <= n => \E i \in A : \A j \in A : j <= i}
  <1>1. N \in Nat /\ Ids \subseteq Nat
    BY PartsAreFew, IdsAssumption DEF Ids
  <1>2. 0 \in T
    <2>1. \A A \in SUBSET Ids : A # {} => ~(Cardinality(A) <= 0)
      BY PartsAreFew
    <2> QED  BY <1>1, <2>1
  <1>3. ASSUME NEW n \in 0 .. N, n \in T, n < N PROVE n + 1 \in T
    <2> SUFFICES ASSUME NEW A \in SUBSET Ids, A # {}, Cardinality(A) <= n + 1
                 PROVE  \E i \in A : \A j \in A : j <= i
      BY <1>1, <1>3
    <2>1. PICK x \in A : TRUE
      OBVIOUS
    <2> DEFINE B == A \ {x}
    <2>2. CASE B = {}
      BY <1>1, <2>1, <2>2
    <2>3. CASE B # {}
      <3>1. Cardinality(B) <= n /\ B \in SUBSET Ids
        BY <1>1, <2>1, PartsAreFew
      <3> HIDE DEF B
      <3>2. PICK i \in B : \A j \in B : j <= i
        BY <1>3, <2>3, <3>1
      <3>3. i \in A /\ x \in A /\ i \in Nat /\ x \in Nat /\ \A j \in A : j = x \/ j \in B
        BY <1>1, <2>1 DEF B
      <3>4. CASE x <= i
        BY <3>2, <3>3, <3>4
      <3>5. CASE i < x
        <4>1. \A j \in A : j <= x
          BY <1>1, <3>2, <3>3, <3>5
        <4> QED  BY <3>3, <4>1
      <3> QED  BY <3>3, <3>4, <3>5
    <2> QED  BY <2>2, <2>3
  <1>4. N \in T
    <2> HIDE DEF T, N
    <2>1. 0 .. N \subseteq T
      BY <1>1, <1>2, <1>3, UpTo
    <2> QED  BY <1>1, <2>1
  <1> QED  BY <1>4, PartsAreFew

Newest(S) == CHOOSE i \in S : \A j \in S : j <= i

\* What the rows of a set are, from those of the sets without their newest.
Listed(f, S) == IF S = {} THEN <<>> ELSE <<Newest(S)>> \o f[S \ {Newest(S)}]

LEMMA ListsAreRows == \A S \in SUBSET Ids : Descending[S] \in Seq(Ids)
  <1> DEFINE N == Cardinality(Ids)
             Small(n) == {S \in SUBSET Ids : Cardinality(S) <= n}
             Is(f, n) == f = [S \in Small(n) |-> Listed(f, S)]
             Rows(f, n) == \A S \in Small(n) : f[S] \in Seq(Ids)
             T == {n \in 0 .. N : \E f : Is(f, n)}
  <1>0. N \in Nat
    BY PartsAreFew
  <1>1. \A S \in SUBSET Ids : S # {} =>
            /\ Newest(S) \in S /\ S \ {Newest(S)} \in SUBSET Ids
            /\ Cardinality(S \ {Newest(S)}) = Cardinality(S) - 1
    BY HasNewest, PartsAreFew DEF Newest
  <1>2. \A S \in SUBSET Ids : Cardinality(S) \in Nat /\ (Cardinality(S) <= 0 => S = {})
    BY PartsAreFew
  <1>3. 0 \in T
    <2> DEFINE f == [S \in Small(0) |-> <<>>]
    <2>1. \A S \in Small(0) : Listed(f, S) = <<>>
      BY <1>2 DEF Listed
    <2>2. Is(f, 0)
      BY <2>1
    <2> HIDE DEF Is
    <2> QED  BY <1>0, <2>2
  <1>4. ASSUME NEW n \in 0 .. N, n \in T, n < N PROVE n + 1 \in T
    <2>1. PICK f : Is(f, n)
      BY <1>4
    <2> DEFINE h == [S \in Small(n + 1) |-> Listed(f, S)]
    <2>2. ASSUME NEW S \in Small(n + 1) PROVE Listed(h, S) = Listed(f, S)
      <3>1. CASE S = {}
        BY <3>1 DEF Listed
      <3>2. CASE S # {}
        <4> DEFINE R == S \ {Newest(S)}
        <4>1. R \in Small(n) /\ R \in Small(n + 1)
          BY <1>1, <1>2, <1>4, <3>2
        <4> HIDE DEF R
        <4>2. f[R] = Listed(f, R)
          BY <2>1, <4>1
        <4>3. h[R] = f[R]
          BY <4>1, <4>2
        <4> QED  BY <3>2, <4>3 DEF Listed, R
      <3> QED  BY <3>1, <3>2
    <2>3. Is(h, n + 1)
      BY <2>2
    <2>4. n + 1 \in 0 .. N
      <3> HIDE DEF N, T
      <3> QED  BY <1>0, <1>4
    <2> HIDE DEF Is
    <2> QED  BY <2>3, <2>4
  <1>5. PICK f : Is(f, N)
    <2> HIDE DEF T, N
    <2>1. 0 .. N \subseteq T
      BY <1>0, <1>3, <1>4, UpTo
    <2>2. N \in T
      BY <1>0, <2>1
    <2> QED  BY <2>2 DEF T
  <1>6. Small(N) = SUBSET Ids
    BY PartsAreFew
  <1> DEFINE All(g) == g = [S \in SUBSET Ids |-> Listed(g, S)]
  <1>7. Descending = CHOOSE g : All(g)
    BY DEF Descending, Listed, Newest, Ids
  <1>8. All(f)
    BY <1>5, <1>6
  <1>9. All(Descending)
    <2> HIDE DEF All
    <2> QED  BY <1>7, <1>8
  <1> DEFINE U == {n \in 0 .. N : \A S \in Small(n) : Descending[S] \in Seq(Ids)}
  <1>10. 0 \in U
    <2>1. \A S \in Small(0) : Descending[S] = <<>>
      BY <1>2, <1>9 DEF Listed
    <2>2. <<>> \in Seq(Ids)
      OBVIOUS
    <2>3. 0 \in 0 .. N
      <3> HIDE DEF N
      <3> QED  BY <1>0
    <2> QED  BY <2>1, <2>2, <2>3
  <1>11. ASSUME NEW n \in 0 .. N, n \in U, n < N PROVE n + 1 \in U
    <2> SUFFICES ASSUME NEW S \in Small(n + 1) PROVE Descending[S] \in Seq(Ids)
      <3>1. n + 1 \in 0 .. N
        <4> HIDE DEF N, U
        <4> QED  BY <1>0, <1>11
      <3> QED  BY <3>1
    <2>1. Descending[S] = Listed(Descending, S)
      BY <1>9
    <2>2. CASE S = {}
      BY <2>1, <2>2 DEF Listed
    <2>3. CASE S # {}
      <3> DEFINE R == S \ {Newest(S)}
      <3>1. R \in Small(n) /\ Newest(S) \in Ids
        BY <1>1, <1>2, <1>11, <2>3
      <3>2. Descending[R] \in Seq(Ids)
        BY <1>11, <3>1
      <3>3. Descending[S] = <<Newest(S)>> \o Descending[R]
        BY <2>1, <2>3 DEF Listed
      <3> HIDE DEF R
      <3> QED  BY <3>1, <3>2, <3>3
    <2> QED  BY <2>2, <2>3
  <1>12. N \in U
    <2> HIDE DEF U, N
    <2>1. 0 .. N \subseteq U
      BY <1>0, <1>10, <1>11, UpTo
    <2> QED  BY <1>0, <2>1
  <1> QED  BY <1>6, <1>12

-----------------------------------------------------------------------------
(* The statement that answers *)

LEMMA AnswerIs ==
    ASSUME NEW q \in Requests, Request(request[q]), NEW reply
    PROVE  Answer(q, reply).pc = "done" /\ Answer(q, reply).reply = reply /\ Answer(q, reply).op = request[q].op
  BY DEF Request, Answer

\* The answers that tell what there is.
Telling == {"whole", "truncated", "counts"}

\* q goes on, or is told something else.
TellsNothing(q) ==
    \/ \E r, wrote : Goto(q, r, wrote) /\ r.pc # "done" /\ r.op = request[q].op
    \/ \E reply, wrote : Goto(q, Answer(q, reply), wrote) /\ reply \notin Telling

LEMMA Untold ==
    ASSUME CallInv, NEW q \in Requests, request[q].pc # "idle", TellsNothing(q), request'[q].pc = "done"
    PROVE  request'[q].reply \notin Telling
  <1>1. Request(request[q])
    BY Underway
  <1>2. CASE \E r, wrote : Goto(q, r, wrote) /\ r.pc # "done" /\ r.op = request[q].op
    BY <1>2 DEF Goto
  <1>3. CASE \E reply, wrote : Goto(q, Answer(q, reply), wrote) /\ reply \notin Telling
    <2>1. PICK reply, wrote : Goto(q, Answer(q, reply), wrote) /\ reply \notin Telling
      BY <1>3
    <2>2. request'[q] = Answer(q, reply)
      BY <2>1 DEF Goto
    <2> QED  BY <1>1, <2>1, <2>2, AnswerIs
  <1> QED  BY <1>2, <1>3 DEF TellsNothing

LEMMA Going ==
    ASSUME NEW q, NEW r, NEW wrote, Goto(q, r, wrote), r.pc # "done", r.op = request[q].op
    PROVE  TellsNothing(q)
  BY DEF TellsNothing

LEMMA Told ==
    ASSUME NEW q, NEW reply, NEW wrote, Goto(q, Answer(q, reply), wrote), reply \notin Telling
    PROVE  TellsNothing(q)
  BY DEF TellsNothing

\* Only the two statements that answer a question do.
LEMMA TellersAre ==
    ASSUME CallInv, NEW q \in Requests, request[q].pc # "idle", RequestStep(q),
           ~SelectPage(q), ~CountDevices(q)
    PROVE  TellsNothing(q)
  <1>1. Request(request[q])
    BY Underway
  <1>r. \A reply \in {"refused", "missing", "already", "nothing", "ok", "error", "rejected", "acknowledged", "writes", "reads"} :
            reply \notin Telling
    BY DEF Telling
  <1>3. ASSUME NEW reply, NEW wrote, Goto(q, Answer(q, reply), wrote), reply \notin Telling PROVE TellsNothing(q)
    <2> DEFINE r == Answer(q, reply)
    <2> QED  BY <1>3, Told
  <1>4. ~Call(q) /\ ~Click(q) /\ ~Fetch(q)
    BY DEF Call, Click, Fetch, Idle
  <1>5. CASE Session(q)
    <2> DEFINE r == [request[q] EXCEPT !.pc = "switch", !.role = account[request[q].who].role]
    <2>1. Goto(q, r, {}) \/ Goto(q, Answer(q, "refused"), {})
      BY <1>5 DEF Session
    <2>2. r.pc # "done" /\ r.op = request[q].op
      BY <1>1 DEF Request
    <2> HIDE DEF r
    <2> QED  BY <1>r, <1>3, <2>1, <2>2, Going
  <1>6. CASE Switch(q)
    <2> DEFINE r == [request[q] EXCEPT !.pc = "allowed"]
    <2>1. Goto(q, r, {}) \/ Goto(q, Answer(q, "refused"), {})
      BY <1>6 DEF Switch
    <2>2. r.pc # "done" /\ r.op = request[q].op
      BY <1>1 DEF Request
    <2> HIDE DEF r
    <2> QED  BY <1>r, <1>3, <2>1, <2>2, Going
  <1>7. CASE Allowed(q)
    <2>1. PICK pc \in {"trusted", "look"} : Goto(q, [request[q] EXCEPT !.pc = pc], {}) \/ Goto(q, Answer(q, "refused"), {})
      BY <1>7 DEF Allowed
    <2> DEFINE r == [request[q] EXCEPT !.pc = pc]
    <2>2. r.pc # "done" /\ r.op = request[q].op /\ (Goto(q, r, {}) \/ Goto(q, Answer(q, "refused"), {}))
      BY <1>1, <2>1 DEF Request
    <2> HIDE DEF r
    <2> QED  BY <1>r, <1>3, <2>2, Going
  <1>8. CASE Trusted(q)
    <2> DEFINE r == [request[q] EXCEPT !.pc = "look"]
    <2>1. Goto(q, r, {}) \/ Goto(q, Answer(q, "refused"), {})
      BY <1>8 DEF Trusted
    <2>2. r.pc # "done" /\ r.op = request[q].op
      BY <1>1 DEF Request
    <2> HIDE DEF r
    <2> QED  BY <1>r, <1>3, <2>1, <2>2, Going
  <1>9. CASE CountRows(q)
    <2> DEFINE g == <<Len(RowsOf(request[q].op))>>
               r == [request[q] EXCEPT !.pc = "select", !.got = g]
    <2>1. Goto(q, r, {})
      BY <1>9 DEF CountRows
    <2>2. r.pc # "done" /\ r.op = request[q].op
      BY <1>1 DEF Request
    <2> HIDE DEF r
    <2> QED  BY <1>r, <1>3, <2>1, <2>2, Going
  <1>10. CASE FetchRole(q)
    <2> DEFINE g == Append(request[q].got, EveryRole[Len(request[q].got) + 1])
               r == [request[q] EXCEPT !.got = g]
    <2>1. request[q].pc = "roles"
      BY <1>10 DEF FetchRole
    <2>2. PICK offer \in {"writes", "reads"} : Goto(q, Answer(q, offer), {}) \/ Goto(q, r, {})
      BY <1>10 DEF FetchRole
    <2>3. r.pc # "done" /\ r.op = request[q].op
      BY <1>1, <2>1 DEF Request
    <2> HIDE DEF r
    <2> QED  BY <1>r, <1>3, <2>2, <2>3, Going
  <1>11. CASE LookAtEvent(q)
    <2> DEFINE r == [request[q] EXCEPT !.pc = "write"]
    <2>1. PICK reply \in {"missing", "already"} :
              Goto(q, Answer(q, reply), {}) \/ Goto(q, r, {})
      <3> DEFINE found == event[request[q].on]
      <3>1. CASE found = "gone"
        <4>1. found \notin People
          BY <3>1, IdsAssumption
        <4> QED  BY <1>11, <3>1, <4>1 DEF LookAtEvent
      <3>2. CASE found # "gone" /\ found \in People /\ request[q].via = "panel"
        BY <1>11, <3>2 DEF LookAtEvent
      <3>3. CASE found # "gone" /\ ~(found \in People /\ request[q].via = "panel")
        BY <1>11, <3>3 DEF LookAtEvent
      <3> QED  BY <3>1, <3>2, <3>3
    <2>2. r.pc # "done" /\ r.op = request[q].op
      BY <1>1 DEF Request
    <2> HIDE DEF r
    <2> QED  BY <1>r, <1>3, <2>1, <2>2, Going
  <1>12. CASE CountOpen(q)
    <2> DEFINE g == <<Cardinality(Open)>>
               r == [request[q] EXCEPT !.pc = "write", !.got = g]
    <2>1. Goto(q, Answer(q, "nothing"), {}) \/ Goto(q, r, {})
      BY <1>12 DEF CountOpen
    <2>2. r.pc # "done" /\ r.op = request[q].op
      BY <1>1 DEF Request
    <2> HIDE DEF r
    <2> QED  BY <1>r, <1>3, <2>1, <2>2, Going
  <1>13. CASE LookAtRule(q)
    <2> DEFINE g == <<rule[request[q].on]>>
               r == [request[q] EXCEPT !.pc = "write", !.got = g]
    <2>1. Goto(q, Answer(q, "missing"), {}) \/ Goto(q, r, {})
      BY <1>13 DEF LookAtRule
    <2>2. r.pc # "done" /\ r.op = request[q].op
      BY <1>1 DEF Request
    <2> HIDE DEF r
    <2> QED  BY <1>r, <1>3, <2>1, <2>2, Going
  <1>14. CASE AckEvent(q) \/ AckAll(q)
    <2> DEFINE r == [request[q] EXCEPT !.pc = "reread"]
    <2>1. Goto(q, r, {"event"}) \/ Goto(q, Answer(q, "ok"), {"event"}) \/ Goto(q, Answer(q, "rejected"), {})
      BY <1>14 DEF AckEvent, AckAll, Acknowledge
    <2>2. r.pc # "done" /\ r.op = request[q].op
      BY <1>1 DEF Request
    <2> HIDE DEF r
    <2> QED  BY <1>r, <1>3, <2>1, <2>2, Going
  <1>15. CASE RereadEvent(q)
    <2>1. PICK reply \in {"error", "acknowledged"} : Goto(q, Answer(q, reply), {})
      BY <1>15 DEF RereadEvent
    <2> QED  BY <1>r, <1>3, <2>1
  <1>16. CASE ToggleRule(q) \/ DeleteRule(q)
    <2>1. \E wrote : Goto(q, Answer(q, "ok"), wrote)
      BY <1>16 DEF ToggleRule, DeleteRule
    <2> QED  BY <1>r, <1>3, <2>1
  <1> QED  BY <1>4, <1>5, <1>6, <1>7, <1>8, <1>9, <1>10, <1>11, <1>12, <1>13, <1>14, <1>15, <1>16 DEF RequestStep

\* Whoever does not make the step stays where it is.
LEMMA Aside ==
    ASSUME CallInv, NEW p \in Requests, NEW q \in Requests \ {p}, NEW r, NEW wrote, Goto(p, r, wrote)
    PROVE  /\ request'[q].pc = request[q].pc
           /\ request'[q] = IF Active(q) THEN Racing(q, wrote) ELSE request[q]
  <1>1. request'[q] = IF Active(q) THEN Racing(q, wrote) ELSE request[q]
    BY DEF Goto
  <1>2. Active(q) => Request(request[q])
    BY Underway DEF Active
  <1> QED  BY <1>1, <1>2 DEF Racing, Request

\* What ends a request is a statement of its own.
LEMMA OwnEnd ==
    ASSUME CallInv, [Next]_vars, NEW q \in Requests, request[q].pc # "done", request'[q].pc = "done"
    PROVE  request[q].pc # "idle" /\ RequestStep(q)
  <1>0. ASSUME Active(q), NEW wrote, NEW new, request'[q] = Racing(q, wrote)
                   \/ request'[q] = [Racing(q, wrote) EXCEPT !.trusted = @ \/ new]
        PROVE  FALSE
    <2>1. Request(request[q])
      BY <1>0, Underway DEF Active
    <2> QED  BY <1>0, <2>1 DEF Racing, Request
  <1>1. ASSUME NEW p \in Requests, RequestStep(p), p # q PROVE FALSE
    <2>1. PICK r, wrote : Goto(p, r, wrote)
      BY <1>1, EachGoes
    <2> QED  BY <1>1, <2>1, Aside
  <1>2. CASE \/ \E e \in Events : Fire(e)
             \/ \E d \in Devices : ChangeDevice(d)
             \/ \E p \in People \ {Hub} : ChangeAccount(p)
    <2>1. PICK wrote : Disturb(wrote)
      BY <1>2 DEF Fire, ChangeDevice, ChangeAccount
    <2>2. request'[q] = IF Active(q) THEN Racing(q, wrote) ELSE request[q]
      BY <2>1 DEF Disturb
    <2> QED  BY <1>0, <2>2
  <1>3. CASE ChangeSetting
    <2>1. PICK new : request'[q] = IF Active(q) THEN [Racing(q, {"setting"}) EXCEPT !.trusted = @ \/ new] ELSE request[q]
      BY <1>3 DEF ChangeSetting
    <2> QED  BY <1>0, <2>1
  <1>4. CASE UNCHANGED vars
    BY <1>4 DEF vars
  <1>5. ASSUME request[q].pc = "idle", RequestStep(q) PROVE FALSE
    <2>1. request[q] = Idle
      <3>1. ~Request(request[q])
        BY <1>5, HasCome
      <3> QED  BY <3>1 DEF CallInv, Calls, Good
    <2>2. Call(q) \/ Click(q) \/ Fetch(q)
      BY <1>5 DEF RequestStep, Session, Switch, Allowed, Trusted, CountRows, SelectPage, CountDevices, FetchRole,
                  LookAtEvent, CountOpen, LookAtRule, RereadEvent, AckEvent, AckAll, ToggleRule, DeleteRule
    <2>3. ASSUME NEW via, NEW pc, NEW op, NEW who, NEW on, Goto(q, Arriving(via, pc, op, who, on), {}) PROVE pc = "done"
      <3>1. request'[q] = Arriving(via, pc, op, who, on)
        BY <2>3 DEF Goto
      <3> QED  BY <3>1 DEF Arriving
    <2> QED  BY <2>2, <2>3 DEF Call, Click, Fetch
  <1> QED  BY <1>1, <1>2, <1>3, <1>4, <1>5 DEF Next

LEMMA RowsAre == ASSUME NEW op PROVE RowsOf(op) \in Seq(Ids)
  <1>1. {e \in Events : event[e] = "open"} \in SUBSET Ids /\ {r \in Rules : rule[r] = "on"} \in SUBSET Ids
        /\ {d \in Devices : device[d] = "down"} \in SUBSET Ids
    BY DEF Ids
  <1>2. EventRows \in Seq(Ids) /\ RuleRows \in Seq(Ids) /\ DeviceRows \in Seq(Ids)
    BY <1>1, ListsAreRows DEF EventRows, RuleRows, DeviceRows, Open
  <1> QED  BY <1>2 DEF RowsOf

\* The rows from an offset on, at most PageSize.
LEMMA PageIs ==
    ASSUME NEW rows \in Seq(Ids), NEW from \in Nat
    PROVE  LET page == Page(rows, from) IN
           /\ page \in Seq(Ids)
           /\ \A i \in 1 .. Len(page) : page[i] = rows[from + i]
           /\ from < Len(rows) => Len(page) > 0
           /\ Len(page) < PageSize => from + Len(page) >= Len(rows)
  <1> DEFINE N == Len(rows)
             to == Smaller(from + PageSize, N)
             page == SubSeq(rows, from + 1, to)
  <1>1. N \in Nat /\ PageSize \in Nat \ {0}
    BY IdsAssumption
  <1>2. to \in Nat /\ to <= N /\ to <= from + PageSize /\ (to = N \/ to = from + PageSize)
    BY <1>1 DEF Smaller
  <1> HIDE DEF to
  <1>3. /\ page \in Seq(Ids) /\ Len(page) = IF from < to THEN to - from ELSE 0
        /\ \A i \in 1 .. Len(page) : page[i] = rows[from + i]
    <2>1. CASE from < to
      BY <1>1, <1>2, <2>1
    <2>2. CASE ~(from < to)
      <3>1. page = <<>>
        BY <1>1, <1>2, <2>2
      <3> HIDE DEF page
      <3>2. page \in Seq(Ids) /\ Len(page) = 0
        BY <3>1
      <3> QED  BY <2>2, <3>2
    <2> QED  BY <2>1, <2>2
  <1>4. Page(rows, from) = page
    BY DEF Page, to
  <1> HIDE DEF page
  <1> QED  BY <1>1, <1>2, <1>3, <1>4

\* The rows a list takes, from where PageAdvances says.
LEMMA ChosenIs ==
    ASSUME NEW op, RowsOf(op) \in Seq(Ids), NEW offset \in Nat
    PROVE  LET rows == RowsOf(op)
               from == IF op = "listAlertRules" THEN 0 ELSE offset
               page == Chosen(op, offset) IN
           /\ page \in Seq(Ids)
           /\ \A i \in 1 .. Len(page) : page[i] = rows[from + i]
           /\ from < Len(rows) => Len(page) > 0
           /\ Len(page) < PageSize \/ op = "listAlertRules" => from + Len(page) >= Len(rows)
  <1> DEFINE rows == RowsOf(op)
  <1> HIDE DEF rows
  <1>1. CASE op = "listAlertRules"
    <2>1. Chosen(op, offset) = rows /\ rows \in Seq(Ids)
      BY <1>1 DEF Chosen, rows
    <2> QED  BY <1>1, <2>1 DEF rows
  <1>2. CASE op # "listAlertRules"
    <2>1. Chosen(op, offset) = Page(rows, offset) /\ rows \in Seq(Ids)
      BY <1>2 DEF Chosen, rows
    <2> QED  BY <1>2, <2>1, PageIs DEF rows
  <1> QED  BY <1>1, <1>2

\* What is told comes from the statement that reads it.
LEMMA TellerIs ==
    ASSUME CallInv, [Next]_vars, NEW q \in Requests, request[q].pc # "done", request'[q].pc = "done",
           request'[q].reply \in Telling
    PROVE  request[q].pc # "idle" /\ (SelectPage(q) \/ CountDevices(q))
  <1>1. request[q].pc # "idle" /\ RequestStep(q)
    BY OwnEnd
  <1> QED  BY <1>1, TellersAre, Untold

LEMMA ListTells ==
    ASSUME CallInv, NEW q \in Requests, request[q].pc # "idle", SelectPage(q)
    PROVE  LET sub == Chosen(request[q].op, request[q].on) IN
           /\ request'[q].got = Fit(sub)
           /\ request'[q].reply = IF Len(Fit(sub)) < Len(sub) THEN "truncated" ELSE "whole"
  <1> DEFINE sub == Chosen(request[q].op, request[q].on)
             reply == IF Len(Fit(sub)) < Len(sub) THEN "truncated" ELSE "whole"
  <1>1. request'[q] = [Answer(q, reply) EXCEPT !.got = Fit(sub)]
    BY DEF SelectPage, Goto
  <1>2. Request(request[q])
    BY Underway
  <1> HIDE DEF sub
  <1>3. request'[q].got = Fit(sub) /\ request'[q].reply = reply
    <2> HIDE DEF reply
    <2> QED  BY <1>1, <1>2 DEF Request, Answer
  <1> QED  BY <1>3 DEF sub

LEMMA SummaryTells ==
    ASSUME CallInv, NEW q \in Requests, request[q].pc # "idle", CountDevices(q), request'[q].pc = "done"
    PROVE  LET got == request[q].got IN
           /\ Len(got) # 0 /\ Len(got) # 1 /\ request[q].op = "getSnmpSummary" /\ request[q].pc = "look"
           /\ request'[q].reply = "counts"
           /\ request'[q].got = <<got[1], got[2], With("down"), got[1] - got[2] - With("down")>>
  <1> DEFINE got == request[q].got
  <1>1. request[q].pc = "look" /\ request[q].op = "getSnmpSummary" /\ Request(request[q])
    BY Underway DEF CountDevices
  <1>2. CASE Len(got) = 0
    <2> DEFINE g == <<Cardinality(Devices) - With("none")>>
    <2>1. request'[q] = [request[q] EXCEPT !.got = g]
      BY <1>2 DEF CountDevices, Goto
    <2> HIDE DEF g
    <2> QED  BY <1>1, <2>1 DEF Request
  <1>3. CASE Len(got) # 0 /\ Len(got) = 1
    <2> DEFINE g == Append(got, With("up"))
    <2>1. request'[q] = [request[q] EXCEPT !.got = g]
      BY <1>3 DEF CountDevices, Goto
    <2> HIDE DEF g
    <2> QED  BY <1>1, <2>1 DEF Request
  <1>4. CASE Len(got) # 0 /\ Len(got) # 1
    <2> DEFINE g == <<got[1], got[2], With("down"), got[1] - got[2] - With("down")>>
    <2>1. request'[q] = [Answer(q, "counts") EXCEPT !.got = g]
      BY <1>4 DEF CountDevices, Goto
    <2>2. request'[q].reply = "counts" /\ request'[q].got = g
      <3> HIDE DEF g
      <3> QED  BY <1>1, <2>1 DEF Request, Answer
    <2> QED  BY <1>1, <1>4, <2>2
  <1> QED  BY <1>2, <1>3, <1>4

LEMMA PageStep ==
    CallInv /\ [Next]_vars =>
        [\A q \in Requests :
            request[q].pc # "done" /\ request'[q].pc = "done"
                /\ request'[q].reply \in {"whole", "truncated"} =>
                LET rows == RowsOf(request[q].op)
                    from == IF request[q].op = "listAlertRules" THEN 0 ELSE request[q].on
                    page == request'[q].got
                    bytes[i \in 0 .. Len(page)] == IF i = 0 THEN 0 ELSE bytes[i - 1] + Size[page[i]]
                IN  /\ \A i \in 1 .. Len(page) : page[i] = rows[from + i]
                    /\ from < Len(rows) => page # <<>>
                    /\ Len(page) > 1 => bytes[Len(page)] <= Budget
                    /\ /\ request'[q].reply = "whole"
                       /\ Len(page) < PageSize \/ request[q].op = "listAlertRules"
                       => from + Len(page) >= Len(rows)]_vars
  <1> SUFFICES ASSUME CallInv, [Next]_vars, NEW q \in Requests, request[q].pc # "done", request'[q].pc = "done",
                      request'[q].reply \in {"whole", "truncated"}
               PROVE  LET rows == RowsOf(request[q].op)
                          from == IF request[q].op = "listAlertRules" THEN 0 ELSE request[q].on
                          page == request'[q].got
                      IN  /\ \A i \in 1 .. Len(page) : page[i] = rows[from + i]
                          /\ from < Len(rows) => page # <<>>
                          /\ Len(page) > 1 => Bytes(page) <= Budget
                          /\ /\ request'[q].reply = "whole"
                             /\ Len(page) < PageSize \/ request[q].op = "listAlertRules"
                             => from + Len(page) >= Len(rows)
    BY DEF Bytes
  <1> DEFINE op == request[q].op
             rows == RowsOf(op)
             from == IF op = "listAlertRules" THEN 0 ELSE request[q].on
             page == request'[q].got
             sub == Chosen(op, request[q].on)
  <1>1. request[q].pc # "idle" /\ SelectPage(q)
    <2>1. request[q].pc # "idle" /\ (SelectPage(q) \/ CountDevices(q))
      BY TellerIs DEF Telling
    <2> QED  BY <2>1, SummaryTells
  <1>2. page = Fit(sub) /\ request'[q].reply = IF Len(Fit(sub)) < Len(sub) THEN "truncated" ELSE "whole"
    BY <1>1, ListTells
  <1>3. rows \in Seq(Ids) /\ from \in Nat
    <2>1. request[q].on \in Nat
      BY <1>1, Underway DEF Request
    <2> QED  BY <2>1, RowsAre
  <1>4. /\ sub \in Seq(Ids)
        /\ \A i \in 1 .. Len(sub) : sub[i] = rows[from + i]
        /\ from < Len(rows) => Len(sub) > 0
        /\ Len(sub) < PageSize \/ op = "listAlertRules" => from + Len(sub) >= Len(rows)
    <2>1. request[q].on \in Nat
      BY <1>1, Underway DEF Request
    <2> HIDE DEF op
    <2> QED  BY <1>3, <2>1, ChosenIs
  <1> HIDE DEF rows, from, page, sub, op
  <1>5. PICK n \in 0 .. Len(sub) :
            /\ Fit(sub) = SubSeq(sub, 1, n)
            /\ sub # <<>> => n > 0
            /\ n > 1 => Bytes(SubSeq(sub, 1, n)) <= Budget
    BY <1>4, FitIs
  <1>6. n \in Nat /\ Len(sub) \in Nat /\ Len(page) = n /\ \A i \in 1 .. n : page[i] = sub[i]
    BY <1>2, <1>4, <1>5
  <1>7. \A i \in 1 .. Len(page) : page[i] = rows[from + i]
    BY <1>4, <1>5, <1>6
  <1>8. from < Len(rows) => page # <<>>
    <2>1. from < Len(rows) => n > 0
      BY <1>4, <1>5, <1>6
    <2> QED  BY <1>6, <2>1
  <1>9. Len(page) > 1 => Bytes(page) <= Budget
    BY <1>2, <1>5, <1>6
  <1>10. request'[q].reply = "whole" /\ (Len(page) < PageSize \/ op = "listAlertRules") =>
             from + Len(page) >= Len(rows)
    <2>1. request'[q].reply = "whole" => n = Len(sub)
      BY <1>2, <1>5, <1>6
    <2> QED  BY <1>4, <1>6, <2>1
  <1> QED  BY <1>7, <1>8, <1>9, <1>10 DEF rows, from, page, op

-----------------------------------------------------------------------------
(* Counts *)

\* What a summary has counted is so as long as no device changed: n devices are not there,
\* u are up.
Counting(r, n, u) ==
    r.op = "getSnmpSummary" /\ r.pc # "done" /\ "device" \notin r.raced =>
        \/ r.got = <<>>
        \/ r.pc = "look" /\ r.got = <<Cardinality(Devices) - n>>
        \/ r.pc = "look" /\ r.got = <<Cardinality(Devices) - n, u>>

CountInv == \A q \in Requests : request[q] = Idle \/ Counting(request[q], With("none"), With("up"))

LEMMA SameWith ==
    device' = device => With("none")' = With("none") /\ With("up")' = With("up")
  BY DEF With

\* Others write beside it.
LEMMA CountsBeside ==
    ASSUME NEW r, Request(r), NEW n, NEW u, Counting(r, n, u), NEW wrote, NEW m, NEW v,
           (m = n /\ v = u) \/ "device" \in wrote,
           NEW s, s.op = r.op, s.pc = r.pc, s.got = r.got, s.raced = r.raced \cup (wrote \cap Watched(r.op))
    PROVE  Counting(s, m, v)
  <1>1. "device" \in Watched("getSnmpSummary")
    BY DEF Watched
  <1> QED  BY <1>1 DEF Counting

LEMMA RacingIs ==
    ASSUME NEW q \in Requests, Request(request[q]), NEW wrote, NEW new
    PROVE  LET s == Racing(q, wrote)
               t == [s EXCEPT !.trusted = @ \/ new] IN
           /\ s.op = request[q].op /\ s.pc = request[q].pc /\ s.got = request[q].got
           /\ s.raced = request[q].raced \cup (wrote \cap Watched(request[q].op))
           /\ t.op = s.op /\ t.pc = s.pc /\ t.got = s.got /\ t.raced = s.raced
  BY DEF Racing, Request

LEMMA GatesKeep ==
    ASSUME CallInv, NEW q \in Requests, Session(q) \/ Switch(q) \/ Allowed(q) \/ Trusted(q)
    PROVE  \/ request'[q].pc = "done"
           \/ /\ request'[q].op = request[q].op /\ request'[q].got = request[q].got
              /\ request'[q].raced = request[q].raced /\ request[q].pc # "look"
  <1>1. Request(request[q]) /\ request[q].pc \in {"session", "switch", "allowed", "trusted"}
    BY Underway DEF Session, Switch, Allowed, Trusted
  <1>2. CASE request'[q] = Answer(q, "refused")
    BY <1>1, <1>2, AnswerIs
  <1>3. ASSUME NEW pc, request'[q] = [request[q] EXCEPT !.pc = pc] PROVE
              /\ request'[q].op = request[q].op /\ request'[q].got = request[q].got
              /\ request'[q].raced = request[q].raced
    BY <1>1, <1>3 DEF Request
  <1>4. ASSUME NEW pc, NEW role, request'[q] = [request[q] EXCEPT !.pc = pc, !.role = role] PROVE
              /\ request'[q].op = request[q].op /\ request'[q].got = request[q].got
              /\ request'[q].raced = request[q].raced
    BY <1>1, <1>4 DEF Request
  <1>5. CASE Session(q)
    <2> DEFINE role == account[request[q].who].role
    <2>1. \/ request'[q] = [request[q] EXCEPT !.pc = "switch", !.role = role]
          \/ request'[q] = Answer(q, "refused")
      BY <1>5 DEF Session, Goto
    <2> HIDE DEF role
    <2> QED  BY <1>1, <1>2, <1>4, <2>1
  <1>6. CASE Switch(q)
    <2>1. request'[q] = [request[q] EXCEPT !.pc = "allowed"] \/ request'[q] = Answer(q, "refused")
      BY <1>6 DEF Switch, Goto
    <2> QED  BY <1>1, <1>2, <1>3, <2>1
  <1>7. CASE Allowed(q)
    <2>1. PICK pc : request'[q] = [request[q] EXCEPT !.pc = pc] \/ request'[q] = Answer(q, "refused")
      BY <1>7 DEF Allowed, Goto
    <2> QED  BY <1>1, <1>2, <1>3, <2>1
  <1>8. CASE Trusted(q)
    <2>1. request'[q] = [request[q] EXCEPT !.pc = "look"] \/ request'[q] = Answer(q, "refused")
      BY <1>8 DEF Trusted, Goto
    <2> QED  BY <1>1, <1>2, <1>3, <2>1
  <1> QED  BY <1>5, <1>6, <1>7, <1>8

\* A summary goes through the gates and its counts, and through nothing else.
LEMMA SummarySteps ==
    ASSUME CallInv, NEW q \in Requests, RequestStep(q), request[q].pc # "idle", request[q].op = "getSnmpSummary"
    PROVE  \/ Session(q) \/ Switch(q) \/ Allowed(q) \/ Trusted(q) \/ CountDevices(q)
           \/ request'[q].pc = "done"
  <1>1. Request(request[q]) /\ Good(request[q], Writers, rule, event)
    BY Underway
  <1>2. CASE SelectPage(q)
    <2> DEFINE rows == Chosen(request[q].op, request[q].on)
               reply == IF Len(Fit(rows)) < Len(rows) THEN "truncated" ELSE "whole"
    <2>1. request'[q] = [Answer(q, reply) EXCEPT !.got = Fit(rows)]
      BY <1>2 DEF SelectPage, Goto
    <2> HIDE DEF rows, reply
    <2> QED  BY <1>1, <2>1 DEF Answer, Request
  <1>3. CASE RereadEvent(q)
    <2>1. PICK reply : request'[q] = Answer(q, reply)
      BY <1>3 DEF RereadEvent, Goto
    <2> QED  BY <1>1, <2>1, AnswerIs
  <1>4. ~Call(q) /\ ~Click(q) /\ ~Fetch(q)
    BY DEF Call, Click, Fetch, Idle
  <1>5. ~CountRows(q) /\ ~LookAtEvent(q) /\ ~CountOpen(q) /\ ~LookAtRule(q)
    BY DEF CountRows, LookAtEvent, CountOpen, LookAtRule
  <1>6. ~AckEvent(q) /\ ~AckAll(q) /\ ~ToggleRule(q) /\ ~DeleteRule(q)
    BY DEF AckEvent, AckAll, ToggleRule, DeleteRule
  <1>7. ~FetchRole(q)
    BY <1>1 DEF FetchRole, Good, Placed
  <1> QED  BY <1>2, <1>3, <1>4, <1>5, <1>6, <1>7 DEF RequestStep

LEMMA Pair == ASSUME NEW x, NEW y PROVE Append(<<x>>, y) = <<x, y>>
  <1> DEFINE S == {x, y}
  <1>1. <<x>> \in Seq(S) /\ y \in S /\ <<x, y>> \in Seq(S)
    OBVIOUS
  <1> DEFINE p == <<x>>
             t == <<x, y>>
  <1>2. Len(p) = 1 /\ p[1] = x /\ Len(t) = 2 /\ t[1] = x /\ t[2] = y
    OBVIOUS
  <1>3. p \in Seq(S) /\ y \in S /\ t \in Seq(S)
    BY <1>1
  <1> HIDE DEF S, p, t
  <1>4. /\ Append(p, y) \in Seq(S) /\ Len(Append(p, y)) = Len(p) + 1
        /\ Append(p, y)[Len(p) + 1] = y
        /\ \A i \in 1 .. Len(p) : Append(p, y)[i] = p[i]
    BY <1>3
  <1> DEFINE w == Append(p, y)
  <1>5. w \in Seq(S) /\ Len(w) = 2 /\ w[1] = x /\ w[2] = y
    BY <1>2, <1>4
  <1> HIDE DEF w
  <1>6. \A i \in 1 .. 2 : w[i] = t[i]
    BY <1>2, <1>5
  <1>7. w = [i \in 1 .. 2 |-> w[i]] /\ t = [i \in 1 .. 2 |-> t[i]]
    BY <1>2, <1>3, <1>5
  <1>8. w = t
    BY <1>6, <1>7
  <1> QED  BY <1>8 DEF w, p, t

LEMMA CountGoesOn ==
    ASSUME CallInv, NEW q \in Requests, request[q].pc # "idle", CountDevices(q),
           Counting(request[q], With("none"), With("up"))
    PROVE  Counting(request'[q], With("none"), With("up"))
  <1> DEFINE got == request[q].got
             a == Cardinality(Devices) - With("none")
             b == With("up")
  <1>1. Request(request[q]) /\ request[q].pc = "look" /\ request[q].op = "getSnmpSummary"
    BY Underway DEF CountDevices
  <1>2. CASE Len(got) = 0
    <2>1. request'[q] = [request[q] EXCEPT !.got = <<a>>]
      BY <1>2 DEF CountDevices, Goto
    <2> HIDE DEF a
    <2>2. request'[q].pc = "look" /\ request'[q].got = <<a>>
      BY <1>1, <2>1 DEF Request
    <2> QED  BY <2>2 DEF Counting, a
  <1>3. CASE Len(got) # 0 /\ Len(got) = 1
    <2>1. request'[q] = [request[q] EXCEPT !.got = Append(@, b)]
      BY <1>3 DEF CountDevices, Goto
    <2> HIDE DEF a, b
    <2>2. /\ request'[q].pc = "look" /\ request'[q].got = Append(got, b)
          /\ request'[q].raced = request[q].raced
      BY <1>1, <2>1 DEF Request
    <2>3. "device" \notin request[q].raced => got = <<a>>
      <3>1. "device" \notin request[q].raced => got = <<>> \/ got = <<a>> \/ got = <<a, b>>
        BY <1>1 DEF Counting, a, b
      <3> HIDE DEF got
      <3>2. got # <<>> /\ got # <<a, b>>
        BY <1>3
      <3> QED  BY <3>1, <3>2
    <2>4. "device" \notin request[q].raced => request'[q].got = <<a, b>>
      <3>1. Append(<<a>>, b) = <<a, b>>
        BY Pair
      <3> HIDE DEF got
      <3> QED  BY <2>2, <2>3, <3>1
    <2> QED  BY <2>2, <2>4 DEF Counting, a, b
  <1>4. CASE Len(got) # 0 /\ Len(got) # 1
    <2> DEFINE g == <<got[1], got[2], With("down"), got[1] - got[2] - With("down")>>
    <2>1. request'[q] = [Answer(q, "counts") EXCEPT !.got = g]
      BY <1>4 DEF CountDevices, Goto
    <2>2. request'[q].pc = "done"
      <3> HIDE DEF g
      <3> QED  BY <1>1, <2>1 DEF Request, Answer
    <2> QED  BY <2>2 DEF Counting
  <1> QED  BY <1>2, <1>3, <1>4

LEMMA StepsKeep == ASSUME NEW q \in Requests, RequestStep(q) PROVE device' = device
  <1>1. CASE UNCHANGED tables
    BY <1>1 DEF tables
  <1>2. CASE FetchRole(q) \/ AckEvent(q) \/ AckAll(q) \/ ToggleRule(q) \/ DeleteRule(q)
    BY <1>2 DEF FetchRole, AckEvent, AckAll, ToggleRule, DeleteRule
  <1> QED  BY <1>1, <1>2 DEF RequestStep, Call, Click, Fetch, Session, Switch, Allowed, Trusted, CountRows,
               SelectPage, CountDevices, LookAtEvent, CountOpen, LookAtRule, RereadEvent

LEMMA CountInit == Init => CountInv
  BY DEF Init, CountInv

LEMMA CountStep == CallInv /\ CountInv /\ [Next]_vars => CountInv'
  <1> SUFFICES ASSUME CallInv, CountInv, [Next]_vars, NEW q \in Requests
               PROVE  request'[q] = Idle \/ Counting(request'[q], With("none")', With("up")')
    BY DEF CountInv
  <1> DEFINE n == With("none")
             u == With("up")
  <1>1. request[q] = Idle \/ (Request(request[q]) /\ request[q].pc # "idle" /\ Counting(request[q], n, u))
    <2>1. request[q] = Idle \/ Request(request[q])
      BY DEF CallInv, Calls, Good
    <2> QED  BY <2>1, HasCome DEF CountInv
  <1>2. Active(q) => Request(request[q]) /\ Counting(request[q], n, u)
    BY <1>1 DEF Active, Idle
  <1>3. ~Active(q) => request[q] = Idle \/ request[q].pc = "done"
    BY <1>1 DEF Active
  <1>4. ASSUME NEW wrote, request'[q] = IF Active(q) THEN Racing(q, wrote) ELSE request[q],
               device' = device \/ "device" \in wrote
        PROVE  request'[q] = Idle \/ Counting(request'[q], With("none")', With("up")')
    <2>1. CASE Active(q)
      <3>1. (With("none")' = n /\ With("up")' = u) \/ "device" \in wrote
        BY <1>4, SameWith
      <3>2. /\ request'[q].op = request[q].op /\ request'[q].pc = request[q].pc /\ request'[q].got = request[q].got
            /\ request'[q].raced = request[q].raced \cup (wrote \cap Watched(request[q].op))
        BY <1>2, <1>4, <2>1, RacingIs
      <3> HIDE DEF n, u
      <3> QED  BY <1>2, <2>1, <3>1, <3>2, CountsBeside
    <2>2. CASE ~Active(q)
      BY <1>3, <1>4, <2>2 DEF Counting
    <2> QED  BY <2>1, <2>2
  <1>5. ASSUME NEW p \in Requests, RequestStep(p), p # q
        PROVE  request'[q] = Idle \/ Counting(request'[q], With("none")', With("up")')
    <2>1. PICK r, wrote : Goto(p, r, wrote)
      BY <1>5, EachGoes
    <2>2. device' = device
      BY <1>5, StepsKeep
    <2> QED  BY <1>4, <1>5, <2>1, <2>2, Aside
  <1>6. CASE RequestStep(q)
    <2>1. With("none")' = n /\ With("up")' = u
      BY <1>6, StepsKeep, SameWith
    <2>2. CASE request[q].pc = "idle"
      <3>1. request[q] = Idle
        BY <1>1, <2>2
      <3>2. Call(q) \/ Click(q) \/ Fetch(q)
        BY <1>6, <2>2 DEF RequestStep, Session, Switch, Allowed, Trusted, CountRows, SelectPage, CountDevices,
            FetchRole, LookAtEvent, CountOpen, LookAtRule, RereadEvent, AckEvent, AckAll, ToggleRule, DeleteRule
      <3>3. ASSUME NEW via, NEW pc, NEW op, NEW who, NEW on, Goto(q, Arriving(via, pc, op, who, on), {})
            PROVE  request'[q].got = <<>>
        <4>1. request'[q] = Arriving(via, pc, op, who, on)
          BY <3>3 DEF Goto
        <4> QED  BY <4>1 DEF Arriving
      <3>4. request'[q].got = <<>>
        BY <3>2, <3>3 DEF Call, Click, Fetch
      <3> QED  BY <3>4 DEF Counting
    <2>3. CASE request[q].pc # "idle" /\ request[q].op = "getSnmpSummary"
      <3>1. Counting(request[q], n, u)
        BY <1>1, <2>3 DEF Idle
      <3>2. CASE CountDevices(q)
        BY <2>1, <2>3, <3>1, <3>2, CountGoesOn
      <3>3. CASE request'[q].pc = "done"
        BY <3>3 DEF Counting
      <3>4. CASE Session(q) \/ Switch(q) \/ Allowed(q) \/ Trusted(q)
        <4>1. \/ request'[q].pc = "done"
              \/ /\ request'[q].op = request[q].op /\ request'[q].got = request[q].got
                 /\ request'[q].raced = request[q].raced /\ request[q].pc # "look"
          BY <3>4, GatesKeep
        <4>2. request[q].pc # "done"
          BY <3>4 DEF Session, Switch, Allowed, Trusted
        <4> HIDE DEF n, u
        <4> QED  BY <2>3, <3>1, <4>1, <4>2 DEF Counting
      <3> QED  BY <1>6, <2>3, <3>2, <3>3, <3>4, SummarySteps
    <2>4. CASE request[q].pc # "idle" /\ request[q].op # "getSnmpSummary"
      <3>1. CASE SelectPage(q)
        <4> DEFINE rows == Chosen(request[q].op, request[q].on)
                   reply == IF Len(Fit(rows)) < Len(rows) THEN "truncated" ELSE "whole"
        <4>1. request'[q] = [Answer(q, reply) EXCEPT !.got = Fit(rows)]
          BY <3>1 DEF SelectPage, Goto
        <4>2. Request(request[q])
          BY <1>1, <2>4 DEF Idle
        <4> HIDE DEF rows, reply
        <4>3. request'[q].pc = "done"
          BY <4>1, <4>2 DEF Answer, Request
        <4> QED  BY <4>3 DEF Counting
      <3>2. CASE ~SelectPage(q)
        <4>1. TellsNothing(q)
          BY <1>6, <2>4, <3>2, TellersAre DEF CountDevices
        <4>2. CASE \E r, wrote : Goto(q, r, wrote) /\ r.pc # "done" /\ r.op = request[q].op
          <5>1. request'[q].op = request[q].op
            BY <4>2 DEF Goto
          <5> QED  BY <2>4, <5>1 DEF Counting
        <4>3. CASE \E reply, wrote : Goto(q, Answer(q, reply), wrote) /\ reply \notin Telling
          <5>1. PICK reply : request'[q] = Answer(q, reply)
            BY <4>3 DEF Goto
          <5>2. Request(request[q])
            BY <1>1, <2>4 DEF Idle
          <5>3. request'[q].pc = "done"
            BY <5>1, <5>2, AnswerIs
          <5> QED  BY <5>3 DEF Counting
        <4> QED  BY <4>1, <4>2, <4>3 DEF TellsNothing
      <3> QED  BY <3>1, <3>2
    <2> QED  BY <2>2, <2>3, <2>4
  <1>7. CASE \/ \E e \in Events : Fire(e)
             \/ \E d \in Devices : ChangeDevice(d)
             \/ \E p \in People \ {Hub} : ChangeAccount(p)
    <2>1. PICK wrote : Disturb(wrote) /\ (device' = device \/ "device" \in wrote)
      BY <1>7 DEF Fire, ChangeDevice, ChangeAccount
    <2>2. request'[q] = IF Active(q) THEN Racing(q, wrote) ELSE request[q]
      BY <2>1 DEF Disturb
    <2> QED  BY <1>4, <2>1, <2>2
  <1>8. CASE ChangeSetting
    <2>1. PICK new : request'[q] = IF Active(q) THEN [Racing(q, {"setting"}) EXCEPT !.trusted = @ \/ new] ELSE request[q]
      BY <1>8 DEF ChangeSetting
    <2>2. With("none")' = n /\ With("up")' = u
      BY <1>8, SameWith DEF ChangeSetting
    <2>3. CASE Active(q)
      <3>1. /\ request'[q].op = request[q].op /\ request'[q].pc = request[q].pc /\ request'[q].got = request[q].got
            /\ request'[q].raced = request[q].raced \cup ({"setting"} \cap Watched(request[q].op))
        BY <1>2, <2>1, <2>3, RacingIs
      <3> HIDE DEF n, u
      <3> QED  BY <1>2, <2>2, <2>3, <3>1, CountsBeside
    <2>4. CASE ~Active(q)
      BY <1>3, <2>1, <2>4 DEF Counting
    <2> QED  BY <2>3, <2>4
  <1>9. CASE UNCHANGED vars
    BY <1>1, <1>9, SameWith DEF vars
  <1> QED  BY <1>5, <1>6, <1>7, <1>8, <1>9 DEF Next

\* Every device has one of four states.
LEMMA FourStates ==
    ASSUME TypeOK
    PROVE  /\ \A s : With(s) \in Nat
           /\ Cardinality(Devices) = With("none") + With("unknown") + With("up") + With("down")
  <1> DEFINE In(s) == {d \in Devices : device[d] = s}
  <1>1. IsFiniteSet(Devices)
    <2>1. Devices \in SUBSET Ids
      BY DEF Ids
    <2> QED  BY <2>1, PartsAreFew
  <1>2. \A s : IsFiniteSet(In(s)) /\ Cardinality(In(s)) \in Nat
    <2> SUFFICES ASSUME NEW s PROVE IsFiniteSet(In(s)) /\ Cardinality(In(s)) \in Nat
      OBVIOUS
    <2>1. In(s) \in SUBSET Ids
      BY DEF Ids
    <2> QED  BY <2>1, PartsAreFew
  <1>3. ASSUME NEW A, NEW B, IsFiniteSet(A), IsFiniteSet(B), A \cap B = {}, Cardinality(A) \in Nat, Cardinality(B) \in Nat
        PROVE  IsFiniteSet(A \cup B) /\ Cardinality(A \cup B) = Cardinality(A) + Cardinality(B)
    <2>1. IsFiniteSet(A \cup B) /\ Cardinality(A \cup B) = Cardinality(A) + Cardinality(B) - Cardinality(A \cap B)
      BY ONLY <1>3, FS_Union
    <2>2. Cardinality(A \cap B) = 0
      BY ONLY <1>3, FS_EmptySet
    <2> QED  BY <1>3, <2>1, <2>2
  <1> DEFINE A == In("none") \cup In("unknown")
             B == In("up") \cup In("down")
  <1>4. In("none") \cap In("unknown") = {} /\ In("up") \cap In("down") = {} /\ A \cap B = {}
    OBVIOUS
  <1>5. A \cup B = Devices
    BY DEF TypeOK
  <1> HIDE DEF In
  <1>6. /\ IsFiniteSet(A) /\ Cardinality(A) = Cardinality(In("none")) + Cardinality(In("unknown"))
        /\ IsFiniteSet(B) /\ Cardinality(B) = Cardinality(In("up")) + Cardinality(In("down"))
    BY <1>2, <1>3, <1>4
  <1> HIDE DEF A, B
  <1>7. Cardinality(A) \in Nat /\ Cardinality(B) \in Nat
    BY <1>2, <1>6
  <1>8. Cardinality(Devices) = Cardinality(A) + Cardinality(B)
    BY <1>3, <1>4, <1>5, <1>6, <1>7
  <1>9. \A s : With(s) = Cardinality(In(s))
    BY DEF With, In
  <1> QED  BY <1>2, <1>6, <1>8, <1>9

LEMMA UnknownStep ==
    CallInv /\ CountInv /\ [Next]_vars =>
        [\A q \in Requests :
            request[q].pc = "look" /\ request'[q].pc = "done" /\ request'[q].reply = "counts"
                /\ "device" \notin request[q].raced =>
                    request'[q].got[4] = With("unknown")]_vars
  <1> SUFFICES ASSUME CallInv, CountInv, [Next]_vars, NEW q \in Requests, request[q].pc = "look",
                      request'[q].pc = "done", request'[q].reply = "counts", "device" \notin request[q].raced
               PROVE  request'[q].got[4] = With("unknown")
    OBVIOUS
  <1> DEFINE got == request[q].got
             a == Cardinality(Devices) - With("none")
             b == With("up")
             c == With("down")
  <1>1. request[q].pc # "idle" /\ (SelectPage(q) \/ CountDevices(q))
    BY TellerIs DEF Telling
  <1>2. CountDevices(q)
    BY <1>1, ListTells
  <1>3. /\ Len(got) # 0 /\ Len(got) # 1 /\ request[q].op = "getSnmpSummary"
        /\ request'[q].got = <<got[1], got[2], c, got[1] - got[2] - c>>
    BY <1>1, <1>2, SummaryTells
  <1>4. got = <<>> \/ got = <<a>> \/ got = <<a, b>>
    BY <1>3 DEF CountInv, Counting, Idle
  <1> HIDE DEF got, a, b, c
  <1>5. got[1] = a /\ got[2] = b
    BY <1>3, <1>4
  <1>6. request'[q].got[4] = a - b - c
    BY <1>3, <1>5
  <1>7. a - b - c = With("unknown")
    <2>1. /\ With("none") \in Nat /\ With("unknown") \in Nat /\ With("up") \in Nat /\ With("down") \in Nat
          /\ Cardinality(Devices) = With("none") + With("unknown") + With("up") + With("down")
      BY FourStates DEF CallInv
    <2> QED  BY <2>1 DEF a, b, c
  <1> QED  BY <1>6, <1>7

\* What a question is answered is what there is: a page is a run of the rows that fits the
\* budget, never empty while there are rows and complete unless it is said to be cut, and
\* the summary's numbers add up unless a device changed between its counts (_fit,
\* list_devices, list_alert_events, list_alert_rules, get_snmp_summary).
THEOREM AnswersHold == Spec => AnswersRight
  <1>1. Spec => []CallInv
    BY CallsTyped
  <1>2. Spec => []CountInv
    BY <1>1, CountInit, CountStep, PTL DEF Spec
  <1>3. Spec => PageAdvances
    BY <1>1, PageStep, PTL DEF Spec, PageAdvances
  <1>4. Spec => UnknownIsCounted
    BY <1>1, <1>2, UnknownStep, PTL DEF Spec, UnknownIsCounted
  <1> QED  BY <1>3, <1>4 DEF AnswersRight
=============================================================================
