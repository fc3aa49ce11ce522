----------------------------- MODULE Inventory -----------------------------
(***************************************************************************)
(* Devices, the hierarchy they are filed under, and the credentials and    *)
(* collectors they name (api/snmp.py), changed by administrators whose     *)
(* requests overlap.                                                       *)
(*                                                                         *)
(* A request reads rows in one statement and writes in a later one, in a   *)
(* transaction of its own.  Devices name collectors, credentials and other *)
(* devices by foreign keys, which the database enforces; they name the     *)
(* hierarchy by text, which it does not.                                   *)
(***************************************************************************)
EXTENDS Naturals, Sequences, FiniteSets, FiniteSetsExt

CONSTANTS
    Requests,               \* all requests there will be
    Devices, Units, Credentials, Collectors,    \* ids
    None,                   \* NULL
    Local,                  \* collector 1, built in
    Level,                  \* [Units -> 1 .. Depth]: the table of a unit
    Depth,                  \* orgs, groups_def, sites_def, locations_def: 4
    Names, Blank, Unassigned,
    Keys, Mask,             \* secrets, and what a client is shown for one
    Rows, Asks,             \* rows a client sends, and changes it asks for
    Files                   \* what there is at the start: hierarchies and devices

SetsAssumption ==
    /\ IsFiniteSet(Devices) /\ None \notin Devices \cup Units \cup Credentials
    /\ Local \in Collectors /\ {Blank, Unassigned} \subseteq Names /\ Mask \notin Keys
LevelAssumption == Depth \in Nat \ {0} /\ Level \in [Units -> 1 .. Depth]

Paths == [1 .. Depth -> Names]

Row == [path : Paths, collector : Collectors, credential : Credentials \cup {None},
        parent : Devices \cup {None}, peer : Devices \cup {None}, passive : BOOLEAN]

InputAssumption ==
    /\ Rows \subseteq Row
    /\ \A a \in Asks : \E r \in Row :
           DOMAIN a \subseteq DOMAIN r /\ \A f \in DOMAIN a : a[f] = r[f]

\* The units make a hierarchy: each has a name, and is an org or below a unit of the
\* level above.
Hierarchical(units) ==
    \A u \in DOMAIN units :
        /\ units[u].name \in Names
        /\ IF Level[u] = 1 THEN units[u].above = None
           ELSE units[u].above \in DOMAIN units /\ Level[units[u].above] = Level[u] - 1

\* The foreign keys hold at the start.
FilesAssumption ==
    \A file \in Files :
        LET ids == DOMAIN file.device IN
        /\ DOMAIN file.unit \subseteq Units /\ Hierarchical(file.unit)
        /\ file.unit \in [DOMAIN file.unit -> [name : Names, above : Units \cup {None}]]
        /\ ids \subseteq Devices /\ file.device \in [ids -> Row]
        /\ \A d \in ids : {file.device[d].parent, file.device[d].peer} \subseteq ids \cup {None}

VARIABLES
    device,         \* devices: a row for every id there is
    used,           \* ids of devices and units ever given out (AUTOINCREMENT)
    unit,           \* the four hierarchy tables: name and unit above
    credential,     \* snmp_credentials: the key of every id there is
    collector,      \* collectors: the ids there are
    request         \* where each request is, with its locals

vars == <<device, used, unit, credential, collector, request>>

tables == <<device, used, unit, credential, collector>>

Idle == [pc |-> "idle"]

-----------------------------------------------------------------------------
(* The tables *)

\* What the foreign keys of devices demand of a row.
Refers(row, ids) ==
    /\ row.collector \in collector
    /\ row.credential \in DOMAIN credential \cup {None}
    /\ row.parent \in ids \cup {None} /\ row.peer \in ids \cup {None}

Put(rows, id, row) == [i \in DOMAIN rows \cup {id} |-> IF i = id THEN row ELSE rows[i]]

Drop(rows, ids) == [i \in DOMAIN rows \ ids |-> rows[i]]

Unless(id, gone) == IF id \in gone THEN None ELSE id

Forget_LinksLeft(rows, d) == Drop(rows, {d})

\* DELETE of a device: parent_device_id and ha_peer_id are ON DELETE SET NULL.
Forget(rows, d) ==
    [i \in DOMAIN rows \ {d} |-> [rows[i] EXCEPT !.parent = Unless(@, {d}), !.peer = Unless(@, {d})]]

\* The units a DELETE takes with it (ON DELETE CASCADE).
Below(u) ==
    LET Reach[n \in 1 .. Depth] ==
            IF n = 1 THEN {u}
            ELSE Reach[n - 1] \cup {v \in DOMAIN unit : unit[v].above \in Reach[n - 1]}
    IN  Reach[Depth]

\* The names from the org down to the unit, as the handlers' JOINs read them.
PathOf(u) ==
    LET At[l \in 1 .. Depth] ==         \* the unit l levels up from Depth
            IF Depth - l + 1 >= Level[u] THEN u ELSE unit[At[l - 1]].above
    IN  [l \in 1 .. Level[u] |-> unit[At[Depth - l + 1]].name]

Taken(u, above, name) ==
    \E v \in DOMAIN unit \ {u} :
        Level[v] = Level[u] /\ unit[v].above = above /\ unit[v].name = name

-----------------------------------------------------------------------------
(* Requests *)

Init ==
    /\ \E file \in Files : unit = file.unit /\ device = file.device
    /\ used = DOMAIN device \cup DOMAIN unit
    /\ collector = Collectors
    /\ credential \in [Credentials -> Keys]
    /\ request = [q \in Requests |-> Idle]

Active(q) == request[q].pc \notin {"idle", "done"}

Changed ==
    {d \in DOMAIN device \cup DOMAIN device' :
        \/ (d \in DOMAIN device) # (d \in DOMAIN device')
        \/ d \in DOMAIN device /\ d \in DOMAIN device' /\ device[d] # device'[d]}

\* moved and refiled are histories: the devices and whether the hierarchy has been
\* written by others since the request came.
Racing(q) ==
    [request[q] EXCEPT !.moved = @ \cup Changed, !.refiled = @ \/ unit' # unit]

Goto(q, next) ==
    request' = [p \in Requests |->
        IF p = q THEN next ELSE IF Active(p) THEN Racing(p) ELSE request[p]]

Step(q, op, pc) == request[q].pc = pc /\ request[q].op = op

At(q, pc) == [request[q] EXCEPT !.pc = pc]

Answer(q, reply) == [pc |-> "done", op |-> request[q].op, reply |-> reply]

\* A request without a write of its own left, or one the database refuses.
End(q, reply) == UNCHANGED tables /\ Goto(q, Answer(q, reply))

Arrive(q) ==
    /\ request[q] = Idle
    /\ \E op \in {"createDevice", "updateDevice", "deleteDevice", "importDevices", "createUnit",
                  "renameUnit", "deleteUnit", "updateCredential", "deleteCredential",
                  "deleteCollector"} :
       \E on \in (CASE op \in {"createDevice", "importDevices", "createUnit"} -> {None}
                    [] op \in {"updateDevice", "deleteDevice"} -> Devices
                    [] op \in {"renameUnit", "deleteUnit"} -> Units
                    [] op = "deleteCollector" -> Collectors
                    [] OTHER -> Credentials) :
       \E ask \in (CASE op \in {"createDevice", "importDevices"} -> Rows
                     [] op = "updateDevice" -> Asks
                     [] op = "createUnit" -> [name : Names, above : Units \cup {None}]
                     [] op = "renameUnit" -> [name : Names]
                     [] op = "updateCredential" -> [key : Keys \cup {Mask}]
                     [] OTHER -> {[name |-> None]}) :
           /\ UNCHANGED tables
           /\ Goto(q, [pc |-> "look", op |-> op, on |-> on, ask |-> ask, got |-> <<>>,
                       moved |-> {}, refiled |-> FALSE])

-----------------------------------------------------------------------------
(* Devices *)

InsertDevice(q, row, next) ==
    IF Refers(row, DOMAIN device)
    THEN \E d \in Devices \ used :
             /\ device' = Put(device, d, row)
             /\ used' = used \cup {d}
             /\ UNCHANGED <<unit, credential, collector>>
             /\ Goto(q, IF next = "done" THEN Answer(q, "ok")
                        ELSE [At(q, next) EXCEPT !.on = d])
    ELSE End(q, "error")

\* The row is committed before the partner is linked to it.
CreateDevice(q) ==
    /\ Step(q, "createDevice", "look")
    /\ InsertDevice(q, request[q].ask, IF request[q].ask.peer = None THEN "done" ELSE "link")

\* The partner is linked whatever it is linked to; the new row may be gone again.
LinkPartner(q) ==
    LET d == request[q].on
        p == request[q].ask.peer
    IN  /\ Step(q, "createDevice", "link")
        /\ IF p \in DOMAIN device /\ d \in DOMAIN device
           THEN /\ device' = [device EXCEPT ![p].peer = d]
                /\ UNCHANGED <<used, unit, credential, collector>>
                /\ Goto(q, Answer(q, "ok"))
           ELSE End(q, IF p \in DOMAIN device THEN "error" ELSE "ok")

LookAtDevice(q) ==
    /\ Step(q, "updateDevice", "look") \/ Step(q, "deleteDevice", "look")
    /\ UNCHANGED tables
    /\ Goto(q, IF request[q].on \in DOMAIN device
               THEN [At(q, "write") EXCEPT !.got = device[request[q].on]]
               ELSE Answer(q, "missing"))

Merge_NoneIsNone(row, ask) ==
    [f \in DOMAIN row |-> IF f \in DOMAIN ask THEN ask[f]
                          ELSE IF f = "parent" THEN None ELSE row[f]]

\* model_dump(exclude_unset) over the row that was read.
Merge(row, ask) == [f \in DOMAIN row |-> IF f \in DOMAIN ask THEN ask[f] ELSE row[f]]

LinkBack_Always(rows, d, p) == IF p \in DOMAIN rows THEN [rows EXCEPT ![p].peer = d] ELSE rows

\* The partner of d follows when it has none, or has d.
LinkBack(rows, d, p) ==
    IF p \in DOMAIN rows /\ rows[p].peer \in {None, d} THEN [rows EXCEPT ![p].peer = d] ELSE rows

UpdateDevice(q) ==
    LET d == request[q].on
        row == Merge(request[q].got, request[q].ask)
        written == IF d \in DOMAIN device THEN Put(device, d, row) ELSE device
    IN  /\ Step(q, "updateDevice", "write")
        /\ IF (d \in DOMAIN device => Refers(row, DOMAIN device))
              /\ (LinkBack(written, d, row.peer) # written => d \in DOMAIN device)
           THEN /\ device' = LinkBack(written, d, row.peer)
                /\ UNCHANGED <<used, unit, credential, collector>>
                /\ Goto(q, Answer(q, "ok"))
           ELSE End(q, "error")

DeleteDevice(q) ==
    /\ Step(q, "deleteDevice", "write")
    /\ device' = Forget(device, request[q].on)
    /\ UNCHANGED <<used, unit, credential, collector>>
    /\ Goto(q, Answer(q, "ok"))

\* Collectors and credentials are looked up by name once, for all rows of the file.
LookUpNames(q) ==
    /\ Step(q, "importDevices", "look")
    /\ UNCHANGED tables
    /\ Goto(q, [At(q, "write") EXCEPT !.got =
           [collector |-> IF request[q].ask.collector \in collector THEN request[q].ask.collector
                          ELSE Local,
            credential |-> IF request[q].ask.credential \in DOMAIN credential
                           THEN request[q].ask.credential ELSE None]])

\* One row of the file: no parent and no partner.  A refused row is skipped.
ImportDevice(q) ==
    /\ Step(q, "importDevices", "write")
    /\ InsertDevice(q, [Merge(request[q].ask, request[q].got) EXCEPT !.parent = None, !.peer = None],
                    "done")

-----------------------------------------------------------------------------
(* The hierarchy *)

\* What a unit is created under must be there; so must a unit renamed or deleted.
LookAtUnit(q) ==
    LET u == IF request[q].op = "createUnit" THEN request[q].ask.above ELSE request[q].on IN
    /\ \/ Step(q, "createUnit", "look")
       \/ Step(q, "renameUnit", "look")
       \/ Step(q, "deleteUnit", "look")
    /\ UNCHANGED tables
    /\ Goto(q, IF u = None THEN At(q, "write")
               ELSE IF u \in DOMAIN unit THEN [At(q, "write") EXCEPT !.got = PathOf(u)]
               ELSE Answer(q, "missing"))

CreateUnit(q) ==
    LET ask == request[q].ask
        level == IF ask.above = None THEN 1 ELSE Level[ask.above] + 1
    IN  /\ Step(q, "createUnit", "write")
        /\ \E u \in Units \ used :
               /\ Level[u] = level
               /\ IF ask.above \notin DOMAIN unit \cup {None} \/ Taken(u, ask.above, ask.name)
                  THEN End(q, "error")
                  ELSE /\ unit' = Put(unit, u, [name |-> ask.name, above |-> ask.above])
                       /\ used' = used \cup {u}
                       /\ UNCHANGED <<device, credential, collector>>
                       /\ Goto(q, Answer(q, "ok"))

FiledUnder_NameOnly(path, names) == path[Len(names)] = names[Len(names)]

\* The devices a rename takes along: those filed under the path that was read.  A
\* group called (Unassigned) also stands for the devices without a group.
FiledUnder(path, names) ==
    LET l == Len(names) IN
    /\ \A i \in 1 .. l - 1 : path[i] = names[i]
    /\ path[l] = names[l] \/ (l = 2 /\ names[l] = Unassigned /\ path[l] = Blank)

RenameUnit(q) ==
    LET u == request[q].on
        name == request[q].ask.name
    IN  /\ Step(q, "renameUnit", "write")
        /\ IF u \in DOMAIN unit /\ Taken(u, unit[u].above, name)
           THEN End(q, "error")
           ELSE /\ unit' = IF u \in DOMAIN unit THEN [unit EXCEPT ![u].name = name] ELSE unit
                /\ device' = [d \in DOMAIN device |->
                       IF FiledUnder(device[d].path, request[q].got)
                       THEN [device[d] EXCEPT !.path[Level[u]] = name] ELSE device[d]]
                /\ UNCHANGED <<used, credential, collector>>
                /\ Goto(q, Answer(q, "ok"))

DeleteUnit(q) ==
    /\ Step(q, "deleteUnit", "write")
    /\ unit' = Drop(unit, IF request[q].on \in DOMAIN unit THEN Below(request[q].on) ELSE {})
    /\ UNCHANGED <<device, used, credential, collector>>
    /\ Goto(q, Answer(q, "ok"))

-----------------------------------------------------------------------------
(* Credentials and collectors *)

LookAtCredential(q) ==
    LET c == request[q].on IN
    /\ Step(q, "updateCredential", "look")
    /\ UNCHANGED tables
    /\ Goto(q, IF c \in DOMAIN credential THEN [At(q, "write") EXCEPT !.got = credential[c]]
               ELSE Answer(q, "missing"))

\* A client that sends the mask back keeps the key that was read.
UpdateCredential(q) ==
    LET c == request[q].on
        key == IF request[q].ask.key = Mask THEN request[q].got ELSE request[q].ask.key
    IN  /\ Step(q, "updateCredential", "write")
        /\ credential' = IF c \in DOMAIN credential THEN [credential EXCEPT ![c] = key]
                         ELSE credential
        /\ UNCHANGED <<device, used, unit, collector>>
        /\ Goto(q, Answer(q, "ok"))

CountUsers_Skipped(q) ==
    /\ Step(q, "deleteCredential", "look")
    /\ UNCHANGED tables
    /\ Goto(q, At(q, "exists"))

\* A credential that devices use is not deleted: they would be left without one.
CountUsers(q) ==
    /\ Step(q, "deleteCredential", "look")
    /\ UNCHANGED tables
    /\ Goto(q, IF \E d \in DOMAIN device : device[d].credential = request[q].on
               THEN Answer(q, "in use") ELSE At(q, "exists"))

CheckExists(q) ==
    /\ \/ Step(q, "deleteCredential", "exists")
       \/ Step(q, "deleteCollector", "look")
    /\ UNCHANGED tables
    /\ Goto(q, IF request[q].on = Local THEN Answer(q, "refused")
               ELSE IF request[q].on \in DOMAIN credential \cup collector THEN At(q, "write")
               ELSE Answer(q, "missing"))

\* credential_id is ON DELETE SET NULL.
DeleteCredential(q) ==
    LET c == request[q].on IN
    /\ Step(q, "deleteCredential", "write")
    /\ credential' = Drop(credential, {c})
    /\ device' = [d \in DOMAIN device |-> [device[d] EXCEPT !.credential = Unless(@, {c})]]
    /\ UNCHANGED <<used, unit, collector>>
    /\ Goto(q, Answer(q, "ok"))

\* collector_id is not: the database refuses while a device names the collector.
DeleteCollector(q) ==
    /\ Step(q, "deleteCollector", "write")
    /\ IF \E d \in DOMAIN device : device[d].collector = request[q].on
       THEN End(q, "error")
       ELSE /\ collector' = collector \ {request[q].on}
            /\ UNCHANGED <<device, used, unit, credential>>
            /\ Goto(q, Answer(q, "ok"))

-----------------------------------------------------------------------------
(* The tree of the overview page, computed from the rows (device_tree) *)

\* A passive device is not shown: its active partner stands for it as a parent.
Stands(d) ==
    IF d \in DOMAIN device /\ device[d].passive /\ device[d].peer # None
    THEN device[d].peer ELSE d

Shown == {d \in DOMAIN device : ~device[d].passive}

ParentNode(d) == IF Stands(device[d].parent) \in Shown THEN Stands(device[d].parent) ELSE None

Nested_Anywhere(d) == ParentNode(d) # None

\* A device is drawn below its parent when both are filed at the same place.
Nested(d) == ParentNode(d) # None /\ device[ParentNode(d)].path = device[d].path

Roots == {d \in Shown : ~Nested(d)}

Children(d) == {c \in Shown : Nested(c) /\ ParentNode(c) = d}

\* _propagate, for a set of devices that are down.
SubtreeAlerts(down) ==
    LET Total[n \in 0 .. Cardinality(Devices)] ==
            LET below == Total[n - 1]
            IN  [d \in Shown |->
                    (IF d \in down THEN 1 ELSE 0)
                    + (IF n = 0 THEN 0 ELSE MapThenSumSet(LAMBDA c : below[c], Children(d)))]
    IN  Total[Cardinality(Devices)]

Branch(d) == [l \in 1 .. Depth |-> IF device[d].path[l] = Blank THEN Unassigned ELSE device[d].path[l]]

\* The number at a location, site, group or org of the tree, from those of its devices.
Number(names, alerts) ==
    MapThenSumSet(LAMBDA d : alerts[d],
                  {d \in Roots : \A l \in 1 .. Len(names) : Branch(d)[l] = names[l]})

-----------------------------------------------------------------------------
(* The system *)

RequestStep(q) ==
    \/ Arrive(q)
    \/ CreateDevice(q) \/ LinkPartner(q) \/ LookAtDevice(q) \/ UpdateDevice(q) \/ DeleteDevice(q)
    \/ LookUpNames(q) \/ ImportDevice(q)
    \/ LookAtUnit(q) \/ CreateUnit(q) \/ RenameUnit(q) \/ DeleteUnit(q)
    \/ LookAtCredential(q) \/ UpdateCredential(q)
    \/ CountUsers(q) \/ CheckExists(q) \/ DeleteCredential(q) \/ DeleteCollector(q)

Next == \E q \in Requests : RequestStep(q)

Spec == Init /\ [][Next]_vars

-----------------------------------------------------------------------------
(* Properties *)

\* Every variable has its type, every reference of a device names a row, and a
\* credential holds a key, never the mask a client was shown for it.
TypeOK ==
    /\ DOMAIN device \subseteq Devices /\ \A d \in DOMAIN device : device[d] \in Row
    /\ \A d \in DOMAIN device : Refers(device[d], DOMAIN device)
    /\ DOMAIN device \cup DOMAIN unit \subseteq used
    /\ Hierarchical(unit)
    /\ DOMAIN credential \subseteq Credentials /\ \A c \in DOMAIN credential : credential[c] \in Keys
    /\ Local \in collector /\ collector \subseteq Collectors

\* The request q writes in this step, as the last thing it does.
Writes(q, op) == Step(q, op, "write") /\ request'[q].pc = "done" /\ request'[q].reply = "ok"

\* Updating a device changes the columns it was asked to change and no other, though
\* the handler writes back the whole row it has read, unless another request has
\* written the row in between.
OnlyAsked ==
    [][\A q \in Requests :
          Writes(q, "updateDevice") /\ request[q].on \in DOMAIN device \ request[q].moved =>
              \A f \in DOMAIN device[request[q].on] \ DOMAIN request[q].ask :
                  \/ device'[request[q].on][f] = device[request[q].on][f]
                  \/ f = "peer" /\ device[request[q].on].peer = None]_vars

\* Updating a device never takes the partner of a third device away from it.
PartnerKept ==
    [][\A q \in Requests : Writes(q, "updateDevice") =>
          \A d \in DOMAIN device \ {request[q].on} :
              device'[d].peer # device[d].peer =>
                  device[d].peer = None /\ device'[d].peer = request[q].on]_vars

\* Renaming a unit takes along the devices filed below it and no others, unless the
\* hierarchy has changed since its name was read: the devices hold it as text.
RenameCarries ==
    [][\A q \in Requests : Writes(q, "renameUnit") /\ ~request[q].refiled =>
          \A d \in DOMAIN device :
              LET u == request[q].on
                  below == \A l \in 1 .. Level[u] : PathOf(u)[l] \in {Branch(d)[l], device[d].path[l]}
                  new == [PathOf(u) EXCEPT ![Level[u]] = request[q].ask.name]
              IN  IF device[d].path # device'[d].path
                  THEN below /\ \A l \in 1 .. Level[u] : device'[d].path[l] = new[l]
                  ELSE below => \/ new = PathOf(u)
                                \/ \E l \in 1 .. Level[u] : device[d].path[l] = Blank]_vars

\* Deleting a credential leaves no device without one, unless the device has been
\* given it after the handler counted the devices that have it.
CredentialKept ==
    [][\A q \in Requests : Writes(q, "deleteCredential") =>
          \A d \in DOMAIN device :
              device[d].credential = request[q].on => d \in request[q].moved]_vars

\* d is reached from a device at the top of the tree.
Drawn(d) ==
    LET Above[n \in 0 .. Cardinality(Devices)] ==
            IF n = 0 THEN d ELSE IF Nested(Above[n - 1]) THEN ParentNode(Above[n - 1]) ELSE Above[n - 1]
    IN  Above[Cardinality(Devices)] \in Roots

\* Whichever devices are down, the number at every branch of the tree is how many of
\* the devices filed there are, but for passive ones and those in a ring of parents:
\* none is counted twice, or at the place of its parent.
TreeAddsUp ==
    LET drawn == {d \in Shown : Drawn(d)}
        branches == {SubSeq(Branch(d), 1, l) : d \in Shown, l \in 1 .. Depth}
    IN  \A down \in SUBSET DOMAIN device :
            LET alerts == SubtreeAlerts(down)
            IN  \A branch \in branches :
                    Number(branch, alerts) =
                        Cardinality({d \in drawn \cap down : SubSeq(Branch(d), 1, Len(branch)) = branch})

\* The rows, their references, and the tree that is made of them.
TreeKept == TypeOK /\ TreeAddsUp

\* A request changes what it was asked to.
ChangesKept == OnlyAsked /\ PartnerKept /\ RenameCarries /\ CredentialKept
=============================================================================
