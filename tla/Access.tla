------------------------------- MODULE Access -------------------------------
(***************************************************************************)
(* Managed mode: pktHub locks this application, so that visitors are sent  *)
(* to the hub (main.py: the middleware and /api/health; api/suite.py).     *)
(* The lock is kept alive by every call that carries the suite token, and  *)
(* the first visitor who finds it older than MaxAge releases it.           *)
(***************************************************************************)
EXTENDS Naturals

CONSTANTS
    Visitors,   \* requests for a page, without the token
    Admins,     \* requests for the suite token
    Tokens,
    MaxAge,     \* _LOCK_HEARTBEAT_MAX_AGE
    MaxFaults,  \* bound on the errors of the database
    None

AccessAssumption == MaxAge \in Nat /\ MaxFaults \in Nat /\ None \notin Tokens \cup Nat \cup BOOLEAN

VARIABLES
    lock,       \* the settings: direct_ui_locked, lock_heartbeat_at as an age, hub_redirect_url, suite_token
    hub,        \* of pktHub: the token it was given, the lock it shows, and its poll of the health
    visitor,    \* [Visitors -> locals of the middleware]
    admin,      \* [Admins -> locals of get_suite_token]
    quiet,      \* history: how long the hub has not been heard with the right token
    told,       \* history: an address to send visitors to has been given
    errors

vars == <<lock, hub, visitor, admin, quiet, told, errors>>

Ages == 0 .. MaxAge + 1
Older(age) == IF age > MaxAge THEN age ELSE age + 1

IsOn_Truth(value) == value # None

\* _decode_setting(...) is True.
IsOn(value) == value = TRUE

\* In words of the histories: the hub holds the lock and visitors have somewhere to go.
Shut(l, q, t) == l.on = TRUE /\ q <= MaxAge /\ t

\* free and raced are histories: the application has not been shut since the visitor
\* came, and the hub has called since the visitor read the heartbeat.
Idle == [at |-> "idle", free |-> FALSE, raced |-> FALSE]
Away == [at |-> "away", raced |-> FALSE]

Init ==
    /\ lock = [on |-> None, beat |-> None, url |-> FALSE, token |-> None]
    /\ hub = [token |-> None, shows |-> FALSE, at |-> "idle", got |-> FALSE]
    /\ visitor = [v \in Visitors |-> Idle] /\ admin = [a \in Admins |-> Away]
    /\ quiet = MaxAge + 1 /\ told = FALSE /\ errors = 0

\* The settings and the histories become these, for all who are under way.
Change(l, q, t, heard) ==
    /\ lock' = l /\ quiet' = q /\ told' = t
    /\ visitor' = [v \in Visitors |->
         IF visitor[v].at = "idle" THEN Idle
         ELSE [visitor[v] EXCEPT !.free = @ \/ ~Shut(l, q, t), !.raced = @ \/ heard]]

Genuine == hub.token # None /\ hub.token = lock.token

Accepted_AnyToken == hub.token # None

\* compare_digest of the header with suite_token, which get_settings reads each time.
Accepted == hub.token # None /\ hub.token = lock.token

-----------------------------------------------------------------------------
(* pktHub *)

HeartbeatWritten ==
    IF Accepted THEN Change([lock EXCEPT !.beat = 0], IF Genuine THEN 0 ELSE quiet, told, Genuine)
    ELSE UNCHANGED <<lock, visitor, quiet, told>>

\* A page that is proxied.
Proxy ==
    /\ Accepted /\ HeartbeatWritten
    /\ UNCHANGED <<hub, admin, errors>>

\* GET /api/health: the lock is read, and then the heartbeat is written.
ReadHealth ==
    /\ hub.at = "idle"
    /\ hub' = [hub EXCEPT !.at = "beat", !.got = IsOn(lock.on)]
    /\ UNCHANGED <<lock, visitor, admin, quiet, told, errors>>

\* The hub shows what it is told.
AnswerHealth ==
    /\ hub.at = "beat" /\ HeartbeatWritten
    /\ hub' = [hub EXCEPT !.at = "idle", !.got = FALSE, !.shows = hub.got]
    /\ UNCHANGED <<admin, errors>>

Locked_NoHeartbeat(on, url) == [lock EXCEPT !.on = on, !.url = @ \/ url]

Locked_BlankAddress(on, url) == [lock EXCEPT !.on = on, !.beat = 0, !.url = url]

\* Without an address the one that was there stays.
Locked(on, url) == [lock EXCEPT !.on = on, !.beat = 0, !.url = @ \/ url]

\* POST /direct-access, one transaction.
SetDirectAccess ==
    /\ Accepted
    /\ \E on, url \in BOOLEAN :
          /\ Change(Locked(on, url), IF Genuine THEN 0 ELSE quiet, told \/ url, Genuine)
          /\ hub' = [hub EXCEPT !.shows = on]
    /\ UNCHANGED <<admin, errors>>

-----------------------------------------------------------------------------
(* Visitors: the middleware, one step for each statement *)

Move(v, place) ==
    visitor' = [visitor EXCEPT ![v] = IF place = "idle" THEN Idle ELSE [@ EXCEPT !.at = place]]

Visit(v) ==
    /\ visitor[v].at = "idle"
    /\ visitor' = [visitor EXCEPT ![v] = [Idle EXCEPT !.at = "lock", !.free = ~Shut(lock, quiet, told)]]
    /\ UNCHANGED <<lock, hub, admin, quiet, told, errors>>

ReadLock(v) ==
    /\ visitor[v].at = "lock"
    /\ Move(v, IF IsOn(lock.on) THEN "beat" ELSE "serve")
    /\ UNCHANGED <<lock, hub, admin, quiet, told, errors>>

\* No heartbeat counts as expired.
Expired == lock.beat = None \/ lock.beat > MaxAge

ReadHeartbeat(v) ==
    /\ visitor[v].at = "beat"
    /\ visitor' = [visitor EXCEPT ![v].at = IF Expired THEN "release" ELSE "address", ![v].raced = FALSE]
    /\ UNCHANGED <<lock, hub, admin, quiet, told, errors>>

\* The flag is written whatever has happened since the heartbeat was read.
Release(v) ==
    /\ visitor[v].at = "release"
    /\ lock' = [lock EXCEPT !.on = FALSE]
    /\ visitor' = [u \in Visitors |->
                    IF u = v THEN [visitor[v] EXCEPT !.at = "serve", !.free = TRUE]
                    ELSE IF visitor[u].at = "idle" THEN Idle ELSE [visitor[u] EXCEPT !.free = TRUE]]
    /\ UNCHANGED <<hub, admin, quiet, told, errors>>

\* A visitor without an address to go to is served.
ReadAddress(v) ==
    /\ visitor[v].at = "address"
    /\ Move(v, IF lock.url THEN "idle" ELSE "serve")
    /\ UNCHANGED <<lock, hub, admin, quiet, told, errors>>

Serve(v) ==
    /\ visitor[v].at = "serve"
    /\ Move(v, "idle")
    /\ UNCHANGED <<lock, hub, admin, quiet, told, errors>>

\* Any error of the database: the request is served.
Error(v) ==
    /\ visitor[v].at \in {"lock", "beat", "release", "address"} /\ errors < MaxFaults
    /\ errors' = errors + 1
    /\ visitor' = [visitor EXCEPT ![v].at = "serve", ![v].free = TRUE]
    /\ UNCHANGED <<lock, hub, admin, quiet, told>>

VisitorStep(v) ==
    Visit(v) \/ ReadLock(v) \/ ReadHeartbeat(v) \/ Release(v) \/ ReadAddress(v) \/ Serve(v)

-----------------------------------------------------------------------------
(* Administrators *)

Missing_Always == TRUE
Missing == lock.token = None

\* The token that is shown is pasted into the hub, or not.
Shown(t) == hub' \in {hub, [hub EXCEPT !.token = t]}

\* GET /token: the stored one, or else a new one is stored and shown.
LookUpToken(a) ==
    /\ admin[a].at = "away"
    /\ IF Missing THEN admin' = [admin EXCEPT ![a].at = "write"] /\ UNCHANGED hub
                  ELSE Shown(lock.token) /\ UNCHANGED admin
    /\ UNCHANGED <<lock, visitor, quiet, told, errors>>

\* The token becomes t, and those who looked before have been overtaken.
Store(a, t) ==
    /\ lock' = [lock EXCEPT !.token = t]
    /\ Shown(t)
    /\ admin' = [b \in Admins |-> IF b = a THEN Away ELSE [admin[b] EXCEPT !.raced = admin[b].at = "write"]]
    /\ UNCHANGED <<visitor, quiet, told, errors>>

Fresh == Tokens \ {lock.token, hub.token}

StoreToken(a) == admin[a].at = "write" /\ \E t \in Fresh : Store(a, t)

\* POST /regenerate, and POST /register with a token that was typed in.
Regenerate(a) == admin[a].at = "away" /\ \E t \in Fresh : Store(a, t)
Register(a) == admin[a].at = "away" /\ \E t \in Tokens : Store(a, t)

\* PATCH /hub-redirect-url.
SetAddress ==
    /\ \E url \in BOOLEAN : Change([lock EXCEPT !.url = url], quiet, url, FALSE)
    /\ UNCHANGED <<hub, admin, errors>>

Tick ==
    /\ Change([lock EXCEPT !.beat = IF @ = None THEN None ELSE Older(@)], Older(quiet), told, FALSE)
    /\ UNCHANGED <<hub, admin, errors>>

Next ==
    \/ Proxy \/ ReadHealth \/ AnswerHealth \/ SetDirectAccess \/ SetAddress \/ Tick
    \/ \E v \in Visitors : VisitorStep(v) \/ Error(v)
    \/ \E a \in Admins : LookUpToken(a) \/ StoreToken(a) \/ Regenerate(a) \/ Register(a)

Fairness == WF_vars(Tick) /\ \A v \in Visitors : WF_vars(VisitorStep(v))

Spec == Init /\ [][Next]_vars
FairSpec == Spec /\ Fairness

-----------------------------------------------------------------------------
(* Properties *)

\* The types; a lock has a heartbeat, and a visitor who may release it has seen it on.
TypeOK ==
    /\ lock \in [on : BOOLEAN \cup {None}, beat : Ages \cup {None}, url : BOOLEAN, token : Tokens \cup {None}]
    /\ lock.on = TRUE => lock.beat # None
    /\ hub \in [token : Tokens \cup {None}, shows : BOOLEAN, at : {"idle", "beat"}, got : BOOLEAN]
    /\ visitor \in [Visitors -> [at : {"idle", "lock", "beat", "release", "address", "serve"},
                                 free : BOOLEAN, raced : BOOLEAN]]
    /\ admin \in [Admins -> [at : {"away", "write"}, raced : BOOLEAN]]
    /\ quiet \in Ages /\ told \in BOOLEAN /\ errors \in 0 .. MaxFaults

\* A visitor is let in only if the application was open at some moment of the request:
\* the statements that read the lock one by one never add up to an opening there was not.
ShutOut == [][\A v \in Visitors : visitor[v].at = "serve" /\ visitor'[v].at = "idle" => visitor[v].free]_vars

\* A visitor takes the lock away only from a hub that has been silent for MaxAge, or that
\* came back between the reading of the heartbeat and the release.
LockSurvives ==
    [][\A v \in Visitors : lock.on = TRUE /\ lock'.on = FALSE /\ visitor[v].at = "release" /\ visitor'[v].at = "serve"
         => quiet > MaxAge \/ visitor[v].raced]_vars

\* A hub that is gone, or whose token was replaced, strands nobody: visitors go on
\* coming, and one of them releases the lock.
NobodyStranded == <>[](quiet > MaxAge) => <>[](lock.on # TRUE)

\* A hub that goes on polling does not go on showing a lock that was released.
HubLearns ==
    []<>(hub.at = "idle") /\ []<>(hub.at = "beat") /\ <>[](lock.on # TRUE) => <>[]~hub.shows

\* The token the hub was given works until an administrator replaces it, or two first
\* calls overlap: reading it never does.
TokenKept ==
    [][\A a \in Admins : admin[a].at = "write" /\ admin'[a].at = "away" /\ Genuine
         => admin[a].raced]_vars

\* The lock and the token hold as long as they are to.
LockHolds == []TypeOK /\ ShutOut /\ LockSurvives /\ TokenKept

\* The lock ends, and the hub notices.
LockEnds == NobodyStranded /\ HubLearns
=============================================================================
