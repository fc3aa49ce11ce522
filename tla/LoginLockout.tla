---------------------------- MODULE LoginLockout ----------------------------
(***************************************************************************)
(* Password checks of pktSNMP: the login (app/api/auth.py), the current    *)
(* password asked for when changing one (app/api/users.py), the account    *)
(* lockout they share (app/auth/lockout.py) and the throttle on the        *)
(* address they come from (app/auth/throttle.py).                          *)
(*                                                                         *)
(* A request is a coroutine with a database connection of its own.  Every  *)
(* SELECT and every transaction is one step; other requests, the           *)
(* administrator and the clock run in between.  Times are kept as the time *)
(* left (locked_until, blocked_until) or the time passed (ts), because the *)
(* code only ever compares them with datetime('now').                      *)
(***************************************************************************)
EXTENDS Integers, FiniteSets

CONSTANTS
    Requests,       \* requests that can be in flight together
    Users,          \* ids of the rows of table users (never reused)
    NoUser,         \* a username, or id, without a row
    Addresses,      \* where connections come from
    Passwords,      \* what can be typed
    NoPassword,     \* hashed_password IS NULL: a single-sign-on account
    TooShort,       \* a new password of fewer than 6 characters
    Limit,          \* login_max_failed_attempts
    LockTime,       \* LOCK_MINUTES, in ticks
    AddressLimit,   \* address_max_failed_attempts
    Window,         \* address_failure_window_minutes, in ticks
    BlockTime       \* address_block_minutes, in ticks

ASSUME RequestsAssumption == IsFiniteSet(Requests) /\ Requests # {}
ASSUME LimitAssumption == Limit \in Nat \ {0} /\ AddressLimit \in Nat \ {0}
ASSUME TimeAssumption ==
    LockTime \in Nat \ {0} /\ Window \in Nat \ {0} /\ BlockTime \in Nat \ {0}
ASSUME NamesAssumption ==
    NoUser \notin Users /\ NoPassword \notin Passwords /\ TooShort \notin Passwords

VARIABLES
    account,        \* [Users -> row]: the lockout columns of users
    failures,       \* table address_failures: rows that still count
    block,          \* [Addresses -> Nat]: ticks left in address_blocks
    request,        \* [Requests -> the locals of the coroutine]
    wrong,          \* history: wrong passwords counted since the last reset
    late            \* history: checks made while the account was locked

vars == <<account, failures, block, request, wrong, late>>

-----------------------------------------------------------------------------
(* The lockout columns of one row of users (app/auth/lockout.py).          *)

Row == [exists : BOOLEAN, active : BOOLEAN, password : Passwords \cup {NoPassword},
        count : Nat, lockouts : Nat, left : Nat, locked : BOOLEAN]

NewRow(password) ==
    [exists |-> TRUE, active |-> TRUE, password |-> password,
     count |-> 0, lockouts |-> 0, left |-> 0, locked |-> FALSE]

\* describe: locked for good, or until a time that has not come.
Locked(row) == row.locked \/ row.left > 0

RecordFailure_OneMore(row) ==
    IF row.count + 1 > Limit
    THEN [row EXCEPT !.count = 0,
                     !.lockouts = @ + 1,
                     !.locked = @ \/ row.lockouts + 1 >= 2,
                     !.left = IF row.lockouts + 1 < 2 THEN LockTime ELSE @]
    ELSE [row EXCEPT !.count = @ + 1]

RecordFailure_NeverForGood(row) ==
    IF row.count + 1 >= Limit
    THEN [row EXCEPT !.count = 0, !.lockouts = @ + 1, !.left = LockTime]
    ELSE [row EXCEPT !.count = @ + 1]

\* record_failure: the one UPDATE that counts and locks.
RecordFailure(row) ==
    IF row.count + 1 >= Limit
    THEN [row EXCEPT !.count = 0,
                     !.lockouts = @ + 1,
                     !.locked = @ \/ row.lockouts + 1 >= 2,
                     !.left = IF row.lockouts + 1 < 2 THEN LockTime ELSE @]
    ELSE [row EXCEPT !.count = @ + 1]

RecordSuccess_LiftsBar(row) ==
    [row EXCEPT !.count = 0, !.lockouts = 0, !.left = 0, !.locked = FALSE]

\* record_success leaves is_locked alone.
RecordSuccess(row) == [row EXCEPT !.count = 0, !.lockouts = 0, !.left = 0]

Unlock(row) == [row EXCEPT !.count = 0, !.lockouts = 0, !.left = 0, !.locked = FALSE]

-----------------------------------------------------------------------------
(* The address throttle (app/auth/throttle.py).  A row is kept while it    *)
(* can still be counted: age < Window.  The ids of one address are slots   *)
(* 1 .. AddressLimit, of which a transaction never leaves all in use.      *)

Recent(a) == {f \in failures : f.address = a}

FreeSlot(a) == CHOOSE i \in 1 .. AddressLimit : \A f \in Recent(a) : f.slot # i

Failure(a) == [address |-> a, slot |-> FreeSlot(a), age |-> 0]

\* record_failure before the rows are deleted: one failure too many.
ChargeAddress_KeepsRows(a) ==
    /\ failures' = failures \cup {Failure(a)}
    /\ block' = [block EXCEPT ![a] =
           IF Cardinality(Recent(a)) + 1 < AddressLimit THEN @ ELSE BlockTime]

\* record_failure: insert, count, and block instead of keeping the rows.
ChargeAddress(a) ==
    IF Cardinality(Recent(a)) + 1 < AddressLimit
    THEN /\ failures' = failures \cup {Failure(a)}
         /\ UNCHANGED block
    ELSE /\ failures' = failures \ Recent(a)
         /\ block' = [block EXCEPT ![a] = BlockTime]

-----------------------------------------------------------------------------
(* Requests.  A record per coroutine: where it is (pc), what it was sent,  *)
(* and the hash it read, which is what the password is compared with       *)
(* however the row has changed since.                                      *)

Idle == [pc |-> "idle"]

Busy(r) == request[r].pc # "idle"

InFlight ==
    [pc : {"address", "account", "verify", "reread", "charge"},
     kind : {"login", "change"},
     address : Addresses,
     user : Users \cup {NoUser},
     guess : Passwords,
     new : Passwords \cup {NoPassword, TooShort},
     hash : Passwords \cup {NoPassword}]

Goto(r, pc) == request' = [request EXCEPT ![r].pc = pc]

\* The response is sent, or an exception ends the request.
Respond(r) == request' = [request EXCEPT ![r] = Idle]

\* get_current_user let a change request in: an active row, or the synthetic
\* id 0 of a request proxied by the hub, which has no row.
MayChange(u) == u \in Users => account[u].exists /\ account[u].active

Init ==
    /\ account \in [Users -> {NewRow(p) : p \in Passwords \cup {NoPassword}}]
    /\ failures = {}
    /\ block = [a \in Addresses |-> 0]
    /\ request = [r \in Requests |-> Idle]
    /\ wrong = [u \in Users |-> 0]
    /\ late = [u \in Users |-> 0]

Arrive(r) ==
    /\ ~Busy(r)
    /\ \E a \in Addresses, u \in Users \cup {NoUser}, g \in Passwords :
        \/ request' = [request EXCEPT ![r] =
               [pc |-> "address", kind |-> "login", address |-> a, user |-> u,
                guess |-> g, new |-> NoPassword, hash |-> NoPassword]]
        \/ /\ MayChange(u)
           /\ \E n \in Passwords \cup {TooShort} :
               request' = [request EXCEPT ![r] =
                   [pc |-> "address", kind |-> "change", address |-> a, user |-> u,
                    guess |-> g, new |-> n, hash |-> NoPassword]]
    /\ UNCHANGED <<account, failures, block, wrong, late>>

\* blocked_seconds: an address that is blocked is answered 429.
CheckAddress(r) ==
    /\ request[r].pc = "address"
    /\ IF block[request[r].address] > 0 THEN Respond(r) ELSE Goto(r, "account")
    /\ UNCHANGED <<account, failures, block, wrong, late>>

ReadAccount_LoginOnly(r) ==
    LET u == request[r].user
    IN  /\ request[r].pc = "account"
        /\ IF u = NoUser \/ (request[r].kind = "login" /\ Locked(account[u]))
           THEN Respond(r)
           ELSE request' = [request EXCEPT ![r].pc = "verify", ![r].hash = account[u].password]
        /\ UNCHANGED <<account, failures, block, wrong, late>>

\* The SELECT of the row with its lockout columns, and the refusals that
\* follow from what was read.
ReadAccount(r) ==
    LET u == request[r].user
        known == u # NoUser /\ account[u].exists
    IN  /\ request[r].pc = "account"
        /\ \/ /\ request[r].kind = "login"
              /\ ~(known /\ account[u].active)
              /\ Goto(r, "charge")
           \/ /\ request[r].kind = "change"
              /\ ~known
              /\ Respond(r)
           \/ /\ known
              /\ request[r].kind = "login" => account[u].active
              /\ IF Locked(account[u])
                 THEN Respond(r)
                 ELSE request' = [request EXCEPT ![r].pc = "verify",
                                                 ![r].hash = account[u].password]
        /\ UNCHANGED <<account, failures, block, wrong, late>>

-----------------------------------------------------------------------------
(* The two histories.  late counts the checks made while the account was   *)
(* locked, from the step that locked it to the step that opens it.         *)

Late(u, checked) ==
    IF ~Locked(account'[u]) \/ ~Locked(account[u]) THEN 0
    ELSE IF checked THEN late[u] + 1 ELSE late[u]

\* A check whose outcome is not recorded: the row stays as it is.
CheckedInVain(u) ==
    /\ late' = IF account[u].exists /\ Locked(account[u]) THEN [late EXCEPT ![u] = @ + 1] ELSE late
    /\ UNCHANGED <<account, wrong>>

Matches(r) == request[r].guess = request[r].hash

\* verify_password says no: lockout.record_failure.  The UPDATE changes
\* nothing when the row has been deleted since it was read.
WrongPassword(r) ==
    LET u == request[r].user
    IN  /\ request[r].pc = "verify"
        /\ ~Matches(r)
        /\ IF account[u].exists
           THEN /\ account' = [account EXCEPT ![u] = RecordFailure(@)]
                /\ wrong' = [wrong EXCEPT ![u] = @ + 1]
                /\ late' = [late EXCEPT ![u] = Late(u, TRUE)]
           ELSE UNCHANGED <<account, wrong, late>>
        /\ Goto(r, "reread")
        /\ UNCHANGED <<failures, block>>

\* The SELECT at the end of record_failure; describe(None) raises when the row
\* is gone, and the address is then never charged.
RereadAccount(r) ==
    /\ request[r].pc = "reread"
    /\ IF account[request[r].user].exists THEN Goto(r, "charge") ELSE Respond(r)
    /\ UNCHANGED <<account, failures, block, wrong, late>>

\* throttle.record_failure in one transaction, then the answer: 429, 423, 401
\* or 400.
CountFailure(r) ==
    /\ request[r].pc = "charge"
    /\ ChargeAddress(request[r].address)
    /\ Respond(r)
    /\ UNCHANGED <<account, wrong, late>>

Accept(r, u, row) ==
    /\ IF account[u].exists
       THEN /\ account' = [account EXCEPT ![u] = row]
            /\ wrong' = [wrong EXCEPT ![u] = 0]
            /\ late' = [late EXCEPT ![u] = Late(u, TRUE)]
       ELSE UNCHANGED <<account, wrong, late>>
    /\ Respond(r)

RightPassword_ForgivesAddress(r) ==
    /\ request[r].pc = "verify"
    /\ Matches(r)
    /\ Accept(r, request[r].user, RecordSuccess(account[request[r].user]))
    /\ failures' = failures \ Recent(request[r].address)
    /\ UNCHANGED block

\* verify_password says yes.  A login commits record_success with the time of
\* the login; a change commits it with the new password, and a new password
\* that is too short is answered 400 with record_success rolled back.
RightPassword(r) ==
    LET u == request[r].user
    IN  /\ request[r].pc = "verify"
        /\ Matches(r)
        /\ \/ /\ request[r].kind = "login"
              /\ Accept(r, u, RecordSuccess(account[u]))
           \/ /\ request[r].kind = "change"
              /\ request[r].new # TooShort
              /\ Accept(r, u, [RecordSuccess(account[u]) EXCEPT !.password = request[r].new])
           \/ /\ request[r].new = TooShort
              /\ Respond(r)
              /\ CheckedInVain(u)
        /\ UNCHANGED <<failures, block>>

\* Another connection holds the write lock for longer than the busy timeout:
\* the UPDATE or DELETE raises, nothing is written, the answer is 500.
DatabaseBusy(r) ==
    /\ \/ request[r].pc = "verify" /\ CheckedInVain(request[r].user)
       \/ request[r].pc = "charge" /\ UNCHANGED <<account, wrong, late>>
    /\ Respond(r)
    /\ UNCHANGED <<failures, block>>

\* The process stops: the coroutines are gone, the database stays.
Restart ==
    /\ request' = [r \in Requests |-> Idle]
    /\ UNCHANGED <<account, failures, block, wrong, late>>

-----------------------------------------------------------------------------
(* The administrator (app/api/users.py) and the clock.                     *)

Administer(u, row) ==
    /\ account[u].exists
    /\ account' = [account EXCEPT ![u] = row]
    /\ UNCHANGED <<failures, block, request>>

UnlockUser(u) ==
    /\ Administer(u, Unlock(account[u]))
    /\ wrong' = [wrong EXCEPT ![u] = 0]
    /\ late' = [late EXCEPT ![u] = 0]

\* reset_user_password, and update_user with a password: no lock column changes.
ResetPassword(u) ==
    /\ \E p \in Passwords : Administer(u, [account[u] EXCEPT !.password = p])
    /\ UNCHANGED <<wrong, late>>

SetActive(u) ==
    /\ \E active \in BOOLEAN : Administer(u, [account[u] EXCEPT !.active = active])
    /\ UNCHANGED <<wrong, late>>

DeleteUser(u) ==
    /\ Administer(u, [account[u] EXCEPT !.exists = FALSE])
    /\ UNCHANGED <<wrong, late>>

Less_PastZero(n) == n - 1

Less(n) == IF n > 0 THEN n - 1 ELSE 0

Tick ==
    /\ account' = [u \in Users |-> [account[u] EXCEPT !.left = Less(@)]]
    /\ block' = [a \in Addresses |-> Less(block[a])]
    /\ failures' = {[f EXCEPT !.age = @ + 1] : f \in {g \in failures : g.age + 1 < Window}}
    /\ late' = [u \in Users |-> Late(u, FALSE)]
    /\ UNCHANGED <<request, wrong>>

RequestStep(r) ==
    \/ CheckAddress(r) \/ ReadAccount(r)
    \/ WrongPassword(r) \/ RereadAccount(r) \/ CountFailure(r)
    \/ RightPassword(r) \/ DatabaseBusy(r)

Next ==
    \/ \E r \in Requests : Arrive(r) \/ RequestStep(r)
    \/ \E u \in Users : UnlockUser(u) \/ ResetPassword(u) \/ SetActive(u) \/ DeleteUser(u)
    \/ Restart
    \/ Tick

Spec == Init /\ [][Next]_vars

-----------------------------------------------------------------------------
(* Correctness.                                                            *)

\* Every variable has its type.
TypeOK ==
    /\ account \in [Users -> Row]
    /\ failures \subseteq [address : Addresses, slot : 1 .. AddressLimit, age : 0 .. Window - 1]
    /\ block \in [Addresses -> 0 .. BlockTime]
    /\ request \in [Requests -> InFlight \cup {Idle}]
    /\ wrong \in [Users -> Nat]
    /\ late \in [Users -> Nat]

\* Requests whose password check of u is still to come.
Checking(u) == {r \in Requests : request[r].pc = "verify" /\ request[r].user = u}

\* Two attempts arriving together are both counted (record_failure, "cannot
\* both read the same count"): the two columns spell the number of wrong
\* passwords since the last reset, whatever the requests interleave with, and
\* two lockouts are never on record without the permanent lock.
EveryGuessCounted ==
    \A u \in Users :
        /\ wrong[u] = Limit * account[u].lockouts + account[u].count
        /\ account[u].count < Limit
        /\ account[u].lockouts >= 2 => account[u].locked

\* The lock check of login and change_my_password reads the row before the
\* password is looked at, so a lock cannot stop the requests already past that
\* check; it stops every other one: fewer checks than there are requests
\* in flight ever reach a locked account.
FewLateChecks ==
    \A u \in Users : Locked(account[u]) =>
        late[u] + Cardinality(Checking(u)) < Cardinality(Requests)

\* The rows of an address that is not blocked are below the limit after every
\* transaction of throttle.record_failure, and the count starts again once the
\* block begins.
AddressBelowLimit ==
    \A a \in Addresses : Cardinality(Recent(a)) < AddressLimit

\* A permanent lock is lifted by an administrator only (lockout.unlock): not by
\* the clock, and not by a correct password that was read before the lock.
OnlyAdminLifts ==
    [][\A u \in Users :
        account[u].locked /\ ~account'[u].locked => UnlockUser(u)]_vars

\* "A successful sign-in does not reset the count" (throttle.py): a failure
\* that still counts goes away by ageing, or because its address is blocked.
FailuresForgivenByTimeOnly ==
    [][\A a \in Addresses :
        Cardinality(Recent(a)') < Cardinality(Recent(a)) =>
            Tick \/ block'[a] = BlockTime]_vars

\* The lockout implements the budget of GuessBudget: 2 * Limit wrong passwords
\* and the stragglers, whatever the interleaving.
Budget == INSTANCE GuessBudget WITH
    Stragglers <- Cardinality(Requests) - 1,
    budget <- [u \in Users |-> 2 * Limit - (Limit * account[u].lockouts + account[u].count)],
    timer  <- [u \in Users |-> account[u].left],
    barred <- [u \in Users |-> account[u].locked],
    slack  <- [u \in Users |-> Cardinality(Requests) - 1 - late[u]]

GuessBudgetKept == Budget!Spec

\* What holds of the counts after every transaction.
LockoutKept == TypeOK /\ EveryGuessCounted /\ FewLateChecks /\ AddressBelowLimit

\* What takes a lock or a failure away again.
ForgivenKept == OnlyAdminLifts /\ FailuresForgivenByTimeOnly
=============================================================================
