---------------------------- MODULE GuessBudget ----------------------------
(***************************************************************************)
(* What the account lockout of app/auth/lockout.py promises, without       *)
(* saying how it counts.  An account can be guessed at 2 * Limit times     *)
(* between two resets: half of that budget buys a timed lock, all of it a  *)
(* bar that only an administrator lifts.  Requests that were already past  *)
(* the lock check when the lock fell may still be answered, and there are  *)
(* at most Stragglers of those per lock.                                   *)
(***************************************************************************)
EXTENDS Integers

CONSTANTS
    Users,          \* the accounts
    Limit,          \* wrong passwords that cost a lockout
    LockTime,       \* how long a timed lock holds, in ticks
    Stragglers      \* checks that may still be under way when a lock falls

VARIABLES
    budget,         \* [Users -> Int]  wrong passwords left before the bar
    timer,          \* [Users -> Nat]  ticks left on the timed lock
    barred,         \* [Users -> BOOLEAN]
    slack           \* [Users -> Int]  stragglers the present lock may still see

vars == <<budget, timer, barred, slack>>

Init ==
    /\ budget = [u \in Users |-> 2 * Limit]
    /\ timer  = [u \in Users |-> 0]
    /\ barred = [u \in Users |-> FALSE]
    /\ slack  = [u \in Users |-> Stragglers]

Closed(u) == barred[u] \/ timer[u] > 0

\* A password is checked: on an open account, or by one of the stragglers.
Admitted(u) == Closed(u) => slack[u] > 0

\* The stragglers left after a step that leaves the account closed or open.
Slack(u, checked) ==
    IF ~(barred'[u] \/ timer'[u] > 0) \/ ~Closed(u) THEN Stragglers
    ELSE IF checked THEN slack[u] - 1 ELSE slack[u]

Wrong(u) ==
    /\ Admitted(u)
    /\ budget' = [budget EXCEPT ![u] = @ - 1]
    /\ timer'  = [timer EXCEPT ![u] = IF budget[u] - 1 = Limit THEN LockTime ELSE @]
    /\ barred' = [barred EXCEPT ![u] = @ \/ budget[u] <= 1]
    /\ slack'  = [slack EXCEPT ![u] = Slack(u, TRUE)]

\* The right password gives the whole budget back and ends a timed lock, but
\* does not lift the bar.
Right(u) ==
    /\ Admitted(u)
    /\ budget' = [budget EXCEPT ![u] = 2 * Limit]
    /\ timer'  = [timer EXCEPT ![u] = 0]
    /\ UNCHANGED barred
    /\ slack'  = [slack EXCEPT ![u] = Slack(u, TRUE)]

\* A check that changes no account: the request is refused for another reason.
Idle(u) ==
    /\ Admitted(u)
    /\ slack' = [slack EXCEPT ![u] = Slack(u, TRUE)]
    /\ UNCHANGED <<budget, timer, barred>>

Pardon(u) ==
    /\ budget' = [budget EXCEPT ![u] = 2 * Limit]
    /\ timer'  = [timer EXCEPT ![u] = 0]
    /\ barred' = [barred EXCEPT ![u] = FALSE]
    /\ slack'  = [slack EXCEPT ![u] = Stragglers]

Tick ==
    /\ timer' = [u \in Users |-> IF timer[u] > 0 THEN timer[u] - 1 ELSE 0]
    /\ slack' = [u \in Users |-> Slack(u, FALSE)]
    /\ UNCHANGED <<budget, barred>>

Next ==
    \/ \E u \in Users : Wrong(u) \/ Right(u) \/ Idle(u) \/ Pardon(u)
    \/ Tick

Spec == Init /\ [][Next]_vars
=============================================================================
