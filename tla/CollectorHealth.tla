--------------------------- MODULE CollectorHealth ---------------------------
(***************************************************************************)
(* What pktSNMP says of the health of a remote collector, from the         *)
(* deliveries and heartbeats that arrive with its token or with a wrong    *)
(* one: collector_auth, _do_ingest_otlp, ingest_heartbeat, _mask_collector *)
(* and snmp_status of api/snmp.py.                                         *)
(***************************************************************************)
EXTENDS Naturals

CONSTANTS
    Requests,
    Never,              \* NULL, of a time
    SeenFor, FailFor    \* windows, in ticks: ten and fifteen minutes

WindowsAssumption == SeenFor \in Nat \ {0} /\ FailFor \in Nat \ {0} /\ Never \notin Nat

\* Bound of the ages: both windows have passed.
Oldest == (IF SeenFor > FailFor THEN SeenFor ELSE FailFor) + 1

VARIABLES
    token,          \* does the host deliver with the token of the row
    failures,       \* auth_failure_count > 0
    failed, seen,   \* age of last_auth_failure_at and of last_seen
    request         \* where each request is; raced: history, a token was refused since

vars == <<token, failures, failed, seen, request>>

Idle == [pc |-> "idle", op |-> "none", raced |-> FALSE]

Init ==
    /\ token = TRUE /\ failures = FALSE /\ failed = Never /\ seen = Never
    /\ request = [q \in Requests |-> Idle]

Refused == [p \in Requests |-> IF request[p] = Idle THEN Idle ELSE [request[p] EXCEPT !.raced = TRUE]]

\* rotate_collector_token; somebody takes the new token to the host.
ChangeToken ==
    /\ token' = ~token
    /\ UNCHANGED <<failures, failed, seen, request>>

Authenticate_KeepsFailure(q, op) ==
    /\ request[q] = Idle /\ token
    /\ request' = [request EXCEPT ![q] = [pc |-> "deliver", op |-> op, raced |-> FALSE]]
    /\ UNCHANGED <<token, failures, failed, seen>>

\* collector_auth: a right token clears the failures of its collector ...
Authenticate(q, op) ==
    /\ request[q] = Idle /\ token
    /\ failures' = FALSE /\ failed' = Never
    /\ request' = [request EXCEPT ![q] = [pc |-> "deliver", op |-> op, raced |-> FALSE]]
    /\ UNCHANGED <<token, seen>>

\* ... and a wrong one counts against the collector with the address it came from.
Refuse(q) ==
    /\ request[q] = Idle /\ ~token
    /\ failures' = TRUE /\ failed' = 0
    /\ request' = Refused
    /\ UNCHANGED <<token, seen>>

\* _do_ingest_otlp, at its end; a body or a store that fails ends it before.
Deliver(q) ==
    /\ request[q].pc = "deliver" /\ request[q].op = "otlp"
    /\ \/ seen' = 0
       \/ UNCHANGED seen
    /\ request' = [request EXCEPT ![q] = Idle]
    /\ UNCHANGED <<token, failures, failed>>

\* ingest_heartbeat clears the failures once more.
Heartbeat(q) ==
    /\ request[q].pc = "deliver" /\ request[q].op = "heartbeat"
    /\ seen' = 0 /\ failures' = FALSE /\ failed' = Never
    /\ request' = [request EXCEPT ![q] = Idle]
    /\ UNCHANGED token

Older(age) == IF age = Never \/ age = Oldest THEN age ELSE age + 1

Tick ==
    /\ failed' = Older(failed) /\ seen' = Older(seen)
    /\ UNCHANGED <<token, failures, request>>

Next ==
    \/ \E q \in Requests : \/ \E op \in {"otlp", "heartbeat"} : Authenticate(q, op)
                           \/ Refuse(q) \/ Deliver(q) \/ Heartbeat(q)
    \/ ChangeToken \/ Tick

Spec == Init /\ [][Next]_vars

-----------------------------------------------------------------------------
(* What is shown *)

Within(age, window) == age # Never /\ age < window

\* effective_status of the collectors page.
Effective ==
    IF failures /\ Within(failed, FailFor) THEN "error"
    ELSE IF Within(seen, SeenFor) THEN "online" ELSE "offline"

\* Is it one of the collectors the overview counts as online.
CountedOnline == (~failures \/ failed = Never \/ failed > FailFor) /\ Within(seen, SeenFor + 1)

\* A collector that has just delivered or sent a heartbeat is shown as online and
\* counted as online, whatever it was before, unless a token of its address was
\* refused while a delivery was on its way; a heartbeat makes up for that too.
SeenIsOnline ==
    [][\A q \in Requests :
          request[q].pc = "deliver" /\ seen' = 0 /\ request'[q] = Idle
              /\ (~request[q].raced \/ request[q].op = "heartbeat") =>
                  Effective' = "online" /\ CountedOnline']_vars

\* Every variable has its type, and a time of a failure comes with a failure.
TypeOK ==
    /\ {token, failures} \subseteq BOOLEAN
    /\ {failed, seen} \subseteq (0 .. Oldest) \cup {Never}
    /\ request \in [Requests -> [pc : {"idle", "deliver"}, op : {"none", "otlp", "heartbeat"},
                                 raced : BOOLEAN]]
    /\ failures <=> failed # Never
=============================================================================
