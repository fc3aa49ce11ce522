--------------------------- MODULE ResonanceGate ---------------------------
(***************************************************************************)
(* The way out to resonance (api/resonance.py): a limiter and a circuit    *)
(* breaker (integrations/resonance/limiter.py) stand before each call.     *)
(*                                                                         *)
(* Both are rows of the database, and every request has a connection of    *)
(* its own: the limiter counts in one transaction and compares in another, *)
(* the breaker is looked at before the call, and a failure is counted by a *)
(* SELECT and an UPDATE.  Everything may happen between two of them.       *)
(***************************************************************************)
EXTENDS Naturals, FiniteSets

CONSTANTS
    Requests,               \* requests in flight at the same time
    Users, Admins,          \* who asks for codes, who presses Test
    Answers,                \* what resonance may answer
    UserLimit, GlobalLimit, TestLimit,
    Window,                 \* of all limits, in ticks
    ConfigThreshold, ConfigCooldown,
    TransientThreshold, TransientCooldown

ASSUME RequestsAssumption == IsFiniteSet(Requests) /\ Requests # {}
ASSUME AnswersAssumption == Answers \subseteq {"code", "config error", "transient error"}
ASSUME LimitsAssumption == {UserLimit, GlobalLimit, TestLimit, Window} \subseteq Nat \ {0}
ASSUME BreakerAssumption ==
    /\ {ConfigThreshold, TransientThreshold} \subseteq Nat \ {0}
    /\ {ConfigCooldown, TransientCooldown} \subseteq Nat \ {0, 1}
    /\ ConfigThreshold <= TransientThreshold

VARIABLES
    rate,           \* table resonance_rate: [bucket -> count and time left of its window]
    breaker,        \* table resonance_breaker: consecutive failures, time left of the pause
    request,        \* where each request is, with its locals
    admitted,       \* history: requests let through in the window of each bucket
    spent,          \* history: what each user took of the global window
    knocks,         \* history: calls for codes begun in this pause
    misses          \* history: config errors recorded since the last pause or success

vars == <<rate, breaker, request, admitted, spent, knocks, misses>>

Global == <<"global">>

OfUser(u) == <<"u", u>>

OfTest(u) == <<"t", u>>

Buckets == {OfUser(u) : u \in Users} \cup {OfTest(u) : u \in Admins} \cup {Global}

LimitOf(bucket) ==
    CASE bucket[1] = "u" -> UserLimit
      [] bucket[1] = "t" -> TestLimit
      [] OTHER -> GlobalLimit

\* No request, or one that has been answered.
Idle == [pc |-> "idle"]

Goto(r, next) == request' = [request EXCEPT ![r] = next]

-----------------------------------------------------------------------------

Init ==
    /\ rate = [b \in Buckets |-> [count |-> 0, left |-> 0]]
    /\ breaker = [failures |-> 0, left |-> 0]
    /\ request = [r \in Requests |-> Idle]
    /\ admitted = [b \in Buckets |-> 0]
    /\ spent = [u \in Users |-> 0]
    /\ knocks = 0
    /\ misses = 0

Arrive_GlobalOnly(r) ==
    /\ request[r] = Idle
    /\ \E u \in Users : Goto(r, [pc |-> "count", bucket |-> Global, user |-> u])
    /\ UNCHANGED <<rate, breaker, admitted, spent, knocks, misses>>

\* embed.js asks for a code, or an administrator presses Test.
Arrive(r) ==
    /\ request[r] = Idle
    /\ \/ \E u \in Users : Goto(r, [pc |-> "count", bucket |-> OfUser(u), user |-> u])
       \/ \E u \in Admins : Goto(r, [pc |-> "count", bucket |-> OfTest(u), user |-> u])
    /\ UNCHANGED <<rate, breaker, admitted, spent, knocks, misses>>

\* The row of a bucket after one more request.  Counts above the limit are all
\* the same to the code.
Counted(bucket, row) ==
    IF row.left = 0 THEN [count |-> 1, left |-> Window]
    ELSE [row EXCEPT !.count = IF @ > LimitOf(bucket) THEN @ ELSE @ + 1]

\* consume: the upsert and its commit.
Count(r) ==
    LET bucket == request[r].bucket
        fresh == rate[bucket].left = 0
    IN  /\ request[r].pc = "count"
        /\ rate' = [rate EXCEPT ![bucket] = Counted(bucket, @)]
        /\ Goto(r, [request[r] EXCEPT !.pc = "compare"])
        /\ admitted' = IF fresh THEN [admitted EXCEPT ![bucket] = 0] ELSE admitted
        /\ spent' = IF bucket # Global THEN spent
                    ELSE [u \in Users |-> (IF fresh THEN 0 ELSE spent[u])
                                          + (IF u = request[r].user THEN 1 ELSE 0)]
        /\ UNCHANGED <<breaker, knocks, misses>>

\* What comes after a bucket that had room: the user's limit first, then the
\* global one, then the breaker; a test goes straight to its call.
Admitted(r) ==
    CASE request[r].bucket[1] = "u" -> [request[r] EXCEPT !.pc = "count", !.bucket = Global]
      [] request[r].bucket[1] = "t" -> [pc |-> "call", test |-> TRUE]
      [] OTHER -> [pc |-> "check"]

Compare_OneMore(r) ==
    LET bucket == request[r].bucket
    IN  /\ request[r].pc = "compare"
        /\ IF rate[bucket].count > LimitOf(bucket) + 1
           THEN Goto(r, Idle) /\ UNCHANGED admitted
           ELSE Goto(r, Admitted(r)) /\ admitted' = [admitted EXCEPT ![bucket] = @ + 1]
        /\ UNCHANGED <<rate, breaker, spent, knocks, misses>>

\* consume: the SELECT, whatever has been counted since; 429 above the limit.
Compare(r) ==
    LET bucket == request[r].bucket
    IN  /\ request[r].pc = "compare"
        /\ IF rate[bucket].count > LimitOf(bucket)
           THEN Goto(r, Idle) /\ UNCHANGED admitted
           ELSE Goto(r, Admitted(r)) /\ admitted' = [admitted EXCEPT ![bucket] = @ + 1]
        /\ UNCHANGED <<rate, breaker, spent, knocks, misses>>

AssertClosed_ByCount(r) ==
    /\ request[r].pc = "check"
    /\ Goto(r, IF breaker.failures >= TransientThreshold THEN Idle
               ELSE [pc |-> "call", test |-> FALSE])
    /\ UNCHANGED <<rate, breaker, admitted, spent, knocks, misses>>

\* assert_closed: 503 while the breaker is open.  The time left is cut down to
\* whole seconds, so the last second may count as none.
AssertClosed(r) ==
    /\ request[r].pc = "check"
    /\ \/ breaker.left <= 1 /\ Goto(r, [pc |-> "call", test |-> FALSE])
       \/ breaker.left >= 1 /\ Goto(r, Idle)
    /\ UNCHANGED <<rate, breaker, admitted, spent, knocks, misses>>

\* What an answer leads to.  A failed test is reported and leaves the breaker
\* alone.
Answered(answer, test) ==
    CASE answer = "code" -> [pc |-> "succeeded"]
      [] answer # "code" /\ test -> Idle
      [] OTHER -> [pc |-> "failed", config |-> answer = "config error"]

\* create_session: the call, with the answer it will get.
Call(r) ==
    /\ request[r].pc = "call"
    /\ \E answer \in Answers : Goto(r, Answered(answer, request[r].test))
    /\ knocks' = IF breaker.left > 1 /\ ~request[r].test THEN knocks + 1 ELSE knocks
    /\ UNCHANGED <<rate, breaker, admitted, spent, misses>>

RecordSuccess(r) ==
    /\ request[r].pc = "succeeded"
    /\ breaker' = [failures |-> 0, left |-> 0]
    /\ Goto(r, Idle)
    /\ knocks' = 0
    /\ misses' = 0
    /\ UNCHANGED <<rate, admitted, spent>>

\* record_failure: the SELECT.
ReadFailures(r) ==
    /\ request[r].pc = "failed"
    /\ Goto(r, [pc |-> "write", config |-> request[r].config, seen |-> breaker.failures])
    /\ UNCHANGED <<rate, breaker, admitted, spent, knocks, misses>>

Threshold(config) == IF config THEN ConfigThreshold ELSE TransientThreshold

Cooldown(config) == IF config THEN ConfigCooldown ELSE TransientCooldown

WriteFailure_Beyond(r) ==
    LET config == request[r].config
        failures == IF request[r].seen < TransientThreshold THEN request[r].seen + 1
                    ELSE request[r].seen
        opens == failures > Threshold(config)
    IN  /\ request[r].pc = "write"
        /\ breaker' = [failures |-> failures,
                       left |-> IF opens THEN Cooldown(config) ELSE breaker.left]
        /\ Goto(r, Idle)
        /\ misses' = IF opens THEN 0 ELSE IF config THEN misses + 1 ELSE misses
        /\ UNCHANGED <<rate, admitted, spent, knocks>>

WriteFailure_StartsOver(r) ==
    LET config == request[r].config
        failures == IF breaker.left = 0 THEN 1
                    ELSE IF request[r].seen < TransientThreshold THEN request[r].seen + 1
                    ELSE request[r].seen
        opens == failures >= Threshold(config)
    IN  /\ request[r].pc = "write"
        /\ breaker' = [failures |-> failures,
                       left |-> IF opens THEN Cooldown(config) ELSE breaker.left]
        /\ Goto(r, Idle)
        /\ misses' = IF opens THEN 0 ELSE IF config THEN misses + 1 ELSE misses
        /\ UNCHANGED <<rate, admitted, spent, knocks>>

\* record_failure: the UPDATE, with one more than was read.  Counts above both
\* thresholds are all the same to the code.
WriteFailure(r) ==
    LET config == request[r].config
        failures == IF request[r].seen < TransientThreshold THEN request[r].seen + 1
                    ELSE request[r].seen
        opens == failures >= Threshold(config)
    IN  /\ request[r].pc = "write"
        /\ breaker' = [failures |-> failures,
                       left |-> IF opens THEN Cooldown(config) ELSE breaker.left]
        /\ Goto(r, Idle)
        /\ misses' = IF opens THEN 0 ELSE IF config THEN misses + 1 ELSE misses
        /\ UNCHANGED <<rate, admitted, spent, knocks>>

\* The database stays locked, or the process ends: nothing more comes of the
\* request.
Abandon(r) ==
    /\ request[r] # Idle
    /\ Goto(r, Idle)
    /\ UNCHANGED <<rate, breaker, admitted, spent, knocks, misses>>

Less_Below(time) == time - 1

Less(time) == IF time = 0 THEN 0 ELSE time - 1

Tick ==
    /\ rate' = [b \in Buckets |-> [rate[b] EXCEPT !.left = Less(@)]]
    /\ breaker' = [breaker EXCEPT !.left = Less(@)]
    /\ knocks' = IF breaker.left <= 2 THEN 0 ELSE knocks
    /\ UNCHANGED <<request, admitted, spent, misses>>

Step(r) ==
    \/ Arrive(r) \/ Count(r) \/ Compare(r) \/ AssertClosed(r) \/ Call(r)
    \/ RecordSuccess(r) \/ ReadFailures(r) \/ WriteFailure(r) \/ Abandon(r)

Next == Tick \/ \E r \in Requests : Step(r)

Spec == Init /\ [][Next]_vars

-----------------------------------------------------------------------------
(* Correctness.                                                            *)

Locals ==
    {Idle} \cup [pc : {"count", "compare"}, bucket : Buckets, user : Users \cup Admins]
    \cup [pc : {"check", "succeeded"}] \cup [pc : {"call"}, test : BOOLEAN]
    \cup [pc : {"failed"}, config : BOOLEAN]
    \cup [pc : {"write"}, config : BOOLEAN, seen : 0 .. TransientThreshold]

\* Every variable has its type.
TypeOK ==
    /\ rate \in [Buckets -> [count : Nat, left : 0 .. Window]]
    /\ \A b \in Buckets : rate[b].count <= LimitOf(b) + 1
    /\ breaker \in [failures : 0 .. TransientThreshold, left : Nat]
    /\ request \in [Requests -> Locals]
    /\ admitted \in [Buckets -> Nat]
    /\ spent \in [Users -> Nat]
    /\ knocks \in Nat
    /\ misses \in Nat

\* Requests that others can overtake.
Others == Cardinality(Requests) - 1

\* "The handful of requests the raciness could let through" (limiter.py) are at
\* most those that were counted in one window and compared in the next.
LimitKept == \A b \in Buckets : admitted[b] <= LimitOf(b) + Others

\* "One looping browser is refused before it can spend the whole install's
\* allowance" (limiter.py): of one global window a user gets no more than two
\* windows of its own, and what was under way.
ShareKept == \A u \in Users : spent[u] <= 2 * (UserLimit + Others)

\* While the breaker is open only requests that had passed it before are still
\* going to call.
FewKnocks == knocks <= Others

\* Failures that overwrite each other's count delay the breaker by no more than
\* the requests in flight.
OpensSoon == misses <= Cardinality(Requests)

\* Nor do they keep the breaker from opening for ever: when failures go on being
\* recorded and no call succeeds, the calls are paused again and again.
PausesAgain ==
    /\ []<><<\E r \in Requests : WriteFailure(r)>>_vars
    /\ <>[](\A r \in Requests : request[r].pc # "succeeded")
    => []<>(breaker.left > 0)

\* What requests get through the limits and the pause.
GateKept == TypeOK /\ LimitKept /\ FewKnocks /\ OpensSoon
=============================================================================
