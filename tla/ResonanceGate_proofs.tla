------------------------ MODULE ResonanceGate_proofs ------------------------
(***************************************************************************)
(* Theorems about ResonanceGate, for any number of requests and users and  *)
(* any limits, thresholds and cooldowns.                                   *)
(***************************************************************************)
EXTENDS ResonanceGate, FiniteSetTheorems, TLAPS

-----------------------------------------------------------------------------
(* Type correctness.                                                       *)

\* The limit of a bucket is one of the three limits.
LEMMA LimitTyped == \A b : LimitOf(b) \in Nat \ {0}
  BY LimitsAssumption DEF LimitOf

\* Where a request may be, one place at a time.
LEMMA LocalsOf ==
    ASSUME NEW l \in Locals
    PROVE  /\ l.pc \in {"count", "compare"} => l.bucket \in Buckets /\ l.user \in Users \cup Admins
           /\ l.pc = "call" => l.test \in BOOLEAN
           /\ l.pc = "failed" => l.config \in BOOLEAN
           /\ l.pc = "write" => l.config \in BOOLEAN /\ l.seen \in 0 .. TransientThreshold
  BY DEF Locals, Idle

\* Everything a request may become has its type.
LEMMA LocalsTyped ==
    /\ Idle \in Locals
    /\ \A b \in Buckets, u \in Users \cup Admins, pc \in {"count", "compare"} :
           [pc |-> pc, bucket |-> b, user |-> u] \in Locals
    /\ [pc |-> "check"] \in Locals /\ [pc |-> "succeeded"] \in Locals
    /\ \A b \in BOOLEAN : [pc |-> "call", test |-> b] \in Locals
    /\ \A b \in BOOLEAN : [pc |-> "failed", config |-> b] \in Locals
    /\ \A b \in BOOLEAN, n \in 0 .. TransientThreshold :
           [pc |-> "write", config |-> b, seen |-> n] \in Locals
  BY DEF Locals, Idle

\* A request on its way through the limiter stays what it is but for its place
\* and its bucket.
LEMMA InLimiter ==
    ASSUME NEW l \in Locals, l.pc \in {"count", "compare"}
    PROVE  /\ [l EXCEPT !.pc = "compare"] \in Locals
           /\ [l EXCEPT !.pc = "count", !.bucket = Global] \in Locals
  <1>1. l \in [pc : {"count", "compare"}, bucket : Buckets, user : Users \cup Admins]
    BY DEF Locals, Idle
  <1>2. Global \in Buckets
    BY DEF Buckets
  <1> QED  BY <1>1, <1>2 DEF Locals

LEMMA AnsweredTyped == \A answer, test : Answered(answer, test) \in Locals
  <1> TAKE answer, test
  <1>1. (answer = "config error") \in BOOLEAN
    OBVIOUS
  <1>2. [pc |-> "failed", config |-> answer = "config error"] \in Locals
    BY <1>1, LocalsTyped
  <1>3. CASE answer = "code"
    BY <1>3, LocalsTyped DEF Answered
  <1>4. CASE answer # "code" /\ test
    BY <1>4, LocalsTyped DEF Answered
  <1>5. CASE answer # "code" /\ ~test
    BY <1>2, <1>5 DEF Answered
  <1> QED  BY <1>3, <1>4, <1>5

\* The variables have their types initially.
LEMMA InitTyped == Init => TypeOK
  <1> SUFFICES ASSUME Init PROVE TypeOK
    OBVIOUS
  <1>1. Window \in Nat /\ TransientThreshold \in Nat
    BY LimitsAssumption, BreakerAssumption
  <1> QED  BY <1>1, LimitTyped, LocalsTyped DEF Init, TypeOK

\* A step of the limiter: one row of the rate table, one request, its history.
LEMMA CountTyped ==
    ASSUME TypeOK, NEW r \in Requests, Count(r)
    PROVE  TypeOK'
  <1> DEFINE b == request[r].bucket
  <1>1. request[r] \in Locals /\ request[r].pc = "count" /\ b \in Buckets
    BY LocalsOf DEF TypeOK, Count
  <1>2. LimitOf(b) \in Nat /\ Window \in Nat
    BY LimitTyped, LimitsAssumption
  <1>3. /\ Counted(b, rate[b]) \in [count : Nat, left : 0 .. Window]
        /\ Counted(b, rate[b]).count <= LimitOf(b) + 1
    BY <1>1, <1>2 DEF TypeOK, Counted
  <1>4. rate' = [rate EXCEPT ![b] = Counted(b, rate[b])]
    BY DEF Count
  <1>5. rate' \in [Buckets -> [count : Nat, left : 0 .. Window]]
    BY <1>1, <1>3, <1>4 DEF TypeOK
  <1>6. \A c \in Buckets : rate'[c].count <= LimitOf(c) + 1
    BY <1>1, <1>3, <1>4 DEF TypeOK
  <1>7. request' \in [Requests -> Locals]
    BY <1>1, InLimiter DEF TypeOK, Count, Goto
  <1>8. admitted' \in [Buckets -> Nat]
    BY <1>1 DEF TypeOK, Count
  <1>9. spent' \in [Users -> Nat]
    BY DEF TypeOK, Count
  <1> QED  BY <1>5, <1>6, <1>7, <1>8, <1>9 DEF TypeOK, Count

LEMMA CompareTyped ==
    ASSUME TypeOK, NEW r \in Requests, Compare(r)
    PROVE  TypeOK'
  <1>1. request[r] \in Locals /\ request[r].pc = "compare" /\ request[r].bucket \in Buckets
    BY LocalsOf DEF TypeOK, Compare
  <1>2. Admitted(r) \in Locals
    BY <1>1, InLimiter, LocalsTyped DEF Admitted
  <1>3. request' \in [Requests -> Locals]
    BY <1>2, LocalsTyped DEF TypeOK, Compare, Goto
  <1>4. admitted' \in [Buckets -> Nat]
    BY <1>1 DEF TypeOK, Compare
  <1> QED  BY <1>3, <1>4 DEF TypeOK, Compare

LEMMA WriteFailureTyped ==
    ASSUME TypeOK, NEW r \in Requests, WriteFailure(r)
    PROVE  TypeOK'
  <1>1. request[r] \in Locals /\ request[r].pc = "write"
    BY DEF TypeOK, WriteFailure
  <1>2. request[r].seen \in 0 .. TransientThreshold
    BY <1>1, LocalsOf
  <1>3. \A c : Cooldown(c) \in Nat
    BY BreakerAssumption DEF Cooldown
  <1>4. breaker' \in [failures : 0 .. TransientThreshold, left : Nat]
    BY <1>2, <1>3, BreakerAssumption DEF TypeOK, WriteFailure
  <1>5. misses' \in Nat
    BY DEF TypeOK, WriteFailure
  <1>6. request' \in [Requests -> Locals]
    BY LocalsTyped DEF TypeOK, WriteFailure, Goto
  <1> QED  BY <1>4, <1>5, <1>6 DEF TypeOK, WriteFailure

LEMMA TickTyped ==
    ASSUME TypeOK, Tick
    PROVE  TypeOK'
  <1>1. Window \in Nat
    BY LimitsAssumption
  <1>2. /\ \A t \in Nat : Less(t) \in Nat
        /\ \A t \in 0 .. Window : Less(t) \in 0 .. Window
    BY <1>1 DEF Less
  <1>3. \A b \in Buckets : /\ [rate[b] EXCEPT !.left = Less(@)] \in [count : Nat, left : 0 .. Window]
                           /\ [rate[b] EXCEPT !.left = Less(@)].count = rate[b].count
    BY <1>2 DEF TypeOK
  <1>4. /\ rate' \in [Buckets -> [count : Nat, left : 0 .. Window]]
        /\ \A b \in Buckets : rate'[b].count <= LimitOf(b) + 1
    BY <1>3 DEF TypeOK, Tick
  <1>5. breaker' \in [failures : 0 .. TransientThreshold, left : Nat]
    BY <1>2 DEF TypeOK, Tick
  <1> QED  BY <1>4, <1>5 DEF TypeOK, Tick

\* Each step keeps the types.
LEMMA NextTyped == TypeOK /\ [Next]_vars => TypeOK'
  <1> SUFFICES ASSUME TypeOK, [Next]_vars PROVE TypeOK'
    OBVIOUS
  <1>1. CASE UNCHANGED vars
    BY <1>1 DEF vars, TypeOK
  <1>2. CASE Tick
    BY <1>2, TickTyped
  <1>3. ASSUME NEW r \in Requests, Step(r) PROVE TypeOK'
    <2>1. CASE Arrive(r)
      <3>1. \A u \in Users : OfUser(u) \in Buckets
        BY DEF Buckets
      <3>2. \A u \in Admins : OfTest(u) \in Buckets
        BY DEF Buckets
      <3>3. \E b \in Buckets, u \in Users \cup Admins :
                request' = [request EXCEPT ![r] = [pc |-> "count", bucket |-> b, user |-> u]]
        <4>1. CASE \E u \in Users : Goto(r, [pc |-> "count", bucket |-> OfUser(u), user |-> u])
          BY <3>1, <4>1, Zenon DEF Goto
        <4>2. CASE \E u \in Admins : Goto(r, [pc |-> "count", bucket |-> OfTest(u), user |-> u])
          BY <3>2, <4>2, ZenonT(30) DEF Goto
        <4> QED  BY <2>1, <4>1, <4>2 DEF Arrive
      <3>4. request' \in [Requests -> Locals]
        <4>1. PICK b \in Buckets, u \in Users \cup Admins :
                  request' = [request EXCEPT ![r] = [pc |-> "count", bucket |-> b, user |-> u]]
          BY <3>3
        <4>2. [pc |-> "count", bucket |-> b, user |-> u] \in Locals
          BY LocalsTyped
        <4> QED  BY <4>1, <4>2 DEF TypeOK
      <3> QED  BY <2>1, <3>4 DEF Arrive, TypeOK
    <2>2. CASE AssertClosed(r)
      <3>1. request' \in [Requests -> Locals]
        BY <2>2, LocalsTyped DEF AssertClosed, Goto, TypeOK
      <3> QED  BY <2>2, <3>1 DEF AssertClosed, TypeOK
    <2>3. CASE Call(r)
      <3>1. request' \in [Requests -> Locals]
        BY <2>3, AnsweredTyped DEF Call, Goto, TypeOK
      <3>2. knocks' \in Nat
        BY <2>3 DEF Call, TypeOK
      <3> QED  BY <2>3, <3>1, <3>2 DEF Call, TypeOK
    <2>4. CASE RecordSuccess(r)
      <3>1. request' \in [Requests -> Locals]
        BY <2>4, LocalsTyped DEF RecordSuccess, Goto, TypeOK
      <3>2. breaker' \in [failures : 0 .. TransientThreshold, left : Nat]
        BY <2>4, BreakerAssumption DEF RecordSuccess
      <3> QED  BY <2>4, <3>1, <3>2 DEF RecordSuccess, TypeOK
    <2>5. CASE ReadFailures(r)
      <3>1. request[r] \in Locals /\ request[r].config \in BOOLEAN
        BY <2>5, LocalsOf DEF ReadFailures, TypeOK
      <3>2. breaker.failures \in 0 .. TransientThreshold
        BY DEF TypeOK
      <3>3. request' \in [Requests -> Locals]
        BY <2>5, <3>1, <3>2, LocalsTyped DEF ReadFailures, Goto, TypeOK
      <3> QED  BY <2>5, <3>3 DEF ReadFailures, TypeOK
    <2>6. CASE Abandon(r)
      <3>1. request' \in [Requests -> Locals]
        BY <2>6, LocalsTyped DEF Abandon, Goto, TypeOK
      <3> QED  BY <2>6, <3>1 DEF Abandon, TypeOK
    <2> QED
      BY <1>3, <2>1, <2>2, <2>3, <2>4, <2>5, <2>6, CountTyped, CompareTyped, WriteFailureTyped
      DEF Step
  <1> QED  BY <1>1, <1>2, <1>3 DEF Next

\* The type invariant the runs check, for any requests, users, limits and
\* thresholds.
THEOREM TypeCorrect == Spec => []TypeOK
  BY InitTyped, NextTyped, PTL DEF Spec

-----------------------------------------------------------------------------
(* Sets of requests.                                                       *)

\* Sets of requests are finite, and smaller sets have fewer members.
LEMMA Counting ==
    /\ Cardinality(Requests) \in Nat \ {0} /\ Others \in Nat
    /\ \A S \in SUBSET Requests : Cardinality(S) \in 0 .. Cardinality(Requests)
    /\ \A S, T \in SUBSET Requests : S \subseteq T => Cardinality(S) <= Cardinality(T)
  <1>1. Cardinality(Requests) \in Nat \ {0}
    BY RequestsAssumption, FS_CardinalityType, FS_EmptySet
  <1>2. \A S \in SUBSET Requests : IsFiniteSet(S) /\ Cardinality(S) \in Nat
                                   /\ Cardinality(S) <= Cardinality(Requests)
    BY RequestsAssumption, FS_Subset, FS_CardinalityType
  <1>3. \A S, T \in SUBSET Requests : S \subseteq T => Cardinality(S) <= Cardinality(T)
    BY <1>2, FS_Subset
  <1>4. Others \in Nat
    BY <1>1 DEF Others
  <1>5. \A S \in SUBSET Requests : Cardinality(S) \in 0 .. Cardinality(Requests)
    BY <1>1, <1>2
  <1> QED  BY <1>1, <1>3, <1>4, <1>5

\* One request comes to a set.
LEMMA OneIn ==
    ASSUME NEW S \in SUBSET Requests, NEW r \in Requests, NEW T, T \subseteq S \cup {r}
    PROVE  Cardinality(T) <= Cardinality(S) + 1
  <1>1. IsFiniteSet(S) /\ Cardinality(S) \in Nat
    BY RequestsAssumption, FS_Subset, FS_CardinalityType
  <1>2. Cardinality(S \cup {r}) <= Cardinality(S) + 1 /\ Cardinality(S \cup {r}) \in Nat
    <2>1. Cardinality(S \cup {r}) = IF r \in S THEN Cardinality(S) ELSE Cardinality(S) + 1
      BY <1>1, FS_AddElement
    <2> QED  BY <1>1, <2>1
  <1>3. Cardinality(T) <= Cardinality(S \cup {r}) /\ Cardinality(T) \in Nat
    BY Counting
  <1> QED  BY <1>1, <1>2, <1>3

\* One request leaves a set.
LEMMA OneOut ==
    ASSUME NEW S \in SUBSET Requests, NEW r \in S, NEW T, T \subseteq S \ {r}
    PROVE  Cardinality(T) + 1 <= Cardinality(S)
  <1>1. IsFiniteSet(S) /\ Cardinality(S) \in Nat
    BY RequestsAssumption, FS_Subset, FS_CardinalityType
  <1>2. Cardinality(S \ {r}) = Cardinality(S) - 1
    BY <1>1, FS_RemoveElement
  <1>3. Cardinality(T) <= Cardinality(S \ {r}) /\ Cardinality(T) \in Nat
    BY Counting
  <1> QED  BY <1>1, <1>2, <1>3

-----------------------------------------------------------------------------
(* The limits.                                                             *)

\* Requests that are counted and not yet compared.
Comparing(b) == {r \in Requests : request[r].pc = "compare" /\ request[r].bucket = b}

\* Up to the limit, whoever is through or may still get through has been counted
\* in this window or was counted in an earlier one and is none of the request
\* that opened this one; above the limit nobody gets through.
BucketInv(b) ==
    IF rate[b].count <= LimitOf(b)
    THEN admitted[b] + Cardinality(Comparing(b)) <= rate[b].count + Others
    ELSE admitted[b] <= LimitOf(b) + Others

LimitInv == \A b \in Buckets : BucketInv(b)

\* A bucket whose count and history stand, and that nobody is newly counted in.
LEMMA BucketStands ==
    ASSUME TypeOK, NEW b \in Buckets, BucketInv(b),
           rate'[b].count = rate[b].count, admitted'[b] = admitted[b],
           Comparing(b)' \subseteq Comparing(b)
    PROVE  BucketInv(b)'
  <1>1. Cardinality(Comparing(b)') <= Cardinality(Comparing(b))
        /\ Cardinality(Comparing(b)') \in Nat /\ Cardinality(Comparing(b)) \in Nat
    BY Counting DEF Comparing
  <1>2. rate[b].count \in Nat /\ admitted[b] \in Nat /\ LimitOf(b) \in Nat /\ Others \in Nat
    BY LimitTyped, Counting DEF TypeOK
  <1>3. LimitOf(b)' = LimitOf(b) /\ Others' = Others
    BY DEF LimitOf, Others
  <1> HIDE DEF TypeOK
  <1> QED  BY <1>1, <1>2, <1>3 DEF BucketInv

\* Counting one more request.
LEMMA CountKeepsLimit ==
    ASSUME TypeOK, LimitInv, NEW r \in Requests, Count(r)
    PROVE  LimitInv'
  <1>1. request[r].pc = "count" /\ request[r].bucket \in Buckets
    BY LocalsOf DEF TypeOK, Count
  <1>b. PICK b \in Buckets : request[r].bucket = b
    BY <1>1
  <1>2. /\ \A q \in Requests : q # r => request'[q] = request[q]
        /\ request'[r].pc = "compare" /\ request'[r].bucket = b
    <2>1. request[r] \in [pc : {"count", "compare"}, bucket : Buckets, user : Users \cup Admins]
      BY <1>1, <1>b DEF TypeOK, Locals, Idle
    <2>2. request' = [request EXCEPT ![r] = [request[r] EXCEPT !.pc = "compare"]]
      BY DEF Count, Goto
    <2> QED  BY <2>1, <2>2, <1>b DEF TypeOK
  <1>3. ASSUME NEW c \in Buckets, c # b PROVE BucketInv(c)'
    <2>1. rate'[c].count = rate[c].count /\ admitted'[c] = admitted[c]
      BY <1>1, <1>b, <1>3 DEF TypeOK, Count
    <2>2. Comparing(c)' \subseteq Comparing(c)
      BY <1>2, <1>3, <1>b DEF Comparing
    <2> QED  BY <2>1, <2>2, BucketStands DEF LimitInv
  <1>4. BucketInv(b)'
    <2>1. rate'[b] = Counted(b, rate[b])
      BY <1>1, <1>b DEF TypeOK, Count
    <2>2. /\ Comparing(b) \in SUBSET Requests
          /\ Comparing(b)' \in SUBSET Requests
          /\ Comparing(b)' \subseteq Comparing(b) \cup {r}
      BY <1>2, <1>b DEF Comparing
    <2>3. /\ Cardinality(Comparing(b)') <= Cardinality(Comparing(b)) + 1
          /\ Cardinality(Comparing(b)') \in 0 .. Cardinality(Requests)
          /\ Cardinality(Comparing(b)) \in Nat
      BY <2>2, OneIn, Counting
    <2>4. /\ rate[b] \in [count : Nat, left : 0 .. Window] /\ admitted[b] \in Nat
          /\ rate[b].count <= LimitOf(b) + 1
      BY <1>1, <1>b DEF TypeOK
    <2>5. LimitOf(b) \in Nat \ {0} /\ Others = Cardinality(Requests) - 1 /\ Others \in Nat
          /\ Cardinality(Requests) \in Nat
      BY LimitTyped, Counting DEF Others
    <2>6. LimitOf(b)' = LimitOf(b) /\ Others' = Others
      BY DEF LimitOf, Others
    <2>7. CASE rate[b].left = 0
      <3>1. rate'[b].count = 1 /\ admitted'[b] = 0
        BY <1>1, <1>b, <2>1, <2>7 DEF Counted, Count, TypeOK
      <3> QED  BY <2>3, <2>5, <2>6, <3>1 DEF BucketInv
    <2>8. CASE rate[b].left # 0
      <3>1. admitted'[b] = admitted[b]
        BY <1>b, <2>8 DEF Count
      <3>2. rate'[b].count = IF rate[b].count > LimitOf(b) THEN rate[b].count ELSE rate[b].count + 1
        BY <2>1, <2>4, <2>8 DEF Counted
      <3>3. BucketInv(b)
        BY <1>1, <1>b DEF LimitInv
      <3> QED  BY <2>3, <2>4, <2>5, <2>6, <3>1, <3>2, <3>3 DEF BucketInv
    <2> QED  BY <2>7, <2>8
  <1> QED  BY <1>3, <1>4 DEF LimitInv

\* Letting through or refusing one that was counted.
LEMMA CompareKeepsLimit ==
    ASSUME TypeOK, LimitInv, NEW r \in Requests, Compare(r)
    PROVE  LimitInv'
  <1>1. request[r].pc = "compare" /\ request[r].bucket \in Buckets
    BY LocalsOf DEF TypeOK, Compare
  <1>2. PICK b \in Buckets : request[r].bucket = b
    BY <1>1
  <1>3. \A q \in Requests : q # r => request'[q] = request[q]
    BY DEF TypeOK, Compare, Goto
  <1>4. request'[r].pc # "compare"
    <2>1. request[r] \in [pc : {"count", "compare"}, bucket : Buckets, user : Users \cup Admins]
      BY <1>1 DEF TypeOK, Locals, Idle
    <2>2. Admitted(r).pc # "compare"
      BY <2>1 DEF Admitted
    <2>3. request'[r] \in {Idle, Admitted(r)}
      BY DEF TypeOK, Compare, Goto
    <2> QED  BY <2>2, <2>3 DEF Idle
  <1>5. \A c \in Buckets : Comparing(c)' \subseteq Comparing(c)
    BY <1>3, <1>4 DEF Comparing
  <1>6. \A c \in Buckets : rate'[c].count = rate[c].count
    BY DEF Compare
  <1>7. CASE admitted' = admitted
    BY <1>5, <1>6, <1>7, BucketStands DEF LimitInv
  <1>8. CASE /\ rate[b].count <= LimitOf(b)
             /\ admitted' = [admitted EXCEPT ![b] = @ + 1]
    <2>1. ASSUME NEW c \in Buckets, c # b PROVE BucketInv(c)'
      <3>1. admitted'[c] = admitted[c]
        BY <1>8, <2>1 DEF TypeOK
      <3> QED  BY <1>5, <1>6, <3>1, BucketStands DEF LimitInv
    <2>2. BucketInv(b)'
      <3>1. /\ Comparing(b) \in SUBSET Requests /\ Comparing(b)' \in SUBSET Requests
            /\ r \in Comparing(b) /\ Comparing(b)' \subseteq Comparing(b) \ {r}
        BY <1>1, <1>2, <1>4, <1>5 DEF Comparing
      <3>2. /\ Cardinality(Comparing(b)') + 1 <= Cardinality(Comparing(b))
            /\ Cardinality(Comparing(b)') \in Nat /\ Cardinality(Comparing(b)) \in Nat
        BY <3>1, OneOut, Counting
      <3>3. admitted'[b] = admitted[b] + 1 /\ admitted[b] \in Nat
        BY <1>8 DEF TypeOK
      <3>4. BucketInv(b)
        BY DEF LimitInv
      <3>5. rate[b].count \in Nat /\ LimitOf(b) \in Nat /\ Others \in Nat
        BY LimitTyped, Counting DEF TypeOK
      <3>6. LimitOf(b)' = LimitOf(b) /\ Others' = Others
        BY DEF LimitOf, Others
      <3> QED  BY <1>6, <1>8, <3>2, <3>3, <3>4, <3>5, <3>6 DEF BucketInv
    <2> QED  BY <2>1, <2>2 DEF LimitInv
  <1>9. \/ admitted' = admitted
        \/ /\ rate[b].count <= LimitOf(b)
           /\ admitted' = [admitted EXCEPT ![b] = @ + 1]
    <2>1. rate[b].count \in Nat /\ LimitOf(b) \in Nat
      BY LimitTyped DEF TypeOK
    <2> QED  BY <1>2, <2>1 DEF Compare
  <1> QED  BY <1>7, <1>8, <1>9

\* A step that leaves the limiter's counts and histories, and puts at most one
\* request somewhere other than between counting and comparing.
LEMMA ElsewhereKeepsLimit ==
    ASSUME TypeOK, LimitInv, UNCHANGED <<rate, admitted>>,
           NEW r, \A q \in Requests : q # r => request'[q] = request[q],
           r \in Requests => request'[r].pc # "compare" \/ request'[r] = request[r]
    PROVE  LimitInv'
  <1>1. \A b \in Buckets : Comparing(b)' \subseteq Comparing(b)
    BY DEF Comparing
  <1>2. \A b \in Buckets : rate'[b].count = rate[b].count /\ admitted'[b] = admitted[b]
    OBVIOUS
  <1> QED  BY <1>1, <1>2, BucketStands DEF LimitInv

\* Where a step outside the limiter leaves its request.
LEMMA OutsideLimiter ==
    ASSUME TypeOK, NEW r \in Requests,
           Arrive(r) \/ AssertClosed(r) \/ Call(r) \/ RecordSuccess(r) \/ ReadFailures(r)
               \/ WriteFailure(r) \/ Abandon(r)
    PROVE  /\ \A q \in Requests : q # r => request'[q] = request[q]
           /\ request'[r].pc # "compare"
           /\ UNCHANGED <<rate, admitted>>
  <1>1. \A new : Goto(r, new) => /\ \A q \in Requests : q # r => request'[q] = request[q]
                                /\ request'[r] = new
    BY DEF TypeOK, Goto
  <1>2. CASE Arrive(r)
    <2>1. PICK b, u : Goto(r, [pc |-> "count", bucket |-> b, user |-> u])
      BY <1>2, Zenon DEF Arrive
    <2> QED  BY <1>1, <1>2, <2>1 DEF Arrive
  <1>3. CASE AssertClosed(r)
    BY <1>1, <1>3 DEF AssertClosed, Idle
  <1>4. CASE Call(r)
    <2>1. \A answer, test : Answered(answer, test).pc # "compare"
      BY DEF Answered, Idle
    <2> QED  BY <1>1, <1>4, <2>1 DEF Call
  <1>5. CASE RecordSuccess(r)
    BY <1>1, <1>5 DEF RecordSuccess, Idle
  <1>6. CASE ReadFailures(r)
    BY <1>1, <1>6 DEF ReadFailures
  <1>7. CASE WriteFailure(r)
    BY <1>1, <1>7 DEF WriteFailure, Idle
  <1>8. CASE Abandon(r)
    BY <1>1, <1>8 DEF Abandon, Idle
  <1> QED  BY <1>2, <1>3, <1>4, <1>5, <1>6, <1>7, <1>8

LEMMA NextKeepsLimit == TypeOK /\ LimitInv /\ [Next]_vars => LimitInv'
  <1> SUFFICES ASSUME TypeOK, LimitInv, [Next]_vars PROVE LimitInv'
    OBVIOUS
  <1>1. CASE UNCHANGED vars
    BY <1>1, ElsewhereKeepsLimit DEF vars
  <1>2. CASE Tick
    <2>1. \A b \in Buckets : rate'[b].count = rate[b].count
      <3>1. \A b \in Buckets : rate'[b] = [rate[b] EXCEPT !.left = Less(@)]
        BY <1>2 DEF Tick
      <3> QED  BY <3>1 DEF TypeOK
    <2>2. \A b \in Buckets : Comparing(b)' \subseteq Comparing(b) /\ admitted'[b] = admitted[b]
      BY <1>2 DEF Tick, Comparing
    <2> QED  BY <2>1, <2>2, BucketStands DEF LimitInv
  <1>3. ASSUME NEW r \in Requests, Step(r) PROVE LimitInv'
    BY <1>3, CountKeepsLimit, CompareKeepsLimit, OutsideLimiter, ElsewhereKeepsLimit DEF Step
  <1> QED  BY <1>1, <1>2, <1>3 DEF Next

\* A window lets through its limit and at most the other requests in flight,
\* which were counted before it opened: for any number of requests, and however
\* increments and comparisons interleave.
THEOREM LimitHolds == Spec => []LimitKept
  <1>1. Init => LimitInv
    <2> SUFFICES ASSUME Init, NEW b \in Buckets PROVE BucketInv(b)
      BY DEF LimitInv
    <2>1. rate[b].count = 0 /\ admitted[b] = 0 /\ Comparing(b) = {}
      BY DEF Init, Comparing, Idle
    <2> QED  BY <2>1, FS_EmptySet, LimitTyped, Counting DEF BucketInv
  <1>2. TypeOK /\ LimitInv => LimitKept
    <2> SUFFICES ASSUME TypeOK, LimitInv, NEW b \in Buckets
                 PROVE  admitted[b] <= LimitOf(b) + Others
      BY DEF LimitKept
    <2>1. Cardinality(Comparing(b)) \in Nat /\ Others \in Nat /\ LimitOf(b) \in Nat
      BY Counting, LimitTyped DEF Comparing
    <2>2. rate[b].count \in Nat /\ admitted[b] \in Nat /\ BucketInv(b)
      BY DEF TypeOK, LimitInv
    <2> QED  BY <2>1, <2>2 DEF BucketInv
  <1>3. Spec => [](TypeOK /\ LimitInv)
    BY <1>1, InitTyped, NextTyped, NextKeepsLimit, PTL DEF Spec
  <1> QED  BY <1>2, <1>3, PTL

-----------------------------------------------------------------------------
(* The share of one user.                                                  *)

\* Requests of u that are past its own limit and on their way to the global one.
Reaching(u) ==
    {r \in Requests : request[r].pc = "count" /\ request[r].bucket = Global /\ request[r].user = u}

\* What may still be counted in the global window of what u's own limit has counted.
Flow(u) == Comparing(OfUser(u)) \cup Reaching(u)

Owned ==
    \A r \in Requests, u \in Users :
        request[r].pc \in {"count", "compare"} /\ request[r].bucket = OfUser(u) => request[r].user = u

\* With c counted in the window of a user: the s that the global window has of it and the f
\* still to come, or the p of them that are past the user's limit, have room.
Room(c, s, f, p, more) ==
    IF c <= UserLimit THEN s + f <= c + Others + more ELSE s + p <= UserLimit + Others + more

\* The window of the user was there before the global one; it is the second of its windows
\* that the global one has met, and lasts as long at least; or the global one is over.
Stage(c, s, f, p, lu, lg) ==
    /\ c = 0 => s = 0 /\ f = 0
    /\ \/ Room(c, s, f, p, 0)
       \/ Room(c, s, f, p, UserLimit + Others) /\ lg <= lu
       \/ s <= 2 * (UserLimit + Others) /\ lg = 0

StageOf(u) ==
    Stage(rate[OfUser(u)].count, spent[u], Cardinality(Flow(u)), Cardinality(Reaching(u)),
          rate[OfUser(u)].left, rate[Global].left)

ShareInv == Owned /\ \A u \in Users : StageOf(u)

LEMMA Bounds == UserLimit \in Nat \ {0} /\ Window \in Nat \ {0} /\ Others \in Nat
  BY LimitsAssumption, Counting

\* One more is counted in the global window, that goes on.
LEMMA StagePass ==
    ASSUME NEW c \in Nat, NEW s \in Nat, NEW f \in Nat, NEW p \in Nat, NEW lu \in Nat, NEW lg \in Nat \ {0},
           NEW f2 \in Nat, NEW p2 \in Nat, Stage(c, s, f, p, lu, lg), f2 + 1 <= f, p2 + 1 <= p
    PROVE  Stage(c, s + 1, f2, p2, lu, lg)
  BY Bounds DEF Stage, Room

\* The global window starts over.
LEMMA StageReset ==
    ASSUME NEW c \in Nat, NEW s \in Nat, NEW f \in Nat, NEW p \in Nat, NEW lu \in Nat, NEW lg \in Nat,
           s + f <= Others + 1, p <= f, c = 0 => s = 0 /\ f = 0
    PROVE  Stage(c, s, f, p, lu, lg)
  BY Bounds DEF Stage, Room

\* One more is counted in the window of the user, that goes on.
LEMMA StageCounted ==
    ASSUME NEW c \in Nat, NEW s \in Nat, NEW f \in Nat, NEW p \in Nat, NEW lu \in Nat, NEW lg \in Nat,
           NEW f2 \in Nat, NEW p2 \in Nat, Stage(c, s, f, p, lu, lg), f2 <= f + 1, p2 <= p, p <= f,
           NEW c2 \in Nat, c2 = IF c > UserLimit THEN c ELSE c + 1
    PROVE  Stage(c2, s, f2, p2, lu, lg)
  BY Bounds DEF Stage, Room

\* The window of the user starts over.
LEMMA StageOpened ==
    ASSUME NEW c \in Nat, NEW s \in Nat, NEW f \in Nat, NEW p \in Nat, NEW lg \in 0 .. Window,
           NEW f2 \in Nat, NEW p2 \in Nat, Stage(c, s, f, p, 0, lg), f2 <= f + 1, f2 <= Others + 1,
           p2 <= p, p <= f, c <= UserLimit + 1
    PROVE  Stage(1, s, f2, p2, Window, lg)
  BY Bounds DEF Stage, Room

LEMMA StageShare ==
    ASSUME NEW c \in Nat, NEW s \in Nat, NEW f \in Nat, NEW p \in Nat, NEW lu \in Nat, NEW lg \in Nat,
           Stage(c, s, f, p, lu, lg)
    PROVE  s <= 2 * (UserLimit + Others)
  BY Bounds DEF Stage, Room

\* The numbers of a user.
LEMMA UserNumbers ==
    ASSUME TypeOK, NEW u \in Users
    PROVE  /\ OfUser(u) \in Buckets /\ Global \in Buckets /\ OfUser(u) # Global /\ LimitOf(OfUser(u)) = UserLimit
           /\ rate[OfUser(u)].count \in Nat /\ rate[OfUser(u)].count <= UserLimit + 1
           /\ rate[OfUser(u)].left \in 0 .. Window /\ rate[Global].left \in 0 .. Window
           /\ rate[OfUser(u)].left \in Nat /\ rate[Global].left \in Nat
           /\ spent[u] \in Nat
  <1>1. OfUser(u) \in Buckets /\ Global \in Buckets
    BY DEF Buckets
  <1>2. OfUser(u)[1] = "u" /\ Global[1] = "global"
    BY DEF OfUser, Global
  <1>3. LimitOf(OfUser(u)) = UserLimit
    BY <1>2 DEF LimitOf
  <1>4. \A b \in Buckets : rate[b].count \in Nat /\ rate[b].left \in 0 .. Window /\ rate[b].count <= LimitOf(b) + 1
    BY DEF TypeOK
  <1> QED  BY <1>1, <1>2, <1>3, <1>4, Bounds DEF TypeOK

LEMMA FlowNumbers ==
    \A u : /\ Flow(u) \in SUBSET Requests /\ Reaching(u) \in SUBSET Requests
           /\ Cardinality(Flow(u)) \in Nat /\ Cardinality(Reaching(u)) \in Nat
           /\ Cardinality(Reaching(u)) <= Cardinality(Flow(u)) /\ Cardinality(Flow(u)) <= Others + 1
  <1> TAKE u
  <1>1. Flow(u) \in SUBSET Requests /\ Reaching(u) \in SUBSET Requests /\ Reaching(u) \subseteq Flow(u)
    BY DEF Flow, Reaching, Comparing
  <1>2. Others + 1 = Cardinality(Requests)
    BY Counting DEF Others
  <1> QED  BY <1>1, <1>2, Counting

\* A step that takes no request nearer to the global limit.
LEMMA FlowLess ==
    ASSUME NEW u, Flow(u)' \subseteq Flow(u), Reaching(u)' \subseteq Reaching(u)
    PROVE  /\ Cardinality(Flow(u))' <= Cardinality(Flow(u))
           /\ Cardinality(Reaching(u))' <= Cardinality(Reaching(u))
           /\ Cardinality(Flow(u))' \in Nat /\ Cardinality(Reaching(u))' \in Nat
  <1>1. Flow(u)' \in SUBSET Requests /\ Reaching(u)' \in SUBSET Requests
    BY DEF Flow, Reaching, Comparing
  <1> QED  BY <1>1, FlowNumbers, Counting

LEMMA ShareAside ==
    ASSUME TypeOK, TypeOK', ShareInv, Owned', UNCHANGED spent,
           \A u \in Users : Flow(u)' \subseteq Flow(u) /\ Reaching(u)' \subseteq Reaching(u),
           \A u \in Users : rate'[OfUser(u)].count = rate[OfUser(u)].count,
           \A u \in Users : rate[Global].left <= rate[OfUser(u)].left => rate'[Global].left <= rate'[OfUser(u)].left,
           rate[Global].left = 0 => rate'[Global].left = 0
    PROVE  ShareInv'
  <1> SUFFICES ASSUME NEW u \in Users PROVE StageOf(u)'
    BY DEF ShareInv
  <1>1. StageOf(u)
    BY DEF ShareInv
  <1>2. rate'[OfUser(u)].left \in Nat /\ rate'[Global].left \in Nat
    <2>1. \A b \in Buckets : rate'[b].left \in 0 .. Window
      BY DEF TypeOK
    <2> QED  BY <2>1, Bounds, UserNumbers
  <1>3. /\ rate'[OfUser(u)].count = rate[OfUser(u)].count /\ spent'[u] = spent[u]
        /\ rate[Global].left <= rate[OfUser(u)].left => rate'[Global].left <= rate'[OfUser(u)].left
        /\ rate[Global].left = 0 => rate'[Global].left = 0
    OBVIOUS
  <1>4. /\ Cardinality(Flow(u))' <= Cardinality(Flow(u))
        /\ Cardinality(Reaching(u))' <= Cardinality(Reaching(u))
        /\ Cardinality(Flow(u))' \in Nat /\ Cardinality(Reaching(u))' \in Nat
    BY FlowLess
  <1>5. Stage(rate[OfUser(u)].count, spent[u], Cardinality(Flow(u))', Cardinality(Reaching(u))',
              rate'[OfUser(u)].left, rate'[Global].left)
    BY <1>1, <1>2, <1>3, <1>4, UserNumbers, FlowNumbers, Bounds DEF StageOf, Stage, Room
  <1> QED  BY <1>3, <1>5 DEF StageOf

\* Where a step outside the limiter leaves its request, once more.
LEMMA OutsideShare ==
    ASSUME TypeOK, NEW r \in Requests,
           Arrive(r) \/ AssertClosed(r) \/ Call(r) \/ RecordSuccess(r) \/ ReadFailures(r)
               \/ WriteFailure(r) \/ Abandon(r)
    PROVE  /\ request'[r].pc = "count" =>
                  /\ request'[r].bucket # Global
                  /\ \A u \in Users : request'[r].bucket = OfUser(u) => request'[r].user = u
           /\ UNCHANGED spent
  <1>1. \A new : Goto(r, new) => request'[r] = new
    BY DEF TypeOK, Goto
  <1>2. CASE Arrive(r)
    <2>1. PICK u : \/ Goto(r, [pc |-> "count", bucket |-> OfUser(u), user |-> u])
                   \/ Goto(r, [pc |-> "count", bucket |-> OfTest(u), user |-> u])
      BY <1>2 DEF Arrive
    <2>2. request'[r].bucket \in {OfUser(u), OfTest(u)} /\ request'[r].user = u
      BY <1>1, <2>1
    <2>3. OfUser(u) # Global /\ OfTest(u) # Global /\ \A v : OfTest(u) # OfUser(v) /\ (OfUser(u) = OfUser(v) => u = v)
      BY DEF OfUser, OfTest, Global
    <2> QED  BY <1>2, <2>2, <2>3 DEF Arrive
  <1>3. CASE AssertClosed(r)
    BY <1>1, <1>3 DEF AssertClosed, Idle
  <1>4. CASE Call(r)
    <2>1. \A answer, test : Answered(answer, test).pc # "count"
      BY DEF Answered, Idle
    <2> QED  BY <1>1, <1>4, <2>1 DEF Call
  <1>5. CASE RecordSuccess(r) \/ ReadFailures(r) \/ WriteFailure(r) \/ Abandon(r)
    BY <1>1, <1>5 DEF RecordSuccess, ReadFailures, WriteFailure, Abandon, Idle
  <1> QED  BY <1>2, <1>3, <1>4, <1>5

LEMMA ShareOutside ==
    ASSUME TypeOK, TypeOK', ShareInv, NEW r \in Requests,
           Arrive(r) \/ AssertClosed(r) \/ Call(r) \/ RecordSuccess(r) \/ ReadFailures(r)
               \/ WriteFailure(r) \/ Abandon(r)
    PROVE  ShareInv'
  <1>1. /\ \A q \in Requests : q # r => request'[q] = request[q]
        /\ request'[r].pc # "compare" /\ UNCHANGED rate
    BY OutsideLimiter
  <1>2. /\ request'[r].pc = "count" =>
               /\ request'[r].bucket # Global
               /\ \A u \in Users : request'[r].bucket = OfUser(u) => request'[r].user = u
        /\ UNCHANGED spent
    BY OutsideShare
  <1>3. Owned'
    BY <1>1, <1>2 DEF ShareInv, Owned
  <1>4. \A u \in Users : Flow(u)' \subseteq Flow(u) /\ Reaching(u)' \subseteq Reaching(u)
    BY <1>1, <1>2 DEF Flow, Reaching, Comparing
  <1> QED  BY <1>1, <1>2, <1>3, <1>4, ShareAside

LEMMA ShareTick ==
    ASSUME TypeOK, TypeOK', ShareInv, Tick
    PROVE  ShareInv'
  <1>1. UNCHANGED <<request, spent>>
    BY DEF Tick
  <1>2. Owned' /\ \A u \in Users : Flow(u)' \subseteq Flow(u) /\ Reaching(u)' \subseteq Reaching(u)
    BY <1>1 DEF ShareInv, Owned, Flow, Reaching, Comparing
  <1>3. \A b \in Buckets : rate'[b].count = rate[b].count /\ rate'[b].left = Less(rate[b].left)
    <2>1. \A b \in Buckets : rate'[b] = [rate[b] EXCEPT !.left = Less(@)]
      BY DEF Tick
    <2> QED  BY <2>1 DEF TypeOK
  <1>4. \A m \in 0 .. Window, n \in 0 .. Window : m <= n => Less(m) <= Less(n)
    BY Bounds DEF Less
  <1>5. Less(0) = 0
    BY DEF Less
  <1>6. \A u \in Users : /\ rate'[OfUser(u)].count = rate[OfUser(u)].count
                         /\ rate[Global].left <= rate[OfUser(u)].left => rate'[Global].left <= rate'[OfUser(u)].left
                         /\ rate[Global].left = 0 => rate'[Global].left = 0
    BY <1>3, <1>4, <1>5, UserNumbers
  <1>7. rate[Global].left = 0 => rate'[Global].left = 0
    BY <1>3, <1>5 DEF Buckets
  <1> QED  BY <1>1, <1>2, <1>6, <1>7, ShareAside

\* Where the limiter leaves a request.
LEMMA LimiterMoves ==
    ASSUME TypeOK, NEW r \in Requests, request[r].pc \in {"count", "compare"}
    PROVE  /\ Count(r) => /\ \A q \in Requests : q # r => request'[q] = request[q]
                          /\ request'[r].pc = "compare" /\ request'[r].bucket = request[r].bucket
                          /\ request'[r].user = request[r].user
           /\ Compare(r) => /\ \A q \in Requests : q # r => request'[q] = request[q]
                            /\ request'[r] \in {Idle, Admitted(r)}
           /\ Admitted(r).pc # "compare"
           /\ Admitted(r).pc = "count" =>
                  request[r].bucket[1] = "u" /\ Admitted(r).bucket = Global /\ Admitted(r).user = request[r].user
           /\ request[r].bucket \in Buckets
  <1>1. request[r] \in [pc : {"count", "compare"}, bucket : Buckets, user : Users \cup Admins]
    BY DEF TypeOK, Locals, Idle
  <1>2. Count(r) => request' = [request EXCEPT ![r] = [request[r] EXCEPT !.pc = "compare"]]
    BY DEF Count, Goto
  <1>3. Compare(r) => request' = [request EXCEPT ![r] = Idle] \/ request' = [request EXCEPT ![r] = Admitted(r)]
    BY DEF Compare, Goto
  <1>4. CASE request[r].bucket[1] = "u"
    <2>1. Admitted(r) = [request[r] EXCEPT !.pc = "count", !.bucket = Global]
      BY <1>4 DEF Admitted
    <2> QED  BY <1>1, <1>2, <1>3, <1>4, <2>1 DEF TypeOK
  <1>5. CASE request[r].bucket[1] # "u"
    <2>1. Admitted(r).pc \in {"call", "check"}
      BY <1>5 DEF Admitted
    <2> QED  BY <1>1, <1>2, <1>3, <2>1 DEF TypeOK
  <1> QED  BY <1>4, <1>5

\* A bucket that is not a user's, or is.
LEMMA BucketOfUser ==
    ASSUME NEW b \in Buckets
    PROVE  /\ b[1] = "u" => \E u \in Users : b = OfUser(u)
           /\ \A u : b = OfUser(u) => b[1] = "u"
           /\ \A u, v : OfUser(u) = OfUser(v) => u = v
           /\ Global[1] # "u"
  BY DEF Buckets, OfUser, OfTest, Global

LEMMA ShareCompare ==
    ASSUME TypeOK, TypeOK', ShareInv, NEW r \in Requests, Compare(r)
    PROVE  ShareInv'
  <1>1. request[r].pc = "compare" /\ UNCHANGED <<rate, spent>>
    BY DEF Compare
  <1>2. /\ \A q \in Requests : q # r => request'[q] = request[q]
        /\ request'[r].pc # "compare"
        /\ request'[r].pc = "count" =>
               request[r].bucket[1] = "u" /\ request'[r].bucket = Global /\ request'[r].user = request[r].user
        /\ request[r].bucket \in Buckets
    BY <1>1, LimiterMoves DEF Idle
  <1>3. Owned'
    BY <1>2, BucketOfUser, UserNumbers DEF ShareInv, Owned
  <1> SUFFICES ASSUME NEW u \in Users PROVE StageOf(u)'
    BY <1>3 DEF ShareInv
  <1>4. StageOf(u) /\ (request[r].bucket = OfUser(u) => request[r].user = u)
    BY <1>1 DEF ShareInv, Owned
  <1>5. request'[r].pc = "count" /\ request'[r].user = u => request[r].bucket = OfUser(u)
    <2> SUFFICES ASSUME request'[r].pc = "count", request'[r].user = u
                 PROVE  request[r].bucket = OfUser(u)
      OBVIOUS
    <2>1. PICK v \in Users : request[r].bucket = OfUser(v)
      BY <1>2, BucketOfUser
    <2>2. request[r].user = v
      BY <1>1, <2>1 DEF ShareInv, Owned
    <2> QED  BY <1>2, <2>1, <2>2
  <1>6. Flow(u)' \subseteq Flow(u)
    BY <1>1, <1>2, <1>5 DEF Flow, Reaching, Comparing
  <1>7. rate[OfUser(u)].count <= UserLimit \/ Reaching(u)' \subseteq Reaching(u)
    <2>1. CASE request'[r].pc = "count" /\ request'[r].user = u /\ ~(rate[OfUser(u)].count <= UserLimit)
      <3>1. rate[request[r].bucket].count > LimitOf(request[r].bucket)
        BY <1>5, <2>1, UserNumbers, Bounds
      <3>2. request'[r] = Idle
        BY <3>1 DEF Compare, Goto, TypeOK
      <3> QED  BY <2>1, <3>2 DEF Idle
    <2>2. CASE ~(request'[r].pc = "count" /\ request'[r].user = u)
      BY <1>2, <2>2 DEF Reaching
    <2> QED  BY <2>1, <2>2
  <1>8. /\ Cardinality(Flow(u))' \in Nat /\ Cardinality(Reaching(u))' \in Nat
        /\ Cardinality(Flow(u))' <= Cardinality(Flow(u))
        /\ rate[OfUser(u)].count <= UserLimit \/ Cardinality(Reaching(u))' <= Cardinality(Reaching(u))
    <2>1. Flow(u)' \in SUBSET Requests /\ Reaching(u)' \in SUBSET Requests
      BY DEF Flow, Reaching, Comparing
    <2> QED  BY <1>6, <1>7, <2>1, FlowNumbers, Counting
  <1>9. Stage(rate[OfUser(u)].count, spent[u], Cardinality(Flow(u))', Cardinality(Reaching(u))',
              rate[OfUser(u)].left, rate[Global].left)
    BY <1>4, <1>8, UserNumbers, FlowNumbers, Bounds DEF StageOf, Stage, Room
  <1> QED  BY <1>1, <1>9 DEF StageOf

LEMMA ShareCount ==
    ASSUME TypeOK, TypeOK', ShareInv, NEW r \in Requests, Count(r)
    PROVE  ShareInv'
  <1>1. request[r].pc = "count"
    BY DEF Count
  <1>2. /\ \A q \in Requests : q # r => request'[q] = request[q]
        /\ request'[r].pc = "compare" /\ request'[r].bucket = request[r].bucket
        /\ request'[r].user = request[r].user /\ request[r].bucket \in Buckets
    BY <1>1, LimiterMoves
  <1>3. Owned'
    BY <1>1, <1>2 DEF ShareInv, Owned
  <1>b. PICK b \in Buckets : request[r].bucket = b
    BY <1>2
  <1>4. rate' = [rate EXCEPT ![b] = Counted(b, @)]
    BY <1>b DEF Count
  <1>5. \A c \in Buckets : c # b => rate'[c] = rate[c]
    BY <1>4 DEF TypeOK
  <1>6. rate'[b] = Counted(b, rate[b]) /\ rate[b] \in [count : Nat, left : 0 .. Window]
    BY <1>4 DEF TypeOK
  <1>7. \A u \in Users : /\ Reaching(u)' \subseteq Reaching(u) \ {r}
                         /\ Flow(u)' \subseteq Flow(u) \cup {r}
                         /\ b # OfUser(u) => Flow(u)' \subseteq Flow(u) \ {r}
    BY <1>2, <1>b DEF Flow, Reaching, Comparing
  <1> SUFFICES ASSUME NEW u \in Users PROVE StageOf(u)'
    BY <1>3 DEF ShareInv
  <1> DEFINE c == rate[OfUser(u)].count
             f == Cardinality(Flow(u))
             p == Cardinality(Reaching(u))
             f2 == Cardinality(Flow(u))'
             p2 == Cardinality(Reaching(u))'
  <1>8. Stage(c, spent[u], f, p, rate[OfUser(u)].left, rate[Global].left)
    BY DEF ShareInv, StageOf
  <1>9. f \in Nat /\ p \in Nat /\ f2 \in Nat /\ p2 \in Nat /\ p2 <= p /\ p <= f /\ p2 <= f2
        /\ f <= Others + 1 /\ f2 <= Others + 1 /\ f2 <= f + 1 /\ (b # OfUser(u) => f2 <= f)
    <2>1. /\ Flow(u) \in SUBSET Requests /\ Reaching(u) \in SUBSET Requests
          /\ f \in Nat /\ p \in Nat /\ p <= f /\ f <= Others + 1
      BY FlowNumbers
    <2>2. /\ Flow(u)' \in SUBSET Requests /\ Reaching(u)' \in SUBSET Requests /\ Reaching(u)' \subseteq Flow(u)'
      BY DEF Flow, Reaching, Comparing
    <2>3. f2 \in Nat /\ p2 \in Nat /\ p2 <= p /\ p2 <= f2 /\ f2 <= Others + 1 /\ (b # OfUser(u) => f2 <= f)
      <3>1. Others + 1 = Cardinality(Requests)
        BY Counting DEF Others
      <3> QED  BY <1>7, <2>1, <2>2, <3>1, Counting
    <2>4. f2 <= f + 1
      BY <1>7, <2>1, OneIn
    <2> QED  BY <2>1, <2>3, <2>4
  <1> HIDE DEF f, p, f2, p2
  <1>10. CASE b = OfUser(u)
    <2>1. spent'[u] = spent[u] /\ rate'[Global] = rate[Global]
      BY <1>5, <1>10, <1>b, UserNumbers DEF Count
    <2>2. CASE rate[OfUser(u)].left = 0
      <3>1. rate'[OfUser(u)].count = 1 /\ rate'[OfUser(u)].left = Window
        BY <1>6, <1>10, <2>2 DEF Counted
      <3>2. Stage(1, spent[u], f2, p2, Window, rate[Global].left)
        BY <1>8, <1>9, <2>2, UserNumbers, StageOpened
      <3> QED  BY <2>1, <3>1, <3>2 DEF StageOf, f2, p2
    <2>3. CASE rate[OfUser(u)].left # 0
      <3>1. /\ rate'[OfUser(u)].count = IF c > UserLimit THEN c ELSE c + 1
            /\ rate'[OfUser(u)].left = rate[OfUser(u)].left /\ rate'[OfUser(u)].count \in Nat
        BY <1>6, <1>10, <2>3, UserNumbers DEF Counted
      <3>2. Stage(rate'[OfUser(u)].count, spent[u], f2, p2, rate[OfUser(u)].left, rate[Global].left)
        BY <1>8, <1>9, <3>1, UserNumbers, StageCounted
      <3> QED  BY <2>1, <3>1, <3>2 DEF StageOf, f2, p2
    <2> QED  BY <2>2, <2>3
  <1>11. CASE b # OfUser(u) /\ b # Global
    <2>1. spent'[u] = spent[u] /\ rate'[Global] = rate[Global] /\ rate'[OfUser(u)] = rate[OfUser(u)]
      BY <1>5, <1>11, <1>b, UserNumbers DEF Count
    <2>2. Stage(c, spent[u], f2, p2, rate[OfUser(u)].left, rate[Global].left)
      BY <1>8, <1>9, <1>11, UserNumbers, Bounds DEF Stage, Room
    <2> QED  BY <2>1, <2>2 DEF StageOf, f2, p2
  <1>12. CASE b = Global
    <2>1. rate'[OfUser(u)] = rate[OfUser(u)] /\ b # OfUser(u)
      BY <1>5, <1>12, UserNumbers
    <2>2. request[r].user = u => f2 + 1 <= f /\ p2 + 1 <= p
      <3> SUFFICES ASSUME request[r].user = u PROVE f2 + 1 <= f /\ p2 + 1 <= p
        OBVIOUS
      <3>1. r \in Reaching(u) /\ r \in Flow(u)
        BY <1>1, <1>12, <1>b DEF Reaching, Flow
      <3>2. Flow(u) \in SUBSET Requests /\ Reaching(u) \in SUBSET Requests
        BY FlowNumbers
      <3> QED  BY <1>7, <2>1, <3>1, <3>2, OneOut DEF f, f2, p, p2
    <2>3. spent'[u] = (IF rate[Global].left = 0 THEN 0 ELSE spent[u]) + (IF u = request[r].user THEN 1 ELSE 0)
      BY <1>12, <1>b DEF Count
    <2>4. CASE rate[Global].left = 0
      <3>1. rate'[Global].left = Window
        BY <1>6, <1>12, <2>4 DEF Counted
      <3>2. spent'[u] = (IF u = request[r].user THEN 1 ELSE 0)
        BY <2>3, <2>4
      <3>3. spent'[u] \in Nat /\ spent'[u] + f2 <= Others + 1 /\ (c = 0 => spent'[u] = 0 /\ f2 = 0)
        <4>1. c = 0 => f = 0
          BY <1>8 DEF Stage
        <4>2. f2 <= f
          BY <1>9, <2>1
        <4>3. CASE u = request[r].user
          <5>1. spent'[u] = 1 /\ f2 + 1 <= f
            BY <2>2, <3>2, <4>3
          <5> QED  BY <1>9, <4>1, <5>1, Bounds, UserNumbers
        <4>4. CASE u # request[r].user
          <5>1. spent'[u] = 0
            BY <3>2, <4>4
          <5> QED  BY <1>9, <4>1, <4>2, <5>1, Bounds, UserNumbers
        <4> QED  BY <4>3, <4>4
      <3>4. Stage(c, spent'[u], f2, p2, rate[OfUser(u)].left, Window)
        BY <1>9, <3>3, UserNumbers, Bounds, StageReset
      <3> QED  BY <2>1, <3>1, <3>4 DEF StageOf, f2, p2
    <2>5. CASE rate[Global].left # 0
      <3>1. rate'[Global].left = rate[Global].left
        BY <1>6, <1>12, <2>5 DEF Counted
      <3>2. CASE u = request[r].user
        <4>1. spent'[u] = spent[u] + 1
          BY <2>3, <2>5, <3>2
        <4>2. Stage(c, spent[u] + 1, f2, p2, rate[OfUser(u)].left, rate[Global].left)
          BY <1>8, <1>9, <2>2, <2>5, <3>2, UserNumbers, StagePass
        <4> QED  BY <2>1, <3>1, <4>1, <4>2 DEF StageOf, f2, p2
      <3>3. CASE u # request[r].user
        <4>1. spent'[u] = spent[u]
          BY <2>3, <2>5, <3>3, UserNumbers
        <4>2. Stage(c, spent[u], f2, p2, rate[OfUser(u)].left, rate[Global].left)
          BY <1>8, <1>9, <2>1, UserNumbers, Bounds DEF Stage, Room
        <4> QED  BY <2>1, <3>1, <4>1, <4>2 DEF StageOf, f2, p2
      <3> QED  BY <3>2, <3>3
    <2> QED  BY <2>4, <2>5
  <1> QED  BY <1>10, <1>11, <1>12

\* Of one global window a user takes no more than two of its own windows let through, each
\* with what was under way when it began (limiter.py consume_for_user).
THEOREM ShareHolds == Spec => []ShareKept
  <1>1. Init => ShareInv
    <2> SUFFICES ASSUME Init, NEW u \in Users PROVE StageOf(u)
      BY DEF Init, ShareInv, Owned, Idle
    <2>1. OfUser(u) \in Buckets
      BY DEF Buckets
    <2>2. Flow(u) = {} /\ Reaching(u) = {}
      BY DEF Init, Flow, Reaching, Comparing, Idle
    <2>3. rate[OfUser(u)].count = 0 /\ spent[u] = 0
      BY <2>1 DEF Init
    <2> QED  BY <2>2, <2>3, FS_EmptySet, Bounds DEF StageOf, Stage, Room
  <1>2. TypeOK /\ TypeOK' /\ ShareInv /\ [Next]_vars => ShareInv'
    <2> SUFFICES ASSUME TypeOK, TypeOK', ShareInv, [Next]_vars PROVE ShareInv'
      OBVIOUS
    <2>1. CASE UNCHANGED vars
      <3>1. UNCHANGED <<rate, request, spent>>
        BY <2>1 DEF vars
      <3> QED  BY <3>1 DEF ShareInv, Owned, StageOf, Flow, Reaching, Comparing
    <2>2. ASSUME NEW r \in Requests, Step(r) PROVE ShareInv'
      BY <2>2, ShareOutside, ShareCount, ShareCompare DEF Step
    <2> QED  BY <2>1, <2>2, ShareTick DEF Next
  <1>3. TypeOK /\ ShareInv => ShareKept
    <2> SUFFICES ASSUME TypeOK, ShareInv, NEW u \in Users PROVE spent[u] <= 2 * (UserLimit + Others)
      BY DEF ShareKept
    <2> QED  BY UserNumbers, FlowNumbers, StageShare DEF ShareInv, StageOf
  <1> QED  BY <1>1, <1>2, <1>3, TypeCorrect, PTL DEF Spec

-----------------------------------------------------------------------------
(* The breaker.                                                            *)

\* Requests for codes that are past the breaker and have not called yet.
Calling == {r \in Requests : request[r] = [pc |-> "call", test |-> FALSE]}

\* During a pause whoever still calls was past the breaker when it opened, and the
\* request that opened it is not among them.
KnockInv ==
    IF breaker.left > 1 THEN knocks + Cardinality(Calling) <= Others ELSE knocks = 0

\* Config errors that were met by a breaker with nothing counted.
Unseen == {r \in Requests : request[r] = [pc |-> "write", config |-> TRUE, seen |-> 0]}

\* Only those can be recorded without opening the breaker, and no request becomes
\* one of them while something is counted.
MissInv ==
    IF breaker.failures = 0 THEN misses = 0
    ELSE misses + Cardinality(Unseen) <= Cardinality(Requests)

\* Steps that leave the breaker alone and do not pass it.
LEMMA BeforeBreaker ==
    ASSUME TypeOK, NEW r \in Requests, Arrive(r) \/ Count(r) \/ Compare(r) \/ Abandon(r)
    PROVE  /\ UNCHANGED <<breaker, knocks, misses>>
           /\ Calling' \subseteq Calling /\ Unseen' \subseteq Unseen
  <1>1. UNCHANGED <<breaker, knocks, misses>>
    BY DEF Arrive, Count, Compare, Abandon
  <1>2. /\ \A q \in Requests : q # r => request'[q] = request[q]
        /\ request'[r] # [pc |-> "call", test |-> FALSE]
        /\ request'[r].pc # "write"
    <2>1. \A new : Goto(r, new) => /\ \A q \in Requests : q # r => request'[q] = request[q]
                                  /\ request'[r] = new
      BY DEF TypeOK, Goto
    <2>2. CASE Arrive(r)
      <3>1. PICK b, u : Goto(r, [pc |-> "count", bucket |-> b, user |-> u])
        BY <2>2, Zenon DEF Arrive
      <3> QED  BY <2>1, <3>1
    <2>3. CASE Count(r) \/ Compare(r)
      <3>1. request[r] \in [pc : {"count", "compare"}, bucket : Buckets, user : Users \cup Admins]
        BY <2>3 DEF Count, Compare, TypeOK, Locals, Idle
      <3>2. /\ [request[r] EXCEPT !.pc = "compare"].pc = "compare"
            /\ Admitted(r).pc # "write" /\ Admitted(r) # [pc |-> "call", test |-> FALSE]
        BY <3>1 DEF Admitted
      <3>3. CASE Count(r)
        <4>1. Goto(r, [request[r] EXCEPT !.pc = "compare"])
          BY <3>3 DEF Count
        <4>2. request'[r].pc = "compare"
          BY <2>1, <3>2, <4>1
        <4>3. request'[r] # [pc |-> "call", test |-> FALSE]
          BY <4>2
        <4> QED  BY <2>1, <4>1, <4>2, <4>3
      <3>4. CASE Compare(r)
        <4>1. Goto(r, Idle) \/ Goto(r, Admitted(r))
          BY <3>4 DEF Compare
        <4> QED  BY <2>1, <3>2, <4>1 DEF Idle
      <3> QED  BY <2>3, <3>3, <3>4
    <2>4. CASE Abandon(r)
      BY <2>1, <2>4 DEF Abandon, Idle
    <2> QED  BY <2>2, <2>3, <2>4
  <1>3. Calling' \subseteq Calling
    BY <1>2 DEF Calling
  <1>4. Unseen' \subseteq Unseen
    BY <1>2 DEF Unseen
  <1> QED  BY <1>1, <1>3, <1>4

\* Other steps move one request, too.
LEMMA Moves ==
    ASSUME TypeOK, NEW r \in Requests, NEW new, Goto(r, new)
    PROVE  /\ new # [pc |-> "call", test |-> FALSE] => Calling' \subseteq Calling \ {r}
           /\ new # [pc |-> "write", config |-> TRUE, seen |-> 0] => Unseen' \subseteq Unseen \ {r}
  <1>1. request'[r] = new /\ \A q \in Requests : q # r => request'[q] = request[q]
    BY DEF TypeOK, Goto
  <1> QED  BY <1>1 DEF Calling, Unseen

\* The sets are sets of requests.
LEMMA SetsOfRequests ==
    /\ Calling \in SUBSET Requests /\ Calling' \in SUBSET Requests
    /\ Unseen \in SUBSET Requests /\ Unseen' \in SUBSET Requests
    /\ {Cardinality(Calling), Cardinality(Calling'), Cardinality(Unseen), Cardinality(Unseen')}
           \subseteq 0 .. Cardinality(Requests)
    /\ Calling' \subseteq Calling => Cardinality(Calling') <= Cardinality(Calling)
    /\ Unseen' \subseteq Unseen => Cardinality(Unseen') <= Cardinality(Unseen)
  <1>1. /\ Calling \in SUBSET Requests /\ Calling' \in SUBSET Requests
        /\ Unseen \in SUBSET Requests /\ Unseen' \in SUBSET Requests
    BY DEF Calling, Unseen
  <1> QED  BY <1>1, Counting

LEMMA NextKeepsKnocks == TypeOK /\ KnockInv /\ [Next]_vars => KnockInv'
  <1> SUFFICES ASSUME TypeOK, KnockInv, [Next]_vars PROVE KnockInv'
    OBVIOUS
  <1>1. /\ breaker \in [failures : 0 .. TransientThreshold, left : Nat] /\ knocks \in Nat
        /\ Others \in Nat /\ Others = Cardinality(Requests) - 1 /\ Others' = Others
        /\ Cardinality(Requests) \in Nat
    BY Counting DEF TypeOK, Others
  <1>2. CASE UNCHANGED <<breaker, knocks>> /\ Calling' \subseteq Calling
    BY <1>1, <1>2, SetsOfRequests DEF KnockInv
  <1>3. CASE UNCHANGED vars
    <2>1. Calling' = Calling
      BY <1>3 DEF vars, Calling
    <2> QED  BY <1>2, <1>3, <2>1 DEF vars
  <1>4. CASE Tick
    <2>1. Calling' = Calling /\ breaker'.left = Less(breaker.left)
      BY <1>1, <1>4 DEF Tick, Calling
    <2>2. Less(breaker.left) > 1 <=> breaker.left > 2
      BY <1>1 DEF Less
    <2>3. knocks' = IF breaker.left <= 2 THEN 0 ELSE knocks
      BY <1>4 DEF Tick
    <2> QED  BY <1>1, <2>1, <2>2, <2>3 DEF KnockInv
  <1>5. ASSUME NEW r \in Requests, Step(r) PROVE KnockInv'
    <2>1. CASE Arrive(r) \/ Count(r) \/ Compare(r) \/ Abandon(r)
      BY <1>2, <2>1, BeforeBreaker
    <2>2. CASE AssertClosed(r)
      <3>1. UNCHANGED <<breaker, knocks>>
        BY <2>2 DEF AssertClosed
      <3>2. CASE breaker.left <= 1
        BY <1>1, <3>1, <3>2 DEF KnockInv
      <3>3. CASE breaker.left > 1
        <4>1. Calling' \subseteq Calling
          BY <1>1, <2>2, <3>3, Moves DEF AssertClosed, Idle
        <4> QED  BY <1>2, <3>1, <4>1
      <3> QED  BY <1>1, <3>2, <3>3
    <2>3. CASE Call(r)
      <3>1. PICK answer \in Answers : Goto(r, Answered(answer, request[r].test))
        BY <2>3 DEF Call
      <3>2. Answered(answer, request[r].test) # [pc |-> "call", test |-> FALSE]
        <4>1. Answered(answer, request[r].test).pc # "call"
          BY DEF Answered, Idle
        <4> QED  BY <4>1
      <3>3. Calling' \subseteq Calling \ {r}
        BY <3>1, <3>2, Moves
      <3>4. breaker' = breaker
            /\ knocks' = IF breaker.left > 1 /\ ~request[r].test THEN knocks + 1 ELSE knocks
        BY <2>3 DEF Call
      <3>5. CASE knocks' = knocks
        BY <1>2, <3>3, <3>4, <3>5
      <3>6. CASE breaker.left > 1 /\ ~request[r].test /\ knocks' = knocks + 1
        <4>1. r \in Calling
          <5>1. request[r] \in [pc : {"call"}, test : BOOLEAN]
            BY <2>3 DEF Call, TypeOK, Locals, Idle
          <5>2. request[r] = [pc |-> "call", test |-> FALSE]
            BY <3>6, <5>1
          <5> QED  BY <5>2 DEF Calling
        <4>2. Cardinality(Calling') + 1 <= Cardinality(Calling)
          BY <3>3, <4>1, SetsOfRequests, OneOut
        <4> QED  BY <1>1, <3>4, <3>6, <4>2, SetsOfRequests DEF KnockInv
      <3> QED  BY <3>4, <3>5, <3>6
    <2>4. CASE RecordSuccess(r)
      BY <2>4 DEF RecordSuccess, KnockInv
    <2>5. CASE ReadFailures(r)
      <3>1. Calling' \subseteq Calling
        BY <2>5, Moves DEF ReadFailures
      <3> QED  BY <1>2, <2>5, <3>1 DEF ReadFailures
    <2>6. CASE WriteFailure(r)
      <3>1. Calling' \subseteq Calling \ {r} /\ knocks' = knocks
        BY <2>6, Moves DEF WriteFailure, Idle
      <3>2. Cardinality(Calling') + 1 <= Cardinality(Requests)
        <4>1. Requests \in SUBSET Requests /\ Calling' \subseteq Requests \ {r}
          BY <3>1, SetsOfRequests
        <4> QED  BY <4>1, OneOut
      <3>3. CASE breaker.left > 1
        <4>1. knocks + Cardinality(Calling') <= Others
          BY <1>1, <3>1, <3>3, SetsOfRequests DEF KnockInv
        <4>2. CASE breaker'.left > 1
          BY <1>1, <3>1, <4>1, <4>2 DEF KnockInv
        <4>3. breaker'.left > 1
          <5>1. \A c : Cooldown(c) > 1
            BY BreakerAssumption DEF Cooldown
          <5>2. \E c : breaker'.left \in {breaker.left, Cooldown(c)}
            BY <2>6 DEF WriteFailure
          <5> QED  BY <3>3, <5>1, <5>2
        <4> QED  BY <4>2, <4>3
      <3>4. CASE ~(breaker.left > 1)
        BY <1>1, <3>1, <3>2, <3>4, SetsOfRequests DEF KnockInv
      <3> QED  BY <3>3, <3>4
    <2> QED  BY <1>5, <2>1, <2>2, <2>3, <2>4, <2>5, <2>6 DEF Step
  <1> QED  BY <1>3, <1>4, <1>5 DEF Next

\* In a pause fewer calls for codes go out than there are requests in flight.
THEOREM FewKnocksMade == Spec => []FewKnocks
  <1>1. Init => KnockInv
    BY DEF Init, KnockInv
  <1>2. TypeOK /\ KnockInv => FewKnocks
    BY SetsOfRequests, Counting DEF KnockInv, FewKnocks, TypeOK
  <1>3. Spec => [](TypeOK /\ KnockInv)
    BY <1>1, InitTyped, NextTyped, NextKeepsKnocks, PTL DEF Spec
  <1> QED  BY <1>2, <1>3, PTL

LEMMA NextKeepsMisses ==
    ASSUME ConfigThreshold <= 2
    PROVE  TypeOK /\ MissInv /\ [Next]_vars => MissInv'
  <1> SUFFICES ASSUME TypeOK, MissInv, [Next]_vars PROVE MissInv'
    OBVIOUS
  <1>1. /\ breaker \in [failures : 0 .. TransientThreshold, left : Nat] /\ misses \in Nat
        /\ Cardinality(Requests) \in Nat
        /\ TransientThreshold \in Nat \ {0} /\ ConfigThreshold \in Nat \ {0}
        /\ ConfigThreshold <= TransientThreshold
    BY Counting, BreakerAssumption DEF TypeOK
  <1>2. CASE breaker'.failures = breaker.failures /\ misses' = misses /\ Unseen' \subseteq Unseen
    BY <1>1, <1>2, SetsOfRequests DEF MissInv
  <1>3. CASE UNCHANGED vars
    <2>1. Unseen' = Unseen
      BY <1>3 DEF vars, Unseen
    <2> QED  BY <1>2, <1>3, <2>1 DEF vars
  <1>4. CASE Tick
    <2>1. Unseen' = Unseen /\ breaker'.failures = breaker.failures
      BY <1>1, <1>4 DEF Tick, Unseen
    <2> QED  BY <1>2, <1>4, <2>1 DEF Tick
  <1>5. ASSUME NEW r \in Requests, Step(r) PROVE MissInv'
    <2>1. CASE Arrive(r) \/ Count(r) \/ Compare(r) \/ Abandon(r)
      BY <1>2, <2>1, BeforeBreaker
    <2>2. CASE AssertClosed(r)
      <3>1. Unseen' \subseteq Unseen
        BY <2>2, Moves DEF AssertClosed, Idle
      <3> QED  BY <1>2, <2>2, <3>1 DEF AssertClosed
    <2>3. CASE Call(r)
      <3>1. PICK answer \in Answers : Goto(r, Answered(answer, request[r].test))
        BY <2>3 DEF Call
      <3>2. Answered(answer, request[r].test) # [pc |-> "write", config |-> TRUE, seen |-> 0]
        <4>1. Answered(answer, request[r].test).pc # "write"
          BY DEF Answered, Idle
        <4> QED  BY <4>1
      <3>3. Unseen' \subseteq Unseen \ {r}
        BY <3>1, <3>2, Moves
      <3>4. Unseen' \subseteq Unseen
        BY <3>3
      <3> QED  BY <1>2, <2>3, <3>4 DEF Call
    <2>4. CASE RecordSuccess(r)
      BY <2>4 DEF RecordSuccess, MissInv
    <2>5. CASE ReadFailures(r)
      <3>1. UNCHANGED <<breaker, misses>>
        BY <2>5 DEF ReadFailures
      <3>2. CASE breaker.failures = 0
        BY <3>1, <3>2 DEF MissInv
      <3>3. CASE breaker.failures # 0
        <4>1. Unseen' \subseteq Unseen
          BY <2>5, <3>3, Moves DEF ReadFailures
        <4> QED  BY <1>2, <3>1, <4>1
      <3> QED  BY <3>2, <3>3
    <2>6. CASE WriteFailure(r)
      <3> DEFINE seen == request[r].seen
                 config == request[r].config
                 failures == IF seen < TransientThreshold THEN seen + 1 ELSE seen
                 opens == failures >= Threshold(config)
      <3>1. request[r] \in [pc : {"write"}, config : BOOLEAN, seen : 0 .. TransientThreshold]
        BY <2>6 DEF WriteFailure, TypeOK, Locals, Idle
      <3>2. Unseen' \subseteq Unseen \ {r}
        BY <2>6, Moves DEF WriteFailure, Idle
      <3>3. breaker'.failures = failures
            /\ misses' = IF opens THEN 0 ELSE IF config THEN misses + 1 ELSE misses
        BY <2>6 DEF WriteFailure
      <3>4. failures \in Nat \ {0} /\ seen \in Nat
        BY <1>1, <3>1
      <3>5. CASE opens
        BY <1>1, <3>3, <3>4, <3>5, SetsOfRequests DEF MissInv
      <3>6. CASE ~opens /\ config
        <4>1. failures < ConfigThreshold
          BY <1>1, <3>4, <3>6 DEF Threshold
        <4>2. seen = 0
          BY <1>1, <3>4, <4>1
        <4>3. r \in Unseen
          <5>1. request[r] = [pc |-> "write", config |-> TRUE, seen |-> 0]
            BY <3>1, <3>6, <4>2
          <5> QED  BY <5>1 DEF Unseen
        <4>4. Cardinality(Unseen') + 1 <= Cardinality(Unseen)
          BY <3>2, <4>3, SetsOfRequests, OneOut
        <4>5. misses' = misses + 1
          BY <3>3, <3>6
        <4> QED  BY <1>1, <3>3, <3>4, <4>4, <4>5, SetsOfRequests DEF MissInv
      <3>7. CASE ~opens /\ ~config
        BY <1>1, <3>2, <3>3, <3>4, <3>7, SetsOfRequests DEF MissInv
      <3> QED  BY <3>5, <3>6, <3>7
    <2> QED  BY <1>5, <2>1, <2>2, <2>3, <2>4, <2>5, <2>6 DEF Step
  <1> QED  BY <1>3, <1>4, <1>5 DEF Next

\* With the threshold of two that limiter.py has for config errors, lost updates
\* let no more of them go by than there are requests in flight.
THEOREM OpensInTime ==
    ASSUME ConfigThreshold <= 2
    PROVE  Spec => []OpensSoon
  <1>1. Init => MissInv
    BY DEF Init, MissInv
  <1>2. TypeOK /\ MissInv => OpensSoon
    BY SetsOfRequests, Counting DEF MissInv, OpensSoon, TypeOK
  <1>3. Spec => [](TypeOK /\ MissInv)
    BY <1>1, InitTyped, NextTyped, NextKeepsMisses, PTL DEF Spec
  <1> QED  BY <1>2, <1>3, PTL

-----------------------------------------------------------------------------
(* Together.                                                               *)

\* What gets through the limits and the pause of limiter.py, for any number of
\* requests, users and buckets, with its threshold of two for config errors.
THEOREM GateHolds ==
    ASSUME ConfigThreshold <= 2
    PROVE  Spec => []GateKept
  BY TypeCorrect, LimitHolds, FewKnocksMade, OpensInTime, PTL DEF GateKept
=============================================================================
