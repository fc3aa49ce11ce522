-------------------------- MODULE LogForward_proofs --------------------------
(***************************************************************************)
(* Log records on their way to a collector, for any number of threads,     *)
(* reloads, forwarders and records and any size of the queue.  A record is *)
(* handed to one forwarder, once; what arrived, the line being sent and    *)
(* the queue are then, in this order, a part of what was handed over.      *)
(* Then the other handler, that of the table app_logs; and the snapshots   *)
(* of the backup, for any number of commits, minutes and faults.           *)
(***************************************************************************)
EXTENDS MCBackups, FiniteSetTheorems, SequenceTheorems, TLAPS

Handler == [at : {"none", "get", "send", "ended"}, queue : Seq(Nat), line : Nat, stop : BOOLEAN,
            sent : Nat, dropped : Nat, errors : Nat, given : Seq(Nat), arrived : Seq(Nat)]

Handed(r) == {r.given[i] : i \in 1 .. Len(r.given)}

\* a was handed over before b.
Before(r, a, b) ==
    \E i, j \in 1 .. Len(r.given) : i < j /\ r.given[i] = a /\ r.given[j] = b

Once(r) == \A i, j \in 1 .. Len(r.given) : r.given[i] = r.given[j] => i = j

Known(r) ==
    /\ \A i \in 1 .. Len(r.arrived) : r.arrived[i] \in Handed(r)
    /\ \A k \in 1 .. Len(r.queue) : r.queue[k] \in Handed(r)
    /\ r.at = "send" => r.line \in Handed(r)

InOrder(r) ==
    /\ \A i, j \in 1 .. Len(r.arrived) : i < j => Before(r, r.arrived[i], r.arrived[j])
    /\ \A k, l \in 1 .. Len(r.queue) : k < l => Before(r, r.queue[k], r.queue[l])
    /\ \A i \in 1 .. Len(r.arrived), k \in 1 .. Len(r.queue) : Before(r, r.arrived[i], r.queue[k])
    /\ r.at = "send" =>
          /\ \A i \in 1 .. Len(r.arrived) : Before(r, r.arrived[i], r.line)
          /\ \A k \in 1 .. Len(r.queue) : Before(r, r.line, r.queue[k])

Busy(r) == IF r.at = "send" THEN 1 ELSE 0

Counted(r) == Len(r.given) = r.sent + r.dropped + r.errors + Len(r.queue) + Busy(r)

Good(r) ==
    /\ r \in Handler /\ Len(r.queue) <= MaxQueue
    /\ Once(r) /\ Known(r) /\ InOrder(r) /\ Counted(r)

LineInv ==
    /\ emitted \in 0 .. MaxRecords /\ enabled \in BOOLEAN /\ live \in Forwarders \cup {0}
    /\ thread \in [Threads -> [line : 0 .. emitted, to : Forwarders \cup {0}]]
    /\ reload \in [Reloads -> {"idle", "on", "off"}]
    /\ DOMAIN forwarder = Forwarders
    /\ \A h \in Forwarders : Good(forwarder[h]) /\ Handed(forwarder[h]) \subseteq 1 .. emitted
    /\ \A t \in Threads :
          thread[t] # Idle =>
              /\ thread[t].line \in 1 .. emitted /\ thread[t].to \in Forwarders
              /\ \A h \in Forwarders : thread[t].line \notin Handed(forwarder[h])
              /\ \A u \in Threads \ {t} : thread[u].line # thread[t].line
    /\ OneForwarder

-----------------------------------------------------------------------------
(* One forwarder *)

LEMMA Fields ==
    ASSUME NEW r, Good(r)
    PROVE  /\ r.line \in Nat /\ r.sent \in Nat /\ r.dropped \in Nat /\ r.errors \in Nat
           /\ r.queue \in Seq(Nat) /\ r.given \in Seq(Nat) /\ r.arrived \in Seq(Nat)
           /\ Len(r.queue) \in Nat /\ Len(r.given) \in Nat /\ Len(r.arrived) \in Nat
           /\ r.at \in {"none", "get", "send", "ended"} /\ r.stop \in BOOLEAN
           /\ Len(r.given) = r.sent + r.dropped + r.errors + Len(r.queue) + Busy(r) /\ Busy(r) \in Nat
           /\ r.sent <= Len(r.given) /\ r.dropped <= Len(r.given) /\ r.errors <= Len(r.given)
  <1>1. /\ r.line \in Nat /\ r.sent \in Nat /\ r.dropped \in Nat /\ r.errors \in Nat
        /\ r.queue \in Seq(Nat) /\ r.given \in Seq(Nat) /\ r.arrived \in Seq(Nat)
        /\ r.at \in {"none", "get", "send", "ended"} /\ r.stop \in BOOLEAN
    BY DEF Good, Handler
  <1>2. Len(r.given) = r.sent + r.dropped + r.errors + Len(r.queue) + Busy(r) /\ Busy(r) \in Nat
    BY DEF Good, Counted, Busy
  <1>3. Len(r.queue) \in Nat /\ Len(r.given) \in Nat /\ Len(r.arrived) \in Nat
    BY <1>1
  <1>4. r.sent <= Len(r.given) /\ r.dropped <= Len(r.given) /\ r.errors <= Len(r.given)
    <2>1. r.sent \in Nat /\ r.dropped \in Nat /\ r.errors \in Nat
      BY <1>1
    <2> QED  BY <2>1, <1>2, <1>3
  <1> QED  BY <1>1, <1>2, <1>3, <1>4

\* A forwarder that has just been made, or runs and has nothing yet.
LEMMA NewGood ==
    ASSUME BoundsAssumption, NEW s \in {New, [New EXCEPT !.at = "get"]}
    PROVE  Good(s) /\ Handed(s) = {}
  <1>1. /\ s.queue = <<>> /\ s.given = <<>> /\ s.arrived = <<>> /\ s.at # "send"
        /\ s.sent = 0 /\ s.dropped = 0 /\ s.errors = 0
    BY DEF New
  <1>2. s \in Handler
    <2>1. <<>> \in Seq(Nat) /\ 0 \in Nat
      OBVIOUS
    <2>2. New \in Handler
      BY <2>1 DEF New, Handler
    <2>3. [New EXCEPT !.at = "get"] \in Handler
      BY <2>2 DEF Handler
    <2> QED  BY <2>2, <2>3
  <1> QED  BY <1>1, <1>2 DEF Good, Once, Known, InOrder, Counted, Busy, Handed, BoundsAssumption

\* A record that is handed over is the last, and goes to the end of the queue or is dropped.
LEMMA OneMore ==
    ASSUME NEW r, r.sent \in Nat, r.dropped \in Nat, r.errors \in Nat, Len(r.queue) \in Nat, Busy(r) \in Nat
    PROVE  /\ (r.sent + r.dropped + r.errors + Len(r.queue) + Busy(r)) + 1
                  = r.sent + (r.dropped + 1) + r.errors + Len(r.queue) + Busy(r)
           /\ (r.sent + r.dropped + r.errors + Len(r.queue) + Busy(r)) + 1
                  = r.sent + r.dropped + r.errors + (Len(r.queue) + 1) + Busy(r)
  <1> DEFINE a == r.sent
             b == r.dropped
             c == r.errors
             d == Len(r.queue)
             e == Busy(r)
  <1>1. a \in Nat /\ b \in Nat /\ c \in Nat /\ d \in Nat /\ e \in Nat
    OBVIOUS
  <1> SUFFICES /\ (a + b + c + d + e) + 1 = a + (b + 1) + c + d + e
               /\ (a + b + c + d + e) + 1 = a + b + c + (d + 1) + e
    OBVIOUS
  <1> HIDE DEF a, b, c, d, e
  <1> QED  BY <1>1

Handover(r, n) ==
    LET handed == [r EXCEPT !.given = Append(@, n)]
    IN  IF Full(r) THEN [handed EXCEPT !.dropped = @ + 1] ELSE [handed EXCEPT !.queue = Append(@, n)]

LEMMA HandGood ==
    ASSUME BoundsAssumption, NEW r, Good(r), NEW n \in Nat, n \notin Handed(r), NEW s,
           s = Handover(r, n)
    PROVE  Good(s) /\ Handed(s) = Handed(r) \cup {n}
  <1> DEFINE m == Len(r.given)
  <1>1. /\ m \in Nat /\ s.given = Append(r.given, n) /\ Len(s.given) = m + 1 /\ s.given[m + 1] = n
        /\ \A i \in 1 .. m : s.given[i] = r.given[i]
    BY DEF Good, Handler, Handover
  <1>2. Handed(s) = Handed(r) \cup {n}
    BY <1>1 DEF Handed
  <1>3. \A a, b : Before(r, a, b) => Before(s, a, b)
    BY <1>1 DEF Before
  <1>4. \A a \in Handed(r) : Before(s, a, n)
    BY <1>1 DEF Before, Handed
  <1>5. Once(s)
    <2> SUFFICES ASSUME NEW i \in 1 .. m + 1, NEW j \in 1 .. m + 1, s.given[i] = s.given[j] PROVE i = j
      BY <1>1 DEF Once
    <2>1. \A k \in 1 .. m : s.given[k] # n
      BY <1>1 DEF Handed
    <2>2. (i \in 1 .. m \/ i = m + 1) /\ (j \in 1 .. m \/ j = m + 1)
      BY <1>1
    <2>3. CASE i \in 1 .. m /\ j \in 1 .. m
      BY <1>1, <2>3 DEF Good, Once
    <2>4. CASE i = m + 1 \/ j = m + 1
      BY <1>1, <2>1, <2>2, <2>4
    <2> QED  BY <2>2, <2>3, <2>4
  <1>6. s \in Handler /\ s.arrived = r.arrived /\ s.line = r.line /\ s.at = r.at
    <2>1. Append(r.given, n) \in Seq(Nat) /\ Append(r.queue, n) \in Seq(Nat) /\ r.dropped + 1 \in Nat
      BY Fields
    <2>2. r \in Handler
      BY DEF Good
    <2> QED  BY <2>1, <2>2 DEF Handler, Handover
  <1>7. CASE Full(r)
    <2>1. s.queue = r.queue /\ s.dropped = r.dropped + 1 /\ s.sent = r.sent /\ s.errors = r.errors
      BY <1>7 DEF Good, Handler, Handover
    <2>2. Known(s) /\ InOrder(s)
      BY <1>2, <1>3, <1>6, <2>1 DEF Good, Known, InOrder
    <2>3. Counted(s)
      <3>1. /\ m = r.sent + r.dropped + r.errors + Len(r.queue) + Busy(r) /\ Busy(r) \in Nat
            /\ r.sent \in Nat /\ r.dropped \in Nat /\ r.errors \in Nat /\ Len(r.queue) \in Nat
        BY Fields
      <3>2. Busy(s) = Busy(r)
        BY <1>6 DEF Busy
      <3>3. /\ Len(s.given) = m + 1 /\ Len(s.queue) = Len(r.queue)
            /\ s.dropped = r.dropped + 1 /\ s.sent = r.sent /\ s.errors = r.errors
        BY <1>1, <2>1
      <3>4. (r.sent + r.dropped + r.errors + Len(r.queue) + Busy(r)) + 1
                = r.sent + (r.dropped + 1) + r.errors + Len(r.queue) + Busy(r)
        BY <3>1, OneMore
      <3>5. m + 1 = r.sent + (r.dropped + 1) + r.errors + Len(r.queue) + Busy(r)
        BY <3>1, <3>4, Zenon
      <3> QED  BY <3>2, <3>3, <3>5, Zenon DEF Counted
    <2> QED  BY <1>2, <1>5, <1>6, <2>1, <2>2, <2>3 DEF Good
  <1>8. CASE ~Full(r)
    <2> DEFINE k == Len(r.queue)
    <2>1. /\ k \in Nat /\ Len(s.queue) = k + 1 /\ s.queue[k + 1] = n
          /\ \A i \in 1 .. k : s.queue[i] = r.queue[i]
      BY <1>8 DEF Good, Handler, Handover
    <2>2. s.dropped = r.dropped /\ s.sent = r.sent /\ s.errors = r.errors
      BY <1>8 DEF Good, Handler, Handover
    <2>3. Known(s)
      BY <1>2, <1>6, <2>1 DEF Good, Known
    <2>4. InOrder(s)
      <3>1. \A i, j \in 1 .. Len(s.arrived) : i < j => Before(s, s.arrived[i], s.arrived[j])
        BY <1>3, <1>6 DEF Good, InOrder
      <3> \A j \in 1 .. Len(s.queue) : j \in 1 .. k \/ j = k + 1
        BY <2>1
      <3>2. \A i, j \in 1 .. Len(s.queue) : i < j => Before(s, s.queue[i], s.queue[j])
        <4> SUFFICES ASSUME NEW i \in 1 .. Len(s.queue), NEW j \in 1 .. Len(s.queue), i < j
                     PROVE  Before(s, s.queue[i], s.queue[j])
          OBVIOUS
        <4>1. i \in 1 .. k /\ s.queue[i] = r.queue[i]
          BY <2>1
        <4>2. CASE j \in 1 .. k
          BY <1>3, <2>1, <4>1, <4>2 DEF Good, InOrder
        <4>3. CASE j = k + 1
          BY <1>4, <2>1, <4>1, <4>3 DEF Good, Known
        <4> QED  BY <4>2, <4>3
      <3>3. \A i \in 1 .. Len(s.arrived), j \in 1 .. Len(s.queue) : Before(s, s.arrived[i], s.queue[j])
        <4> SUFFICES ASSUME NEW i \in 1 .. Len(s.arrived), NEW j \in 1 .. Len(s.queue)
                     PROVE  Before(s, r.arrived[i], s.queue[j])
          BY <1>6
        <4>1. CASE j \in 1 .. k
          BY <1>3, <1>6, <2>1, <4>1 DEF Good, InOrder
        <4>2. CASE j = k + 1
          BY <1>4, <1>6, <2>1, <4>2 DEF Good, Known
        <4> QED  BY <4>1, <4>2
      <3>4. s.at = "send" => \A j \in 1 .. Len(s.queue) : Before(s, s.line, s.queue[j])
        BY <1>3, <1>4, <1>6, <2>1 DEF Good, InOrder, Known
      <3>5. s.at = "send" => \A i \in 1 .. Len(s.arrived) : Before(s, s.arrived[i], s.line)
        BY <1>3, <1>6 DEF Good, InOrder
      <3> QED  BY <3>1, <3>2, <3>3, <3>4, <3>5 DEF InOrder
    <2>5. Counted(s)
      <3>1. /\ m = r.sent + r.dropped + r.errors + Len(r.queue) + Busy(r) /\ Busy(r) \in Nat
            /\ r.sent \in Nat /\ r.dropped \in Nat /\ r.errors \in Nat /\ Len(r.queue) \in Nat
        BY Fields
      <3>2. Busy(s) = Busy(r)
        BY <1>6 DEF Busy
      <3>3. Len(s.given) = m + 1 /\ Len(s.queue) = Len(r.queue) + 1
        BY <1>1, <2>1
      <3>4. m + 1 = r.sent + r.dropped + r.errors + (Len(r.queue) + 1) + Busy(r)
        BY <3>1, OneMore
      <3> QED  BY <2>2, <3>2, <3>3, <3>4, Zenon DEF Counted
    <2>6. Len(s.queue) <= MaxQueue
      BY <1>8, <2>1 DEF Full, BoundsAssumption
    <2> QED  BY <1>2, <1>5, <1>6, <2>3, <2>4, <2>5, <2>6 DEF Good
  <1> QED  BY <1>7, <1>8

LEMMA TakeGood ==
    ASSUME BoundsAssumption, NEW r, Good(r), r.at = "get", r.queue # <<>>, NEW s,
           s = [r EXCEPT !.at = "send", !.line = Head(r.queue), !.queue = Tail(@)]
    PROVE  Good(s) /\ Handed(s) = Handed(r)
  <1>1. /\ Len(r.queue) \in Nat \ {0} /\ s.line = r.queue[1] /\ Len(s.queue) = Len(r.queue) - 1
        /\ \A k \in 1 .. Len(s.queue) : s.queue[k] = r.queue[k + 1]
    BY DEF Good, Handler
  <1>2. /\ s \in Handler /\ s.given = r.given /\ s.arrived = r.arrived /\ s.at = "send"
        /\ s.sent = r.sent /\ s.dropped = r.dropped /\ s.errors = r.errors
    <2>1. Head(r.queue) \in Nat /\ Tail(r.queue) \in Seq(Nat)
      BY Fields
    <2>2. r \in Handler
      BY DEF Good
    <2> QED  BY <2>1, <2>2 DEF Handler
  <1>3. Handed(s) = Handed(r) /\ Once(s) /\ \A a, b : Before(s, a, b) <=> Before(r, a, b)
    BY <1>2 DEF Handed, Once, Before, Good
  <1>4. Known(s)
    <2>1. \A i \in 1 .. Len(s.arrived) : s.arrived[i] \in Handed(s)
      BY <1>2, <1>3 DEF Known, Good
    <2>2. ASSUME NEW k \in 1 .. Len(s.queue) PROVE s.queue[k] \in Handed(s)
      <3>1. k + 1 \in 1 .. Len(r.queue) /\ s.queue[k] = r.queue[k + 1]
        BY <1>1
      <3> QED  BY <1>3, <3>1 DEF Known, Good
    <2>3. s.line \in Handed(s)
      <3>1. 1 \in 1 .. Len(r.queue)
        BY <1>1
      <3> QED  BY <1>1, <1>3, <3>1 DEF Known, Good
    <2> QED  BY <2>1, <2>2, <2>3 DEF Known
  <1>5. InOrder(s)
    <2>1. \A i, j \in 1 .. Len(s.arrived) : i < j => Before(s, s.arrived[i], s.arrived[j])
      BY <1>2, <1>3 DEF InOrder, Good
    <2>2. \A k, l \in 1 .. Len(s.queue) : k < l => Before(s, s.queue[k], s.queue[l])
      <3> SUFFICES ASSUME NEW k \in 1 .. Len(s.queue), NEW l \in 1 .. Len(s.queue), k < l
                   PROVE  Before(r, r.queue[k + 1], r.queue[l + 1])
        BY <1>1, <1>3
      <3>1. k + 1 \in 1 .. Len(r.queue) /\ l + 1 \in 1 .. Len(r.queue) /\ k + 1 < l + 1
        BY <1>1
      <3> QED  BY <3>1 DEF InOrder, Good
    <2>3. \A i \in 1 .. Len(s.arrived) :
             /\ \A k \in 1 .. Len(s.queue) : Before(s, s.arrived[i], s.queue[k])
             /\ Before(s, s.arrived[i], s.line)
      <3> SUFFICES ASSUME NEW i \in 1 .. Len(s.arrived)
                   PROVE  /\ \A k \in 1 .. Len(s.queue) : Before(r, r.arrived[i], r.queue[k + 1])
                          /\ Before(r, r.arrived[i], r.queue[1])
        BY <1>1, <1>2, <1>3
      <3>1. \A k \in 1 .. Len(r.queue) : Before(r, r.arrived[i], r.queue[k])
        BY <1>2 DEF InOrder, Good
      <3>2. 1 \in 1 .. Len(r.queue) /\ \A k \in 1 .. Len(s.queue) : k + 1 \in 1 .. Len(r.queue)
        BY <1>1
      <3> QED  BY <3>1, <3>2
    <2>4. \A k \in 1 .. Len(s.queue) : Before(s, s.line, s.queue[k])
      <3> SUFFICES ASSUME NEW k \in 1 .. Len(s.queue) PROVE Before(r, r.queue[1], r.queue[k + 1])
        BY <1>1, <1>3
      <3>1. 1 \in 1 .. Len(r.queue) /\ k + 1 \in 1 .. Len(r.queue) /\ 1 < k + 1
        BY <1>1
      <3> QED  BY <3>1 DEF InOrder, Good
    <2> QED  BY <2>1, <2>2, <2>3, <2>4 DEF InOrder
  <1>6. Counted(s)
    <2>1. /\ Len(r.given) = r.sent + r.dropped + r.errors + Len(r.queue) + Busy(r)
          /\ r.sent \in Nat /\ r.dropped \in Nat /\ r.errors \in Nat /\ Len(r.queue) \in Nat
      BY Fields
    <2>2. Busy(r) = 0 /\ Busy(s) = 1
      BY <1>2 DEF Busy
    <2> QED  BY <1>1, <1>2, <2>1, <2>2 DEF Counted
  <1>7. Len(s.queue) <= MaxQueue
    BY <1>1 DEF Good, BoundsAssumption
  <1> QED  BY <1>2, <1>3, <1>4, <1>5, <1>6, <1>7 DEF Good

\* The line is through with, whether it was sent or given up, and may have arrived.
LEMMA SendGood ==
    ASSUME NEW r, Good(r), r.at = "send", NEW s \in Handler, s.at \in {"get", "ended"},
           s.given = r.given, s.queue = r.queue, s.dropped = r.dropped,
           \/ s.sent = r.sent + 1 /\ s.errors = r.errors
           \/ s.sent = r.sent /\ s.errors = r.errors + 1,
           s.arrived \in {r.arrived, Append(r.arrived, r.line)}
    PROVE  Good(s) /\ Handed(s) = Handed(r)
  <1>1. Handed(s) = Handed(r) /\ Once(s) /\ \A a, b : Before(s, a, b) <=> Before(r, a, b)
    BY DEF Handed, Once, Before, Good
  <1>2. Counted(s)
    <2>1. /\ Len(r.given) = r.sent + r.dropped + r.errors + Len(r.queue) + Busy(r)
          /\ r.sent \in Nat /\ r.dropped \in Nat /\ r.errors \in Nat /\ Len(r.queue) \in Nat
      BY Fields
    <2>2. Busy(r) = 1 /\ Busy(s) = 0
      BY DEF Busy
    <2>3. /\ r.sent + r.dropped + r.errors + Len(r.queue) + 1 = (r.sent + 1) + r.dropped + r.errors + Len(r.queue) + 0
          /\ r.sent + r.dropped + r.errors + Len(r.queue) + 1 = r.sent + r.dropped + (r.errors + 1) + Len(r.queue) + 0
      <3> DEFINE a == r.sent
                 b == r.dropped
                 c == r.errors
                 d == Len(r.queue)
      <3>1. a \in Nat /\ b \in Nat /\ c \in Nat /\ d \in Nat
        BY <2>1
      <3> SUFFICES a + b + c + d + 1 = (a + 1) + b + c + d + 0 /\ a + b + c + d + 1 = a + b + (c + 1) + d + 0
        OBVIOUS
      <3> HIDE DEF a, b, c, d
      <3> QED  BY <3>1
    <2>4. Len(s.given) = s.sent + s.dropped + s.errors + Len(s.queue) + 0
      BY <2>1, <2>2, <2>3
    <2> QED  BY <2>2, <2>4 DEF Counted
  <1>3. \/ s.arrived = r.arrived
        \/ /\ Len(r.arrived) \in Nat /\ Len(s.arrived) = Len(r.arrived) + 1
           /\ s.arrived[Len(r.arrived) + 1] = r.line
           /\ \A i \in 1 .. Len(r.arrived) : s.arrived[i] = r.arrived[i]
    <2>1. r.arrived \in Seq(Nat) /\ Len(r.arrived) \in Nat /\ r.line \in Nat
      BY Fields
    <2> QED  BY <2>1
  <1>4. Known(s)
    BY <1>1, <1>3 DEF Known, Good
  <1>5. InOrder(s)
    <2>1. InOrder(r) /\ s.at # "send"
      BY DEF Good
    <2>2. ASSUME s.arrived = r.arrived PROVE InOrder(s)
      BY <1>1, <2>1, <2>2 DEF InOrder
    <2>3. ASSUME Len(r.arrived) \in Nat, Len(s.arrived) = Len(r.arrived) + 1,
                 s.arrived[Len(r.arrived) + 1] = r.line,
                 \A i \in 1 .. Len(r.arrived) : s.arrived[i] = r.arrived[i]
          PROVE  InOrder(s)
      <3>1. \A i \in 1 .. Len(s.arrived) : i \in 1 .. Len(r.arrived) \/ i = Len(r.arrived) + 1
        BY <2>3
      <3>2. \A i, j \in 1 .. Len(s.arrived) : i < j => Before(r, s.arrived[i], s.arrived[j])
        <4> SUFFICES ASSUME NEW i \in 1 .. Len(s.arrived), NEW j \in 1 .. Len(s.arrived), i < j
                     PROVE  Before(r, s.arrived[i], s.arrived[j])
          OBVIOUS
        <4>1. i \in 1 .. Len(r.arrived)
          BY <2>3, <3>1
        <4>2. CASE j \in 1 .. Len(r.arrived)
          BY <2>1, <2>3, <4>1, <4>2 DEF InOrder
        <4>3. CASE j = Len(r.arrived) + 1
          BY <2>1, <2>3, <4>1, <4>3 DEF InOrder
        <4> QED  BY <3>1, <4>2, <4>3
      <3>3. \A i \in 1 .. Len(s.arrived), k \in 1 .. Len(r.queue) : Before(r, s.arrived[i], r.queue[k])
        BY <2>1, <2>3, <3>1 DEF InOrder
      <3> QED  BY <1>1, <2>1, <3>2, <3>3 DEF InOrder
    <2> QED  BY <1>3, <2>2, <2>3
  <1> QED  BY <1>1, <1>2, <1>4, <1>5 DEF Good

\* A forwarder is closed, or its thread ends.
LEMMA CloseGood ==
    ASSUME NEW r, Good(r), NEW s,
           \/ s = [r EXCEPT !.stop = TRUE]
           \/ r.at = "get" /\ s = [r EXCEPT !.at = "ended"]
    PROVE  Good(s) /\ Handed(s) = Handed(r)
  <1>1. /\ s \in Handler /\ s.given = r.given /\ s.arrived = r.arrived /\ s.queue = r.queue
        /\ s.line = r.line /\ s.sent = r.sent /\ s.dropped = r.dropped /\ s.errors = r.errors
        /\ s.at = "send" <=> r.at = "send"
    BY DEF Good, Handler
  <1>2. Handed(s) = Handed(r) /\ (Once(s) <=> Once(r)) /\ (Known(s) <=> Known(r)) /\ (Counted(s) <=> Counted(r))
    BY <1>1 DEF Handed, Once, Known, Counted, Busy
  <1>3. \A a, b : Before(s, a, b) <=> Before(r, a, b)
    BY <1>1 DEF Before
  <1>4. InOrder(s) <=> InOrder(r)
    BY <1>1, <1>3 DEF InOrder
  <1> QED  BY <1>1, <1>2, <1>4 DEF Good

-----------------------------------------------------------------------------
(* All of them *)

LEMMA InitLines ==
    ASSUME BoundsAssumption
    PROVE  Init => LineInv
  BY NewGood DEF Init, LineInv, Idle, Forwarders, OneForwarder, New, BoundsAssumption

\* A step of the thread of one forwarder.
LEMMA OneMoves ==
    ASSUME LineInv, NEW h \in Forwarders, NEW s, Good(s), Handed(s) = Handed(forwarder[h]),
           s.stop = forwarder[h].stop, forwarder[h].at \in {"get", "send"}, Put(h, s)
    PROVE  LineInv'
  <1>1. \A g \in Forwarders : forwarder'[g] = IF g = h THEN s ELSE forwarder[g]
    BY DEF Put, LineInv
  <1>2. \A g \in Forwarders : Good(forwarder'[g]) /\ Handed(forwarder'[g]) = Handed(forwarder[g])
    BY <1>1 DEF LineInv
  <1>3. OneForwarder'
    BY <1>1 DEF LineInv, OneForwarder, Put
  <1>4. DOMAIN forwarder' = Forwarders
    BY DEF Put, LineInv
  <1> QED  BY <1>2, <1>3, <1>4 DEF LineInv, Put

LEMMA ThreadMoves ==
    ASSUME BoundsAssumption
    PROVE  LineInv /\ (\E t \in Threads : Emit(t) \/ Hand(t)) => LineInv'
  <1> SUFFICES ASSUME LineInv, NEW t \in Threads, Emit(t) \/ Hand(t) PROVE LineInv'
    OBVIOUS
  <1>1. CASE Emit(t)
    <2>1. /\ emitted \in Nat /\ emitted' = emitted + 1 /\ emitted' <= MaxRecords
          /\ live \in Forwarders
      BY <1>1 DEF Emit, LineInv, BoundsAssumption
    <2>2. \A u \in Threads : thread'[u] = IF u = t THEN [line |-> emitted + 1, to |-> live] ELSE thread[u]
      BY <1>1, <2>1 DEF Emit, LineInv
    <2>3. thread' \in [Threads -> [line : 0 .. emitted', to : Forwarders \cup {0}]]
      BY <1>1, <2>1 DEF Emit, LineInv
    <2>4. \A h \in Forwarders : emitted + 1 \notin Handed(forwarder[h])
      BY <2>1 DEF LineInv
    <2>5. \A u \in Threads : thread[u].line \in 0 .. emitted
      BY DEF LineInv
    <2>6. \A u \in Threads :
             thread'[u] # Idle =>
                 /\ thread'[u].line \in 1 .. emitted' /\ thread'[u].to \in Forwarders
                 /\ \A h \in Forwarders : thread'[u].line \notin Handed(forwarder'[h])
                 /\ \A v \in Threads \ {u} : thread'[v].line # thread'[u].line
      BY <1>1, <2>1, <2>2, <2>4, <2>5 DEF Emit, LineInv
    <2>7. \A h \in Forwarders : Good(forwarder'[h]) /\ Handed(forwarder'[h]) \subseteq 1 .. emitted'
      BY <1>1, <2>1 DEF Emit, LineInv
    <2> QED  BY <1>1, <2>1, <2>3, <2>6, <2>7 DEF Emit, LineInv, OneForwarder, BoundsAssumption
  <1>2. CASE Hand(t)
    <2> DEFINE n == thread[t].line
               g == thread[t].to
    <2>1. n \in 1 .. emitted /\ g \in Forwarders /\ \A h \in Forwarders : n \notin Handed(forwarder[h])
      BY <1>2 DEF Hand, LineInv
    <2> DEFINE s == Handover(forwarder[g], n)
    <2>2. forwarder' = [forwarder EXCEPT ![g] = s]
      BY <1>2 DEF Hand, Handover
    <2>3. n \in Nat /\ Good(forwarder[g])
      BY <2>1 DEF LineInv
    <2>4. Good(s) /\ Handed(s) = Handed(forwarder[g]) \cup {n}
      BY <2>1, <2>3, HandGood
    <2>5. s.at = forwarder[g].at /\ s.stop = forwarder[g].stop
      BY <2>3 DEF Good, Handler, Handover
    <2>6. \A h \in Forwarders : forwarder'[h] = IF h = g THEN s ELSE forwarder[h]
      BY <2>2 DEF LineInv
    <2>7. \A u \in Threads : thread'[u] = IF u = t THEN Idle ELSE thread[u]
      BY <1>2 DEF Hand, LineInv
    <2>8. thread' \in [Threads -> [line : 0 .. emitted, to : Forwarders \cup {0}]]
      BY <1>2 DEF Hand, LineInv, Idle, BoundsAssumption
    <2>9. \A u \in Threads :
             thread'[u] # Idle =>
                 /\ thread'[u].line \in 1 .. emitted /\ thread'[u].to \in Forwarders
                 /\ \A h \in Forwarders : thread'[u].line \notin Handed(forwarder'[h])
                 /\ \A v \in Threads \ {u} : thread'[v].line # thread'[u].line
      <3> SUFFICES ASSUME NEW u \in Threads, thread'[u] # Idle
                   PROVE  /\ thread'[u].line \in 1 .. emitted /\ thread'[u].to \in Forwarders
                          /\ \A h \in Forwarders : thread'[u].line \notin Handed(forwarder'[h])
                          /\ \A v \in Threads \ {u} : thread'[v].line # thread'[u].line
        OBVIOUS
      <3>1. u # t /\ thread'[u] = thread[u] /\ thread[u].line \in 1 .. emitted
        BY <2>7 DEF LineInv
      <3>2. thread[u].line # n
        BY <3>1, <2>7 DEF LineInv
      <3>3. \A h \in Forwarders : thread[u].line \notin Handed(forwarder'[h])
        BY <2>4, <2>6, <3>1, <3>2, <2>7 DEF LineInv
      <3>4. \A v \in Threads \ {u} : thread'[v].line # thread[u].line
        BY <2>7, <3>1 DEF LineInv, Idle
      <3>5. thread[u].to \in Forwarders
        BY <2>7, <3>1 DEF LineInv
      <3> QED  BY <3>1, <3>3, <3>4, <3>5
    <2>10. \A h \in Forwarders : Good(forwarder'[h]) /\ Handed(forwarder'[h]) \subseteq 1 .. emitted
      BY <2>1, <2>4, <2>6 DEF LineInv
    <2>11. OneForwarder'
      BY <1>2, <2>5, <2>6 DEF Hand, LineInv, OneForwarder
    <2>12. DOMAIN forwarder' = Forwarders
      BY <2>2 DEF LineInv
    <2> QED  BY <1>2, <2>8, <2>9, <2>10, <2>11, <2>12 DEF Hand, LineInv
  <1> QED  BY <1>1, <1>2

LEMMA ForwarderMoves ==
    ASSUME BoundsAssumption
    PROVE  LineInv /\ (\E h \in Forwarders : Take(h) \/ NoticeClose(h) \/ Send(h) \/ SendFails(h)) => LineInv'
  <1> SUFFICES ASSUME LineInv, NEW h \in Forwarders,
                      Take(h) \/ NoticeClose(h) \/ Send(h) \/ SendFails(h)
               PROVE  LineInv'
    OBVIOUS
  <1> DEFINE r == forwarder[h]
  <1>1. Good(r) /\ r \in Handler /\ GoOn(h) \in {"get", "ended"}
    BY DEF LineInv, Good, GoOn
  <1>2. CASE Take(h)
    <2> DEFINE s == [r EXCEPT !.at = "send", !.line = Head(r.queue), !.queue = Tail(@)]
    <2>1. r.at = "get" /\ r.queue # <<>> /\ Put(h, s)
      BY <1>2 DEF Take
    <2>2. Good(s) /\ Handed(s) = Handed(r)
      BY <1>1, <2>1, TakeGood
    <2>3. s.stop = r.stop
      BY <1>1 DEF Handler
    <2> QED  BY <2>1, <2>2, <2>3, OneMoves
  <1>3. CASE NoticeClose(h)
    <2> DEFINE s == [r EXCEPT !.at = "ended"]
    <2>1. r.at = "get" /\ Put(h, s)
      BY <1>3 DEF NoticeClose
    <2>2. Good(s) /\ Handed(s) = Handed(r)
      BY <1>1, <2>1, CloseGood
    <2>3. s.stop = r.stop
      BY <1>1 DEF Handler
    <2> QED  BY <2>1, <2>2, <2>3, OneMoves
  <1>4. CASE Send(h) \/ SendFails(h)
    <2>1. PICK s : /\ r.at = "send" /\ Put(h, s)
                   /\ \/ s = [r EXCEPT !.at = GoOn(h), !.line = 0, !.sent = @ + 1, !.arrived = Append(@, r.line)]
                      \/ s = Failed(h)
                      \/ s = [Failed(h) EXCEPT !.arrived = Append(@, r.line)]
      BY <1>4 DEF Send, SendFails
    <2>2. /\ s \in Handler /\ s.at \in {"get", "ended"} /\ s.stop = r.stop
          /\ s.given = r.given /\ s.queue = r.queue /\ s.dropped = r.dropped
      <3>1. Append(r.arrived, r.line) \in Seq(Nat) /\ r.sent + 1 \in Nat /\ r.errors + 1 \in Nat
        BY <1>1, Fields
      <3>2. /\ Failed(h) \in Handler /\ Failed(h).at = GoOn(h) /\ Failed(h).stop = r.stop
            /\ Failed(h).given = r.given /\ Failed(h).queue = r.queue /\ Failed(h).dropped = r.dropped
        BY <1>1, <3>1 DEF Failed, Handler
      <3>3. CASE s = [r EXCEPT !.at = GoOn(h), !.line = 0, !.sent = @ + 1, !.arrived = Append(@, r.line)]
        BY <1>1, <3>1, <3>3 DEF Handler
      <3>4. CASE s = Failed(h)
        BY <1>1, <3>2, <3>4
      <3>5. CASE s = [Failed(h) EXCEPT !.arrived = Append(@, r.line)]
        <4>1. Failed(h).arrived = r.arrived
          BY <1>1 DEF Failed, Handler
        <4> QED  BY <1>1, <3>1, <3>2, <3>5, <4>1 DEF Handler
      <3> QED  BY <2>1, <3>3, <3>4, <3>5
    <2>3. \/ s.sent = r.sent + 1 /\ s.errors = r.errors
          \/ s.sent = r.sent /\ s.errors = r.errors + 1
      BY <1>1, <2>1 DEF Failed, Handler
    <2>4. s.arrived \in {r.arrived, Append(r.arrived, r.line)}
      BY <1>1, <2>1 DEF Failed, Handler
    <2>5. Good(s) /\ Handed(s) = Handed(r)
      BY <1>1, <2>1, <2>2, <2>3, <2>4, SendGood
    <2> QED  BY <2>1, <2>2, <2>5, OneMoves
  <1> QED  BY <1>2, <1>3, <1>4

\* A forwarder is put in the place of the live one, which is closed, or none is.
LEMMA ConfigureMoves ==
    ASSUME BoundsAssumption
    PROVE  LineInv /\ (\E q \in Reloads : Apply(q)) => LineInv'
  <1> SUFFICES ASSUME LineInv, NEW q \in Reloads, Apply(q) PROVE LineInv'
    OBVIOUS
  <1>1. \A h \in Forwarders :
            /\ Good(Closed(forwarder)[h]) /\ Handed(Closed(forwarder)[h]) = Handed(forwarder[h])
            /\ Closed(forwarder)[h].at = forwarder[h].at
            /\ Closed(forwarder)[h].stop = IF h = live THEN TRUE ELSE forwarder[h].stop
    <2> SUFFICES ASSUME NEW h \in Forwarders
                 PROVE  /\ Good(Closed(forwarder)[h]) /\ Handed(Closed(forwarder)[h]) = Handed(forwarder[h])
                        /\ Closed(forwarder)[h].at = forwarder[h].at
                        /\ Closed(forwarder)[h].stop = IF h = live THEN TRUE ELSE forwarder[h].stop
      OBVIOUS
    <2>1. Good(forwarder[h]) /\ forwarder[h] \in Handler
      BY DEF LineInv, Good
    <2>2. CASE h = live
      <3>1. Closed(forwarder)[h] = [forwarder[h] EXCEPT !.stop = TRUE]
        BY <2>2 DEF Closed
      <3> QED  BY <2>1, <2>2, <3>1, CloseGood DEF Handler
    <2>3. CASE h # live
      BY <2>1, <2>3 DEF Closed
    <2> QED  BY <2>2, <2>3
  <1>2. \A h \in Forwarders : Closed(forwarder)[h].at \in {"get", "send"} => Closed(forwarder)[h].stop
    BY <1>1 DEF LineInv, OneForwarder
  <1>3. DOMAIN Closed(forwarder) = Forwarders
    BY DEF Closed
  <1>4. /\ live' \in Forwarders \cup {0} /\ DOMAIN forwarder' = Forwarders
        /\ \A h \in Forwarders :
              \/ forwarder'[h] = Closed(forwarder)[h]
              \/ h = live' /\ forwarder'[h] = [New EXCEPT !.at = "get"]
    BY <1>3 DEF Apply, Configure, Fresh
  <1>5. Good([New EXCEPT !.at = "get"]) /\ Handed([New EXCEPT !.at = "get"]) = {}
    BY NewGood
  <1>6. \A h \in Forwarders : Good(forwarder'[h]) /\ Handed(forwarder'[h]) \subseteq Handed(forwarder[h])
    BY <1>1, <1>4, <1>5
  <1>7. OneForwarder'
    BY <1>2, <1>4 DEF OneForwarder
  <1>8. reload' \in [Reloads -> {"idle", "on", "off"}]
    BY DEF Apply, LineInv
  <1> QED  BY <1>4, <1>6, <1>7, <1>8 DEF Apply, LineInv

LEMMA RestMoves ==
    ASSUME BoundsAssumption
    PROVE  LineInv /\ (Switch \/ Restart \/ (\E q \in Reloads : ReadSettings(q)) \/ UNCHANGED vars) => LineInv'
  <1> SUFFICES ASSUME LineInv, Switch \/ Restart \/ (\E q \in Reloads : ReadSettings(q)) \/ UNCHANGED vars
               PROVE  LineInv'
    OBVIOUS
  <1>1. CASE Switch
    BY <1>1 DEF Switch, LineInv, OneForwarder
  <1>2. CASE \E q \in Reloads : ReadSettings(q)
    BY <1>2 DEF ReadSettings, LineInv, OneForwarder
  <1>3. CASE UNCHANGED vars
    BY <1>3 DEF vars, LineInv, OneForwarder
  <1>4. CASE Restart
    <2>1. Good([New EXCEPT !.at = "get"]) /\ Handed([New EXCEPT !.at = "get"]) = {}
      BY NewGood
    <2>2. \A h \in Forwarders : Good(forwarder'[h]) /\ Handed(forwarder'[h]) = {}
      BY <1>4, <2>1, NewGood DEF Restart
    <2>3. OneForwarder' /\ DOMAIN forwarder' = Forwarders
      BY <1>4 DEF Restart, OneForwarder, New
    <2>4. thread' \in [Threads -> [line : 0 .. emitted, to : Forwarders \cup {0}]]
          /\ \A t \in Threads : thread'[t] = Idle
      BY <1>4 DEF Restart, LineInv, Idle
    <2>5. live' \in Forwarders \cup {0} /\ reload' \in [Reloads -> {"idle", "on", "off"}]
      BY <1>4 DEF Restart, LineInv, Forwarders, BoundsAssumption
    <2>6. emitted' = emitted /\ enabled' = enabled
      BY <1>4 DEF Restart
    <2> QED  BY <2>2, <2>3, <2>4, <2>5, <2>6 DEF LineInv
  <1> QED  BY <1>1, <1>2, <1>3, <1>4

THEOREM LinesInductive ==
    ASSUME BoundsAssumption
    PROVE  Spec => []LineInv
  <1>1. LineInv /\ [Next]_vars => LineInv'
    BY ThreadMoves, ForwarderMoves, ConfigureMoves, RestMoves DEF Next
  <1> QED  BY <1>1, InitLines, PTL DEF Spec

-----------------------------------------------------------------------------
(* What follows *)

\* A forwarder was handed no more records than there have been.
LEMMA FewHanded ==
    ASSUME NEW r, Good(r), NEW n \in Nat, Handed(r) \subseteq 1 .. n
    PROVE  Len(r.given) <= n
  <1>1. Len(r.given) \in Nat /\ r.given \in [1 .. Len(r.given) -> 1 .. n]
    BY Fields DEF Handed
  <1>2. /\ IsFiniteSet(1 .. n) /\ Cardinality(1 .. n) = n
        /\ IsFiniteSet(1 .. Len(r.given)) /\ Cardinality(1 .. Len(r.given)) = Len(r.given)
    <2>1. \A k \in Nat : IsFiniteSet(1 .. k) /\ Cardinality(1 .. k) = k
      <3> SUFFICES ASSUME NEW k \in Nat PROVE IsFiniteSet(1 .. k) /\ Cardinality(1 .. k) = k
        OBVIOUS
      <3>1. 1 \in Int /\ k \in Int
        OBVIOUS
      <3> QED  BY <3>1, FS_Interval
    <2> QED  BY <1>1, <2>1
  <1>3. ~(n < Len(r.given))
    <2> SUFFICES ASSUME n < Len(r.given) PROVE FALSE
      OBVIOUS
    <2>1. \E i, j \in 1 .. Len(r.given) : i # j /\ r.given[i] = r.given[j]
      BY <1>1, <1>2, FS_PigeonHole
    <2> QED  BY <2>1 DEF Good, Once
  <1> QED  BY <1>1, <1>3

LEMMA PlaceOf ==
    ASSUME NEW r, Good(r), NEW a, NEW b, Before(r, a, b)
    PROVE  Position(a, r.given) < Position(b, r.given)
  BY DEF Good, Once, Before, Position, Handler

\* Every line handed to a forwarder is counted, arrives in order and at most once, and
\* a forwarder that was replaced ends (log_forward.py).
THEOREM LinesHold ==
    ASSUME BoundsAssumption
    PROVE  Spec => []LinesKept
  <1>1. LineInv => TypeOK
    <2> SUFFICES ASSUME LineInv PROVE TypeOK
      OBVIOUS
    <2>1. ASSUME NEW h \in Forwarders
          PROVE  {forwarder[h].sent, forwarder[h].dropped, forwarder[h].errors} \subseteq 0 .. emitted
      <3>1. Len(forwarder[h].given) <= emitted /\ emitted \in Nat
        BY FewHanded DEF LineInv, BoundsAssumption
      <3>2. Good(forwarder[h])
        BY DEF LineInv
      <3> DEFINE r == forwarder[h]
      <3>3. /\ r.sent \in Nat /\ r.dropped \in Nat /\ r.errors \in Nat /\ Len(r.given) \in Nat
            /\ r.sent <= Len(r.given) /\ r.dropped <= Len(r.given) /\ r.errors <= Len(r.given)
        BY <3>2, Fields
      <3>4. r.sent \in 0 .. emitted /\ r.dropped \in 0 .. emitted /\ r.errors \in 0 .. emitted
        BY <3>1, <3>3
      <3> QED  BY <3>4
    <2> QED  BY <2>1 DEF LineInv, TypeOK, Good, Handler
  <1>2. LineInv => EveryLineCounted
    BY DEF LineInv, EveryLineCounted, Good, Counted, Busy
  <1>3. LineInv => ArrivesInOrder
    <2> SUFFICES ASSUME LineInv, NEW h \in Forwarders, NEW i \in 2 .. Len(forwarder[h].arrived)
                 PROVE  Position(forwarder[h].arrived[i - 1], forwarder[h].given)
                            < Position(forwarder[h].arrived[i], forwarder[h].given)
      BY DEF ArrivesInOrder
    <2>1. Good(forwarder[h])
      BY DEF LineInv
    <2>2. Before(forwarder[h], forwarder[h].arrived[i - 1], forwarder[h].arrived[i])
      <3>1. i - 1 \in 1 .. Len(forwarder[h].arrived) /\ i \in 1 .. Len(forwarder[h].arrived) /\ i - 1 < i
        BY <2>1, Fields
      <3> QED  BY <2>1, <3>1 DEF Good, InOrder
    <2> QED  BY <2>1, <2>2, PlaceOf
  <1> QED  BY <1>1, <1>2, <1>3, LinesInductive, PTL DEF LineInv, LinesKept

-----------------------------------------------------------------------------
(* Log records on their way into app_logs (LogStore)                       *)

Rising(s) == \A i, j \in 1 .. Len(s) : i < j => s[i] < s[j]

\* A table with the newest of the records in it, as much of them as it may hold.
Holds(table, records) ==
    /\ table \in Seq(Nat) /\ Rising(table) /\ Len(table) <= MaxRows
    /\ File!SetOf(table) \subseteq records
    /\ Len(table) >= MaxRows - 1 \/ File!SetOf(table) = records
    /\ \A n \in records \ File!SetOf(table) : \A i \in 1 .. Len(table) : n < table[i]

Batch == flusher.batch

\* Records are written in the order they were emitted in.
OnTheWay ==
    /\ queue \in Seq(Nat) /\ Batch \in Seq(Nat) /\ Rising(queue) /\ Rising(Batch)
    /\ File!SetOf(queue) \cup File!SetOf(Batch) \cup filed \subseteq 1 .. emitted
    /\ \A n \in filed : \A m \in File!SetOf(Batch) \cup File!SetOf(queue) : n < m
    /\ \A n \in File!SetOf(Batch), m \in File!SetOf(queue) : n < m

\* Once the thread has seen the stop, what is queued was emitted after it.
Ending ==
    /\ flusher.at \in {"final", "last", "ended"} => process = "stopping"
    /\ process = "down" => flusher = File!Waiting
    /\ flusher.at \in {"last", "ended"} => \A n \in File!SetOf(queue) : n > flusher.owed
    /\ flusher.at \notin {"write", "last"} => Batch = << >>

FileInv ==
    /\ process \in {"up", "stopping", "down"} /\ emitted \in 0 .. MaxRecords
    /\ flusher \in [at : {"wait", "write", "final", "last", "ended"}, batch : Seq(Nat), owed : Nat]
    /\ flusher.owed <= emitted
    /\ OnTheWay /\ Ending /\ Holds(rows, filed)

LEMMA SetOfEmpty == File!SetOf(<< >>) = {} /\ << >> \in Seq(Nat) /\ Rising(<< >>) /\ Len(<< >>) = 0
  BY DEF File!SetOf, Rising

LEMMA SetOfAppend ==
    ASSUME NEW s \in Seq(Nat), NEW n \in Nat, Rising(s), \A m \in File!SetOf(s) : m < n
    PROVE  /\ Append(s, n) \in Seq(Nat) /\ Rising(Append(s, n))
           /\ File!SetOf(Append(s, n)) = File!SetOf(s) \cup {n}
  <1>1. /\ Len(Append(s, n)) = Len(s) + 1 /\ Append(s, n) \in Seq(Nat)
        /\ \A i \in 1 .. Len(s) : Append(s, n)[i] = s[i]
        /\ Append(s, n)[Len(s) + 1] = n
    OBVIOUS
  <1>2. \A i \in 1 .. Len(s) : s[i] \in File!SetOf(s)
    BY DEF File!SetOf
  <1>3. Rising(Append(s, n))
    BY <1>1, <1>2 DEF Rising
  <1>4. File!SetOf(Append(s, n)) \subseteq File!SetOf(s) \cup {n}
    <2> SUFFICES ASSUME NEW i \in 1 .. Len(s) + 1 PROVE Append(s, n)[i] \in File!SetOf(s) \cup {n}
      BY <1>1 DEF File!SetOf
    <2>1. i \in 1 .. Len(s) \/ i = Len(s) + 1
      OBVIOUS
    <2> QED  BY <1>1, <1>2, <2>1
  <1>5. File!SetOf(s) \cup {n} \subseteq File!SetOf(Append(s, n))
    <2>1. 1 .. Len(s) \subseteq 1 .. Len(Append(s, n)) /\ Len(s) + 1 \in 1 .. Len(Append(s, n))
      BY <1>1
    <2> QED  BY <1>1, <2>1 DEF File!SetOf
  <1> QED  BY <1>1, <1>3, <1>4, <1>5

LEMMA SetOfConcat ==
    ASSUME NEW s \in Seq(Nat), NEW t \in Seq(Nat), Rising(s), Rising(t),
           \A n \in File!SetOf(s), m \in File!SetOf(t) : n < m
    PROVE  /\ s \o t \in Seq(Nat) /\ Rising(s \o t) /\ Len(s \o t) = Len(s) + Len(t)
           /\ File!SetOf(s \o t) = File!SetOf(s) \cup File!SetOf(t)
  <1> DEFINE u == s \o t
  <1>1. /\ u \in Seq(Nat) /\ Len(u) = Len(s) + Len(t)
        /\ \A i \in 1 .. Len(s) + Len(t) : u[i] = IF i <= Len(s) THEN s[i] ELSE t[i - Len(s)]
    BY ConcatProperties
  <1>2. Len(s) \in Nat /\ Len(t) \in Nat
    OBVIOUS
  <1> HIDE DEF u
  <1>3. /\ \A i \in 1 .. Len(s) : i \in 1 .. Len(u) /\ u[i] = s[i] /\ s[i] \in File!SetOf(s)
        /\ \A i \in 1 .. Len(t) : Len(s) + i \in 1 .. Len(u) /\ u[Len(s) + i] = t[i] /\ t[i] \in File!SetOf(t)
    <2>1. \A i \in 1 .. Len(s) : i \in 1 .. Len(u) /\ u[i] = s[i]
      BY <1>1, <1>2
    <2>2. ASSUME NEW i \in 1 .. Len(t) PROVE Len(s) + i \in 1 .. Len(u) /\ u[Len(s) + i] = t[i]
      <3>1. Len(s) + i \in 1 .. Len(s) + Len(t) /\ ~(Len(s) + i <= Len(s)) /\ Len(s) + i - Len(s) = i
        BY <1>2
      <3> QED  BY <1>1, <3>1
    <2>3. (\A i \in 1 .. Len(s) : s[i] \in File!SetOf(s)) /\ (\A i \in 1 .. Len(t) : t[i] \in File!SetOf(t))
      BY DEF File!SetOf
    <2> QED  BY <2>1, <2>2, <2>3
  <1>4. \A i \in 1 .. Len(u) : i \in 1 .. Len(s) \/ (i - Len(s) \in 1 .. Len(t) /\ i = Len(s) + (i - Len(s)))
    BY <1>1, <1>2
  <1>5. File!SetOf(u) = File!SetOf(s) \cup File!SetOf(t)
    <2>1. ASSUME NEW i \in 1 .. Len(u) PROVE u[i] \in File!SetOf(s) \cup File!SetOf(t)
      BY <1>3, <1>4
    <2>2. ASSUME NEW n \in File!SetOf(s) \cup File!SetOf(t) PROVE \E i \in 1 .. Len(u) : u[i] = n
      BY <1>3 DEF File!SetOf
    <2> QED  BY <2>1, <2>2 DEF File!SetOf
  <1>6. ASSUME NEW i \in 1 .. Len(u), NEW j \in 1 .. Len(u), i < j PROVE u[i] < u[j]
    <2>1. CASE j \in 1 .. Len(s)
      <3>1. i \in 1 .. Len(s)
        BY <1>2, <1>6, <2>1
      <3> QED  BY <1>3, <1>6, <2>1, <3>1 DEF Rising
    <2>2. CASE i \in 1 .. Len(s) /\ j - Len(s) \in 1 .. Len(t)
      <3>1. u[i] \in File!SetOf(s)
        BY <1>3, <2>2
      <3>2. u[j] \in File!SetOf(t)
        <4>1. j = Len(s) + (j - Len(s))
          BY <1>2
        <4> QED  BY <1>3, <2>2, <4>1
      <3> QED  BY <3>1, <3>2
    <2>3. CASE i - Len(s) \in 1 .. Len(t) /\ j - Len(s) \in 1 .. Len(t)
      <3>1. u[i] = t[i - Len(s)] /\ u[j] = t[j - Len(s)] /\ i - Len(s) < j - Len(s)
        BY <1>2, <1>3, <1>4, <1>6, <2>3
      <3> QED  BY <2>3, <3>1 DEF Rising
    <2> QED  BY <1>2, <1>4, <1>6, <2>1, <2>2, <2>3
  <1> QED  BY <1>1, <1>5, <1>6 DEF Rising, u

LEMMA NewestOf ==
    ASSUME NEW s \in Seq(Nat), Rising(s), NEW n \in Nat, n <= Len(s)
    PROVE  LET new == File!Newest(s, n) IN
           /\ new \in Seq(Nat) /\ Rising(new) /\ Len(new) = n
           /\ File!SetOf(new) \subseteq File!SetOf(s)
           /\ \A m \in File!SetOf(s) \ File!SetOf(new) : \A i \in 1 .. Len(new) : m < new[i]
  <1> DEFINE new == File!Newest(s, n)
             from == Len(s) - n + 1
  <1>1. Len(s) \in Nat /\ from \in Int /\ from >= 1
    OBVIOUS
  <1>2. \A i \in from .. Len(s) : s[i] \in Nat
    BY <1>1, ElementOfSeq
  <1>3. /\ new \in Seq(Nat) /\ Len(new) = n
        /\ \A i \in 1 .. n : new[i] = s[from + i - 1]
    <2>1. /\ SubSeq(s, from, Len(s)) \in Seq(Nat)
          /\ Len(SubSeq(s, from, Len(s))) = IF from <= Len(s) THEN Len(s) - from + 1 ELSE 0
          /\ \A i \in 1 .. Len(s) - from + 1 : SubSeq(s, from, Len(s))[i] = s[from + i - 1]
      BY <1>1, <1>2, SubSeqProperties
    <2> QED  BY <1>1, <2>1 DEF File!Newest
  <1> HIDE DEF new
  <1>4. \A i \in 1 .. n : from + i - 1 \in 1 .. Len(s)
    BY <1>1
  <1>5. Rising(new)
    <2> SUFFICES ASSUME NEW i \in 1 .. Len(new), NEW j \in 1 .. Len(new), i < j PROVE new[i] < new[j]
      BY DEF Rising
    <2>1. /\ new[i] = s[from + i - 1] /\ from + i - 1 \in 1 .. Len(s)
          /\ new[j] = s[from + j - 1] /\ from + j - 1 \in 1 .. Len(s)
      BY <1>3, <1>4
    <2>2. from + i - 1 < from + j - 1
      BY <1>1
    <2> HIDE DEF from
    <2> QED  BY <2>1, <2>2 DEF Rising
  <1>6. File!SetOf(new) \subseteq File!SetOf(s)
    <2> SUFFICES ASSUME NEW i \in 1 .. Len(new) PROVE new[i] \in File!SetOf(s)
      BY DEF File!SetOf
    <2>1. new[i] = s[from + i - 1] /\ from + i - 1 \in 1 .. Len(s)
      BY <1>3, <1>4
    <2> HIDE DEF from
    <2> QED  BY <2>1 DEF File!SetOf
  <1>7. ASSUME NEW m \in File!SetOf(s) \ File!SetOf(new), NEW i \in 1 .. Len(new) PROVE m < new[i]
    <2>1. PICK k \in 1 .. Len(s) : m = s[k]
      BY DEF File!SetOf
    <2>2. k < from
      <3> SUFFICES ASSUME k >= from PROVE FALSE
        BY <1>1
      <3>1. k - from + 1 \in 1 .. n /\ from + (k - from + 1) - 1 = k
        BY <1>1
      <3> QED  BY <1>3, <2>1, <3>1 DEF File!SetOf
    <2>3. k < from + i - 1 /\ from + i - 1 \in 1 .. Len(s) /\ new[i] = s[from + i - 1]
      BY <1>1, <1>3, <1>4, <2>2
    <2> QED  BY <2>1, <2>3 DEF Rising
  <1> QED  BY <1>3, <1>5, <1>6, <1>7 DEF new

\* A batch that comes after all there are.
LEMMA BatchHeld ==
    ASSUME File!BoundsAssumption, NEW batch \in Seq(Nat), Rising(batch), Holds(rows, filed), filed \subseteq Nat,
           \A n \in filed : \A m \in File!SetOf(batch) : n < m
    PROVE  Holds(File!Stored(batch), filed \cup File!SetOf(batch))
  <1> DEFINE all == rows \o batch
             records == filed \cup File!SetOf(batch)
  <1>1. /\ all \in Seq(Nat) /\ Rising(all) /\ Len(all) = Len(rows) + Len(batch)
        /\ File!SetOf(all) = File!SetOf(rows) \cup File!SetOf(batch)
    BY SetOfConcat DEF Holds
  <1>2. /\ File!SetOf(all) \subseteq records /\ records \subseteq Nat
        /\ Len(rows) \in Nat /\ Len(batch) \in Nat /\ MaxRows \in Nat \ {0}
    <2>1. File!SetOf(batch) \subseteq Nat /\ Len(batch) \in Nat
      BY DEF File!SetOf
    <2>2. File!SetOf(rows) \subseteq filed /\ Len(rows) \in Nat
      BY DEF Holds
    <2> QED  BY <1>1, <2>1, <2>2 DEF File!BoundsAssumption
  <1> HIDE DEF all
  <1>3. ASSUME NEW n \in records \ File!SetOf(all), NEW i \in 1 .. Len(all) PROVE n < all[i]
    <2>1. n \in filed \ File!SetOf(rows) /\ all[i] \in File!SetOf(rows) \cup File!SetOf(batch)
      BY <1>1, <1>3 DEF File!SetOf
    <2>2. \A m \in File!SetOf(rows) : n < m
      BY <2>1 DEF Holds, File!SetOf
    <2> QED  BY <2>1, <2>2
  <1>4. CASE Len(all) >= MaxRows
    <2> DEFINE new == File!Newest(all, MaxRows - 1)
    <2>1. /\ new \in Seq(Nat) /\ Rising(new) /\ Len(new) = MaxRows - 1
          /\ File!SetOf(new) \subseteq File!SetOf(all)
          /\ \A m \in File!SetOf(all) \ File!SetOf(new) : \A i \in 1 .. Len(new) : m < new[i]
      <3>1. MaxRows - 1 \in Nat /\ MaxRows - 1 <= Len(all)
        BY <1>1, <1>2, <1>4
      <3> QED  BY <1>1, <3>1, NewestOf
    <2>2. File!Stored(batch) = new
      BY <1>4 DEF File!Stored, all
    <2> HIDE DEF new
    <2>3. ASSUME NEW n \in records \ File!SetOf(new), NEW i \in 1 .. Len(new) PROVE n < new[i]
      <3>1. CASE n \in File!SetOf(all)
        BY <2>1, <3>1
      <3>2. CASE n \notin File!SetOf(all)
        <4>1. PICK k \in 1 .. Len(all) : new[i] = all[k]
          BY <2>1 DEF File!SetOf
        <4> QED  BY <1>3, <3>2, <4>1
      <3> QED  BY <3>1, <3>2
    <2>4. Len(new) <= MaxRows /\ Len(new) >= MaxRows - 1
      BY <1>2, <2>1
    <2> QED  BY <1>2, <2>1, <2>2, <2>3, <2>4 DEF Holds
  <1>5. CASE Len(all) < MaxRows
    <2>1. File!Stored(batch) = all
      BY <1>1, <1>2, <1>5 DEF File!Stored, all
    <2>2. Len(all) >= MaxRows - 1 \/ File!SetOf(all) = records
      <3>1. CASE File!SetOf(rows) = filed
        BY <1>1, <3>1
      <3>2. CASE Len(rows) >= MaxRows - 1
        BY <1>1, <1>2, <3>2
      <3> QED  BY <3>1, <3>2 DEF Holds
    <2>3. Len(all) <= MaxRows
      BY <1>1, <1>2, <1>5
    <2> QED  BY <1>1, <1>2, <1>3, <2>1, <2>2, <2>3 DEF Holds
  <1> QED  BY <1>1, <1>2, <1>4, <1>5

LEMMA FileStep == ASSUME File!BoundsAssumption, FileInv, [File!Next]_(File!vars) PROVE FileInv'
  <1> USE DEF FileInv
  <1>1. CASE File!Emit
    <2>1. /\ emitted' = emitted + 1 /\ queue' = Append(queue, emitted + 1) /\ emitted' \in 0 .. MaxRecords
          /\ UNCHANGED <<process, flusher, rows, filed>> /\ process # "down"
      BY <1>1 DEF File!Emit, File!BoundsAssumption
    <2>2. /\ queue' \in Seq(Nat) /\ Rising(queue') /\ File!SetOf(queue') = File!SetOf(queue) \cup {emitted + 1}
      <3>1. emitted + 1 \in Nat /\ \A m \in File!SetOf(queue) : m < emitted + 1
        BY DEF OnTheWay
      <3> QED  BY <2>1, <3>1, SetOfAppend DEF OnTheWay
    <2>3. OnTheWay'
      BY <2>1, <2>2 DEF OnTheWay, Batch
    <2>4. Ending'
      BY <2>1, <2>2 DEF Ending, Batch
    <2> QED  BY <2>1, <2>3, <2>4
  <1>2. CASE File!Drain
    <2>1. /\ flusher' = [flusher EXCEPT !.at = IF @ = "wait" THEN "write" ELSE "last", !.batch = queue]
          /\ queue' = << >> /\ UNCHANGED <<process, emitted, rows, filed>> /\ process # "down"
          /\ flusher.at \in {"wait", "final"}
      BY <1>2 DEF File!Drain, File!Left
    <2>2. /\ flusher'.at = (IF flusher.at = "wait" THEN "write" ELSE "last")
          /\ flusher'.batch = queue /\ flusher'.owed = flusher.owed
          /\ flusher' \in [at : {"wait", "write", "final", "last", "ended"}, batch : Seq(Nat), owed : Nat]
      BY <2>1 DEF OnTheWay
    <2>3. OnTheWay'
      BY <2>1, <2>2, SetOfEmpty DEF OnTheWay, Batch
    <2>4. Ending'
      BY <2>1, <2>2, SetOfEmpty DEF Ending, Batch
    <2> QED  BY <2>1, <2>2, <2>3, <2>4
  <1>3. CASE File!Write
    <2>1. /\ flusher' = [flusher EXCEPT !.at = File!After, !.batch = << >>]
          /\ UNCHANGED <<process, emitted, queue>> /\ process # "down" /\ flusher.at \in {"write", "last"}
          /\ File!After \in {"ended", "final", "wait"}
          /\ File!After = "ended" => flusher.at = "last"
          /\ File!After \in {"ended", "final"} => process = "stopping"
      BY <1>3 DEF File!Write, File!After, Ending
    <2>2. /\ flusher'.at = File!After /\ flusher'.batch = << >> /\ flusher'.owed = flusher.owed
          /\ flusher' \in [at : {"wait", "write", "final", "last", "ended"}, batch : Seq(Nat), owed : Nat]
      BY <2>1, SetOfEmpty
    <2>3. Ending'
      BY <2>1, <2>2 DEF Ending, Batch
    <2>4. filed' = filed \/ filed' = filed \cup File!SetOf(Batch)
      BY <1>3 DEF File!Write, Batch
    <2>5. OnTheWay'
      BY <2>1, <2>2, <2>4, SetOfEmpty DEF OnTheWay, Batch
    <2>6. Holds(rows, filed)'
      <3>1. CASE UNCHANGED <<rows, filed>>
        BY <3>1 DEF Holds
      <3>2. CASE rows' = File!Stored(Batch) /\ filed' = filed \cup File!SetOf(Batch)
        <4>1. Holds(File!Stored(Batch), filed \cup File!SetOf(Batch))
          <5>1. /\ Batch \in Seq(Nat) /\ Rising(Batch) /\ filed \subseteq Nat
                /\ \A n \in filed : \A m \in File!SetOf(Batch) : n < m
            BY DEF OnTheWay
          <5> HIDE DEF Batch
          <5> QED  BY <5>1, BatchHeld
        <4> QED  BY <3>2, <4>1 DEF Holds
      <3> QED  BY <1>3, <3>1, <3>2 DEF File!Write, Batch
    <2> QED  BY <2>1, <2>2, <2>3, <2>5, <2>6
  <1>4. CASE File!ClearLogs
    <2>1. /\ rows' = << >> /\ filed' = {} /\ UNCHANGED <<process, emitted, queue, flusher>>
      BY <1>4 DEF File!ClearLogs
    <2>2. Holds(<< >>, {})
      BY SetOfEmpty DEF Holds, File!BoundsAssumption
    <2>3. OnTheWay' /\ Ending'
      BY <2>1 DEF OnTheWay, Ending, Batch
    <2> QED  BY <2>1, <2>2, <2>3 DEF Holds
  <1>5. CASE File!Stop
    <2>1. /\ process = "up" /\ process' = "stopping" /\ flusher' = [flusher EXCEPT !.owed = emitted]
          /\ UNCHANGED <<emitted, queue, rows, filed>>
      BY <1>5 DEF File!Stop
    <2>2. /\ flusher'.at = flusher.at /\ flusher'.batch = flusher.batch /\ flusher'.owed = emitted
          /\ flusher' \in [at : {"wait", "write", "final", "last", "ended"}, batch : Seq(Nat), owed : Nat]
      BY <2>1
    <2>3. OnTheWay' /\ Ending'
      BY <2>1, <2>2 DEF OnTheWay, Ending, Batch
    <2> QED  BY <2>1, <2>2, <2>3
  <1>6. CASE File!Exit
    <2>1. /\ process' = "down" /\ queue' = << >> /\ flusher' = File!Waiting
          /\ UNCHANGED <<emitted, rows, filed>>
      BY <1>6 DEF File!Exit
    <2>2. /\ flusher'.at = "wait" /\ flusher'.batch = << >> /\ flusher'.owed = 0
          /\ flusher' \in [at : {"wait", "write", "final", "last", "ended"}, batch : Seq(Nat), owed : Nat]
      BY <2>1, SetOfEmpty DEF File!Waiting
    <2>3. OnTheWay' /\ Ending'
      BY <2>1, <2>2, SetOfEmpty DEF OnTheWay, Ending, Batch
    <2> QED  BY <2>1, <2>2, <2>3
  <1>7. CASE File!Start
    <2>1. process = "down" /\ process' = "up" /\ UNCHANGED <<emitted, queue, flusher, rows, filed>>
      BY <1>7 DEF File!Start
    <2>2. flusher.at = "wait"
      BY <2>1 DEF Ending, File!Waiting
    <2>3. OnTheWay' /\ Ending'
      BY <2>1, <2>2 DEF OnTheWay, Ending, Batch
    <2> QED  BY <2>1, <2>3
  <1>8. CASE UNCHANGED File!vars
    BY <1>8 DEF File!vars, OnTheWay, Ending, Batch, Holds
  <1> QED  BY <1>1, <1>2, <1>3, <1>4, <1>5, <1>6, <1>7, <1>8 DEF File!Next

\* app_logs holds the newest of the records that were written, in the order they were
\* logged, and the end of the handler's thread leaves nothing unwritten that was logged
\* before the stop (logging_handler.py).
THEOREM LogsHold == File!Spec => []LogsKept
  <1>0. File!BoundsAssumption
    BY PartsAssumption
  <1>1. File!Init => FileInv
    <2> SUFFICES ASSUME File!Init PROVE FileInv
      OBVIOUS
    <2>1. /\ process = "up" /\ emitted = 0 /\ queue = << >> /\ rows = << >> /\ filed = {}
          /\ flusher.at = "wait" /\ flusher.batch = << >> /\ flusher.owed = 0
          /\ flusher \in [at : {"wait", "write", "final", "last", "ended"}, batch : Seq(Nat), owed : Nat]
      BY SetOfEmpty DEF File!Init, File!Waiting
    <2>2. Holds(<< >>, {}) /\ 0 \in 0 .. MaxRecords
      BY <1>0, SetOfEmpty DEF Holds, File!BoundsAssumption
    <2>3. OnTheWay /\ Ending
      BY <2>1, SetOfEmpty DEF OnTheWay, Ending, Batch
    <2> QED  BY <2>1, <2>2, <2>3 DEF FileInv, Holds
  <1>2. FileInv /\ [File!Next]_(File!vars) => FileInv'
    BY <1>0, FileStep
  <1>3. FileInv => LogsKept
    <2> SUFFICES ASSUME FileInv PROVE File!LogsKept
      BY DEF LogsKept
    <2>1. File!TypeOK
      <3>1. File!SetOf(queue) \cap File!SetOf(flusher.batch) = {}
        <4> SUFFICES ASSUME NEW n \in File!SetOf(queue), n \in File!SetOf(flusher.batch) PROVE FALSE
          OBVIOUS
        <4>1. n < n /\ n \in Nat
          BY DEF FileInv, OnTheWay, Batch
        <4> QED  BY <4>1
      <3> QED  BY <3>1 DEF File!TypeOK, FileInv, OnTheWay, Batch, Holds
    <2>2. File!LogsAreNewest
      <3>1. Len(rows) >= MaxRows - 1 \/ File!SetOf(rows) = filed
        BY DEF FileInv, Holds
      <3>2. \A i \in 1 .. Len(rows) : rows[i] \in filed /\ (i > 1 => rows[i - 1] < rows[i])
        <4> SUFFICES ASSUME NEW i \in 1 .. Len(rows) PROVE rows[i] \in filed /\ (i > 1 => rows[i - 1] < rows[i])
          OBVIOUS
        <4>1. rows[i] \in filed
          BY DEF FileInv, Holds, File!SetOf
        <4>2. i > 1 => i - 1 \in 1 .. Len(rows) /\ i - 1 < i
          BY DEF FileInv, Holds
        <4> QED  BY <4>1, <4>2 DEF FileInv, Holds, Rising
      <3>3. Len(rows) <= MaxRows
        BY DEF FileInv, Holds
      <3>4. \A n \in filed \ File!SetOf(rows) : \A i \in 1 .. Len(rows) : n < rows[i]
        BY DEF FileInv, Holds
      <3> QED  BY <3>1, <3>2, <3>3, <3>4 DEF File!LogsAreNewest
    <2>3. File!StopFlushes
      <3> SUFFICES ASSUME flusher.at = "ended", NEW n \in 1 .. flusher.owed
                   PROVE  n \notin File!SetOf(queue) \cup File!SetOf(flusher.batch)
        BY DEF File!StopFlushes
      <3>1. \A m \in File!SetOf(queue) : m > flusher.owed
        BY DEF FileInv, Ending
      <3>2. File!SetOf(flusher.batch) = {}
        BY SetOfEmpty DEF FileInv, Ending, Batch
      <3> QED  BY <3>1, <3>2 DEF FileInv, OnTheWay
    <2> QED  BY <2>1, <2>2, <2>3 DEF File!LogsKept
  <1> QED  BY <1>1, <1>2, <1>3, PTL DEF File!Spec

-----------------------------------------------------------------------------
(* Backups                                                                 *)

\* The directories, none of them twice.
Listing == {s \in Seq(1 .. Minutes) : \A i, j \in 1 .. Len(s) : s[i] = s[j] => i = j}

Among(m, s) == \E i \in 1 .. Len(s) : s[i] = m

LEMMA RemovedAt ==
    ASSUME NEW s \in Listing, NEW k \in 1 .. Len(s)
    PROVE  /\ Saved!RemoveAt(s, k) \in Listing /\ Len(Saved!RemoveAt(s, k)) = Len(s) - 1
           /\ \A i \in 1 .. Len(s) - 1 : Saved!RemoveAt(s, k)[i] = IF i < k THEN s[i] ELSE s[i + 1]
  <1> DEFINE a == SubSeq(s, 1, k - 1)
             b == SubSeq(s, k + 1, Len(s))
             t == Saved!RemoveAt(s, k)
  <1>0. Len(s) \in Nat /\ s \in Seq(1 .. Minutes) /\ k \in Nat /\ \A i \in 1 .. Len(s) : s[i] \in 1 .. Minutes
    <2>1. s \in Seq(1 .. Minutes)
      BY DEF Listing
    <2>2. Len(s) \in Nat /\ \A i \in 1 .. Len(s) : s[i] \in 1 .. Minutes
      <3> DEFINE names == 1 .. Minutes
      <3>1. s \in Seq(names)
        BY <2>1
      <3> HIDE DEF names
      <3>2. Len(s) \in Nat /\ \A i \in 1 .. Len(s) : s[i] \in names
        BY <3>1
      <3> QED  BY <3>2 DEF names
    <2>3. k \in Nat
      BY <2>2
    <2> QED  BY <2>1, <2>2, <2>3
  <1>1. /\ a \in Seq(1 .. Minutes) /\ Len(a) = k - 1 /\ \A i \in 1 .. k - 1 : a[i] = s[i]
    <2>1. \A i \in 1 .. k - 1 : s[i] \in 1 .. Minutes
      BY <1>0
    <2>2. /\ a \in Seq(1 .. Minutes) /\ Len(a) = (IF 1 <= k - 1 THEN k - 1 - 1 + 1 ELSE 0)
          /\ \A i \in 1 .. k - 1 - 1 + 1 : a[i] = s[1 + i - 1]
      BY <1>0, <2>1, SubSeqProperties
    <2> QED  BY <1>0, <2>2
  <1>2. /\ b \in Seq(1 .. Minutes) /\ Len(b) = Len(s) - k /\ \A i \in 1 .. Len(s) - k : b[i] = s[k + i]
    <2>1. \A i \in k + 1 .. Len(s) : s[i] \in 1 .. Minutes
      BY <1>0
    <2>2. /\ b \in Seq(1 .. Minutes) /\ Len(b) = (IF k + 1 <= Len(s) THEN Len(s) - (k + 1) + 1 ELSE 0)
          /\ \A i \in 1 .. Len(s) - (k + 1) + 1 : b[i] = s[k + 1 + i - 1]
      BY <1>0, <2>1, SubSeqProperties
    <2> QED  BY <1>0, <2>2
  <1>3. t = a \o b
    BY DEF Saved!RemoveAt
  <1> HIDE DEF a, b, t
  <1>4. /\ t \in Seq(1 .. Minutes) /\ Len(t) = Len(a) + Len(b)
        /\ \A i \in 1 .. Len(a) + Len(b) : t[i] = IF i <= Len(a) THEN a[i] ELSE b[i - Len(a)]
    BY <1>1, <1>2, <1>3, ConcatProperties
  <1>5. ASSUME NEW i \in 1 .. Len(s) - 1 PROVE t[i] = IF i < k THEN s[i] ELSE s[i + 1]
    <2>1. i \in 1 .. Len(a) + Len(b)
      BY <1>0, <1>1, <1>2
    <2>2. CASE i < k
      BY <1>0, <1>1, <1>4, <2>1, <2>2
    <2>3. CASE ~(i < k)
      <3>1. i - Len(a) \in 1 .. Len(s) - k /\ k + (i - Len(a)) = i + 1 /\ ~(i <= Len(a))
        BY <1>0, <1>1, <2>3
      <3> QED  BY <1>2, <1>4, <2>1, <2>3, <3>1
    <2> QED  BY <2>2, <2>3
  <1>6. Len(t) = Len(s) - 1
    BY <1>0, <1>1, <1>2, <1>4
  <1>7. ASSUME NEW i \in 1 .. Len(t), NEW j \in 1 .. Len(t), t[i] = t[j] PROVE i = j
    <2> DEFINE from(l) == IF l < k THEN l ELSE l + 1
    <2>1. from(i) \in 1 .. Len(s) /\ from(j) \in 1 .. Len(s) /\ t[i] = s[from(i)] /\ t[j] = s[from(j)]
      BY <1>0, <1>5, <1>6
    <2>2. from(i) = from(j)
      BY <1>7, <2>1 DEF Listing
    <2> QED  BY <1>0, <1>6, <2>2
  <1> QED  BY <1>4, <1>5, <1>6, <1>7 DEF Listing, t

LEMMA Removed ==
    ASSUME NEW s \in Listing, NEW m
    PROVE  LET t == Saved!RemoveFirst(s, m) IN
           /\ t \in Listing /\ ~Among(m, t)
           /\ \A n : n # m => (Among(n, s) <=> Among(n, t))
           /\ s # << >> /\ m = Head(s) => Len(t) = Len(s) - 1 /\ t = Tail(s)
  <1> DEFINE t == Saved!RemoveFirst(s, m)
  <1>1. CASE Among(m, s)
    <2>1. PICK k \in 1 .. Len(s) : s[k] = m
      BY <1>1 DEF Among
    <2>2. \A i \in 1 .. Len(s) : s[i] = m => i = k
      BY <2>1 DEF Listing
    <2>3. t = Saved!RemoveAt(s, k)
      <3>1. {i \in 1 .. Len(s) : s[i] = m} = {k}
        BY <2>1, <2>2
      <3>2. Saved!Min({k}) = k
        BY <2>1 DEF Saved!Min
      <3>3. Saved!SelectInSeq(s, LAMBDA v : v = m) = k
        BY <3>1, <3>2 DEF Saved!SelectInSeq
      <3> QED  BY <2>1, <3>3 DEF Saved!RemoveFirst
    <2>4. /\ t \in Listing /\ Len(t) = Len(s) - 1
          /\ \A i \in 1 .. Len(s) - 1 : t[i] = IF i < k THEN s[i] ELSE s[i + 1]
      BY <2>3, RemovedAt
    <2> HIDE DEF t
    <2>5. Len(s) \in Nat
      BY DEF Listing
    <2>6. ~Among(m, t)
      <3> SUFFICES ASSUME NEW i \in 1 .. Len(s) - 1, t[i] = m PROVE FALSE
        BY <2>4 DEF Among
      <3>1. CASE i < k
        BY <2>2, <2>4, <2>5, <3>1
      <3>2. CASE ~(i < k)
        <4>1. i + 1 \in 1 .. Len(s) /\ s[i + 1] = m
          BY <2>4, <2>5, <3>2
        <4> QED  BY <2>2, <3>2, <4>1
      <3> QED  BY <3>1, <3>2
    <2>7. ASSUME NEW n, n # m, Among(n, s) PROVE Among(n, t)
      <3>1. PICK i \in 1 .. Len(s) : s[i] = n /\ i # k
        BY <2>1, <2>7 DEF Among
      <3>2. CASE i < k
        <4>1. i \in 1 .. Len(s) - 1 /\ t[i] = n
          BY <2>4, <2>5, <3>1, <3>2
        <4> QED  BY <2>4, <4>1 DEF Among
      <3>3. CASE i > k
        <4>1. i - 1 \in 1 .. Len(s) - 1 /\ ~(i - 1 < k) /\ (i - 1) + 1 = i
          BY <2>5, <3>3
        <4>2. t[i - 1] = n
          BY <2>4, <3>1, <4>1
        <4> QED  BY <2>4, <4>1, <4>2 DEF Among
      <3> QED  BY <2>5, <3>1, <3>2, <3>3
    <2>8. ASSUME NEW n, Among(n, t) PROVE Among(n, s)
      <3>1. PICK i \in 1 .. Len(s) - 1 : t[i] = n
        BY <2>4, <2>8 DEF Among
      <3>2. i \in 1 .. Len(s) /\ i + 1 \in 1 .. Len(s)
        BY <2>5
      <3> QED  BY <2>4, <3>1, <3>2 DEF Among
    <2>9. s # << >> /\ m = Head(s) => t = Tail(s)
      <3> SUFFICES ASSUME s # << >>, m = Head(s) PROVE t = Tail(s)
        OBVIOUS
      <3>1. s \in Seq(1 .. Minutes) /\ t \in Seq(1 .. Minutes)
        BY <2>4 DEF Listing
      <3>2. k = 1
        BY <2>2, <3>1, HeadTailProperties
      <3>3. /\ Tail(s) \in Seq(1 .. Minutes) /\ Len(Tail(s)) = Len(s) - 1
            /\ \A i \in 1 .. Len(Tail(s)) : Tail(s)[i] = s[i + 1]
        BY <3>1, HeadTailProperties
      <3>4. \A i \in 1 .. Len(t) : t[i] = Tail(s)[i]
        BY <2>4, <3>2, <3>3
      <3> QED  BY <2>4, <3>1, <3>3, <3>4, SeqEqual
    <2> QED  BY <2>4, <2>6, <2>7, <2>8, <2>9 DEF t
  <1>2. CASE ~Among(m, s)
    <2>1. t = s
      BY <1>2 DEF Saved!RemoveFirst, Among
    <2>2. s # << >> => m # Head(s)
      BY <1>2 DEF Among, Listing
    <2> QED  BY <1>2, <2>1, <2>2
  <1> QED  BY <1>1, <1>2

\* The directory that was changed last.
Newest(s, m) == s # << >> /\ s[Len(s)] = m

LEMMA TouchedIs ==
    ASSUME order \in Listing, NEW m \in 1 .. Minutes
    PROVE  /\ Saved!Touched(m) \in Listing /\ Newest(Saved!Touched(m), m)
           /\ \A n : Among(n, Saved!Touched(m)) <=> n = m \/ Among(n, order)
  <1> DEFINE t == Saved!RemoveFirst(order, m)
             u == Append(t, m)
  <1>1. t \in Listing /\ ~Among(m, t) /\ \A n : n # m => (Among(n, order) <=> Among(n, t))
    BY Removed
  <1>2. u = Saved!Touched(m)
    BY DEF Saved!Touched
  <1> HIDE DEF t
  <1>3. /\ u \in Seq(1 .. Minutes) /\ Len(u) = Len(t) + 1 /\ Len(t) \in Nat
        /\ \A i \in 1 .. Len(t) : u[i] = t[i]
        /\ u[Len(t) + 1] = m
    BY <1>1 DEF Listing
  <1> HIDE DEF u
  <1>4. \A i \in 1 .. Len(u) : i \in 1 .. Len(t) \/ i = Len(t) + 1
    BY <1>3
  <1>5. u \in Listing
    <2> SUFFICES ASSUME NEW i \in 1 .. Len(u), NEW j \in 1 .. Len(u), u[i] = u[j] PROVE i = j
      BY <1>3 DEF Listing
    <2>1. CASE i \in 1 .. Len(t) /\ j \in 1 .. Len(t)
      BY <1>1, <1>3, <2>1 DEF Listing
    <2>2. CASE i = Len(t) + 1 /\ j \in 1 .. Len(t)
      BY <1>1, <1>3, <2>2 DEF Among
    <2>3. CASE j = Len(t) + 1 /\ i \in 1 .. Len(t)
      BY <1>1, <1>3, <2>3 DEF Among
    <2> QED  BY <1>4, <2>1, <2>2, <2>3
  <1>6. Newest(u, m)
    BY <1>3 DEF Newest
  <1>7. ASSUME NEW n PROVE Among(n, u) <=> n = m \/ Among(n, t)
    <2>1. ASSUME Among(n, u) PROVE n = m \/ Among(n, t)
      BY <1>3, <1>4, <2>1 DEF Among
    <2>2. ASSUME Among(n, t) PROVE Among(n, u)
      <3>1. \A i \in 1 .. Len(t) : i \in 1 .. Len(u)
        BY <1>3
      <3> QED  BY <1>3, <2>2, <3>1 DEF Among
    <2>3. Among(m, u)
      <3>1. Len(t) + 1 \in 1 .. Len(u)
        BY <1>3
      <3> QED  BY <1>3, <3>1 DEF Among
    <2> QED  BY <2>1, <2>2, <2>3
  <1> QED  BY <1>1, <1>2, <1>5, <1>6, <1>7

-----------------------------------------------------------------------------
(* The invariant *)

Run == [at : {"idle", "copy", "copying", "verify", "rest", "list", "rotate"}, name : 1 .. Minutes,
        keep : Counts \cup {0}, list : Seq(1 .. Minutes), seen : SUBSET Saved!Content, alone : BOOLEAN,
        all : Seq(1 .. Minutes), stuck : SUBSET (1 .. Minutes)]

\* list is the end of all, at least keep of it.
EndOf(list, all, keep) ==
    /\ Len(list) <= Len(all) /\ (Len(list) >= keep \/ Len(list) = Len(all))
    /\ \A i \in 1 .. Len(list) : list[i] = all[i + (Len(all) - Len(list))]

\* What is left of the directories that a run has listed.
LeftOf(x, dirs) ==
    /\ x.all \in Listing /\ Newest(x.all, x.name)
    /\ x.list \in Listing /\ EndOf(x.list, x.all, x.keep)
    /\ \A m : Among(m, dirs) /\ m \notin x.stuck <=> Among(m, x.list)

\* A run: what it has copied, and what a run without another beside it has made of the directories.
Runs(x, holds, files, dirs) ==
    /\ x \in Run
    /\ x.at = "verify" => holds \in x.seen /\ files[x.name] \in x.seen \cup {None, Bad}
    /\ x.alone /\ x.at \in {"copying", "verify", "rest", "list"} => Newest(dirs, x.name)
    /\ x.alone /\ x.at = "rotate" => LeftOf(x, dirs)

Tables ==
    /\ db \in [holds : Saved!Content, file : Saved!Content]
    /\ minute \in 1 .. Minutes /\ scheduled \in BOOLEAN /\ count \in Counts
    /\ snaps \in [1 .. Minutes -> Saved!Content \cup {None}] /\ bundle \in Saved!Content \cup {None}
    /\ order \in Listing
    /\ \A m \in 1 .. Minutes : snaps[m] # None => Among(m, order)
    /\ faults \in 0 .. MaxFaults

AtWork(x) == x.at # "idle"

SaveInv ==
    /\ Tables
    /\ run \in [Saved!Runners -> Run]
    /\ \A r \in Saved!Runners : Runs(run[r], db.holds, snaps, order)
    /\ \A r, q \in Saved!Runners : r # q /\ run[r].alone /\ AtWork(run[r]) => ~AtWork(run[q])

LEMMA IdleIs ==
    ASSUME Saved!BackupsAssumption, NEW holds, NEW files, NEW dirs
    PROVE  Runs(Saved!Idle, holds, files, dirs) /\ ~AtWork(Saved!Idle)
  <1>1. Saved!Idle \in Run /\ Saved!Idle.at = "idle"
    <2>1. << >> \in Seq(1 .. Minutes) /\ 1 \in 1 .. Minutes
      BY DEF Saved!BackupsAssumption
    <2> QED  BY <2>1 DEF Saved!Idle, Run
  <1> QED  BY <1>1 DEF Runs, AtWork

LEMMA StandsIs == ASSUME order \in Listing, NEW m PROVE Saved!Stands(m) <=> Among(m, order)
  <1>1. DOMAIN order = 1 .. Len(order)
    BY DEF Listing
  <1> QED  BY <1>1 DEF Saved!Stands, Among

\* One runner that is at work goes on.
LEMMA OneRun ==
    ASSUME SaveInv, NEW r \in Saved!Runners, AtWork(run[r]), NEW x, run' = [run EXCEPT ![r] = x],
           x.alone = run[r].alone \/ ~AtWork(x), db' = db, Tables',
           Runs(x, db.holds, snaps', order'),
           \A q \in Saved!Runners \ {r} : run[q].at = "verify" =>
               snaps'[run[q].name] \in run[q].seen \cup {None, Bad}
    PROVE  SaveInv'
  <1>1. x \in Run
    BY DEF Runs
  <1>2. run' \in [Saved!Runners -> Run] /\ run'[r] = x /\ \A q \in Saved!Runners \ {r} : run'[q] = run[q]
    BY <1>1 DEF SaveInv
  <1>3. ASSUME NEW q \in Saved!Runners \ {r} PROVE Runs(run[q], db.holds, snaps', order')
    <2>1. Runs(run[q], db.holds, snaps, order) /\ (run[q].alone => ~AtWork(run[q]))
      BY DEF SaveInv
    <2> QED  BY <2>1 DEF Runs, AtWork
  <1>4. \A q \in Saved!Runners : Runs(run'[q], db'.holds, snaps', order')
    BY <1>2, <1>3
  <1>5. ASSUME NEW a \in Saved!Runners, NEW b \in Saved!Runners, a # b, run'[a].alone, AtWork(run'[a]), AtWork(run'[b])
        PROVE  FALSE
    <2>1. CASE a = r
      <3>1. run[a].alone /\ AtWork(run[b])
        BY <1>2, <1>5, <2>1
      <3> QED  BY <1>5, <2>1, <3>1 DEF SaveInv
    <2>2. CASE a # r
      <3>1. run[a].alone /\ AtWork(run[a])
        BY <1>2, <1>5, <2>2
      <3> QED  BY <2>2, <3>1 DEF SaveInv
    <2> QED  BY <2>1, <2>2
  <1> QED  BY <1>2, <1>4, <1>5 DEF SaveInv

\* The content of the database changes.
LEMMA DatabaseBecomes ==
    ASSUME SaveInv, NEW c \in Saved!Content, NEW file \in Saved!Content, Saved!Becomes(c, file),
           UNCHANGED <<minute, snaps, order, scheduled, count, bundle, faults>>
    PROVE  SaveInv'
  <1>1. /\ db' = [holds |-> c, file |-> file]
        /\ run' = [q \in Saved!Runners |-> IF run[q].at = "verify" THEN [run[q] EXCEPT !.seen = @ \cup {c}] ELSE run[q]]
    BY DEF Saved!Becomes
  <1>2. Tables'
    BY <1>1 DEF SaveInv, Tables
  <1>3. ASSUME NEW q \in Saved!Runners
        PROVE  /\ Runs(run'[q], c, snaps, order)
               /\ run'[q].alone = run[q].alone /\ run'[q].at = run[q].at
    <2>1. Runs(run[q], db.holds, snaps, order) /\ run[q] \in Run
      BY DEF SaveInv
    <2>2. CASE run[q].at = "verify"
      <3> DEFINE x == [run[q] EXCEPT !.seen = @ \cup {c}]
      <3>1. run'[q] = x
        BY <1>1, <2>2
      <3>2. /\ x \in Run /\ x.at = "verify" /\ x.name = run[q].name /\ x.alone = run[q].alone
            /\ x.seen = run[q].seen \cup {c}
        BY <2>1, <2>2 DEF Run
      <3> HIDE DEF x
      <3> QED  BY <2>1, <2>2, <3>1, <3>2 DEF Runs
    <2>3. CASE run[q].at # "verify"
      BY <1>1, <2>1, <2>3 DEF Runs
    <2> QED  BY <2>2, <2>3
  <1>4. run' \in [Saved!Runners -> Run]
    BY <1>1, <1>3 DEF Runs
  <1>5. db'.holds = c
    BY <1>1
  <1>6. \A q \in Saved!Runners : Runs(run'[q], db'.holds, snaps', order')
    BY <1>3, <1>5
  <1>7. \A a, b \in Saved!Runners : a # b /\ run'[a].alone /\ AtWork(run'[a]) => ~AtWork(run'[b])
    BY <1>3 DEF SaveInv, AtWork
  <1> QED  BY <1>2, <1>4, <1>6, <1>7 DEF SaveInv

LEMMA BeginKeeps ==
    ASSUME Saved!BackupsAssumption, SaveInv, NEW r \in Saved!Runners, Saved!Begin(r)
    PROVE  SaveInv'
  <1> DEFINE x == [Saved!Idle EXCEPT !.at = "copy", !.name = minute, !.keep = count,
                                     !.alone = \A p \in Saved!Runners : ~Saved!Busy(p)]
  <1>1. /\ run' = [q \in Saved!Runners |-> IF q = r THEN x ELSE [run[q] EXCEPT !.alone = FALSE, !.all = << >>, !.stuck = {}]]
        /\ order' = IF Saved!Stands(minute) THEN order ELSE Append(order, minute)
        /\ UNCHANGED <<db, minute, snaps, scheduled, count, bundle, faults>>
    BY DEF Saved!Begin
  <1>2. /\ x \in Run /\ x.at = "copy"
        /\ x.alone => \A p \in Saved!Runners : ~Saved!Busy(p)
    <2>1. Saved!Idle \in Run /\ minute \in 1 .. Minutes /\ count \in Counts
      <3>1. << >> \in Seq(1 .. Minutes) /\ 1 \in 1 .. Minutes
        BY DEF Saved!BackupsAssumption
      <3> QED  BY <3>1 DEF Saved!Idle, Run, SaveInv, Tables
    <2> DEFINE y == Saved!Idle
               lonely == \A p \in Saved!Runners : ~Saved!Busy(p)
    <2>2. lonely \in BOOLEAN
      OBVIOUS
    <2> HIDE DEF y, lonely
    <2>3. x = [y EXCEPT !.at = "copy", !.name = minute, !.keep = count, !.alone = lonely]
      BY DEF y, lonely
    <2> HIDE DEF x
    <2>4. x \in Run /\ x.at = "copy" /\ x.alone = lonely
      BY <2>1, <2>2, <2>3 DEF Run, y
    <2> QED  BY <2>4 DEF lonely
  <1> HIDE DEF x
  <1>3. ASSUME NEW q \in Saved!Runners, q # r
        PROVE  /\ run'[q] \in Run /\ ~run'[q].alone
               /\ run'[q].at = run[q].at /\ run'[q].seen = run[q].seen /\ run'[q].name = run[q].name
    <2>1. run[q] \in Run /\ run'[q] = [run[q] EXCEPT !.alone = FALSE, !.all = << >>, !.stuck = {}]
      BY <1>1, <1>3 DEF SaveInv
    <2>2. << >> \in Seq(1 .. Minutes)
      OBVIOUS
    <2> QED  BY <2>1, <2>2 DEF Run
  <1>4. run'[r] = x
    BY <1>1
  <1>5. order' \in Listing /\ \A n : Among(n, order) => Among(n, order')
    <2>1. CASE Saved!Stands(minute)
      BY <1>1, <2>1 DEF SaveInv, Tables
    <2>2. CASE ~Saved!Stands(minute)
      <3>1. order \in Listing /\ minute \in 1 .. Minutes /\ ~Among(minute, order)
        BY <2>2, StandsIs DEF SaveInv, Tables
      <3>2. order' = Append(order, minute)
        BY <1>1, <2>2
      <3>3. /\ order' \in Seq(1 .. Minutes) /\ Len(order') = Len(order) + 1 /\ Len(order) \in Nat
            /\ \A i \in 1 .. Len(order) : order'[i] = order[i]
            /\ order'[Len(order) + 1] = minute
        BY <3>1, <3>2 DEF Listing
      <3>4. \A i \in 1 .. Len(order') : i \in 1 .. Len(order) \/ i = Len(order) + 1
        BY <3>3
      <3>5. \A i \in 1 .. Len(order), j \in 1 .. Len(order) : order[i] = order[j] => i = j
        BY <3>1 DEF Listing
      <3>6. \A i, j \in 1 .. Len(order') : order'[i] = order'[j] => i = j
        BY <3>1, <3>3, <3>4, <3>5 DEF Among
      <3>7. \A i \in 1 .. Len(order) : i \in 1 .. Len(order')
        BY <3>3
      <3> QED  BY <3>3, <3>6, <3>7 DEF Listing, Among
    <2> QED  BY <2>1, <2>2
  <1>6. Tables'
    BY <1>1, <1>5 DEF SaveInv, Tables
  <1>7. run' \in [Saved!Runners -> Run]
    <2>1. \A q \in Saved!Runners : run'[q] \in Run
      BY <1>2, <1>3, <1>4
    <2> QED  BY <1>1, <2>1
  <1>8. ASSUME NEW q \in Saved!Runners PROVE Runs(run'[q], db.holds, snaps, order')
    <2>1. CASE q = r
      BY <1>2, <1>4, <2>1 DEF Runs
    <2>2. CASE q # r
      <3>1. Runs(run[q], db.holds, snaps, order)
        BY DEF SaveInv
      <3> QED  BY <1>3, <2>2, <3>1 DEF Runs
    <2> QED  BY <2>1, <2>2
  <1>9. ASSUME NEW a \in Saved!Runners, NEW b \in Saved!Runners, a # b, run'[a].alone, AtWork(run'[a])
        PROVE  ~AtWork(run'[b])
    <2>1. a = r /\ b # r
      BY <1>3, <1>9
    <2>2. ~Saved!Busy(b) /\ run[b] \in Run
      BY <1>2, <1>4, <1>9, <2>1 DEF SaveInv
    <2>3. run[b].at = "idle"
      BY <2>2 DEF Saved!Busy, Run
    <2> QED  BY <1>3, <2>1, <2>3 DEF AtWork
  <1>10. db' = db /\ snaps' = snaps
    BY <1>1
  <1>11. \A q \in Saved!Runners : Runs(run'[q], db'.holds, snaps', order')
    BY <1>8, <1>10
  <1> QED  BY <1>6, <1>7, <1>9, <1>11 DEF SaveInv

LEMMA OverKeeps ==
    ASSUME Saved!BackupsAssumption, SaveInv, NEW r \in Saved!Runners, AtWork(run[r]), run' = [run EXCEPT ![r] = Saved!Idle],
           UNCHANGED <<db, minute, snaps, order, scheduled, count, bundle>>, faults' \in 0 .. MaxFaults
    PROVE  SaveInv'
  <1> DEFINE x == Saved!Idle
  <1>1. Runs(x, db.holds, snaps, order) /\ ~AtWork(x)
    BY IdleIs
  <1> HIDE DEF x
  <1>2. Tables'
    BY DEF SaveInv, Tables
  <1>3. \A q \in Saved!Runners : run[q].at = "verify" => snaps[run[q].name] \in run[q].seen \cup {None, Bad}
    BY DEF SaveInv, Runs
  <1>4. run' = [run EXCEPT ![r] = x] /\ db' = db /\ snaps' = snaps /\ order' = order
    BY DEF x
  <1>5. Runs(x, db.holds, snaps', order')
    BY <1>1, <1>4
  <1> QED  BY <1>1, <1>2, <1>3, <1>4, <1>5, OneRun

LEMMA FaultIs ==
    ASSUME SaveInv, Saved!BackupsAssumption, Saved!Fault
    PROVE  faults' \in 0 .. MaxFaults /\ faults' # faults
  BY DEF SaveInv, Tables, Saved!BackupsAssumption, Saved!Fault

\* The file of a copy is written to.
LEMMA WrittenKeeps ==
    ASSUME Saved!BackupsAssumption, SaveInv, NEW r \in Saved!Runners, AtWork(run[r]),
           Saved!Stands(run[r].name), NEW c \in {db.holds, Bad}, NEW x \in Run,
           x.at = "copying" \/ (x.at = "verify" /\ x.seen = {db.holds}),
           x.name = run[r].name, x.alone = run[r].alone, run' = [run EXCEPT ![r] = x],
           snaps' = [snaps EXCEPT ![run[r].name] = c], order' = Saved!Touched(run[r].name),
           faults' \in 0 .. MaxFaults, UNCHANGED <<db, minute, scheduled, count, bundle>>
    PROVE  SaveInv'
  <1> DEFINE n == run[r].name
  <1>1. n \in 1 .. Minutes /\ order \in Listing /\ Among(n, order)
    <2>1. order \in Listing /\ run[r] \in Run
      BY DEF SaveInv, Tables
    <2> QED  BY <2>1, StandsIs DEF Run
  <1>2. snaps' = [snaps EXCEPT ![n] = c] /\ order' = Saved!Touched(n) /\ x.name = n
    OBVIOUS
  <1> HIDE DEF n
  <1>3. order' \in Listing /\ Newest(order', n) /\ \A m : Among(m, order) => Among(m, order')
    BY <1>1, <1>2, TouchedIs
  <1>4. /\ snaps' \in [1 .. Minutes -> Saved!Content \cup {None}] /\ snaps'[n] = c
        /\ \A m \in 1 .. Minutes \ {n} : snaps'[m] = snaps[m]
    <2>1. snaps \in [1 .. Minutes -> Saved!Content \cup {None}] /\ c \in Saved!Content
      BY DEF SaveInv, Tables, Saved!Content
    <2> QED  BY <1>1, <1>2, <2>1
  <1>5. Tables'
    <2>1. \A m \in 1 .. Minutes : snaps'[m] # None => Among(m, order')
      BY <1>1, <1>3, <1>4 DEF SaveInv, Tables
    <2> QED  BY <1>3, <1>4, <2>1 DEF SaveInv, Tables
  <1>6. Runs(x, db.holds, snaps', order')
    BY <1>2, <1>3, <1>4 DEF Runs
  <1>7. ASSUME NEW q \in Saved!Runners \ {r}, run[q].at = "verify"
        PROVE  snaps'[run[q].name] \in run[q].seen \cup {None, Bad}
    <2>1. Runs(run[q], db.holds, snaps, order) /\ run[q].name \in 1 .. Minutes
      BY DEF SaveInv, Run
    <2>2. CASE run[q].name = n
      BY <1>4, <1>7, <2>1, <2>2 DEF Runs
    <2>3. CASE run[q].name # n
      BY <1>4, <1>7, <2>1, <2>3 DEF Runs
    <2> QED  BY <2>2, <2>3
  <1>8. x.alone = run[r].alone /\ db' = db /\ run' = [run EXCEPT ![r] = x]
    OBVIOUS
  <1> QED  BY <1>5, <1>6, <1>7, <1>8, OneRun

LEMMA OpenCopyKeeps ==
    ASSUME Saved!BackupsAssumption, SaveInv, NEW r \in Saved!Runners, Saved!OpenCopy(r)
    PROVE  SaveInv'
  <1>1. run[r].at = "copy" /\ AtWork(run[r]) /\ run[r] \in Run /\ faults' \in 0 .. MaxFaults
        /\ UNCHANGED <<db, minute, scheduled, count, bundle>>
    BY DEF Saved!OpenCopy, AtWork, SaveInv, Tables
  <1>2. CASE ~Saved!Stands(run[r].name)
    <2>1. run' = [run EXCEPT ![r] = Saved!Idle] /\ UNCHANGED <<snaps, order>>
      BY <1>2 DEF Saved!OpenCopy, Saved!Over, Saved!Step
    <2> QED  BY <1>1, <2>1, OverKeeps
  <1>3. CASE Saved!Stands(run[r].name)
    <2> DEFINE x == [run[r] EXCEPT !.at = "copying"]
    <2>1. /\ snaps' = [snaps EXCEPT ![run[r].name] = Bad] /\ order' = Saved!Touched(run[r].name)
          /\ run' = [run EXCEPT ![r] = x]
      BY <1>3 DEF Saved!OpenCopy, Saved!Step
    <2>2. x \in Run /\ x.at = "copying" /\ x.name = run[r].name /\ x.alone = run[r].alone
      BY <1>1 DEF Run
    <2> HIDE DEF x
    <2> QED  BY <1>1, <1>3, <2>1, <2>2, WrittenKeeps
  <1> QED  BY <1>2, <1>3

LEMMA CopyDatabaseKeeps ==
    ASSUME Saved!BackupsAssumption, SaveInv, NEW r \in Saved!Runners, Saved!CopyDatabase(r)
    PROVE  SaveInv'
  <1>1. run[r].at = "copying" /\ AtWork(run[r]) /\ run[r] \in Run
        /\ UNCHANGED <<db, minute, scheduled, count, bundle>>
    BY DEF Saved!CopyDatabase, AtWork, SaveInv
  <1>2. CASE ~Saved!Stands(run[r].name)
    <2>1. run' = [run EXCEPT ![r] = Saved!Idle] /\ UNCHANGED <<snaps, order, faults>>
      BY <1>2 DEF Saved!CopyDatabase, Saved!Over, Saved!Step
    <2>2. faults' \in 0 .. MaxFaults
      BY <2>1 DEF SaveInv, Tables
    <2> QED  BY <1>1, <2>1, <2>2, OverKeeps
  <1>3. CASE Saved!Stands(run[r].name)
    <2> DEFINE x == [run[r] EXCEPT !.at = "verify", !.seen = {db.holds}]
    <2>1. PICK c \in {db.holds, Bad} : snaps' = [snaps EXCEPT ![run[r].name] = c] /\ faults' \in 0 .. MaxFaults
      <3>1. faults \in 0 .. MaxFaults
        BY DEF SaveInv, Tables
      <3>2. \/ snaps' = [snaps EXCEPT ![run[r].name] = db.holds] /\ UNCHANGED faults
            \/ Saved!Fault /\ snaps' = [snaps EXCEPT ![run[r].name] = Bad]
        BY <1>3 DEF Saved!CopyDatabase, Saved!Copied
      <3> QED  BY <3>1, <3>2, FaultIs
    <2>2. order' = Saved!Touched(run[r].name) /\ run' = [run EXCEPT ![r] = x]
      BY <1>3 DEF Saved!CopyDatabase, Saved!Step
    <2>3. /\ x \in Run /\ x.at = "verify" /\ x.name = run[r].name /\ x.alone = run[r].alone
          /\ x.seen = {db.holds}
      <3>1. db.holds \in Saved!Content
        BY DEF SaveInv, Tables
      <3> QED  BY <1>1, <3>1 DEF Run
    <2> HIDE DEF x
    <2> QED  BY <1>1, <1>3, <2>1, <2>2, <2>3, WrittenKeeps
  <1> QED  BY <1>2, <1>3

LEMMA VerifyKeeps ==
    ASSUME Saved!BackupsAssumption, SaveInv, NEW r \in Saved!Runners, Saved!Verify(r)
    PROVE  SaveInv'
  <1> DEFINE x == [run[r] EXCEPT !.at = "rest", !.seen = {}]
  <1>1. /\ run[r].at = "verify" /\ AtWork(run[r]) /\ run' = [run EXCEPT ![r] = x]
        /\ UNCHANGED <<db, minute, snaps, order, scheduled, count, bundle, faults>>
    BY DEF Saved!Verify, Saved!Step, AtWork
  <1>2. Runs(run[r], db.holds, snaps, order) /\ run[r] \in Run
    BY DEF SaveInv
  <1>3. x \in Run /\ x.at = "rest" /\ x.name = run[r].name /\ x.alone = run[r].alone
    BY <1>2 DEF Run
  <1> HIDE DEF x
  <1>4. Runs(x, db.holds, snaps', order')
    BY <1>1, <1>2, <1>3 DEF Runs
  <1>5. Tables'
    BY <1>1 DEF SaveInv, Tables
  <1>6. \A q \in Saved!Runners : run[q].at = "verify" => snaps'[run[q].name] \in run[q].seen \cup {None, Bad}
    BY <1>1 DEF SaveInv, Runs
  <1>7. db' = db
    BY <1>1
  <1> QED  BY <1>1, <1>3, <1>4, <1>5, <1>6, <1>7, OneRun

LEMMA CopyRestKeeps ==
    ASSUME Saved!BackupsAssumption, SaveInv, NEW r \in Saved!Runners, Saved!CopyRest(r)
    PROVE  SaveInv'
  <1>1. /\ run[r].at = "rest" /\ AtWork(run[r]) /\ run[r] \in Run /\ Runs(run[r], db.holds, snaps, order)
        /\ UNCHANGED <<db, minute, snaps, scheduled, count, bundle, faults>>
    BY DEF Saved!CopyRest, AtWork, SaveInv
  <1>2. CASE ~Saved!Stands(run[r].name)
    <2>1. run' = [run EXCEPT ![r] = Saved!Idle] /\ UNCHANGED order
      BY <1>2 DEF Saved!CopyRest, Saved!Over, Saved!Step
    <2>2. faults' \in 0 .. MaxFaults
      BY <1>1 DEF SaveInv, Tables
    <2> QED  BY <1>1, <2>1, <2>2, OverKeeps
  <1>3. CASE Saved!Stands(run[r].name)
    <2> DEFINE n == run[r].name
               x == [run[r] EXCEPT !.at = "list"]
    <2>1. order' \in {order, Saved!Touched(n)} /\ run' = [run EXCEPT ![r] = x]
      BY <1>3 DEF Saved!CopyRest, Saved!Step
    <2>2. x \in Run /\ x.at = "list" /\ x.name = n /\ x.alone = run[r].alone
      BY <1>1 DEF Run
    <2>3. /\ order' \in Listing /\ \A m : Among(m, order) => Among(m, order')
          /\ order' = order \/ Newest(order', n)
      <3>1. n \in 1 .. Minutes /\ order \in Listing
        BY <1>1 DEF SaveInv, Tables, Run
      <3> HIDE DEF n
      <3> QED  BY <2>1, <3>1, TouchedIs
    <2> HIDE DEF x, n
    <2>4. Tables'
      BY <1>1, <2>3 DEF SaveInv, Tables
    <2>5. Runs(x, db.holds, snaps', order')
      BY <1>1, <2>2, <2>3 DEF Runs, n
    <2>6. \A q \in Saved!Runners : run[q].at = "verify" => snaps'[run[q].name] \in run[q].seen \cup {None, Bad}
      BY <1>1 DEF SaveInv, Runs
    <2>7. db' = db
      BY <1>1
    <2> QED  BY <1>1, <2>1, <2>2, <2>4, <2>5, <2>6, <2>7, OneRun
  <1> QED  BY <1>2, <1>3

LEMMA ListKeeps ==
    ASSUME Saved!BackupsAssumption, SaveInv, NEW r \in Saved!Runners, Saved!ListDirectories(r)
    PROVE  SaveInv'
  <1> DEFINE noted == IF run[r].alone THEN order ELSE << >>
             x == [run[r] EXCEPT !.at = "rotate", !.list = order, !.stuck = {}, !.all = noted]
  <1>1. /\ run[r].at = "list" /\ AtWork(run[r]) /\ run' = [run EXCEPT ![r] = x]
        /\ UNCHANGED <<db, minute, snaps, order, scheduled, count, bundle, faults>>
    BY DEF Saved!ListDirectories, Saved!Listed, Saved!Step, AtWork
  <1>2. Runs(run[r], db.holds, snaps, order) /\ run[r] \in Run /\ order \in Listing
    BY DEF SaveInv, Tables
  <1>3. order \in Seq(1 .. Minutes) /\ Len(order) \in Nat /\ noted \in Seq(1 .. Minutes)
        /\ (run[r].alone => noted = order)
    <2>1. << >> \in Seq(1 .. Minutes)
      OBVIOUS
    <2>2. order \in Seq(1 .. Minutes)
      BY <1>2 DEF Listing
    <2>3. Len(order) \in Nat
      BY <2>2
    <2>4. noted \in {order, << >>} /\ (run[r].alone => noted = order)
      OBVIOUS
    <2> HIDE DEF noted
    <2> QED  BY <2>1, <2>2, <2>3, <2>4
  <1> HIDE DEF noted
  <1>4. x \in Run /\ x.at = "rotate" /\ x.name = run[r].name /\ x.alone = run[r].alone /\ x.list = order
        /\ x.stuck = {} /\ x.all = noted
    BY <1>2, <1>3 DEF Run
  <1> HIDE DEF x
  <1>5. EndOf(order, order, x.keep)
    BY <1>3 DEF EndOf
  <1>6. x.alone => LeftOf(x, order)
    BY <1>1, <1>2, <1>3, <1>4, <1>5 DEF LeftOf, Runs
  <1>7. Runs(x, db.holds, snaps', order')
    BY <1>1, <1>4, <1>6 DEF Runs
  <1>8. Tables'
    BY <1>1 DEF SaveInv, Tables
  <1>9. \A q \in Saved!Runners : run[q].at = "verify" => snaps'[run[q].name] \in run[q].seen \cup {None, Bad}
    BY <1>1 DEF SaveInv, Runs
  <1>10. db' = db
    BY <1>1
  <1> QED  BY <1>1, <1>4, <1>7, <1>8, <1>9, <1>10, OneRun

\* A directory goes, or some of it stays.
LEMMA RemovedIs ==
    ASSUME Saved!BackupsAssumption, SaveInv, NEW m \in 1 .. Minutes, Saved!Removed(m)
    PROVE  /\ order' \in Listing /\ faults' \in 0 .. MaxFaults
           /\ \A n \in 1 .. Minutes : snaps'[n] \in {snaps[n], None}
           /\ snaps' \in [1 .. Minutes -> Saved!Content \cup {None}]
           /\ \A n \in 1 .. Minutes : snaps'[n] # None => Among(n, order')
           /\ faults' = faults => \A n : Among(n, order') <=> n # m /\ Among(n, order)
           /\ faults' # faults => \A n : Among(n, order') <=> Among(n, order)
  <1>1. /\ order \in Listing /\ faults \in 0 .. MaxFaults
        /\ snaps \in [1 .. Minutes -> Saved!Content \cup {None}]
        /\ \A n \in 1 .. Minutes : snaps[n] # None => Among(n, order)
    BY DEF SaveInv, Tables
  <1>2. CASE /\ snaps' = [snaps EXCEPT ![m] = None] /\ order' = Saved!RemoveFirst(order, m)
             /\ UNCHANGED faults
    <2>1. order' \in Listing /\ ~Among(m, order') /\ \A n : n # m => (Among(n, order) <=> Among(n, order'))
      BY <1>1, <1>2, Removed
    <2> QED  BY <1>1, <1>2, <2>1
  <1>3. CASE Saved!Stands(m) /\ Saved!Fault /\ UNCHANGED <<snaps, order>>
    BY <1>1, <1>3, FaultIs
  <1>4. CASE Saved!Stands(m) /\ Saved!Fault /\ snaps' \in {snaps, [snaps EXCEPT ![m] = None]}
             /\ order' = Saved!Touched(m)
    <2>1. order' \in Listing /\ \A n : Among(n, order') <=> n = m \/ Among(n, order)
      BY <1>1, <1>4, TouchedIs
    <2>2. Among(m, order)
      BY <1>1, <1>4, StandsIs
    <2>3. \A n : Among(n, order') <=> Among(n, order)
      BY <2>1, <2>2
    <2> QED  BY <1>1, <1>4, <2>1, <2>3, FaultIs
  <1> QED  BY <1>2, <1>3, <1>4 DEF Saved!Removed

LEMMA RemoveOldestKeeps ==
    ASSUME Saved!BackupsAssumption, SaveInv, NEW r \in Saved!Runners, Saved!RemoveOldest(r)
    PROVE  SaveInv'
  <1> DEFINE l == run[r].list
             old == Head(l)
             kept == IF faults' # faults /\ run[r].alone THEN run[r].stuck \cup {old} ELSE run[r].stuck
             x == [run[r] EXCEPT !.list = Tail(l), !.stuck = kept]
  <1>1. /\ run[r].at = "rotate" /\ AtWork(run[r]) /\ Len(l) > run[r].keep /\ Saved!Removed(old)
        /\ run' = [run EXCEPT ![r] = x]
        /\ UNCHANGED <<db, minute, scheduled, count, bundle>>
    BY DEF Saved!RemoveOldest, Saved!Step, AtWork
  <1>2. Runs(run[r], db.holds, snaps, order) /\ run[r] \in Run /\ order \in Listing
    BY DEF SaveInv, Tables
  <1>3. l \in Seq(1 .. Minutes) /\ run[r].keep \in Nat /\ Len(l) \in Nat
    <2>1. l \in Seq(1 .. Minutes) /\ run[r].keep \in Counts \cup {0}
      BY <1>2 DEF Run
    <2>2. Counts \cup {0} \subseteq Nat
      BY DEF Saved!BackupsAssumption
    <2> QED  BY <2>1, <2>2
  <1>4. l # << >> /\ old \in 1 .. Minutes /\ Tail(l) \in Seq(1 .. Minutes) /\ Len(Tail(l)) = Len(l) - 1
        /\ \A i \in 1 .. Len(Tail(l)) : Tail(l)[i] = l[i + 1]
    <2>1. l # << >>
      BY <1>1, <1>3
    <2> HIDE DEF l
    <2> QED  BY <1>3, <2>1, HeadTailProperties
  <1>5. kept \in SUBSET (1 .. Minutes)
    BY <1>2, <1>4 DEF Run
  <1>6. x \in Run /\ x.at = "rotate" /\ x.name = run[r].name /\ x.alone = run[r].alone
        /\ x.list = Tail(l) /\ x.keep = run[r].keep /\ x.all = run[r].all /\ x.stuck = kept
    <2> HIDE DEF kept
    <2> QED  BY <1>1, <1>2, <1>4, <1>5 DEF Run
  <1>7. /\ order' \in Listing /\ faults' \in 0 .. MaxFaults
        /\ \A n \in 1 .. Minutes : snaps'[n] \in {snaps[n], None}
        /\ snaps' \in [1 .. Minutes -> Saved!Content \cup {None}]
        /\ \A n \in 1 .. Minutes : snaps'[n] # None => Among(n, order')
        /\ faults' = faults => \A n : Among(n, order') <=> n # old /\ Among(n, order)
        /\ faults' # faults => \A n : Among(n, order') <=> Among(n, order)
    <2> HIDE DEF old
    <2> QED  BY <1>1, <1>4, RemovedIs
  <1>8. Tables'
    BY <1>1, <1>7 DEF SaveInv, Tables
  <1>9. x.alone => LeftOf(x, order')
    <2> SUFFICES ASSUME x.alone PROVE LeftOf(x, order')
      OBVIOUS
    <2>1. LeftOf(run[r], order) /\ run[r].alone
      BY <1>1, <1>2, <1>6 DEF Runs
    <2>2. l \in Listing
      BY <2>1 DEF LeftOf
    <2>3. Tail(l) \in Listing /\ \A n : Among(n, Tail(l)) <=> n # old /\ Among(n, l)
      <3>1. LET t == Saved!RemoveFirst(l, old) IN
            t \in Listing /\ ~Among(old, t) /\ t = Tail(l) /\ \A n : n # old => (Among(n, l) <=> Among(n, t))
        <4>1. l # << >> /\ old = Head(l)
          BY <1>4 DEF old
        <4> HIDE DEF old, l
        <4> QED  BY <2>2, <4>1, Removed
      <3> QED  BY <3>1
    <2>4. EndOf(Tail(l), x.all, x.keep)
      <3> DEFINE all == run[r].all
      <3>1. Len(all) \in Nat /\ EndOf(l, all, run[r].keep)
        BY <2>1 DEF LeftOf, Listing
      <3> HIDE DEF all, l
      <3>2. ASSUME NEW i \in 1 .. Len(Tail(l)) PROVE Tail(l)[i] = all[i + (Len(all) - Len(Tail(l)))]
        <4>1. /\ i + 1 \in 1 .. Len(l) /\ Tail(l)[i] = l[i + 1]
              /\ (i + 1) + (Len(all) - Len(l)) = i + (Len(all) - Len(Tail(l)))
          BY <1>3, <1>4, <3>1
        <4> QED  BY <3>1, <4>1 DEF EndOf
      <3>3. Len(Tail(l)) <= Len(all) /\ Len(Tail(l)) >= run[r].keep
        BY <1>1, <1>3, <1>4, <3>1 DEF EndOf
      <3>4. x.all = all /\ x.keep = run[r].keep
        BY <1>6 DEF all
      <3> QED  BY <3>2, <3>3, <3>4 DEF EndOf
    <2>5. ASSUME NEW n PROVE Among(n, order') /\ n \notin kept <=> Among(n, Tail(l))
      <3>1. Among(n, order) /\ n \notin run[r].stuck <=> Among(n, l)
        BY <2>1 DEF LeftOf
      <3>2. CASE faults' = faults
        BY <1>7, <2>3, <3>1, <3>2
      <3>3. CASE faults' # faults
        BY <1>7, <2>1, <2>3, <3>1, <3>3
      <3> QED  BY <3>2, <3>3
    <2>6. x.all \in Listing /\ Newest(x.all, x.name)
      BY <1>6, <2>1 DEF LeftOf
    <2> QED  BY <1>6, <2>3, <2>4, <2>5, <2>6 DEF LeftOf
  <1>10. Runs(x, db.holds, snaps', order')
    BY <1>6, <1>9 DEF Runs
  <1>11. ASSUME NEW q \in Saved!Runners \ {r}, run[q].at = "verify"
         PROVE  snaps'[run[q].name] \in run[q].seen \cup {None, Bad}
    <2>1. Runs(run[q], db.holds, snaps, order) /\ run[q].name \in 1 .. Minutes
      BY DEF SaveInv, Run
    <2> QED  BY <1>7, <1>11, <2>1 DEF Runs
  <1>12. db' = db /\ x.alone = run[r].alone /\ run' = [run EXCEPT ![r] = x]
    BY <1>1, <1>6
  <1> QED  BY <1>1, <1>8, <1>10, <1>11, <1>12, OneRun

\* What a run does.
LEMMA RunKeeps ==
    ASSUME Saved!BackupsAssumption, SaveInv, NEW r \in Saved!Runners, Saved!RunStep(r) \/ Saved!Fail(r)
    PROVE  SaveInv'
  <1>1. CASE Saved!EndRun(r)
    <2>1. /\ AtWork(run[r]) /\ run' = [run EXCEPT ![r] = Saved!Idle]
          /\ UNCHANGED <<db, minute, snaps, order, scheduled, count, bundle, faults>>
      BY <1>1 DEF Saved!EndRun, Saved!Step, AtWork
    <2>2. faults' \in 0 .. MaxFaults
      BY <2>1 DEF SaveInv, Tables
    <2> QED  BY <2>1, <2>2, OverKeeps
  <1>2. CASE Saved!Fail(r)
    <2>1. /\ AtWork(run[r]) /\ run' = [run EXCEPT ![r] = Saved!Idle] /\ Saved!Fault
          /\ UNCHANGED <<db, minute, snaps, order, scheduled, count, bundle>>
      BY <1>2 DEF Saved!Fail, Saved!Over, Saved!Step, AtWork
    <2> QED  BY <2>1, FaultIs, OverKeeps
  <1> QED  BY <1>1, <1>2, BeginKeeps, OpenCopyKeeps, CopyDatabaseKeeps, VerifyKeeps, CopyRestKeeps, ListKeeps, RemoveOldestKeeps
            DEF Saved!RunStep

LEMMA OverwriteKeeps ==
    ASSUME Saved!BackupsAssumption, SaveInv, NEW c \in Saved!Content, Saved!Overwrite(c),
           UNCHANGED <<minute, snaps, order, scheduled, count, bundle, faults>>
    PROVE  SaveInv'
  <1>1. Torn \in Saved!Content
    BY DEF Saved!Content
  <1> QED  BY <1>1, DatabaseBecomes DEF Saved!Overwrite

\* What everybody else does.
LEMMA OthersKeep ==
    ASSUME Saved!BackupsAssumption, SaveInv,
           \/ \E m \in 1 .. Minutes : Saved!RestoreSnapshot(m)
           \/ Saved!Export \/ Saved!Import \/ Saved!Commit \/ Saved!Checkpoint \/ Saved!Tick
           \/ Saved!Switch \/ Saved!Restart \/ UNCHANGED Saved!vars
    PROVE  SaveInv'
  <1>1. CASE \E m \in 1 .. Minutes : Saved!RestoreSnapshot(m)
    <2>1. PICK m \in 1 .. Minutes : Saved!RestoreSnapshot(m)
      BY <1>1
    <2>2. /\ snaps[m] \in Saved!Content /\ Saved!Overwrite(snaps[m])
          /\ UNCHANGED <<minute, snaps, order, scheduled, count, bundle, faults>>
      BY <2>1 DEF Saved!RestoreSnapshot, SaveInv, Tables
    <2> QED  BY <2>2, OverwriteKeeps
  <1>2. CASE Saved!Import
    <2>1. /\ bundle \in Saved!Content /\ Saved!Overwrite(bundle)
          /\ UNCHANGED <<minute, snaps, order, scheduled, count, bundle, faults>>
      BY <1>2 DEF Saved!Import, SaveInv, Tables
    <2> QED  BY <2>1, OverwriteKeeps
  <1>3. CASE Saved!Commit
    <2>1. /\ db.holds + 1 \in Saved!Content /\ db.file \in Saved!Content /\ Saved!Becomes(db.holds + 1, db.file)
          /\ UNCHANGED <<minute, snaps, order, scheduled, count, bundle, faults>>
      <3>1. db.holds \in 0 .. Commits - 1 /\ Commits \in Nat
        BY <1>3 DEF Saved!Commit, Saved!BackupsAssumption
      <3>2. db.holds + 1 \in Saved!Content
        BY <3>1 DEF Saved!Content
      <3> QED  BY <1>3, <3>2 DEF Saved!Commit, SaveInv, Tables
    <2> QED  BY <2>1, DatabaseBecomes
  <1>4. CASE Saved!Restart
    <2>1. /\ run' = [r \in Saved!Runners |-> Saved!Idle] /\ Saved!Fault
          /\ UNCHANGED <<db, minute, snaps, order, scheduled, count, bundle>>
      BY <1>4 DEF Saved!Restart
    <2>2. Tables'
      BY <2>1, FaultIs DEF SaveInv, Tables
    <2>3. Runs(Saved!Idle, db'.holds, snaps', order') /\ ~AtWork(Saved!Idle) /\ Saved!Idle \in Run
      BY IdleIs DEF Runs
    <2> DEFINE x == Saved!Idle
    <2> HIDE DEF x
    <2>4. run' = [r \in Saved!Runners |-> x] /\ Runs(x, db'.holds, snaps', order') /\ ~AtWork(x) /\ x \in Run
      BY <2>1, <2>3 DEF x
    <2> QED  BY <2>2, <2>4 DEF SaveInv
  <1>5. CASE Saved!Export \/ Saved!Checkpoint \/ Saved!Tick \/ Saved!Switch \/ UNCHANGED Saved!vars
    <2>1. run' = run /\ snaps' = snaps /\ order' = order /\ faults' = faults /\ count' = count
      BY <1>5 DEF Saved!Export, Saved!Checkpoint, Saved!Tick, Saved!Switch, Saved!vars
    <2>2. /\ db' \in [holds : Saved!Content, file : Saved!Content] /\ db'.holds = db.holds
          /\ minute' \in 1 .. Minutes /\ scheduled' \in BOOLEAN /\ bundle' \in Saved!Content \cup {None}
      <3>1. /\ db \in [holds : Saved!Content, file : Saved!Content] /\ Minutes \in Nat /\ Torn \in Saved!Content
            /\ minute \in 1 .. Minutes /\ scheduled \in BOOLEAN /\ bundle \in Saved!Content \cup {None}
        BY DEF SaveInv, Tables, Saved!BackupsAssumption, Saved!Content
      <3>2. CASE Saved!Export
        BY <3>1, <3>2 DEF Saved!Export
      <3>3. CASE Saved!Checkpoint
        BY <3>1, <3>3 DEF Saved!Checkpoint
      <3>4. CASE Saved!Tick
        BY <3>1, <3>4 DEF Saved!Tick
      <3>5. CASE Saved!Switch
        BY <3>1, <3>5 DEF Saved!Switch
      <3>6. CASE UNCHANGED Saved!vars
        BY <3>1, <3>6 DEF Saved!vars
      <3> QED  BY <1>5, <3>2, <3>3, <3>4, <3>5, <3>6
    <2>3. Tables'
      BY <2>1, <2>2 DEF SaveInv, Tables
    <2> QED  BY <2>1, <2>2, <2>3 DEF SaveInv
  <1> QED  BY <1>1, <1>2, <1>3, <1>4, <1>5

\* When as many are left as the run keeps, these are the last of those it listed.
LEMMA LeftIsLast ==
    ASSUME NEW r, LeftOf(run[r], order), Len(run[r].list) <= run[r].keep, order \in Listing, run[r].keep \in Nat
    PROVE  {m \in 1 .. Minutes : Saved!Stands(m)} \ run[r].stuck = Saved!LastListed(r)
  <1> DEFINE list == run[r].list
             all == run[r].all
             keep == run[r].keep
  <1>1. /\ all \in Seq(1 .. Minutes) /\ Len(all) \in Nat /\ DOMAIN all = 1 .. Len(all)
        /\ list \in Seq(1 .. Minutes) /\ Len(list) \in Nat
    BY DEF LeftOf, Listing
  <1>2. EndOf(list, all, keep) /\ Len(list) <= keep /\ keep \in Nat
    BY DEF LeftOf
  <1>3. Saved!LastListed(r) = {all[i] : i \in {j \in 1 .. Len(all) : j + keep > Len(all)}}
    BY <1>1 DEF Saved!LastListed
  <1>4. \A m : Saved!Stands(m) /\ m \notin run[r].stuck <=> Among(m, list)
    BY StandsIs DEF LeftOf
  <1>5. \A i \in 1 .. Len(list) : list[i] \in 1 .. Minutes
    <2> DEFINE names == 1 .. Minutes
    <2>1. list \in Seq(names)
      BY <1>1
    <2> HIDE DEF names, list
    <2>2. \A i \in 1 .. Len(list) : list[i] \in names
      BY <2>1
    <2> QED  BY <2>2 DEF names
  <1> HIDE DEF list, all, keep
  <1>6. ASSUME NEW m, Among(m, list) PROVE m \in 1 .. Minutes /\ m \in Saved!LastListed(r)
    <2>1. PICK i \in 1 .. Len(list) : list[i] = m
      BY <1>6 DEF Among
    <2> DEFINE j == i + (Len(all) - Len(list))
    <2>2. j \in 1 .. Len(all) /\ j + keep > Len(all) /\ all[j] = m
      BY <1>1, <1>2, <2>1 DEF EndOf
    <2> QED  BY <1>3, <1>5, <2>1, <2>2
  <1>7. ASSUME NEW m \in Saved!LastListed(r) PROVE Among(m, list)
    <2>1. PICK j \in 1 .. Len(all) : j + keep > Len(all) /\ all[j] = m
      BY <1>3
    <2> DEFINE i == j - (Len(all) - Len(list))
    <2>2. i \in 1 .. Len(list) /\ i + (Len(all) - Len(list)) = j
      BY <1>1, <1>2, <2>1 DEF EndOf
    <2>3. list[i] = m
      BY <1>2, <2>1, <2>2 DEF EndOf
    <2> QED  BY <2>2, <2>3 DEF Among
  <1> QED  BY <1>4, <1>6, <1>7

\* A snapshot that is counted as usable holds one state the database was in while it was
\* made; and a run that had the directory to itself leaves of the directories it found
\* there as many as the setting says, those changed last, its own the newest of them, and
\* the ones that could not be removed.
THEOREM SnapshotsHold == Saved!Spec => SnapshotsKept
  <1>0. Saved!BackupsAssumption
    BY PartsAssumption
  <1>1. Saved!Init => SaveInv
    <2> SUFFICES ASSUME Saved!Init PROVE SaveInv
      OBVIOUS
    <2>1. Runs(Saved!Idle, 0, snaps, order) /\ ~AtWork(Saved!Idle) /\ Saved!Idle \in Run
      BY <1>0, IdleIs DEF Runs
    <2>2. Tables
      <3>1. << >> \in Listing /\ 0 \in Saved!Content /\ 1 \in 1 .. Minutes /\ 0 \in 0 .. MaxFaults
        BY <1>0 DEF Listing, Saved!Content, Saved!BackupsAssumption
      <3> QED  BY <3>1 DEF Saved!Init, Tables
    <2> DEFINE x == Saved!Idle
    <2> HIDE DEF x
    <2>3. run = [r \in Saved!Runners |-> x] /\ Runs(x, db.holds, snaps, order) /\ ~AtWork(x) /\ x \in Run
      BY <2>1 DEF Saved!Init, x
    <2> QED  BY <2>2, <2>3 DEF SaveInv
  <1>2. SaveInv /\ [Saved!Next]_(Saved!vars) => SaveInv'
    BY <1>0, RunKeeps, OthersKeep DEF Saved!Next
  <1>3. SaveInv => Saved!TypeOK
    <2> SUFFICES ASSUME SaveInv PROVE Saved!TypeOK
      OBVIOUS
    <2>1. order \in Listing /\ order \in Seq(1 .. Minutes) /\ DOMAIN order = 1 .. Len(order)
      BY DEF SaveInv, Tables, Listing
    <2>2. \A i, j \in DOMAIN order : order[i] = order[j] => i = j
      BY <2>1 DEF Listing
    <2>3. \A m \in 1 .. Minutes : snaps[m] # None => Saved!Stands(m)
      BY <2>1, StandsIs DEF SaveInv, Tables
    <2> QED  BY <2>1, <2>2, <2>3 DEF SaveInv, Tables, Run, Saved!TypeOK
  <1> DEFINE whole == \A r \in Saved!Runners :
                 run[r].at = "verify" /\ run'[r].at = "rest" /\ Saved!Verified(run[r].name)
                     => snaps[run[r].name] \in run[r].seen
             newest == \A r \in Saved!Runners :
                 run[r].at = "rotate" /\ run'[r].at = "idle" /\ run[r].alone /\ faults' = faults =>
                    /\ {m \in 1 .. Minutes : Saved!Stands(m)} \ run[r].stuck = Saved!LastListed(r)
                    /\ run[r].all # << >> /\ run[r].all[Len(run[r].all)] = run[r].name
  <1>4. SaveInv => [whole]_(Saved!vars)
    BY DEF SaveInv, Runs, Saved!Verified
  <1>5. SaveInv /\ [Saved!Next]_(Saved!vars) => [newest]_(Saved!vars)
    <2> SUFFICES ASSUME SaveInv, Saved!Next, NEW r \in Saved!Runners,
                        run[r].at = "rotate", run'[r].at = "idle", run[r].alone, faults' = faults
                 PROVE  /\ {m \in 1 .. Minutes : Saved!Stands(m)} \ run[r].stuck = Saved!LastListed(r)
                        /\ run[r].all # << >> /\ run[r].all[Len(run[r].all)] = run[r].name
      OBVIOUS
    <2>1. Saved!EndRun(r)
      <3>1. \A q \in Saved!Runners : run[q] \in Run /\ run \in [Saved!Runners -> Run]
        BY DEF SaveInv
      <3>2. ASSUME NEW q \in Saved!Runners, q # r, NEW x, run' = [run EXCEPT ![q] = x] PROVE FALSE
        BY <3>1, <3>2
      <3>3. ~Saved!Fault
        BY <1>0, FaultIs
      <3>4. ASSUME NEW q \in Saved!Runners, Saved!RunStep(q) \/ Saved!Fail(q) PROVE Saved!EndRun(r)
        <4>1. ~Saved!Fail(q)
          BY <3>3 DEF Saved!Fail
        <4>2. ~Saved!Begin(q)
          <5> SUFFICES ASSUME Saved!Begin(q) PROVE FALSE
            OBVIOUS
          <5>1. q # r /\ run'[r] = [run[r] EXCEPT !.alone = FALSE, !.all = << >>, !.stuck = {}]
            BY DEF Saved!Begin
          <5> QED  BY <3>1, <5>1 DEF Run
        <4>3. q = r
          BY <3>2, <3>4, <4>1, <4>2 DEF Saved!RunStep, Saved!OpenCopy, Saved!CopyDatabase, Saved!Verify, Saved!CopyRest,
             Saved!ListDirectories, Saved!Listed, Saved!RemoveOldest, Saved!EndRun, Saved!Over, Saved!Step
        <4>4. ~Saved!RemoveOldest(r)
          <5> SUFFICES ASSUME Saved!RemoveOldest(r) PROVE FALSE
            OBVIOUS
          <5>1. PICK stuck : run' = [run EXCEPT ![r] = [run[r] EXCEPT !.list = Tail(@), !.stuck = stuck]]
            BY DEF Saved!RemoveOldest, Saved!Step
          <5>2. run'[r] = [run[r] EXCEPT !.list = Tail(@), !.stuck = stuck]
            BY <3>1, <5>1
          <5> QED  BY <3>1, <5>2 DEF Run
        <4> QED  BY <3>4, <4>1, <4>2, <4>3, <4>4 DEF Saved!RunStep, Saved!OpenCopy, Saved!CopyDatabase, Saved!Verify,
               Saved!CopyRest, Saved!ListDirectories, Saved!Listed
      <3>5. ASSUME NEW c, NEW file, Saved!Becomes(c, file) PROVE FALSE
        <4>1. run'[r] = run[r]
          BY <3>5 DEF Saved!Becomes
        <4> QED  BY <4>1
      <3> QED  BY <3>3, <3>4, <3>5 DEF Saved!Next, Saved!RestoreSnapshot, Saved!Import, Saved!Overwrite, Saved!Commit,
             Saved!Export, Saved!Checkpoint, Saved!Tick, Saved!Switch, Saved!Restart
    <2>2. LeftOf(run[r], order) /\ Len(run[r].list) <= run[r].keep /\ order \in Listing /\ run[r].keep \in Nat
      <3>1. Runs(run[r], db.holds, snaps, order) /\ run[r] \in Run /\ Counts \subseteq Nat
        BY <1>0 DEF SaveInv, Saved!BackupsAssumption
      <3>2. LeftOf(run[r], order) /\ run[r].keep \in Counts \cup {0}
        BY <3>1 DEF Runs, Run
      <3>3. Len(run[r].list) <= run[r].keep
        BY <2>1 DEF Saved!EndRun
      <3>4. order \in Listing
        BY DEF SaveInv, Tables
      <3>5. run[r].keep \in Nat
        <4>1. Counts \cup {0} \subseteq Nat
          BY <1>0 DEF Saved!BackupsAssumption
        <4> QED  BY <3>2, <4>1
      <3> QED  BY <3>2, <3>3, <3>4, <3>5
    <2> QED  BY <2>2, LeftIsLast DEF LeftOf, Newest
  <1>6. Saved!GoodIsWhole <=> [][whole]_(Saved!vars)
    BY DEF Saved!GoodIsWhole
  <1>7. Saved!NewestKept <=> [][newest]_(Saved!vars)
    BY DEF Saved!NewestKept
  <1> QED  BY <1>1, <1>2, <1>3, <1>4, <1>5, <1>6, <1>7, PTL DEF Saved!Spec, Saved!SnapshotsKept, SnapshotsKept
=============================================================================
