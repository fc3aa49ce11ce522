------------------------ MODULE LoginLockout_proofs ------------------------
(***************************************************************************)
(* Theorems about LoginLockout, for any number of requests, accounts and   *)
(* addresses and any limits; and about Access, for any number of visitors  *)
(* and administrators.                                                     *)
(***************************************************************************)
EXTENDS LoginLockout, FiniteSetTheorems, TLAPS

USE LimitAssumption, TimeAssumption

-----------------------------------------------------------------------------
(* The updates of a row.                                                   *)

\* The four lockout columns can be given any values of their types.
LEMMA LockColumns ==
    ASSUME NEW row \in Row, NEW k \in Nat, NEW locked \in BOOLEAN, NEW left \in Nat
    PROVE  [row EXCEPT !.count = 0, !.lockouts = k, !.locked = locked, !.left = left] \in Row
  BY DEF Row

\* Every update of the lockout columns yields a row.
LEMMA RowUpdates ==
    ASSUME NEW row \in Row
    PROVE  /\ RecordFailure(row) \in Row
           /\ RecordSuccess(row) \in Row
           /\ Unlock(row) \in Row
           /\ Locked(row) \in BOOLEAN
  <1>1. RecordFailure(row) \in Row
    <2>1. CASE row.count + 1 >= Limit
      <3>1. (row.locked \/ row.lockouts + 1 >= 2) \in BOOLEAN /\ row.lockouts + 1 \in Nat
        BY DEF Row
      <3>2. (IF row.lockouts + 1 < 2 THEN LockTime ELSE row.left) \in Nat
        BY DEF Row
      <3> QED  BY <2>1, <3>1, <3>2, LockColumns DEF RecordFailure
    <2>2. CASE ~(row.count + 1 >= Limit)
      BY <2>2 DEF Row, RecordFailure
    <2> QED  BY <2>1, <2>2
  <1>2. RecordSuccess(row) \in Row
    BY DEF Row, RecordSuccess
  <1>3. Unlock(row) \in Row
    BY DEF Row, Unlock
  <1>4. Locked(row) \in BOOLEAN
    BY DEF Row, Locked
  <1> QED  BY <1>1, <1>2, <1>3, <1>4

\* record_failure counts exactly one more wrong password, and puts a second
\* lockout on record only together with the permanent lock.
LEMMA RecordFailureCounts ==
    ASSUME NEW row \in Row, row.count < Limit, row.lockouts >= 2 => row.locked
    PROVE  LET new == RecordFailure(row)
           IN  /\ Limit * new.lockouts + new.count = Limit * row.lockouts + row.count + 1
               /\ new.count < Limit
               /\ new.lockouts >= 2 => new.locked
               /\ new.exists = row.exists
  <1> DEFINE new == RecordFailure(row)
  <1>1. CASE row.count + 1 >= Limit
    <2>1. /\ RecordFailure(row).lockouts = row.lockouts + 1
          /\ RecordFailure(row).count = 0
          /\ RecordFailure(row).locked = (row.locked \/ row.lockouts + 1 >= 2)
          /\ RecordFailure(row).exists = row.exists
      BY <1>1 DEF RecordFailure, Row
    <2>2. row.count + 1 = Limit
      BY <1>1 DEF Row
    <2>3. Limit * (row.lockouts + 1) = Limit * row.lockouts + Limit
      BY DEF Row
    <2>4. Limit * new.lockouts + new.count = Limit * row.lockouts + row.count + 1
      BY <2>1, <2>2, <2>3 DEF Row
    <2>5. new.lockouts >= 2 => new.locked
      BY <2>1
    <2> QED  BY <2>1, <2>4, <2>5
  <1>2. CASE ~(row.count + 1 >= Limit)
    BY <1>2 DEF RecordFailure, Row
  <1> QED  BY <1>1, <1>2

-----------------------------------------------------------------------------
(* Type correctness.                                                       *)

\* A request that reads, compares or counts a password does so for a row.
ChecksARow ==
    \A r \in Requests : request[r].pc \in {"verify", "reread"} => request[r].user \in Users

TypeInv == TypeOK /\ ChecksARow /\ IsFiniteSet(failures)

RequestsTyped == request \in [Requests -> InFlight \cup {Idle}] /\ ChecksARow

\* Below the limit a free slot exists (a pigeonhole argument).
LEMMA FreeSlotExists ==
    ASSUME TypeInv, NEW a \in Addresses, Cardinality(Recent(a)) + 1 < AddressLimit
    PROVE  /\ FreeSlot(a) \in 1 .. AddressLimit
           /\ \A f \in Recent(a) : f.slot # FreeSlot(a)
  <1> DEFINE Slot == [f \in Recent(a) |-> f.slot]
             Used == {f.slot : f \in Recent(a)}
  <1>1. IsFiniteSet(Recent(a)) /\ Cardinality(Recent(a)) \in Nat
    BY FS_Subset, FS_CardinalityType DEF Recent, TypeInv
  <1>2. Slot \in Surjection(Recent(a), Used)
    BY DEF Surjection
  <1>3. IsFiniteSet(Used) /\ Cardinality(Used) <= Cardinality(Recent(a))
    BY <1>1, <1>2, FS_Surjection
  <1>4. Cardinality(1 .. AddressLimit) = AddressLimit
    BY FS_Interval
  <1>5. ~(1 .. AddressLimit \subseteq Used)
    <2> SUFFICES ASSUME 1 .. AddressLimit \subseteq Used PROVE FALSE
      OBVIOUS
    <2>1. Cardinality(1 .. AddressLimit) <= Cardinality(Used)
      BY <1>3, FS_Subset
    <2>2. Cardinality(Used) \in Nat
      BY <1>3, FS_CardinalityType
    <2> QED  BY <2>1, <2>2, <1>1, <1>3, <1>4
  <1>6. \E i \in 1 .. AddressLimit : \A f \in Recent(a) : f.slot # i
    BY <1>5
  <1> QED  BY <1>6 DEF FreeSlot

\* The variables have their types initially.
LEMMA InitTyped == Init => TypeInv
  <1> SUFFICES ASSUME Init PROVE TypeInv
    OBVIOUS
  <1>1. \A p \in Passwords \cup {NoPassword} : NewRow(p) \in Row
    BY DEF Row, NewRow
  <1>2. account \in [Users -> Row]
    BY <1>1 DEF Init
  <1>3. TypeOK
    BY <1>2 DEF Init, TypeOK
  <1>4. ChecksARow /\ IsFiniteSet(failures)
    BY FS_EmptySet DEF Init, ChecksARow, Idle
  <1> QED  BY <1>3, <1>4 DEF TypeInv

\* Giving one request new locals, in whatever way, keeps the requests typed.
LEMMA RequestReplaced ==
    ASSUME RequestsTyped, NEW r \in Requests, NEW q \in InFlight \cup {Idle},
           q.pc \in {"verify", "reread"} => q.user \in Users,
           request' = [request EXCEPT ![r] = q]
    PROVE  RequestsTyped'
  BY DEF RequestsTyped, ChecksARow

\* A step of a request leaves requests of the right type.
LEMMA RequestTyped ==
    ASSUME RequestsTyped, NEW r \in Requests
    PROVE  /\ Respond(r) => RequestsTyped'
           /\ \A pc \in {"address", "account", "charge"} :
                Busy(r) /\ Goto(r, pc) => RequestsTyped'
           /\ request[r].pc = "verify" /\ Goto(r, "reread") => RequestsTyped'
  <1> USE DEF RequestsTyped, ChecksARow
  <1>0. Idle.pc \notin {"address", "account", "verify", "reread", "charge"}
    BY DEF Idle
  <1>1. Respond(r) => RequestsTyped'
    BY <1>0 DEF Respond
  <1>2. ASSUME NEW pc \in {"address", "account", "charge"}, Busy(r), Goto(r, pc)
        PROVE  RequestsTyped'
    <2>1. request[r] \in InFlight
      BY <1>2 DEF Busy, Idle
    <2>2. [request[r] EXCEPT !.pc = pc] \in InFlight
      BY <2>1 DEF InFlight
    <2>3. [request[r] EXCEPT !.pc = pc].pc = pc
      BY <2>1 DEF InFlight
    <2>4. request' = [request EXCEPT ![r] = [request[r] EXCEPT !.pc = pc]]
      BY <1>2 DEF Goto
    <2> QED  BY <2>2, <2>3, <2>4
  <1>3. ASSUME request[r].pc = "verify", Goto(r, "reread")
        PROVE  RequestsTyped'
    <2>1. request[r] \in InFlight
      BY <1>3, <1>0
    <2>2. [request[r] EXCEPT !.pc = "reread"] \in InFlight
      BY <2>1 DEF InFlight
    <2>3. [request[r] EXCEPT !.pc = "reread"].user \in Users
      BY <1>3, <2>1 DEF InFlight
    <2>4. request' = [request EXCEPT ![r] = [request[r] EXCEPT !.pc = "reread"]]
      BY <1>3 DEF Goto
    <2> QED  BY <2>2, <2>3, <2>4
  <1> QED  BY <1>1, <1>2, <1>3

\* The two tables of the throttle.
ThrottleTyped ==
    /\ failures \subseteq [address : Addresses, slot : 1 .. AddressLimit, age : 0 .. Window - 1]
    /\ block \in [Addresses -> 0 .. BlockTime]
    /\ IsFiniteSet(failures)

\* Charging an address finds a free slot for the failure, so the two tables of
\* the throttle stay typed.
LEMMA ChargeTyped ==
    ASSUME TypeInv, NEW a \in Addresses, ChargeAddress(a)
    PROVE  ThrottleTyped'
  <1>1. CASE Cardinality(Recent(a)) + 1 < AddressLimit
    <2>1. Failure(a) \in [address : Addresses, slot : 1 .. AddressLimit, age : 0 .. Window - 1]
      BY <1>1, FreeSlotExists DEF Failure
    <2>2. failures' = failures \cup {Failure(a)} /\ block' = block
      BY <1>1 DEF ChargeAddress
    <2>3. IsFiniteSet(failures')
      BY <2>2, FS_AddElement DEF TypeInv
    <2> QED  BY <2>1, <2>2, <2>3 DEF TypeInv, TypeOK, ThrottleTyped
  <1>2. CASE ~(Cardinality(Recent(a)) + 1 < AddressLimit)
    <2>1. failures' = failures \ Recent(a) /\ block' = [block EXCEPT ![a] = BlockTime]
      BY <1>2 DEF ChargeAddress
    <2>2. IsFiniteSet(failures')
      BY <2>1, FS_Subset DEF TypeInv
    <2> QED  BY <2>1, <2>2 DEF TypeInv, TypeOK, ThrottleTyped
  <1> QED  BY <1>1, <1>2

\* A tick makes the rows of a set of failures one tick older.
Older(F) == {[f EXCEPT !.age = @ + 1] : f \in F}

\* No more rows are left after a tick than there were.
LEMMA OlderFinite ==
    ASSUME NEW F, IsFiniteSet(F)
    PROVE  IsFiniteSet(Older(F)) /\ Cardinality(Older(F)) <= Cardinality(F)
  <1> DEFINE g == [f \in F |-> [f EXCEPT !.age = @ + 1]]
  <1>1. g \in Surjection(F, Older(F))
    BY DEF Surjection, Older
  <1> QED  BY <1>1, FS_Surjection

\* A tick keeps every table and the history of late checks typed.
LEMMA TickTyped ==
    ASSUME TypeInv, Tick
    PROVE  ThrottleTyped' /\ account' \in [Users -> Row] /\ late' \in [Users -> Nat]
  <1> USE DEF TypeInv, TypeOK
  <1>1. failures' = Older({g \in failures : g.age + 1 < Window})
    BY DEF Tick, Older
  <1>2. failures' \subseteq
            [address : Addresses, slot : 1 .. AddressLimit, age : 0 .. Window - 1]
    <2> SUFFICES ASSUME NEW f \in failures, f.age + 1 < Window
                 PROVE  [f EXCEPT !.age = @ + 1] \in
                            [address : Addresses, slot : 1 .. AddressLimit, age : 0 .. Window - 1]
      BY <1>1 DEF Older
    <2> QED  OBVIOUS
  <1>3. IsFiniteSet(failures')
    <2>1. IsFiniteSet({g \in failures : g.age + 1 < Window})
      BY FS_Subset
    <2> QED  BY <1>1, <2>1, OlderFinite
  <1>4. \A n \in Nat : Less(n) \in Nat /\ Less(n) <= n
    BY DEF Less
  <1>5. block' \in [Addresses -> 0 .. BlockTime]
    <2>1. \A a \in Addresses : Less(block[a]) \in 0 .. BlockTime
      BY <1>4
    <2> QED  BY <2>1 DEF Tick
  <1>6. account' \in [Users -> Row]
    <2>1. \A u \in Users : [account[u] EXCEPT !.left = Less(@)] \in Row
      BY <1>4 DEF Row
    <2> QED  BY <2>1 DEF Tick
  <1>7. late' \in [Users -> Nat]
    <2>1. \A u \in Users : Late(u, FALSE) \in Nat
      BY DEF Late
    <2> QED  BY <2>1 DEF Tick
  <1> QED  BY <1>2, <1>3, <1>5, <1>6, <1>7 DEF ThrottleTyped

\* An account row that is replaced by a row leaves the accounts typed.
HistoriesTyped ==
    /\ account \in [Users -> Row]
    /\ wrong \in [Users -> Nat]
    /\ late \in [Users -> Nat]

\* The type invariant in three parts that steps disturb separately.
LEMMA TypedParts == TypeInv <=> HistoriesTyped /\ ThrottleTyped /\ RequestsTyped
  BY DEF TypeInv, TypeOK, ChecksARow, HistoriesTyped, ThrottleTyped, RequestsTyped

\* The same of the next state.
LEMMA TypedPartsNext == TypeInv' <=> HistoriesTyped' /\ ThrottleTyped' /\ RequestsTyped'
  BY DEF TypeInv, TypeOK, ChecksARow, HistoriesTyped, ThrottleTyped, RequestsTyped,
         Recent, InFlight

\* Every step of a request keeps the types.
LEMMA RequestStepTyped ==
    ASSUME TypeInv, NEW r \in Requests, Arrive(r) \/ RequestStep(r)
    PROVE  TypeInv'
  <1>0. HistoriesTyped /\ ThrottleTyped /\ RequestsTyped
    BY TypedParts
  <1>1. ASSUME UNCHANGED <<account, wrong, late>> PROVE HistoriesTyped'
    BY <1>0, <1>1 DEF HistoriesTyped
  <1>2. ASSUME UNCHANGED <<failures, block>> PROVE ThrottleTyped'
    BY <1>0, <1>2 DEF ThrottleTyped
  <1>3. ASSUME Busy(r) PROVE request[r] \in InFlight
    BY <1>0, <1>3 DEF Busy, RequestsTyped, Idle
  <1>4. \A u \in Users, checked \in BOOLEAN : Late(u, checked) \in Nat
    BY <1>0 DEF HistoriesTyped, Late
  <1>4a. ASSUME NEW u \in Users, CheckedInVain(u) PROVE HistoriesTyped'
    BY <1>0, <1>4a DEF CheckedInVain, HistoriesTyped
  <1>5. CASE Arrive(r)
    <2>1. \E q \in InFlight : q.pc = "address" /\ request' = [request EXCEPT ![r] = q]
      <3>1. PICK a \in Addresses, u \in Users \cup {NoUser}, g \in Passwords :
                \E k \in {"login", "change"}, n \in Passwords \cup {NoPassword, TooShort} :
                    request' = [request EXCEPT ![r] =
                        [pc |-> "address", kind |-> k, address |-> a, user |-> u,
                         guess |-> g, new |-> n, hash |-> NoPassword]]
        BY <1>5 DEF Arrive
      <3> QED  BY <3>1 DEF InFlight
    <2>3. RequestsTyped'
      BY <1>0, <2>1, RequestReplaced
    <2> QED  BY <1>1, <1>2, <1>5, <2>3, TypedPartsNext DEF Arrive
  <1>6. CASE CheckAddress(r)
    <2>1. RequestsTyped'
      BY <1>0, <1>6, RequestTyped DEF CheckAddress, Busy
    <2> QED  BY <1>1, <1>2, <1>6, <2>1, TypedPartsNext DEF CheckAddress
  <1>7. CASE ReadAccount(r)
    <2> DEFINE u == request[r].user
    <2>0. Busy(r)
      BY <1>7 DEF ReadAccount, Busy
    <2>1. ASSUME Respond(r) PROVE RequestsTyped'
      BY <1>0, <2>1, RequestTyped
    <2>2. ASSUME Goto(r, "charge") PROVE RequestsTyped'
      BY <1>0, <2>0, <2>2, RequestTyped
    <2>3. ASSUME u # NoUser,
                 request' = [request EXCEPT ![r].pc = "verify",
                                            ![r].hash = account[u].password]
          PROVE  RequestsTyped'
      <3>1. request[r] \in InFlight
        BY <1>3, <2>0
      <3>2. u \in Users
        BY <2>3, <3>1 DEF InFlight
      <3>3. account[u].password \in Passwords \cup {NoPassword}
        BY <1>0, <3>2 DEF HistoriesTyped, Row
      <3>4. PICK q : q = [request[r] EXCEPT !.pc = "verify", !.hash = account[u].password]
        OBVIOUS
      <3>5. q \in InFlight /\ q.user = u
        BY <3>1, <3>3, <3>4 DEF InFlight
      <3>6. request' = [request EXCEPT ![r] = q]
        BY <2>3, <3>4
      <3> QED  BY <1>0, <3>2, <3>5, <3>6, RequestReplaced
    <2>4. \/ Respond(r)
          \/ Goto(r, "charge")
          \/ /\ u # NoUser
             /\ request' = [request EXCEPT ![r].pc = "verify",
                                           ![r].hash = account[u].password]
      BY <1>7 DEF ReadAccount
    <2>5. RequestsTyped'
      BY <2>1, <2>2, <2>3, <2>4
    <2> QED  BY <1>1, <1>2, <1>7, <2>5, TypedPartsNext DEF ReadAccount
  <1>8. CASE WrongPassword(r)
    <2> DEFINE u == request[r].user
    <2>1. u \in Users
      BY <1>0, <1>8 DEF WrongPassword, RequestsTyped, ChecksARow
    <2>2. RequestsTyped'
      BY <1>0, <1>8, RequestTyped DEF WrongPassword
    <2>3. HistoriesTyped'
      <3>1. account[u] \in Row /\ RecordFailure(account[u]) \in Row
        BY <1>0, <2>1, RowUpdates DEF HistoriesTyped
      <3>2. CASE account[u].exists
        <4>1. late' = [late EXCEPT ![u] = Late(u, TRUE)]
          BY <1>8, <3>2 DEF WrongPassword
        <4>2. account' \in [Users -> Row] /\ wrong' \in [Users -> Nat]
          BY <1>0, <1>8, <3>1, <3>2 DEF WrongPassword, HistoriesTyped
        <4>3. late' \in [Users -> Nat]
          BY <1>0, <1>4, <2>1, <4>1 DEF HistoriesTyped
        <4> QED  BY <4>2, <4>3 DEF HistoriesTyped
      <3>3. CASE ~account[u].exists
        BY <1>1, <1>8, <3>3 DEF WrongPassword
      <3> QED  BY <3>2, <3>3
    <2> QED  BY <1>2, <1>8, <2>2, <2>3, TypedPartsNext DEF WrongPassword
  <1>9. CASE RereadAccount(r)
    <2>1. RequestsTyped'
      BY <1>0, <1>9, RequestTyped DEF RereadAccount, Busy
    <2> QED  BY <1>1, <1>2, <1>9, <2>1, TypedPartsNext DEF RereadAccount
  <1>10. CASE CountFailure(r)
    <2>1. request[r].address \in Addresses
      BY <1>3, <1>10 DEF CountFailure, Busy, InFlight
    <2>2. ThrottleTyped'
      BY <1>10, <2>1, ChargeTyped DEF CountFailure
    <2>3. RequestsTyped'
      BY <1>0, <1>10, RequestTyped DEF CountFailure
    <2> QED  BY <1>1, <1>10, <2>2, <2>3, TypedPartsNext DEF CountFailure
  <1>11. CASE RightPassword(r)
    <2> DEFINE u == request[r].user
    <2>1. u \in Users /\ account[u] \in Row
      BY <1>0, <1>11 DEF RightPassword, RequestsTyped, ChecksARow, HistoriesTyped
    <2>2. ASSUME NEW row \in Row, Accept(r, u, row)
          PROVE  HistoriesTyped' /\ RequestsTyped'
      <3>1. RequestsTyped'
        BY <1>0, <2>2, RequestTyped DEF Accept
      <3>2. CASE account[u].exists
        <4>1. late' = [late EXCEPT ![u] = Late(u, TRUE)]
          BY <2>2, <3>2 DEF Accept
        <4>2. account' \in [Users -> Row] /\ wrong' \in [Users -> Nat]
          BY <1>0, <2>2, <3>2 DEF Accept, HistoriesTyped
        <4>3. late' \in [Users -> Nat]
          BY <1>0, <1>4, <2>1, <4>1 DEF HistoriesTyped
        <4> QED  BY <3>1, <4>2, <4>3 DEF HistoriesTyped
      <3>3. CASE ~account[u].exists
        BY <1>1, <2>2, <3>1, <3>3 DEF Accept
      <3> QED  BY <3>2, <3>3
    <2>3. CASE request[r].kind = "login" /\ Accept(r, u, RecordSuccess(account[u]))
      <3>1. RecordSuccess(account[u]) \in Row
        BY <2>1, RowUpdates
      <3> QED  BY <1>2, <1>11, <2>2, <2>3, <3>1, TypedPartsNext DEF RightPassword
    <2>4. CASE /\ request[r].kind = "change"
               /\ request[r].new # TooShort
               /\ Accept(r, u, [RecordSuccess(account[u]) EXCEPT !.password = request[r].new])
      <3>1. request[r].new \in Passwords \cup {NoPassword}
        BY <1>3, <1>11, <2>4 DEF RightPassword, Busy, InFlight
      <3>2. RecordSuccess(account[u]) \in Row
        BY <2>1, RowUpdates
      <3>3. [RecordSuccess(account[u]) EXCEPT !.password = request[r].new] \in Row
        BY <3>1, <3>2 DEF Row
      <3> QED  BY <1>2, <1>11, <2>2, <2>4, <3>3, TypedPartsNext DEF RightPassword
    <2>5. CASE /\ request[r].new = TooShort
               /\ Respond(r)
               /\ CheckedInVain(u)
      <3>2. HistoriesTyped'
        BY <1>4a, <2>1, <2>5
      <3>3. RequestsTyped'
        BY <1>0, <2>5, RequestTyped
      <3> QED  BY <1>2, <1>11, <3>2, <3>3, TypedPartsNext DEF RightPassword
    <2> QED  BY <1>11, <2>3, <2>4, <2>5 DEF RightPassword
  <1>12. CASE DatabaseBusy(r)
    <2>1. RequestsTyped'
      BY <1>0, <1>12, RequestTyped DEF DatabaseBusy
    <2>2. HistoriesTyped'
      BY <1>0, <1>1, <1>12, <1>4a DEF DatabaseBusy, RequestsTyped, ChecksARow
    <2> QED  BY <1>2, <1>12, <2>1, <2>2, TypedPartsNext DEF DatabaseBusy
  <1> QED  BY <1>5, <1>6, <1>7, <1>8, <1>9, <1>10, <1>11, <1>12 DEF RequestStep

\* Every step of the system keeps the types.
LEMMA NextTyped == TypeInv /\ [Next]_vars => TypeInv'
  <1> SUFFICES ASSUME TypeInv, [Next]_vars PROVE TypeInv'
    OBVIOUS
  <1>0. HistoriesTyped /\ ThrottleTyped /\ RequestsTyped
    BY TypedParts
  <1>1. CASE \E r \in Requests : Arrive(r) \/ RequestStep(r)
    BY <1>1, RequestStepTyped
  <1>2. ASSUME NEW u \in Users, NEW row \in Row, Administer(u, row),
               wrong' \in [Users -> Nat], late' \in [Users -> Nat]
        PROVE  TypeInv'
    <2>1. HistoriesTyped'
      BY <1>0, <1>2 DEF Administer, HistoriesTyped
    <2>2. ThrottleTyped' /\ RequestsTyped'
      BY <1>0, <1>2 DEF Administer, ThrottleTyped, RequestsTyped, ChecksARow
    <2> QED  BY <2>1, <2>2, TypedPartsNext
  <1>3. ASSUME NEW u \in Users,
               UnlockUser(u) \/ ResetPassword(u) \/ SetActive(u) \/ DeleteUser(u)
        PROVE  TypeInv'
    <2>1. account[u] \in Row
      BY <1>0 DEF HistoriesTyped
    <2>2. CASE UnlockUser(u)
      BY <1>0, <1>2, <2>1, <2>2, RowUpdates DEF UnlockUser, HistoriesTyped
    <2>3. CASE ResetPassword(u)
      <3>1. PICK p \in Passwords : Administer(u, [account[u] EXCEPT !.password = p])
        BY <2>3 DEF ResetPassword
      <3>2. [account[u] EXCEPT !.password = p] \in Row
        BY <2>1 DEF Row
      <3> QED  BY <1>0, <1>2, <2>3, <3>1, <3>2 DEF ResetPassword, HistoriesTyped
    <2>4. CASE SetActive(u)
      <3>1. PICK b \in BOOLEAN : Administer(u, [account[u] EXCEPT !.active = b])
        BY <2>4 DEF SetActive
      <3>2. [account[u] EXCEPT !.active = b] \in Row
        BY <2>1 DEF Row
      <3> QED  BY <1>0, <1>2, <2>4, <3>1, <3>2 DEF SetActive, HistoriesTyped
    <2>5. CASE DeleteUser(u)
      <3>1. [account[u] EXCEPT !.exists = FALSE] \in Row
        BY <2>1 DEF Row
      <3> QED  BY <1>0, <1>2, <2>5, <3>1 DEF DeleteUser, HistoriesTyped
    <2> QED  BY <1>3, <2>2, <2>3, <2>4, <2>5
  <1>4. CASE Restart
    <2>1. RequestsTyped'
      BY <1>4 DEF Restart, RequestsTyped, ChecksARow, Idle
    <2> QED  BY <1>0, <1>4, <2>1, TypedPartsNext
             DEF Restart, HistoriesTyped, ThrottleTyped
  <1>5. CASE Tick
    <2>1. HistoriesTyped'
      BY <1>0, <1>5, TickTyped DEF HistoriesTyped, Tick
    <2>2. RequestsTyped'
      BY <1>0, <1>5 DEF Tick, RequestsTyped, ChecksARow
    <2> QED  BY <1>5, <2>1, <2>2, TickTyped, TypedPartsNext
  <1>6. CASE UNCHANGED vars
    BY <1>0, <1>6, TypedPartsNext
       DEF vars, HistoriesTyped, ThrottleTyped, RequestsTyped, ChecksARow
  <1> QED  BY <1>1, <1>3, <1>4, <1>5, <1>6 DEF Next

\* The variables always have their types: in particular the slot found for a
\* failure is always a free one.
THEOREM Typed == Spec => []TypeInv
  BY InitTyped, NextTyped, PTL DEF Spec

\* The type invariant the runs check, for any numbers of requests, accounts and
\* addresses.
THEOREM TypeCorrect == Spec => []TypeOK
  <1>1. TypeInv => TypeOK
    BY DEF TypeInv
  <1> QED  BY <1>1, Typed, PTL

-----------------------------------------------------------------------------
(* Every guess is counted.                                                 *)

\* One account is either left as it is or takes one of the counted updates.
AccountStep(u) ==
    \/ /\ account'[u].count = account[u].count
       /\ account'[u].lockouts = account[u].lockouts
       /\ account'[u].locked = account[u].locked
       /\ wrong'[u] = wrong[u]
    \/ /\ account'[u] = RecordFailure(account[u])
       /\ wrong'[u] = wrong[u] + 1
    \/ /\ account'[u].count = 0 /\ account'[u].lockouts = 0
       /\ wrong'[u] = 0
       /\ account'[u].locked = account[u].locked \/ UnlockUser(u)

\* Whatever happens, an account row is left alone, charged with one wrong
\* password, or reset; only the administrator's unlock lifts a permanent lock.
LEMMA NextAccountStep ==
    ASSUME TypeInv, [Next]_vars, NEW u \in Users
    PROVE  AccountStep(u)
  <1> USE DEF AccountStep
  <1>0. account \in [Users -> Row] /\ wrong \in [Users -> Nat] /\ account[u] \in Row
    BY DEF TypeInv, TypeOK
  <1>1. CASE UNCHANGED <<account, wrong>>
    BY <1>1
  <1>2. ASSUME NEW r \in Requests, WrongPassword(r) PROVE AccountStep(u)
    <2>1. CASE ~account[request[r].user].exists
      <3>1. UNCHANGED <<account, wrong>>
        BY <1>2, <2>1 DEF WrongPassword
      <3> QED  BY <1>1, <3>1
    <2>2. CASE account[request[r].user].exists
      <3> DEFINE v == request[r].user
      <3>1. /\ account' = [account EXCEPT ![v] = RecordFailure(@)]
            /\ wrong' = [wrong EXCEPT ![v] = @ + 1]
        BY <1>2, <2>2 DEF WrongPassword
      <3> HIDE DEF v
      <3>2. CASE v = u
        <4>1. account'[u] = RecordFailure(account[u]) /\ wrong'[u] = wrong[u] + 1
          BY <1>0, <3>1, <3>2
        <4> QED  BY <4>1
      <3>3. CASE v # u
        <4>1. account'[u] = account[u] /\ wrong'[u] = wrong[u]
          BY <1>0, <3>1, <3>3
        <4> QED  BY <4>1
      <3> QED  BY <3>2, <3>3
    <2> QED  BY <2>1, <2>2
  <1>3. ASSUME NEW r \in Requests, RightPassword(r) PROVE AccountStep(u)
    <2>1. ASSUME NEW v, NEW row, Accept(r, v, row), v = u => /\ row.count = 0
                                                            /\ row.lockouts = 0
                                                            /\ row.locked = account[u].locked
          PROVE  AccountStep(u)
      BY <1>0, <2>1 DEF Accept
    <2>2. /\ RecordSuccess(account[u]).count = 0
          /\ RecordSuccess(account[u]).lockouts = 0
          /\ RecordSuccess(account[u]).locked = account[u].locked
          /\ \A p : LET row == [RecordSuccess(account[u]) EXCEPT !.password = p]
                    IN  row.count = 0 /\ row.lockouts = 0 /\ row.locked = account[u].locked
      BY <1>0 DEF RecordSuccess, Row
    <2> QED  BY <1>1, <1>3, <2>1, <2>2 DEF RightPassword, CheckedInVain
  <1>4. ASSUME NEW v \in Users, UnlockUser(v) PROVE AccountStep(u)
    BY <1>0, <1>4 DEF UnlockUser, Administer, Unlock, Row
  <1>5. ASSUME NEW v \in Users, ResetPassword(v) \/ SetActive(v) \/ DeleteUser(v)
        PROVE  AccountStep(u)
    BY <1>0, <1>5 DEF ResetPassword, SetActive, DeleteUser, Administer, Row
  <1>6. CASE Tick
    BY <1>0, <1>6 DEF Tick, Row
  <1> QED
    BY <1>1, <1>2, <1>3, <1>4, <1>5, <1>6
    DEF Next, RequestStep, Arrive, CheckAddress, ReadAccount, RereadAccount, CountFailure,
        DatabaseBusy, CheckedInVain, Restart, vars

\* The accounts start with nothing counted.
LEMMA InitCounted == Init => EveryGuessCounted
  <1> SUFFICES ASSUME Init, NEW u \in Users
               PROVE  /\ wrong[u] = Limit * account[u].lockouts + account[u].count
                      /\ account[u].count < Limit
                      /\ account[u].lockouts >= 2 => account[u].locked
    BY DEF EveryGuessCounted
  <1>1. PICK p : account[u] = NewRow(p)
    BY DEF Init
  <1>2. account[u].lockouts = 0 /\ account[u].count = 0 /\ wrong[u] = 0
    BY <1>1 DEF Init, NewRow
  <1> QED  BY <1>2

\* Every step keeps the count and the number of wrong passwords together.
LEMMA NextCounted == TypeInv /\ EveryGuessCounted /\ [Next]_vars => EveryGuessCounted'
  <1> SUFFICES ASSUME TypeInv, EveryGuessCounted, [Next]_vars, NEW u \in Users
               PROVE  /\ wrong'[u] = Limit * account'[u].lockouts + account'[u].count
                      /\ account'[u].count < Limit
                      /\ account'[u].lockouts >= 2 => account'[u].locked
    BY DEF EveryGuessCounted
  <1>1. /\ wrong[u] = Limit * account[u].lockouts + account[u].count
        /\ account[u].count < Limit
        /\ account[u].lockouts >= 2 => account[u].locked
    BY DEF EveryGuessCounted
  <1>2. account[u] \in Row
    BY DEF TypeInv, TypeOK
  <1>3. AccountStep(u)
    BY NextAccountStep
  <1>4. CASE account'[u] = RecordFailure(account[u]) /\ wrong'[u] = wrong[u] + 1
    BY <1>1, <1>2, <1>4, RecordFailureCounts
  <1>5. CASE account'[u].count = 0 /\ account'[u].lockouts = 0 /\ wrong'[u] = 0
    BY <1>5
  <1>6. CASE /\ account'[u].count = account[u].count
             /\ account'[u].lockouts = account[u].lockouts
             /\ account'[u].locked = account[u].locked
             /\ wrong'[u] = wrong[u]
    BY <1>1, <1>6
  <1> QED  BY <1>3, <1>4, <1>5, <1>6 DEF AccountStep

\* Every wrong password is counted once, however many requests are answered
\* together, and the second lockout is never recorded without the permanent lock.
THEOREM Counted == Spec => []EveryGuessCounted
  BY InitCounted, NextCounted, Typed, PTL DEF Spec

\* A permanent lock goes away by an administrator's unlock and in no other way.
THEOREM AdminLifts == Spec => OnlyAdminLifts
  <1>1. ASSUME TypeInv, [Next]_vars, NEW u \in Users,
               account[u].locked, ~account'[u].locked
        PROVE  UnlockUser(u)
    <2>1. account[u] \in Row
      BY <1>1 DEF TypeInv, TypeOK
    <2>2. RecordFailure(account[u]).locked
      BY <1>1, <2>1 DEF RecordFailure, Row
    <2>3. AccountStep(u)
      BY <1>1, NextAccountStep
    <2> QED  BY <1>1, <2>2, <2>3 DEF AccountStep
  <1>2. TypeInv /\ [Next]_vars =>
            [\A u \in Users : account[u].locked /\ ~account'[u].locked => UnlockUser(u)]_vars
    BY <1>1
  <1> QED  BY <1>2, Typed, PTL DEF Spec, OnlyAdminLifts

-----------------------------------------------------------------------------
(* The throttle stays below its limit.                                     *)

\* Charging one address leaves every address below the limit: either there was
\* room for one more row, or the block takes the rows with it.
LEMMA ChargeBelow ==
    ASSUME TypeInv, AddressBelowLimit, NEW b \in Addresses, ChargeAddress(b)
    PROVE  AddressBelowLimit'
  <1> SUFFICES ASSUME NEW a \in Addresses
               PROVE  Cardinality(Recent(a)') < AddressLimit
    BY DEF AddressBelowLimit
  <1>1. IsFiniteSet(Recent(a)) /\ Cardinality(Recent(a)) \in Nat
    BY FS_Subset, FS_CardinalityType DEF Recent, TypeInv
  <1>2. Cardinality(Recent(a)) < AddressLimit
    BY DEF AddressBelowLimit
  <1>3. Failure(b).address = b
    BY DEF Failure
  <1>4. CASE a # b
    <2>1. Recent(a)' = Recent(a)
      BY <1>3, <1>4 DEF ChargeAddress, Recent
    <2> QED  BY <1>2, <2>1
  <1>5. CASE a = b /\ Cardinality(Recent(b)) + 1 < AddressLimit
    <2>1. Recent(a)' = Recent(a) \cup {Failure(b)}
      BY <1>3, <1>5 DEF ChargeAddress, Recent
    <2>2. Cardinality(Recent(a)') <= Cardinality(Recent(a)) + 1
      BY <1>1, <2>1, FS_AddElement
    <2>3. Cardinality(Recent(a)') \in Nat
      BY <1>1, <2>1, FS_AddElement, FS_CardinalityType
    <2> QED  BY <1>1, <1>5, <2>2, <2>3
  <1>6. CASE a = b /\ ~(Cardinality(Recent(b)) + 1 < AddressLimit)
    <2>1. Recent(a)' = {}
      BY <1>6 DEF ChargeAddress, Recent
    <2> QED  BY <2>1, FS_EmptySet
  <1> QED  BY <1>4, <1>5, <1>6

\* Ageing leaves no more rows than there were.
LEMMA TickBelow ==
    ASSUME TypeInv, AddressBelowLimit, Tick
    PROVE  AddressBelowLimit'
  <1> SUFFICES ASSUME NEW a \in Addresses
               PROVE  Cardinality(Recent(a)') < AddressLimit
    BY DEF AddressBelowLimit
  <1> DEFINE Young == {g \in Recent(a) : g.age + 1 < Window}
  <1>1. IsFiniteSet(Recent(a)) /\ Cardinality(Recent(a)) \in Nat
    BY FS_Subset, FS_CardinalityType DEF Recent, TypeInv
  <1>2. IsFiniteSet(Young) /\ Cardinality(Young) <= Cardinality(Recent(a))
    BY <1>1, FS_Subset
  <1>3. Recent(a)' = Older(Young)
    <2>1. \A f \in failures : [f EXCEPT !.age = @ + 1].address = f.address
      BY DEF TypeInv, TypeOK
    <2> QED  BY <2>1 DEF Tick, Recent, Older
  <1>4. IsFiniteSet(Older(Young)) /\ Cardinality(Older(Young)) <= Cardinality(Young)
    BY <1>2, OlderFinite
  <1>5. Cardinality(Young) \in Nat /\ Cardinality(Older(Young)) \in Nat
    BY <1>2, <1>4, FS_CardinalityType
  <1>6. Cardinality(Recent(a)) < AddressLimit
    BY DEF AddressBelowLimit
  <1> QED  BY <1>1, <1>2, <1>3, <1>4, <1>5, <1>6

\* No transaction leaves an address with as many counting rows as the limit.
LEMMA NextBelow == TypeInv /\ AddressBelowLimit /\ [Next]_vars => AddressBelowLimit'
  <1> SUFFICES ASSUME TypeInv, AddressBelowLimit, [Next]_vars PROVE AddressBelowLimit'
    OBVIOUS
  <1>1. CASE UNCHANGED failures
    BY <1>1 DEF AddressBelowLimit, Recent
  <1>2. ASSUME NEW r \in Requests, CountFailure(r) PROVE AddressBelowLimit'
    <2>1. request[r].address \in Addresses
      BY <1>2 DEF CountFailure, TypeInv, TypeOK, InFlight, Idle
    <2> QED  BY <1>2, <2>1, ChargeBelow DEF CountFailure
  <1>3. CASE Tick
    BY <1>3, TickBelow
  <1> QED
    BY <1>1, <1>2, <1>3
    DEF Next, RequestStep, Arrive, CheckAddress, ReadAccount, RereadAccount, WrongPassword,
        RightPassword, DatabaseBusy, Restart, UnlockUser, ResetPassword, SetActive, DeleteUser,
        Administer, vars

\* An address never keeps as many counting failures as the limit: the block
\* always came first.
THEOREM BelowLimit == Spec => []AddressBelowLimit
  <1>1. Init => AddressBelowLimit
    <2> SUFFICES ASSUME Init, NEW a \in Addresses PROVE Cardinality(Recent(a)) < AddressLimit
      BY DEF AddressBelowLimit
    <2>1. Recent(a) = {}
      BY DEF Init, Recent
    <2> QED  BY <2>1, FS_EmptySet
  <1> QED  BY <1>1, NextBelow, Typed, PTL DEF Spec

-----------------------------------------------------------------------------
(* A lock admits fewer late checks than there are requests.                *)

\* The lock does not begin with this step, and no check is made.
Spared(u) == Locked(account'[u]) => Locked(account[u]) /\ late'[u] = late[u]

\* One check that was under way is made: the first since the lock, or one more.
Checked(u, r) ==
    /\ r \in Checking(u)
    /\ Checking(u)' \subseteq Checking(u) \ {r}
    /\ late'[u] = 0 \/ (Locked(account[u]) /\ late'[u] = late[u] + 1)

\* The arithmetic of the bound: a check that is made is no longer to come.
LEMMA LateBound ==
    ASSUME TypeInv, FewLateChecks, NEW u \in Users, Locked(account'[u]), late'[u] \in Nat,
           \/ Spared(u) /\ Checking(u)' \subseteq Checking(u)
           \/ \E r \in Requests : Checked(u, r)
    PROVE  late'[u] + Cardinality(Checking(u)') < Cardinality(Requests)
  <1>1. /\ IsFiniteSet(Checking(u)) /\ Cardinality(Checking(u)) \in Nat
        /\ Cardinality(Checking(u)) <= Cardinality(Requests)
        /\ Cardinality(Requests) \in Nat
    BY RequestsAssumption, FS_Subset, FS_CardinalityType DEF Checking
  <1>2. Locked(account[u]) => late[u] + Cardinality(Checking(u)) < Cardinality(Requests)
    BY DEF FewLateChecks
  <1>3. late[u] \in Nat
    BY DEF TypeInv, TypeOK
  <1>4. CASE Spared(u) /\ Checking(u)' \subseteq Checking(u)
    <2>1. Cardinality(Checking(u)') <= Cardinality(Checking(u)) /\ Cardinality(Checking(u)') \in Nat
      BY <1>1, <1>4, FS_Subset, FS_CardinalityType
    <2>2. Locked(account[u]) /\ late'[u] = late[u]
      BY <1>4 DEF Spared
    <2> QED  BY <1>1, <1>2, <1>3, <2>1, <2>2
  <1>5. CASE \E r \in Requests : Checked(u, r)
    <2>1. PICK r \in Requests : Checked(u, r)
      BY <1>5
    <2>2. /\ Cardinality(Checking(u) \ {r}) = Cardinality(Checking(u)) - 1
          /\ IsFiniteSet(Checking(u) \ {r})
      BY <1>1, <2>1, FS_RemoveElement DEF Checked
    <2>3. /\ Cardinality(Checking(u)') <= Cardinality(Checking(u)) - 1
          /\ Cardinality(Checking(u)') \in Nat
      BY <2>1, <2>2, FS_Subset, FS_CardinalityType DEF Checked
    <2>4. CASE late'[u] = 0
      BY <1>1, <2>3, <2>4
    <2>5. CASE Locked(account[u]) /\ late'[u] = late[u] + 1
      BY <1>1, <1>2, <1>3, <2>3, <2>5
    <2> QED  BY <2>1, <2>4, <2>5 DEF Checked
  <1> QED  BY <1>4, <1>5

\* A request that leaves its check for another place is no longer checking.
LEMMA LeavesCheck ==
    ASSUME TypeInv, NEW u \in Users, NEW r \in Requests,
           \/ Respond(r)
           \/ request[r].pc # "idle" /\ \E pc \in {"reread", "charge", "account"} : Goto(r, pc)
    PROVE  Checking(u)' \subseteq Checking(u) \ {r}
  <1>1. request \in [Requests -> InFlight \cup {Idle}]
    BY DEF TypeInv, TypeOK
  <1>2. request'[r].pc # "verify"
    <2>1. CASE Respond(r)
      BY <1>1, <2>1 DEF Respond, Idle
    <2>2. CASE request[r].pc # "idle" /\ \E pc \in {"reread", "charge", "account"} : Goto(r, pc)
      <3>1. request[r] \in InFlight
        BY <1>1, <2>2 DEF Idle
      <3> QED  BY <1>1, <2>2, <3>1 DEF Goto, InFlight
    <2> QED  BY <2>1, <2>2
  <1>3. \A q \in Requests : q # r => request'[q] = request[q]
    BY <1>1 DEF Respond, Goto
  <1> QED  BY <1>2, <1>3 DEF Checking

\* Every step either spares an account or makes one check of it.
LEMMA NextLate ==
    ASSUME TypeInv, [Next]_vars, NEW u \in Users, Locked(account'[u])
    PROVE  \/ Spared(u) /\ Checking(u)' \subseteq Checking(u)
           \/ \E r \in Requests : Checked(u, r)
  <1> DEFINE Goal == \/ Spared(u) /\ Checking(u)' \subseteq Checking(u)
                     \/ \E r \in Requests : Checked(u, r)
  <1>0. /\ account \in [Users -> Row] /\ late \in [Users -> Nat]
        /\ request \in [Requests -> InFlight \cup {Idle}] /\ ChecksARow
    BY DEF TypeInv, TypeOK
  <1>1. ASSUME UNCHANGED <<account, late>> PROVE Spared(u)
    BY <1>1 DEF Spared
  <1>2. ASSUME NEW r \in Requests, request[r].pc = "verify",
               Respond(r) \/ Goto(r, "reread"),
               LET v == request[r].user
               IN  \/ /\ \A w \in Users \ {v} : account'[w] = account[w]
                      /\ late' = [late EXCEPT ![v] = Late(v, TRUE)]
                   \/ CheckedInVain(v)
                   \/ UNCHANGED <<account, late>>
        PROVE  Goal
    <2> DEFINE v == request[r].user
    <2>1. Checking(u)' \subseteq Checking(u) \ {r}
      BY <1>2, LeavesCheck
    <2>2. v \in Users
      BY <1>0, <1>2 DEF ChecksARow
    <2>3. CASE v = u
      <3>1. r \in Checking(u)
        BY <1>2, <2>3 DEF Checking
      <3>2. CASE late' = [late EXCEPT ![v] = Late(v, TRUE)]
        <4>1. late'[u] = 0 \/ (Locked(account[u]) /\ late'[u] = late[u] + 1)
          BY <1>0, <2>2, <2>3, <3>2 DEF Late
        <4> QED  BY <2>1, <3>1, <4>1 DEF Checked
      <3>3. CASE CheckedInVain(v)
        <4>1. CASE account[v].exists /\ Locked(account[v])
          <5>1. late'[u] = late[u] + 1
            BY <1>0, <2>2, <2>3, <3>3, <4>1 DEF CheckedInVain
          <5> QED  BY <2>1, <2>3, <3>1, <4>1, <5>1 DEF Checked
        <4>2. CASE ~(account[v].exists /\ Locked(account[v]))
          BY <1>1, <2>1, <3>3, <4>2 DEF CheckedInVain
        <4> QED  BY <4>1, <4>2
      <3>4. CASE UNCHANGED <<account, late>>
        BY <1>1, <2>1, <3>4
      <3> QED  BY <1>2, <3>2, <3>3, <3>4
    <2>4. CASE v # u
      <3>1. account'[u] = account[u] /\ late'[u] = late[u]
        BY <1>0, <1>2, <2>4 DEF CheckedInVain
      <3> QED  BY <2>1, <3>1 DEF Spared
    <2> QED  BY <2>3, <2>4
  <1>3. ASSUME NEW r \in Requests, Arrive(r) \/ RequestStep(r)
        PROVE  Goal
    <2>1. CASE Arrive(r)
      <3>1. request'[r].pc # "verify" /\ \A q \in Requests : q # r => request'[q] = request[q]
        BY <1>0, <2>1 DEF Arrive
      <3>2. Checking(u)' \subseteq Checking(u)
        BY <3>1 DEF Checking
      <3> QED  BY <1>1, <2>1, <3>2 DEF Arrive
    <2>2. CASE CheckAddress(r) \/ RereadAccount(r) \/ CountFailure(r)
      <3>1. Respond(r) \/ (request[r].pc # "idle" /\ (Goto(r, "account") \/ Goto(r, "charge")))
        BY <2>2 DEF CheckAddress, RereadAccount, CountFailure
      <3>2. Checking(u)' \subseteq Checking(u)
        BY <3>1, LeavesCheck
      <3> QED  BY <1>1, <2>2, <3>2 DEF CheckAddress, RereadAccount, CountFailure
    <2>3. CASE ReadAccount(r)
      <3>1. CASE Respond(r) \/ Goto(r, "charge")
        <4>1. Checking(u)' \subseteq Checking(u)
          BY <2>3, <3>1, LeavesCheck DEF ReadAccount
        <4> QED  BY <1>1, <2>3, <4>1 DEF ReadAccount
      <3>2. CASE /\ ~Locked(account[request[r].user])
                 /\ request' = [request EXCEPT ![r].pc = "verify",
                                               ![r].hash = account[request[r].user].password]
        <4>1. request[r].user # u
          BY <2>3, <3>2 DEF ReadAccount
        <4>2. request[r] \in InFlight
          BY <1>0, <2>3 DEF ReadAccount, Idle
        <4>3. request'[r].user = request[r].user
          BY <1>0, <3>2, <4>2 DEF InFlight
        <4>4. \A q \in Requests : q # r => request'[q] = request[q]
          BY <1>0, <3>2
        <4>5. Checking(u)' \subseteq Checking(u)
          BY <4>1, <4>3, <4>4 DEF Checking
        <4> QED  BY <1>1, <2>3, <4>5 DEF ReadAccount
      <3> QED  BY <2>3, <3>1, <3>2 DEF ReadAccount
    <2>4. CASE WrongPassword(r)
      BY <1>0, <1>2, <2>4 DEF WrongPassword
    <2>5. CASE RightPassword(r)
      BY <1>0, <1>2, <2>5 DEF RightPassword, Accept
    <2>6. CASE DatabaseBusy(r)
      <3>1. CASE request[r].pc = "verify" /\ CheckedInVain(request[r].user)
        BY <1>2, <2>6, <3>1 DEF DatabaseBusy
      <3>2. CASE request[r].pc = "charge" /\ UNCHANGED <<account, wrong, late>>
        <4>1. Checking(u)' \subseteq Checking(u)
          BY <2>6, LeavesCheck DEF DatabaseBusy
        <4> QED  BY <1>1, <3>2, <4>1
      <3> QED  BY <2>6, <3>1, <3>2 DEF DatabaseBusy
    <2> QED  BY <1>3, <2>1, <2>2, <2>3, <2>4, <2>5, <2>6 DEF RequestStep
  <1>4. ASSUME UNCHANGED request, Spared(u) PROVE Goal
    BY <1>4 DEF Checking
  <1>5. ASSUME NEW v \in Users, UnlockUser(v) \/ ResetPassword(v) \/ SetActive(v) \/ DeleteUser(v)
        PROVE  Goal
    <2>1. Spared(u)
      <3>1. CASE UnlockUser(v)
        BY <1>0, <3>1 DEF Spared, UnlockUser, Administer, Unlock, Locked, Row
      <3>2. CASE ResetPassword(v) \/ SetActive(v) \/ DeleteUser(v)
        BY <1>0, <3>2 DEF Spared, ResetPassword, SetActive, DeleteUser, Administer, Locked, Row
      <3> QED  BY <1>5, <3>1, <3>2
    <2> QED  BY <1>4, <1>5, <2>1 DEF UnlockUser, ResetPassword, SetActive, DeleteUser, Administer
  <1>6. CASE Restart
    <2>1. Checking(u)' = {}
      BY <1>6 DEF Restart, Checking, Idle
    <2> QED  BY <1>1, <1>6, <2>1 DEF Restart
  <1>7. CASE Tick
    <2>1. account'[u] = [account[u] EXCEPT !.left = Less(@)]
      BY <1>7 DEF Tick
    <2>2. Locked(account[u])
      BY <1>0, <2>1 DEF Locked, Less, Row
    <2>3. late'[u] = late[u]
      BY <1>7, <2>2 DEF Tick, Late
    <2> QED  BY <1>4, <1>7, <2>2, <2>3 DEF Tick, Spared
  <1>8. CASE UNCHANGED vars
    BY <1>1, <1>4, <1>8 DEF vars
  <1> QED  BY <1>3, <1>5, <1>6, <1>7, <1>8 DEF Next

\* Fewer checks than there are requests ever reach a locked account, whatever
\* the requests do between reading the row and comparing the password.
THEOREM FewLate == Spec => []FewLateChecks
  <1>1. Init => FewLateChecks
    <2> SUFFICES ASSUME Init, NEW u \in Users PROVE ~Locked(account[u])
      BY DEF FewLateChecks
    <2> QED  BY DEF Init, NewRow, Locked
  <1>2. TypeInv /\ TypeInv' /\ FewLateChecks /\ [Next]_vars => FewLateChecks'
    <2> SUFFICES ASSUME TypeInv, TypeInv', FewLateChecks, [Next]_vars,
                        NEW u \in Users, Locked(account'[u])
                 PROVE  late'[u] + Cardinality(Checking(u)') < Cardinality(Requests)
      BY DEF FewLateChecks, Locked
    <2>1. late'[u] \in Nat
      BY DEF TypeInv, TypeOK
    <2> QED  BY <2>1, LateBound, NextLate
  <1> QED  BY <1>1, <1>2, Typed, PTL DEF Spec

-----------------------------------------------------------------------------
(* The lockout implements GuessBudget.                                     *)

LockInv == TypeInv /\ EveryGuessCounted /\ FewLateChecks

\* The mapped variables, account by account.
Spent(u) == Limit * account[u].lockouts + account[u].count
Slack(u) == Cardinality(Requests) - 1 - late[u]

\* A request that is about to compare a password may do so: one of the
\* stragglers is left for it.
LEMMA CheckAdmitted ==
    ASSUME LockInv, NEW r \in Requests, request[r].pc = "verify"
    PROVE  request[r].user \in Users /\ Budget!Admitted(request[r].user)
  <1> DEFINE u == request[r].user
  <1>1. u \in Users
    BY DEF LockInv, TypeInv, ChecksARow
  <1>2. /\ IsFiniteSet(Checking(u)) /\ Cardinality(Checking(u)) \in Nat
        /\ Cardinality(Requests) \in Nat /\ r \in Checking(u)
    BY RequestsAssumption, FS_Subset, FS_CardinalityType DEF Checking
  <1>3. Cardinality(Checking(u)) # 0
    BY <1>2, FS_EmptySet
  <1>4. late[u] \in Nat
    BY <1>1 DEF LockInv, TypeInv, TypeOK
  <1>5. Locked(account[u]) => late[u] + Cardinality(Checking(u)) < Cardinality(Requests)
    BY <1>1 DEF LockInv, FewLateChecks
  <1>6. Locked(account[u]) => Cardinality(Requests) - 1 - late[u] > 0
    BY <1>2, <1>3, <1>4, <1>5
  <1> QED  BY <1>1, <1>6 DEF Budget!Admitted, Budget!Closed, Locked

\* The stragglers left to an account after a step are those GuessBudget counts.
LEMMA SlackMapped ==
    ASSUME NEW u \in Users, NEW checked \in BOOLEAN, late \in [Users -> Nat],
           late' = [late EXCEPT ![u] = Late(u, checked)]
    PROVE  /\ Slack(u)' = Budget!Slack(u, checked)
           /\ [w \in Users |-> Slack(w)]' =
                  [[w \in Users |-> Slack(w)] EXCEPT ![u] = Budget!Slack(u, checked)]
  <1>1. Cardinality(Requests) \in Nat
    BY RequestsAssumption, FS_CardinalityType
  <1>2. late'[u] = Late(u, checked)
    OBVIOUS
  <1>3. Slack(u)' = Budget!Slack(u, checked)
    <2>1. CASE ~Locked(account'[u]) \/ ~Locked(account[u])
      BY <1>1, <1>2, <2>1 DEF Late, Slack, Budget!Slack, Budget!Closed, Locked
    <2>2. CASE Locked(account'[u]) /\ Locked(account[u])
      BY <1>1, <1>2, <2>2 DEF Late, Slack, Budget!Slack, Budget!Closed, Locked
    <2> QED  BY <2>1, <2>2
  <1>4. \A w \in Users : w # u => late'[w] = late[w]
    OBVIOUS
  <1> QED  BY <1>3, <1>4 DEF Slack

\* One wrong password costs the account one unit of its budget, locks it when
\* half of the budget is gone and bars it when all of it is.
LEMMA FailureMapped ==
    ASSUME NEW row \in Row, row.count < Limit, row.lockouts >= 2 => row.locked
    PROVE  LET new    == RecordFailure(row)
               budget == 2 * Limit - (Limit * row.lockouts + row.count)
           IN  /\ 2 * Limit - (Limit * new.lockouts + new.count) = budget - 1
               /\ new.left = IF budget - 1 = Limit THEN LockTime ELSE row.left
               /\ new.locked = (row.locked \/ budget <= 1)
  <1> DEFINE new    == RecordFailure(row)
             budget == 2 * Limit - (Limit * row.lockouts + row.count)
  <1>0. row.count \in Nat /\ row.lockouts \in Nat /\ row.locked \in BOOLEAN /\ row.left \in Nat
    BY DEF Row
  <1>1. 2 * Limit - (Limit * new.lockouts + new.count) = budget - 1
    <2>1. Limit * new.lockouts + new.count = Limit * row.lockouts + row.count + 1
      BY RecordFailureCounts
    <2>2. Limit * row.lockouts \in Nat
      BY <1>0
    <2> HIDE DEF new
    <2> QED  BY <1>0, <2>1, <2>2
  <1>2. CASE row.lockouts = 0
    <2>1. Limit * row.lockouts = 0
      BY <1>2
    <2>2. budget = 2 * Limit - row.count
      BY <1>0, <2>1
    <2>3. budget - 1 = Limit <=> row.count + 1 >= Limit
      BY <1>0, <2>2
    <2>4. ~(budget <= 1)
      BY <1>0, <2>2
    <2> HIDE DEF budget
    <2> QED  BY <1>0, <1>1, <1>2, <2>3, <2>4 DEF RecordFailure, Row
  <1>3. CASE row.lockouts = 1
    <2>1. Limit * row.lockouts = Limit
      BY <1>3
    <2>2. budget = Limit - row.count
      BY <1>0, <2>1
    <2>3. budget <= 1 <=> row.count + 1 >= Limit
      BY <1>0, <2>2
    <2>4. budget - 1 # Limit
      BY <1>0, <2>2
    <2> HIDE DEF budget
    <2> QED  BY <1>0, <1>1, <1>3, <2>3, <2>4 DEF RecordFailure, Row
  <1>4. CASE row.lockouts >= 2
    <2>1. Limit * row.lockouts >= 2 * Limit
      BY <1>0, <1>4
    <2>2. budget \in Int /\ budget <= 0
      <3>1. Limit * row.lockouts \in Nat
        BY <1>0
      <3> QED  BY <1>0, <2>1, <3>1
    <2> HIDE DEF budget
    <2>3. row.locked /\ budget <= 1 /\ budget - 1 # Limit
      BY <1>4, <2>2
    <2> QED  BY <1>0, <1>1, <1>4, <2>3 DEF RecordFailure, Row
  <1> QED  BY <1>0, <1>2, <1>3, <1>4

\* A wrong password is a step Wrong of GuessBudget.
LEMMA WrongImplements ==
    ASSUME LockInv, NEW r \in Requests, NEW v, v = request[r].user,
           WrongPassword(r), account[v].exists
    PROVE  Budget!Wrong(v)
  <1>1. v \in Users /\ Budget!Admitted(v)
    BY CheckAdmitted DEF WrongPassword
  <1>2. /\ account \in [Users -> Row] /\ account[v] \in Row /\ late \in [Users -> Nat]
        /\ account[v].count < Limit
        /\ account[v].lockouts >= 2 => account[v].locked
    BY <1>1 DEF LockInv, TypeInv, TypeOK, EveryGuessCounted
  <1>3. /\ account'[v] = RecordFailure(account[v])
        /\ \A w \in Users : w # v => account'[w] = account[w]
        /\ late' = [late EXCEPT ![v] = Late(v, TRUE)]
    BY <1>1, <1>2 DEF WrongPassword
  <1>4. /\ 2 * Limit - Spent(v)' = 2 * Limit - Spent(v) - 1
        /\ account'[v].left =
               IF 2 * Limit - Spent(v) - 1 = Limit THEN LockTime ELSE account[v].left
        /\ account'[v].locked = (account[v].locked \/ 2 * Limit - Spent(v) <= 1)
    BY <1>2, <1>3, FailureMapped DEF Spent
  <1>5. [w \in Users |-> Slack(w)]' =
            [[w \in Users |-> Slack(w)] EXCEPT ![v] = Budget!Slack(v, TRUE)]
    BY <1>1, <1>2, <1>3, SlackMapped
  <1>6. [w \in Users |-> 2 * Limit - Spent(w)]' =
            [[w \in Users |-> 2 * Limit - Spent(w)] EXCEPT ![v] = @ - 1]
    BY <1>1, <1>3, <1>4 DEF Spent
  <1>7. [w \in Users |-> account[w].left]' =
            [[w \in Users |-> account[w].left] EXCEPT ![v] =
                IF 2 * Limit - Spent(v) - 1 = Limit THEN LockTime ELSE @]
    BY <1>1, <1>3, <1>4
  <1>8. [w \in Users |-> account[w].locked]' =
            [[w \in Users |-> account[w].locked] EXCEPT ![v] =
                @ \/ 2 * Limit - Spent(v) <= 1]
    BY <1>1, <1>3, <1>4
  <1> QED
    BY <1>1, <1>5, <1>6, <1>7, <1>8 DEF Budget!Wrong, Spent, Slack

\* A right password that is recorded is a step Right of GuessBudget.
LEMMA RightImplements ==
    ASSUME LockInv, NEW r \in Requests, NEW v, v = request[r].user,
           request[r].pc = "verify", account[v].exists, NEW row,
           row.count = 0, row.lockouts = 0, row.left = 0,
           row.locked = account[v].locked,
           Accept(r, v, row)
    PROVE  Budget!Right(v)
  <1>1. v \in Users /\ Budget!Admitted(v)
    BY CheckAdmitted
  <1>2. account \in [Users -> Row] /\ late \in [Users -> Nat]
    BY DEF LockInv, TypeInv, TypeOK
  <1>3. /\ account'[v] = row
        /\ \A w \in Users : w # v => account'[w] = account[w]
        /\ late' = [late EXCEPT ![v] = Late(v, TRUE)]
    BY <1>1, <1>2 DEF Accept
  <1>4. 2 * Limit - Spent(v)' = 2 * Limit
    BY <1>3 DEF Spent
  <1>5. [w \in Users |-> Slack(w)]' =
            [[w \in Users |-> Slack(w)] EXCEPT ![v] = Budget!Slack(v, TRUE)]
    BY <1>1, <1>2, <1>3, SlackMapped
  <1>6. [w \in Users |-> 2 * Limit - Spent(w)]' =
            [[w \in Users |-> 2 * Limit - Spent(w)] EXCEPT ![v] = 2 * Limit]
    BY <1>1, <1>3, <1>4 DEF Spent
  <1>7. [w \in Users |-> account[w].left]' = [[w \in Users |-> account[w].left] EXCEPT ![v] = 0]
    BY <1>1, <1>3
  <1>8. [w \in Users |-> account[w].locked]' = [w \in Users |-> account[w].locked]
    BY <1>1, <1>3
  <1> QED
    BY <1>1, <1>5, <1>6, <1>7, <1>8 DEF Budget!Right, Spent, Slack

\* A step that leaves the lockout columns and the late checks alone is a stutter.
LEMMA Unseen ==
    ASSUME late' = late,
           \A u \in Users : /\ account'[u].count = account[u].count
                            /\ account'[u].lockouts = account[u].lockouts
                            /\ account'[u].left = account[u].left
                            /\ account'[u].locked = account[u].locked
    PROVE  UNCHANGED Budget!vars
  BY DEF Budget!vars

\* A check whose outcome is lost is a step Idle of GuessBudget, or a stutter.
LEMMA VainImplements ==
    ASSUME LockInv, NEW r \in Requests, NEW v, v = request[r].user,
           request[r].pc = "verify", CheckedInVain(v)
    PROVE  Budget!Idle(v) \/ UNCHANGED Budget!vars
  <1>1. v \in Users /\ Budget!Admitted(v)
    BY CheckAdmitted
  <1>2. late \in [Users -> Nat] /\ account' = account
    BY DEF LockInv, TypeInv, TypeOK, CheckedInVain
  <1>3. CASE account[v].exists /\ Locked(account[v])
    <2>1. late' = [late EXCEPT ![v] = Late(v, TRUE)]
      BY <1>1, <1>2, <1>3 DEF CheckedInVain, Late
    <2>2. [w \in Users |-> Slack(w)]' =
              [[w \in Users |-> Slack(w)] EXCEPT ![v] = Budget!Slack(v, TRUE)]
      BY <1>1, <1>2, <2>1, SlackMapped
    <2> QED  BY <1>1, <1>2, <2>2 DEF Budget!Idle, Slack
  <1>4. CASE ~(account[v].exists /\ Locked(account[v]))
    BY <1>2, <1>4, Unseen DEF CheckedInVain
  <1> QED  BY <1>3, <1>4

\* The administrator's unlock is a step Pardon.
LEMMA UnlockImplements ==
    ASSUME LockInv, NEW u \in Users, UnlockUser(u)
    PROVE  Budget!Pardon(u)
  <1>1. account \in [Users -> Row] /\ late \in [Users -> Nat] /\ account[u] \in Row
    BY DEF LockInv, TypeInv, TypeOK
  <1>2. /\ account'[u] = Unlock(account[u])
        /\ \A w \in Users : w # u => account'[w] = account[w]
        /\ late' = [late EXCEPT ![u] = 0]
    BY <1>1 DEF UnlockUser, Administer
  <1>3. /\ account'[u].count = 0 /\ account'[u].lockouts = 0
        /\ account'[u].left = 0 /\ account'[u].locked = FALSE
    BY <1>1, <1>2 DEF Unlock, Row
  <1>4. 2 * Limit - Spent(u)' = 2 * Limit
    BY <1>3 DEF Spent
  <1>5. Slack(u)' = Cardinality(Requests) - 1
    BY <1>1, <1>2, RequestsAssumption, FS_CardinalityType DEF Slack
  <1>6. [w \in Users |-> Slack(w)]' =
            [[w \in Users |-> Slack(w)] EXCEPT ![u] = Cardinality(Requests) - 1]
    BY <1>1, <1>2, <1>5 DEF Slack
  <1>7. [w \in Users |-> 2 * Limit - Spent(w)]' =
            [[w \in Users |-> 2 * Limit - Spent(w)] EXCEPT ![u] = 2 * Limit]
    BY <1>2, <1>4 DEF Spent
  <1>8. [w \in Users |-> account[w].left]' = [[w \in Users |-> account[w].left] EXCEPT ![u] = 0]
    BY <1>2, <1>3
  <1>9. [w \in Users |-> account[w].locked]' =
            [[w \in Users |-> account[w].locked] EXCEPT ![u] = FALSE]
    BY <1>2, <1>3
  <1> QED
    BY <1>6, <1>7, <1>8, <1>9 DEF Budget!Pardon, Spent, Slack

\* A tick of the clock is a tick of GuessBudget.
LEMMA TickImplements ==
    ASSUME LockInv, Tick
    PROVE  Budget!Tick
  <1>1. account \in [Users -> Row] /\ late \in [Users -> Nat]
    BY DEF LockInv, TypeInv, TypeOK
  <1>2. \A u \in Users : /\ account'[u].count = account[u].count
                         /\ account'[u].lockouts = account[u].lockouts
                         /\ account'[u].locked = account[u].locked
                         /\ account'[u].left = Less(account[u].left)
    BY <1>1 DEF Tick, Row
  <1>3. \A u \in Users : Slack(u)' = Budget!Slack(u, FALSE)
    <2> SUFFICES ASSUME NEW u \in Users PROVE Slack(u)' = Budget!Slack(u, FALSE)
      OBVIOUS
    <2>1. late'[u] = Late(u, FALSE)
      BY DEF Tick
    <2>2. Cardinality(Requests) \in Nat
      BY RequestsAssumption, FS_CardinalityType
    <2>3. CASE ~Locked(account'[u]) \/ ~Locked(account[u])
      BY <2>1, <2>2, <2>3 DEF Late, Slack, Budget!Slack, Budget!Closed, Locked
    <2>4. CASE Locked(account'[u]) /\ Locked(account[u])
      BY <2>1, <2>2, <2>4 DEF Late, Slack, Budget!Slack, Budget!Closed, Locked
    <2> QED  BY <2>3, <2>4
  <1>4. [w \in Users |-> Slack(w)]' = [w \in Users |-> Budget!Slack(w, FALSE)]
    BY <1>3 DEF Slack
  <1>5. [w \in Users |-> account[w].left]' = [w \in Users |-> Less(account[w].left)]
    BY <1>2
  <1> QED
    BY <1>2, <1>4, <1>5 DEF Budget!Tick, Less, Slack

\* Every step of the system is a step of GuessBudget or a stutter.
LEMMA NextImplements == LockInv /\ [Next]_vars => [Budget!Next]_(Budget!vars)
  <1> SUFFICES ASSUME LockInv, [Next]_vars PROVE Budget!Next \/ UNCHANGED Budget!vars
    OBVIOUS
  <1>0. account \in [Users -> Row]
    BY DEF LockInv, TypeInv, TypeOK
  <1>1. ASSUME UNCHANGED <<account, late>> PROVE UNCHANGED Budget!vars
    BY <1>1, Unseen
  <1>2. ASSUME NEW r \in Requests, WrongPassword(r)
        PROVE  Budget!Next \/ UNCHANGED Budget!vars
    <2>0. PICK v : v = request[r].user
      OBVIOUS
    <2>1. v \in Users
      BY <1>2, <2>0, CheckAdmitted DEF WrongPassword
    <2>2. CASE account[v].exists
      <3>1. Budget!Wrong(v)
        BY <1>2, <2>0, <2>2, WrongImplements
      <3> QED  BY <2>1, <3>1 DEF Budget!Next
    <2>3. CASE ~account[v].exists
      BY <1>1, <1>2, <2>0, <2>3 DEF WrongPassword
    <2> QED  BY <2>2, <2>3
  <1>2a. ASSUME NEW r \in Requests, request[r].pc = "verify", CheckedInVain(request[r].user)
        PROVE  Budget!Next \/ UNCHANGED Budget!vars
    <2>0. PICK v : v = request[r].user
      OBVIOUS
    <2>1. v \in Users
      BY <1>2a, <2>0, CheckAdmitted
    <2>2. Budget!Idle(v) \/ UNCHANGED Budget!vars
      BY <1>2a, <2>0, VainImplements
    <2> QED  BY <2>1, <2>2 DEF Budget!Next
  <1>3. ASSUME NEW r \in Requests, RightPassword(r)
        PROVE  Budget!Next \/ UNCHANGED Budget!vars
    <2>0. PICK v : v = request[r].user
      OBVIOUS
    <2>1. v \in Users /\ account[v] \in Row
      BY <1>0, <1>3, <2>0, CheckAdmitted DEF RightPassword
    <2>2. ASSUME NEW row, Accept(r, v, row),
                 row.count = 0, row.lockouts = 0, row.left = 0, row.locked = account[v].locked
          PROVE  Budget!Next \/ UNCHANGED Budget!vars
      <3>1. CASE account[v].exists
        <4>1. Budget!Right(v)
          BY <1>3, <2>0, <2>2, <3>1, RightImplements DEF RightPassword
        <4> QED  BY <2>1, <4>1 DEF Budget!Next
      <3>2. CASE ~account[v].exists
        BY <1>1, <2>2, <3>2 DEF Accept
      <3> QED  BY <3>1, <3>2
    <2>3. /\ RecordSuccess(account[v]).count = 0
          /\ RecordSuccess(account[v]).lockouts = 0
          /\ RecordSuccess(account[v]).left = 0
          /\ RecordSuccess(account[v]).locked = account[v].locked
          /\ \A p : LET row == [RecordSuccess(account[v]) EXCEPT !.password = p]
                    IN  /\ row.count = 0 /\ row.lockouts = 0 /\ row.left = 0
                        /\ row.locked = account[v].locked
      BY <2>1 DEF RecordSuccess, Row
    <2>4. CASE Accept(r, v, RecordSuccess(account[v]))
      BY <2>2, <2>3, <2>4
    <2>5. CASE Accept(r, v, [RecordSuccess(account[v]) EXCEPT !.password = request[r].new])
      BY <2>2, <2>3, <2>5
    <2>6. CASE CheckedInVain(v)
      BY <1>3, <1>2a, <2>0, <2>6 DEF RightPassword
    <2> QED  BY <1>3, <2>0, <2>4, <2>5, <2>6 DEF RightPassword
  <1>4. ASSUME NEW r \in Requests, DatabaseBusy(r)
        PROVE  Budget!Next \/ UNCHANGED Budget!vars
    BY <1>1, <1>4, <1>2a DEF DatabaseBusy
  <1>5. ASSUME NEW u \in Users, UnlockUser(u) PROVE Budget!Next
    BY <1>5, UnlockImplements DEF Budget!Next
  <1>6. ASSUME NEW u \in Users, ResetPassword(u) \/ SetActive(u) \/ DeleteUser(u)
        PROVE  UNCHANGED Budget!vars
    BY <1>0, <1>6, Unseen DEF ResetPassword, SetActive, DeleteUser, Administer, Row
  <1>7. CASE Tick
    BY <1>7, TickImplements DEF Budget!Next
  <1> QED
    BY <1>1, <1>2, <1>3, <1>4, <1>5, <1>6, <1>7
    DEF Next, RequestStep, Arrive, CheckAddress, ReadAccount, RereadAccount, CountFailure,
        Restart, vars

\* The lockout keeps the budget of GuessBudget whatever the interleaving: 2 * Limit
\* wrong passwords between two resets, half of them for the timed lock, and fewer
\* stragglers than there are requests.
THEOREM BudgetKept == Spec => GuessBudgetKept
  <1>1. Init => Budget!Init
    <2> SUFFICES ASSUME Init PROVE Budget!Init
      OBVIOUS
    <2>1. \A u \in Users : /\ account[u].count = 0 /\ account[u].lockouts = 0
                           /\ account[u].left = 0 /\ account[u].locked = FALSE
                           /\ late[u] = 0
      BY DEF Init, NewRow
    <2>2. Cardinality(Requests) - 1 - 0 = Cardinality(Requests) - 1
      BY RequestsAssumption, FS_CardinalityType
    <2>3. \A u \in Users : 2 * Limit - (Limit * account[u].lockouts + account[u].count) = 2 * Limit
      BY <2>1
    <2>4. \A u \in Users : Cardinality(Requests) - 1 - late[u] = Cardinality(Requests) - 1
      BY <2>1, <2>2
    <2> QED  BY <2>1, <2>3, <2>4 DEF Budget!Init
  <1>2. Spec => []LockInv
    BY Typed, Counted, FewLate, PTL DEF LockInv
  <1> QED  BY <1>1, <1>2, NextImplements, PTL DEF Spec, GuessBudgetKept, Budget!Spec

-----------------------------------------------------------------------------
(* What forgives an address.                                               *)

\* A counted failure goes away by ageing or with the block of its address,
\* never by a right password: whatever any request does in between.
THEOREM TimeForgives == Spec => FailuresForgivenByTimeOnly
  <1>1. ASSUME TypeInv, [Next]_vars, NEW a \in Addresses,
               Cardinality(Recent(a)') < Cardinality(Recent(a)), ~Tick
        PROVE  block'[a] = BlockTime
    <2>1. IsFiniteSet(Recent(a)) /\ Cardinality(Recent(a)) \in Nat
      BY <1>1, FS_Subset, FS_CardinalityType DEF Recent, TypeInv
    <2>2. failures' # failures
      BY <1>1, <2>1 DEF Recent
    <2>3. PICK r \in Requests : CountFailure(r)
      BY <1>1, <2>2
      DEF Next, RequestStep, Arrive, CheckAddress, ReadAccount, RereadAccount, WrongPassword,
          RightPassword, DatabaseBusy, Restart, UnlockUser, ResetPassword, SetActive,
          DeleteUser, Administer, vars
    <2>4. PICK b : b = request[r].address
      OBVIOUS
    <2>5. ChargeAddress(b)
      BY <2>3, <2>4 DEF CountFailure
    <2>6. CASE Cardinality(Recent(b)) + 1 < AddressLimit
      <3>1. Recent(a)' = Recent(a) \/ Recent(a)' = Recent(a) \cup {Failure(b)}
        BY <2>5, <2>6 DEF ChargeAddress, Recent
      <3>2. Cardinality(Recent(a)) <= Cardinality(Recent(a)')
        BY <2>1, <3>1, FS_AddElement, FS_Subset
      <3>3. Cardinality(Recent(a)') \in Nat
        BY <2>1, <3>1, FS_AddElement, FS_CardinalityType
      <3> QED  BY <1>1, <2>1, <3>2, <3>3
    <2>7. CASE ~(Cardinality(Recent(b)) + 1 < AddressLimit)
      <3>1. failures' = failures \ Recent(b) /\ block' = [block EXCEPT ![b] = BlockTime]
        BY <2>5, <2>7 DEF ChargeAddress
      <3>2. a = b
        <4>1. a # b => Recent(a)' = Recent(a)
          BY <3>1 DEF Recent
        <4> QED  BY <1>1, <2>1, <4>1
      <3> QED  BY <1>1, <3>1, <3>2 DEF TypeInv, TypeOK
    <2> QED  BY <2>6, <2>7
  <1>2. TypeInv /\ [Next]_vars =>
            [\A a \in Addresses : Cardinality(Recent(a)') < Cardinality(Recent(a)) =>
                Tick \/ block'[a] = BlockTime]_vars
    BY <1>1
  <1> QED  BY <1>2, Typed, PTL DEF Spec, FailuresForgivenByTimeOnly

-----------------------------------------------------------------------------
(* Together.                                                               *)

\* After every transaction of any number of requests the counts of accounts and
\* addresses are those of the wrong passwords sent (lockout.py, throttle.py).
THEOREM LockoutHolds == Spec => []LockoutKept
  BY TypeCorrect, Counted, FewLate, BelowLimit, PTL DEF LockoutKept

\* A permanent lock goes away by an administrator only, a failure of an address by
\* time or by its block only (lockout.py record_success, throttle.py).
THEOREM ForgivenHolds == Spec => ForgivenKept
  BY AdminLifts, TimeForgives DEF ForgivenKept

=============================================================================
