-------------------------- MODULE Collectors_proofs --------------------------
(***************************************************************************)
(* The pushes, for any number of requests, devices, receivers, pipelines   *)
(* and configurations of the host.  What a request that nobody has         *)
(* disturbed still holds says what the host has when it ends; and with one *)
(* push at a time the backup is what there was before it.                  *)
(***************************************************************************)
EXTENDS MCCollectors, TLAPS

PCs == {"look", "load", "connect", "read", "backup", "write", "finish", "restart", "verify",
        "record", "save"}

Locals == [pc : PCs, op : {"sync", "saveSsh"}, alone : BOOLEAN, sends : BOOLEAN, key : BOOLEAN,
           devices : SUBSET Devices, cfg : Config \cup {None}, result : {"synced", "error", "undone"}]

Pushed(a, c) == c \in Config /\ c.receivers \cap Labels = Ours(a)

Accepted(c) ==
    /\ \A p \in DOMAIN c.pipelines : c.pipelines[p] # {} /\ c.pipelines[p] \subseteq c.receivers
    /\ c.receivers \cap Labels \subseteq UNION {c.pipelines[p] : p \in DOMAIN c.pipelines}

Legal(c) == c \in Config => c = Installed \/ Accepted(c)

\* What the service has served since it was started or found active last, also when it
\* has ended since.
Served == IF running = None /\ exited THEN config ELSE running

\* What the locals r stand for with the devices a, the file c, served s and the key k.
Fine(r, a, c, s, k) ==
    /\ r.pc # "record" => r.result = "error"
    /\ r.pc \in {"backup", "write", "finish"} => r.cfg \in Config /\ Accepted(r.cfg)
    /\ r.alone =>
          /\ r.pc = "save" => r.key = k
          /\ r.pc \in {"connect", "read"} => r.devices = a
          /\ r.pc \in {"backup", "write", "finish"} => Pushed(a, r.cfg)
          /\ r.pc \in {"restart", "verify"} => Pushed(a, c)
          /\ r.pc = "verify" \/ r.result = "synced" => Pushed(a, c) /\ s = c

Requested ==
    \A q \in Requests :
        request[q] = Idle \/ (request[q] \in Locals /\ Fine(request[q], assigned, config, Served, key))

\* What the operator has configured is in the configuration c.
Sound(c) ==
    /\ c \in Config
    /\ c.receivers \cap Foreign = Installed.receivers \cap Foreign
    /\ \A p \in DOMAIN Installed.pipelines :
           Installed.pipelines[p] \cap Foreign # {} =>
               p \in DOMAIN c.pipelines /\ Installed.pipelines[p] \cap Foreign \subseteq c.pipelines[p]

OnePush ==
    ~unsafe =>
        /\ \A p, q \in Requests : Pushing(p) /\ Pushing(q) => p = q
        /\ (\E q \in Requests : request[q].pc = "finish") \/ Sound(config)
        /\ \A q \in Requests :
              /\ request[q].pc \in {"backup", "write", "finish"} => Sound(request[q].cfg)
              /\ request[q].pc \in {"write", "finish", "restart", "verify"} => Sound(backup)

PushInv == TypeOK /\ Requested /\ Legal(config) /\ Legal(backup) /\ SyncedIsRunning /\ OnePush

-----------------------------------------------------------------------------
(* The patch *)

LEMMA ConfigIs ==
    ASSUME NEW c \in Config
    PROVE  /\ c.receivers \subseteq Labels \cup Foreign /\ DOMAIN c.pipelines \subseteq Pipelines
           /\ \A p \in DOMAIN c.pipelines : c.pipelines[p] \subseteq Labels \cup Foreign
  <1>1. c.receivers \in SUBSET (Labels \cup Foreign)
    BY DEF Config
  <1>2. PICK P \in SUBSET Pipelines : c.pipelines \in [P -> SUBSET (Labels \cup Foreign)]
    BY DEF Config
  <1> QED  BY <1>1, <1>2

\* The pipeline p of the patched configuration.
Into(c, D, p) ==
    {LabelOf[d] : d \in {e \in D : PipelineOf[e] = p}}
        \cup (IF p \in DOMAIN c.pipelines THEN c.pipelines[p] \cap Foreign ELSE {})

LEMMA PatchIs ==
    ASSUME NEW c \in Config, NEW D \in SUBSET Devices
    PROVE  /\ Patch(c, D) \in Config
           /\ Patch(c, D).receivers = (c.receivers \cap Foreign) \cup Ours(D)
           /\ Patch(c, D).pipelines = [p \in {p \in Pipelines : Into(c, D, p) # {}} |-> Into(c, D, p)]
           /\ Ours(D) \subseteq Labels
  <1> DEFINE P == {p \in Pipelines : Into(c, D, p) # {}}
             F == [p \in P |-> Into(c, D, p)]
             R == (c.receivers \cap Foreign) \cup Ours(D)
  <1>1. Ours(D) \subseteq Labels
    BY LabelsAssumption DEF Ours
  <1>2. Patch(c, D) = [receivers |-> R, pipelines |-> F]
    BY DEF Patch, Into
  <1>3. \A p \in Pipelines : Into(c, D, p) \in SUBSET (Labels \cup Foreign)
    BY LabelsAssumption DEF Into
  <1>4. R \in SUBSET (Labels \cup Foreign)
    BY <1>1
  <1>5. P \in SUBSET Pipelines /\ F \in [P -> SUBSET (Labels \cup Foreign)]
    BY <1>3
  <1>6. F \in UNION {[Q -> SUBSET (Labels \cup Foreign)] : Q \in SUBSET Pipelines}
    BY <1>5
  <1>7. Patch(c, D).receivers = R /\ Patch(c, D).pipelines = F
    BY <1>2
  <1>8. Patch(c, D) \in Config
    <2> HIDE DEF F, R
    <2> QED  BY <1>2, <1>4, <1>6 DEF Config
  <1> QED  BY <1>1, <1>7, <1>8

LEMMA PatchPushed ==
    ASSUME NEW c \in Config, NEW D \in SUBSET Devices
    PROVE  Pushed(D, Patch(c, D))
  BY PatchIs, LabelsAssumption DEF Pushed

LEMMA PatchSound ==
    ASSUME NEW c, Sound(c), NEW D \in SUBSET Devices
    PROVE  Sound(Patch(c, D))
  <1>1. c \in Config /\ Patch(c, D) \in Config
    BY PatchIs DEF Sound
  <1>2. Patch(c, D).receivers \cap Foreign = Installed.receivers \cap Foreign
    <2>1. Patch(c, D).receivers = (c.receivers \cap Foreign) \cup Ours(D) /\ Ours(D) \subseteq Labels
      BY <1>1, PatchIs
    <2>2. Patch(c, D).receivers \cap Foreign = c.receivers \cap Foreign
      BY <2>1, LabelsAssumption
    <2> QED  BY <2>2 DEF Sound
  <1>3. ASSUME NEW p \in DOMAIN Installed.pipelines, Installed.pipelines[p] \cap Foreign # {}
        PROVE  /\ p \in DOMAIN Patch(c, D).pipelines
               /\ Installed.pipelines[p] \cap Foreign \subseteq Patch(c, D).pipelines[p]
    <2>1. p \in DOMAIN c.pipelines /\ Installed.pipelines[p] \cap Foreign \subseteq c.pipelines[p] \cap Foreign
      BY <1>3 DEF Sound
    <2>2. p \in Pipelines
      BY InstalledAssumption, ConfigIs
    <2>3. Installed.pipelines[p] \cap Foreign \subseteq Into(c, D, p)
      BY <2>1 DEF Into
    <2>4. Into(c, D, p) # {}
      BY <1>3, <2>3
    <2>5. Patch(c, D).pipelines = [r \in {r \in Pipelines : Into(c, D, r) # {}} |-> Into(c, D, r)]
      BY <1>1, PatchIs
    <2> QED  BY <2>2, <2>3, <2>4, <2>5
  <1> QED  BY <1>1, <1>2, <1>3 DEF Sound

LEMMA PatchAccepted ==
    ASSUME NEW c \in Config, NEW D \in SUBSET Devices,
           \A p \in DOMAIN c.pipelines : c.pipelines[p] \cap Foreign \subseteq c.receivers
    PROVE  Accepted(Patch(c, D))
  <1>1. /\ Patch(c, D).receivers = (c.receivers \cap Foreign) \cup Ours(D)
        /\ Patch(c, D).pipelines = [p \in {p \in Pipelines : Into(c, D, p) # {}} |-> Into(c, D, p)]
        /\ Ours(D) \subseteq Labels
    BY PatchIs
  <1>2. ASSUME NEW p \in DOMAIN Patch(c, D).pipelines
        PROVE  Patch(c, D).pipelines[p] # {} /\ Patch(c, D).pipelines[p] \subseteq Patch(c, D).receivers
    <2>1. p \in Pipelines /\ Into(c, D, p) # {} /\ Patch(c, D).pipelines[p] = Into(c, D, p)
      BY <1>1, <1>2
    <2>2. Into(c, D, p) \subseteq (c.receivers \cap Foreign) \cup Ours(D)
      BY DEF Into, Ours
    <2> QED  BY <1>1, <2>1, <2>2
  <1>3. ASSUME NEW l \in Patch(c, D).receivers \cap Labels
        PROVE  \E p \in DOMAIN Patch(c, D).pipelines : l \in Patch(c, D).pipelines[p]
    <2>1. l \in Ours(D)
      BY <1>1, <1>3, LabelsAssumption
    <2>2. PICK d \in D : l = LabelOf[d]
      BY <2>1 DEF Ours
    <2>3. PipelineOf[d] \in Pipelines /\ l \in Into(c, D, PipelineOf[d])
      BY <2>2, LabelsAssumption DEF Into
    <2> QED  BY <1>1, <2>3
  <1> QED  BY <1>2, <1>3 DEF Accepted

\* Whatever the file is that a push reads.
LEMMA ReadingPatched ==
    ASSUME NEW file \in Config \cup {Partial}, Legal(file), NEW c \in Readings(file) \ {Partial},
           NEW D \in SUBSET Devices
    PROVE  Accepted(Patch(c, D)) /\ Pushed(D, Patch(c, D))
  <1>1. CASE file = Partial
    <2>1. c \in Config /\ \A p \in DOMAIN c.pipelines : c.pipelines[p] \cap Foreign \subseteq c.receivers
      BY <1>1, InstalledAssumption DEF Readings, Defined
    <2> QED  BY <2>1, PatchAccepted, PatchPushed
  <1>2. CASE file # Partial
    <2>1. c = file /\ c \in Config
      BY <1>2 DEF Readings
    <2>2. \A p \in DOMAIN c.pipelines : c.pipelines[p] \cap Foreign \subseteq c.receivers
      BY <2>1, InstalledAssumption DEF Legal, Accepted, Defined
    <2> QED  BY <2>1, <2>2, PatchAccepted, PatchPushed
  <1> QED  BY <1>1, <1>2

-----------------------------------------------------------------------------
(* What a step does to the requests *)

LEMMA Busy == \A r \in Locals : r.pc \in PCs /\ r.pc # "idle" /\ r # Idle
  BY DEF Locals, PCs, Idle

\* The locals of a request that somebody else's step has perhaps disturbed.
LEMMA Disturbed ==
    ASSUME NEW r \in Locals, NEW n \in {r, [r EXCEPT !.alone = FALSE]},
           NEW a, NEW c, NEW s, NEW k, NEW a2, NEW c2, NEW s2, NEW k2,
           Fine(r, a, c, s, k), ~n.alone \/ (a2 = a /\ c2 = c /\ s2 = s /\ k2 = k)
    PROVE  n \in Locals /\ n.pc = r.pc /\ n.cfg = r.cfg /\ Fine(n, a2, c2, s2, k2)
  <1>1. n \in Locals /\ n.pc = r.pc /\ n.cfg = r.cfg /\ n.result = r.result /\ (n = r \/ ~n.alone)
    BY DEF Locals
  <1>2. CASE n.alone
    BY <1>1, <1>2
  <1>3. CASE ~n.alone
    BY <1>1, <1>3 DEF Fine
  <1> QED  BY <1>1, <1>2, <1>3

LEMMA Others ==
    ASSUME Requested, NEW q \in Requests, NEW n, NEW wrote \in BOOLEAN, Goto(q, n, wrote)
    PROVE  /\ request'[q] = n
           /\ \A p \in Requests \ {q} :
                 /\ request[p] = Idle => request'[p] = Idle
                 /\ request[p] # Idle => request'[p] \in {request[p], [request[p] EXCEPT !.alone = FALSE]}
                 /\ request[p] # Idle /\ wrote => request'[p] = [request[p] EXCEPT !.alone = FALSE]
                 /\ request'[p].pc = request[p].pc
                 /\ request[p] # Idle => request'[p].cfg = request[p].cfg
  <1>1. request'[q] = n
    BY DEF Goto
  <1>2. ASSUME NEW p \in Requests \ {q}
        PROVE  request'[p] = IF wrote /\ request[p] # Idle THEN [request[p] EXCEPT !.alone = FALSE] ELSE request[p]
    BY DEF Goto
  <1>3. ASSUME NEW p \in Requests \ {q}, request[p] # Idle
        PROVE  /\ [request[p] EXCEPT !.alone = FALSE].pc = request[p].pc
               /\ [request[p] EXCEPT !.alone = FALSE].cfg = request[p].cfg
    <2>1. request[p] \in Locals
      BY <1>3 DEF Requested
    <2> QED  BY <2>1 DEF Locals
  <1> QED  BY <1>1, <1>2, <1>3

LEMMA OthersGoOn ==
    ASSUME Requested, NEW q \in Requests, NEW n, NEW wrote \in BOOLEAN, Goto(q, n, wrote)
    PROVE  /\ request'[q] = n
           /\ \A p \in Requests \ {q} : request'[p].pc = request[p].pc
           /\ \A p \in Requests \ {q} : request[p] # Idle => request'[p].cfg = request[p].cfg
           /\ \A p \in Requests \ {q} : request[p] # Idle => request'[p] # Idle
  <1>1. request'[q] = n
    BY Others
  <1>2. \A p \in Requests \ {q} : request'[p].pc = request[p].pc
    BY Others
  <1>3. \A p \in Requests \ {q} : request[p] # Idle => request'[p].cfg = request[p].cfg
    BY Others
  <1>4. \A p \in Requests \ {q} : request[p] # Idle => request[p].pc # "idle"
    BY Busy DEF Requested
  <1>5. \A p \in Requests \ {q} : request[p] # Idle => request'[p] # Idle
    BY <1>2, <1>4 DEF Idle
  <1> QED  BY <1>1, <1>2, <1>3, <1>5

LEMMA Moves ==
    ASSUME Requested, NEW q \in Requests, NEW n, NEW wrote \in BOOLEAN, Goto(q, n, wrote),
           n = Idle \/ (n \in Locals /\ Fine(n, assigned', config', Served', key')),
           wrote \/ UNCHANGED <<assigned, config, Served, key>>
    PROVE  Requested'
  <1>1. request'[q] = Idle \/ (request'[q] \in Locals /\ Fine(request'[q], assigned', config', Served', key'))
    BY Others
  <1>2. ASSUME NEW p \in Requests \ {q}, request[p] # Idle
        PROVE  request'[p] \in Locals /\ Fine(request'[p], assigned', config', Served', key')
    <2>1. request[p] \in Locals /\ Fine(request[p], assigned, config, Served, key)
      BY <1>2 DEF Requested
    <2>2. request'[p] \in {request[p], [request[p] EXCEPT !.alone = FALSE]}
      <3>1. request'[p] = IF wrote /\ request[p] # Idle THEN [request[p] EXCEPT !.alone = FALSE] ELSE request[p]
        BY DEF Goto
      <3> QED  BY <3>1
    <2>3. ~request'[p].alone \/ (assigned' = assigned /\ config' = config /\ Served' = Served /\ key' = key)
      <3>1. CASE wrote
        <4>1. request'[p] = [request[p] EXCEPT !.alone = FALSE]
          BY <1>2, <3>1, Others
        <4> QED  BY <2>1, <4>1 DEF Locals
      <3> QED  BY <3>1
    <2> DEFINE r == request[p]
               m == request'[p]
    <2>4. /\ r \in Locals /\ Fine(r, assigned, config, Served, key) /\ m \in {r, [r EXCEPT !.alone = FALSE]}
          /\ ~m.alone \/ (assigned' = assigned /\ config' = config /\ Served' = Served /\ key' = key)
      BY <2>1, <2>2, <2>3
    <2> SUFFICES m \in Locals /\ Fine(m, assigned', config', Served', key')
      OBVIOUS
    <2> HIDE DEF r, m
    <2>5. m \in Locals /\ (m = r \/ ~m.alone) /\ m.pc = r.pc /\ m.result = r.result /\ m.cfg = r.cfg
      BY <2>4 DEF Locals
    <2>6. CASE ~m.alone
      BY <2>4, <2>5, <2>6 DEF Fine
    <2>7. CASE m.alone
      <3>1. m = r
        BY <2>5, <2>7
      <3>2. assigned' = assigned /\ config' = config /\ Served' = Served /\ key' = key
        BY <2>4, <2>7
      <3>3. Fine(m, assigned, config, Served, key)
        BY <2>4, <3>1
      <3> QED  BY <2>5, <3>2, <3>3, Zenon
    <2> QED  BY <2>6, <2>7
  <1>3. \A p \in Requests \ {q} : request[p] = Idle => request'[p] = Idle
    BY Others
  <1> QED  BY <1>1, <1>2, <1>3 DEF Requested

\* The locals a request goes on with.
LEMMA AtIs ==
    ASSUME NEW q \in Requests, request[q] \in Locals, NEW pc \in PCs
    PROVE  /\ At(q, pc) \in Locals /\ At(q, pc).pc = pc
           /\ At(q, pc).alone = request[q].alone /\ At(q, pc).result = request[q].result
           /\ At(q, pc).sends = request[q].sends
           /\ pc \notin {"restart", "verify", "record"} => At(q, pc).cfg = request[q].cfg
           /\ pc # "record" => At(q, pc).devices = request[q].devices
           /\ pc \in {"load", "connect", "save"} => At(q, pc).key = request[q].key
  <1> DEFINE d == IF pc = "record" THEN {} ELSE request[q].devices
             k == request[q].key /\ pc \in {"load", "connect", "save"}
             c == IF pc \in {"restart", "verify", "record"} THEN None ELSE request[q].cfg
  <1>1. At(q, pc) = [request[q] EXCEPT !.pc = pc, !.devices = d, !.key = k, !.cfg = c]
    BY DEF At
  <1>2. d \in SUBSET Devices /\ k \in BOOLEAN /\ c \in Config \cup {None}
    BY DEF Locals
  <1>3. /\ pc \notin {"restart", "verify", "record"} => c = request[q].cfg
        /\ pc # "record" => d = request[q].devices
        /\ pc \in {"load", "connect", "save"} => k = request[q].key
    BY DEF Locals
  <1> HIDE DEF d, k, c
  <1>4. [request[q] EXCEPT !.pc = pc, !.devices = d, !.key = k, !.cfg = c] \in Locals
    BY <1>2 DEF Locals
  <1> QED  BY <1>1, <1>3, <1>4 DEF Locals

-----------------------------------------------------------------------------
(* The requests *)

LEMMA PCsAre ==
    /\ "look" \in PCs /\ "load" \in PCs /\ "connect" \in PCs /\ "read" \in PCs /\ "backup" \in PCs
    /\ "write" \in PCs /\ "finish" \in PCs /\ "restart" \in PCs /\ "verify" \in PCs
    /\ "record" \in PCs /\ "save" \in PCs
  BY DEF PCs

\* A request that goes to "record" with an error, or that has not come to its patch, holds
\* on to nothing of the host.
LEMMA Plain ==
    ASSUME NEW n \in Locals, n.pc \in {"look", "load", "record"}, n.result \in {"error", "undone"},
           n.pc # "record" => n.result = "error", NEW a, NEW c, NEW s, NEW k
    PROVE  Fine(n, a, c, s, k)
  BY DEF Fine

LEMMA Active ==
    ASSUME Requested, NEW q \in Requests, request[q].pc \in PCs
    PROVE  /\ request[q] \in Locals /\ Fine(request[q], assigned, config, Served, key)
           /\ request[q].alone \in BOOLEAN /\ request[q].key \in BOOLEAN
           /\ request[q].devices \in SUBSET Devices
  <1>1. request[q] # Idle
    BY DEF Idle, PCs
  <1>2. request[q] \in Locals /\ Fine(request[q], assigned, config, Served, key)
    BY <1>1 DEF Requested
  <1> QED  BY <1>2 DEF Locals

LEMMA EarlySteps ==
    ASSUME TypeOK, Requested, NEW q \in Requests,
           Arrive(q) \/ LookUpCollector(q) \/ LoadDevices(q) \/ Connect(q) \/ Record(q) \/ SaveSsh(q) \/ Break(q)
    PROVE  Requested'
  <1>1. CASE Arrive(q)
    <2>1. PICK op \in {"sync", "saveSsh"}, sends \in BOOLEAN :
             Goto(q, [pc |-> "look", op |-> op, alone |-> TRUE, sends |-> sends, key |-> FALSE,
                      devices |-> {}, cfg |-> None, result |-> "error"], FALSE)
      BY <1>1 DEF Arrive
    <2> DEFINE n == [pc |-> "look", op |-> op, alone |-> TRUE, sends |-> sends, key |-> FALSE,
                     devices |-> {}, cfg |-> None, result |-> "error"]
    <2>2. n \in Locals /\ n.pc = "look" /\ n.result = "error"
      BY DEF Locals, PCs
    <2>3. UNCHANGED <<assigned, config, Served, key>>
      BY <1>1 DEF Arrive, host, Served
    <2> HIDE DEF n
    <2>4. Fine(n, assigned', config', Served', key')
      BY <2>2, Plain
    <2> QED  BY <2>1, <2>2, <2>3, <2>4, Moves DEF n
  <1>2. CASE LookUpCollector(q)
    <2>1. request[q].pc = "look" /\ UNCHANGED <<assigned, config, Served, key>>
      BY <1>2 DEF LookUpCollector, Look, host, Served
    <2>2. request[q] \in Locals /\ request[q].result = "error"
      BY <2>1, Active, PCsAre DEF Fine
    <2>3. PICK pc \in {"load", "save"} : Goto(q, [At(q, pc) EXCEPT !.key = key, !.alone = TRUE], FALSE)
      BY <1>2 DEF LookUpCollector
    <2> DEFINE n == [At(q, pc) EXCEPT !.key = key, !.alone = TRUE]
    <2>4. At(q, pc) \in Locals /\ At(q, pc).pc = pc /\ At(q, pc).result = "error"
      BY <2>2, AtIs, PCsAre
    <2>5. n \in Locals /\ n.pc = pc /\ n.result = "error" /\ n.key = key
      BY <2>4 DEF TypeOK, Locals
    <2> HIDE DEF n
    <2>6. Fine(n, assigned', config', Served', key')
      BY <2>1, <2>5 DEF Fine
    <2> QED  BY <2>1, <2>3, <2>5, <2>6, Moves DEF n
  <1>3. CASE LoadDevices(q)
    <2>1. request[q].pc = "load" /\ UNCHANGED <<assigned, config, Served, key>>
      BY <1>3 DEF LoadDevices, host, Served
    <2>2. request[q] \in Locals /\ request[q].result = "error"
      BY <2>1, Active, PCsAre DEF Fine
    <2> DEFINE n == [At(q, "connect") EXCEPT !.devices = assigned, !.alone = TRUE]
    <2>3. Goto(q, n, FALSE)
      BY <1>3 DEF LoadDevices
    <2>4. At(q, "connect") \in Locals /\ At(q, "connect").pc = "connect" /\ At(q, "connect").result = "error"
      BY <2>2, AtIs, PCsAre
    <2>5. n \in Locals /\ n.pc = "connect" /\ n.result = "error" /\ n.devices = assigned
      BY <2>4, LabelsAssumption DEF TypeOK, Locals
    <2> HIDE DEF n
    <2>6. Fine(n, assigned', config', Served', key')
      BY <2>1, <2>5 DEF Fine
    <2> QED  BY <2>1, <2>3, <2>5, <2>6, Moves
  <1>4. CASE Connect(q)
    <2>1. request[q].pc = "connect" /\ UNCHANGED <<assigned, config, Served, key>>
      BY <1>4 DEF Connect, host, Served
    <2>2. request[q] \in Locals /\ Fine(request[q], assigned, config, Served, key)
      BY <2>1, Active, PCsAre
    <2>3. PICK pc \in {"read", "record"} : Goto(q, At(q, pc), FALSE)
      BY <1>4 DEF Connect
    <2>4. /\ At(q, pc) \in Locals /\ At(q, pc).pc = pc /\ At(q, pc).result = "error"
          /\ At(q, pc).alone = request[q].alone
          /\ pc = "read" => At(q, pc).devices = request[q].devices
      BY <2>1, <2>2, AtIs, PCsAre DEF Fine
    <2>5. Fine(At(q, pc), assigned', config', Served', key')
      BY <2>1, <2>2, <2>4 DEF Fine
    <2> QED  BY <2>1, <2>3, <2>4, <2>5, Moves
  <1>5. CASE Record(q) \/ SaveSsh(q)
    <2>1. \/ Goto(q, Idle, FALSE) /\ UNCHANGED <<assigned, config, Served, key>>
          \/ Goto(q, Idle, TRUE)
      <3>1. CASE Record(q)
        BY <3>1 DEF Record, host, Served
      <3>2. CASE SaveSsh(q)
        BY <3>2 DEF SaveSsh
      <3> QED  BY <1>5, <3>1, <3>2
    <2> QED  BY <2>1, Moves
  <1>6. CASE Break(q)
    <2>1. /\ request[q].pc \in {"read", "backup", "write", "restart", "verify"}
          /\ UNCHANGED <<assigned, config, Served, key>> /\ Goto(q, At(q, "record"), FALSE)
      BY <1>6 DEF Break, Pushing, host, Served
    <2>2. request[q] \in Locals /\ request[q].result = "error"
      BY <2>1, Active, PCsAre DEF Fine
    <2>3. /\ At(q, "record") \in Locals /\ At(q, "record").pc = "record" /\ At(q, "record").result = "error"
      BY <2>2, AtIs, PCsAre
    <2>4. Fine(At(q, "record"), assigned', config', Served', key')
      BY <2>3, Plain
    <2> QED  BY <2>1, <2>3, <2>4, Moves
  <1> QED  BY <1>1, <1>2, <1>3, <1>4, <1>5, <1>6

LEMMA HostSteps ==
    ASSUME TypeOK, Requested, Legal(config), NEW q \in Requests,
           ReadConfig(q) \/ Backup(q) \/ OpenConfig(q) \/ FinishConfig(q) \/ Restart(q) \/ UndoRestart(q) \/ Verify(q)
    PROVE  Requested'
  <1>1. CASE ReadConfig(q)
    <2>1. request[q].pc = "read" /\ UNCHANGED <<assigned, config, Served, key>>
      BY <1>1 DEF ReadConfig, host, Served
    <2>2. request[q] \in Locals /\ Fine(request[q], assigned, config, Served, key)
          /\ request[q].devices \in SUBSET Devices
      BY <2>1, Active, PCsAre
    <2>3. PICK cfg \in Readings(config) :
             Goto(q, IF cfg = Partial THEN At(q, "record")
                     ELSE [At(q, "backup") EXCEPT !.devices = {}, !.cfg = Patch(cfg, request[q].devices)], FALSE)
      BY <1>1 DEF ReadConfig
    <2>4. CASE cfg = Partial
      <3>1. At(q, "record") \in Locals /\ At(q, "record").pc = "record" /\ At(q, "record").result = "error"
        BY <2>1, <2>2, AtIs, PCsAre DEF Fine
      <3>2. Fine(At(q, "record"), assigned', config', Served', key')
        BY <3>1, Plain
      <3>3. Goto(q, At(q, "record"), FALSE)
        BY <2>3, <2>4
      <3> QED  BY <2>1, <3>1, <3>2, <3>3, Moves
    <2>5. CASE cfg # Partial
      <3> DEFINE c == Patch(cfg, request[q].devices)
                 n == [At(q, "backup") EXCEPT !.devices = {}, !.cfg = c]
      <3>1. Goto(q, n, FALSE)
        BY <2>3, <2>5
      <3>2. Accepted(c) /\ Pushed(request[q].devices, c)
        BY <2>2, <2>5, ReadingPatched DEF TypeOK
      <3>3. /\ At(q, "backup") \in Locals /\ At(q, "backup").pc = "backup" /\ At(q, "backup").result = "error"
            /\ At(q, "backup").alone = request[q].alone
        BY <2>1, <2>2, AtIs, PCsAre DEF Fine
      <3>4. c \in Config
        BY <3>2 DEF Pushed
      <3> HIDE DEF c
      <3>5. /\ n \in Locals /\ n.pc = "backup" /\ n.result = "error" /\ n.cfg = c
            /\ n.alone = request[q].alone
        BY <3>3, <3>4 DEF Locals
      <3> HIDE DEF n
      <3>6. request[q].alone => Pushed(assigned, c)
        BY <2>1, <2>2, <3>2 DEF Fine
      <3>7. Fine(n, assigned', config', Served', key')
        BY <2>1, <3>2, <3>4, <3>5, <3>6 DEF Fine
      <3> QED  BY <2>1, <3>1, <3>5, <3>7, Moves
    <2> QED  BY <2>4, <2>5
  <1>2. CASE Backup(q)
    <2>1. /\ request[q].pc = "backup" /\ UNCHANGED <<assigned, config, Served, key>>
          /\ Goto(q, At(q, "write"), FALSE)
      BY <1>2 DEF Backup, Served
    <2>2. request[q] \in Locals /\ Fine(request[q], assigned, config, Served, key)
      BY <2>1, Active, PCsAre
    <2>3. /\ At(q, "write") \in Locals /\ At(q, "write").pc = "write" /\ At(q, "write").result = "error"
          /\ At(q, "write").alone = request[q].alone /\ At(q, "write").cfg = request[q].cfg
      BY <2>1, <2>2, AtIs, PCsAre DEF Fine
    <2>4. Fine(At(q, "write"), assigned', config', Served', key')
      BY <2>1, <2>2, <2>3 DEF Fine
    <2> QED  BY <2>1, <2>3, <2>4, Moves
  <1>3. CASE OpenConfig(q)
    <2>1. request[q].pc = "write" /\ assigned' = assigned /\ Goto(q, At(q, "finish"), TRUE)
      BY <1>3 DEF OpenConfig
    <2>2. request[q] \in Locals /\ Fine(request[q], assigned, config, Served, key)
      BY <2>1, Active, PCsAre
    <2>3. /\ At(q, "finish") \in Locals /\ At(q, "finish").pc = "finish" /\ At(q, "finish").result = "error"
          /\ At(q, "finish").alone = request[q].alone /\ At(q, "finish").cfg = request[q].cfg
      BY <2>1, <2>2, AtIs, PCsAre DEF Fine
    <2>4. Fine(At(q, "finish"), assigned', config', Served', key')
      BY <2>1, <2>2, <2>3 DEF Fine
    <2> QED  BY <2>1, <2>3, <2>4, Moves
  <1>4. CASE FinishConfig(q)
    <2>1. request[q].pc = "finish" /\ assigned' = assigned
      BY <1>4 DEF FinishConfig
    <2>2. request[q] \in Locals /\ Fine(request[q], assigned, config, Served, key)
      BY <2>1, Active, PCsAre
    <2>3. PICK pc \in {"restart", "record"} : Goto(q, At(q, pc), TRUE) /\ (pc = "restart" => config' = request[q].cfg)
      BY <1>4 DEF FinishConfig
    <2>4. /\ At(q, pc) \in Locals /\ At(q, pc).pc = pc /\ At(q, pc).result = "error"
          /\ At(q, pc).alone = request[q].alone
      BY <2>1, <2>2, AtIs, PCsAre DEF Fine
    <2>5. Fine(At(q, pc), assigned', config', Served', key')
      BY <2>1, <2>2, <2>3, <2>4 DEF Fine
    <2> QED  BY <2>3, <2>4, <2>5, Moves
  <1>5. CASE Restart(q)
    <2>1. /\ request[q].pc = "restart" /\ UNCHANGED <<assigned, config>> /\ Served' = config
          /\ Goto(q, At(q, "verify"), TRUE)
      BY <1>5 DEF Restart, Served
    <2>2. request[q] \in Locals /\ Fine(request[q], assigned, config, Served, key)
      BY <2>1, Active, PCsAre
    <2>3. /\ At(q, "verify") \in Locals /\ At(q, "verify").pc = "verify" /\ At(q, "verify").result = "error"
          /\ At(q, "verify").alone = request[q].alone
      BY <2>1, <2>2, AtIs, PCsAre DEF Fine
    <2>4. Fine(At(q, "verify"), assigned', config', Served', key')
      BY <2>1, <2>2, <2>3 DEF Fine
    <2> QED  BY <2>1, <2>3, <2>4, Moves
  <1>6. CASE UndoRestart(q)
    <2> DEFINE n == [At(q, "record") EXCEPT !.result = "undone"]
    <2>1. request[q].pc = "restart" /\ Goto(q, n, TRUE)
      BY <1>6 DEF UndoRestart
    <2>2. request[q] \in Locals
      BY <2>1, Active, PCsAre
    <2>3. At(q, "record") \in Locals /\ At(q, "record").pc = "record"
      BY <2>2, AtIs, PCsAre
    <2>4. n \in Locals /\ n.pc = "record" /\ n.result = "undone"
      BY <2>3 DEF Locals
    <2> HIDE DEF n
    <2>5. Fine(n, assigned', config', Served', key')
      BY <2>4, Plain
    <2> QED  BY <2>1, <2>4, <2>5, Moves
  <1>7. CASE Verify(q)
    <2>1. request[q].pc = "verify" /\ UNCHANGED <<assigned, config, Served, key>>
      BY <1>7 DEF Verify, Served
    <2>2. request[q] \in Locals /\ Fine(request[q], assigned, config, Served, key)
      BY <2>1, Active, PCsAre
    <2>3. /\ At(q, "record") \in Locals /\ At(q, "record").pc = "record" /\ At(q, "record").result = "error"
          /\ At(q, "record").alone = request[q].alone
      BY <2>1, <2>2, AtIs, PCsAre DEF Fine
    <2>4. PICK result \in {"synced", "error"} : Goto(q, [At(q, "record") EXCEPT !.result = result], FALSE)
      BY <1>7 DEF Verify
    <2> DEFINE n == [At(q, "record") EXCEPT !.result = result]
    <2>5. n \in Locals /\ n.pc = "record" /\ n.result = result /\ n.alone = request[q].alone
      BY <2>3 DEF Locals
    <2> HIDE DEF n
    <2>6. Fine(n, assigned', config', Served', key')
      BY <2>1, <2>2, <2>5 DEF Fine
    <2> QED  BY <2>1, <2>4, <2>5, <2>6, Moves DEF n
  <1> QED  BY <1>1, <1>2, <1>3, <1>4, <1>5, <1>6, <1>7

\* A change of the devices or of the key disturbs every request.
LEMMA AllDisturbed == ASSUME Requested, ChangeDevices \/ DeleteKey PROVE Requested'
  <1>1. ASSUME NEW p \in Requests, request[p] # Idle
        PROVE  request'[p] \in Locals /\ Fine(request'[p], assigned', config', Served', key')
    <2>1. request'[p] = [request[p] EXCEPT !.alone = FALSE]
      BY <1>1 DEF ChangeDevices, DeleteKey
    <2>2. request[p] \in Locals /\ Fine(request[p], assigned, config, Served, key)
      BY <1>1 DEF Requested
    <2>3. ~request'[p].alone /\ request'[p] \in {request[p], [request[p] EXCEPT !.alone = FALSE]}
      BY <2>1, <2>2 DEF Locals
    <2> QED  BY <2>2, <2>3, Disturbed, Zenon
  <1>2. \A p \in Requests : request[p] = Idle => request'[p] = Idle
    BY DEF ChangeDevices, DeleteKey
  <1> QED  BY <1>1, <1>2 DEF Requested

\* The service ends, or comes up again with the file that is there.
LEMMA HostAlone ==
    ASSUME TypeOK, Exit \/ StartAgain
    PROVE  Served' = config /\ UNCHANGED <<assigned, config, backup, key, status, request, exact, unsafe>>
  BY DEF Exit, StartAgain, Served

LEMMA StillRequested == ASSUME TypeOK, Requested, Exit \/ StartAgain PROVE Requested'
  <1>1. ASSUME NEW p \in Requests, request[p] # Idle
        PROVE  request[p] \in Locals /\ Fine(request[p], assigned, config, config, key)
    <2>1. request[p] \in Locals /\ Fine(request[p], assigned, config, Served, key)
      BY <1>1 DEF Requested
    <2> QED  BY <2>1 DEF Fine
  <1>2. Served' = config /\ UNCHANGED <<assigned, config, key, request>>
    BY HostAlone
  <1> QED  BY <1>1, <1>2 DEF Requested

LEMMA NextRequested == PushInv /\ [Next]_vars => Requested'
  <1> SUFFICES ASSUME PushInv, [Next]_vars PROVE Requested'
    OBVIOUS
  <1>1. TypeOK /\ Requested /\ Legal(config)
    BY DEF PushInv
  <1>2. CASE UNCHANGED vars
    BY <1>1, <1>2 DEF vars, Requested, Served
  <1> QED  BY <1>1, <1>2, EarlySteps, HostSteps, AllDisturbed, StillRequested DEF Next, RequestStep

-----------------------------------------------------------------------------
(* The host, and what is said of it *)

\* The locals of the requests that a step of the host takes up.
LEMMA Carried ==
    ASSUME Requested, NEW q \in Requests
    PROVE  /\ request[q].pc = "finish" => request[q].cfg \in Config /\ Accepted(request[q].cfg)
           /\ request[q].pc = "record" =>
                 /\ request[q].result \in {"synced", "error", "undone"} /\ request[q].alone \in BOOLEAN
                 /\ request[q].result = "synced" /\ request[q].alone => Pushed(assigned, config) /\ Served = config
  <1>1. CASE request[q].pc = "finish"
    BY <1>1, Active, PCsAre DEF Fine
  <1>2. CASE request[q].pc = "record"
    <2>1. request[q] \in Locals /\ Fine(request[q], assigned, config, Served, key)
      BY <1>2, Active, PCsAre
    <2> QED  BY <1>2, <2>1 DEF Fine, Locals
  <1> QED  BY <1>1, <1>2

LEMMA NextTyped == PushInv /\ [Next]_vars => TypeOK'
  <1> SUFFICES ASSUME PushInv, [Next]_vars PROVE TypeOK'
    OBVIOUS
  <1>1. TypeOK /\ Requested
    BY DEF PushInv
  <1>2. ASSUME NEW q \in Requests, RequestStep(q) PROVE TypeOK'
    <2>1. CASE Arrive(q) \/ LookUpCollector(q) \/ LoadDevices(q) \/ ReadConfig(q) \/ Break(q)
      BY <1>1, <2>1 DEF Arrive, LookUpCollector, LoadDevices, ReadConfig, Break, host, TypeOK
    <2>2. CASE Connect(q)
      BY <1>1, <2>2 DEF Connect, host, TypeOK
    <2>3. CASE Backup(q) \/ OpenConfig(q)
      BY <1>1, <2>3 DEF Backup, OpenConfig, TypeOK
    <2>4. CASE FinishConfig(q)
      BY <1>1, <2>4, Carried DEF FinishConfig, Restored, TypeOK
    <2>5. CASE Restart(q) \/ UndoRestart(q) \/ Verify(q)
      BY <1>1, <2>5 DEF Restart, UndoRestart, Verify, Restored, TypeOK
    <2>6. CASE Record(q)
      BY <1>1, <2>6, Carried DEF Record, host, TypeOK
    <2>7. CASE SaveSsh(q)
      BY <1>1, <2>7 DEF SaveSsh, host, TypeOK
    <2> QED  BY <1>2, <2>1, <2>2, <2>3, <2>4, <2>5, <2>6, <2>7 DEF RequestStep
  <1>3. CASE ChangeDevices \/ DeleteKey \/ Exit \/ StartAgain
    BY <1>1, <1>3 DEF ChangeDevices, DeleteKey, Exit, StartAgain, host, TypeOK
  <1>4. CASE UNCHANGED vars
    BY <1>1, <1>4 DEF vars, TypeOK
  <1> QED  BY <1>2, <1>3, <1>4 DEF Next

LEMMA NextLegal == PushInv /\ [Next]_vars => Legal(config') /\ Legal(backup')
  <1> SUFFICES ASSUME PushInv, [Next]_vars PROVE Legal(config') /\ Legal(backup')
    OBVIOUS
  <1>1. Legal(config) /\ Legal(backup) /\ Legal(Partial) /\ Requested
    BY InstalledAssumption DEF PushInv, Legal
  <1>2. ASSUME NEW q \in Requests, RequestStep(q) PROVE Legal(config') /\ Legal(backup')
    <2>1. CASE FinishConfig(q)
      <3>1. Legal(request[q].cfg)
        BY <1>1, <2>1, Carried DEF FinishConfig, Legal
      <3> QED  BY <1>1, <2>1, <3>1 DEF FinishConfig, Restored
    <2>2. CASE Backup(q) \/ OpenConfig(q) \/ UndoRestart(q)
      BY <1>1, <2>2 DEF Backup, OpenConfig, UndoRestart, Restored
    <2>3. CASE ~(FinishConfig(q) \/ Backup(q) \/ OpenConfig(q) \/ UndoRestart(q))
      BY <1>1, <1>2, <2>3 DEF RequestStep, Arrive, LookUpCollector, LoadDevices, Connect, ReadConfig, Restart,
                              Verify, Break, Record, SaveSsh, host
    <2> QED  BY <2>1, <2>2, <2>3
  <1>3. CASE ChangeDevices \/ DeleteKey \/ Exit \/ StartAgain \/ UNCHANGED vars
    BY <1>1, <1>3 DEF ChangeDevices, DeleteKey, Exit, StartAgain, host, vars
  <1> QED  BY <1>2, <1>3 DEF Next

InSync == config # Partial /\ Served = config /\ config.receivers \cap Labels = Ours(assigned)

LEMMA SyncedIs == ASSUME TypeOK, SyncedIsRunning, status = "synced", exact PROVE InSync
  <1>1. config # None
    BY InstalledAssumption DEF TypeOK, SyncedIsRunning
  <1> QED  BY <1>1 DEF SyncedIsRunning, InSync, Served

LEMMA NextSynced == PushInv /\ [Next]_vars => SyncedIsRunning'
  <1> SUFFICES ASSUME PushInv, [Next]_vars, status' = "synced", exact' PROVE InSync'
    BY DEF SyncedIsRunning, InSync, Served
  <1>1. SyncedIsRunning /\ Requested /\ TypeOK
    BY DEF PushInv
  <1>2. CASE UNCHANGED <<status, exact, config, Served, assigned>>
    BY <1>1, <1>2, SyncedIs DEF InSync
  <1>3. ASSUME NEW q \in Requests, Record(q) PROVE InSync'
    <2>1. /\ request[q].pc = "record" /\ request[q].result = "synced" /\ request[q].alone
          /\ UNCHANGED <<assigned, config, Served>>
      BY <1>3 DEF Record, host, Served
    <2>2. Pushed(assigned, config) /\ Served = config
      BY <1>1, <2>1, Carried
    <2> QED  BY <2>1, <2>2, InstalledAssumption DEF Pushed, InSync
  <1>4. CASE Exit \/ StartAgain
    BY <1>1, <1>4, SyncedIs, HostAlone DEF InSync
  <1>5. UNCHANGED <<config, running, exited>> => Served' = Served
    BY DEF Served
  <1>6. ASSUME NEW q \in Requests, RequestStep(q), ~Record(q)
        PROVE  UNCHANGED <<status, exact, config, Served, assigned>>
    <2>1. CASE OpenConfig(q) \/ FinishConfig(q) \/ Restart(q) \/ UndoRestart(q)
      BY <2>1 DEF OpenConfig, FinishConfig, Restart, UndoRestart
    <2>2. CASE Verify(q)
      BY <2>2 DEF Verify, Served
    <2>3. CASE Arrive(q) \/ LookUpCollector(q) \/ LoadDevices(q) \/ Connect(q) \/ Backup(q)
      BY <1>5, <2>3 DEF Arrive, LookUpCollector, LoadDevices, Connect, Backup, host
    <2>4. CASE ReadConfig(q) \/ Break(q) \/ SaveSsh(q)
      BY <1>5, <2>4 DEF ReadConfig, Break, SaveSsh, host
    <2> QED  BY <1>6, <2>1, <2>2, <2>3, <2>4 DEF RequestStep
  <1>7. ChangeDevices \/ DeleteKey \/ UNCHANGED vars => UNCHANGED <<status, exact, config, Served, assigned>>
    BY <1>5 DEF ChangeDevices, DeleteKey, host, vars
  <1> QED  BY <1>2, <1>3, <1>4, <1>6, <1>7 DEF Next

-----------------------------------------------------------------------------
(* One push at a time *)

\* The step of a request that pushes: nobody else does.
LEMMA PushGoesOn ==
    ASSUME Requested, OnePush, unsafe' = FALSE => unsafe = FALSE, unsafe \in BOOLEAN, unsafe' \in BOOLEAN,
           NEW q \in Requests, Pushing(q), NEW n, NEW wrote \in BOOLEAN, Goto(q, n, wrote),
           ~unsafe' => /\ n.pc = "finish" \/ Sound(config')
                       /\ n.pc \in {"backup", "write", "finish"} => Sound(n.cfg)
                       /\ n.pc \in {"write", "finish", "restart", "verify"} => Sound(backup')
    PROVE  OnePush'
  <1> SUFFICES ASSUME ~unsafe' PROVE OnePush'
    BY DEF OnePush
  <1>1. \A p \in Requests \ {q} : ~Pushing(p)
    BY DEF OnePush
  <1>2. request'[q] = n /\ \A p \in Requests \ {q} : request'[p].pc = request[p].pc
    BY OthersGoOn, Zenon
  <1>3. \A p \in Requests \ {q} : request'[p].pc \notin {"read", "backup", "write", "finish", "restart", "verify"}
    BY <1>1, <1>2 DEF Pushing
  <1>4. \A p, r \in Requests : Pushing(p)' /\ Pushing(r)' => p = r
    BY <1>3 DEF Pushing
  <1>5. (\E p \in Requests : request'[p].pc = "finish") \/ Sound(config')
    BY <1>2
  <1>6. \A p \in Requests : /\ request'[p].pc \in {"backup", "write", "finish"} => Sound(request'[p].cfg)
                            /\ request'[p].pc \in {"write", "finish", "restart", "verify"} => Sound(backup')
    BY <1>2, <1>3
  <1> QED  BY <1>4, <1>5, <1>6 DEF OnePush, Sound

\* The step of another, that starts no push.
LEMMA PushAside ==
    ASSUME Requested, OnePush, ~unsafe' => ~unsafe, UNCHANGED <<config, backup>>,
           NEW q \in Requests, ~Pushing(q), NEW n, NEW wrote \in BOOLEAN, Goto(q, n, wrote),
           n.pc \in {"idle", "look", "load", "connect", "record", "save"}
    PROVE  OnePush'
  <1> SUFFICES ASSUME ~unsafe' PROVE OnePush'
    BY DEF OnePush
  <1>1. /\ request'[q] = n
        /\ \A p \in Requests \ {q} : /\ request'[p].pc = request[p].pc
                                     /\ request[p] # Idle => request'[p].cfg = request[p].cfg
    BY OthersGoOn, Zenon
  <1>2. \A p \in Requests : Pushing(p)' <=> Pushing(p)
    BY <1>1 DEF Pushing
  <1>3. \A p, r \in Requests : Pushing(p)' /\ Pushing(r)' => p = r
    BY <1>2 DEF OnePush
  <1>4. (\E p \in Requests : request'[p].pc = "finish") \/ Sound(config')
    BY <1>1 DEF OnePush, Pushing
  <1>5. ASSUME NEW p \in Requests
        PROVE  /\ request'[p].pc \in {"backup", "write", "finish"} => Sound(request'[p].cfg)
               /\ request'[p].pc \in {"write", "finish", "restart", "verify"} => Sound(backup')
    <2>1. CASE p = q
      BY <1>1, <2>1
    <2>2. CASE p # q /\ request[p] # Idle
      BY <1>1, <2>2 DEF OnePush
    <2>3. CASE p # q /\ request[p] = Idle
      BY <1>1, <2>3 DEF Idle
    <2> QED  BY <2>1, <2>2, <2>3
  <1> QED  BY <1>3, <1>4, <1>5 DEF OnePush, Sound

LEMMA UnsafeStays == TypeOK /\ [Next]_vars => (unsafe => unsafe')
  BY DEF Next, RequestStep, Arrive, LookUpCollector, LoadDevices, Connect, ReadConfig, Backup,
         OpenConfig, FinishConfig, Restart, UndoRestart, Verify, Break, Record, SaveSsh,
         ChangeDevices, DeleteKey, Exit, StartAgain, vars

\* What the push of q finds on the host as long as nothing unsafe has happened.
LEMMA PushFinds ==
    ASSUME Requested, OnePush, ~unsafe, NEW q \in Requests, Pushing(q)
    PROVE  /\ request[q].pc # "finish" => Sound(config)
           /\ request[q].pc \in {"backup", "write", "finish"} => Sound(request[q].cfg)
           /\ request[q].pc \in {"write", "finish", "restart", "verify"} => Sound(backup) /\ backup # None
  <1>1. Sound(backup) => backup # None
    BY InstalledAssumption DEF Sound
  <1> QED  BY <1>1 DEF OnePush, Pushing

LEMMA PushSteps ==
    ASSUME PushInv, TypeOK', NEW q \in Requests,
           ReadConfig(q) \/ Backup(q) \/ OpenConfig(q) \/ FinishConfig(q) \/ Restart(q) \/ UndoRestart(q)
               \/ Verify(q) \/ Break(q)
    PROVE  OnePush'
  <1>0. /\ Requested /\ OnePush /\ unsafe \in BOOLEAN /\ unsafe' \in BOOLEAN /\ (unsafe' = FALSE => unsafe = FALSE)
        /\ Pushing(q) /\ request[q] \in Locals
    <2>1. Requested /\ OnePush /\ TypeOK /\ Pushing(q)
      BY DEF PushInv, Pushing, ReadConfig, Backup, OpenConfig, FinishConfig, Restart, UndoRestart, Verify, Break
    <2>2. unsafe => unsafe'
      BY DEF ReadConfig, Backup, OpenConfig, FinishConfig, Restart, UndoRestart, Verify, Break
    <2>3. unsafe \in BOOLEAN /\ unsafe' \in BOOLEAN
      BY <2>1 DEF TypeOK
    <2> QED  BY <2>1, <2>2, <2>3, Active, PCsAre DEF Pushing
  <1>1. \A pc \in PCs : /\ At(q, pc) \in Locals /\ At(q, pc).pc = pc
                        /\ pc \notin {"restart", "verify", "record"} => At(q, pc).cfg = request[q].cfg
    BY <1>0, AtIs
  <1>2. CASE ReadConfig(q)
    <2>1. request[q].pc = "read" /\ UNCHANGED <<config, backup, unsafe>>
      BY <1>2 DEF ReadConfig, host
    <2>2. PICK cfg \in Readings(config) :
             Goto(q, IF cfg = Partial THEN At(q, "record")
                     ELSE [At(q, "backup") EXCEPT !.devices = {}, !.cfg = Patch(cfg, request[q].devices)], FALSE)
      BY <1>2 DEF ReadConfig
    <2>3. ~unsafe' => Sound(config)
      BY <1>0, <2>1, PushFinds
    <2>4. CASE cfg = Partial
      <3>1. Goto(q, At(q, "record"), FALSE) /\ At(q, "record").pc = "record"
        BY <1>1, <2>2, <2>4, PCsAre
      <3>2. ~unsafe' => Sound(config')
        BY <2>1, <2>3
      <3> QED  BY <1>0, <3>1, <3>2, PushGoesOn
    <2>5. CASE cfg # Partial
      <3> DEFINE c == Patch(cfg, request[q].devices)
                 n == [At(q, "backup") EXCEPT !.devices = {}, !.cfg = c]
      <3>1. Goto(q, n, FALSE)
        BY <2>2, <2>5
      <3>2. ~unsafe' => Sound(c)
        <4>1. ~unsafe' => cfg = config
          BY <2>3, InstalledAssumption DEF Sound, Readings
        <4>2. request[q].devices \in SUBSET Devices
          BY <1>0 DEF Locals
        <4> QED  BY <2>3, <4>1, <4>2, PatchSound
      <3> HIDE DEF c
      <3>3. n.pc = "backup" /\ n.cfg = c
        BY <1>1, PCsAre DEF Locals
      <3> HIDE DEF n
      <3>4. ~unsafe' => Sound(config')
        BY <2>1, <2>3
      <3> QED  BY <1>0, <3>1, <3>2, <3>3, <3>4, PushGoesOn
    <2> QED  BY <2>4, <2>5
  <1>3. CASE Backup(q)
    <2>1. request[q].pc = "backup" /\ config' = config /\ Goto(q, At(q, "write"), FALSE)
      BY <1>3 DEF Backup
    <2>2. ~unsafe' => Sound(config') /\ Sound(request[q].cfg) /\ Sound(backup')
      BY <1>0, <1>3, <2>1, PushFinds DEF Backup
    <2> QED  BY <1>0, <1>1, <2>1, <2>2, PCsAre, PushGoesOn
  <1>4. CASE OpenConfig(q)
    <2>1. request[q].pc = "write" /\ UNCHANGED <<backup, unsafe>> /\ Goto(q, At(q, "finish"), TRUE)
      BY <1>4 DEF OpenConfig
    <2>2. ~unsafe' => Sound(request[q].cfg) /\ Sound(backup')
      BY <1>0, <2>1, PushFinds
    <2> QED  BY <1>0, <1>1, <2>1, <2>2, PCsAre, PushGoesOn
  <1>5. CASE FinishConfig(q)
    <2>1. request[q].pc = "finish" /\ backup' = backup
      BY <1>5 DEF FinishConfig
    <2>2. PICK pc \in {"restart", "record"} : Goto(q, At(q, pc), TRUE)
      BY <1>5 DEF FinishConfig
    <2>3. ~unsafe' => Sound(config') /\ Sound(backup')
      BY <1>0, <1>5, <2>1, PushFinds DEF FinishConfig, Restored
    <2> QED  BY <1>0, <1>1, <2>2, <2>3, PCsAre, PushGoesOn
  <1>6. CASE Restart(q)
    <2>1. request[q].pc = "restart" /\ UNCHANGED <<config, backup, unsafe>> /\ Goto(q, At(q, "verify"), TRUE)
      BY <1>6 DEF Restart
    <2>2. ~unsafe' => Sound(config') /\ Sound(backup')
      BY <1>0, <2>1, PushFinds
    <2> QED  BY <1>0, <1>1, <2>1, <2>2, PCsAre, PushGoesOn
  <1>7. CASE UndoRestart(q)
    <2> DEFINE n == [At(q, "record") EXCEPT !.result = "undone"]
    <2>1. request[q].pc = "restart" /\ UNCHANGED <<backup, unsafe>> /\ Goto(q, n, TRUE)
      BY <1>7 DEF UndoRestart
    <2>2. n.pc = "record"
      BY <1>1, PCsAre DEF Locals
    <2> HIDE DEF n
    <2>3. ~unsafe' => Sound(config')
      BY <1>0, <1>7, <2>1, PushFinds DEF UndoRestart, Restored
    <2> QED  BY <1>0, <2>1, <2>2, <2>3, PushGoesOn
  <1>8. CASE Verify(q) \/ Break(q)
    <2>1. /\ request[q].pc \in {"read", "backup", "write", "restart", "verify"}
          /\ UNCHANGED <<config, backup, unsafe>>
      BY <1>8 DEF Verify, Break, Pushing, host
    <2>2. PICK result \in {"synced", "error"}, wrote \in BOOLEAN :
             Goto(q, [At(q, "record") EXCEPT !.result = result], wrote) \/ Goto(q, At(q, "record"), wrote)
      BY <1>8 DEF Verify, Break
    <2>3. PICK n : Goto(q, n, wrote) /\ n.pc = "record"
      BY <1>1, <2>2, PCsAre DEF Locals
    <2>4. ~unsafe' => Sound(config')
      BY <1>0, <2>1, PushFinds
    <2> QED  BY <1>0, <2>3, <2>4, PushGoesOn
  <1> QED  BY <1>2, <1>3, <1>4, <1>5, <1>6, <1>7, <1>8

LEMMA NextOnePush == PushInv /\ TypeOK' /\ [Next]_vars => OnePush'
  <1> SUFFICES ASSUME PushInv, TypeOK', [Next]_vars PROVE OnePush'
    OBVIOUS
  <1>1. Requested /\ OnePush /\ TypeOK /\ (~unsafe' => ~unsafe)
    BY UnsafeStays DEF PushInv
  <1>2. ASSUME NEW q \in Requests, Arrive(q) \/ LookUpCollector(q) \/ LoadDevices(q) \/ Record(q) \/ SaveSsh(q)
        PROVE  OnePush'
    <2>1. request[q].pc \in {"idle", "look", "load", "record", "save"}
      <3>1. CASE Arrive(q)
        <4>1. request[q] = Idle /\ Idle.pc = "idle"
          BY <3>1 DEF Arrive, Idle
        <4> QED  BY <4>1
      <3>2. CASE LookUpCollector(q)
        BY <3>2 DEF LookUpCollector, Look
      <3>3. CASE LoadDevices(q) \/ Record(q) \/ SaveSsh(q)
        BY <3>3 DEF LoadDevices, Record, SaveSsh
      <3> QED  BY <1>2, <3>1, <3>2, <3>3
    <2>2. ~Pushing(q)
      BY <2>1 DEF Pushing
    <2>3. UNCHANGED <<config, backup>>
      BY <1>2 DEF Arrive, LookUpCollector, LoadDevices, Record, SaveSsh, host
    <2>4. ASSUME NEW n, NEW wrote \in BOOLEAN, Goto(q, n, wrote), n.pc \in {"idle", "look", "load", "connect", "save"}
          PROVE  OnePush'
      BY <1>1, <2>2, <2>3, <2>4, PushAside
    <2>5. CASE Arrive(q)
      <3>1. PICK op \in {"sync", "saveSsh"}, sends \in BOOLEAN :
               Goto(q, [pc |-> "look", op |-> op, alone |-> TRUE, sends |-> sends, key |-> FALSE,
                        devices |-> {}, cfg |-> None, result |-> "error"], FALSE)
        BY <2>5 DEF Arrive
      <3> DEFINE n == [pc |-> "look", op |-> op, alone |-> TRUE, sends |-> sends, key |-> FALSE,
                       devices |-> {}, cfg |-> None, result |-> "error"]
      <3>2. Goto(q, n, FALSE) /\ n.pc = "look"
        BY <3>1
      <3> HIDE DEF n
      <3> QED  BY <2>4, <3>2
    <2>6. CASE LookUpCollector(q)
      <3>1. request[q] \in Locals
        BY <1>1, <2>6, Active, PCsAre DEF LookUpCollector, Look
      <3>2. PICK pc \in {"load", "save"} : Goto(q, [At(q, pc) EXCEPT !.key = key, !.alone = TRUE], FALSE)
        BY <2>6 DEF LookUpCollector
      <3> DEFINE n == [At(q, pc) EXCEPT !.key = key, !.alone = TRUE]
      <3>3. At(q, pc) \in Locals /\ At(q, pc).pc = pc
        BY <3>1, AtIs, PCsAre
      <3>4. Goto(q, n, FALSE) /\ n.pc = pc
        BY <3>2, <3>3 DEF Locals
      <3> HIDE DEF n
      <3> QED  BY <2>4, <3>4
    <2>7. CASE LoadDevices(q)
      <3>1. request[q] \in Locals
        BY <1>1, <2>7, Active, PCsAre DEF LoadDevices
      <3> DEFINE n == [At(q, "connect") EXCEPT !.devices = assigned, !.alone = TRUE]
      <3>2. At(q, "connect") \in Locals /\ At(q, "connect").pc = "connect"
        BY <3>1, AtIs, PCsAre
      <3>3. n.pc = "connect"
        BY <3>2 DEF Locals
      <3>4. Goto(q, n, FALSE)
        BY <2>7 DEF LoadDevices
      <3> HIDE DEF n
      <3> QED  BY <2>4, <3>3, <3>4
    <2>8. CASE Record(q) \/ SaveSsh(q)
      <3>1. Idle.pc = "idle"
        BY DEF Idle
      <3>2. Goto(q, Idle, FALSE) \/ Goto(q, Idle, TRUE)
        BY <2>8 DEF Record, SaveSsh
      <3> QED  BY <2>4, <3>1, <3>2
    <2> QED  BY <1>2, <2>5, <2>6, <2>7, <2>8
  <1>3. ASSUME NEW q \in Requests, Connect(q) PROVE OnePush'
    <2>1. /\ request[q].pc = "connect" /\ ~Pushing(q) /\ UNCHANGED <<config, backup>>
          /\ ~unsafe' => \A p \in Requests \ {q} : ~Pushing(p)
      BY <1>3 DEF Connect, Pushing, host
    <2>2. PICK pc \in {"read", "record"} : Goto(q, At(q, pc), FALSE)
      BY <1>3 DEF Connect
    <2>3. At(q, pc).pc = pc
      BY <1>1, <2>1, Active, AtIs, PCsAre
    <2>4. CASE pc = "record"
      <3>1. Goto(q, At(q, pc), FALSE) /\ At(q, pc).pc = "record"
        BY <2>2, <2>3, <2>4
      <3> QED  BY <1>1, <2>1, <3>1, PushAside
    <2>5. CASE pc = "read"
      <3> SUFFICES ASSUME ~unsafe' PROVE OnePush'
        BY DEF OnePush
      <3>1. request'[q].pc = "read" /\ \A p \in Requests \ {q} : request'[p].pc = request[p].pc
        BY <1>1, <2>2, <2>3, <2>5, OthersGoOn
      <3>2. \A p \in Requests \ {q} : request'[p].pc \notin {"read", "backup", "write", "finish", "restart", "verify"}
        BY <2>1, <3>1 DEF Pushing
      <3>3. Sound(config')
        BY <1>1, <2>1 DEF OnePush, Pushing
      <3>4. \A p, r \in Requests : Pushing(p)' /\ Pushing(r)' => p = r
        BY <3>2 DEF Pushing
      <3> QED  BY <3>1, <3>2, <3>3, <3>4 DEF OnePush, Sound
    <2> QED  BY <2>4, <2>5
  <1>4. CASE ChangeDevices \/ DeleteKey
    <2>1. \A p \in Requests : /\ request'[p].pc = request[p].pc
                              /\ request[p] # Idle => request'[p].cfg = request[p].cfg
      <3> SUFFICES ASSUME NEW p \in Requests
                   PROVE  /\ request'[p].pc = request[p].pc
                          /\ request[p] # Idle => request'[p].cfg = request[p].cfg
        OBVIOUS
      <3>1. request'[p] = IF request[p] = Idle THEN Idle ELSE [request[p] EXCEPT !.alone = FALSE]
        BY <1>4 DEF ChangeDevices, DeleteKey
      <3>2. request[p] = Idle \/ request[p] \in Locals
        BY <1>1 DEF Requested
      <3> QED  BY <3>1, <3>2 DEF Locals
    <2>2. \A p \in Requests : request[p].pc # "idle" => request[p] # Idle
      BY DEF Idle
    <2>3. UNCHANGED <<config, backup>>
      BY <1>4 DEF ChangeDevices, DeleteKey, host
    <2> QED  BY <1>1, <2>1, <2>2, <2>3 DEF OnePush, Pushing, Sound
  <1>5. CASE Exit \/ StartAgain \/ UNCHANGED vars
    BY <1>1, <1>5 DEF Exit, StartAgain, vars, OnePush, Pushing, Sound
  <1> QED  BY <1>2, <1>3, <1>4, <1>5, PushSteps DEF Next, RequestStep

-----------------------------------------------------------------------------
(* What holds of every push *)

LEMMA InitPush == Init => PushInv
  <1> SUFFICES ASSUME Init PROVE PushInv
    OBVIOUS
  <1>1. \A q \in Requests : request[q] = Idle /\ request[q].pc = "idle"
    BY DEF Init, Idle
  <1>2. TypeOK
    BY InstalledAssumption DEF Init, TypeOK
  <1>3. Sound(config)
    BY InstalledAssumption DEF Init, Sound
  <1> QED  BY <1>1, <1>2, <1>3, InstalledAssumption DEF Init, PushInv, Requested, Legal, SyncedIsRunning, OnePush, Pushing

THEOREM PushInductive == Spec => []PushInv
  <1>1. PushInv /\ [Next]_vars => PushInv'
    BY NextRequested, NextTyped, NextLegal, NextSynced, NextOnePush DEF PushInv
  <1> QED  BY <1>1, InitPush, PTL DEF Spec

\* A collector that is said to be in sync, with nothing overlapping the push, has a whole
\* file with the receivers of its devices, and its service runs this file or has ended
\* since it was found active, which is asked once (sync_collector, push_config).
THEOREM SyncedHolds == Spec => []SyncedIsRunning
  <1>1. PushInv => SyncedIsRunning
    BY DEF PushInv
  <1> QED  BY <1>1, PushInductive, PTL

\* The operator's receivers and pipelines survive every push, and what is written is a
\* configuration the service accepts (push_config, patch_config).
THEOREM ConfigHolds == Spec => []ConfigKept
  <1>1. PushInv => TypeOK
    BY DEF PushInv
  <1>2. PushInv => ForeignKept
    <2> SUFFICES ASSUME PushInv, ~unsafe, \A q \in Requests : request[q].pc # "finish"
                 PROVE  /\ config # Partial
                        /\ config.receivers \cap Foreign = Installed.receivers \cap Foreign
                        /\ \A p \in DOMAIN Installed.pipelines :
                               LET kept == Installed.pipelines[p] \cap Foreign
                               IN  kept # {} => p \in DOMAIN config.pipelines /\ kept \subseteq config.pipelines[p]
      BY DEF ForeignKept
    <2>1. Sound(config)
      BY DEF PushInv, OnePush
    <2> QED  BY <2>1, InstalledAssumption DEF Sound
  <1>3. PushInv => ConfigAccepted
    BY DEF PushInv, TypeOK, Legal, Accepted, ConfigAccepted
  <1> QED  BY <1>1, <1>2, <1>3, PushInductive, PTL DEF ConfigKept

\* A key that was deleted comes back with no save of the other settings that has read the
\* row after the deletion (update_collector_ssh).
THEOREM DeletedKeyStays == Spec => KeyStaysDeleted
  <1>1. ASSUME PushInv, [Next]_vars, NEW q \in Requests, request[q].pc = "save", request'[q] = Idle,
               ~request[q].sends, request[q].alone
        PROVE  key' = key
    <2>1. Requested /\ key \in BOOLEAN
      BY <1>1 DEF PushInv, TypeOK
    <2>2. Fine(request[q], assigned, config, Served, key) /\ request[q] # Idle
      BY <1>1, <2>1, Active, PCsAre DEF Idle
    <2>3. request[q].key = key
      BY <1>1, <2>2 DEF Fine
    <2>4. CASE SaveSsh(q)
      BY <1>1, <2>1, <2>3, <2>4 DEF SaveSsh
    <2>5. ASSUME NEW p \in Requests \ {q}, SaveSsh(p) PROVE FALSE
      <3>1. Goto(p, Idle, TRUE)
        BY <2>5 DEF SaveSsh
      <3>2. request'[q] # Idle
        BY <2>1, <2>2, <3>1, OthersGoOn
      <3> QED  BY <1>1, <3>2
    <2>6. CASE DeleteKey
      <3>1. request'[q] = [request[q] EXCEPT !.alone = FALSE] /\ request[q] \in Locals
        BY <2>1, <2>2, <2>6 DEF DeleteKey, Requested
      <3>2. request'[q].pc = "save"
        BY <1>1, <3>1 DEF Locals
      <3> QED  BY <1>1, <3>2 DEF Idle
    <2>7. CASE ChangeDevices \/ Exit \/ StartAgain \/ UNCHANGED vars
      BY <2>7 DEF ChangeDevices, Exit, StartAgain, vars
    <2>8. ASSUME NEW p \in Requests, RequestStep(p), ~SaveSsh(p) PROVE key' = key
      BY <2>8 DEF RequestStep, Arrive, LookUpCollector, LoadDevices, Connect, ReadConfig, Backup,
                  OpenConfig, FinishConfig, Restart, UndoRestart, Verify, Break, Record
    <2> QED  BY <1>1, <2>4, <2>5, <2>6, <2>7, <2>8 DEF Next
  <1>2. PushInv /\ [Next]_vars =>
          [\A q \in Requests :
               request[q].pc = "save" /\ request'[q] = Idle /\ ~request[q].sends /\ request[q].alone =>
                   key' = key]_vars
    BY <1>1
  <1> QED  BY <1>2, PushInductive, PTL DEF Spec, KeyStaysDeleted

-----------------------------------------------------------------------------
(* What the row says of the collector's health (CollectorHealth) *)

\* The types of Health!TypeOK one by one, and: a delivery that saw no refusal since its
\* token was looked at has left no failure standing.
HealthParts ==
    /\ token \in BOOLEAN /\ failures \in BOOLEAN
    /\ failed \in (0 .. Health!Oldest) \cup {Never}
    /\ seen \in (0 .. Health!Oldest) \cup {Never}
    /\ call \in [Requests -> [pc : {"idle", "deliver"}, op : {"none", "otlp", "heartbeat"},
                              raced : BOOLEAN]]
    /\ failures <=> failed # Never

HealthInv == HealthParts /\ \A q \in Requests : call[q].pc = "deliver" /\ ~call[q].raced => ~failures

LEMMA HealthTyped == HealthParts => Health!TypeOK
  BY DEF HealthParts, Health!TypeOK

LEMMA Ages ==
    ASSUME Health!WindowsAssumption
    PROVE  /\ Health!Oldest \in Nat /\ 0 \in 0 .. Health!Oldest /\ Never # 0
           /\ \A a \in (0 .. Health!Oldest) \cup {Never} :
                 /\ Health!Older(a) \in (0 .. Health!Oldest) \cup {Never}
                 /\ Health!Older(a) = Never <=> a = Never
  <1>1. Health!Oldest \in Nat /\ Never \notin Nat /\ Never # 0
    BY DEF Health!WindowsAssumption, Health!Oldest
  <1>2. 0 \in 0 .. Health!Oldest /\ \A a \in 0 .. Health!Oldest : a \in Nat /\ a # Never
    BY <1>1
  <1>3. ASSUME NEW a \in (0 .. Health!Oldest) \cup {Never}
        PROVE  /\ Health!Older(a) \in (0 .. Health!Oldest) \cup {Never}
               /\ Health!Older(a) = Never <=> a = Never
    <2>1. CASE a = Never \/ a = Health!Oldest
      BY <2>1 DEF Health!Older
    <2>2. CASE a \in 0 .. Health!Oldest /\ a # Never /\ a # Health!Oldest
      <3>1. a + 1 \in 0 .. Health!Oldest
        BY <1>1, <2>2
      <3> QED  BY <1>2, <2>2, <3>1 DEF Health!Older
    <2> QED  BY <2>1, <2>2
  <1> QED  BY <1>1, <1>2, <1>3

LEMMA HealthInit == ASSUME Health!WindowsAssumption PROVE Health!Init => HealthInv
  <1> SUFFICES ASSUME Health!Init PROVE HealthInv
    OBVIOUS
  <1>1. token = TRUE /\ failures = FALSE /\ failed = Never /\ seen = Never
    BY DEF Health!Init
  <1>2. call = [q \in Requests |-> [pc |-> "idle", op |-> "none", raced |-> FALSE]]
    BY DEF Health!Init, Health!Idle
  <1> QED  BY <1>1, <1>2 DEF HealthInv, HealthParts

LEMMA HealthStep ==
    ASSUME Health!WindowsAssumption, HealthInv, [Health!Next]_(Health!vars) PROVE HealthInv'
  <1> USE DEF HealthParts, HealthInv
  <1>1. ASSUME NEW q \in Requests, NEW op \in {"otlp", "heartbeat"}, Health!Authenticate(q, op) PROVE HealthInv'
    BY <1>1 DEF Health!Authenticate
  <1>2. ASSUME NEW q \in Requests, Health!Refuse(q) PROVE HealthInv'
    <2>1. /\ call' \in [Requests -> [pc : {"idle", "deliver"}, op : {"none", "otlp", "heartbeat"}, raced : BOOLEAN]]
          /\ \A p \in Requests : call'[p].pc = "deliver" => call'[p].raced
      BY <1>2 DEF Health!Refuse, Health!Refused, Health!Idle
    <2>2. failures' = TRUE /\ failed' = 0 /\ token' = token /\ seen' = seen
      BY <1>2 DEF Health!Refuse
    <2> QED  BY <2>1, <2>2, Ages
  <1>3. ASSUME NEW q \in Requests, Health!Deliver(q) \/ Health!Heartbeat(q) PROVE HealthInv'
    <2>1. call' = [call EXCEPT ![q] = Health!Idle]
      BY <1>3 DEF Health!Deliver, Health!Heartbeat
    <2>2. call' \in [Requests -> [pc : {"idle", "deliver"}, op : {"none", "otlp", "heartbeat"}, raced : BOOLEAN]]
      BY <2>1 DEF Health!Idle
    <2>3. \A p \in Requests : call'[p].pc = "deliver" => call'[p] = call[p]
      BY <2>1 DEF Health!Idle
    <2>4. token' = token /\ (seen' = 0 \/ seen' = seen)
      BY <1>3 DEF Health!Deliver, Health!Heartbeat
    <2>5. \/ failures' = failures /\ failed' = failed
          \/ failures' = FALSE /\ failed' = Never
      BY <1>3 DEF Health!Deliver, Health!Heartbeat
    <2>6. \A p \in Requests : call'[p].pc = "deliver" /\ ~call'[p].raced => ~failures'
      BY <2>3, <2>5
    <2>7. seen' \in (0 .. Health!Oldest) \cup {Never}
      BY <2>4, Ages
    <2>8. failures' \in BOOLEAN /\ failed' \in (0 .. Health!Oldest) \cup {Never}
      BY <2>5
    <2>9. failures' <=> failed' # Never
      BY <2>5
    <2> QED  BY <2>2, <2>4, <2>6, <2>7, <2>8, <2>9
  <1>4. CASE Health!Tick
    <2>1. /\ failed' \in (0 .. Health!Oldest) \cup {Never} /\ (failed' = Never <=> failed = Never)
          /\ seen' \in (0 .. Health!Oldest) \cup {Never}
      BY <1>4, Ages DEF Health!Tick
    <2> QED  BY <1>4, <2>1 DEF Health!Tick
  <1>5. CASE Health!ChangeToken
    BY <1>5 DEF Health!ChangeToken
  <1>6. CASE UNCHANGED Health!vars
    BY <1>6 DEF Health!vars
  <1> QED  BY <1>1, <1>2, <1>3, <1>4, <1>5, <1>6 DEF Health!Next

\* A collector that has delivered is online, unless a token was refused on the way.
LEMMA OnlineStep ==
    ASSUME Health!WindowsAssumption, HealthInv, [Health!Next]_(Health!vars), NEW q \in Requests,
           call[q].pc = "deliver", seen' = 0, call'[q] = Health!Idle, ~call[q].raced \/ call[q].op = "heartbeat"
    PROVE  Health!Effective' = "online" /\ Health!CountedOnline'
  <1>1. Health!Deliver(q) \/ Health!Heartbeat(q)
    <2>1. call[q] # Health!Idle
      BY DEF Health!Idle
    <2>2. ASSUME NEW p \in Requests, NEW op \in {"otlp", "heartbeat"}, Health!Authenticate(p, op) PROVE FALSE
      BY <2>1, <2>2 DEF Health!Authenticate, Health!Idle, HealthInv, HealthParts
    <2>3. ASSUME NEW p \in Requests, Health!Refuse(p) PROVE FALSE
      <3>1. call'[q] = [call[q] EXCEPT !.raced = TRUE]
        BY <2>1, <2>3 DEF Health!Refuse, Health!Refused
      <3>2. call'[q].pc = "deliver"
        BY <3>1 DEF HealthInv, HealthParts
      <3> QED  BY <3>2 DEF Health!Idle
    <2>4. ASSUME NEW p \in Requests \ {q}, Health!Deliver(p) \/ Health!Heartbeat(p) PROVE FALSE
      BY <2>1, <2>4 DEF Health!Deliver, Health!Heartbeat, HealthInv, HealthParts
    <2>5. ~(Health!ChangeToken \/ Health!Tick \/ UNCHANGED Health!vars)
      BY <2>1 DEF Health!ChangeToken, Health!Tick, Health!vars
    <2> QED  BY <2>2, <2>3, <2>4, <2>5 DEF Health!Next
  <1>2. ~failures'
    BY <1>1 DEF HealthInv, HealthParts, Health!Deliver, Health!Heartbeat
  <1>3. 0 # Never /\ 0 < SeenFor /\ 0 < SeenFor + 1
    BY DEF Health!WindowsAssumption
  <1> QED  BY <1>2, <1>3 DEF Health!Effective, Health!CountedOnline, Health!Within

\* A collector that has just delivered is shown and counted as online, unless a token of its
\* address was refused on the way (collector_auth, _do_ingest_otlp, ingest_heartbeat).
THEOREM SeenHolds ==
    ASSUME Health!WindowsAssumption
    PROVE  Health!Spec => []Health!TypeOK /\ Health!SeenIsOnline
  <1>1. Health!Init => HealthInv
    BY HealthInit
  <1>2. HealthInv /\ [Health!Next]_(Health!vars) => HealthInv'
    BY HealthStep
  <1>3. HealthInv /\ [Health!Next]_(Health!vars) =>
          [\A q \in Requests :
              call[q].pc = "deliver" /\ seen' = 0 /\ call'[q] = Health!Idle
                  /\ (~call[q].raced \/ call[q].op = "heartbeat") =>
                      Health!Effective' = "online" /\ Health!CountedOnline']_(Health!vars)
    BY OnlineStep
  <1>4. HealthInv => Health!TypeOK
    BY HealthTyped DEF HealthInv
  <1> QED  BY <1>1, <1>2, <1>3, <1>4, PTL DEF Health!Spec, Health!SeenIsOnline

\* What the row of a collector says is right: of its key (update_collector_ssh), and of its
\* health (collector_auth, _mask_collector).
THEOREM RowHolds == Spec /\ Health!Spec => RowRight
  <1>1. Health!WindowsAssumption
    BY HealthAssumption
  <1> QED  BY <1>1, DeletedKeyStays, SeenHolds DEF RowRight
=============================================================================
