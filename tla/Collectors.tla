----------------------------- MODULE Collectors -----------------------------
(***************************************************************************)
(* One remote collector and the configuration that is pushed to it over    *)
(* SSH: sync_collector, the SSH settings, snmp/collector_push.py and       *)
(* snmp/otelcol_config.py.                                                 *)
(*                                                                         *)
(* A push is a thread that runs one command after another on the remote    *)
(* host.  Any of them may fail, and nothing keeps two pushes apart.        *)
(***************************************************************************)
EXTENDS Naturals, FiniteSets

CONSTANTS
    Requests,
    Devices,
    Assignments,            \* the sets of devices the administrators choose between
    Labels,                 \* receiver names: snmp/ and the label of a device
    Pipelines,
    LabelOf, PipelineOf,    \* [Devices -> Labels], [Devices -> Pipelines]
    Foreign,                \* receivers the operator of the host has put there
    Installed,              \* the configuration the host starts with
    Partial,                \* a file that was not written to its end
    Stumps,                 \* what the beginning of a file may be read as
    None                    \* no file, no service

ASSUME LabelsAssumption ==
    /\ LabelOf \in [Devices -> Labels] /\ PipelineOf \in [Devices -> Pipelines]
    /\ Labels \cap Foreign = {} /\ Assignments \subseteq SUBSET Devices

Config == [receivers : SUBSET (Labels \cup Foreign),
           pipelines : UNION {[P -> SUBSET (Labels \cup Foreign)] : P \in SUBSET Pipelines}]

\* No pipeline names a receiver that is not defined.
Defined(cfg) == \A p \in DOMAIN cfg.pipelines : cfg.pipelines[p] \cap Foreign \subseteq cfg.receivers

\* The service runs what is installed.  The receivers come before the pipelines in it.
ASSUME InstalledAssumption ==
    /\ Installed \in Config /\ {Partial, None} \cap Config = {} /\ Defined(Installed)
    /\ \A cfg \in Stumps : cfg \in Config /\ Defined(cfg)

VARIABLES
    assigned,       \* enabled devices of the collector that have a label
    config, backup, \* the two files on the host; backup may not be there
    running,        \* the configuration the service runs, None if it does not
    exited,         \* history: it has ended by itself since it was last started or found active
    key,            \* ssh_key_enc: is there one
    status,         \* sync_status, and "undone" for an error that says so
    request,        \* where each request is, with its locals
    exact,          \* history: nothing has overlapped since the last good push
    unsafe          \* history: a backup has failed, or two pushes have overlapped

vars == <<assigned, config, backup, running, exited, key, status, request, exact, unsafe>>

host == <<config, backup, running, exited>>

Idle == [pc |-> "idle"]

-----------------------------------------------------------------------------
(* The configuration *)

Ours(devices) == {LabelOf[d] : d \in devices}

Patch_KeepsReceivers(cfg, devices) ==
    LET into(p) == {LabelOf[d] : d \in {e \in devices : PipelineOf[e] = p}}
                   \cup (IF p \in DOMAIN cfg.pipelines THEN cfg.pipelines[p] \cap Foreign ELSE {})
    IN  [receivers |-> cfg.receivers \cup Ours(devices),
         pipelines |-> [p \in {p \in Pipelines : into(p) # {}} |-> into(p)]]

\* patch_config: our receivers are replaced, pipelines left without any are dropped.
Patch(cfg, devices) ==
    LET into(p) == {LabelOf[d] : d \in {e \in devices : PipelineOf[e] = p}}
                   \cup (IF p \in DOMAIN cfg.pipelines THEN cfg.pipelines[p] \cap Foreign ELSE {})
    IN  [receivers |-> (cfg.receivers \cap Foreign) \cup Ours(devices),
         pipelines |-> [p \in {p \in Pipelines : into(p) # {}} |-> into(p)]]

\* What yaml.safe_load makes of a file: a part of one is refused, or taken for a whole one.
Readings(file) == IF file = Partial THEN {Partial} \cup Stumps ELSE {file}

-----------------------------------------------------------------------------
(* Requests *)

Init ==
    /\ assigned \in Assignments
    /\ config = Installed /\ backup = None /\ running = Installed /\ exited = FALSE
    /\ key = FALSE /\ status = "never"
    /\ request = [q \in Requests |-> Idle]
    /\ exact = FALSE /\ unsafe = FALSE

Pushing(q) == request[q].pc \in {"read", "backup", "write", "finish", "restart", "verify"}

\* alone is a history: no other request, and no change of the devices, since the
\* request has read what it works on.
Goto(q, next, wrote) ==
    request' = [p \in Requests |->
        IF p = q THEN next
        ELSE IF wrote /\ request[p] # Idle THEN [request[p] EXCEPT !.alone = FALSE]
        ELSE request[p]]

\* The next step of a request; what it does not read any more it forgets.
At(q, pc) ==
    [request[q] EXCEPT
        !.pc = pc,
        !.devices = IF pc = "record" THEN {} ELSE @,
        !.key = @ /\ pc \in {"load", "connect", "save"},
        !.cfg = IF pc \in {"restart", "verify", "record"} THEN None ELSE @]

Arrive(q) ==
    /\ request[q] = Idle
    /\ \E op \in {"sync", "saveSsh"}, sends \in BOOLEAN :
           /\ sends => op = "saveSsh"
           /\ Goto(q, [pc |-> "look", op |-> op, alone |-> TRUE, sends |-> sends, key |-> FALSE,
                       devices |-> {}, cfg |-> None, result |-> "error"], FALSE)
    /\ UNCHANGED <<assigned, host, key, status, exact, unsafe>>

Look(q, op) == request[q].pc = "look" /\ request[q].op = op

-----------------------------------------------------------------------------
(* A push *)

\* The row of the collector, and then the devices to push.
LookUpCollector(q) ==
    /\ Look(q, "sync") \/ Look(q, "saveSsh")
    /\ Goto(q, [At(q, IF request[q].op = "sync" THEN "load" ELSE "save") EXCEPT
                    !.key = key, !.alone = TRUE], FALSE)
    /\ UNCHANGED <<assigned, host, key, status, exact, unsafe>>

LoadDevices(q) ==
    /\ request[q].pc = "load"
    /\ Goto(q, [At(q, "connect") EXCEPT !.devices = assigned, !.alone = TRUE], FALSE)
    /\ UNCHANGED <<assigned, host, key, status, exact, unsafe>>

\* Only a stored key opens a connection, and not always.
Connect(q) ==
    /\ request[q].pc = "connect"
    /\ \/ request[q].key /\ Goto(q, At(q, "read"), FALSE)
       \/ Goto(q, At(q, "record"), FALSE)
    /\ unsafe' = (unsafe \/ \E p \in Requests \ {q} : Pushing(p))
    /\ UNCHANGED <<assigned, host, key, status, exact>>

ReadConfig(q) ==
    /\ request[q].pc = "read"
    /\ \E cfg \in Readings(config) :
           Goto(q, IF cfg = Partial THEN At(q, "record")
                   ELSE [At(q, "backup") EXCEPT !.devices = {}, !.cfg = Patch(cfg, request[q].devices)], FALSE)
    /\ UNCHANGED <<assigned, host, key, status, exact, unsafe>>

\* cp: nobody looks whether it has worked.
Backup(q) ==
    /\ request[q].pc = "backup"
    /\ \/ backup' = config /\ UNCHANGED unsafe
       \/ backup' \in {backup, Partial} /\ unsafe' = TRUE
    /\ Goto(q, At(q, "write"), FALSE)
    /\ UNCHANGED <<assigned, config, running, exited, key, status, exact>>

\* Opening the file for writing truncates it.
OpenConfig(q) ==
    /\ request[q].pc = "write"
    /\ config' = Partial
    /\ Goto(q, At(q, "finish"), TRUE)
    /\ exact' = FALSE
    /\ UNCHANGED <<assigned, backup, running, exited, key, status, unsafe>>

Restored == IF backup = None THEN config ELSE backup

FinishConfig_NoRestore(q) ==
    /\ request[q].pc = "finish"
    /\ \/ config' = request[q].cfg /\ Goto(q, At(q, "restart"), TRUE)
       \/ UNCHANGED config /\ Goto(q, At(q, "record"), TRUE)
    /\ exact' = FALSE
    /\ UNCHANGED <<assigned, backup, running, exited, key, status, unsafe>>

\* The file is written to its end, or the backup is copied back, when there is still
\* a connection to do it over.
FinishConfig(q) ==
    /\ request[q].pc = "finish"
    /\ \/ config' = request[q].cfg /\ Goto(q, At(q, "restart"), TRUE) /\ UNCHANGED unsafe
       \/ config' = Restored /\ Goto(q, At(q, "record"), TRUE) /\ UNCHANGED unsafe
       \/ UNCHANGED config /\ Goto(q, At(q, "record"), TRUE) /\ unsafe' = TRUE
    /\ exact' = FALSE
    /\ UNCHANGED <<assigned, backup, running, exited, key, status>>

Restart(q) ==
    /\ request[q].pc = "restart"
    /\ running' = config /\ config # Partial /\ exited' = FALSE
    /\ Goto(q, At(q, "verify"), TRUE)
    /\ exact' = FALSE
    /\ UNCHANGED <<assigned, config, backup, key, status, unsafe>>

UndoRestart_Blind(q) ==
    /\ request[q].pc = "restart"
    /\ config' = backup
    /\ running' \in {config', None} \ {Partial} /\ exited' = FALSE
    /\ Goto(q, [At(q, "record") EXCEPT !.result = "undone"], TRUE)
    /\ exact' = FALSE
    /\ UNCHANGED <<assigned, backup, key, status, unsafe>>

\* systemctl says that the restart has failed: the backup is copied back, nobody looks
\* whether it could be, and the service is restarted once more.
UndoRestart(q) ==
    /\ request[q].pc = "restart"
    /\ config' \in {Restored, config}
    /\ running' \in {config', None} \ {Partial} /\ exited' = FALSE
    /\ Goto(q, [At(q, "record") EXCEPT !.result = "undone"], TRUE)
    /\ exact' = FALSE
    /\ UNCHANGED <<assigned, backup, key, status, unsafe>>

Verify_Trusting(q) ==
    /\ request[q].pc = "verify"
    /\ Goto(q, [At(q, "record") EXCEPT !.result = "synced"], FALSE)
    /\ exited' = FALSE
    /\ UNCHANGED <<assigned, config, backup, running, key, status, exact, unsafe>>

\* systemctl is-active, asked as soon as the restart has returned.
Verify(q) ==
    /\ request[q].pc = "verify"
    /\ Goto(q, [At(q, "record") EXCEPT !.result = IF running # None THEN "synced" ELSE "error"], FALSE)
    /\ exited' = (exited /\ running = None)
    /\ UNCHANGED <<assigned, config, backup, running, key, status, exact, unsafe>>

\* The connection breaks: what has been done is left as it is.
Break(q) ==
    /\ Pushing(q) /\ request[q].pc # "finish"
    /\ Goto(q, At(q, "record"), FALSE)
    /\ UNCHANGED <<assigned, host, key, status, exact, unsafe>>

Record(q) ==
    /\ request[q].pc = "record"
    /\ status' = request[q].result
    /\ exact' = (request[q].result = "synced" /\ request[q].alone)
    /\ Goto(q, Idle, FALSE)
    /\ UNCHANGED <<assigned, host, key, unsafe>>

-----------------------------------------------------------------------------
(* The SSH settings *)

SaveSsh_OnlySent(q) ==
    /\ request[q].pc = "save"
    /\ key' = request[q].sends
    /\ Goto(q, Idle, TRUE)
    /\ UNCHANGED <<assigned, host, status, exact, unsafe>>

\* update_collector_ssh: a key that is not sent is written back as it was read.
SaveSsh(q) ==
    /\ request[q].pc = "save"
    /\ key' = (request[q].sends \/ request[q].key)
    /\ Goto(q, Idle, TRUE)
    /\ UNCHANGED <<assigned, host, status, exact, unsafe>>

\* delete_collector_ssh_key.
DeleteKey ==
    /\ key' = FALSE
    /\ request' = [p \in Requests |-> IF request[p] = Idle THEN Idle
                                      ELSE [request[p] EXCEPT !.alone = FALSE]]
    /\ UNCHANGED <<assigned, host, status, exact, unsafe>>

-----------------------------------------------------------------------------
(* The system *)

\* An administrator moves devices to the collector or away, or labels them.
ChangeDevices ==
    /\ assigned' \in Assignments /\ assigned' # assigned
    /\ exact' = FALSE
    /\ request' = [p \in Requests |-> IF request[p] = Idle THEN Idle
                                      ELSE [request[p] EXCEPT !.alone = FALSE]]
    /\ UNCHANGED <<host, key, status, unsafe>>

\* The service ends, at once or a moment after it was started.
Exit ==
    /\ running # None
    /\ running' = None /\ exited' = TRUE
    /\ UNCHANGED <<assigned, config, backup, key, status, request, exact, unsafe>>

\* systemd, or a boot of the host, starts it again with the file that is there.
StartAgain ==
    /\ running = None /\ config # Partial
    /\ running' = config /\ exited' = FALSE
    /\ UNCHANGED <<assigned, config, backup, key, status, request, exact, unsafe>>

RequestStep(q) ==
    \/ Arrive(q)
    \/ LookUpCollector(q) \/ LoadDevices(q) \/ Connect(q) \/ ReadConfig(q) \/ Backup(q)
    \/ OpenConfig(q) \/ FinishConfig(q) \/ Restart(q) \/ UndoRestart(q) \/ Verify(q) \/ Break(q) \/ Record(q)
    \/ SaveSsh(q)

Next == (\E q \in Requests : RequestStep(q)) \/ DeleteKey \/ ChangeDevices \/ Exit \/ StartAgain

Spec == Init /\ [][Next]_vars

-----------------------------------------------------------------------------
(* Properties *)

\* Every variable has its type.
TypeOK ==
    /\ assigned \in Assignments
    /\ config \in Config \cup {Partial} /\ backup \in Config \cup {Partial, None}
    /\ running \in Config \cup {None}
    /\ {key, exact, unsafe, exited} \subseteq BOOLEAN
    /\ status \in {"never", "synced", "error", "undone"}

\* What a collector is said to have it has: after a push that is recorded as synced,
\* with nothing overlapping it, the file is whole and has the receivers of the
\* collector's devices and no others of ours, and the service runs this file and no
\* other.  Or it has ended since it was found active: the code asks once, as soon as the
\* restart has returned, so that a service that ends a moment later is recorded as synced.
SyncedIsRunning ==
    status = "synced" /\ exact =>
        /\ config # Partial
        /\ running = config \/ (running = None /\ exited)
        /\ config.receivers \cap Labels = Ours(assigned)

\* What the operator of the host has configured survives every push, also one that
\* fails and is undone, as long as backups can be made, the way back can be taken and
\* pushes do not overlap.
ForeignKept ==
    ~unsafe /\ (\A q \in Requests : request[q].pc # "finish") =>
        /\ config # Partial
        /\ config.receivers \cap Foreign = Installed.receivers \cap Foreign
        /\ \A p \in DOMAIN Installed.pipelines :
               LET kept == Installed.pipelines[p] \cap Foreign
               IN  kept # {} => p \in DOMAIN config.pipelines /\ kept \subseteq config.pipelines[p]

\* A configuration we have written names no receiver it does not define, leaves none
\* of ours unused and has no pipeline without receivers: the service refuses those.
ConfigAccepted ==
    config \notin {Partial, Installed} =>
        /\ \A p \in DOMAIN config.pipelines :
               config.pipelines[p] # {} /\ config.pipelines[p] \subseteq config.receivers
        /\ config.receivers \cap Labels
               \subseteq UNION {config.pipelines[p] : p \in DOMAIN config.pipelines}

\* A deleted key does not come back with a save of the other SSH settings, unless the
\* deletion came between that request's SELECT and its UPDATE.
KeyStaysDeleted ==
    [][\A q \in Requests :
          request[q].pc = "save" /\ request'[q] = Idle /\ ~request[q].sends /\ request[q].alone =>
              key' = key]_vars

\* The configuration of the host stays the operator's, and one the service accepts.
ConfigKept == TypeOK /\ ForeignKept /\ ConfigAccepted
=============================================================================
