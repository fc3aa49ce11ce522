------------------------------- MODULE Backups -------------------------------
(***************************************************************************)
(* Backups (backup.py, and the export, import and restore endpoints of     *)
(* api/system.py).  The scheduler and the button each make a snapshot      *)
(* directory named after the minute, and rotate the directories that are   *)
(* there; both may be at it at the same time, in threads of their own.     *)
(*                                                                         *)
(* The content of the database is the number of the last commit it holds.  *)
(* It is in WAL mode: the file alone holds what was last checkpointed.     *)
(***************************************************************************)
EXTENDS Naturals, SequencesExt

CONSTANTS
    Commits,    \* bound on commits
    Minutes,    \* bound on the minutes that directories are named after
    Counts,     \* the values of backup_rotation_count
    MaxFaults,  \* bound on what goes wrong
    Timer, Button,
    Torn,       \* the content of a database put together from two
    Bad,        \* the content of a copy that fails the integrity check
    None

BackupsAssumption ==
    /\ {Commits, Minutes, MaxFaults} \subseteq Nat /\ Minutes > 0 /\ Counts \subseteq Nat
    /\ Timer # Button /\ Torn # Bad /\ None \notin {Torn, Bad}
    /\ {Torn, Bad, None} \cap (0 .. Commits) = {}

VARIABLES
    db,         \* pktsnmp.db: what it holds, and what its file holds without the WAL
    minute,
    snaps,      \* [directory -> content of its pktsnmp.db, None without one]
    order,      \* the directories there are, the one that was changed last at the end
    enabled,    \* backup_enabled
    count,      \* backup_rotation_count
    bundle,     \* the database in the export that was downloaded last
    run,        \* [Runners -> locals of run_backup_sync]
    faults

vars == <<db, minute, snaps, order, enabled, count, bundle, run, faults>>

Runners == {Timer, Button}
Content == (0 .. Commits) \cup {Torn, Bad}

\* Histories: what the database has held from the copy of the run to its verification
\* (seen), whether no other run was under way (alone), the directories that were listed
\* (all), and the ones that could not be removed (stuck).
Idle == [at |-> "idle", name |-> 1, keep |-> 0, list |-> << >>,
         seen |-> {}, alone |-> TRUE, all |-> << >>, stuck |-> {}]

Init ==
    /\ db = [holds |-> 0, file |-> 0] /\ minute = 1
    /\ snaps = [m \in 1 .. Minutes |-> None] /\ order = << >>
    /\ enabled \in BOOLEAN /\ count \in Counts
    /\ bundle = None
    /\ run = [r \in Runners |-> Idle] /\ faults = 0

Stands(m) == \E i \in DOMAIN order : order[i] = m

Touched_Logged(m) == Append(order, m)

\* st_mtime of a directory that an entry is made in or removed from.
Touched(m) == Append(RemoveFirst(order, m), m)
Busy(r) == run[r].at \notin {"idle", "dead"}
Fault == faults < MaxFaults /\ faults' = faults + 1
Step(r, changed) == run' = [run EXCEPT ![r] = changed]

\* The database holds c from now on.
Becomes(c, file) ==
    /\ db' = [holds |-> c, file |-> file]
    /\ run' = [r \in Runners |-> IF run[r].at = "verify" THEN [run[r] EXCEPT !.seen = @ \cup {c}] ELSE run[r]]

-----------------------------------------------------------------------------
(* A run *)

\* The settings are read once, and the directory of the minute is made or used again.
Begin(r) ==
    /\ run[r].at = "idle" /\ (r = Timer => enabled)
    /\ run' = [q \in Runners |->
                IF q = r THEN [Idle EXCEPT !.at = "copy", !.name = minute, !.keep = count,
                                           !.alone = \A p \in Runners : ~Busy(p)]
                ELSE [run[q] EXCEPT !.alone = FALSE, !.all = << >>, !.stuck = {}]]
    /\ order' = IF Stands(minute) THEN order ELSE Append(order, minute)
    /\ UNCHANGED <<db, minute, snaps, enabled, count, bundle, faults>>

Over_EndsLoop(r) == Step(r, IF r = Timer THEN [Idle EXCEPT !.at = "dead"] ELSE Idle)

\* An error ends the run.  The loop of the scheduler logs it and goes on.
Over(r) == Step(r, Idle)

\* The file of the copy is made, or one of the same minute overwritten: nothing can be
\* done with it until the copy is complete, nor when it is cut off.
OpenCopy(r) ==
    /\ run[r].at = "copy"
    /\ IF Stands(run[r].name)
       THEN /\ snaps' = [snaps EXCEPT ![run[r].name] = Bad] /\ order' = Touched(run[r].name)
            /\ Step(r, [run[r] EXCEPT !.at = "copying"])
       ELSE Over(r) /\ UNCHANGED <<snaps, order>>
    /\ UNCHANGED <<db, minute, enabled, count, bundle, faults>>

Copied_PlainCopy == db.file

\* The backup API copies the pages of one read transaction.
Copied == db.holds

CopyDatabase(r) ==
    /\ run[r].at = "copying"
    /\ IF Stands(run[r].name)
       THEN /\ \/ snaps' = [snaps EXCEPT ![run[r].name] = Copied] /\ UNCHANGED faults
               \/ Fault /\ snaps' = [snaps EXCEPT ![run[r].name] = Bad]
            /\ order' = Touched(run[r].name)
            /\ Step(r, [run[r] EXCEPT !.at = "verify", !.seen = {db.holds}])
       ELSE Over(r) /\ UNCHANGED <<snaps, order, faults>>
    /\ UNCHANGED <<db, minute, enabled, count, bundle>>

Verified(m) == snaps[m] \notin {None, Bad}

\* integrity_check.  A copy that fails it is kept and the run goes on.
Verify(r) ==
    /\ run[r].at = "verify"
    /\ Step(r, [run[r] EXCEPT !.at = "rest", !.seen = {}])
    /\ UNCHANGED <<db, minute, snaps, order, enabled, count, bundle, faults>>

\* config.yaml, and the ClickHouse export, whose failure removes its file again.
CopyRest(r) ==
    /\ run[r].at = "rest"
    /\ IF Stands(run[r].name)
       THEN /\ order' \in {order, Touched(run[r].name)}
            /\ Step(r, [run[r] EXCEPT !.at = "list"])
       ELSE Over(r) /\ UNCHANGED order
    /\ UNCHANGED <<db, minute, snaps, enabled, count, bundle, faults>>

\* A full disk, a directory that cannot be read.
Fail(r) ==
    /\ run[r].at \in {"copy", "copying", "rest", "list"} /\ Fault
    /\ Over(r)
    /\ UNCHANGED <<db, minute, snaps, order, enabled, count, bundle>>

\* What a run goes by, and for the histories of one that is alone what there was.
Listed(r, list) ==
    Step(r, [run[r] EXCEPT !.at = "rotate", !.list = list, !.stuck = {},
                           !.all = IF run[r].alone THEN order ELSE << >>])

ListDirectories_NewestFirst(r) ==
    /\ run[r].at = "list"
    /\ Listed(r, [i \in DOMAIN order |-> order[Len(order) + 1 - i]])
    /\ UNCHANGED <<db, minute, snaps, order, enabled, count, bundle, faults>>

\* Oldest first.
ListDirectories(r) ==
    /\ run[r].at = "list" /\ Listed(r, order)
    /\ UNCHANGED <<db, minute, snaps, order, enabled, count, bundle, faults>>

\* rmtree(ignore_errors): the directory, or a part of it, may stay.  It is newer then when
\* anything in it was removed.
Removed(m) ==
    \/ /\ snaps' = [snaps EXCEPT ![m] = None] /\ order' = RemoveFirst(order, m)
       /\ UNCHANGED faults
    \/ /\ Stands(m) /\ Fault
       /\ \/ UNCHANGED <<snaps, order>>
          \/ snaps' \in {snaps, [snaps EXCEPT ![m] = None]} /\ order' = Touched(m)

\* One directory after the other, until as many are left of those that were listed.
RemoveOldest(r) ==
    LET old == Head(run[r].list) IN
    /\ run[r].at = "rotate" /\ Len(run[r].list) > run[r].keep
    /\ Removed(old)
    /\ Step(r, [run[r] EXCEPT !.list = Tail(@), !.stuck = IF faults' # faults /\ run[r].alone THEN @ \cup {old} ELSE @])
    /\ UNCHANGED <<db, minute, enabled, count, bundle>>

EndRun(r) ==
    /\ run[r].at = "rotate" /\ Len(run[r].list) <= run[r].keep
    /\ Step(r, Idle)
    /\ UNCHANGED <<db, minute, snaps, order, enabled, count, bundle, faults>>

-----------------------------------------------------------------------------
(* Restore, export, import *)

\* copy2 over the file of the database that is open.  What the WAL holds goes on top.
Overwrite(c) ==
    \/ Becomes(c, c)
    \/ db.holds # db.file /\ Becomes(Torn, c)

\* POST /backup/restore/{name}: a snapshot is restored as it is.
RestoreSnapshot(m) ==
    /\ Stands(m) /\ snaps[m] # None
    /\ Overwrite(snaps[m])
    /\ UNCHANGED <<minute, snaps, order, enabled, count, bundle, faults>>

\* POST /export: copy2 of the file; a checkpoint meanwhile mixes old pages and new ones.
Export ==
    /\ bundle' \in {db.file} \cup (IF db.file # db.holds THEN {Torn} ELSE {})
    /\ UNCHANGED <<db, minute, snaps, order, enabled, count, run, faults>>

\* POST /import.
Import ==
    /\ bundle # None
    /\ Overwrite(bundle)
    /\ UNCHANGED <<minute, snaps, order, enabled, count, bundle, faults>>

-----------------------------------------------------------------------------
(* Everybody else *)

Commit ==
    /\ db.holds \in 0 .. Commits - 1
    /\ Becomes(db.holds + 1, db.file)
    /\ UNCHANGED <<minute, snaps, order, enabled, count, bundle, faults>>

Checkpoint ==
    /\ db.file # db.holds /\ db' = [db EXCEPT !.file = db.holds]
    /\ UNCHANGED <<minute, snaps, order, enabled, count, bundle, run, faults>>

Tick ==
    /\ minute < Minutes /\ minute' = minute + 1
    /\ UNCHANGED <<db, snaps, order, enabled, count, bundle, run, faults>>

Switch ==
    /\ enabled' = ~enabled
    /\ UNCHANGED <<db, minute, snaps, order, count, bundle, run, faults>>

\* A stop of the process ends the threads where they are.
Restart ==
    /\ \E r \in Runners : Busy(r)
    /\ Fault
    /\ run' = [r \in Runners |-> Idle]
    /\ UNCHANGED <<db, minute, snaps, order, enabled, count, bundle>>

RunStep(r) ==
    \/ Begin(r) \/ OpenCopy(r) \/ CopyDatabase(r) \/ Verify(r) \/ CopyRest(r)
    \/ ListDirectories(r) \/ RemoveOldest(r) \/ EndRun(r)

Next ==
    \/ \E r \in Runners : RunStep(r) \/ Fail(r)
    \/ \E m \in 1 .. Minutes : RestoreSnapshot(m)
    \/ Export \/ Import \/ Commit \/ Checkpoint \/ Tick \/ Switch \/ Restart

Fairness == WF_vars(RunStep(Timer))

Spec == Init /\ [][Next]_vars
FairSpec == Spec /\ Fairness

-----------------------------------------------------------------------------
(* Properties *)

\* The types; a database is in a directory only as long as the directory stands.
TypeOK ==
    /\ db \in [holds : Content, file : Content]
    /\ minute \in 1 .. Minutes /\ enabled \in BOOLEAN /\ count \in Counts
    /\ snaps \in [1 .. Minutes -> Content \cup {None}] /\ bundle \in Content \cup {None}
    /\ order \in Seq(1 .. Minutes) /\ \A i, j \in DOMAIN order : order[i] = order[j] => i = j
    /\ \A m \in 1 .. Minutes : snaps[m] # None => Stands(m)
    /\ run \in [Runners -> [at : {"idle", "copy", "copying", "verify", "rest", "list", "rotate"},
                            name : 1 .. Minutes, keep : Counts \cup {0}, list : Seq(1 .. Minutes),
                            seen : SUBSET Content, alone : BOOLEAN, all : Seq(1 .. Minutes),
                            stuck : SUBSET (1 .. Minutes)]]
    /\ faults \in 0 .. MaxFaults

\* A copy that is counted as usable holds one state the database was in during the
\* run, however much was written meanwhile and however old the file on disk is.
GoodIsWhole ==
    [][\A r \in Runners : run[r].at = "verify" /\ run'[r].at = "rest" /\ Verified(run[r].name)
            => snaps[run[r].name] \in run[r].seen]_vars

\* The last of the directories a run has listed, as many as it is to keep.
LastListed(r) ==
    LET all == run[r].all IN {all[i] : i \in {j \in DOMAIN all : j + run[r].keep > Len(all)}}

\* A run that had the directory to itself leaves the directories that were changed last,
\* as many as the setting says, the one it has made itself the newest of them, and of the
\* others only those that could not be removed.  Which copies are usable it does not ask.
NewestKept ==
    [][\A r \in Runners :
         run[r].at = "rotate" /\ run'[r].at = "idle" /\ run[r].alone /\ faults' = faults =>
            /\ {m \in 1 .. Minutes : Stands(m)} \ run[r].stuck = LastListed(r)
            /\ run[r].all # << >> /\ run[r].all[Len(run[r].all)] = run[r].name]_vars

\* Whatever fails, the scheduler comes back to the next run as long as backups are
\* enabled.
SchedulerGoesOn == <>[]enabled => []<>(run[Timer].at = "idle") /\ []<>(run[Timer].at = "copy")

\* What runs leave behind.
SnapshotsKept == []TypeOK /\ GoodIsWhole /\ NewestKept
=============================================================================
