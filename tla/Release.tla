------------------------------- MODULE Release -------------------------------
(***************************************************************************)
(* Self-update (self_update.py and its endpoints in api/system.py): checks *)
(* record the latest release, "Update now" and the hourly loop download it *)
(* and swap it in path by path, and the process exits so that systemd      *)
(* starts the new code.                                                    *)
(*                                                                         *)
(* A release is its number.  The paths of the swap are three: app (with    *)
(* migrations and docs), VERSION (with requirements.txt) and the frontend. *)
(* A tree that is half removed or half copied counts as Gone.              *)
(***************************************************************************)
EXTENDS Naturals, Sequences

CONSTANTS
    People,     \* requests of administrators and of their pages
    Loop,       \* run_forever
    Last,       \* the last release that is published
    MaxFaults,  \* bound on what goes wrong
    Down, Gone, None

ASSUME ReleaseAssumption ==
    /\ Last \in Nat \ {0} /\ MaxFaults \in Nat /\ Loop \notin People
    /\ {Down, Gone, None} \cap (1 .. Last) = {}

VARIABLES
    newest,     \* of GitHub
    saved,      \* the settings: the latest release, and whether it is available
    mode,
    disk,       \* the install directory
    running,    \* the release of the process
    task,       \* [Tasks -> what it does]
    faults,
    cut,        \* history: a swap has ended before its end
    tangled     \* history: two swaps have met, or one was of a release that was not newer

vars == <<newest, saved, mode, disk, running, task, faults, cut, tangled>>

Tasks == People \cup {Loop}
Releases == 1 .. Last

\* alone is history: nobody else has installed or recorded anything since the click.
Idle == [at |-> "idle", kind |-> "check", got |-> None, part |-> 1, alone |-> TRUE]

Init ==
    /\ newest = 1
    /\ saved = [latest |-> None, available |-> FALSE]
    /\ mode \in {"manual", "auto"}
    /\ disk = [p \in {"venv", "app", "VERSION", "dist"} |-> 1] /\ running = 1
    /\ task = [t \in Tasks |-> Idle] /\ faults = 0
    /\ cut = FALSE /\ tangled = FALSE

Parts_VersionFirst == <<"VERSION", "app", "dist">>

\* _UPDATED_PATHS, then the frontend.
Parts == <<"app", "VERSION", "dist">>

\* current_version: a VERSION that is missing counts as 0.0.0.
Current == IF disk["VERSION"] = Gone THEN 0 ELSE disk["VERSION"]

At(t, places) == running # Down /\ task[t].at \in places
Set(t, r) == task' = [task EXCEPT ![t] = r]

\* The same, and the others are no longer alone.
Disturb(t, r) == task' = [u \in Tasks |-> IF u = t THEN r
                                         ELSE [task[u] EXCEPT !.alone = @ /\ task[u].kind # "now"]]

Goto(t, place) == Set(t, [task[t] EXCEPT !.at = place])
End(t) == Set(t, Idle)

Fault == faults < MaxFaults /\ faults' = faults + 1

Swapping(t) == task[t].at \in {"remove", "copy"}

-----------------------------------------------------------------------------
(* Checks *)

Arrive_NoCheck(t) ==
    /\ At(t, {"idle"}) /\ t \in People
    /\ \E kind \in {"check", "banner", "now"} :
          Set(t, [Idle EXCEPT !.kind = kind, !.at = CASE kind = "banner" -> "look"
                                                      [] kind = "now" -> "decide"
                                                      [] OTHER -> "get"])
    /\ UNCHANGED <<newest, saved, mode, disk, running, faults, cut, tangled>>

\* GET /update-status?refresh and POST /update-check, GET /update-banner, POST /update-apply.
Arrive(t) ==
    /\ At(t, {"idle"}) /\ t \in People
    /\ \E kind \in {"check", "banner", "now"} :
          Set(t, [Idle EXCEPT !.kind = kind, !.at = IF kind = "banner" THEN "look" ELSE "get"])
    /\ UNCHANGED <<newest, saved, mode, disk, running, faults, cut, tangled>>

\* A release that is known and newer is shown without asking.
LookBanner(t) ==
    /\ At(t, {"look"})
    /\ IF saved.available /\ saved.latest # None /\ saved.latest > Current THEN End(t) ELSE Goto(t, "get")
    /\ UNCHANGED <<newest, saved, mode, disk, running, faults, cut, tangled>>

\* A conditional request: what is stored is what GitHub would answer again.
AskGitHub(t) ==
    /\ At(t, {"get"})
    /\ \/ Set(t, [task[t] EXCEPT !.at = "write", !.got = newest]) /\ UNCHANGED faults
       \/ Fault /\ Goto(t, "write")
    /\ UNCHANGED <<newest, saved, mode, disk, running, cut, tangled>>

WriteCheck_AnnouncedOnce(t) ==
    /\ At(t, {"write"})
    /\ LET got == task[t].got IN
         saved' = [saved EXCEPT !.latest = IF got = None THEN @ ELSE got,
                                !.available = got # None /\ got # saved.latest]
    /\ Disturb(t, IF task[t].kind = "now" THEN [task[t] EXCEPT !.at = "decide", !.got = None]
                                          ELSE Idle)
    /\ UNCHANGED <<newest, mode, disk, running, faults, cut, tangled>>

\* One transaction.  Without an answer the latest release stays, but is not available.
WriteCheck(t) ==
    /\ At(t, {"write"})
    /\ LET got == task[t].got IN
         saved' = [saved EXCEPT !.latest = IF got = None THEN @ ELSE got,
                                !.available = got # None /\ got > Current]
    /\ Disturb(t, IF task[t].kind = "now" THEN [task[t] EXCEPT !.at = "decide", !.got = None]
                                          ELSE Idle)
    /\ UNCHANGED <<newest, mode, disk, running, faults, cut, tangled>>

-----------------------------------------------------------------------------
(* Applying *)

\* apply_now: what the check has recorded is read back.
Decide(t) ==
    /\ At(t, {"decide"})
    /\ IF saved.available THEN Goto(t, "assets") ELSE End(t)
    /\ UNCHANGED <<newest, saved, mode, disk, running, faults, cut, tangled>>

\* maybe_apply, once an hour: a waking that falls into the window.
Wake ==
    /\ At(Loop, {"idle"})
    /\ mode = "auto" /\ saved.available
    /\ Set(Loop, [Idle EXCEPT !.kind = "auto", !.at = "assets"])
    /\ UNCHANGED <<newest, saved, mode, disk, running, faults, cut, tangled>>

\* The assets are those of the last check, whoever made it.
ReadAssets(t) ==
    /\ At(t, {"assets"}) /\ Set(t, [task[t] EXCEPT !.at = "download", !.got = saved.latest])
    /\ UNCHANGED <<newest, saved, mode, disk, running, faults, cut, tangled>>

\* The packages before any file; pip may give up halfway.
InstallRequirements(t) ==
    /\ At(t, {"packages"})
    /\ \/ disk' = [disk EXCEPT !["venv"] = task[t].got] /\ Disturb(t, [task[t] EXCEPT !.at = "remove"])
          /\ UNCHANGED faults
       \/ Fault /\ End(t) /\ UNCHANGED disk
       \/ Fault /\ disk' = [disk EXCEPT !["venv"] = Gone] /\ End(t)
    /\ tangled' = (tangled \/ (task'[t].at = "remove"
                                  /\ (task[t].got <= Current \/ \E u \in Tasks \ {t} : Swapping(u))))
    /\ UNCHANGED <<newest, saved, mode, running, cut>>

Part(t) == Parts[task[t].part]

Remove(t) ==
    /\ At(t, {"remove"})
    /\ disk' = [disk EXCEPT ![Part(t)] = Gone] /\ Disturb(t, [task[t] EXCEPT !.at = "copy"])
    /\ UNCHANGED <<newest, saved, mode, running, faults, cut, tangled>>

Copied_OneMore(t) ==
    Disturb(t, [task[t] EXCEPT !.at = IF task[t].part > Len(Parts) THEN "record" ELSE "remove", !.part = @ + 1])

Copied(t) == Disturb(t, [task[t] EXCEPT !.at = IF task[t].part = Len(Parts) THEN "record" ELSE "remove",
                                    !.part = IF task[t].part = Len(Parts) THEN @ ELSE @ + 1])

\* copytree refuses a directory that is there again, copy2 replaces a file.
Copy(t) ==
    /\ At(t, {"copy"})
    /\ \/ /\ Part(t) = "VERSION" \/ disk[Part(t)] = Gone
          /\ disk' = [disk EXCEPT ![Part(t)] = task[t].got]
          /\ Copied(t) /\ UNCHANGED cut
       \/ /\ Part(t) # "VERSION" /\ disk[Part(t)] # Gone
          /\ End(t) /\ cut' = TRUE /\ UNCHANGED disk
    /\ UNCHANGED <<newest, saved, mode, running, faults, tangled>>

Record(t) ==
    /\ At(t, {"record"})
    /\ saved' = [saved EXCEPT !.available = FALSE]
    /\ Disturb(t, [task[t] EXCEPT !.at = "exit"])
    /\ UNCHANGED <<newest, mode, disk, running, faults, cut, tangled>>

\* A download that fails, is too large or lacks a file; a full disk; a busy database.
\* The request ends, and so does what the loop does in this hour.
Fail(t) ==
    /\ At(t, {"look", "write", "decide", "assets", "download", "remove", "copy", "record"})
    /\ Fault /\ End(t)
    /\ cut' = (cut \/ task[t].at \in {"remove", "copy", "record"})
    /\ UNCHANGED <<newest, saved, mode, disk, running, tangled>>

Package_Unverified(t, complete) == TRUE

\* _verify_staged.
Package(t, complete) == complete

Download(t) ==
    /\ At(t, {"download"})
    /\ \E complete \in BOOLEAN :
          /\ IF complete THEN UNCHANGED faults ELSE Fault
          /\ IF Package(t, complete)
             THEN Set(t, [task[t] EXCEPT !.at = "packages", !.part = IF complete THEN 1 ELSE 2])
             ELSE End(t)
    /\ UNCHANGED <<newest, saved, mode, disk, running, cut, tangled>>

-----------------------------------------------------------------------------
(* The process *)

Stopped ==
    /\ running' = Down /\ task' = [t \in Tasks |-> Idle]
    /\ cut' = (cut \/ \E t \in Tasks : Swapping(t) \/ task[t].at = "record")

Exit_RequestOnly(t) ==
    /\ At(t, {"exit"})
    /\ IF t = Loop THEN End(t) /\ UNCHANGED <<running, cut>> ELSE Stopped
    /\ UNCHANGED <<newest, saved, mode, disk, faults, tangled>>

\* At once after the loop's update, two seconds after the answer of a request.
Exit(t) ==
    /\ At(t, {"exit"}) /\ Stopped
    /\ UNCHANGED <<newest, saved, mode, disk, faults, tangled>>

\* POST /restart, or the machine.
Kill ==
    /\ running # Down /\ Fault /\ Stopped
    /\ UNCHANGED <<newest, saved, mode, disk, tangled>>

\* systemd, and a database that was left as it is.
Start ==
    /\ running = Down /\ disk["app"] # Gone /\ disk["venv"] # Gone
    /\ running' = disk["app"]
    /\ UNCHANGED <<newest, saved, mode, disk, task, faults, cut, tangled>>

\* install.sh, by hand: the newest release, while the service is stopped.
Install ==
    /\ running = Down
    /\ disk' = [p \in DOMAIN disk |-> newest]
    /\ cut' = FALSE /\ tangled' = FALSE
    /\ UNCHANGED <<newest, saved, mode, running, task, faults>>

Publish ==
    /\ newest < Last /\ newest' = newest + 1
    /\ UNCHANGED <<saved, mode, disk, running, task, faults, cut, tangled>>

\* PUT /update-config.
SaveConfig ==
    /\ running # Down /\ mode' \in {"manual", "auto"} \ {mode}
    /\ UNCHANGED <<newest, saved, disk, running, task, faults, cut, tangled>>

TaskStep(t) ==
    \/ LookBanner(t) \/ AskGitHub(t) \/ WriteCheck(t) \/ Decide(t)
    \/ ReadAssets(t) \/ Download(t) \/ InstallRequirements(t)
    \/ Remove(t) \/ Copy(t) \/ Record(t) \/ Exit(t)

Next ==
    \/ \E t \in Tasks : Arrive(t) \/ TaskStep(t) \/ Fail(t)
    \/ Wake \/ Kill \/ Start \/ Install \/ Publish \/ SaveConfig

Spec == Init /\ [][Next]_vars

\* Tasks go on, systemd restarts, and the window is long enough for one of the hourly
\* wakings of the loop to fall into it.
FairSpec ==
    /\ Spec
    /\ \A t \in Tasks : WF_vars(TaskStep(t))
    /\ WF_vars(Start) /\ WF_vars(Wake)

-----------------------------------------------------------------------------
(* Properties *)

\* Every variable has its type.
TypeOK ==
    /\ newest \in Releases /\ running \in Releases \cup {Down}
    /\ saved \in [latest : Releases \cup {None}, available : BOOLEAN]
    /\ \A p \in DOMAIN disk : disk[p] \in Releases \cup {Gone}
    /\ \A t \in Tasks : task[t].part \in 1 .. Len(Parts) /\ task[t].got \in Releases \cup {None}
    /\ faults \in 0 .. MaxFaults

\* The install directory is of one release, unless a swap is under way, was cut short or
\* met another: whatever becomes of checks, downloads, packages and configuration.
OneRelease ==
    \/ cut \/ tangled \/ \E t \in Tasks : Swapping(t)
    \/ disk["app"] = disk["VERSION"] /\ disk["VERSION"] = disk["dist"]

\* VERSION is never ahead of the application, even where a swap was cut short: what has
\* not been installed is offered again.
VersionBehindApp ==
    tangled \/ disk["VERSION"] = Gone \/ disk["app"] = Gone \/ disk["VERSION"] <= disk["app"]

\* "Update now" replaces nothing by a release that is not newer, unless somebody else has
\* installed or recorded something since the click.
NowIsNewer ==
    [][\A t \in Tasks :
          task[t].at = "remove" /\ task'[t].at = "copy" /\ task[t].kind = "now" /\ task[t].part = 1 /\ task[t].alone =>
             task[t].got > Current]_vars

\* The process does not go on with code that has been replaced, unless the swap failed.
ReplacedIsRestarted ==
    [](running \notin {Down, disk["app"], disk["VERSION"]} => <>(running \in {Down, disk["app"]} \/ cut))

\* In automatic mode the newest release comes to be installed, if somebody keeps looking
\* for one and no swap is cut short.
AutoCatchesUp ==
    \A r \in Releases :
        <>[](mode = "auto" /\ newest = r) /\ []<><<\E t \in Tasks : WriteCheck(t)>>_vars
            => <>(cut \/ tangled \/ disk["VERSION"] = r)

\* What is on the disk is one release, or half of a swap that can be told as such.
DiskKept == TypeOK /\ OneRelease /\ VersionBehindApp

\* An update ends in a restart, and the newest release comes to be installed.
UpdatesArrive == ReplacedIsRestarted /\ AutoCatchesUp
=============================================================================
