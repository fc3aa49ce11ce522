----------------------------- MODULE Main_proofs -----------------------------
(***************************************************************************)
(* Three parts of main.py and what it starts, for any values of their      *)
(* constants.                                                              *)
(*                                                                         *)
(* Self-update: as long as no two swaps have met there is at most one, and *)
(* how far it has come says which of the paths are of the new release.     *)
(* Migrations: scripts are applied in order, and as long as none was cut   *)
(* short the schema is that of an undisturbed run, wherever the start-up   *)
(* is.  Managed mode: who has read the settings since the application was  *)
(* open knows it.                                                          *)
(***************************************************************************)
EXTENDS MCMain, WellFoundedInduction, TLAPS

Places == {"idle", "look", "get", "write", "decide", "assets", "download", "packages",
           "remove", "copy", "record", "exit"}

Task == [at : Places,
         kind : {"check", "banner", "now", "auto"},
         got : Releases \cup {None}, part : 1 .. 3, alone : BOOLEAN]

Paths == {"venv", "app", "VERSION", "dist"}

Types ==
    /\ newest \in Releases /\ running \in Releases \cup {Down}
    /\ saved \in [latest : Releases \cup {None}, available : BOOLEAN]
    /\ mode \in {"manual", "auto"}
    /\ disk \in [Paths -> Releases \cup {Gone}]
    /\ task \in [Tasks -> Task]
    /\ faults \in 0 .. MaxFaults
    /\ cut \in BOOLEAN /\ tangled \in BOOLEAN

\* What is announced has a number, and so has what is being installed.
Numbered ==
    /\ saved.available => saved.latest # None
    /\ \A t \in Tasks :
          /\ task[t].at = "assets" => saved.latest # None
          /\ task[t].at \in {"download", "packages", "remove", "copy"} => task[t].got # None
          /\ task[t].at = "packages" => task[t].part = 1

\* The paths the swap r has replaced, has removed, and has not come to.
Progress(r, d) ==
    /\ r.part = 1 => d["VERSION"] = Gone \/ d["VERSION"] < r.got
    /\ r.part \in {2, 3} => d["app"] = r.got
    /\ r.part = 3 => d["VERSION"] = r.got
    /\ r.at = "copy" => d[Parts[r.part]] = Gone

Whole(d) == d["app"] = d["VERSION"] /\ d["VERSION"] = d["dist"]

Swaps ==
    ~tangled =>
        /\ \A t, u \in Tasks : Swapping(t) /\ Swapping(u) => t = u
        /\ \A t \in Tasks : Swapping(t) => Progress(task[t], disk)
        /\ cut \/ (\E t \in Tasks : Swapping(t)) \/ Whole(disk)
        /\ VersionBehindApp

DiskInv == Types /\ Numbered /\ Swaps

\* Nothing goes on in a process that is down.
Asleep == running = Down => \A t \in Tasks : task[t].at = "idle"

-----------------------------------------------------------------------------
(* What a step does to the tasks *)

LEMMA Numbers ==
    /\ Releases \subseteq Nat /\ 1 \in Releases /\ Last \in Nat
    /\ Down \notin Releases /\ Gone \notin Releases /\ None \notin Releases
  BY ReleaseAssumption DEF Releases

LEMMA PathOf ==
    Len(Parts) = 3 /\ Parts[1] = "app" /\ Parts[2] = "VERSION" /\ Parts[3] = "dist"
  BY DEF Parts

LEMMA IdleIsTask == Idle \in Task
  BY DEF Idle, Task, Places

\* One task goes on as r; of the others at most the history changes.
LEMMA OneGoesOn ==
    ASSUME Types, NEW t \in Tasks, NEW r \in Task, Set(t, r) \/ Disturb(t, r)
    PROVE  /\ task' \in [Tasks -> Task] /\ task'[t] = r
           /\ \A u \in Tasks \ {t} : /\ task'[u].at = task[u].at /\ task'[u].got = task[u].got
                                     /\ task'[u].part = task[u].part
  <1>1. task \in [Tasks -> Task]
    BY DEF Types
  <1>2. CASE Set(t, r)
    BY <1>1, <1>2 DEF Set
  <1>3. CASE Disturb(t, r)
    <2>1. \A u \in Tasks : [task[u] EXCEPT !.alone = @ /\ task[u].kind # "now"] \in Task
      <3> SUFFICES ASSUME NEW u \in Tasks
                   PROVE  [task[u] EXCEPT !.alone = @ /\ task[u].kind # "now"] \in Task
        OBVIOUS
      <3>1. task[u] \in Task /\ task[u].alone \in BOOLEAN
        BY <1>1 DEF Task
      <3>2. (task[u].alone /\ task[u].kind # "now") \in BOOLEAN
        OBVIOUS
      <3> QED  BY <3>1, <3>2 DEF Task
    <2>2. task' \in [Tasks -> Task] /\ task'[t] = r
      BY <1>3, <2>1 DEF Disturb
    <2>3. \A u \in Tasks \ {t} : task'[u] = [task[u] EXCEPT !.alone = @ /\ task[u].kind # "now"]
      BY <1>3 DEF Disturb
    <2>4. ASSUME NEW u \in Tasks \ {t}
          PROVE  task'[u].at = task[u].at /\ task'[u].got = task[u].got /\ task'[u].part = task[u].part
      <3>1. task[u] \in Task
        BY <1>1
      <3> QED  BY <2>3, <3>1 DEF Task
    <2> QED  BY <2>2, <2>4
  <1> QED  BY <1>2, <1>3

\* Neither the install directory nor a swap is touched.
LEMMA Aside ==
    ASSUME DiskInv, NEW t \in Tasks, NEW r \in Task, Set(t, r) \/ Disturb(t, r),
           ~Swapping(t), r.at \notin {"remove", "copy"}, UNCHANGED <<disk, cut, tangled>>
    PROVE  Swaps'
  <1>1. task'[t] = r /\ \A u \in Tasks \ {t} : /\ task'[u].at = task[u].at /\ task'[u].got = task[u].got
                                               /\ task'[u].part = task[u].part
    BY OneGoesOn DEF DiskInv
  <1>2. \A u \in Tasks : Swapping(u)' <=> Swapping(u)
    BY <1>1 DEF Swapping
  <1>3. \A u \in Tasks : Swapping(u) => (Progress(task[u], disk)' <=> Progress(task[u], disk))
    BY <1>1 DEF Progress, Swapping
  <1> QED  BY <1>2, <1>3 DEF DiskInv, Swaps, VersionBehindApp

\* A step that keeps the settings keeps the numbers, if the task has its own.
LEMMA NumberedAside ==
    ASSUME DiskInv, NEW t \in Tasks, NEW r \in Task, Set(t, r) \/ Disturb(t, r),
           saved'.available => saved'.latest # None,
           saved.latest # None => saved'.latest # None,
           r.at = "assets" => saved'.latest # None,
           r.at \in {"download", "packages", "remove", "copy"} => r.got # None,
           r.at = "packages" => r.part = 1
    PROVE  Numbered'
  <1>1. task'[t] = r /\ \A u \in Tasks \ {t} : /\ task'[u].at = task[u].at /\ task'[u].got = task[u].got
                                               /\ task'[u].part = task[u].part
    BY OneGoesOn DEF DiskInv
  <1> QED  BY <1>1 DEF DiskInv, Numbered

-----------------------------------------------------------------------------
(* Initial states *)

LEMMA InitDisk == Init => DiskInv
  <1> SUFFICES ASSUME Init PROVE DiskInv
    OBVIOUS
  <1>1. newest \in Releases /\ running \in Releases \cup {Down} /\ disk \in [Paths -> Releases \cup {Gone}]
    BY Numbers DEF Init, Paths
  <1>2. saved \in [latest : Releases \cup {None}, available : BOOLEAN] /\ mode \in {"manual", "auto"}
    BY DEF Init
  <1>3. task \in [Tasks -> Task]
    BY IdleIsTask DEF Init
  <1>4. faults \in 0 .. MaxFaults
    BY ReleaseAssumption DEF Init
  <1>5. Types
    BY <1>1, <1>2, <1>3, <1>4 DEF Init, Types
  <1>6. \A t \in Tasks : task[t].at = "idle"
    BY DEF Init, Idle
  <1>7. Numbered
    BY <1>6 DEF Init, Numbered
  <1>8. Swaps
    BY <1>6 DEF Init, Swaps, Swapping, Whole, VersionBehindApp
  <1> QED  BY <1>5, <1>7, <1>8 DEF DiskInv

-----------------------------------------------------------------------------
(* Checks, and what comes before the swap *)

\* The requests that touch no file: Arrive to Download, Record, and Fail before a swap.
LEMMA Prepares ==
    ASSUME DiskInv, NEW t \in Tasks, NEW r \in Task, Set(t, r) \/ Disturb(t, r),
           ~Swapping(t), r.at \notin {"remove", "copy"},
           UNCHANGED <<newest, mode, disk, running, cut, tangled>>,
           saved' \in [latest : Releases \cup {None}, available : BOOLEAN],
           faults' \in 0 .. MaxFaults,
           saved'.available => saved'.latest # None,
           saved.latest # None => saved'.latest # None,
           r.at = "assets" => saved'.latest # None,
           r.at \in {"download", "packages"} => r.got # None,
           r.at = "packages" => r.part = 1
    PROVE  DiskInv'
  <1>1. Swaps'
    BY Aside
  <1>2. Numbered'
    BY NumberedAside
  <1>3. task' \in [Tasks -> Task]
    BY OneGoesOn DEF DiskInv
  <1>4. Types'
    BY <1>3 DEF DiskInv, Types
  <1> QED  BY <1>1, <1>2, <1>4 DEF DiskInv

LEMMA FaultCounted == ASSUME Types, Fault PROVE faults' \in 0 .. MaxFaults
  BY ReleaseAssumption DEF Types, Fault

LEMMA CheckSteps ==
    ASSUME DiskInv, NEW t \in Tasks,
           Arrive(t) \/ LookBanner(t) \/ AskGitHub(t) \/ WriteCheck(t) \/ Decide(t) \/ ReadAssets(t) \/ Download(t)
    PROVE  DiskInv'
  <1>0. task[t] \in Task /\ Types
    BY DEF DiskInv, Types
  <1>1. CASE Arrive(t)
    <2>1. PICK kind \in {"check", "banner", "now"} :
             Set(t, [Idle EXCEPT !.kind = kind, !.at = IF kind = "banner" THEN "look" ELSE "get"])
      BY <1>1 DEF Arrive
    <2> DEFINE r == [Idle EXCEPT !.kind = kind, !.at = IF kind = "banner" THEN "look" ELSE "get"]
    <2>2. r \in Task /\ r.at \in {"look", "get"}
      BY IdleIsTask DEF Task, Places
    <2>3. ~Swapping(t) /\ UNCHANGED <<newest, saved, mode, disk, running, faults, cut, tangled>>
      BY <1>1 DEF Arrive, At, Swapping
    <2> HIDE DEF r
    <2> QED  BY <1>0, <2>1, <2>2, <2>3, Prepares DEF Types, DiskInv, Numbered, r
  <1>2. CASE LookBanner(t)
    <2>1. PICK r \in {Idle, [task[t] EXCEPT !.at = "get"]} : Set(t, r)
      BY <1>2 DEF LookBanner, End, Goto
    <2>2. r \in Task /\ r.at \in {"idle", "get"}
      BY <1>0, IdleIsTask DEF Idle, Task, Places
    <2>3. ~Swapping(t) /\ UNCHANGED <<newest, saved, mode, disk, running, faults, cut, tangled>>
      BY <1>2 DEF LookBanner, At, Swapping
    <2> QED  BY <1>0, <2>1, <2>2, <2>3, Prepares DEF Types, DiskInv, Numbered
  <1>3. CASE AskGitHub(t)
    <2>1. PICK r \in {[task[t] EXCEPT !.at = "write", !.got = newest], [task[t] EXCEPT !.at = "write"]} : Set(t, r)
      BY <1>3 DEF AskGitHub, Goto
    <2>2. r \in Task /\ r.at = "write"
      BY <1>0 DEF Types, Task, Places
    <2>3. /\ ~Swapping(t) /\ UNCHANGED <<newest, saved, mode, disk, running, cut, tangled>>
          /\ faults' \in 0 .. MaxFaults
      BY <1>0, <1>3, FaultCounted DEF AskGitHub, At, Swapping, Types
    <2> QED  BY <1>0, <2>1, <2>2, <2>3, Prepares DEF Types, DiskInv, Numbered
  <1>4. CASE WriteCheck(t)
    <2>1. PICK r \in {Idle, [task[t] EXCEPT !.at = "decide", !.got = None]} : Disturb(t, r)
      BY <1>4 DEF WriteCheck
    <2>2. r \in Task /\ r.at \in {"idle", "decide"}
      BY <1>0, IdleIsTask DEF Idle, Task, Places
    <2>3. /\ ~Swapping(t) /\ UNCHANGED <<newest, mode, disk, running, faults, cut, tangled>>
      BY <1>4 DEF WriteCheck, At, Swapping
    <2>4. /\ saved' \in [latest : Releases \cup {None}, available : BOOLEAN]
          /\ saved'.available => saved'.latest # None
          /\ saved.latest # None => saved'.latest # None
      <3>1. task[t].got \in Releases \cup {None} /\ saved \in [latest : Releases \cup {None}, available : BOOLEAN]
        BY <1>0 DEF Types, Task, Places
      <3> QED  BY <1>4, <3>1 DEF WriteCheck
    <2> QED  BY <1>0, <2>1, <2>2, <2>3, <2>4, Prepares DEF Types
  <1>5. CASE Decide(t)
    <2>1. PICK r \in {Idle, [task[t] EXCEPT !.at = "assets"]} : Set(t, r) /\ (r.at = "assets" => saved.available)
      BY <1>5 DEF Decide, End, Goto, Idle
    <2>2. r \in Task /\ r.at \in {"idle", "assets"}
      BY <1>0, IdleIsTask DEF Idle, Task, Places
    <2>3. ~Swapping(t) /\ UNCHANGED <<newest, saved, mode, disk, running, faults, cut, tangled>>
      BY <1>5 DEF Decide, At, Swapping
    <2> QED  BY <1>0, <2>1, <2>2, <2>3, Prepares DEF Types, DiskInv, Numbered
  <1>6. CASE ReadAssets(t)
    <2> DEFINE r == [task[t] EXCEPT !.at = "download", !.got = saved.latest]
    <2>1. Set(t, r) /\ task[t].at = "assets"
      BY <1>6 DEF ReadAssets, At
    <2>2. r \in Task /\ r.at = "download" /\ r.got = saved.latest
      BY <1>0 DEF Types, Task, Places
    <2>3. ~Swapping(t) /\ UNCHANGED <<newest, saved, mode, disk, running, faults, cut, tangled>>
      BY <1>6 DEF ReadAssets, At, Swapping
    <2>4. saved.latest # None
      BY <2>1 DEF DiskInv, Numbered
    <2> HIDE DEF r
    <2> QED  BY <1>0, <2>1, <2>2, <2>3, <2>4, Prepares DEF Types, DiskInv, Numbered
  <1>7. CASE Download(t)
    <2>1. PICK r \in {Idle, [task[t] EXCEPT !.at = "packages", !.part = 1]} : Set(t, r)
      BY <1>7 DEF Download, Package, End
    <2>2. /\ r \in Task /\ r.at \in {"idle", "packages"}
          /\ r.at = "packages" => r.part = 1 /\ r.got = task[t].got
      BY <1>0, IdleIsTask DEF Idle, Task, Places
    <2>3. /\ ~Swapping(t) /\ UNCHANGED <<newest, saved, mode, disk, running, cut, tangled>>
          /\ faults' \in 0 .. MaxFaults /\ task[t].at = "download"
      BY <1>0, <1>7, FaultCounted DEF Download, At, Swapping, Types
    <2>4. task[t].got # None
      BY <2>3 DEF DiskInv, Numbered
    <2> QED  BY <1>0, <2>1, <2>2, <2>3, <2>4, Prepares DEF Types, DiskInv, Numbered
  <1> QED  BY <1>1, <1>2, <1>3, <1>4, <1>5, <1>6, <1>7

-----------------------------------------------------------------------------
(* The swap *)

LEMMA SwapStarts == ASSUME DiskInv, NEW t \in Tasks, InstallRequirements(t) PROVE DiskInv'
  <1>0. task[t] \in Task /\ Types /\ task[t].at = "packages" /\ task[t].got # None /\ task[t].part = 1
    BY DEF DiskInv, Types, Numbered, InstallRequirements, At
  <1> DEFINE r == [task[t] EXCEPT !.at = "remove"]
  <1>1. PICK s \in {Idle, r} : Set(t, s) \/ Disturb(t, s)
    BY DEF InstallRequirements, End
  <1>2. s \in Task /\ s.at \in {"idle", "remove"} /\ (s.at = "remove" => s.part = 1 /\ s.got = task[t].got)
    BY <1>0, IdleIsTask DEF Idle, Task, Places
  <1>3. /\ task' \in [Tasks -> Task] /\ task'[t] = s
        /\ \A u \in Tasks \ {t} : /\ task'[u].at = task[u].at /\ task'[u].got = task[u].got
                                  /\ task'[u].part = task[u].part
    BY <1>0, <1>1, <1>2, OneGoesOn
  <1>4. /\ disk' \in [Paths -> Releases \cup {Gone}]
        /\ \A p \in Paths \ {"venv"} : disk'[p] = disk[p]
    <2>1. \/ disk' = disk
          \/ \E g \in Releases \cup {Gone} : disk' = [disk EXCEPT !["venv"] = g]
      BY <1>0 DEF InstallRequirements, Task
    <2> QED  BY <1>0, <2>1 DEF Types, Paths
  <1>5. faults' \in 0 .. MaxFaults
    BY <1>0, FaultCounted DEF InstallRequirements, Types
  <1>6. Types'
    BY <1>0, <1>3, <1>4, <1>5 DEF InstallRequirements, Types
  <1>7. Numbered'
    BY <1>0, <1>1, <1>2, NumberedAside DEF InstallRequirements, DiskInv, Numbered
  <1>8. Swaps'
    <2> SUFFICES ASSUME ~tangled' PROVE Swaps'
      BY DEF Swaps
    <2>1. ~tangled /\ (s.at = "remove" => ~(task[t].got <= Current) /\ \A u \in Tasks \ {t} : ~Swapping(u))
      BY <1>3 DEF InstallRequirements
    <2>2. disk'["app"] = disk["app"] /\ disk'["VERSION"] = disk["VERSION"] /\ disk'["dist"] = disk["dist"]
      BY <1>4 DEF Paths
    <2>3. \A u \in Tasks \ {t} : Swapping(u)' <=> Swapping(u)
      BY <1>3 DEF Swapping
    <2>4. \A u \in Tasks \ {t} : Swapping(u) => Progress(task[u], disk)'
      <3> SUFFICES ASSUME NEW u \in Tasks \ {t}, Swapping(u) PROVE Progress(task[u], disk)'
        OBVIOUS
      <3>1. Progress(task[u], disk) /\ task[u].part \in 1 .. 3
        BY <2>1, <1>0 DEF DiskInv, Swaps, Types, Task
      <3> QED  BY <1>3, <2>2, <3>1, PathOf DEF Progress
    <2>5. ~Swapping(t)
      BY <1>0 DEF Swapping
    <2>6. s.at = "remove" => Progress(s, disk')
      <3> SUFFICES ASSUME s.at = "remove" PROVE disk["VERSION"] = Gone \/ disk["VERSION"] < s.got
        BY <1>2, <2>2 DEF Progress
      <3>1. disk["VERSION"] \in Releases \cup {Gone} /\ s.got \in Releases
        BY <1>0, <1>2 DEF Types, Paths, Task
      <3>2. ~(s.got <= Current)
        BY <1>2, <2>1
      <3> QED  BY <3>1, <3>2, Numbers DEF Current
    <2>7. cut' = cut
      BY DEF InstallRequirements
    <2>8. VersionBehindApp'
      BY <2>1, <2>2 DEF DiskInv, Swaps, VersionBehindApp
    <2>9. \A u, v \in Tasks : Swapping(u)' /\ Swapping(v)' => u = v
      BY <1>2, <1>3, <2>1, <2>3 DEF DiskInv, Swaps, Swapping
    <2>10. \A u \in Tasks : Swapping(u)' => Progress(task[u], disk)'
      BY <1>2, <1>3, <2>3, <2>4, <2>6 DEF Swapping
    <2>11. cut' \/ (\E u \in Tasks : Swapping(u)') \/ Whole(disk)'
      BY <2>1, <2>2, <2>3, <2>5, <2>7 DEF DiskInv, Swaps, Whole
    <2> QED  BY <2>8, <2>9, <2>10, <2>11 DEF Swaps
  <1> QED  BY <1>6, <1>7, <1>8 DEF DiskInv

\* A step of the swap t: its next state is r, and one path may change.
LEMMA SwapGoesOn ==
    ASSUME DiskInv, NEW t \in Tasks, Swapping(t), NEW r \in Task, Set(t, r) \/ Disturb(t, r),
           r.at \in {"remove", "copy"} => r.got # None /\ (~tangled => Progress(r, disk')),
           r.at \notin {"assets", "download", "packages"},
           saved' = saved, UNCHANGED <<newest, mode, running, tangled>>, cut' \in BOOLEAN, cut => cut',
           disk' \in [Paths -> Releases \cup {Gone}], faults' \in 0 .. MaxFaults,
           ~tangled => (VersionBehindApp /\ ~tangled)',
           r.at \in {"remove", "copy"} \/ cut' \/ (tangled \/ Whole(disk'))
    PROVE  DiskInv'
  <1>1. /\ task' \in [Tasks -> Task] /\ task'[t] = r
        /\ \A u \in Tasks \ {t} : /\ task'[u].at = task[u].at /\ task'[u].got = task[u].got
                                  /\ task'[u].part = task[u].part
    BY OneGoesOn DEF DiskInv
  <1>2. Types'
    BY <1>1 DEF DiskInv, Types
  <1>3. Numbered'
    BY NumberedAside DEF DiskInv, Numbered
  <1>4. Swaps'
    <2> SUFFICES ASSUME ~tangled PROVE Swaps'
      BY DEF Swaps
    <2>1. \A u \in Tasks \ {t} : ~Swapping(u)
      BY DEF DiskInv, Swaps
    <2>2. \A u \in Tasks \ {t} : ~Swapping(u)'
      BY <1>1, <2>1 DEF Swapping
    <2>3. Swapping(t)' <=> r.at \in {"remove", "copy"}
      BY <1>1 DEF Swapping
    <2>4. Swapping(t)' => Progress(task[t], disk)'
      BY <1>1, <2>3 DEF Progress
    <2> QED  BY <2>2, <2>3, <2>4 DEF Swaps, Whole
  <1> QED  BY <1>2, <1>3, <1>4 DEF DiskInv

LEMMA SwapSteps == ASSUME DiskInv, NEW t \in Tasks, Remove(t) \/ Copy(t) PROVE DiskInv'
  <1>0. /\ task[t] \in Task /\ Types /\ Swapping(t) /\ task[t].got \in Releases /\ task[t].part \in {1, 2, 3}
        /\ Len(Parts) = 3
    BY PathOf DEF DiskInv, Types, Numbered, Remove, Copy, At, Swapping, Task
  <1>1. ~tangled => Progress(task[t], disk) /\ VersionBehindApp
    BY <1>0 DEF DiskInv, Swaps
  <1>2. /\ \A p \in Paths : disk[p] \in Releases \cup {Gone}
        /\ disk \in [Paths -> Releases \cup {Gone}] /\ Part(t) \in Paths
    BY <1>0, PathOf DEF Types, Part, Paths
  <1>3. CASE Remove(t)
    <2> DEFINE r == [task[t] EXCEPT !.at = "copy"]
    <2>1. /\ Disturb(t, r) /\ disk' = [disk EXCEPT ![Part(t)] = Gone]
          /\ UNCHANGED <<newest, saved, mode, running, faults, cut, tangled>>
      BY <1>3 DEF Remove
    <2>2. r \in Task /\ r.at = "copy" /\ r.got = task[t].got /\ r.part = task[t].part
      BY <1>0 DEF Task, Places
    <2>3. disk' \in [Paths -> Releases \cup {Gone}]
      BY <1>2, <2>1
    <2>4. ~tangled => Progress(r, disk')
      <3>1. CASE task[t].part = 1
        BY <1>1, <1>2, <2>1, <2>2, <3>1, PathOf DEF Progress, Part, Paths
      <3>2. CASE task[t].part = 2
        BY <1>1, <1>2, <2>1, <2>2, <3>2, PathOf DEF Progress, Part, Paths
      <3>3. CASE task[t].part = 3
        BY <1>1, <1>2, <2>1, <2>2, <3>3, PathOf DEF Progress, Part, Paths
      <3> QED  BY <1>0, <3>1, <3>2, <3>3
    <2>5. ~tangled => (VersionBehindApp /\ ~tangled)'
      <3>1. CASE task[t].part = 1
        BY <1>2, <2>1, <3>1, PathOf DEF Part, Paths, VersionBehindApp
      <3>2. CASE task[t].part = 2
        BY <1>2, <2>1, <3>2, PathOf DEF Part, Paths, VersionBehindApp
      <3>3. CASE task[t].part = 3
        BY <1>1, <1>2, <2>1, <3>3, PathOf DEF Part, Paths, VersionBehindApp
      <3> QED  BY <1>0, <3>1, <3>2, <3>3
    <2>6. cut' \in BOOLEAN /\ faults' \in 0 .. MaxFaults /\ r.got # None
      BY <1>0, <2>1, <2>2, Numbers DEF Types
    <2> HIDE DEF r
    <2> QED  BY <1>0, <2>1, <2>2, <2>3, <2>4, <2>5, <2>6, SwapGoesOn
  <1>4. CASE Copy(t) /\ disk' # disk
    <2> DEFINE r == [task[t] EXCEPT !.at = IF task[t].part = Len(Parts) THEN "record" ELSE "remove",
                                    !.part = IF task[t].part = Len(Parts) THEN @ ELSE @ + 1]
    <2>1. /\ Disturb(t, r) /\ disk' = [disk EXCEPT ![Part(t)] = task[t].got]
          /\ UNCHANGED <<newest, saved, mode, running, faults, cut, tangled>>
      BY <1>4 DEF Copy, Copied
    <2>2. r \in Task /\ r.got = task[t].got
          /\ r.at = (IF task[t].part = 3 THEN "record" ELSE "remove")
          /\ r.part = (IF task[t].part = 3 THEN 3 ELSE task[t].part + 1)
      <3>1. CASE task[t].part = 3
        BY <1>0, <3>1 DEF Task, Places
      <3>2. CASE task[t].part # 3
        <4>1. task[t].part # Len(Parts) /\ task[t].part + 1 \in 1 .. 3
          BY <1>0, <3>2
        <4> QED  BY <1>0, <3>2, <4>1 DEF Task, Places
      <3> QED  BY <3>1, <3>2
    <2>3. disk' \in [Paths -> Releases \cup {Gone}]
      BY <1>0, <1>2, <2>1
    <2>4. ~tangled => /\ (r.at # "record" => Progress(r, disk'))
                      /\ (r.at = "record" => Whole(disk'))
                      /\ (VersionBehindApp /\ ~tangled)'
      <3>1. CASE task[t].part = 1
        BY <1>0, <1>1, <1>2, <2>1, <2>2, <3>1, PathOf, Numbers DEF Progress, Part, Paths, VersionBehindApp
      <3>2. CASE task[t].part = 2
        BY <1>0, <1>1, <1>2, <2>1, <2>2, <3>2, PathOf, Numbers DEF Progress, Part, Paths, VersionBehindApp
      <3>3. CASE task[t].part = 3
        BY <1>0, <1>1, <1>2, <2>1, <2>2, <3>3, PathOf, Numbers DEF Progress, Part, Paths, VersionBehindApp, Whole
      <3> QED  BY <1>0, <3>1, <3>2, <3>3
    <2>5. cut' \in BOOLEAN /\ faults' \in 0 .. MaxFaults /\ r.got # None
      BY <1>0, <2>1, <2>2, Numbers DEF Types
    <2>6. r.at \in {"remove", "record"}
      BY <2>2
    <2> HIDE DEF r
    <2> QED  BY <1>0, <2>1, <2>2, <2>3, <2>4, <2>5, <2>6, SwapGoesOn
  <1>5. CASE Copy(t) /\ disk' = disk
    <2>1. CASE cut' = TRUE /\ End(t)
      <3>1. UNCHANGED <<newest, saved, mode, running, faults, tangled>>
        BY <1>5 DEF Copy
      <3> QED  BY <1>0, <1>1, <1>2, <1>5, <2>1, <3>1, IdleIsTask, SwapGoesOn DEF End, Idle, Types, VersionBehindApp
    <2>2. CASE ~(cut' = TRUE /\ End(t))
      <3>1. /\ disk' = [disk EXCEPT ![Part(t)] = task[t].got] /\ tangled' = tangled
            /\ (Part(t) = "VERSION" \/ disk[Part(t)] = Gone)
        BY <1>5, <2>2 DEF Copy
      <3>2. disk[Part(t)] = task[t].got
        BY <1>2, <1>5, <3>1
      <3>3. tangled
        BY <1>0, <1>1, <1>5, <3>2, Numbers DEF Progress, Part, Copy, At
      <3>4. PICK r \in Task : Disturb(t, r) /\ r.at \in {"remove", "record"} /\ r.got = task[t].got
        <4> DEFINE s == [task[t] EXCEPT !.at = IF task[t].part = Len(Parts) THEN "record" ELSE "remove",
                                    !.part = IF task[t].part = Len(Parts) THEN @ ELSE @ + 1]
        <4>1. Disturb(t, s)
          BY <1>5, <2>2 DEF Copy, Copied
        <4>2. s \in Task /\ s.at \in {"remove", "record"} /\ s.got = task[t].got
          <5>1. CASE task[t].part = 3
            BY <1>0, <5>1 DEF Task, Places
          <5>2. CASE task[t].part # 3
            <6>1. task[t].part # Len(Parts) /\ task[t].part + 1 \in 1 .. 3
              BY <1>0, <5>2
            <6> QED  BY <1>0, <5>2, <6>1 DEF Task, Places
          <5> QED  BY <5>1, <5>2
        <4> QED  BY <4>1, <4>2
      <3>5. UNCHANGED <<newest, saved, mode, running, faults, tangled, cut>>
        BY <1>5, <2>2 DEF Copy
      <3>6. r.got # None
        BY <1>0, <3>4, Numbers
      <3> QED  BY <1>0, <1>2, <1>5, <3>3, <3>4, <3>5, <3>6, SwapGoesOn DEF Types
    <2> QED  BY <2>1, <2>2
  <1> QED  BY <1>3, <1>4, <1>5

LEMMA SwapEnds == ASSUME DiskInv, NEW t \in Tasks, Record(t) \/ Fail(t) PROVE DiskInv'
  <1>0. task[t] \in Task /\ Types
    BY DEF DiskInv, Types
  <1>1. CASE Record(t)
    <2> DEFINE r == [task[t] EXCEPT !.at = "exit"]
    <2>1. /\ Disturb(t, r) /\ task[t].at = "record" /\ saved' = [saved EXCEPT !.available = FALSE]
          /\ UNCHANGED <<newest, mode, disk, running, faults, cut, tangled>>
      BY <1>1 DEF Record, At
    <2>2. r \in Task /\ r.at = "exit"
      BY <1>0 DEF Task, Places
    <2>3. /\ saved' \in [latest : Releases \cup {None}, available : BOOLEAN]
          /\ saved'.available = FALSE /\ saved'.latest = saved.latest
      BY <1>0, <2>1 DEF Types
    <2>4. ~Swapping(t)
      BY <2>1 DEF Swapping
    <2> HIDE DEF r
    <2> QED  BY <1>0, <2>1, <2>2, <2>3, <2>4, Prepares DEF Types
  <1>2. CASE Fail(t)
    <2>1. /\ Set(t, Idle) /\ Idle \in Task /\ Idle.at = "idle" /\ faults' \in 0 .. MaxFaults
          /\ UNCHANGED <<newest, saved, mode, disk, running, tangled>>
      BY <1>0, <1>2, IdleIsTask, FaultCounted DEF Fail, End, Idle
    <2>2. CASE Swapping(t)
      <3>1. cut' = TRUE
        BY <1>2, <2>2 DEF Fail, Swapping
      <3>2. ~tangled => (VersionBehindApp /\ ~tangled)'
        BY <2>1 DEF DiskInv, Swaps, VersionBehindApp
      <3> QED  BY <1>0, <2>1, <2>2, <3>1, <3>2, SwapGoesOn DEF Types
    <2>3. CASE ~Swapping(t) /\ cut' = cut
      BY <1>0, <2>1, <2>3, Prepares DEF Types, DiskInv, Numbered
    <2>4. CASE ~Swapping(t) /\ cut' # cut
      <3>1. cut' = TRUE
        BY <1>0, <1>2, <2>4 DEF Fail, Types
      <3>2. /\ task' \in [Tasks -> Task] /\ task'[t] = Idle
            /\ \A u \in Tasks \ {t} : /\ task'[u].at = task[u].at /\ task'[u].got = task[u].got
                                      /\ task'[u].part = task[u].part
        BY <1>0, <2>1, OneGoesOn
      <3>3. Numbered'
        BY <2>1, NumberedAside DEF DiskInv, Numbered
      <3>4. \A u \in Tasks : /\ Swapping(u)' <=> Swapping(u)
                             /\ Swapping(u) => (Progress(task[u], disk)' <=> Progress(task[u], disk))
        BY <2>1, <2>4, <3>2 DEF Swapping, Progress
      <3>5. Swaps'
        BY <2>1, <3>1, <3>4 DEF DiskInv, Swaps, VersionBehindApp
      <3>6. Types'
        BY <1>0, <2>1, <3>1, <3>2 DEF Types
      <3> QED  BY <3>3, <3>5, <3>6 DEF DiskInv
    <2> QED  BY <2>2, <2>3, <2>4
  <1> QED  BY <1>1, <1>2

-----------------------------------------------------------------------------
(* The process, and the rest *)

LEMMA ProcessEnds ==
    ASSUME DiskInv, (\E t \in Tasks : Exit(t)) \/ Kill
    PROVE  DiskInv'
  <1>0. Types
    BY DEF DiskInv
  <1>1. Stopped /\ UNCHANGED <<newest, saved, mode, disk, tangled>> /\ faults' \in 0 .. MaxFaults
    BY <1>0, FaultCounted DEF Exit, Kill, Types
  <1>2. task' \in [Tasks -> Task] /\ \A t \in Tasks : task'[t].at = "idle"
    BY <1>1, IdleIsTask DEF Stopped, Idle
  <1>3. Types'
    BY <1>0, <1>1, <1>2 DEF Types, Stopped
  <1>4. Numbered'
    BY <1>1, <1>2 DEF DiskInv, Numbered
  <1>5. Swaps'
    BY <1>1, <1>2 DEF DiskInv, Swaps, Stopped, Swapping, VersionBehindApp, Whole
  <1> QED  BY <1>3, <1>4, <1>5 DEF DiskInv

LEMMA OtherSteps ==
    ASSUME DiskInv, Asleep, Wake \/ Start \/ Install \/ Publish \/ SaveConfig \/ UNCHANGED vars
    PROVE  DiskInv'
  <1>0. Types
    BY DEF DiskInv
  <1>1. CASE Wake
    <2> DEFINE r == [Idle EXCEPT !.kind = "auto", !.at = "assets"]
    <2>1. /\ Loop \in Tasks /\ Set(Loop, r) /\ saved.available /\ task[Loop].at = "idle"
          /\ UNCHANGED <<newest, saved, mode, disk, running, faults, cut, tangled>>
      BY <1>1 DEF Wake, At, Tasks
    <2>2. r \in Task /\ r.at = "assets"
      BY IdleIsTask DEF Task, Places
    <2>3. ~Swapping(Loop)
      BY <2>1 DEF Swapping
    <2> HIDE DEF r
    <2> QED  BY <1>0, <2>1, <2>2, <2>3, Prepares DEF Types, DiskInv, Numbered
  <1>2. CASE Start
    <2>1. disk["app"] \in Releases
      BY <1>0, <1>2 DEF Types, Start, Paths
    <2> QED  BY <1>2, <2>1 DEF DiskInv, Types, Numbered, Swaps, Swapping, VersionBehindApp, Start
  <1>3. CASE Install
    <2>1. disk' = [p \in Paths |-> newest] /\ UNCHANGED <<newest, saved, mode, running, task, faults>>
          /\ cut' = FALSE /\ tangled' = FALSE /\ running = Down
      BY <1>0, <1>3 DEF Install, Types
    <2>2. Types'
      BY <1>0, <2>1 DEF Types
    <2>3. Numbered'
      BY <2>1 DEF DiskInv, Numbered
    <2>4. \A t \in Tasks : ~Swapping(t)
      BY <2>1 DEF Asleep, Swapping
    <2>5. Swaps'
      BY <2>1, <2>4, <1>0, Numbers DEF Swaps, Swapping, Whole, VersionBehindApp, Paths, Types
    <2> QED  BY <2>2, <2>3, <2>5 DEF DiskInv
  <1>4. CASE Publish
    <2>1. newest' \in Releases
      BY <1>0, <1>4, Numbers DEF Publish, Types, Releases
    <2> QED  BY <1>4, <2>1 DEF DiskInv, Types, Numbered, Swaps, Swapping, VersionBehindApp, Publish
  <1>5. CASE SaveConfig
    BY <1>5 DEF DiskInv, Types, Numbered, Swaps, Swapping, VersionBehindApp, SaveConfig
  <1>6. CASE UNCHANGED vars
    BY <1>6 DEF DiskInv, Types, Numbered, Swaps, Swapping, VersionBehindApp, vars
  <1> QED  BY <1>1, <1>2, <1>3, <1>4, <1>5, <1>6

LEMMA AsleepKept == ASSUME Asleep, [Next]_vars PROVE Asleep'
  <1>1. CASE \E t \in Tasks : Arrive(t) \/ (TaskStep(t) /\ ~Exit(t)) \/ Fail(t)
    <2>1. running # Down /\ running' = running
      BY <1>1 DEF TaskStep, Arrive, LookBanner, AskGitHub, WriteCheck, Decide, ReadAssets, Download,
                  InstallRequirements, Remove, Copy, Record, Fail, At
    <2> QED  BY <2>1 DEF Asleep
  <1>2. CASE (\E t \in Tasks : Exit(t)) \/ Kill
    BY <1>2 DEF Exit, Kill, Stopped, Idle, Asleep
  <1>3. CASE Wake \/ SaveConfig
    BY <1>3 DEF Wake, SaveConfig, At, Asleep
  <1>4. CASE Start \/ Install \/ Publish \/ UNCHANGED vars
    BY <1>4 DEF Start, Install, Publish, vars, Asleep
  <1> QED  BY <1>1, <1>2, <1>3, <1>4 DEF Next

LEMMA DiskStep == ASSUME DiskInv, Asleep, [Next]_vars PROVE DiskInv' /\ Asleep'
  <1>1. Asleep'
    BY AsleepKept
  <1>2. DiskInv'
    BY CheckSteps, SwapStarts, SwapSteps, SwapEnds, ProcessEnds, OtherSteps DEF Next, TaskStep
  <1> QED  BY <1>1, <1>2

THEOREM DiskInductive == Spec => [](DiskInv /\ Asleep)
  <1>1. Init => DiskInv /\ Asleep
    BY InitDisk DEF Init, Idle, Asleep
  <1>2. DiskInv /\ Asleep /\ [Next]_vars => (DiskInv /\ Asleep)'
    BY DiskStep
  <1> QED  BY <1>1, <1>2, PTL DEF Spec

\* The types; the install directory is of one release unless a swap is under way, was cut
\* short or has met another; VERSION is never ahead of the application (self_update.py).
THEOREM DiskHolds == Spec => []DiskKept
  <1>1. DiskInv => TypeOK
    BY PathOf DEF DiskInv, Types, TypeOK, Task
  <1>2. DiskInv => OneRelease
    BY DEF DiskInv, Swaps, OneRelease, Whole
  <1>3. DiskInv => VersionBehindApp
    BY DEF DiskInv, Swaps, VersionBehindApp
  <1> QED  BY <1>1, <1>2, <1>3, DiskInductive, PTL DEF DiskKept

-----------------------------------------------------------------------------
(* "Update now" leads forward *)

\* What a click knows that nobody has disturbed: what it is about to install is newer
\* than the version c that is installed.
Forward(r, s, c) ==
    r.kind = "now" /\ r.alone =>
        /\ r.at = "decide" /\ s.available => s.latest > c
        /\ r.at = "assets" => s.latest > c
        /\ r.at \in {"download", "packages"} => r.got > c
        /\ r.at = "remove" /\ r.part = 1 => r.got > c

AllForward == \A t \in Tasks : Forward(task[t], saved, Current)

LEMMA IdleForward == \A s, c : Forward(Idle, s, c)
  BY DEF Forward, Idle

\* One task goes on, alone or so that the others no longer are.
LEMMA ForwardGoesOn ==
    ASSUME Types, AllForward, NEW t \in Tasks, NEW r,
           \/ Set(t, r) /\ saved' = saved /\ Current' = Current
           \/ Disturb(t, r),
           Forward(r, saved', Current')
    PROVE  AllForward'
  <1> SUFFICES ASSUME NEW u \in Tasks PROVE Forward(task'[u], saved', Current')
    BY DEF AllForward
  <1>1. CASE u = t
    <2>1. task'[t] = r
      BY DEF Set, Disturb, Types
    <2> QED  BY <1>1, <2>1
  <1>2. CASE u # t /\ Set(t, r) /\ saved' = saved /\ Current' = Current
    <2>1. task'[u] = task[u] /\ Forward(task[u], saved, Current)
      BY <1>2 DEF Set, Types, AllForward
    <2> QED  BY <1>2, <2>1
  <1>3. CASE u # t /\ Disturb(t, r)
    <2>1. task[u] \in Task
      BY DEF Types
    <2>2. task'[u] = [task[u] EXCEPT !.alone = @ /\ task[u].kind # "now"]
      BY <1>3 DEF Disturb
    <2>3. task'[u].kind = task[u].kind /\ task'[u].alone = (task[u].alone /\ task[u].kind # "now")
      BY <2>1, <2>2 DEF Task
    <2> QED  BY <2>3 DEF Forward
  <1> QED  BY <1>1, <1>2, <1>3

LEMMA ForwardChecks ==
    ASSUME DiskInv, AllForward, NEW t \in Tasks,
           Arrive(t) \/ LookBanner(t) \/ AskGitHub(t) \/ WriteCheck(t) \/ Decide(t) \/ ReadAssets(t) \/ Download(t)
    PROVE  AllForward'
  <1>0. task[t] \in Task /\ Types /\ Forward(task[t], saved, Current)
    BY DEF DiskInv, Types, AllForward
  <1>c. Current' = Current
    BY DEF Arrive, LookBanner, AskGitHub, WriteCheck, Decide, ReadAssets, Download, Current
  <1>s. ~WriteCheck(t) => saved' = saved
    BY DEF Arrive, LookBanner, AskGitHub, Decide, ReadAssets, Download
  <1>1. CASE Arrive(t)
    <2>1. PICK kind \in {"check", "banner", "now"} :
             Set(t, [Idle EXCEPT !.kind = kind, !.at = IF kind = "banner" THEN "look" ELSE "get"])
      BY <1>1 DEF Arrive
    <2> DEFINE r == [Idle EXCEPT !.kind = kind, !.at = IF kind = "banner" THEN "look" ELSE "get"]
    <2>2. r.at \in {"look", "get"}
      BY DEF Idle
    <2>3. Forward(r, saved', Current')
      BY <2>2 DEF Forward
    <2>4. Set(t, r) /\ saved' = saved
      BY <1>1, <2>1 DEF Arrive
    <2> HIDE DEF r
    <2> QED  BY <1>0, <1>c, <2>3, <2>4, ForwardGoesOn
  <1>2. CASE LookBanner(t) \/ AskGitHub(t)
    <2>1. PICK r \in {Idle, [task[t] EXCEPT !.at = "get"], [task[t] EXCEPT !.at = "write", !.got = newest],
                      [task[t] EXCEPT !.at = "write"]} : Set(t, r)
      BY <1>2 DEF LookBanner, AskGitHub, End, Goto
    <2>2. r.at \in {"idle", "get", "write"}
      <3>1. Idle.at = "idle"
        BY DEF Idle
      <3>2. [task[t] EXCEPT !.at = "get"].at = "get"
        BY <1>0 DEF Task
      <3>3. [task[t] EXCEPT !.at = "write", !.got = newest].at = "write"
        BY <1>0 DEF Task
      <3>4. [task[t] EXCEPT !.at = "write"].at = "write"
        BY <1>0 DEF Task
      <3> QED  BY <2>1, <3>1, <3>2, <3>3, <3>4
    <2>3. Forward(r, saved', Current') /\ saved' = saved
      BY <1>2, <2>2 DEF Forward, LookBanner, AskGitHub
    <2> QED  BY <1>0, <1>c, <2>1, <2>3, ForwardGoesOn
  <1>3. CASE WriteCheck(t)
    <2>1. PICK r \in {Idle, [task[t] EXCEPT !.at = "decide", !.got = None]} : Disturb(t, r)
      BY <1>3 DEF WriteCheck
    <2>2. r.at \in {"idle", "decide"}
      <3>1. Idle.at = "idle"
        BY DEF Idle
      <3>2. [task[t] EXCEPT !.at = "decide", !.got = None].at = "decide"
        BY <1>0 DEF Task
      <3> QED  BY <2>1, <3>1, <3>2
    <2>3. saved'.available => saved'.latest > Current'
      BY <1>0, <1>3, <1>c DEF WriteCheck, Types
    <2>4. Forward(r, saved', Current')
      BY <2>2, <2>3 DEF Forward
    <2> QED  BY <1>0, <2>1, <2>4, ForwardGoesOn
  <1>4. CASE Decide(t)
    <2>1. PICK r \in {Idle, [task[t] EXCEPT !.at = "assets"]} : Set(t, r)
      BY <1>4 DEF Decide, End, Goto
    <2>2. r = Idle \/ (saved.available /\ r = [task[t] EXCEPT !.at = "assets"] /\ task[t].at = "decide")
      BY <1>4, <2>1, <1>0 DEF Decide, End, Goto, At, Set, Types
    <2>3. Forward(r, saved, Current)
      <3>1. CASE r = Idle
        BY <3>1, IdleForward
      <3>2. CASE saved.available /\ r = [task[t] EXCEPT !.at = "assets"] /\ task[t].at = "decide"
        <4>1. r.at = "assets" /\ r.kind = task[t].kind /\ r.alone = task[t].alone
          BY <1>0, <3>2 DEF Task
        <4> QED  BY <1>0, <3>2, <4>1 DEF Forward
      <3> QED  BY <2>2, <3>1, <3>2
    <2> QED  BY <1>0, <1>c, <1>4, <2>1, <2>3, ForwardGoesOn DEF Decide
  <1>5. CASE ReadAssets(t)
    <2> DEFINE r == [task[t] EXCEPT !.at = "download", !.got = saved.latest]
    <2>1. Set(t, r) /\ task[t].at = "assets" /\ saved' = saved
      BY <1>5 DEF ReadAssets, At
    <2>2. r.at = "download" /\ r.got = saved.latest /\ r.kind = task[t].kind /\ r.alone = task[t].alone
      BY <1>0 DEF Task
    <2> HIDE DEF r
    <2>3. Forward(r, saved, Current)
      BY <1>0, <2>1, <2>2 DEF Forward
    <2> QED  BY <1>0, <1>c, <2>1, <2>3, ForwardGoesOn
  <1>6. CASE Download(t)
    <2>1. PICK r \in {Idle, [task[t] EXCEPT !.at = "packages", !.part = 1]} : Set(t, r)
      BY <1>6 DEF Download, Package, End
    <2>2. task[t].at = "download" /\ saved' = saved
      BY <1>6 DEF Download, At
    <2>3. Forward(r, saved, Current)
      <3>1. CASE r = Idle
        BY <3>1, IdleForward
      <3>2. CASE r = [task[t] EXCEPT !.at = "packages", !.part = 1]
        <4>1. r.at = "packages" /\ r.kind = task[t].kind /\ r.alone = task[t].alone /\ r.got = task[t].got
          BY <1>0, <3>2 DEF Task
        <4> QED  BY <1>0, <2>2, <4>1 DEF Forward
      <3> QED  BY <2>1, <3>1, <3>2
    <2> QED  BY <1>0, <1>c, <2>1, <2>2, <2>3, ForwardGoesOn
  <1> QED  BY <1>1, <1>2, <1>3, <1>4, <1>5, <1>6

LEMMA ForwardSwaps ==
    ASSUME DiskInv, AllForward, NEW t \in Tasks,
           InstallRequirements(t) \/ Remove(t) \/ Copy(t) \/ Record(t) \/ Fail(t)
    PROVE  AllForward'
  <1>0. task[t] \in Task /\ Types /\ Forward(task[t], saved, Current)
    BY DEF DiskInv, Types, AllForward
  <1>1. CASE InstallRequirements(t)
    <2>1. Current' = Current /\ saved' = saved
      <3>1. \/ disk' = disk
            \/ \E g : disk' = [disk EXCEPT !["venv"] = g]
        BY <1>1 DEF InstallRequirements
      <3>2. disk'["VERSION"] = disk["VERSION"]
        BY <1>0, <3>1 DEF Types, Paths
      <3> QED  BY <1>1, <3>2 DEF InstallRequirements, Current
    <2> DEFINE r == [task[t] EXCEPT !.at = "remove"]
    <2>2. Set(t, Idle) \/ Disturb(t, r)
      BY <1>1 DEF InstallRequirements, End
    <2>3. task[t].at = "packages"
      BY <1>1 DEF InstallRequirements, At
    <2>4. r.at = "remove" /\ r.kind = task[t].kind /\ r.alone = task[t].alone /\ r.got = task[t].got
      BY <1>0 DEF Task
    <2> HIDE DEF r
    <2>5. Forward(r, saved, Current)
      BY <1>0, <2>3, <2>4 DEF Forward
    <2> QED  BY <1>0, <2>1, <2>2, <2>5, IdleForward, ForwardGoesOn
  <1>2. CASE Remove(t)
    <2>1. PICK r : Disturb(t, r) /\ r = [task[t] EXCEPT !.at = "copy"]
      BY <1>2 DEF Remove
    <2>2. r.at = "copy"
      BY <1>0, <2>1 DEF Task
    <2>3. Forward(r, saved', Current')
      BY <2>2 DEF Forward
    <2> QED  BY <1>0, <2>1, <2>3, ForwardGoesOn
  <1>3. CASE Copy(t) /\ Copied(t)
    <2> DEFINE r == [task[t] EXCEPT !.at = IF task[t].part = Len(Parts) THEN "record" ELSE "remove",
                                    !.part = IF task[t].part = Len(Parts) THEN @ ELSE @ + 1]
    <2>1. Disturb(t, r)
      BY <1>3 DEF Copied
    <2>2. task[t].part \in 1 .. 3
      BY <1>0 DEF Task
    <2>3. r.at \in {"record", "remove"} /\ (r.at = "remove" => r.part # 1)
      <3>1. CASE task[t].part = Len(Parts)
        <4>1. r.at = "record"
          BY <1>0, <3>1 DEF Task
        <4> QED  BY <4>1
      <3>2. CASE task[t].part # Len(Parts)
        <4>1. r.at = "remove" /\ r.part = task[t].part + 1
          BY <1>0, <3>2 DEF Task
        <4>2. task[t].part + 1 # 1
          BY <2>2
        <4> QED  BY <4>1, <4>2
      <3> QED  BY <3>1, <3>2
    <2> HIDE DEF r
    <2>4. Forward(r, saved', Current')
      BY <2>3 DEF Forward
    <2> QED  BY <1>0, <2>1, <2>4, ForwardGoesOn
  <1>4. CASE Copy(t) /\ ~Copied(t)
    <2>1. Set(t, Idle) /\ saved' = saved /\ disk' = disk
      BY <1>4 DEF Copy, End
    <2> QED  BY <1>0, <2>1, IdleForward, ForwardGoesOn DEF Current
  <1>5. CASE Record(t)
    <2>1. PICK r : Disturb(t, r) /\ r = [task[t] EXCEPT !.at = "exit"]
      BY <1>5 DEF Record
    <2>2. r.at = "exit"
      BY <1>0, <2>1 DEF Task
    <2>3. Forward(r, saved', Current')
      BY <2>2 DEF Forward
    <2> QED  BY <1>0, <2>1, <2>3, ForwardGoesOn
  <1>6. CASE Fail(t)
    <2>1. Set(t, Idle) /\ saved' = saved /\ disk' = disk
      BY <1>6 DEF Fail, End
    <2> QED  BY <1>0, <2>1, IdleForward, ForwardGoesOn DEF Current
  <1> QED  BY <1>1, <1>2, <1>3, <1>4, <1>5, <1>6

LEMMA ForwardOthers ==
    ASSUME DiskInv, Asleep, AllForward,
           \/ (\E t \in Tasks : Exit(t)) \/ Kill
           \/ Wake \/ Start \/ Install \/ Publish \/ SaveConfig \/ UNCHANGED vars
    PROVE  AllForward'
  <1>1. CASE (\E t \in Tasks : Exit(t)) \/ Kill
    <2>1. task' = [t \in Tasks |-> Idle]
      BY <1>1 DEF Exit, Kill, Stopped
    <2> QED  BY <2>1, IdleForward DEF AllForward
  <1>2. CASE Wake
    <2> DEFINE r == [Idle EXCEPT !.kind = "auto", !.at = "assets"]
    <2>1. Loop \in Tasks /\ Set(Loop, r) /\ saved' = saved /\ disk' = disk
      BY <1>2 DEF Wake, Tasks
    <2>2. Forward(r, saved, Current)
      BY DEF Forward, Idle
    <2> HIDE DEF r
    <2> QED  BY <2>1, <2>2, ForwardGoesOn DEF DiskInv, Current
  <1>3. CASE Install
    <2>1. task' = task /\ \A t \in Tasks : task[t].at = "idle"
      BY <1>3 DEF Install, Asleep
    <2> QED  BY <2>1 DEF AllForward, Forward
  <1>4. CASE Start \/ Publish \/ SaveConfig \/ UNCHANGED vars
    <2>1. task' = task /\ saved' = saved /\ disk' = disk
      BY <1>4 DEF Start, Publish, SaveConfig, vars
    <2> QED  BY <2>1 DEF AllForward, Current
  <1> QED  BY <1>1, <1>2, <1>3, <1>4

\* "Update now" replaces the first path only by a newer release, unless somebody else has
\* installed or recorded something since the click (apply_now of self_update.py).
THEOREM NowLeadsForward == Spec => NowIsNewer
  <1> DEFINE Inv == DiskInv /\ Asleep /\ AllForward
  <1>1. Init => Inv
    <2>1. Init => AllForward
      BY IdleForward DEF Init, AllForward
    <2> QED  BY <2>1, InitDisk DEF Init, Idle, Asleep
  <1>2. Inv /\ [Next]_vars => Inv'
    <2> SUFFICES ASSUME DiskInv, Asleep, AllForward, [Next]_vars PROVE DiskInv' /\ Asleep' /\ AllForward'
      OBVIOUS
    <2>1. DiskInv' /\ Asleep'
      BY DiskStep
    <2>2. AllForward'
      BY ForwardChecks, ForwardSwaps, ForwardOthers DEF Next, TaskStep
    <2> QED  BY <2>1, <2>2
  <1>3. Inv /\ [Next]_vars =>
          [\A t \in Tasks :
              task[t].at = "remove" /\ task'[t].at = "copy" /\ task[t].kind = "now"
                  /\ task[t].part = 1 /\ task[t].alone =>
                 task[t].got > Current]_vars
    BY DEF AllForward, Forward
  <1> QED  BY <1>1, <1>2, <1>3, PTL DEF Spec, NowIsNewer

-----------------------------------------------------------------------------
(* The scripts of what has been installed (Migrations) *)

\* What the process knows of the table: every file before the one it is at has
\* been recorded.
Reached ==
    /\ process = Database!Halted \/ process = Database!Serving
       \/ process \in [pc : {"select", "record"}, file : Nat \ {0}]
       \/ process \in [pc : {"script"}, file : Nat \ {0}, next : Nat]
    /\ process.pc \in {"select", "script", "record"} => 1 .. process.file - 1 \subseteq recorded

OrderInv ==
    /\ recorded \subseteq Nat \ {0}
    /\ Database!InOrder
    /\ Reached

LEMMA OrderInit == Database!Init => OrderInv
  BY DEF Database!Init, OrderInv, Database!InOrder, Reached, Database!Halted, Database!Serving

\* A step that leaves _migrations alone only has to leave the process at a file
\* it may be at.
LEMMA Unrecorded ==
    ASSUME OrderInv, UNCHANGED recorded, Reached'
    PROVE  OrderInv'
  BY DEF OrderInv, Database!InOrder

LEMMA OrderStep == OrderInv /\ [Database!Next]_(Database!vars) => OrderInv'
  <1> SUFFICES ASSUME OrderInv, [Database!Next]_(Database!vars) PROVE OrderInv'
    OBVIOUS
  <1> USE DEF OrderInv, Reached, Database!Halted, Database!Serving
  <1>1. CASE Database!Start
    <2>1. UNCHANGED recorded /\ Reached'
      BY <1>1 DEF Database!Start
    <2> QED  BY <2>1, Unrecorded
  <1>2. CASE Database!Select
    <2>1. UNCHANGED recorded
      BY <1>2 DEF Database!Select
    <2>2. process.pc = "select" /\ process.file \in Nat \ {0}
      BY <1>2 DEF Database!Select
    <2>3. CASE process.file \in recorded
      <3>1. process' = [pc |-> "select", file |-> process.file + 1]
        BY <1>2, <2>2, <2>3 DEF Database!Select
      <3>2. 1 .. process.file \subseteq recorded
        BY <2>3 DEF Database!InOrder
      <3>3. Reached'
        BY <2>1, <2>2, <3>1, <3>2
      <3> QED  BY <2>1, <3>3, Unrecorded
    <2>4. CASE process.file \notin recorded
      <3>1. process' = [pc |-> "script", file |-> process.file, next |-> 1]
        BY <1>2, <2>4 DEF Database!Select
      <3>2. Reached'
        BY <2>1, <2>2, <3>1
      <3> QED  BY <2>1, <3>2, Unrecorded
    <2> QED  BY <2>3, <2>4
  <1>3. CASE Database!Execute
    <2>1. UNCHANGED recorded
      BY <1>3 DEF Database!Execute
    <2>2. process \in [pc : {"script"}, file : Nat \ {0}, next : Nat]
      <3>1. process.pc = "script"
        BY <1>3 DEF Database!Execute
      <3>2. process # Database!Halted /\ process # Database!Serving
        BY <3>1
      <3>3. process \notin [pc : {"select", "record"}, file : Nat \ {0}]
        BY <3>1
      <3> HIDE DEF Database!Halted, Database!Serving
      <3> QED  BY <3>2, <3>3
    <2>3. \/ process' = Database!Halted
          \/ process' = Database!Recording
          \/ process' = [process EXCEPT !.next = @ + 1]
      BY <1>3 DEF Database!Execute, Database!Ran
    <2>4. CASE process' = Database!Halted
      BY <2>1, <2>4, Unrecorded
    <2>5. CASE process' = Database!Recording
      <3>1. process' = [pc |-> "record", file |-> process.file]
        BY <2>5 DEF Database!Recording
      <3>2. Reached'
        BY <2>1, <2>2, <3>1
      <3> QED  BY <2>1, <3>2, Unrecorded
    <2>6. CASE process' = [process EXCEPT !.next = @ + 1]
      <3>1. /\ process' \in [pc : {"script"}, file : Nat \ {0}, next : Nat]
            /\ process'.file = process.file
        BY <2>2, <2>6
      <3>2. Reached'
        BY <2>1, <2>2, <3>1
      <3> QED  BY <2>1, <3>2, Unrecorded
    <2> QED  BY <2>3, <2>4, <2>5, <2>6
  <1>4. CASE Database!Record
    <2>1. process.pc = "record" /\ process.file \in Nat \ {0}
      BY <1>4 DEF Database!Record
    <2>2. /\ recorded' = recorded \cup {process.file}
            /\ process' = [pc |-> "select", file |-> process.file + 1]
      BY <1>4 DEF Database!Record
    <2>3. 1 .. process.file \subseteq recorded'
      BY <2>1, <2>2
    <2>4. Database!InOrder'
      BY <2>2, <2>3 DEF Database!InOrder
    <2>5. Reached'
      BY <2>1, <2>2, <2>3
    <2> QED  BY <2>1, <2>2, <2>4, <2>5
  <1>5. CASE Database!Serve
    <2>1. UNCHANGED recorded /\ Reached'
      BY <1>5 DEF Database!Serve
    <2> QED  BY <2>1, Unrecorded
  <1>6. CASE Database!Stop
    <2>1. UNCHANGED recorded /\ Reached'
      BY <1>6 DEF Database!Stop
    <2> QED  BY <2>1, Unrecorded
  <1>7. CASE Database!Upgrade
    <2>1. UNCHANGED recorded /\ Reached'
      BY <1>7 DEF Database!Upgrade
    <2> QED  BY <2>1, Unrecorded
  <1>8. CASE UNCHANGED Database!vars
    <2>1. UNCHANGED recorded /\ Reached'
      BY <1>8 DEF Database!vars
    <2> QED  BY <2>1, Unrecorded
  <1> QED  BY <1>1, <1>2, <1>3, <1>4, <1>5, <1>6, <1>7, <1>8 DEF Database!Next, Database!StartUp

\* Scripts are recorded in the order of their names, whatever they contain and
\* however often the process stops: init_db goes through the files in order and
\* passes one only when _migrations has it.
THEOREM AppliedInOrder == Database!Spec => []Database!InOrder
  <1>1. Database!Spec => []OrderInv
    BY OrderInit, OrderStep, PTL DEF Database!Spec
  <1>2. OrderInv => Database!InOrder
    BY DEF OrderInv
  <1> QED  BY <1>1, <1>2, PTL

-----------------------------------------------------------------------------
(* What the scripts make of the schema (Migrations)                        *)

LEMMA LessIsWellFounded == IsWellFoundedOn({ss \in Nat \X Nat : ss[1] < ss[2]}, Nat)
  BY NatLessThanWellFounded DEF OpToRel

\* A set of naturals that is not empty has a least element.
LEMMA HasLeast ==
    ASSUME NEW T \in SUBSET Nat, T # {}
    PROVE  \E m \in T : \A n \in T : m <= n
  <1> DEFINE R == {ss \in Nat \X Nat : ss[1] < ss[2]}
  <1>1. IsWellFoundedOn(R, Nat)
    BY LessIsWellFounded
  <1>2. \A n, m \in Nat : <<n, m>> \notin R => m <= n
    OBVIOUS
  <1> HIDE DEF R
  <1>3. \E m \in T : \A n \in T : ~(<<n, m>> \in R)
    BY <1>1, WFMin
  <1> QED  BY <1>2, <1>3

\* Induction up to N, of a set.
LEMMA UpTo ==
    ASSUME NEW N \in Nat, NEW T, 0 \in T, \A i \in 0 .. N : i \in T /\ i < N => i + 1 \in T
    PROVE  0 .. N \subseteq T
  <1> SUFFICES ASSUME NEW i \in 0 .. N, i \notin T PROVE FALSE
    OBVIOUS
  <1> DEFINE Out == {j \in 0 .. N : j \notin T}
  <1>1. Out \in SUBSET Nat /\ Out # {}
    OBVIOUS
  <1>2. PICK m \in Out : \A j \in Out : m <= j
    <2> HIDE DEF Out
    <2> QED  BY <1>1, HasLeast
  <1>3. m - 1 \in 0 .. N /\ m - 1 \in T
    BY <1>2
  <1> QED  BY <1>2, <1>3

\* What a function defined by recursion over 0 .. Len(script) is.
After(st, schemas) == {Database!Undisturbed(st, s) : s \in schemas}

LEMMA CourseIs ==
    ASSUME NEW script, Len(script) \in Nat, NEW schemas
    PROVE  LET c == Database!Course(script, schemas) IN
           /\ c[0] = schemas
           /\ \A k \in 1 .. Len(script) : c[k] = After(script[k], c[k - 1])
  <1> DEFINE N == Len(script)
             Next1(k, ss) == After(script[k], ss)
             Good(g, n) == g = [k \in 0 .. n |-> IF k = 0 THEN schemas ELSE Next1(k, g[k - 1])]
             T == {n \in 0 .. N : \E g : Good(g, n)}
             c == Database!Course(script, schemas)
  <1>1. c = CHOOSE g : Good(g, N)
    BY DEF Database!Course, After
  <1> HIDE DEF Next1
  <1>2. 0 \in T
    <2>1. Good([k \in 0 .. 0 |-> schemas], 0)
      OBVIOUS
    <2> HIDE DEF Good
    <2> QED  BY <2>1
  <1>3. ASSUME NEW n \in 0 .. N, n \in T, n < N PROVE n + 1 \in T
    <2>1. PICK g : Good(g, n)
      BY <1>3
    <2> DEFINE h == [k \in 0 .. n + 1 |-> IF k \in 0 .. n THEN g[k] ELSE Next1(n + 1, g[n])]
    <2>2. ASSUME NEW k \in 0 .. n + 1 PROVE h[k] = IF k = 0 THEN schemas ELSE Next1(k, h[k - 1])
      <3>1. CASE k \in 0 .. n
        <4>1. h[k] = g[k]
          BY <3>1
        <4>2. g[k] = IF k = 0 THEN schemas ELSE Next1(k, g[k - 1])
          BY <2>1, <3>1
        <4>3. k # 0 => h[k - 1] = g[k - 1]
          BY <3>1
        <4> QED  BY <4>1, <4>2, <4>3
      <3>2. CASE k = n + 1
        BY <3>2
      <3> QED  BY <3>1, <3>2
    <2>3. Good(h, n + 1)
      BY <2>2
    <2>4. n + 1 \in 0 .. N
      BY <1>3
    <2> HIDE DEF Good, N
    <2> QED  BY <2>3, <2>4
  <1>4. N \in T
    <2>1. N \in Nat
      OBVIOUS
    <2> HIDE DEF T, N
    <2>2. \A i \in 0 .. N : i \in T /\ i < N => i + 1 \in T
      BY <1>3
    <2>3. 0 .. N \subseteq T
      BY <1>2, <2>1, <2>2, UpTo
    <2> QED  BY <2>1, <2>3
  <1>5. Good(c, N)
    <2> HIDE DEF Good
    <2> QED  BY <1>1, <1>4
  <1>6. c[0] = schemas /\ \A k \in 1 .. N : c[k] = Next1(k, c[k - 1])
    <2> HIDE DEF c
    <2> QED  BY <1>5
  <1> QED  BY <1>6 DEF Next1

LEMMA WholeIs ==
    ASSUME Len(Script) \in Nat
    PROVE  /\ Database!Whole[0] = {<<>>}
           /\ \A n \in 1 .. Len(Script) :
                 Database!Whole[n] = Database!Course(Script[n], Database!Whole[n - 1])[Len(Script[n])]
  <1> DEFINE N == Len(Script)
             Next1(k, ss) == Database!Course(Script[k], ss)[Len(Script[k])]
             Good(g, n) == g = [k \in 0 .. n |-> IF k = 0 THEN {<<>>} ELSE Next1(k, g[k - 1])]
             T == {n \in 0 .. N : \E g : Good(g, n)}
             c == Database!Whole
  <1>1. c = CHOOSE g : Good(g, N)
    BY DEF Database!Whole
  <1> HIDE DEF Next1
  <1>2. 0 \in T
    <2>1. Good([k \in 0 .. 0 |-> {<<>>}], 0)
      OBVIOUS
    <2> HIDE DEF Good
    <2> QED  BY <2>1
  <1>3. ASSUME NEW n \in 0 .. N, n \in T, n < N PROVE n + 1 \in T
    <2>1. PICK g : Good(g, n)
      BY <1>3
    <2> DEFINE h == [k \in 0 .. n + 1 |-> IF k \in 0 .. n THEN g[k] ELSE Next1(n + 1, g[n])]
    <2>2. ASSUME NEW k \in 0 .. n + 1 PROVE h[k] = IF k = 0 THEN {<<>>} ELSE Next1(k, h[k - 1])
      <3>1. CASE k \in 0 .. n
        <4>1. h[k] = g[k]
          BY <3>1
        <4>2. g[k] = IF k = 0 THEN {<<>>} ELSE Next1(k, g[k - 1])
          BY <2>1, <3>1
        <4>3. k # 0 => h[k - 1] = g[k - 1]
          BY <3>1
        <4> QED  BY <4>1, <4>2, <4>3
      <3>2. CASE k = n + 1
        BY <3>2
      <3> QED  BY <3>1, <3>2
    <2>3. Good(h, n + 1)
      BY <2>2
    <2>4. n + 1 \in 0 .. N
      BY <1>3
    <2> HIDE DEF Good, N
    <2> QED  BY <2>3, <2>4
  <1>4. N \in T
    <2>1. N \in Nat
      OBVIOUS
    <2> HIDE DEF T, N
    <2>2. \A i \in 0 .. N : i \in T /\ i < N => i + 1 \in T
      BY <1>3
    <2>3. 0 .. N \subseteq T
      BY <1>2, <2>1, <2>2, UpTo
    <2> QED  BY <2>1, <2>3
  <1>5. Good(c, N)
    <2> HIDE DEF Good
    <2> QED  BY <1>1, <1>4
  <1>6. c[0] = {<<>>} /\ \A k \in 1 .. N : c[k] = Next1(k, c[k - 1])
    <2>1. N \in Nat /\ 0 \in 0 .. N /\ \A k \in 1 .. N : k \in 0 .. N /\ k # 0
      OBVIOUS
    <2>2. c = [k \in 0 .. N |-> IF k = 0 THEN {<<>>} ELSE Next1(k, c[k - 1])]
      BY <1>5
    <2> HIDE DEF c, N
    <2>3. c[0] = {<<>>}
      BY <2>1, <2>2
    <2>4. ASSUME NEW k \in 1 .. N PROVE c[k] = Next1(k, c[k - 1])
      BY <2>1, <2>2
    <2> QED  BY <2>3, <2>4
  <1> QED  BY <1>6 DEF Next1

Schemas == UNION {[names -> STRING] : names \in SUBSET STRING}

LEMMA SchemaIs ==
    \A s : s \in Schemas <=> /\ s = [name \in DOMAIN s |-> s[name]]
                             /\ DOMAIN s \subseteq STRING
                             /\ \A name \in DOMAIN s : s[name] \in STRING
  <1>1. ASSUME NEW s, s \in Schemas
        PROVE  s = [name \in DOMAIN s |-> s[name]] /\ DOMAIN s \subseteq STRING /\ \A name \in DOMAIN s : s[name] \in STRING
    <2>1. PICK names \in SUBSET STRING : s \in [names -> STRING]
      BY <1>1 DEF Schemas
    <2> QED  BY <2>1
  <1>2. ASSUME NEW s, s = [name \in DOMAIN s |-> s[name]], DOMAIN s \subseteq STRING,
               \A name \in DOMAIN s : s[name] \in STRING
        PROVE  s \in Schemas
    <2>1. s \in [DOMAIN s -> STRING]
      BY <1>2
    <2> QED  BY <1>2, <2>1 DEF Schemas
  <1> QED  BY <1>1, <1>2

LEMMA EmptyIs == <<>> \in Schemas
  <1>1. DOMAIN <<>> = {}
    OBVIOUS
  <1>2. <<>> = [name \in {} |-> name]
    OBVIOUS
  <1> QED  BY <1>1, <1>2, SchemaIs

Statement == [op : Database!Kinds, from : SUBSET STRING, to : SUBSET STRING]

LEMMA ScriptIs ==
    /\ Len(Script) \in Nat /\ DOMAIN Script = 1 .. Len(Script)
    /\ \A f \in DOMAIN Script :
          /\ Len(Script[f]) \in Nat \ {0} /\ DOMAIN Script[f] = 1 .. Len(Script[f])
          /\ \A k \in DOMAIN Script[f] :
                /\ Script[f][k] \in Statement
                /\ Script[f][k].op = "make" => Script[f][k].from = {}
                /\ Script[f][k].op \in {"rename", "move", "copy"} => Script[f][k].from # {}
  <1>1. Script \in Seq(Seq(Statement) \ {<<>>})
    BY DatabaseAssumption DEF Database!ScriptAssumption, Statement
  <1>2. Len(Script) \in Nat /\ DOMAIN Script = 1 .. Len(Script)
        /\ \A f \in DOMAIN Script : Script[f] \in Seq(Statement) \ {<<>>}
    BY <1>1
  <1>3. ASSUME NEW f \in DOMAIN Script
        PROVE  /\ Len(Script[f]) \in Nat \ {0} /\ DOMAIN Script[f] = 1 .. Len(Script[f])
               /\ \A k \in DOMAIN Script[f] : Script[f][k] \in Statement
    BY <1>2
  <1> QED  BY <1>2, <1>3, DatabaseAssumption DEF Database!ScriptAssumption

LEMMA EffectTyped ==
    ASSUME NEW s \in Schemas, NEW st \in Statement, Database!Outcome(st, s) = "done",
           st.op \in {"rename", "move", "copy"} => st.from # {}
    PROVE  Database!Effect(st, s) \in Schemas
  <1> DEFINE e == Database!Effect(st, s)
             gone == IF st.op = "copy" THEN {} ELSE st.from
  <1>1. st.from \subseteq DOMAIN s /\ st.from \subseteq STRING /\ st.to \subseteq STRING
    BY DEF Database!Outcome, Database!Present, Statement
  <1>2. DOMAIN s \subseteq STRING /\ \A name \in DOMAIN s : s[name] \in STRING
    BY SchemaIs
  <1>3. e = [name \in (DOMAIN s \ gone) \cup st.to |->
                IF name \in st.to THEN Database!Contents(st, s, name) ELSE s[name]]
    BY DEF Database!Effect
  <1>4. ASSUME NEW name \in st.to PROVE Database!Contents(st, s, name) \in STRING
    <2>1. CASE st.op \in {"rename", "move", "copy"}
      <3>1. (CHOOSE old \in st.from : TRUE) \in st.from
        BY <2>1
      <3> QED  BY <1>1, <1>2, <2>1, <3>1 DEF Database!Contents
    <2>2. CASE st.op \notin {"rename", "move", "copy"}
      BY <1>1, <1>2, <2>2 DEF Database!Contents
    <2> QED  BY <2>1, <2>2
  <1>5. DOMAIN e = (DOMAIN s \ gone) \cup st.to
    BY <1>3
  <1>6. \A name \in DOMAIN e : e[name] \in STRING
    <2> HIDE DEF gone
    <2> QED  BY <1>2, <1>3, <1>4, <1>5
  <1>7. e = [name \in DOMAIN e |-> e[name]]
    BY <1>3, <1>5
  <1>8. DOMAIN e \subseteq STRING
    BY <1>1, <1>2, <1>5
  <1> HIDE DEF e
  <1> QED  BY <1>6, <1>7, <1>8, SchemaIs DEF e

\* CREATE TABLE IF NOT EXISTS and its like: there afterwards, and nothing else, and
\* nothing at all where it was.
LEMMA MakeIs ==
    ASSUME NEW s \in Schemas, NEW st, st.op = "make", st.from = {}
    PROVE  /\ Database!Outcome(st, s) = "done"
           /\ DOMAIN Database!Effect(st, s) = DOMAIN s \cup st.to
           /\ st.to \subseteq DOMAIN s => Database!Effect(st, s) = s
  <1>1. Database!Outcome(st, s) = "done"
    BY DEF Database!Outcome, Database!Present
  <1>2. Database!Effect(st, s) =
          [name \in DOMAIN s \cup st.to |-> IF name \in st.to /\ name \notin DOMAIN s THEN name ELSE s[name]]
    BY DEF Database!Effect, Database!Contents
  <1>3. s = [name \in DOMAIN s |-> s[name]]
    BY SchemaIs
  <1>4. ASSUME st.to \subseteq DOMAIN s PROVE Database!Effect(st, s) = s
    BY <1>2, <1>3, <1>4
  <1>5. DOMAIN Database!Effect(st, s) = DOMAIN s \cup st.to
    BY <1>2
  <1> QED  BY <1>1, <1>4, <1>5

Stages(f) == Database!Course(Script[f], Database!Whole[f - 1])

\* What an undisturbed run goes through.
LEMMA StagesAre ==
    ASSUME NEW f \in DOMAIN Script
    PROVE  /\ f \in 1 .. Len(Script) /\ f - 1 \in 0 .. Len(Script)
           /\ Stages(f)[0] = Database!Whole[f - 1]
           /\ Database!Whole[f] = Stages(f)[Len(Script[f])]
           /\ \A k \in DOMAIN Script[f] :
                 Stages(f)[k] = After(Script[f][k], Stages(f)[k - 1])
  <1>1. f \in 1 .. Len(Script) /\ f - 1 \in 0 .. Len(Script) /\ Len(Script[f]) \in Nat
        /\ DOMAIN Script[f] = 1 .. Len(Script[f])
    BY ScriptIs
  <1> DEFINE c == Database!Course(Script[f], Database!Whole[f - 1])
  <1>2. /\ c[0] = Database!Whole[f - 1]
        /\ \A k \in 1 .. Len(Script[f]) : c[k] = After(Script[f][k], c[k - 1])
    BY <1>1, CourseIs
  <1>3. Database!Whole[f] = c[Len(Script[f])]
    BY <1>1, ScriptIs, WholeIs
  <1>4. Stages(f) = c
    BY DEF Stages
  <1> HIDE DEF c
  <1> QED  BY <1>1, <1>2, <1>3, <1>4 DEF After

LEMMA UndisturbedTyped ==
    ASSUME NEW f \in DOMAIN Script, NEW k \in DOMAIN Script[f], NEW s \in Schemas
    PROVE  Database!Undisturbed(Script[f][k], s) \in Schemas
  BY ScriptIs, EffectTyped DEF Database!Undisturbed

LEMMA StagesTyped ==
    ASSUME NEW f \in DOMAIN Script, Database!Whole[f - 1] \subseteq Schemas
    PROVE  \A k \in 0 .. Len(Script[f]) : Stages(f)[k] \subseteq Schemas
  <1> DEFINE N == Len(Script[f])
             T == {k \in 0 .. N : Stages(f)[k] \subseteq Schemas}
  <1>1. N \in Nat /\ 1 .. N = DOMAIN Script[f]
    BY ScriptIs
  <1>2. 0 \in T
    BY <1>1, StagesAre
  <1>3. ASSUME NEW k \in 0 .. N, k \in T, k < N PROVE k + 1 \in T
    <2>1. k + 1 \in DOMAIN Script[f] /\ k + 1 \in 0 .. N /\ (k + 1) - 1 = k
      BY <1>1, <1>3
    <2>2. Stages(f)[k + 1] = After(Script[f][k + 1], Stages(f)[k])
      BY <2>1, StagesAre
    <2>3. Stages(f)[k] \subseteq Schemas
      BY <1>3
    <2>4. \A s \in Stages(f)[k] : Database!Undisturbed(Script[f][k + 1], s) \in Schemas
      BY <2>1, <2>3, UndisturbedTyped
    <2> QED  BY <2>1, <2>2, <2>4 DEF After
  <1>4. 0 .. N \subseteq T
    <2> HIDE DEF T, N
    <2> QED  BY <1>1, <1>2, <1>3, UpTo
  <1> QED  BY <1>4

LEMMA WholeTyped ==
    /\ \A n \in 0 .. Len(Script) : Database!Whole[n] \subseteq Schemas
    /\ \A f \in DOMAIN Script : \A k \in 0 .. Len(Script[f]) : Stages(f)[k] \subseteq Schemas
  <1> DEFINE N == Len(Script)
             T == {n \in 0 .. N : Database!Whole[n] \subseteq Schemas}
  <1>1. N \in Nat /\ 1 .. N = DOMAIN Script
    BY ScriptIs
  <1>2. 0 \in T
    BY <1>1, WholeIs, EmptyIs
  <1>3. ASSUME NEW n \in 0 .. N, n \in T, n < N PROVE n + 1 \in T
    <2>1. n + 1 \in DOMAIN Script /\ (n + 1) - 1 = n
      BY <1>1, <1>3
    <2>2. Database!Whole[(n + 1) - 1] \subseteq Schemas
      BY <1>3, <2>1
    <2>3. Len(Script[n + 1]) \in Nat
      BY <2>1, ScriptIs
    <2>4. Stages(n + 1)[Len(Script[n + 1])] \subseteq Schemas
      BY <2>1, <2>2, <2>3, StagesTyped
    <2> QED  BY <1>1, <2>1, <2>4, StagesAre
  <1>4. 0 .. N \subseteq T
    <2> HIDE DEF T, N
    <2> QED  BY <1>1, <1>2, <1>3, UpTo
  <1>5. \A n \in 0 .. N : Database!Whole[n] \subseteq Schemas
    BY <1>4
  <1>6. \A f \in DOMAIN Script : \A k \in 0 .. Len(Script[f]) : Stages(f)[k] \subseteq Schemas
    <2> SUFFICES ASSUME NEW f \in DOMAIN Script
                 PROVE  \A k \in 0 .. Len(Script[f]) : Stages(f)[k] \subseteq Schemas
      OBVIOUS
    <2>1. f - 1 \in 0 .. N
      BY <1>1
    <2> QED  BY <1>5, <2>1, StagesTyped
  <1> QED  BY <1>5, <1>6

\* What statements that can be run again have made stays while they go on.
LEMMA MadeIsThere ==
    ASSUME NEW f \in DOMAIN Script, NEW m \in 0 .. Len(Script[f]), Database!AllMake(Script[f], m)
    PROVE  \A j \in 1 .. m : \A s \in Stages(f)[m] : Script[f][j].to \subseteq DOMAIN s
  <1> DEFINE T == {n \in 0 .. m : \A j \in 1 .. n : \A s \in Stages(f)[n] : Script[f][j].to \subseteq DOMAIN s}
  <1>1. m \in Nat /\ 1 .. m \subseteq DOMAIN Script[f] /\ 0 .. m \subseteq 0 .. Len(Script[f])
    BY ScriptIs
  <1>2. 0 \in T
    BY <1>1
  <1>3. ASSUME NEW n \in 0 .. m, n \in T, n < m PROVE n + 1 \in T
    <2> DEFINE st == Script[f][n + 1]
    <2>1. n + 1 \in 1 .. m /\ (n + 1) - 1 = n /\ n + 1 \in 0 .. m /\ n + 1 \in DOMAIN Script[f]
      BY <1>1, <1>3
    <2>2. st.op = "make" /\ st.from = {}
      BY <2>1, ScriptIs DEF Database!AllMake
    <2>3. Stages(f)[n + 1] = After(st, Stages(f)[n])
      BY <2>1, StagesAre
    <2>4. Stages(f)[n] \subseteq Schemas
      BY <1>1, WholeTyped
    <2> HIDE DEF st
    <2>5. ASSUME NEW s \in Stages(f)[n]
          PROVE  DOMAIN Database!Undisturbed(st, s) = DOMAIN s \cup st.to
      BY <2>2, <2>4, MakeIs DEF Database!Undisturbed
    <2>6. ASSUME NEW j \in 1 .. n + 1, NEW t \in Stages(f)[n + 1] PROVE Script[f][j].to \subseteq DOMAIN t
      <3>1. PICK s \in Stages(f)[n] : t = Database!Undisturbed(st, s)
        BY <2>3 DEF After
      <3>2. DOMAIN t = DOMAIN s \cup st.to
        BY <2>5, <3>1
      <3>3. CASE j \in 1 .. n
        BY <1>3, <3>2, <3>3
      <3>4. CASE j = n + 1
        BY <3>2, <3>4 DEF st
      <3> QED  BY <3>3, <3>4
    <2> QED  BY <2>1, <2>6
  <1>4. 0 .. m \subseteq T
    <2> HIDE DEF T
    <2> QED  BY <1>1, <1>2, <1>3, UpTo
  <1> QED  BY <1>1, <1>4

\* Between two scripts the schema is a whole one, or one that the next script has left
\* behind and will not mind: its end, unrecorded, or statements that can be run again.
Settled(n) ==
    \/ schema \in Database!Whole[n]
    \/ /\ n < shipped
       /\ \/ schema \in Database!Whole[n + 1]
          \/ \E m \in DOMAIN Script[n + 1] :
                 Database!AllMake(Script[n + 1], m) /\ schema \in Stages(n + 1)[m]

\* Before statement k of script n + 1.
Within(n, k) ==
    \/ schema \in Stages(n + 1)[k - 1]
    \/ /\ Database!AllMake(Script[n + 1], k - 1)
       /\ \/ schema \in Database!Whole[n + 1]
          \/ \E m \in DOMAIN Script[n + 1] :
                 k <= m /\ Database!AllMake(Script[n + 1], m) /\ schema \in Stages(n + 1)[m]

\* With n scripts recorded.
Standing(n) ==
    CASE process.pc = "down" -> Settled(n)
      [] process.pc = "serving" -> n > 0 /\ schema \in Database!Whole[n]
      [] process.pc = "select" -> process.file \in 1 .. n + 1 /\ Settled(n)
      [] process.pc = "script" -> n < shipped /\ process.file = n + 1 /\ Within(n, process.next)
      [] process.pc = "record" -> n < shipped /\ process.file = n + 1 /\ schema \in Database!Whole[n + 1]

\* As long as no script has been cut short.
SchemaInv == cuts = 0 => \E n \in 0 .. shipped : recorded = 1 .. n /\ Standing(n)

TypedInv == Database!TypeOK /\ schema \in Schemas

\* What process is, by its pc.
LEMMA ByPc ==
    ASSUME Database!TypeOK
    PROVE  /\ process.pc \in {"down", "serving", "select", "script", "record"}
           /\ process.pc = "down" => process = Database!Halted
           /\ process.pc = "serving" => process = Database!Serving
           /\ process.pc = "select" => process = [pc |-> "select", file |-> process.file]
                                       /\ process.file \in 1 .. Len(Script) + 1
           /\ process.pc = "record" => process = [pc |-> "record", file |-> process.file]
                                       /\ process.file \in DOMAIN Script
           /\ process.pc = "script" =>
                 /\ process = [pc |-> "script", file |-> process.file, next |-> process.next]
                 /\ process.file \in DOMAIN Script
                 /\ process.next \in DOMAIN Script[process.file]
  <1>1. CASE process \in {Database!Halted, Database!Serving}
    BY <1>1 DEF Database!Halted, Database!Serving
  <1>2. CASE process \in [pc : {"select"}, file : 1 .. Len(Script) + 1]
    BY <1>2
  <1>3. CASE process \in [pc : {"record"}, file : DOMAIN Script]
    BY <1>3
  <1>4. CASE process \in [pc : {"script"}, file : DOMAIN Script, next : Nat] /\ process.next \in DOMAIN Script[process.file]
    BY <1>4
  <1> QED  BY <1>1, <1>2, <1>3, <1>4 DEF Database!TypeOK, Database!Statements

LEMMA TypedInit == Database!Init => TypedInv
  <1> SUFFICES ASSUME Database!Init PROVE TypedInv
    OBVIOUS
  <1>1. schema \in Schemas
    BY EmptyIs DEF Database!Init
  <1>2. shipped \in DOMAIN Script
    BY ScriptIs, DatabaseAssumption DEF Database!Init, Database!ReleaseAssumption
  <1>3. process \in {Database!Halted, Database!Serving} /\ recorded \subseteq DOMAIN Script /\ cuts \in 0 .. MaxCuts
    BY DatabaseAssumption DEF Database!Init, Database!CutsAssumption
  <1> QED  BY <1>1, <1>2, <1>3, SchemaIs DEF TypedInv, Database!TypeOK

\* Of a schema only that it is one matters.
LEMMA TypedFrom ==
    ASSUME schema' \in Schemas, recorded' \subseteq DOMAIN Script, shipped' \in DOMAIN Script,
           cuts' \in 0 .. MaxCuts,
           \/ process' \in {Database!Halted, Database!Serving}
           \/ \E f \in 1 .. Len(Script) + 1 : process' = [pc |-> "select", file |-> f]
           \/ \E f \in DOMAIN Script : process' = [pc |-> "record", file |-> f]
           \/ \E f \in DOMAIN Script : \E k \in DOMAIN Script[f] :
                 process' = [pc |-> "script", file |-> f, next |-> k]
    PROVE  TypedInv'
  <1>1. \/ process' \in {Database!Halted, Database!Serving}
        \/ process' \in [pc : {"select"}, file : 1 .. Len(Script) + 1]
        \/ process' \in [pc : {"record"}, file : DOMAIN Script]
        \/ process' \in [pc : {"script"}, file : DOMAIN Script, next : Nat] /\ process'.next \in DOMAIN Script[process'.file]
    <2>1. ASSUME NEW f \in DOMAIN Script, NEW k \in DOMAIN Script[f] PROVE k \in Nat
      BY ScriptIs
    <2> QED  BY <2>1
  <1> QED  BY <1>1, SchemaIs DEF TypedInv, Database!TypeOK, Database!Statements, Database!Halted, Database!Serving

\* What an Execute does, and where the script stands then.
LEMMA ExecuteIs ==
    ASSUME TypedInv, Database!Execute
    PROVE  LET f == process.file
               k == process.next
               st == Script[f][k]
           IN  /\ process.pc = "script" /\ f \in DOMAIN Script /\ k \in DOMAIN Script[f] /\ st \in Statement
               /\ UNCHANGED <<recorded, shipped, cuts>>
               /\ IF Database!Outcome(st, schema) = "done"
                  THEN /\ schema' = Database!Effect(st, schema)
                       /\ process' = IF k = Len(Script[f]) THEN [pc |-> "record", file |-> f]
                                     ELSE [pc |-> "script", file |-> f, next |-> k + 1]
                  ELSE /\ schema' = schema
                       /\ process' = IF Database!Outcome(st, schema) = "duplicate column name"
                                     THEN [pc |-> "record", file |-> f] ELSE Database!Halted
  <1>1. process.pc = "script"
    BY DEF Database!Execute
  <1>2. /\ process = [pc |-> "script", file |-> process.file, next |-> process.next]
        /\ process.file \in DOMAIN Script /\ process.next \in DOMAIN Script[process.file]
    BY <1>1, ByPc DEF TypedInv
  <1>3. Script[process.file][process.next] \in Statement
    BY <1>2, ScriptIs
  <1>4. [process EXCEPT !.next = @ + 1] = [pc |-> "script", file |-> process.file, next |-> process.next + 1]
    BY <1>2
  <1> QED  BY <1>1, <1>2, <1>3, <1>4 DEF Database!Execute, Database!Ran, Database!Recording, Database!Statements

LEMMA TypedStep == TypedInv /\ [Database!Next]_(Database!vars) => TypedInv'
  <1> SUFFICES ASSUME TypedInv, [Database!Next]_(Database!vars) PROVE TypedInv'
    OBVIOUS
  <1>0. /\ schema \in Schemas /\ recorded \subseteq DOMAIN Script /\ shipped \in DOMAIN Script
        /\ cuts \in 0 .. MaxCuts /\ MaxCuts \in Nat
    BY DatabaseAssumption DEF TypedInv, Database!TypeOK, Database!CutsAssumption
  <1>s. shipped \in 1 .. Len(Script) /\ DOMAIN Script = 1 .. Len(Script) /\ Len(Script) \in Nat
    BY <1>0, ScriptIs
  <1>1. CASE Database!Start
    <2>1. process' = [pc |-> "select", file |-> 1] /\ 1 \in 1 .. Len(Script) + 1
      BY <1>1, <1>s DEF Database!Start
    <2> QED  BY <1>0, <1>1, <2>1, TypedFrom DEF Database!Start
  <1>2. CASE Database!Select
    <2>1. process.pc = "select" /\ process.file \in 1 .. Len(Script) + 1 /\ process.file <= shipped
      BY <1>2, ByPc DEF TypedInv, Database!Select
    <2>2. process.file \in DOMAIN Script /\ process.file + 1 \in 1 .. Len(Script) + 1
      BY <1>s, <2>1
    <2>3. 1 \in DOMAIN Script[process.file]
      BY <2>2, ScriptIs
    <2>4. process' \in {[process EXCEPT !.file = @ + 1], [pc |-> "script", file |-> process.file, next |-> 1]}
      BY <1>2 DEF Database!Select
    <2>5. [process EXCEPT !.file = @ + 1] = [pc |-> "select", file |-> process.file + 1]
      BY <2>1, ByPc DEF TypedInv
    <2> QED  BY <1>0, <1>2, <2>2, <2>3, <2>4, <2>5, TypedFrom DEF Database!Select
  <1>3. CASE Database!Execute
    <2> DEFINE f == process.file
               k == process.next
               st == Script[f][k]
    <2>1. f \in DOMAIN Script /\ k \in DOMAIN Script[f] /\ st \in Statement
          /\ UNCHANGED <<recorded, shipped, cuts>>
      BY <1>3, ExecuteIs
    <2>2. st.op \in {"rename", "move", "copy"} => st.from # {}
      BY <2>1, ScriptIs
    <2>3. \/ schema' = Database!Effect(st, schema) /\ Database!Outcome(st, schema) = "done"
          \/ schema' = schema
      BY <1>3, ExecuteIs
    <2>4. schema' \in Schemas
      <3> HIDE DEF st
      <3> QED  BY <1>0, <2>1, <2>2, <2>3, EffectTyped
    <2>5. \/ process' = Database!Halted
          \/ process' = [pc |-> "record", file |-> f]
          \/ process' = [pc |-> "script", file |-> f, next |-> k + 1] /\ k # Len(Script[f])
      BY <1>3, ExecuteIs
    <2>6. k # Len(Script[f]) => k + 1 \in DOMAIN Script[f]
      BY <2>1, ScriptIs
    <2> HIDE DEF f, k, st
    <2> QED  BY <1>0, <2>1, <2>4, <2>5, <2>6, TypedFrom
  <1>4. CASE Database!Record
    <2>1. process.pc = "record" /\ process.file \in DOMAIN Script
      BY <1>4, ByPc DEF TypedInv, Database!Record
    <2>2. process.file + 1 \in 1 .. Len(Script) + 1
      BY <1>s, <2>1
    <2> QED  BY <1>0, <1>4, <2>1, <2>2, TypedFrom DEF Database!Record
  <1>5. CASE Database!Serve
    <2>1. process' \in {Database!Halted, Database!Serving}
      BY <1>5 DEF Database!Serve
    <2> QED  BY <1>0, <1>5, <2>1, TypedFrom DEF Database!Serve
  <1>6. CASE Database!Stop
    <2>1. cuts' \in 0 .. MaxCuts
      BY <1>0, <1>6 DEF Database!Stop
    <2> QED  BY <1>0, <1>6, <2>1, TypedFrom DEF Database!Stop
  <1>7. CASE Database!Upgrade
    <2>1. shipped' \in DOMAIN Script
      BY <1>7, <1>s DEF Database!Upgrade
    <2>2. process' \in {Database!Halted, Database!Serving}
      BY <1>7 DEF Database!Upgrade
    <2> QED  BY <1>0, <1>7, <2>1, <2>2, TypedFrom DEF Database!Upgrade
  <1>8. CASE UNCHANGED Database!vars
    <2>1. UNCHANGED <<schema, recorded, shipped, process, cuts>>
      BY <1>8 DEF Database!vars
    <2> QED  BY <2>1 DEF TypedInv, Database!TypeOK, Database!Statements
  <1> QED  BY <1>1, <1>2, <1>3, <1>4, <1>5, <1>6, <1>7, <1>8 DEF Database!Next, Database!StartUp

LEMMA SchemaInit == Database!Init => SchemaInv
  <1> SUFFICES ASSUME Database!Init PROVE Standing(0) /\ 0 \in 0 .. shipped /\ recorded = 1 .. 0
    BY DEF SchemaInv
  <1>1. process.pc = "down" /\ recorded = {} /\ schema = <<>> /\ shipped \in Oldest .. Len(Script)
    BY DEF Database!Init, Database!Halted
  <1>2. 0 \in 0 .. shipped
    BY <1>1, ScriptIs, DatabaseAssumption DEF Database!ReleaseAssumption
  <1>3. schema \in Database!Whole[0]
    BY <1>1, ScriptIs, WholeIs
  <1> QED  BY <1>1, <1>2, <1>3 DEF Standing, Settled

\* The state of a start-up that no script has been cut short in.
LEMMA Undisturbedly ==
    ASSUME TypedInv, SchemaInv, cuts = 0
    PROVE  \E n \in 0 .. shipped :
             /\ recorded = 1 .. n /\ Standing(n)
             /\ n \in Nat /\ shipped \in Nat /\ n <= shipped /\ shipped <= Len(Script) /\ Len(Script) \in Nat
             /\ n < shipped => n + 1 \in DOMAIN Script
  <1>1. PICK n \in 0 .. shipped : recorded = 1 .. n /\ Standing(n)
    BY DEF SchemaInv
  <1>2. shipped \in 1 .. Len(Script) /\ Len(Script) \in Nat /\ DOMAIN Script = 1 .. Len(Script)
    BY ScriptIs DEF TypedInv, Database!TypeOK
  <1> QED  BY <1>1, <1>2

\* A statement of an undisturbed run.
LEMMA OneOn ==
    ASSUME NEW f \in DOMAIN Script, NEW k \in DOMAIN Script[f], NEW s \in Stages(f)[k - 1]
    PROVE  \/ /\ Database!Outcome(Script[f][k], s) = "done"
              /\ Database!Effect(Script[f][k], s) \in Stages(f)[k]
           \/ /\ Database!Outcome(Script[f][k], s) = "duplicate column name"
              /\ k = Len(Script[f]) /\ s \in Stages(f)[k]
  <1>1. \/ Database!Outcome(Script[f][k], s) = "done"
        \/ Database!Outcome(Script[f][k], s) = "duplicate column name" /\ k = Len(Script[f])
    BY FilesAssumption DEF Database!RunsThrough, Stages
  <1>2. Database!Undisturbed(Script[f][k], s) \in Stages(f)[k]
    BY StagesAre DEF After
  <1> QED  BY <1>1, <1>2 DEF Database!Undisturbed

\* One that is run again changes nothing.
LEMMA OneAgain ==
    ASSUME NEW f \in DOMAIN Script, NEW k \in DOMAIN Script[f], NEW m \in DOMAIN Script[f], k <= m,
           Database!AllMake(Script[f], m), NEW s \in Stages(f)[m]
    PROVE  Database!Outcome(Script[f][k], s) = "done" /\ Database!Effect(Script[f][k], s) = s
  <1>1. k \in 1 .. m /\ m \in 0 .. Len(Script[f])
    BY ScriptIs
  <1>2. Script[f][k].op = "make" /\ Script[f][k].from = {} /\ Script[f][k].to \subseteq DOMAIN s
    BY <1>1, ScriptIs, MadeIsThere DEF Database!AllMake
  <1>3. s \in Schemas
    BY <1>1, WholeTyped
  <1> QED  BY <1>2, <1>3, MakeIs

\* After the end of the script too, up to the first that fails.
LEMMA EndAgain ==
    ASSUME NEW f \in DOMAIN Script, NEW k \in DOMAIN Script[f], Database!AllMake(Script[f], k - 1),
           NEW s \in Database!Whole[f]
    PROVE  \/ /\ Script[f][k].op = "make"
              /\ Database!Outcome(Script[f][k], s) = "done" /\ Database!Effect(Script[f][k], s) = s
           \/ Database!Outcome(Script[f][k], s) = "duplicate column name"
  <1>1. CASE Script[f][k].op = "make"
    <2>1. Script[f][k].to \subseteq DOMAIN s
      BY <1>1, FilesAssumption DEF Database!EndsAgain
    <2>2. s \in Schemas
      BY ScriptIs, WholeTyped
    <2>3. Script[f][k].from = {}
      BY <1>1, ScriptIs
    <2> QED  BY <1>1, <2>1, <2>2, <2>3, MakeIs
  <1>2. CASE Script[f][k].op # "make"
    BY <1>2, FilesAssumption DEF Database!EndsAgain
  <1> QED  BY <1>1, <1>2

\* A statement more, in each of the ways the script may stand.
LEMMA WithinStep ==
    ASSUME NEW n \in Nat, n + 1 \in DOMAIN Script, NEW k \in DOMAIN Script[n + 1], Within(n, k),
           schema' = IF Database!Outcome(Script[n + 1][k], schema) = "done"
                     THEN Database!Effect(Script[n + 1][k], schema) ELSE schema
    PROVE  /\ Database!Outcome(Script[n + 1][k], schema) \in {"done", "duplicate column name"}
           /\ Database!Outcome(Script[n + 1][k], schema) # "done" \/ k = Len(Script[n + 1])
                => schema' \in Database!Whole[n + 1]
           /\ Database!Outcome(Script[n + 1][k], schema) = "done" /\ k # Len(Script[n + 1])
                => Within(n, k + 1)'
  <1> DEFINE f == n + 1
             st == Script[n + 1][k]
             said == Database!Outcome(st, schema)
             N == Len(Script[n + 1])
  <1>1. /\ f \in DOMAIN Script /\ N \in Nat /\ DOMAIN Script[f] = 1 .. N /\ k \in 1 .. N
        /\ (k + 1) - 1 = k /\ Database!Whole[f] = Stages(f)[N] /\ k \in Nat
    BY ScriptIs, StagesAre
  <1>2. CASE schema \in Stages(f)[k - 1]
    <2>1. \/ said = "done" /\ Database!Effect(st, schema) \in Stages(f)[k]
          \/ said = "duplicate column name" /\ k = N /\ schema \in Stages(f)[k]
      BY <1>1, <1>2, OneOn
    <2>2. schema' \in Stages(f)[k] /\ said \in {"done", "duplicate column name"} /\ (said # "done" => k = N)
      BY <2>1
    <2>3. k # N => Within(n, k + 1)'
      BY <1>1, <2>2 DEF Within, Stages
    <2>4. k = N => schema' \in Database!Whole[f]
      BY <1>1, <2>2
    <2> HIDE DEF N, st, said
    <2> QED  BY <2>2, <2>3, <2>4 DEF N, st, said
  <1>3. CASE Database!AllMake(Script[f], k - 1) /\ schema \in Database!Whole[f]
    <2>1. \/ st.op = "make" /\ said = "done" /\ Database!Effect(st, schema) = schema
          \/ said = "duplicate column name"
      BY <1>1, <1>3, EndAgain
    <2>2. schema' \in Database!Whole[f] /\ said \in {"done", "duplicate column name"}
      BY <1>3, <2>1
    <2>3. said = "done" => Database!AllMake(Script[f], (k + 1) - 1)
      BY <1>1, <1>3, <2>1 DEF Database!AllMake
    <2>4. said = "done" => Within(n, k + 1)'
      BY <2>2, <2>3 DEF Within
    <2> QED  BY <2>2, <2>4
  <1>4. CASE /\ Database!AllMake(Script[f], k - 1)
             /\ \E m \in DOMAIN Script[f] :
                   k <= m /\ Database!AllMake(Script[f], m) /\ schema \in Stages(f)[m]
    <2>1. PICK m \in DOMAIN Script[f] : k <= m /\ Database!AllMake(Script[f], m) /\ schema \in Stages(f)[m]
      BY <1>4
    <2>2. said = "done" /\ Database!Effect(st, schema) = schema
      BY <1>1, <2>1, OneAgain
    <2>3. schema' = schema
      BY <2>2
    <2>4. k = N => schema' \in Database!Whole[f]
      BY <1>1, <2>1, <2>3
    <2>5. Database!AllMake(Script[f], k)
      BY <1>1, <2>1 DEF Database!AllMake
    <2>6. schema' \in Stages(f)[k] \/ k + 1 <= m
      BY <1>1, <2>1, <2>3
    <2>7. Within(n, k + 1)'
      BY <1>1, <2>1, <2>3, <2>5, <2>6 DEF Within, Stages
    <2> QED  BY <2>2, <2>4, <2>7
  <1> QED  BY <1>2, <1>3, <1>4 DEF Within

\* More scripts to come change nothing for those there are.
LEMMA SettledOn ==
    ASSUME NEW n \in Nat, Settled(n), UNCHANGED schema, shipped \in Nat, shipped' \in Nat, shipped <= shipped'
    PROVE  Settled(n)'
  BY DEF Settled, Stages

\* Where the script stands, it may be left.
LEMMA WithinLeft ==
    ASSUME NEW n \in Nat, n < shipped, n + 1 \in DOMAIN Script, NEW k \in DOMAIN Script[n + 1],
           Within(n, k), Database!AllMake(Script[n + 1], k - 1)
    PROVE  Settled(n)
  <1>1. k \in Nat \ {0} /\ k - 1 \in Nat /\ (n + 1) - 1 = n /\ DOMAIN Script[n + 1] = 1 .. Len(Script[n + 1])
        /\ Len(Script[n + 1]) \in Nat
    BY ScriptIs
  <1>2. CASE schema \in Stages(n + 1)[k - 1]
    <2>1. CASE k = 1
      <3>1. Stages(n + 1)[0] = Database!Whole[n]
        BY <1>1, StagesAre
      <3> QED  BY <1>2, <2>1, <3>1 DEF Settled
    <2>2. CASE k # 1
      <3>1. k - 1 \in DOMAIN Script[n + 1]
        BY <1>1, <2>2
      <3> QED  BY <1>2, <3>1 DEF Settled
    <2> QED  BY <2>1, <2>2
  <1>3. CASE schema \in Database!Whole[n + 1]
    BY <1>3 DEF Settled
  <1>4. CASE \E m \in DOMAIN Script[n + 1] : Database!AllMake(Script[n + 1], m) /\ schema \in Stages(n + 1)[m]
    BY <1>4 DEF Settled
  <1> QED  BY <1>2, <1>3, <1>4 DEF Within

\* A script begins where the one before has ended, or has been left.
LEMMA WithinFirst ==
    ASSUME NEW n \in Nat, n + 1 \in DOMAIN Script, Settled(n), UNCHANGED schema
    PROVE  Within(n, 1)'
  <1>1. Stages(n + 1)[1 - 1] = Database!Whole[n]
    <2>1. (n + 1) - 1 = n /\ 1 - 1 = 0
      OBVIOUS
    <2> QED  BY <2>1, StagesAre
  <1>2. Database!AllMake(Script[n + 1], 1 - 1)
    BY DEF Database!AllMake
  <1>3. \A m \in DOMAIN Script[n + 1] : 1 <= m
    BY ScriptIs
  <1> QED  BY <1>1, <1>2, <1>3 DEF Settled, Within, Stages

LEMMA SchemaStep ==
    TypedInv /\ SchemaInv /\ [Database!Next]_(Database!vars) => SchemaInv'
  <1> SUFFICES ASSUME TypedInv, SchemaInv, [Database!Next]_(Database!vars), cuts' = 0 PROVE SchemaInv'
    BY DEF SchemaInv
  <1>0. cuts = 0
    <2>1. cuts \in Nat
      BY DatabaseAssumption DEF TypedInv, Database!TypeOK, Database!CutsAssumption
    <2>2. cuts' = cuts \/ cuts' = cuts + 1
      BY DEF Database!Next, Database!StartUp, Database!Start, Database!Select, Database!Execute, Database!Record,
             Database!Serve, Database!Stop, Database!Upgrade, Database!vars
    <2> QED  BY <2>1, <2>2
  <1>n. PICK n \in 0 .. shipped :
             /\ recorded = 1 .. n /\ Standing(n)
             /\ n \in Nat /\ shipped \in Nat /\ n <= shipped /\ shipped <= Len(Script) /\ Len(Script) \in Nat
             /\ n < shipped => n + 1 \in DOMAIN Script
    BY <1>0, Undisturbedly
  <1>f. ASSUME recorded' = 1 .. n, Standing(n)', n <= shipped', shipped' \in Nat PROVE SchemaInv'
    BY <1>f, <1>n DEF SchemaInv
  <1>1. CASE Database!Start
    <2>1. process.pc = "down" /\ process' = [pc |-> "select", file |-> 1] /\ UNCHANGED <<schema, recorded, shipped>>
      BY <1>1 DEF Database!Start, Database!Halted
    <2>2. Settled(n)'
      BY <1>n, <2>1, SettledOn DEF Standing
    <2>3. Standing(n)'
      BY <1>n, <2>1, <2>2 DEF Standing
    <2> QED  BY <1>f, <1>n, <2>1, <2>3
  <1>2. CASE Database!Select
    <2>1. /\ process.pc = "select" /\ process.file <= shipped /\ UNCHANGED <<schema, recorded, shipped>>
          /\ process = [pc |-> "select", file |-> process.file]
          /\ process.file \in 1 .. n + 1 /\ Settled(n)
      BY <1>2, <1>n, ByPc DEF Database!Select, Standing, TypedInv
    <2>2. CASE process.file \in recorded
      <3>1. process' = [pc |-> "select", file |-> process.file + 1]
        BY <1>2, <2>1, <2>2 DEF Database!Select
      <3>2. process.file + 1 \in 1 .. n + 1
        BY <1>n, <2>2
      <3>3. Settled(n)'
        BY <1>n, <2>1, SettledOn
      <3>4. Standing(n)'
        BY <3>1, <3>2, <3>3 DEF Standing
      <3> QED  BY <1>f, <1>n, <2>1, <3>4
    <2>3. CASE process.file \notin recorded
      <3>1. process' = [pc |-> "script", file |-> process.file, next |-> 1]
        BY <1>2, <2>3 DEF Database!Select
      <3>2. process.file = n + 1 /\ n < shipped
        BY <1>n, <2>1, <2>3
      <3>3. Within(n, 1)'
        BY <1>n, <2>1, <3>2, WithinFirst
      <3>4. Standing(n)'
        BY <2>1, <3>1, <3>2, <3>3 DEF Standing
      <3> QED  BY <1>f, <1>n, <2>1, <3>4
    <2> QED  BY <2>2, <2>3
  <1>3. CASE Database!Execute
    <2>1. /\ process.pc = "script" /\ process.file \in DOMAIN Script
          /\ process.next \in DOMAIN Script[process.file]
          /\ UNCHANGED <<recorded, shipped, cuts>>
      BY <1>3, ExecuteIs
    <2>2. n < shipped /\ process.file = n + 1 /\ Within(n, process.next)
      BY <1>n, <2>1 DEF Standing
    <2>3. PICK k \in DOMAIN Script[n + 1] : k = process.next
      BY <2>1, <2>2
    <2>4. schema' = IF Database!Outcome(Script[n + 1][k], schema) = "done"
                    THEN Database!Effect(Script[n + 1][k], schema) ELSE schema
      BY <1>3, <2>2, <2>3, ExecuteIs
    <2>5. /\ Database!Outcome(Script[n + 1][k], schema) \in {"done", "duplicate column name"}
          /\ Database!Outcome(Script[n + 1][k], schema) # "done" \/ k = Len(Script[n + 1])
                => schema' \in Database!Whole[n + 1]
          /\ Database!Outcome(Script[n + 1][k], schema) = "done" /\ k # Len(Script[n + 1])
                => Within(n, k + 1)'
      <3>1. n \in Nat /\ n + 1 \in DOMAIN Script /\ Within(n, k)
        BY <1>n, <2>2, <2>3
      <3> QED  BY <3>1, <2>4, WithinStep
    <2>6. process' = IF Database!Outcome(Script[n + 1][k], schema) # "done" \/ k = Len(Script[n + 1])
                     THEN [pc |-> "record", file |-> n + 1]
                     ELSE [pc |-> "script", file |-> n + 1, next |-> k + 1]
      BY <1>3, <2>2, <2>3, <2>5, ExecuteIs
    <2>7. Standing(n)'
      <3>1. CASE Database!Outcome(Script[n + 1][k], schema) # "done" \/ k = Len(Script[n + 1])
        <4>1. process' = [pc |-> "record", file |-> n + 1] /\ schema' \in Database!Whole[n + 1]
          BY <2>5, <2>6, <3>1
        <4> QED  BY <2>1, <2>2, <4>1 DEF Standing
      <3>2. CASE ~(Database!Outcome(Script[n + 1][k], schema) # "done" \/ k = Len(Script[n + 1]))
        <4>1. process' = [pc |-> "script", file |-> n + 1, next |-> k + 1] /\ Within(n, k + 1)'
          BY <2>5, <2>6, <3>2
        <4>2. process'.pc = "script" /\ process'.file = n + 1 /\ process'.next = k + 1
          BY <4>1
        <4>3. Within(n, process.next)'
          BY <4>1, <4>2 DEF Within, Stages
        <4> QED  BY <2>1, <2>2, <4>2, <4>3 DEF Standing
      <3> QED  BY <3>1, <3>2
    <2> QED  BY <1>f, <1>n, <2>1, <2>7
  <1>4. CASE Database!Record
    <2>1. /\ process.pc = "record" /\ recorded' = recorded \cup {process.file}
          /\ process' = [pc |-> "select", file |-> process.file + 1] /\ UNCHANGED <<schema, shipped>>
      BY <1>4 DEF Database!Record
    <2>2. n < shipped /\ process.file = n + 1 /\ schema \in Database!Whole[n + 1]
      BY <1>n, <2>1 DEF Standing
    <2>3. recorded' = 1 .. n + 1 /\ n + 1 \in 0 .. shipped'
      BY <1>n, <2>1, <2>2
    <2>4. Settled(n + 1)'
      BY <2>1, <2>2 DEF Settled
    <2>5. Standing(n + 1)'
      <3>1. process'.pc = "select" /\ process'.file \in 1 .. (n + 1) + 1
        BY <1>n, <2>1, <2>2
      <3> QED  BY <2>4, <3>1 DEF Standing
    <2> QED  BY <2>3, <2>5 DEF SchemaInv
  <1>5. CASE Database!Serve
    <2>1. process.pc = "select" /\ process.file > shipped /\ UNCHANGED <<schema, recorded, shipped>>
          /\ process' \in {Database!Serving, Database!Halted}
      BY <1>5 DEF Database!Serve
    <2>2. process.file \in 1 .. n + 1 /\ Settled(n)
      BY <1>n, <2>1 DEF Standing
    <2>3. n = shipped /\ schema \in Database!Whole[n]
      BY <1>n, <2>1, <2>2 DEF Settled
    <2>4. n > 0
      BY <2>3, ScriptIs DEF TypedInv, Database!TypeOK
    <2>5. Settled(n)'
      BY <1>n, <2>1, <2>2, SettledOn
    <2>6. Standing(n)'
      <3>1. CASE process' = Database!Serving
        BY <2>1, <2>3, <2>4, <3>1 DEF Standing, Database!Serving
      <3>2. CASE process' = Database!Halted
        BY <2>5, <3>2 DEF Standing, Database!Halted
      <3> QED  BY <2>1, <3>1, <3>2
    <2> QED  BY <1>f, <1>n, <2>1, <2>6
  <1>6. CASE Database!Stop
    <2>1. process' = Database!Halted /\ process # Database!Halted /\ UNCHANGED <<schema, recorded, shipped>>
      BY <1>6 DEF Database!Stop
    <2>2. ~Database!HalfDone
      BY <1>0, <1>6 DEF Database!Stop
    <2>3. Settled(n)
      <3>1. CASE process.pc = "script"
        <4>1. n < shipped /\ process.file = n + 1 /\ Within(n, process.next)
          BY <1>n, <3>1 DEF Standing
        <4>2. process.next \in DOMAIN Script[n + 1]
          BY <3>1, <4>1, ByPc DEF TypedInv
        <4>3. Database!AllMake(Script[n + 1], process.next - 1)
          BY <2>2, <3>1, <4>1 DEF Database!HalfDone, Database!AllMake, Database!Statements
        <4> QED  BY <1>n, <4>1, <4>2, <4>3, WithinLeft
      <3>2. CASE process.pc = "record"
        BY <1>n, <3>2 DEF Standing, Settled
      <3>3. CASE process.pc \in {"down", "select", "serving"}
        BY <1>n, <3>3 DEF Standing, Settled
      <3> QED  BY <3>1, <3>2, <3>3, ByPc DEF TypedInv
    <2>4. Settled(n)'
      BY <1>n, <2>1, <2>3, SettledOn
    <2>5. Standing(n)'
      BY <2>1, <2>4 DEF Standing, Database!Halted
    <2> QED  BY <1>f, <1>n, <2>1, <2>5
  <1>7. CASE Database!Upgrade
    <2>1. /\ process \in {Database!Halted, Database!Serving} /\ shipped' \in shipped + 1 .. Len(Script)
          /\ UNCHANGED <<schema, recorded, process>>
      BY <1>7 DEF Database!Upgrade
    <2>2. shipped' \in Nat /\ shipped <= shipped'
      BY <1>n, <2>1
    <2>3. Standing(n)'
      <3>1. CASE process = Database!Halted
        <4>1. Settled(n)'
          BY <1>n, <2>1, <2>2, <3>1, SettledOn DEF Standing, Database!Halted
        <4> QED  BY <2>1, <3>1, <4>1 DEF Standing, Database!Halted
      <3>2. CASE process = Database!Serving
        BY <1>n, <2>1, <3>2 DEF Standing, Database!Serving
      <3> QED  BY <2>1, <3>1, <3>2
    <2> QED  BY <1>f, <1>n, <2>1, <2>2, <2>3
  <1>8. CASE UNCHANGED Database!vars
    <2>1. UNCHANGED <<schema, recorded, shipped, process>>
      BY <1>8 DEF Database!vars
    <2>2. Standing(n)'
      BY <1>n, <2>1 DEF Standing, Settled, Within, Stages
    <2> QED  BY <1>f, <1>n, <2>1, <2>2
  <1> QED  BY <1>1, <1>2, <1>3, <1>4, <1>5, <1>6, <1>7, <1>8 DEF Database!Next, Database!StartUp

LEMMA Started == Database!Spec => [](TypedInv /\ SchemaInv)
  BY TypedInit, TypedStep, SchemaInit, SchemaStep, PTL DEF Database!Spec

\* For any scripts that run through once and take being run again as those of the
\* repository do, whatever stops, failures and upgrades there have been: as long as none
\* was cut short, the application serves on the schema its code was written for.
THEOREM ServedComplete == Database!Spec => []ServesComplete
  <1>1. TypedInv /\ SchemaInv => ServesComplete
    <2> SUFFICES ASSUME TypedInv, SchemaInv, process = Database!Serving, cuts = 0
                 PROVE  \E n \in 1 .. shipped : recorded = 1 .. n /\ schema \in Database!Whole[n]
      BY DEF ServesComplete, Database!ServesComplete
    <2>1. PICK n \in 0 .. shipped : recorded = 1 .. n /\ Standing(n) /\ n \in Nat /\ shipped \in Nat /\ n <= shipped
      BY Undisturbedly
    <2>2. n > 0 /\ schema \in Database!Whole[n]
      BY <2>1 DEF Standing, Database!Serving
    <2>3. n \in 1 .. shipped
      BY <2>1, <2>2
    <2> QED  BY <2>1, <2>2, <2>3
  <1> QED  BY <1>1, Started, PTL

\* Nothing is lost on the way either, provided that it is not lost in a database that is
\* set up in one go: whoever upgrades has what whoever installs has.
THEOREM SchemaHolds ==
    ASSUME \A s \in Database!Whole[Len(Script)] : Database!InPlace(s)
    PROVE  Database!Spec => []SchemaKept
  <1>1. TypedInv /\ OrderInv /\ ServesComplete => SchemaKept
    <2> SUFFICES ASSUME TypedInv, ServesComplete, process = Database!Serving, cuts = 0, recorded = DOMAIN Script
                 PROVE  Database!InPlace(schema)
      BY DEF SchemaKept, TypedInv, OrderInv, Database!HierarchyKept
    <2>1. PICK n \in 1 .. shipped : recorded = 1 .. n /\ schema \in Database!Whole[n]
      BY DEF ServesComplete, Database!ServesComplete
    <2>2. n = Len(Script)
      <3>1. shipped \in 1 .. Len(Script) /\ Len(Script) \in Nat /\ DOMAIN Script = 1 .. Len(Script)
        BY ScriptIs DEF TypedInv, Database!TypeOK
      <3> DEFINE N == Len(Script)
                 last == shipped
      <3>2. last \in 1 .. N /\ N \in Nat /\ n \in 1 .. last /\ 1 .. N = 1 .. n
        BY <2>1, <3>1
      <3> HIDE DEF N, last
      <3>3. n \in Nat /\ n <= N /\ N \in 1 .. N /\ n # 0
        BY <3>2
      <3>4. N \in 1 .. n
        BY <3>2, <3>3
      <3>5. N <= n
        BY <3>4
      <3>6. n = N
        BY <3>2, <3>3, <3>5
      <3> QED  BY <3>6 DEF N
    <2> QED  BY <2>1, <2>2
  <1>2. Database!Spec => []TypedInv
    BY TypedInit, TypedStep, PTL DEF Database!Spec
  <1>3. Database!Spec => []OrderInv
    BY OrderInit, OrderStep, PTL DEF Database!Spec
  <1> QED  BY <1>1, <1>2, <1>3, ServedComplete, PTL

-----------------------------------------------------------------------------
(* Managed mode, where pktHub may lock visitors out (Access)               *)

Lock == [on : BOOLEAN \cup {None}, beat : Gate!Ages \cup {None}, url : BOOLEAN, token : Tokens \cup {None}]

Visitor == [at : {"idle", "lock", "beat", "release", "address", "serve"}, free : BOOLEAN, raced : BOOLEAN]

\* The lock, and the two histories that are told with it.
ManagedInv ==
    /\ lock \in Lock
    /\ lock.on = TRUE => lock.beat # None
    /\ quiet \in Gate!Ages /\ told = lock.url
    /\ lock.beat = quiet \/ (lock.beat = None /\ quiet > MaxAge)

\* Whoever has read the settings since the application was open knows it.
VisitorInv ==
    /\ visitor \in [Visitors -> Visitor]
    /\ \A v \in Visitors :
          /\ visitor[v].at # "idle" /\ ~Gate!Shut(lock, quiet, told) => visitor[v].free
          /\ visitor[v].at = "serve" => visitor[v].free
          /\ visitor[v].at = "release" => quiet > MaxAge \/ visitor[v].raced

\* Who has seen that there is no token has been overtaken as soon as there is one.
TokenInv ==
    /\ hub \in [token : Tokens \cup {None}, shows : BOOLEAN, at : {"idle", "beat"}, got : BOOLEAN]
    /\ admin \in [Admins -> [at : {"away", "write"}, raced : BOOLEAN]]
    /\ \A a \in Admins : admin[a].at = "write" => lock.token = None \/ admin[a].raced

AccessInv == ManagedInv /\ VisitorInv /\ TokenInv /\ errors \in 0 .. MaxFaults

LEMMA AgeOlder ==
    ASSUME Gate!AccessAssumption
    PROVE  /\ 0 \in Gate!Ages /\ MaxAge + 1 \in Gate!Ages /\ None \notin Gate!Ages /\ None # TRUE
           /\ \A g \in Gate!Ages : /\ Gate!Older(g) \in Gate!Ages /\ g \in Int
                                   /\ g > MaxAge => Gate!Older(g) > MaxAge
  <1>1. None # TRUE /\ None \notin Nat
    BY DEF Gate!AccessAssumption
  <1>2. /\ 0 \in Gate!Ages /\ MaxAge + 1 \in Gate!Ages /\ None \notin Gate!Ages
        /\ \A g \in Gate!Ages : /\ Gate!Older(g) \in Gate!Ages /\ g \in Int
                                /\ g > MaxAge => Gate!Older(g) > MaxAge
    BY <1>1 DEF Gate!AccessAssumption, Gate!Ages, Gate!Older
  <1> QED  BY <1>1, <1>2

\* r is l, but for the fields given.
Same(r, on, beat, url, token) ==
    r \in Lock /\ r.on = on /\ r.beat = beat /\ r.url = url /\ r.token = token

LEMMA Fields ==
    ASSUME NEW r \in Lock, NEW on \in BOOLEAN \cup {None}, NEW beat \in Gate!Ages \cup {None},
           NEW url \in BOOLEAN, NEW token \in Tokens \cup {None}
    PROVE  /\ Same([r EXCEPT !.on = on], on, r.beat, r.url, r.token)
           /\ Same([r EXCEPT !.beat = beat], r.on, beat, r.url, r.token)
           /\ Same([r EXCEPT !.url = url], r.on, r.beat, url, r.token)
           /\ Same([r EXCEPT !.token = token], r.on, r.beat, r.url, token)
           /\ Same([r EXCEPT !.on = on, !.beat = beat, !.url = url], on, beat, url, r.token)
  BY DEF Same, Lock

LEMMA LockStays ==
    ASSUME NEW on, NEW beat, NEW url, NEW token, Same(lock', on, beat, url, token),
           on = TRUE => beat # None, quiet' \in Gate!Ages, told' = url,
           beat = quiet' \/ (beat = None /\ quiet' > MaxAge)
    PROVE  ManagedInv' /\ lock'.token = token
  BY DEF Same, ManagedInv

\* The settings become others, and all who are under way take note.
LEMMA ChangeKeeps ==
    ASSUME VisitorInv, NEW l, NEW q, NEW t, NEW heard \in BOOLEAN, Gate!Change(l, q, t, heard),
           q > MaxAge \/ heard \/ ~(quiet > MaxAge)
    PROVE  VisitorInv'
  <1> DEFINE Changed(v) == [visitor[v] EXCEPT !.free = @ \/ ~Gate!Shut(l, q, t), !.raced = @ \/ heard]
  <1>1. lock' = l /\ quiet' = q /\ told' = t
    BY DEF Gate!Change
  <1>2. ASSUME NEW v \in Visitors
        PROVE  /\ visitor'[v] \in Visitor
               /\ visitor[v].at = "idle" => visitor'[v].at = "idle"
               /\ visitor[v].at # "idle" =>
                     /\ visitor'[v].at = visitor[v].at
                     /\ visitor'[v].free = (visitor[v].free \/ ~Gate!Shut(l, q, t))
                     /\ visitor'[v].raced = (visitor[v].raced \/ heard)
    <2>1. visitor[v] \in Visitor /\ Gate!Shut(l, q, t) \in BOOLEAN
      BY DEF VisitorInv, Gate!Shut
    <2>2. visitor'[v] = IF visitor[v].at = "idle" THEN Gate!Idle ELSE Changed(v)
      BY DEF Gate!Change
    <2>3. CASE visitor[v].at = "idle"
      BY <2>2, <2>3 DEF Visitor, Gate!Idle
    <2>4. CASE visitor[v].at # "idle"
      <3>1. visitor'[v] = Changed(v)
        BY <2>2, <2>4
      <3> HIDE DEF Changed
      <3>2. /\ Changed(v) \in Visitor /\ Changed(v).at = visitor[v].at
            /\ Changed(v).free = (visitor[v].free \/ ~Gate!Shut(l, q, t))
            /\ Changed(v).raced = (visitor[v].raced \/ heard)
        BY <2>1 DEF Visitor, Changed
      <3> QED  BY <2>4, <3>1, <3>2
    <2> QED  BY <2>3, <2>4
  <1>3. Gate!Shut(lock, quiet, told)' = Gate!Shut(l, q, t)
    BY <1>1 DEF Gate!Shut
  <1>4. visitor' \in [Visitors -> Visitor]
    BY <1>2 DEF Gate!Change
  <1> QED  BY <1>1, <1>2, <1>3, <1>4 DEF VisitorInv

\* The places of the visitors, when one of them goes on.
LEMMA OneMoves ==
    ASSUME VisitorInv, NEW v \in Visitors, NEW to \in Visitor, visitor' = [visitor EXCEPT ![v] = to],
           lock' = lock, quiet' = quiet, told' = told,
           to.at # "idle" /\ ~Gate!Shut(lock, quiet, told) => to.free,
           to.at = "serve" => to.free,
           to.at = "release" => quiet > MaxAge \/ to.raced
    PROVE  VisitorInv'
  <1>1. Gate!Shut(lock, quiet, told)' = Gate!Shut(lock, quiet, told)
    BY DEF Gate!Shut
  <1>2. /\ visitor' \in [Visitors -> Visitor]
        /\ \A u \in Visitors : visitor'[u] = to \/ visitor'[u] = visitor[u]
    BY DEF VisitorInv
  <1> QED  BY <1>1, <1>2 DEF VisitorInv

\* A hub that is accepted is the one that holds the token.
LEMMA Heard ==
    ASSUME Gate!AccessAssumption, ManagedInv, VisitorInv, Gate!HeartbeatWritten, UNCHANGED errors
    PROVE  ManagedInv' /\ VisitorInv' /\ lock'.token = lock.token
  <1>1. CASE Gate!Accepted
    <2>1. Gate!Change([lock EXCEPT !.beat = 0], 0, told, TRUE)
      BY <1>1 DEF Gate!HeartbeatWritten, Gate!Accepted, Gate!Genuine
    <2>2. VisitorInv'
      BY <2>1, ChangeKeeps
    <2>3. lock' = [lock EXCEPT !.beat = 0] /\ quiet' = 0 /\ told' = told
      BY <2>1 DEF Gate!Change
    <2>4. ManagedInv' /\ lock'.token = lock.token
      <3>1. Same(lock', lock.on, 0, lock.url, lock.token)
        BY <2>3, AgeOlder, Fields DEF ManagedInv
      <3>2. 0 # None /\ 0 \in Gate!Ages
        BY AgeOlder
      <3> QED  BY <2>3, <3>1, <3>2, LockStays DEF ManagedInv
    <2> QED  BY <2>2, <2>4
  <1>2. CASE ~Gate!Accepted
    <2>1. UNCHANGED <<lock, visitor, quiet, told>>
      BY <1>2 DEF Gate!HeartbeatWritten
    <2> QED  BY <2>1 DEF ManagedInv, VisitorInv, Gate!Shut
  <1> QED  BY <1>1, <1>2

LEMMA HubSteps ==
    ASSUME Gate!AccessAssumption, AccessInv,
           Gate!Proxy \/ Gate!ReadHealth \/ Gate!AnswerHealth \/ Gate!SetDirectAccess
    PROVE  AccessInv'
  <1>1. CASE Gate!Proxy
    <2>1. Gate!HeartbeatWritten /\ UNCHANGED <<hub, admin, errors>>
      BY <1>1 DEF Gate!Proxy
    <2>2. ManagedInv' /\ VisitorInv' /\ lock'.token = lock.token
      BY <2>1, Heard DEF AccessInv
    <2> QED  BY <2>1, <2>2 DEF AccessInv, TokenInv
  <1>2. CASE Gate!ReadHealth
    <2>1. /\ UNCHANGED <<lock, visitor, admin, quiet, told, errors>>
          /\ hub' = [hub EXCEPT !.at = "beat", !.got = Gate!IsOn(lock.on)]
      BY <1>2 DEF Gate!ReadHealth
    <2>2. Gate!IsOn(lock.on) \in BOOLEAN
      BY DEF Gate!IsOn
    <2> QED  BY <2>1, <2>2 DEF AccessInv, TokenInv, ManagedInv, VisitorInv, Gate!Shut
  <1>3. CASE Gate!AnswerHealth
    <2>1. /\ Gate!HeartbeatWritten /\ UNCHANGED <<admin, errors>>
          /\ hub' = [hub EXCEPT !.at = "idle", !.got = FALSE, !.shows = hub.got]
      BY <1>3 DEF Gate!AnswerHealth
    <2>2. ManagedInv' /\ VisitorInv' /\ lock'.token = lock.token
      BY <2>1, Heard DEF AccessInv
    <2> QED  BY <2>1, <2>2 DEF AccessInv, TokenInv
  <1>4. CASE Gate!SetDirectAccess
    <2>1. PICK on \in BOOLEAN, url \in BOOLEAN :
             /\ Gate!Change(Gate!Locked(on, url), 0, told \/ url, TRUE)
             /\ hub' = [hub EXCEPT !.shows = on]
      BY <1>4 DEF Gate!SetDirectAccess, Gate!Accepted, Gate!Genuine
    <2>2. UNCHANGED <<admin, errors>>
      BY <1>4 DEF Gate!SetDirectAccess
    <2>3. VisitorInv'
      BY <2>1, ChangeKeeps DEF AccessInv
    <2>4. lock' = Gate!Locked(on, url) /\ quiet' = 0 /\ told' = (told \/ url)
      BY <2>1 DEF Gate!Change
    <2>5. ManagedInv' /\ lock'.token = lock.token
      <3>1. lock.url \in BOOLEAN /\ (lock.url \/ url) \in BOOLEAN
        BY DEF AccessInv, ManagedInv, Lock
      <3>2. lock' = [lock EXCEPT !.on = on, !.beat = 0, !.url = lock.url \/ url]
        BY <2>4 DEF AccessInv, ManagedInv, Lock, Gate!Locked
      <3>3. Same(lock', on, 0, lock.url \/ url, lock.token)
        BY <3>1, <3>2, AgeOlder, Fields DEF AccessInv, ManagedInv
      <3>4. 0 # None /\ 0 \in Gate!Ages /\ told' = (lock.url \/ url)
        BY <2>4, AgeOlder DEF AccessInv, ManagedInv
      <3>5. quiet' \in Gate!Ages /\ quiet' = 0
        BY <2>4, <3>4
      <3> QED  BY <3>3, <3>4, <3>5 DEF Same, ManagedInv
    <2> QED  BY <2>1, <2>2, <2>3, <2>5 DEF AccessInv, TokenInv
  <1> QED  BY <1>1, <1>2, <1>3, <1>4

LEMMA VisitorSteps ==
    ASSUME Gate!AccessAssumption, AccessInv, NEW v \in Visitors, Gate!VisitorStep(v) \/ Gate!Error(v)
    PROVE  AccessInv'
  <1> USE DEF AccessInv
  <1>0. visitor[v] \in Visitor /\ Gate!Idle \in Visitor /\ Gate!Idle.at = "idle"
    BY DEF VisitorInv, Visitor, Gate!Idle
  <1>1. CASE Gate!Release(v)
    <2>1. /\ lock' = [lock EXCEPT !.on = FALSE] /\ UNCHANGED <<hub, admin, quiet, told, errors>>
          /\ ~Gate!Shut(lock, quiet, told)'
      BY <1>1 DEF Gate!Release, ManagedInv, Lock, Gate!Shut
    <2>2. ManagedInv' /\ TokenInv'
      BY <2>1 DEF ManagedInv, Lock, TokenInv
    <2>3. ASSUME NEW u \in Visitors
          PROVE  /\ visitor'[u] \in Visitor
                 /\ visitor'[u].at # "idle" => visitor'[u].free
                 /\ visitor'[u].at = "release" => visitor'[u].raced = visitor[u].raced /\ visitor[u].at = "release"
      <3>1. visitor[u] \in Visitor
        BY DEF VisitorInv
      <3>2. CASE u = v
        BY <1>1, <3>1, <3>2 DEF Gate!Release, Visitor
      <3>3. CASE u # v /\ visitor[u].at = "idle"
        BY <1>0, <1>1, <3>3 DEF Gate!Release
      <3>4. CASE u # v /\ visitor[u].at # "idle"
        BY <1>1, <3>1, <3>4 DEF Gate!Release, Visitor
      <3> QED  BY <3>2, <3>3, <3>4
    <2>4. visitor' \in [Visitors -> Visitor]
      BY <1>1, <2>3 DEF Gate!Release
    <2> QED  BY <2>1, <2>2, <2>3, <2>4 DEF VisitorInv
  <1>2. CASE Gate!Visit(v) \/ Gate!ReadLock(v) \/ Gate!ReadHeartbeat(v) \/ Gate!ReadAddress(v)
             \/ Gate!Serve(v) \/ Gate!Error(v)
    <2>1. UNCHANGED <<lock, hub, admin, quiet, told>> /\ errors' \in 0 .. MaxFaults
      BY <1>2 DEF Gate!AccessAssumption, Gate!Visit, Gate!ReadLock, Gate!ReadHeartbeat, Gate!ReadAddress, Gate!Serve,
                  Gate!Error
    <2>2. ManagedInv' /\ TokenInv'
      BY <2>1 DEF ManagedInv, TokenInv
    <2>3. PICK to \in Visitor :
             /\ visitor' = [visitor EXCEPT ![v] = to]
             /\ to.at # "idle" /\ ~Gate!Shut(lock, quiet, told) => to.free
             /\ to.at = "serve" => to.free
             /\ to.at = "release" => quiet > MaxAge \/ to.raced
      <3>1. CASE Gate!Visit(v)
        <4> DEFINE to == [Gate!Idle EXCEPT !.at = "lock", !.free = ~Gate!Shut(lock, quiet, told)]
        <4>1. visitor' = [visitor EXCEPT ![v] = to]
          BY <3>1 DEF Gate!Visit
        <4>2. Gate!Shut(lock, quiet, told) \in BOOLEAN
          BY DEF Gate!Shut
        <4>3. to \in Visitor /\ to.at = "lock" /\ to.free = ~Gate!Shut(lock, quiet, told)
          BY <4>2 DEF Gate!Idle, Visitor
        <4> QED  BY <4>1, <4>3
      <3>2. CASE Gate!ReadLock(v)
        <4>1. /\ visitor[v].at = "lock"
              /\ visitor' = [visitor EXCEPT ![v] = [@ EXCEPT !.at = IF Gate!IsOn(lock.on) THEN "beat" ELSE "serve"]]
          BY <3>2 DEF Gate!ReadLock, Gate!Move
        <4>2. ~Gate!IsOn(lock.on) => visitor[v].free
          BY <4>1 DEF VisitorInv, Gate!IsOn, Gate!Shut
        <4> DEFINE to == [visitor[v] EXCEPT !.at = IF Gate!IsOn(lock.on) THEN "beat" ELSE "serve"]
        <4>3. to \in Visitor /\ to.at = (IF Gate!IsOn(lock.on) THEN "beat" ELSE "serve") /\ to.free = visitor[v].free
          BY <1>0 DEF Visitor
        <4>4. visitor' = [visitor EXCEPT ![v] = to]
          BY <4>1 DEF VisitorInv
        <4> HIDE DEF to
        <4> QED  BY <4>1, <4>2, <4>3, <4>4 DEF VisitorInv
      <3>3. CASE Gate!ReadHeartbeat(v)
        <4> DEFINE place == IF Gate!Expired THEN "release" ELSE "address"
                   to == [visitor[v] EXCEPT !.at = place, !.raced = FALSE]
        <4>1. visitor[v].at = "beat" /\ visitor' = [visitor EXCEPT ![v] = to]
          BY <3>3 DEF Gate!ReadHeartbeat, VisitorInv
        <4>2. to \in Visitor /\ to.at = place /\ to.free = visitor[v].free
          BY <1>0 DEF Visitor
        <4>3. place # "idle" /\ place # "serve" /\ (place = "release" => quiet > MaxAge)
          <5>1. Gate!Expired => quiet > MaxAge
            BY AgeOlder DEF Gate!Expired, ManagedInv
          <5> QED  BY <5>1
        <4> HIDE DEF to, place
        <4> QED  BY <4>1, <4>2, <4>3 DEF VisitorInv
      <3>4. CASE Gate!ReadAddress(v)
        <4> DEFINE to == IF lock.url THEN Gate!Idle ELSE [visitor[v] EXCEPT !.at = "serve"]
        <4>1. visitor[v].at = "address" /\ visitor' = [visitor EXCEPT ![v] = to]
          BY <3>4 DEF Gate!ReadAddress, Gate!Move, VisitorInv
        <4>2. to \in Visitor /\ (lock.url => to.at = "idle") /\ (~lock.url => to.at = "serve" /\ to.free = visitor[v].free)
          BY <1>0 DEF Visitor
        <4>3. ~lock.url => visitor[v].free
          BY <4>1 DEF ManagedInv, VisitorInv, Gate!Shut
        <4> HIDE DEF to
        <4> QED  BY <4>1, <4>2, <4>3
      <3>5. CASE Gate!Serve(v)
        <4>1. visitor' = [visitor EXCEPT ![v] = Gate!Idle]
          BY <3>5 DEF Gate!Serve, Gate!Move
        <4> QED  BY <4>1, <1>0
      <3>6. CASE Gate!Error(v)
        <4> DEFINE to == [visitor[v] EXCEPT !.at = "serve", !.free = TRUE]
        <4>1. visitor' = [visitor EXCEPT ![v] = to]
          BY <3>6 DEF Gate!Error, VisitorInv
        <4>2. to \in Visitor /\ to.at = "serve" /\ to.free
          BY <1>0 DEF Visitor
        <4> QED  BY <4>1, <4>2
      <3> QED  BY <1>2, <3>1, <3>2, <3>3, <3>4, <3>5, <3>6
    <2>4. VisitorInv'
      BY <2>1, <2>3, OneMoves
    <2> QED  BY <2>1, <2>2, <2>4
  <1> QED  BY <1>1, <1>2 DEF Gate!VisitorStep

LEMMA AdminSteps ==
    ASSUME Gate!AccessAssumption, AccessInv, NEW a \in Admins,
           Gate!LookUpToken(a) \/ Gate!StoreToken(a) \/ Gate!Regenerate(a) \/ Gate!Register(a)
    PROVE  AccessInv'
  <1> USE DEF AccessInv
  <1>1. CASE Gate!LookUpToken(a)
    <2>1. /\ UNCHANGED <<lock, visitor, quiet, told, errors>>
          /\ \/ Gate!Missing /\ admin' = [admin EXCEPT ![a].at = "write"] /\ hub' = hub
             \/ (hub' = hub \/ hub' = [hub EXCEPT !.token = lock.token]) /\ admin' = admin
      BY <1>1 DEF Gate!LookUpToken, Gate!Shown
    <2>2. ManagedInv' /\ VisitorInv'
      BY <2>1 DEF ManagedInv, VisitorInv, Gate!Shut
    <2>3. CASE Gate!Missing /\ admin' = [admin EXCEPT ![a].at = "write"] /\ hub' = hub
      BY <2>1, <2>2, <2>3 DEF TokenInv, Gate!Missing
    <2>4. CASE (hub' = hub \/ hub' = [hub EXCEPT !.token = lock.token]) /\ admin' = admin
      <3>1. lock.token \in Tokens \cup {None}
        BY DEF ManagedInv, Lock
      <3>2. hub' \in [token : Tokens \cup {None}, shows : BOOLEAN, at : {"idle", "beat"}, got : BOOLEAN]
        BY <2>4, <3>1 DEF TokenInv
      <3> QED  BY <2>1, <2>2, <2>4, <3>2 DEF TokenInv
    <2> QED  BY <2>1, <2>3, <2>4
  <1>2. ASSUME NEW t \in Tokens, Gate!Store(a, t) PROVE AccessInv'
    <2>1. /\ lock' = [lock EXCEPT !.token = t] /\ UNCHANGED <<visitor, quiet, told, errors>>
          /\ hub' = hub \/ hub' = [hub EXCEPT !.token = t]
          /\ admin' = [b \in Admins |-> IF b = a THEN Gate!Away
                                        ELSE [admin[b] EXCEPT !.raced = admin[b].at = "write"]]
      BY <1>2 DEF Gate!Store, Gate!Shown
    <2>2. ManagedInv' /\ lock'.on = lock.on
      <3>1. Same(lock', lock.on, lock.beat, lock.url, t)
        BY <2>1, Fields DEF ManagedInv
      <3> QED  BY <2>1, <3>1, LockStays DEF ManagedInv, Same
    <2>3. VisitorInv'
      BY <2>1, <2>2 DEF VisitorInv, Gate!Shut
    <2>4. ASSUME NEW b \in Admins
          PROVE  /\ admin'[b] \in [at : {"away", "write"}, raced : BOOLEAN]
                 /\ admin'[b].at = "write" => admin'[b].raced
      <3>1. admin[b] \in [at : {"away", "write"}, raced : BOOLEAN]
        BY DEF TokenInv
      <3>2. CASE b = a
        BY <2>1, <3>2 DEF Gate!Away
      <3>3. CASE b # a
        BY <2>1, <3>1, <3>3
      <3> QED  BY <3>2, <3>3
    <2>5. admin' \in [Admins -> [at : {"away", "write"}, raced : BOOLEAN]]
      BY <2>1, <2>4
    <2>6. hub' \in [token : Tokens \cup {None}, shows : BOOLEAN, at : {"idle", "beat"}, got : BOOLEAN]
      BY <2>1 DEF TokenInv
    <2> QED  BY <2>1, <2>2, <2>3, <2>4, <2>5, <2>6 DEF TokenInv
  <1> QED  BY <1>1, <1>2 DEF Gate!StoreToken, Gate!Regenerate, Gate!Register, Gate!Fresh

LEMMA AccessStep ==
    ASSUME Gate!AccessAssumption, AccessInv, [Gate!Next]_(Gate!vars) PROVE AccessInv'
  <1>1. CASE Gate!SetAddress
    <2>1. PICK url \in BOOLEAN : Gate!Change([lock EXCEPT !.url = url], quiet, url, FALSE)
      BY <1>1 DEF Gate!SetAddress
    <2>2. VisitorInv'
      BY <2>1, ChangeKeeps DEF AccessInv
    <2>3. /\ lock' = [lock EXCEPT !.url = url] /\ quiet' = quiet /\ told' = url
          /\ UNCHANGED <<hub, admin, errors>>
      BY <1>1, <2>1 DEF Gate!SetAddress, Gate!Change
    <2>4. ManagedInv' /\ lock'.token = lock.token
      <3>1. Same(lock', lock.on, lock.beat, url, lock.token)
        BY <2>3, Fields DEF AccessInv, ManagedInv
      <3>2. /\ lock.on = TRUE => lock.beat # None
            /\ quiet' \in Gate!Ages /\ (lock.beat = quiet' \/ (lock.beat = None /\ quiet' > MaxAge))
        BY <2>3 DEF AccessInv, ManagedInv
      <3>3. told' = url
        BY <2>3
      <3> QED  BY <3>1, <3>2, <3>3 DEF Same, ManagedInv
    <2> QED  BY <2>2, <2>3, <2>4 DEF AccessInv, TokenInv
  <1>2. CASE Gate!Tick
    <2> DEFINE beat == IF lock.beat = None THEN None ELSE Gate!Older(lock.beat)
    <2>1. Gate!Change([lock EXCEPT !.beat = beat], Gate!Older(quiet), told, FALSE) /\ UNCHANGED <<hub, admin, errors>>
      BY <1>2 DEF Gate!Tick, AccessInv, ManagedInv, Lock
    <2>2. VisitorInv'
      <3>1. Gate!Older(quiet) > MaxAge \/ ~(quiet > MaxAge)
        BY AgeOlder DEF AccessInv, ManagedInv
      <3> QED  BY <2>1, <3>1, ChangeKeeps DEF AccessInv
    <2>3. lock' = [lock EXCEPT !.beat = beat] /\ quiet' = Gate!Older(quiet) /\ told' = told
      BY <2>1 DEF Gate!Change
    <2>4. /\ beat = Gate!Older(quiet) \/ (beat = None /\ Gate!Older(quiet) > MaxAge)
          /\ beat \in Gate!Ages \cup {None} /\ (lock.beat # None => beat # None) /\ Gate!Older(quiet) \in Gate!Ages
      BY AgeOlder DEF AccessInv, ManagedInv, Lock
    <2> HIDE DEF beat
    <2>5. ManagedInv' /\ lock'.token = lock.token
      <3>1. Same(lock', lock.on, beat, lock.url, lock.token)
        BY <2>3, <2>4, Fields DEF AccessInv, ManagedInv
      <3>2. lock.on = TRUE => beat # None
        BY <2>4 DEF AccessInv, ManagedInv
      <3>3. quiet' \in Gate!Ages /\ told' = lock.url /\ (beat = quiet' \/ (beat = None /\ quiet' > MaxAge))
        BY <2>3, <2>4 DEF AccessInv, ManagedInv
      <3> QED  BY <3>1, <3>2, <3>3 DEF Same, ManagedInv
    <2> QED  BY <2>1, <2>2, <2>5 DEF AccessInv, TokenInv
  <1>3. CASE UNCHANGED Gate!vars
    BY <1>3 DEF Gate!vars, AccessInv, ManagedInv, VisitorInv, TokenInv, Gate!Shut
  <1> QED  BY <1>1, <1>2, <1>3, HubSteps, VisitorSteps, AdminSteps DEF Gate!Next

LEMMA AccessInit == ASSUME Gate!AccessAssumption, Gate!Init PROVE AccessInv
  <1>1. ManagedInv
    <2>1. lock = [on |-> None, beat |-> None, url |-> FALSE, token |-> None] /\ quiet = MaxAge + 1 /\ told = FALSE
      BY DEF Gate!Init
    <2>2. MaxAge + 1 \in Gate!Ages /\ MaxAge + 1 > MaxAge
      BY AgeOlder DEF Gate!AccessAssumption
    <2>3. lock \in Lock /\ lock.on # TRUE /\ lock.beat = None
      BY <2>1, AgeOlder DEF Lock
    <2> QED  BY <2>1, <2>2, <2>3 DEF ManagedInv
  <1>2. VisitorInv
    BY DEF Gate!Init, VisitorInv, Visitor, Gate!Idle
  <1>3. TokenInv
    BY DEF Gate!Init, TokenInv, Gate!Away
  <1> QED  BY <1>1, <1>2, <1>3 DEF Gate!Init, AccessInv, Gate!AccessAssumption

\* Managed mode (main.py, api/suite.py): visitors are let in only if the application was
\* open at a moment of their request, take the lock only from a hub that has been silent,
\* and looking at the token never replaces it.
THEOREM LockIsKept == Gate!Spec => LockHolds
  <1>1. AccessInv => Gate!TypeOK
    BY DEF AccessInv, ManagedInv, VisitorInv, TokenInv, Lock, Visitor, Gate!TypeOK, Gate!Ages
  <1>2. AccessInv =>
          \A v \in Visitors : visitor[v].at = "serve" /\ visitor'[v].at = "idle" => visitor[v].free
    BY DEF AccessInv, VisitorInv
  <1>3. AccessInv =>
          \A v \in Visitors :
             lock.on = TRUE /\ lock'.on = FALSE /\ visitor[v].at = "release" /\ visitor'[v].at = "serve"
               => quiet > MaxAge \/ visitor[v].raced
    BY DEF AccessInv, VisitorInv
  <1>4. AccessInv =>
          \A a \in Admins : admin[a].at = "write" /\ admin'[a].at = "away" /\ Gate!Genuine => admin[a].raced
    BY DEF AccessInv, TokenInv, Gate!Genuine
  <1>5. Gate!Init => AccessInv
    BY GateAssumption, AccessInit
  <1>6. AccessInv /\ [Gate!Next]_(Gate!vars) => AccessInv'
    BY GateAssumption, AccessStep
  <1> QED  BY <1>1, <1>2, <1>3, <1>4, <1>5, <1>6, PTL
           DEF Gate!Spec, LockHolds, Gate!LockHolds, Gate!ShutOut, Gate!LockSurvives, Gate!TokenKept

\* The composition checks all of this: what it does is a behaviour of each part.
THEOREM PartsHold ==
    ASSUME \A s \in Database!Whole[Len(Script)] : Database!InPlace(s)
    PROVE  EitherFair => []ServesComplete /\ []SchemaKept /\ LockHolds
  <1>1. EitherInit => Database!Init /\ Gate!Init
    BY DEF EitherInit
  <1>2. [EitherNext]_<<part, baseVars, gateVars, vars>> => [Database!Next]_(Database!vars)
    BY DEF EitherNext, baseVars, gateVars, Database!vars
  <1>3. [EitherNext]_<<part, baseVars, gateVars, vars>> => [Gate!Next]_(Gate!vars)
    BY DEF EitherNext, baseVars, gateVars, Gate!vars
  <1>4. Database!Spec => []ServesComplete
    BY ServedComplete
  <1>5. Database!Spec => []SchemaKept
    BY SchemaHolds
  <1>6. Gate!Spec => LockHolds
    BY LockIsKept
  <1>7. EitherFair => Database!Spec /\ Gate!Spec
    BY <1>1, <1>2, <1>3, PTL DEF EitherFair, Database!Spec, Gate!Spec
  <1> QED  BY <1>4, <1>5, <1>6, <1>7, PTL
=============================================================================
