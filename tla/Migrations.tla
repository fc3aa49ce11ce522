----------------------------- MODULE Migrations -----------------------------
(***************************************************************************)
(* Start-up of pktSNMP against its database: init_db (app/database.py)     *)
(* applies every script of migrations/ that _migrations does not list.     *)
(*                                                                         *)
(* executescript runs outside a transaction: each statement is kept the    *)
(* moment it has run, and the row of _migrations is written after the last *)
(* one.  The process may stop anywhere in between, and a later start, of   *)
(* this release or of a newer one, goes on from what it finds.             *)
(***************************************************************************)
EXTENDS Naturals, Sequences

CONSTANTS
    Script,         \* the statements of each script, in the order of file names
    Needed,         \* tables that the rest of the start-up writes to
    Oldest,         \* scripts of the first release, which made those tables
    MaxCuts         \* bound: scripts that are cut short

Kinds == {"make", "add", "create", "rename", "move", "drop", "copy"}

\* A statement that can be run again takes nothing away, and one that keeps contents
\* names what they were in.
ScriptAssumption ==
    /\ Script \in Seq(Seq([op : Kinds, from : SUBSET STRING, to : SUBSET STRING]) \ {<<>>})
    /\ \A f \in DOMAIN Script : \A k \in DOMAIN Script[f] :
           /\ Script[f][k].op = "make" => Script[f][k].from = {}
           /\ Script[f][k].op \in {"rename", "move", "copy"} => Script[f][k].from # {}
ReleaseAssumption == Oldest \in DOMAIN Script
CutsAssumption == MaxCuts \in Nat

VARIABLES
    schema,         \* [names of tables and columns -> the name their contents had first]
    recorded,       \* table _migrations: numbers of scripts
    shipped,        \* scripts the installed release has
    process,        \* what init_db is doing
    cut             \* history: scripts stopped half way

vars == <<schema, recorded, shipped, process, cut>>

-----------------------------------------------------------------------------
(* Statements.                                                             *)

Present(names, s) == names \subseteq DOMAIN s

\* What SQLite says to a statement.
Outcome(st, s) ==
    CASE ~Present(st.from, s) -> "no such table or column"
      [] st.op \in {"add", "rename"} /\ Present(st.to, s) -> "duplicate column name"
      [] st.op \in {"create", "move"} /\ Present(st.to, s) -> "already exists"
      [] st.op = "copy" /\ ~Present(st.to, s) -> "no such table or column"
      [] OTHER -> "done"

\* What is in the new name: the contents of the old one, or its own.
Contents(st, s, name) ==
    IF st.op \in {"rename", "move", "copy"} THEN s[CHOOSE old \in st.from : TRUE]
    ELSE IF st.op = "make" /\ name \in DOMAIN s THEN s[name]
    ELSE name

Effect(st, s) ==
    LET gone == IF st.op = "copy" THEN {} ELSE st.from
    IN  [name \in (DOMAIN s \ gone) \cup st.to |->
            IF name \in st.to THEN Contents(st, s, name) ELSE s[name]]

-----------------------------------------------------------------------------

Halted == [pc |-> "down"]

Serving == [pc |-> "serving"]

Init ==
    /\ schema = <<>>
    /\ recorded = {}
    /\ shipped \in Oldest .. Len(Script)
    /\ process = Halted
    /\ cut = 0

\* The process starts, or systemd starts it again.
Start ==
    /\ process = Halted
    /\ process' = [pc |-> "select", file |-> 1]
    /\ UNCHANGED <<schema, recorded, shipped, cut>>

Select_RecordsFirst ==
    /\ process.pc = "select"
    /\ process.file <= shipped
    /\ recorded' = recorded \cup {process.file}
    /\ process' = IF process.file \in recorded
                  THEN [process EXCEPT !.file = @ + 1]
                  ELSE [pc |-> "script", file |-> process.file, next |-> 1]
    /\ UNCHANGED <<schema, shipped, cut>>

\* The next file: skipped when _migrations has it.
Select ==
    /\ process.pc = "select"
    /\ process.file <= shipped
    /\ process' = IF process.file \in recorded
                  THEN [process EXCEPT !.file = @ + 1]
                  ELSE [pc |-> "script", file |-> process.file, next |-> 1]
    /\ UNCHANGED <<schema, recorded, shipped, cut>>

Statements == Script[process.file]

\* The script is over: the file is about to be recorded.
Recording == [pc |-> "record", file |-> process.file]

Ran_PastEnd ==
    IF process.next > Len(Statements) THEN Recording ELSE [process EXCEPT !.next = @ + 1]

\* The statement is done: on to the next one.
Ran ==
    IF process.next = Len(Statements) THEN Recording ELSE [process EXCEPT !.next = @ + 1]

Execute_RaisesAll ==
    /\ process.pc = "script"
    /\ IF Outcome(Statements[process.next], schema) = "done"
       THEN /\ schema' = Effect(Statements[process.next], schema)
            /\ process' = Ran
       ELSE /\ process' = Halted
            /\ UNCHANGED schema
    /\ UNCHANGED <<recorded, shipped, cut>>

Execute_SwallowsAll ==
    /\ process.pc = "script"
    /\ LET said == Outcome(Statements[process.next], schema)
       IN  IF said = "done"
           THEN /\ schema' = Effect(Statements[process.next], schema)
                /\ process' = Ran
           ELSE /\ process' = IF said = "duplicate column name" THEN Recording
                              ELSE [pc |-> "select", file |-> process.file + 1]
                /\ UNCHANGED schema
    /\ UNCHANGED <<recorded, shipped, cut>>

\* One statement.  A duplicate column name ends the script, which counts as
\* applied; any other error ends the process.
Execute ==
    /\ process.pc = "script"
    /\ LET said == Outcome(Statements[process.next], schema)
       IN  IF said = "done"
           THEN /\ schema' = Effect(Statements[process.next], schema)
                /\ process' = Ran
           ELSE /\ process' = IF said = "duplicate column name" THEN Recording ELSE Halted
                /\ UNCHANGED schema
    /\ UNCHANGED <<recorded, shipped, cut>>

\* INSERT INTO _migrations and the commit.
Record ==
    /\ process.pc = "record"
    /\ recorded' = recorded \cup {process.file}
    /\ process' = [pc |-> "select", file |-> process.file + 1]
    /\ UNCHANGED <<schema, shipped, cut>>

\* The rest of the start-up writes to tables of its own and raises when one is
\* missing (seed_admin, seed_catalog).
Serve ==
    /\ process.pc = "select"
    /\ process.file > shipped
    /\ process' = IF Present(Needed, schema) THEN Serving ELSE Halted
    /\ UNCHANGED <<schema, recorded, shipped, cut>>

\* Statements that fail or go wrong when they are run twice have run, and some
\* of the script has not.
HalfDone ==
    /\ process.pc = "script"
    /\ \E k \in 1 .. process.next - 1 : Statements[k].op # "make"

\* The process is killed, or a statement raises because another connection
\* holds the database.
Stop ==
    /\ process # Halted
    /\ HalfDone => cut < MaxCuts
    /\ process' = Halted
    /\ cut' = IF HalfDone THEN cut + 1 ELSE cut
    /\ UNCHANGED <<schema, recorded, shipped>>

\* install.sh or the self-update puts a newer release in place.
Upgrade ==
    /\ process \in {Halted, Serving}
    /\ shipped' \in shipped + 1 .. Len(Script)
    /\ UNCHANGED <<schema, recorded, process, cut>>

StartUp == Start \/ Select \/ Execute \/ Record \/ Serve

Next == StartUp \/ Stop \/ Upgrade

Spec == Init /\ [][Next]_vars

\* systemd restarts the process and the process runs.
FairSpec == Spec /\ WF_vars(StartUp)

-----------------------------------------------------------------------------
(* Correctness.                                                            *)

\* Every variable has its type.
TypeOK ==
    /\ DOMAIN schema \subseteq STRING
    /\ \A name \in DOMAIN schema : schema[name] \in STRING
    /\ recorded \subseteq DOMAIN Script
    /\ shipped \in DOMAIN Script
    /\ \/ process \in {Halted, Serving}
       \/ process \in [pc : {"select"}, file : 1 .. Len(Script) + 1]
       \/ process \in [pc : {"record"}, file : DOMAIN Script]
       \/ /\ process \in [pc : {"script"}, file : DOMAIN Script, next : Nat]
          /\ process.next \in DOMAIN Statements
    /\ cut \in 0 .. MaxCuts

\* Scripts are recorded in the order of their names, over any number of starts,
\* stops, failures and upgrades: a script never runs on a database that has not
\* seen those before it.
InOrder ==
    \A f \in recorded : 1 .. f \subseteq recorded

Undisturbed(st, s) == IF Outcome(st, s) = "done" THEN Effect(st, s) ELSE s

\* What a script makes of these schemas, statement by statement.
Course(script, schemas) ==
    LET after[k \in 0 .. Len(script)] ==
            IF k = 0 THEN schemas ELSE {Undisturbed(script[k], s) : s \in after[k - 1]}
    IN  after

\* What an undisturbed run of the first n scripts makes of an empty database.
Whole[n \in 0 .. Len(Script)] ==
    IF n = 0 THEN {<<>>} ELSE Course(Script[n], Whole[n - 1])[Len(Script[n])]

\* However often the start-up was stopped between scripts, or in a script of
\* statements that can be run again, and whichever releases came before, the
\* application serves on the schema its code was written for.
ServesComplete ==
    process = Serving /\ cut = 0 => \E n \in 1 .. shipped : recorded = 1 .. n /\ schema \in Whole[n]

\* A database on which no script was cut short never keeps the application from
\* starting: the errors a second run of a script meets are those init_db takes
\* for a script that is applied.
ComesUp ==
    [](cut = 0) /\ <>[][StartUp]_vars => <>(process = Serving)

-----------------------------------------------------------------------------
(* What init_db takes for granted of the scripts.                          *)

\* Its first k statements can be run again.
AllMake(script, k) == \A j \in 1 .. k : script[j].op = "make"

\* An undisturbed run meets no error but a column that is there, and that at the end
\* of a script (014 repeats 005).
RunsThrough ==
    \A f \in DOMAIN Script : \A k \in DOMAIN Script[f] :
        \A s \in Course(Script[f], Whole[f - 1])[k - 1] :
            \/ Outcome(Script[f][k], s) = "done"
            \/ Outcome(Script[f][k], s) = "duplicate column name" /\ k = Len(Script[f])

\* A script that was stopped after its last statement runs again without harm: up to its
\* end, or to a column that is there before anything else has changed.
EndsAgain ==
    \A f \in DOMAIN Script : \A k \in DOMAIN Script[f] : \A s \in Whole[f] :
        AllMake(Script[f], k - 1) =>
            IF Script[f][k].op = "make" THEN Script[f][k].to \subseteq DOMAIN s
            ELSE Outcome(Script[f][k], s) = "duplicate column name"

-----------------------------------------------------------------------------
(* What a comment says and the code does not do.                           *)

\* "Run migrations on startup. Safe to call multiple times (idempotent SQL)"
\* (app/database.py): whatever was stopped before, what is recorded is there.
SafeToRepeat ==
    process = Serving => \E n \in 1 .. shipped : recorded = 1 .. n /\ schema \in Whole[n]
=============================================================================
