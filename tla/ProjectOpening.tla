--------------------------- MODULE ProjectOpening ---------------------------
(***************************************************************************)
(* What a command does before it works on a project: it makes the layout   *)
(* with project.toml, reads the project's name from it (the project id is  *)
(* a digest of the name), opens the database, and brings its schema to the *)
(* version the command needs, after copying the file as a backup.  Several *)
(* commands may do so at once over one directory.                          *)
(*                                                                         *)
(* A migration is one transaction of SQLite, hence one step; a crash in it *)
(* is rolled back by the next opener.  The backup is a plain copy of the   *)
(* file, without a lock: a commit during the copy leaves a copy of the old *)
(* bytes, of the new ones, or of both.                                     *)
(***************************************************************************)
EXTENDS Integers, FiniteSets

CONSTANTS
    Openers,      \* command invocations that may run at the same time
    Names,        \* names given with --name
    DirName       \* the name of the directory, used for want of another

Versions == 1..3     \* PROJECT_SCHEMA_VERSION is 3

ASSUME OpeningAssumption == DirName \in Names

VARIABLES
    toml,         \* project.toml: absent, truncated, or the name it holds
    database,     \* applied versions, runs of each script, projects stored
    backup,       \* project.db.bak
    openPc, openLoc

openingVars == <<toml, database, backup, openPc, openLoc>>

\* init makes the layout alone; project opens a ProjectStore (schema 2) in a
\* layout that exists; workflow makes the layout when it is missing and opens
\* an IntegratedProjectStore (schema 2, then 3).
OpeningCommands == {"init", "project", "workflow"}

\* Mutant: the integrated store relies on the base store's migration.
GoalsOfBase(command) == {2}

Goals(command) == IF command = "workflow" THEN {2, 3} ELSE {2}

OpenSteps == {"idle", "layout", "truncate", "name", "gate", "version",
              "copy", "copied", "migrate", "open"}

NoBytes == [file |-> "none", version |-> 0]

OpeningTypeOK ==
    /\ toml \in Names \cup {"absent", "empty"}
    /\ database \in [applied : SUBSET Versions, runs : [Versions -> 0..2],
                     projects : SUBSET Names]
    /\ backup \in [file : {"none", "partial", "torn", "whole"},
                   version : 0..3]
    /\ openPc \in [Openers -> OpenSteps]
    /\ openLoc \in [Openers ->
           [command : OpeningCommands, name : Names, goals : SUBSET Versions,
            pending : SUBSET Versions, seen : 0..3]]

AtRest ==
    [command |-> "init", name |-> DirName, goals |-> {}, pending |-> {},
     seen |-> 0]

\* An empty directory, or a project that an older release left behind.
OpeningInit ==
    /\ \E last \in 0..3 :
           /\ toml = IF last = 0 THEN "absent" ELSE DirName
           /\ database = [applied |-> 1..last,
                          runs |-> [v \in Versions |->
                                       IF v <= last THEN 1 ELSE 0],
                          projects |-> {}]
    /\ backup = NoBytes
    /\ openPc = [o \in Openers |-> "idle"]
    /\ openLoc = [o \in Openers |-> AtRest]

OpenStep(o, from, to) ==
    /\ openPc[o] = from
    /\ openPc' = [openPc EXCEPT ![o] = to]

\* current_version: 0 when there is no row.
CurrentVersion == Cardinality(database.applied)

First(versions) == CHOOSE v \in versions : \A w \in versions : v <= w

-----------------------------------------------------------------------------
(* The layout *)

StartOpening(o, command, name) ==
    /\ OpenStep(o, "idle", IF command = "project" THEN "gate" ELSE "layout")
    /\ openLoc' = [openLoc EXCEPT ![o] =
           [AtRest EXCEPT !.command = command, !.name = name,
                          !.goals = Goals(command)]]
    /\ UNCHANGED <<toml, database, backup>>

\* init_layout writes project.toml unless it exists, and is done.
CheckToml(o) ==
    /\ OpenStep(o, "layout", IF toml = "absent" THEN "truncate" ELSE "gate")
    /\ UNCHANGED <<toml, database, backup, openLoc>>

TruncateToml(o) ==
    /\ OpenStep(o, "truncate", "name")
    /\ toml' = "empty"
    /\ UNCHANGED <<database, backup, openLoc>>

WriteToml(o) ==
    /\ OpenStep(o, "name", "gate")
    /\ toml' = openLoc[o].name
    /\ UNCHANGED <<database, backup, openLoc>>

\* The gate of every command, then the name: a truncated file has none.
ReadName(o) ==
    /\ toml # "absent"
    /\ OpenStep(o, "gate",
                IF openLoc[o].command = "init" THEN "idle" ELSE "version")
    /\ openLoc' = [openLoc EXCEPT
           ![o] = IF @.command = "init" THEN AtRest
                  ELSE [@ EXCEPT !.name = IF toml = "empty" THEN DirName
                                          ELSE toml]]
    /\ UNCHANGED <<toml, database, backup>>

-----------------------------------------------------------------------------
(* The schema *)

\* apply_migrations up to the first goal, or on to the next goal.
ReadVersion(o) ==
    /\ openPc[o] = "version"
    /\ LET goal == First(openLoc[o].goals)
           pending == (CurrentVersion + 1)..goal
       IN  /\ OpenStep(o, "version",
                       IF pending # {} THEN "copy"
                       ELSE IF openLoc[o].goals = {goal} THEN "open"
                       ELSE "version")
           /\ openLoc' = [openLoc EXCEPT
                  ![o].pending = pending,
                  ![o].goals = IF pending = {} THEN @ \ {goal} ELSE @]
    /\ UNCHANGED <<toml, database, backup>>

StartBackup(o) ==
    /\ OpenStep(o, "copy", "copied")
    /\ backup' = [file |-> "partial", version |-> 0]
    /\ openLoc' = [openLoc EXCEPT ![o].seen = CurrentVersion]
    /\ UNCHANGED <<toml, database>>

EndBackup(o) ==
    /\ OpenStep(o, "copied", "migrate")
    /\ \/ \E v \in {openLoc[o].seen, CurrentVersion} :
             backup' = [file |-> "whole", version |-> v]
       \/ /\ openLoc[o].seen # CurrentVersion
          /\ backup' = [file |-> "torn", version |-> 0]
    /\ UNCHANGED <<toml, database, openLoc>>

\* Mutant: the version row is written with INSERT OR REPLACE.
ReplacedIfThere(v) == v \in {2} \cup (Versions \ database.applied)

\* The script of version 1 or 3 fails on its tables when it ran before.  That
\* of version 2 can run again; then the key of its version row fails.
CanMigrate(v) == v \notin database.applied

Migrated(v) == [database EXCEPT !.applied = @ \cup {v}, !.runs[v] = @ + 1]

Migrate(o) ==
    /\ openPc[o] = "migrate"
    /\ LET v == First(openLoc[o].pending)
       IN  /\ CanMigrate(v)
           /\ OpenStep(o, "migrate",
                       IF openLoc[o].pending = {v} THEN "version"
                       ELSE "migrate")
           /\ database' = Migrated(v)
           /\ openLoc' = [openLoc EXCEPT ![o].pending = @ \ {v}]
    /\ UNCHANGED <<toml, backup>>

\* ensure_project: the command stores what it has under its project id.
StoreProject(o) ==
    /\ OpenStep(o, "open", "idle")
    /\ database' = [database EXCEPT !.projects = @ \cup {openLoc[o].name}]
    /\ openLoc' = [openLoc EXCEPT ![o] = AtRest]
    /\ UNCHANGED <<toml, backup>>

\* A missing layout, a MigrationError, a busy database, or a crash.
OpeningEnds(o) ==
    /\ openPc[o] # "idle"
    /\ openPc' = [openPc EXCEPT ![o] = "idle"]
    /\ openLoc' = [openLoc EXCEPT ![o] = AtRest]
    /\ UNCHANGED <<toml, database, backup>>

OpeningNext ==
    \E o \in Openers :
        \/ \E c \in OpeningCommands, n \in Names : StartOpening(o, c, n)
        \/ CheckToml(o) \/ TruncateToml(o) \/ WriteToml(o) \/ ReadName(o)
        \/ ReadVersion(o) \/ StartBackup(o) \/ EndBackup(o) \/ Migrate(o)
        \/ StoreProject(o) \/ OpeningEnds(o)

OpeningSpec == OpeningInit /\ [][OpeningNext]_openingVars

-----------------------------------------------------------------------------
(* Properties *)

\* Two processes that found the same old version both run its migrations.
\* Whoever commits first, and wherever one stops, the version rows are those
\* of the scripts that ran, each once, from the first on (apply_migrations).
SchemaMatchesVersion ==
    /\ database.applied = 1..CurrentVersion
    /\ \A v \in Versions :
           database.runs[v] = IF v \in database.applied THEN 1 ELSE 0

\* A command works on a database of at least the version it asked for, also
\* when another process made the migrations it was about to make.
OpenedIsMigrated ==
    \A o \in Openers : openPc[o] = "open" =>
        /\ 2 \in database.applied
        /\ openLoc[o].command = "workflow" => 3 \in database.applied
=============================================================================
