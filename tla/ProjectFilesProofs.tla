------------------------- MODULE ProjectFilesProofs -------------------------
(***************************************************************************)
(* Files of a project that commands leave to one another.  Two of them are *)
(* written without a lock around what was read before: the database while  *)
(* its schema is migrated, and the review history of the finalize          *)
(* commands.  The rows of the third are written in the form of a privacy   *)
(* mode: however the modes of a sequence of commands change, they keep one *)
(* form.  All for any number of commands at a time, and any history.       *)
(***************************************************************************)
EXTENDS ProjectOpening, FinalizeJournal, PrivacyModes, FiniteSetTheorems, TLAPS

LEMMA FirstIs ==
    ASSUME NEW S \in SUBSET Nat, NEW v \in S, \A w \in S : v <= w
    PROVE  First(S) = v
<1>1. \E u \in S : \A w \in S : u <= w
  OBVIOUS
<1>2. First(S) \in S /\ \A w \in S : First(S) <= w
  BY <1>1, Zenon DEF First
<1> DEFINE u == First(S)
<1>3. u \in Nat /\ v \in Nat /\ u <= v /\ v <= u
  BY <1>2
<1> HIDE DEF u
<1>4. u = v
  BY <1>3
<1> QED
  BY <1>4 DEF u

-----------------------------------------------------------------------------
(* The schema: the inductive invariant *)

Applied(k) == k \in 0 .. 3 /\ database.applied = 1 .. k

\* The scripts that ran are the first ones, each once.
SchemaInv ==
    /\ Applied(CurrentVersion)
    /\ database.runs = [v \in Versions |-> IF v <= CurrentVersion THEN 1 ELSE 0]
    /\ database = [applied |-> database.applied, runs |-> database.runs,
                   projects |-> database.projects]

\* Goals left to a command: those it has reached are gone, the last one when it
\* opens the database.
Left(o) ==
    CASE openPc[o] = "idle" -> openLoc[o].goals = {}
      [] openPc[o] = "open" ->
             CurrentVersion >= 2 /\ (openLoc[o].command = "workflow" => CurrentVersion = 3)
      [] OTHER ->
             \/ openLoc[o].goals = Goals(openLoc[o].command)
             \/ /\ openLoc[o].command = "workflow" /\ openLoc[o].goals = {3}
                /\ CurrentVersion >= 2

\* A script that waits to be run is the next one, or one that another command ran
\* meanwhile; the last is that of the goal.
Waiting(o) ==
    openPc[o] \in {"copy", "copied", "migrate"} =>
        \E from \in 1 .. First(openLoc[o].goals) :
            /\ from <= CurrentVersion + 1
            /\ openLoc[o].pending = from .. First(openLoc[o].goals)

Openings ==
    [command : OpeningCommands, name : Names, goals : SUBSET Versions,
     pending : SUBSET Versions, seen : 0 .. 3]

TomlTyped == toml \in Names \cup {"absent", "empty"}

OpeningInv ==
    /\ SchemaInv /\ TomlTyped
    /\ openPc \in [Openers -> OpenSteps]
    /\ openLoc \in [Openers -> Openings]
    /\ \A o \in Openers : Left(o) /\ Waiting(o)

-----------------------------------------------------------------------------
LEMMA IntervalSize ==
    ASSUME NEW n \in Nat
    PROVE  Cardinality(1 .. n) = n
<1>1. Cardinality(1 .. n) = IF 1 > n THEN 0 ELSE n - 1 + 1
  BY FS_Interval
<1> QED
  BY <1>1

LEMMA VersionOfInterval ==
    ASSUME NEW k \in 0 .. 3, database.applied = 1 .. k
    PROVE  CurrentVersion = k
BY IntervalSize DEF CurrentVersion

LEMMA GoalsOfCommands ==
    /\ \A c \in OpeningCommands : Goals(c) \in {{2}, {2, 3}}
    /\ First({2}) = 2 /\ First({2, 3}) = 2 /\ First({3}) = 3
<1>1. \A c \in OpeningCommands : Goals(c) \in {{2}, {2, 3}}
  BY DEF Goals
<1>2. First({2}) = 2
  BY FirstIs
<1>3. First({2, 3}) = 2
  BY FirstIs
<1>4. First({3}) = 3
  BY FirstIs
<1> QED
  BY <1>1, <1>2, <1>3, <1>4

\* What the next goal of a command that is not done may be.
LEMMA FirstGoal ==
    ASSUME NEW o \in Openers, OpeningInv, openPc[o] \notin {"idle", "open"}
    PROVE  /\ openLoc[o].goals \in {{2}, {2, 3}, {3}}
           /\ First(openLoc[o].goals) \in {2, 3}
           /\ openLoc[o].goals \in {{2}, {2, 3}} => First(openLoc[o].goals) = 2
           /\ openLoc[o].goals = {3} => First(openLoc[o].goals) = 3 /\ CurrentVersion >= 2
           /\ openLoc[o].goals = {2, 3} => openLoc[o].command = "workflow"
           /\ openLoc[o].goals = {2} => openLoc[o].command # "workflow"
<1>1. Left(o) /\ openLoc[o].command \in OpeningCommands
  BY DEF OpeningInv, Openings
<1>2. \/ openLoc[o].goals = Goals(openLoc[o].command)
      \/ openLoc[o].command = "workflow" /\ openLoc[o].goals = {3} /\ CurrentVersion >= 2
  BY <1>1 DEF Left
<1> QED
  BY <1>2, GoalsOfCommands DEF Goals

LEMMA RestIsTyped == AtRest \in Openings
BY OpeningAssumption DEF AtRest, Openings, OpeningCommands, Versions

LEMMA OpeningStarts == OpeningInit => OpeningInv
<1> SUFFICES ASSUME OpeningInit PROVE OpeningInv
  OBVIOUS
<1>1. PICK newest \in 0 .. 3 :
          database = [applied |-> 1 .. newest,
                      runs |-> [v \in Versions |-> IF v <= newest THEN 1 ELSE 0],
                      projects |-> {}]
  BY DEF OpeningInit
<1>2. CurrentVersion = newest
  BY <1>1, VersionOfInterval
<1>3. SchemaInv
  BY <1>1, <1>2 DEF SchemaInv, Applied
<1>4. TomlTyped
  BY OpeningAssumption DEF OpeningInit, TomlTyped
<1> QED
  BY <1>3, <1>4, RestIsTyped
     DEF OpeningInit, OpeningInv, OpenSteps, Left, Waiting, AtRest

\* A step that leaves the schema alone is the concern of one process.
LEMMA OpenerStep ==
    ASSUME NEW o \in Openers, OpeningInv, SchemaInv', CurrentVersion' >= CurrentVersion,
           openPc' \in [Openers -> OpenSteps],
           openLoc' \in [Openers -> Openings], TomlTyped',
           \A q \in Openers \ {o} : openPc'[q] = openPc[q] /\ openLoc'[q] = openLoc[q],
           Left(o)', Waiting(o)'
    PROVE  OpeningInv'
<1>1. CurrentVersion \in Nat /\ CurrentVersion' \in Nat /\ CurrentVersion <= CurrentVersion'
      /\ CurrentVersion' \in 0 .. 3
  BY DEF OpeningInv, SchemaInv, Applied
<1>2. ASSUME NEW q \in Openers \ {o} PROVE Left(q)' /\ Waiting(q)'
  <2>1. Left(q) /\ Waiting(q) /\ openPc'[q] = openPc[q] /\ openLoc'[q] = openLoc[q]
    BY DEF OpeningInv
  <2>2. Left(q)'
    BY <1>1, <2>1 DEF Left
  <2>3. Waiting(q)'
    <3>1. CASE openPc[q] \notin {"copy", "copied", "migrate"}
      BY <2>1, <3>1 DEF Waiting
    <3>2. CASE openPc[q] \in {"copy", "copied", "migrate"}
      <4>1. First(openLoc[q].goals) \in {2, 3}
        BY <3>2, FirstGoal
      <4>2. PICK from \in Nat :
                /\ from \in 1 .. First(openLoc[q].goals)
                /\ from <= CurrentVersion + 1
                /\ openLoc[q].pending = from .. First(openLoc[q].goals)
        BY <2>1, <3>2, <4>1 DEF Waiting
      <4>3. from <= CurrentVersion' + 1
        <5> DEFINE version == CurrentVersion
                   later == CurrentVersion'
        <5>1. version \in Nat /\ later \in Nat /\ version <= later /\ from <= version + 1
          BY <1>1, <4>2
        <5> HIDE DEF version, later
        <5>2. from <= later + 1
          BY <5>1
        <5> QED
          BY <5>2 DEF later
      <4> QED
        BY <2>1, <4>2, <4>3 DEF Waiting
    <3> QED
      BY <3>1, <3>2
  <2> QED
    BY <2>2, <2>3
<1> QED
  BY <1>2 DEF OpeningInv

LEMMA SchemaStays ==
    ASSUME OpeningInv, UNCHANGED database
    PROVE  SchemaInv' /\ CurrentVersion' = CurrentVersion /\ CurrentVersion \in 0 .. 3
BY DEF OpeningInv, SchemaInv, Applied, CurrentVersion

LEMMA PlainStep ==
    ASSUME NEW o \in Openers, OpeningInv, UNCHANGED database, TomlTyped',
           NEW to \in OpenSteps, openPc' = [openPc EXCEPT ![o] = to],
           NEW new \in Openings, openLoc' = [openLoc EXCEPT ![o] = new],
           Left(o)', Waiting(o)'
    PROVE  OpeningInv'
<1>1. SchemaInv' /\ CurrentVersion' >= CurrentVersion
  BY SchemaStays
<1>2. openPc' \in [Openers -> OpenSteps] /\ openLoc' \in [Openers -> Openings]
  BY DEF OpeningInv
<1>3. \A q \in Openers \ {o} : openPc'[q] = openPc[q] /\ openLoc'[q] = openLoc[q]
  BY DEF OpeningInv
<1> QED
  BY <1>1, <1>2, <1>3, OpenerStep

-----------------------------------------------------------------------------
(* The schema: one lemma for each kind of step *)

\* A command that is done, or stops.
LEMMA RestKeeps ==
    ASSUME NEW o \in Openers, OpeningInv, SchemaInv', CurrentVersion' >= CurrentVersion,
           openPc' = [openPc EXCEPT ![o] = "idle"],
           openLoc' = [openLoc EXCEPT ![o] = AtRest], TomlTyped'
    PROVE  OpeningInv'
<1>1. Left(o)' /\ Waiting(o)'
  BY DEF OpeningInv, Left, Waiting, AtRest
<1> QED
  BY <1>1, RestIsTyped, OpenerStep DEF OpeningInv, OpenSteps

\* The steps before the database is looked at: the goals are those of the command.
LEMMA LayoutKeeps ==
    ASSUME NEW o \in Openers, OpeningInv,
           \/ \E c \in OpeningCommands, n \in Names : StartOpening(o, c, n)
           \/ CheckToml(o) \/ TruncateToml(o) \/ WriteToml(o)
    PROVE  OpeningInv'
<1>1. UNCHANGED database
  BY DEF StartOpening, CheckToml, TruncateToml, WriteToml
<1>2. ASSUME NEW c \in OpeningCommands, NEW n \in Names, StartOpening(o, c, n)
      PROVE  OpeningInv'
  <2>1. /\ openPc' = [openPc EXCEPT ![o] = IF c = "project" THEN "gate" ELSE "layout"]
        /\ openLoc' = [openLoc EXCEPT ![o] = [AtRest EXCEPT !.command = c, !.name = n,
                                                            !.goals = Goals(c)]]
    BY <1>2 DEF StartOpening, OpenStep
  <2>2. /\ openPc'[o] \in {"gate", "layout"}
        /\ openLoc'[o].goals = Goals(c) /\ openLoc'[o].command = c
    BY <2>1 DEF OpeningInv, AtRest
  <2>3. Left(o)' /\ Waiting(o)'
    BY <2>2 DEF Left, Waiting
  <2>4. Goals(c) \in SUBSET Versions
    BY GoalsOfCommands DEF Versions
  <2>5. [AtRest EXCEPT !.command = c, !.name = n, !.goals = Goals(c)]
            \in Openings
    BY <2>4, RestIsTyped DEF Openings, AtRest
  <2>6. TomlTyped'
    BY <1>2 DEF StartOpening, OpeningInv, TomlTyped
  <2>7. \A to \in {"gate", "layout"} : to \in OpenSteps
    BY DEF OpenSteps
  <2> QED
    BY <1>1, <2>1, <2>3, <2>5, <2>6, <2>7, PlainStep
<1>3. CASE CheckToml(o) \/ TruncateToml(o) \/ WriteToml(o)
  <2>1. /\ openPc[o] \in {"layout", "truncate", "name"} /\ openLoc' = openLoc
        /\ \E to \in {"truncate", "gate", "name"} : openPc' = [openPc EXCEPT ![o] = to]
    BY <1>3 DEF CheckToml, TruncateToml, WriteToml, OpenStep
  <2>2. Left(o)' /\ Waiting(o)'
    <3>1. Left(o) /\ CurrentVersion' = CurrentVersion /\ openLoc'[o] = openLoc[o]
          /\ openPc'[o] \in {"truncate", "gate", "name"}
      BY <1>1, <2>1, SchemaStays DEF OpeningInv
    <3> QED
      BY <2>1, <3>1 DEF Left, Waiting
  <2>3. TomlTyped'
    BY <1>3 DEF CheckToml, TruncateToml, WriteToml, OpeningInv, TomlTyped, Openings
  <2> QED
    BY <1>1, <2>1, <2>2, <2>3, OpenerStep, SchemaStays DEF OpeningInv, OpenSteps
<1> QED
  BY <1>2, <1>3

LEMMA ReadNameKeeps ==
    ASSUME NEW o \in Openers, OpeningInv, ReadName(o)
    PROVE  OpeningInv'
<1>1. UNCHANGED database /\ openPc[o] = "gate"
  BY DEF ReadName, OpenStep
<1>2. CASE openLoc[o].command = "init"
  <2>1. openPc' = [openPc EXCEPT ![o] = "idle"] /\ openLoc' = [openLoc EXCEPT ![o] = AtRest]
    BY <1>2 DEF ReadName, OpenStep
  <2>2. SchemaInv' /\ CurrentVersion' >= CurrentVersion
    BY <1>1, SchemaStays
  <2>3. TomlTyped'
    BY DEF ReadName, OpeningInv, TomlTyped
  <2> QED
    BY <2>1, <2>2, <2>3, RestKeeps
<1>3. CASE openLoc[o].command # "init"
  <2> DEFINE name == IF toml = "empty" THEN DirName ELSE toml
  <2>1. /\ openPc' = [openPc EXCEPT ![o] = "version"]
        /\ openLoc' = [openLoc EXCEPT ![o] = [openLoc[o] EXCEPT !.name = name]]
        /\ name \in Names
    BY <1>3, OpeningAssumption DEF ReadName, OpenStep, OpeningInv, TomlTyped
  <2> HIDE DEF name
  <2>2. Left(o) /\ CurrentVersion' = CurrentVersion
    BY <1>1, SchemaStays DEF OpeningInv
  <2>3. Left(o)' /\ Waiting(o)'
    <3>1. /\ openPc'[o] = "version" /\ openLoc'[o].goals = openLoc[o].goals
          /\ openLoc'[o].command = openLoc[o].command
      BY <2>1 DEF OpeningInv
    <3> QED
      BY <1>1, <2>2, <3>1 DEF Left, Waiting
  <2>4. TomlTyped'
    BY DEF ReadName, OpeningInv, TomlTyped
  <2>5. [openLoc[o] EXCEPT !.name = name] \in Openings
    BY <2>1 DEF OpeningInv, Openings
  <2> QED
    BY <1>1, <2>1, <2>3, <2>4, <2>5, OpenerStep, SchemaStays DEF OpeningInv, OpenSteps
<1> QED
  BY <1>2, <1>3

\* The gap between what a command found and its goal is what it will run.
LEMMA ReadVersionKeeps ==
    ASSUME NEW o \in Openers, OpeningInv, ReadVersion(o)
    PROVE  OpeningInv'
<1> DEFINE goals == openLoc[o].goals
           goal == First(goals)
           pending == (CurrentVersion + 1) .. goal
           to == IF pending # {} THEN "copy" ELSE IF goals = {goal} THEN "open" ELSE "version"
           rest == IF pending = {} THEN goals \ {goal} ELSE goals
           new == [openLoc[o] EXCEPT !.pending = pending, !.goals = rest]
<1>1. openPc[o] = "version" /\ UNCHANGED database /\ TomlTyped'
  BY DEF ReadVersion, OpeningInv, TomlTyped
<1>2. openPc' = [openPc EXCEPT ![o] = to] /\ openLoc' = [openLoc EXCEPT ![o] = new]
  BY DEF ReadVersion, OpenStep
<1>3. openLoc[o] \in Openings /\ Left(o)
  BY DEF OpeningInv
<1>4. CurrentVersion \in 0 .. 3 /\ CurrentVersion' = CurrentVersion
  BY <1>1, SchemaStays
<1>5. /\ goals \in {{2}, {2, 3}, {3}}
      /\ goals \in {{2}, {2, 3}} => goal = 2
      /\ goals = {3} => goal = 3
      /\ goals = {2, 3} \/ goals = {3} => openLoc[o].command = "workflow"
      /\ goals = {2} => openLoc[o].command # "workflow"
  BY <1>1, <1>3, FirstGoal DEF Left, Goals
<1>6. to \in OpenSteps
  BY DEF OpenSteps
<1>7. new \in Openings
  <2>1. pending \in SUBSET Versions /\ rest \in SUBSET Versions
    BY <1>3, <1>4, <1>5 DEF Versions, Openings
  <2> QED
    BY <1>3, <2>1 DEF Openings
<1>8. /\ openPc'[o] = to
      /\ openLoc'[o].command = openLoc[o].command
      /\ openLoc'[o].goals = rest /\ openLoc'[o].pending = pending
  BY <1>2, <1>3 DEF OpeningInv, Openings
<1>9. Left(o)' /\ Waiting(o)'
  <2>1. CASE pending # {}
    <3>1. to = "copy" /\ rest = goals /\ goal >= CurrentVersion + 1
      BY <1>4, <1>5, <2>1
    <3>2. CurrentVersion + 1 \in 1 .. goal
      BY <1>4, <1>5, <3>1
    <3>3. Waiting(o)'
      BY <1>4, <1>8, <3>1, <3>2 DEF Waiting
    <3>4. Left(o)'
      BY <1>1, <1>3, <1>4, <1>8, <3>1 DEF Left
    <3> QED
      BY <3>3, <3>4
  <2>2. CASE pending = {}
    <3>1. CurrentVersion >= goal /\ rest = goals \ {goal} /\ to \in {"open", "version"}
          /\ (to = "open" <=> goals = {goal})
      BY <1>4, <1>5, <2>2
    <3>2. Waiting(o)'
      BY <1>8, <3>1 DEF Waiting
    <3>3. CASE goals = {2, 3}
      <4>1. goal = 2 /\ rest = {3} /\ to = "version" /\ openLoc[o].command = "workflow"
        BY <1>5, <3>1, <3>3
      <4> QED
        BY <1>4, <1>8, <3>1, <3>2, <4>1 DEF Left
    <3>4. CASE goals \in {{2}, {3}}
      <4>1. to = "open" /\ CurrentVersion >= 2
            /\ (openLoc[o].command = "workflow" => CurrentVersion = 3)
        BY <1>4, <1>5, <3>1, <3>4
      <4> QED
        BY <1>4, <1>8, <3>2, <4>1 DEF Left
    <3> QED
      BY <1>5, <3>3, <3>4
  <2> QED
    BY <2>1, <2>2
<1> HIDE DEF to, new
<1> QED
  BY <1>1, <1>2, <1>6, <1>7, <1>9, PlainStep

LEMMA BackupKeeps ==
    ASSUME NEW o \in Openers, OpeningInv, StartBackup(o) \/ EndBackup(o)
    PROVE  OpeningInv'
<1>1. UNCHANGED database /\ TomlTyped' /\ openPc[o] \in {"copy", "copied"}
  BY DEF StartBackup, EndBackup, OpenStep, OpeningInv, TomlTyped
<1>2. openLoc[o] \in Openings /\ Left(o) /\ Waiting(o)
  BY DEF OpeningInv
<1>3. CurrentVersion \in 0 .. 3 /\ CurrentVersion' = CurrentVersion
  BY <1>1, SchemaStays
<1>4. PICK to \in {"copied", "migrate"}, seen \in 0 .. 3 :
          /\ openPc' = [openPc EXCEPT ![o] = to]
          /\ openLoc' = [openLoc EXCEPT ![o] = [openLoc[o] EXCEPT !.seen = seen]]
  <2>1. CASE StartBackup(o)
    BY <1>3, <2>1 DEF StartBackup, OpenStep
  <2>2. CASE EndBackup(o)
    <3>1. openLoc[o].seen \in 0 .. 3 /\ openLoc' = openLoc
      BY <1>2, <2>2 DEF EndBackup, Openings
    <3>2. openLoc = [openLoc EXCEPT ![o] = [openLoc[o] EXCEPT !.seen = openLoc[o].seen]]
      BY <1>2 DEF OpeningInv, Openings
    <3> QED
      BY <2>2, <3>1, <3>2 DEF EndBackup, OpenStep
  <2> QED
    BY <2>1, <2>2
<1> DEFINE new == [openLoc[o] EXCEPT !.seen = seen]
<1>5. new \in Openings /\ to \in OpenSteps
  BY <1>2 DEF Openings, OpenSteps
<1>6. /\ openPc'[o] = to
      /\ openLoc'[o].command = openLoc[o].command
      /\ openLoc'[o].goals = openLoc[o].goals /\ openLoc'[o].pending = openLoc[o].pending
  BY <1>2, <1>4 DEF OpeningInv, Openings
<1>7. Left(o)' /\ Waiting(o)'
  BY <1>1, <1>2, <1>3, <1>6 DEF Left, Waiting
<1> HIDE DEF new
<1> QED
  BY <1>1, <1>4, <1>5, <1>7, PlainStep DEF new

\* A script runs only when it is the next one: its rows are those of the scripts
\* before it, and what another command ran already fails.
LEMMA MigrateKeeps ==
    ASSUME NEW o \in Openers, OpeningInv, Migrate(o)
    PROVE  OpeningInv'
<1> DEFINE k == CurrentVersion
           goal == First(openLoc[o].goals)
           v == First(openLoc[o].pending)
           to == IF openLoc[o].pending = {v} THEN "version" ELSE "migrate"
           new == [openLoc[o] EXCEPT !.pending = @ \ {v}]
<1>1. /\ openPc[o] = "migrate" /\ openPc' = [openPc EXCEPT ![o] = to]
      /\ openLoc' = [openLoc EXCEPT ![o] = new]
      /\ v \notin database.applied /\ toml' = toml
      /\ database' = [database EXCEPT !.applied = @ \cup {v}, !.runs[v] = @ + 1]
  BY DEF Migrate, OpenStep, CanMigrate, Migrated
<1>2. SchemaInv /\ Left(o) /\ Waiting(o) /\ openLoc[o] \in Openings
  BY DEF OpeningInv
<1>3. k \in 0 .. 3 /\ database.applied = 1 .. k
  BY <1>2 DEF SchemaInv, Applied
<1>4. goal \in {2, 3}
  BY <1>1, FirstGoal
<1>5. PICK from \in 1 .. goal : from <= k + 1 /\ openLoc[o].pending = from .. goal
  BY <1>1, <1>2 DEF Waiting
<1>6. v = from
  <2>1. from .. goal \in SUBSET Nat /\ from \in from .. goal /\ \A w \in from .. goal : from <= w
    BY <1>4, <1>5
  <2> QED
    BY <1>5, <2>1, FirstIs
<1>7. v = k + 1 /\ v \in Versions
  <2>1. from > k
    BY <1>1, <1>3, <1>4, <1>5, <1>6
  <2> QED
    BY <1>3, <1>4, <1>5, <1>6, <2>1 DEF Versions
<1> HIDE DEF k, v
<1>8. /\ database'.applied = 1 .. k + 1
      /\ database'.runs = [w \in Versions |-> IF w <= k + 1 THEN 1 ELSE 0]
      /\ database' = [applied |-> database'.applied, runs |-> database'.runs,
                      projects |-> database'.projects]
  <2>1. database' = [applied |-> database.applied \cup {v},
                     runs |-> [database.runs EXCEPT ![v] = @ + 1],
                     projects |-> database.projects]
    BY <1>1, <1>2 DEF SchemaInv
  <2>2. database.applied \cup {v} = 1 .. k + 1
    BY <1>3, <1>7
  <2>3. [database.runs EXCEPT ![v] = @ + 1] = [w \in Versions |-> IF w <= k + 1 THEN 1 ELSE 0]
    BY <1>2, <1>3, <1>7 DEF SchemaInv, k, Versions
  <2> QED
    BY <2>1, <2>2, <2>3
<1>9. k + 1 \in 0 .. 3
  BY <1>3, <1>7 DEF Versions
<1>10. CurrentVersion' = k + 1
  <2>1. k + 1 \in Nat
    BY <1>3
  <2> QED
    BY <1>8, <2>1, IntervalSize DEF CurrentVersion
<1>11. SchemaInv' /\ CurrentVersion' >= CurrentVersion
  <2>1. SchemaInv'
    BY <1>8, <1>9, <1>10 DEF SchemaInv, Applied
  <2> QED
    BY <1>3, <1>10, <2>1 DEF k
<1>12. /\ openPc'[o] = to /\ openLoc'[o].command = openLoc[o].command
       /\ openLoc'[o].goals = openLoc[o].goals
       /\ openLoc'[o].pending = openLoc[o].pending \ {v}
       /\ new \in Openings
  BY <1>1, <1>2 DEF OpeningInv, Openings
<1>13. Left(o)'
  <2>1. CurrentVersion >= 2 => CurrentVersion' >= 2
    BY <1>3, <1>10 DEF k
  <2> QED
    BY <1>1, <1>2, <1>12, <2>1 DEF Left
<1>14. Waiting(o)'
  <2>1. CASE openLoc[o].pending = {v}
    BY <1>12, <2>1 DEF Waiting
  <2>2. CASE openLoc[o].pending # {v}
    <3>1. openLoc[o].pending \ {v} = k + 2 .. goal /\ k + 2 \in 1 .. goal
      BY <1>3, <1>4, <1>5, <1>6, <1>7, <2>2
    <3> HIDE DEF goal
    <3>2. k + 2 <= CurrentVersion' + 1
      BY <1>3, <1>10
    <3> QED
      BY <1>12, <3>1, <3>2 DEF Waiting, goal
  <2> QED
    BY <2>1, <2>2
<1> HIDE DEF to, new
<1>15. /\ openPc' \in [Openers -> OpenSteps] /\ openLoc' \in [Openers -> Openings]
       /\ \A q \in Openers \ {o} : openPc'[q] = openPc[q] /\ openLoc'[q] = openLoc[q]
       /\ TomlTyped'
  BY <1>1, <1>12 DEF OpeningInv, OpenSteps, to, TomlTyped
<1> QED
  BY <1>11, <1>13, <1>14, <1>15, OpenerStep

LEMMA StoreProjectKeeps ==
    ASSUME NEW o \in Openers, OpeningInv, StoreProject(o)
    PROVE  OpeningInv'
<1>1. /\ database'.applied = database.applied /\ database'.runs = database.runs
      /\ database' = [applied |-> database'.applied, runs |-> database'.runs,
                      projects |-> database'.projects]
  BY DEF StoreProject, OpeningInv, SchemaInv
<1>2. CurrentVersion' = CurrentVersion /\ CurrentVersion \in 0 .. 3
  BY <1>1 DEF CurrentVersion, OpeningInv, SchemaInv, Applied
<1>3. SchemaInv' /\ CurrentVersion' >= CurrentVersion
  BY <1>1, <1>2 DEF OpeningInv, SchemaInv, Applied
<1>4. TomlTyped'
  BY DEF StoreProject, OpeningInv, TomlTyped
<1> QED
  BY <1>3, <1>4, RestKeeps DEF StoreProject, OpenStep

LEMMA OpeningEndsKeeps ==
    ASSUME NEW o \in Openers, OpeningInv, OpeningEnds(o)
    PROVE  OpeningInv'
<1>1. SchemaInv' /\ CurrentVersion' >= CurrentVersion
  BY SchemaStays DEF OpeningEnds
<1>2. TomlTyped'
  BY DEF OpeningEnds, OpeningInv, TomlTyped
<1> QED
  BY <1>1, <1>2, RestKeeps DEF OpeningEnds

LEMMA OpeningKeeps == OpeningInv /\ [OpeningNext]_openingVars => OpeningInv'
<1> SUFFICES ASSUME OpeningInv, [OpeningNext]_openingVars PROVE OpeningInv'
  OBVIOUS
<1>1. CASE UNCHANGED openingVars
  BY <1>1 DEF openingVars, OpeningInv, SchemaInv, TomlTyped, Applied, CurrentVersion, Left,
              Waiting
<1> QED
  BY <1>1, LayoutKeeps, ReadNameKeeps, ReadVersionKeeps, BackupKeeps, MigrateKeeps,
     StoreProjectKeeps, OpeningEndsKeeps DEF OpeningNext

\* The inductive invariant of opening a project: version and schema agree, and
\* each command is as far as its goals say.
THEOREM OpeningInvHolds == OpeningSpec => []OpeningInv
BY OpeningStarts, OpeningKeeps, PTL DEF OpeningSpec

\* The version rows are those of the scripts that ran, each once, from the first
\* on, however many commands found the same old version.
THEOREM SchemaIsItsVersion == OpeningSpec => []SchemaMatchesVersion
<1>1. OpeningInv => SchemaMatchesVersion
  BY DEF OpeningInv, SchemaInv, Applied, SchemaMatchesVersion, Versions
<1> QED
  BY <1>1, OpeningInvHolds, PTL

\* A command works on a database of at least the version it asked for.
THEOREM OpenedAreMigrated == OpeningSpec => []OpenedIsMigrated
<1>1. OpeningInv => OpenedIsMigrated
  <2> SUFFICES ASSUME OpeningInv, NEW o \in Openers, openPc[o] = "open"
               PROVE  /\ 2 \in database.applied
                      /\ openLoc[o].command = "workflow" => 3 \in database.applied
    BY DEF OpenedIsMigrated
  <2>1. Left(o) /\ CurrentVersion \in 0 .. 3 /\ database.applied = 1 .. CurrentVersion
    BY DEF OpeningInv, SchemaInv, Applied
  <2> QED
    BY <2>1 DEF Left
<1> QED
  BY <1>1, OpeningInvHolds, PTL

-----------------------------------------------------------------------------
(* The review history *)

AnyEntry == Requests \cup {NotDeciding.entry}

Held == [entry : AnyEntry, entries : Seq(AnyEntry), overtaken : BOOLEAN]

\* A history that parses is the one that was recorded last; what a command holds
\* goes on from it, unless another command wrote since it read.
JournalInv ==
    /\ Readable(journal.file) => journal.entries = recorded
    /\ decidePc \in [Deciders -> {"idle", "proposal", "journal", "truncate", "write"}]
    /\ decideLoc \in [Deciders -> Held] /\ journal.entries \in Seq(AnyEntry)
    /\ OnlyOverlapDrops

LEMMA NotDecidingHeld == NotDeciding \in Held
BY DEF NotDeciding, Held, AnyEntry

LEMMA JournalStarts == JournalInit => JournalInv
BY NotDecidingHeld DEF JournalInit, JournalInv, OnlyOverlapDrops

\* A write overtakes everyone who holds a history, whatever that is.
LEMMA OvertakenOrNew ==
    ASSUME NEW d \in Deciders, JournalInv, decidePc[d] \in {"truncate", "write"}
    PROVE  /\ Overtaking(d) \in [Deciders -> Held]
           /\ Overtaking(d)[d] = decideLoc[d]
           /\ \A e \in Deciders \ {d} : decidePc[e] \in {"truncate", "write"} =>
                 Overtaking(d)[e].overtaken
<1>1. decideLoc \in [Deciders -> Held]
  BY DEF JournalInv
<1>2. ASSUME NEW e \in Deciders
      PROVE  /\ Overtaking(d)[e] \in Held
             /\ e = d => Overtaking(d)[e] = decideLoc[e]
             /\ e # d /\ decidePc[e] \in {"truncate", "write"} =>
                   Overtaking(d)[e].overtaken
  BY <1>1 DEF Overtaking, Held
<1>3. Overtaking(d) = [e \in Deciders |-> Overtaking(d)[e]]
  BY DEF Overtaking
<1> QED
  BY <1>2, <1>3

LEMMA JournalKeeps == JournalInv /\ [JournalNext]_journalVars => JournalInv'
<1> SUFFICES ASSUME JournalInv, [JournalNext]_journalVars PROVE JournalInv'
  OBVIOUS
<1>0. decideLoc \in [Deciders -> Held] /\ journal.entries \in Seq(AnyEntry)
  BY DEF JournalInv
<1>1. CASE WriteProposalFile
  BY <1>1 DEF WriteProposalFile, JournalInv, OnlyOverlapDrops
<1>2. ASSUME NEW d \in Deciders, NEW entry \in Requests, StartDecision(d, entry)
      PROVE  JournalInv'
  <2>1. decideLoc' \in [Deciders -> Held]
    BY <1>0, <1>2 DEF StartDecision, Held, AnyEntry
  <2> QED
    BY <1>2, <2>1 DEF StartDecision, DecideStep, JournalInv, OnlyOverlapDrops
<1>3. ASSUME NEW d \in Deciders, ReadProposalFile(d)
      PROVE  JournalInv'
  BY <1>3 DEF ReadProposalFile, DecideStep, JournalInv, OnlyOverlapDrops
<1>4. ASSUME NEW d \in Deciders, ReadJournal(d)
      PROVE  JournalInv'
  <2>1. Append(journal.entries, decideLoc[d].entry) \in Seq(AnyEntry)
    BY <1>0 DEF Held
  <2>2. decideLoc' \in [Deciders -> Held]
    BY <1>0, <1>4, <2>1 DEF ReadJournal, Held
  <2>3. /\ decideLoc'[d].entries = Append(recorded, decideLoc[d].entry)
        /\ decideLoc'[d].entry = decideLoc[d].entry
    BY <1>0, <1>4 DEF ReadJournal, JournalInv, Held
  <2>4. \A e \in Deciders \ {d} : decideLoc'[e] = decideLoc[e] /\ decidePc'[e] = decidePc[e]
    BY <1>0, <1>4 DEF ReadJournal, DecideStep, JournalInv
  <2>5. OnlyOverlapDrops'
    BY <1>4, <2>3, <2>4 DEF ReadJournal, JournalInv, OnlyOverlapDrops
  <2> QED
    BY <1>4, <2>2, <2>5 DEF ReadJournal, DecideStep, JournalInv, Readable
<1>5. ASSUME NEW d \in Deciders, TruncateJournal(d)
      PROVE  JournalInv'
  <2>1. decidePc[d] = "truncate" /\ decidePc' = [decidePc EXCEPT ![d] = "write"]
        /\ decideLoc' = Overtaking(d) /\ recorded' = recorded
    BY <1>5 DEF TruncateJournal, DecideStep
  <2>2. ~ Readable(journal'.file) /\ journal'.entries \in Seq(AnyEntry)
    BY <1>5 DEF TruncateJournal, Readable
  <2>3. OnlyOverlapDrops'
    BY <2>1, OvertakenOrNew DEF JournalInv, OnlyOverlapDrops
  <2> QED
    BY <2>1, <2>2, <2>3, OvertakenOrNew DEF JournalInv, Readable
<1>6. ASSUME NEW d \in Deciders, WriteJournal(d)
      PROVE  JournalInv'
  <2>1. decidePc[d] = "write" /\ decidePc' = [decidePc EXCEPT ![d] = "idle"]
        /\ decideLoc' = [Overtaking(d) EXCEPT ![d] = NotDeciding]
    BY <1>6 DEF WriteJournal, DecideStep
  <2>2. /\ Readable(journal'.file) => journal'.entries = recorded'
        /\ journal'.entries \in Seq(AnyEntry)
    BY <1>0, <1>6 DEF WriteJournal, Overwritten, Readable, Held
  <2>3. Overtaking(d) \in [Deciders -> Held]
    BY <2>1, OvertakenOrNew
  <2>4. decideLoc' \in [Deciders -> Held]
    BY <2>1, <2>3, NotDecidingHeld
  <2>5. \A e \in Deciders \ {d} : decideLoc'[e] = Overtaking(d)[e]
    BY <2>1, <2>3
  <2>6. OnlyOverlapDrops'
    BY <2>1, <2>5, OvertakenOrNew DEF OnlyOverlapDrops, JournalInv
  <2> QED
    BY <2>1, <2>2, <2>4, <2>6 DEF JournalInv, Readable
<1>7. ASSUME NEW d \in Deciders, DecisionEnds(d)
      PROVE  JournalInv'
  BY <1>7, NotDecidingHeld DEF DecisionEnds, JournalInv, OnlyOverlapDrops
<1>8. CASE UNCHANGED journalVars
  BY <1>8 DEF journalVars, JournalInv, OnlyOverlapDrops
<1> QED
  BY <1>1, <1>2, <1>3, <1>4, <1>5, <1>6, <1>7, <1>8 DEF JournalNext

\* A recorded decision is dropped only by a command that had read the history
\* before it was recorded.
THEOREM OnlyOverlapsDrop == JournalSpec => []OnlyOverlapDrops
<1>1. JournalInv => OnlyOverlapDrops
  BY DEF JournalInv
<1> QED
  BY <1>1, JournalStarts, JournalKeeps, PTL DEF JournalSpec

-----------------------------------------------------------------------------
(* Privacy modes *)

\* The first revisions have contents, in the form of the claims and the spans.
ContentsUpTo(n) ==
    /\ n \in Nat /\ DOMAIN contents = 1 .. n
    /\ n > 0 => claims # None
    /\ \A r \in 1 .. n : contents[r] = claims

ModesInv ==
    /\ ContentsUpTo(Latest)
    /\ spans = claims
    /\ WorkflowReadsText

-----------------------------------------------------------------------------
LEMMA RevisionsCounted ==
    ASSUME NEW n \in Nat
    PROVE  Cardinality(1 .. n) = n
<1>1. Cardinality(1 .. n) = IF 1 > n THEN 0 ELSE n - 1 + 1
  BY FS_Interval
<1> QED
  BY <1>1

\* What one transaction writes is in a form of its own.
LEMMA FormIsThere == \A env \in Environments : FormOf(env) # None
BY DEF FormOf, ResolveKeyProvider, Environments, None, Plain

\* A state that loads is in the form the runtime writes: under a key the codec
\* refuses any other, without one the digest does.
LEMMA LoadedForm ==
    ASSUME NEW env \in Environments, ModesInv, StateLoads(env)
    PROVE  /\ Latest > 0
           /\ claims = FormOf(env)
           /\ "cipher" \notin ReadUnder(env)
<1>1. Latest > 0 /\ Latest \in 1 .. Latest /\ contents[Latest] = claims /\ spans = claims
  BY DEF ModesInv, ContentsUpTo, StateLoads, ContentLoads
<1>2. CASE FormOf(env) = Plain
  <2>1. claims = Plain
    BY <1>1, <1>2 DEF StateLoads, ContentLoads, IntegrityHolds, Taken
  <2> QED
    BY <1>1, <1>2, <2>1 DEF ReadUnder, Taken
<1>3. CASE FormOf(env) # Plain
  BY <1>1, <1>3 DEF StateLoads, ContentLoads, Decodes, ReadUnder
<1> QED
  BY <1>2, <1>3

\* Openings that leave the rows of the document alone.
LEMMA RowsStay ==
    ASSUME ModesInv, UNCHANGED <<contents, claims, spans>>, WorkflowReadsText'
    PROVE  ModesInv'
BY DEF ModesInv, ContentsUpTo, Latest

LEMMA SaysThis ==
    ASSUME NEW command, NEW ok, NEW read, Says(command, ok, read)
    PROVE  last'.command = command /\ last'.read = read
BY DEF Says

LEMMA ModesStart == PrivacyInit => ModesInv
<1> SUFFICES ASSUME PrivacyInit PROVE ModesInv
  OBVIOUS
<1>1. DOMAIN contents = 1 .. 0
  BY DEF PrivacyInit
<1>2. Latest = 0
  BY <1>1, RevisionsCounted DEF Latest
<1> QED
  BY <1>1, <1>2 DEF PrivacyInit, ModesInv, ContentsUpTo, WorkflowReadsText, NoCommand

LEMMA WorkflowIngestKeeps ==
    ASSUME NEW env \in Environments, ModesInv, WorkflowIngest(env)
    PROVE  ModesInv'
<1>1. /\ contents' = [r \in {1} |-> FormOf(env)]
      /\ claims' = FormOf(env) /\ spans' = FormOf(env)
  BY DEF WorkflowIngest
<1>2. DOMAIN contents' = 1 .. 1 /\ \A r \in 1 .. 1 : contents'[r] = claims'
  BY <1>1
<1>3. Latest' = 1
  <2>1. 1 \in Nat
    OBVIOUS
  <2> QED
    BY <1>2, <2>1, RevisionsCounted DEF Latest
<1>4. WorkflowReadsText'
  BY DEF WorkflowIngest, Says, WorkflowReadsText
<1> QED
  BY <1>1, <1>2, <1>3, <1>4, FormIsThere DEF ModesInv, ContentsUpTo

LEMMA WorkflowApplyKeeps ==
    ASSUME NEW env \in Environments, ModesInv, WorkflowApply(env)
    PROVE  ModesInv'
<1> DEFINE n == Latest
<1>1. /\ contents' = [r \in 1 .. n + 1 |-> IF r <= n THEN contents[r] ELSE FormOf(env)]
      /\ spans' = FormOf(env) /\ claims' = claims /\ StateLoads(env)
  BY DEF WorkflowApply
<1>2. n \in Nat /\ n > 0 /\ claims # None /\ claims = FormOf(env)
      /\ \A r \in 1 .. n : contents[r] = claims
  BY <1>1, LoadedForm DEF ModesInv, ContentsUpTo
<1> HIDE DEF n
<1>3. DOMAIN contents' = 1 .. n + 1 /\ \A r \in 1 .. n + 1 : contents'[r] = claims'
  BY <1>1, <1>2
<1>4. Latest' = n + 1
  <2>1. n + 1 \in Nat
    BY <1>2
  <2> QED
    BY <1>3, <2>1, RevisionsCounted DEF Latest
<1>5. WorkflowReadsText'
  BY <1>1, LoadedForm DEF WorkflowApply, Says, WorkflowReadsText
<1> QED
  BY <1>1, <1>2, <1>3, <1>4, <1>5 DEF ModesInv, ContentsUpTo

LEMMA WorkflowReadKeeps ==
    ASSUME NEW env \in Environments, ModesInv, WorkflowRead(env) \/ WorkflowExport(env)
    PROVE  ModesInv'
<1>1. UNCHANGED <<contents, claims, spans>>
  BY DEF WorkflowRead, WorkflowExport, ProjectSame
<1>2. last'.read = {} \/ (StateLoads(env) /\ last'.read = ReadUnder(env))
  <2>1. \/ Says("workflow read", FALSE, {})
        \/ StateLoads(env) /\ Says("workflow read", TRUE, ReadUnder(env))
    BY Zenon DEF WorkflowRead, WorkflowExport
  <2> QED
    BY <2>1, SaysThis, Zenon
<1>3. WorkflowReadsText'
  BY <1>2, LoadedForm DEF WorkflowReadsText
<1> QED
  BY <1>1, <1>3, RowsStay

LEMMA ModesKeep == ModesInv /\ [PrivacyNext]_privacyVars => ModesInv'
<1> SUFFICES ASSUME ModesInv, [PrivacyNext]_privacyVars PROVE ModesInv'
  OBVIOUS
<1>1. CASE UNCHANGED privacyVars
  BY <1>1, RowsStay DEF privacyVars, ModesInv, WorkflowReadsText
<1>2. ASSUME NEW env \in Environments, ProjectIngest(env)
      PROVE  ModesInv'
  <2>1. /\ claims = None /\ claims' = Plain /\ spans' = Plain /\ contents' = contents
        /\ last'.command = "project ingest"
    BY <1>2 DEF ProjectIngest, Says
  <2>2. ContentsUpTo(Latest)
    BY DEF ModesInv
  <2>3. Latest = 0
    <3>1. Latest \in Nat /\ ~ (Latest > 0)
      BY <2>1, <2>2, Zenon DEF ContentsUpTo
    <3> QED
      BY <3>1
  <2>4. Latest' = Latest
    BY <2>1 DEF Latest
  <2>5. ContentsUpTo(Latest)'
    <3>1. DOMAIN contents = 1 .. Latest
      BY <2>2 DEF ContentsUpTo
    <3>2. Latest' \in Nat /\ ~ (Latest' > 0) /\ 1 .. Latest' = {}
      BY <2>3, <2>4
    <3> QED
      BY <2>1, <2>3, <2>4, <3>1, <3>2 DEF ContentsUpTo
  <2> QED
    BY <2>1, <2>5 DEF ModesInv, WorkflowReadsText
<1>3. ASSUME NEW env \in Environments,
             \/ BindStyle(env) \/ ImportStyle(env) \/ ReviewStyle(env)
             \/ LegacyRead(env, "finalize propose", spans)
             \/ LegacyRead(env, "export document", claims)
             \/ \E cacheEnabled \in BOOLEAN : Doctor(env, cacheEnabled)
      PROVE  ModesInv'
  <2>1. UNCHANGED <<contents, claims, spans>>
    BY <1>3 DEF BindStyle, ImportStyle, ReviewStyle, LegacyRead, Doctor, ProjectSame
  <2>2. last'.command \in {"bind-style", "import style", "style review",
                           "finalize propose", "export document", "doctor"}
    <3>1. CASE BindStyle(env)
      <4>1. Says("bind-style", ProfileLoads(env), {})
        BY <3>1 DEF BindStyle
      <4> QED
        BY <4>1, SaysThis
    <3>2. CASE \E cacheEnabled \in BOOLEAN : Doctor(env, cacheEnabled)
      <4>1. PICK cacheEnabled \in BOOLEAN : Doctor(env, cacheEnabled)
        BY <3>2
      <4>2. Says("doctor", DoctorFindings(env, cacheEnabled) = {}, {})
        BY <4>1 DEF Doctor
      <4> QED
        BY <4>2, SaysThis
    <3>3. CASE \/ ImportStyle(env) \/ ReviewStyle(env)
               \/ LegacyRead(env, "finalize propose", spans)
               \/ LegacyRead(env, "export document", claims)
      <4>1. \/ Says("import style", TRUE, {}) \/ Says("style review", TRUE, {})
            \/ Says("finalize propose", TRUE, {Taken(spans)})
            \/ Says("export document", TRUE, {Taken(claims)})
        BY <3>3, Zenon DEF ImportStyle, ReviewStyle, LegacyRead
      <4> QED
        BY <4>1, SaysThis, Zenon
    <3> QED
      BY <1>3, <3>1, <3>2, <3>3
  <2>3. WorkflowReadsText'
    BY <2>2 DEF WorkflowReadsText
  <2> QED
    BY <2>1, <2>3, RowsStay
<1> QED
  BY <1>1, <1>2, <1>3, WorkflowIngestKeeps, WorkflowReadKeeps, WorkflowApplyKeeps
     DEF PrivacyNext

\* The inductive invariant of the privacy modes: contents and spans keep the form
\* of the first revision, and no command has taken ciphertext for text.
THEOREM ModesInvHolds == PrivacySpec => []ModesInv
BY ModesStart, ModesKeep, PTL DEF PrivacySpec

\* The rows of a document keep the form of the mode it was ingested under.
THEOREM OneFormEver == PrivacySpec => []OneForm
<1>1. ModesInv => OneForm
  BY DEF ModesInv, ContentsUpTo, OneForm
<1> QED
  BY <1>1, ModesInvHolds, PTL

\* No workflow command that succeeds took ciphertext for text.
THEOREM WorkflowTakesText == PrivacySpec => []WorkflowReadsText
<1>1. ModesInv => WorkflowReadsText
  BY DEF ModesInv
<1> QED
  BY <1>1, ModesInvHolds, PTL

-----------------------------------------------------------------------------
(* Type correctness *)

\* A backup, and what is in a database, are of a version there is.
LEMMA BackupTyped ==
    ASSUME OpeningInv, OpeningTypeOK, [OpeningNext]_openingVars
    PROVE  /\ database'.projects \subseteq Names
           /\ backup' \in [file : {"none", "partial", "torn", "whole"}, version : 0 .. 3]
<1> DEFINE Typed ==
        /\ database'.projects \subseteq Names
        /\ backup' \in [file : {"none", "partial", "torn", "whole"}, version : 0 .. 3]
<1>1. /\ database.projects \subseteq Names
      /\ backup \in [file : {"none", "partial", "torn", "whole"}, version : 0 .. 3]
  BY DEF OpeningTypeOK
<1>2. CurrentVersion \in 0 .. 3
  BY DEF OpeningInv, SchemaInv, Applied
<1>3. CASE UNCHANGED <<database, backup>>
  BY <1>1, <1>3
<1>4. ASSUME NEW o \in Openers, StartBackup(o) \/ EndBackup(o) PROVE Typed
  <2>1. openLoc[o].seen \in 0 .. 3
    BY DEF OpeningTypeOK
  <2> QED
    BY <1>1, <1>2, <1>4, <2>1 DEF StartBackup, EndBackup
<1>5. ASSUME NEW o \in Openers, Migrate(o) PROVE Typed
  <2>1. PICK v : database' = Migrated(v) /\ backup' = backup
    BY <1>5 DEF Migrate
  <2>2. Migrated(v).projects = database.projects
    BY DEF Migrated, OpeningTypeOK
  <2> QED
    BY <1>1, <2>1, <2>2
<1>6. ASSUME NEW o \in Openers, StoreProject(o) PROVE Typed
  <2>1. openLoc[o].name \in Names
    BY DEF OpeningTypeOK
  <2>2. database'.projects = database.projects \cup {openLoc[o].name}
    BY <1>6 DEF StoreProject, OpeningTypeOK
  <2> QED
    BY <1>1, <1>6, <2>1, <2>2 DEF StoreProject
<1>7. ASSUME NEW o \in Openers,
             \/ \E c \in OpeningCommands, n \in Names : StartOpening(o, c, n)
             \/ CheckToml(o) \/ TruncateToml(o) \/ WriteToml(o) \/ ReadName(o)
             \/ ReadVersion(o) \/ OpeningEnds(o)
      PROVE  UNCHANGED <<database, backup>>
  BY <1>7 DEF StartOpening, CheckToml, TruncateToml, WriteToml, ReadName, ReadVersion,
              OpeningEnds
<1>8. CASE UNCHANGED openingVars
  BY <1>3, <1>8 DEF openingVars
<1>9. CASE OpeningNext
  <2>1. PICK o \in Openers :
            \/ \E c \in OpeningCommands, n \in Names : StartOpening(o, c, n)
            \/ CheckToml(o) \/ TruncateToml(o) \/ WriteToml(o) \/ ReadName(o)
            \/ ReadVersion(o) \/ StartBackup(o) \/ EndBackup(o) \/ Migrate(o)
            \/ StoreProject(o) \/ OpeningEnds(o)
    BY <1>9 DEF OpeningNext
  <2> QED
    BY <1>3, <1>4, <1>5, <1>6, <1>7, <2>1
<1> QED
  BY <1>8, <1>9

LEMMA OpeningTyped ==
    /\ OpeningInit => OpeningTypeOK
    /\ OpeningInv /\ OpeningTypeOK /\ [OpeningNext]_openingVars => OpeningTypeOK'
<1>1. ASSUME OpeningInv, database.projects \subseteq Names,
             backup \in [file : {"none", "partial", "torn", "whole"}, version : 0 .. 3]
      PROVE  OpeningTypeOK
  <2>1. database.applied \in SUBSET Versions /\ database.runs \in [Versions -> 0 .. 2]
    BY <1>1 DEF OpeningInv, SchemaInv, Applied, Versions
  <2>2. database \in [applied : SUBSET Versions, runs : [Versions -> 0 .. 2],
                      projects : SUBSET Names]
    BY <1>1, <2>1 DEF OpeningInv, SchemaInv
  <2> QED
    BY <1>1, <2>2 DEF OpeningInv, OpeningTypeOK, Openings, TomlTyped
<1>2. OpeningInit => OpeningTypeOK
  <2> SUFFICES ASSUME OpeningInit PROVE OpeningTypeOK
    OBVIOUS
  <2>1. /\ database.projects = {}
        /\ backup = [file |-> "none", version |-> 0]
    BY DEF OpeningInit, NoBytes
  <2> QED
    BY <1>1, <2>1, OpeningStarts
<1>3. ASSUME OpeningInv', database'.projects \subseteq Names,
             backup' \in [file : {"none", "partial", "torn", "whole"}, version : 0 .. 3]
      PROVE  OpeningTypeOK'
  <2>1. database'.applied \in SUBSET Versions /\ database'.runs \in [Versions -> 0 .. 2]
    BY <1>3 DEF OpeningInv, SchemaInv, Applied, Versions
  <2>2. database' \in [applied : SUBSET Versions, runs : [Versions -> 0 .. 2],
                       projects : SUBSET Names]
    BY <1>3, <2>1 DEF OpeningInv, SchemaInv
  <2> QED
    BY <1>3, <2>2 DEF OpeningInv, OpeningTypeOK, Openings, TomlTyped
<1> QED
  BY <1>2, <1>3, OpeningKeeps, BackupTyped

\* What a decision in progress holds can be recorded.
EntriesTyped ==
    \A d \in Deciders :
        /\ decidePc[d] # "idle" => decideLoc[d].entry \in Requests
        /\ decidePc[d] \in {"journal", "truncate", "write"} => decideLoc[d].entry \in Entry
        /\ decideLoc[d].entries \in Histories

LEMMA HistoriesAre ==
    /\ Histories = {h \in Seq(Entry) : Len(h) <= MaxEntries}
    /\ <<>> \in Histories
<1>1. ASSUME NEW h \in Seq(Entry), Len(h) <= MaxEntries PROVE h \in Histories
  <2>1. Len(h) \in 0 .. MaxEntries /\ h \in [1 .. Len(h) -> Entry]
    BY <1>1, JournalAssumption
  <2> QED
    BY <2>1 DEF Histories
<1>2. ASSUME NEW h \in Histories PROVE h \in Seq(Entry) /\ Len(h) <= MaxEntries
  <2>1. PICK n \in 0 .. MaxEntries : h \in [1 .. n -> Entry]
    BY DEF Histories
  <2> QED
    BY <2>1, JournalAssumption
<1>3. <<>> \in Seq(Entry) /\ Len(<<>>) <= MaxEntries
  BY JournalAssumption
<1>4. \A h : h \in Histories <=> h \in Seq(Entry) /\ Len(h) <= MaxEntries
  BY <1>1, <1>2
<1> QED
  BY <1>3, <1>4

LEMMA JournalTyped ==
    /\ JournalInit => JournalTypeOK /\ EntriesTyped
    /\ JournalInv /\ JournalTypeOK /\ EntriesTyped /\ [JournalNext]_journalVars
           => JournalTypeOK' /\ EntriesTyped'
<1>1. ASSUME JournalInit PROVE JournalTypeOK /\ EntriesTyped
  <2>1. /\ journal.file = "absent" /\ journal.entries = <<>> /\ journal.size = 0
        /\ \A d \in Deciders : /\ decidePc[d] = "idle" /\ decideLoc[d].entries = <<>>
                               /\ decideLoc[d].overtaken = FALSE
    BY <1>1 DEF JournalInit, NotDeciding
  <2>2. <<>> \in Histories /\ 0 \in 0 .. MaxEntries
    BY HistoriesAre, JournalAssumption
  <2>3. EntriesTyped
    BY <2>1, <2>2 DEF EntriesTyped
  <2> QED
    BY <1>1, <2>1, <2>2, <2>3 DEF JournalInit, JournalTypeOK
<1> SUFFICES ASSUME JournalInv, JournalTypeOK, EntriesTyped, [JournalNext]_journalVars
             PROVE  JournalTypeOK' /\ EntriesTyped'
  BY <1>1
<1>2. /\ decidePc' \in [Deciders -> {"idle", "proposal", "journal", "truncate", "write"}]
      /\ \A d \in Deciders : decideLoc'[d].overtaken \in BOOLEAN
  BY JournalKeeps DEF JournalInv, Held
<1>3. ASSUME NEW d \in Deciders,
             UNCHANGED <<proposalFile, journal, recorded>>,
             \A e \in Deciders \ {d} : decideLoc'[e] = decideLoc[e] /\ decidePc'[e] = decidePc[e],
             /\ decidePc'[d] # "idle" => decideLoc'[d].entry \in Requests
             /\ decidePc'[d] \in {"journal", "truncate", "write"} => decideLoc'[d].entry \in Entry
             /\ decideLoc'[d].entries \in Histories
      PROVE  JournalTypeOK' /\ EntriesTyped'
  BY <1>2, <1>3 DEF JournalTypeOK, EntriesTyped
<1>4. decideLoc \in [Deciders -> Held]
      /\ decidePc \in [Deciders -> {"idle", "proposal", "journal", "truncate", "write"}]
  BY DEF JournalInv
<1>5. CASE WriteProposalFile \/ UNCHANGED journalVars
  BY <1>2, <1>5 DEF WriteProposalFile, journalVars, JournalTypeOK, EntriesTyped
<1>6. ASSUME NEW d \in Deciders, NEW entry \in Requests, StartDecision(d, entry)
      PROVE  JournalTypeOK' /\ EntriesTyped'
  <2>1. /\ decidePc'[d] = "proposal" /\ decideLoc'[d].entry = entry
        /\ decideLoc'[d].entries = decideLoc[d].entries
    BY <1>4, <1>6 DEF StartDecision, DecideStep, Held
  <2> QED
    BY <1>3, <1>4, <1>6, <2>1 DEF StartDecision, DecideStep, EntriesTyped
<1>7. ASSUME NEW d \in Deciders, ReadProposalFile(d)
      PROVE  JournalTypeOK' /\ EntriesTyped'
  <2>1. decideLoc[d].entry \in Requests
    BY <1>7 DEF ReadProposalFile, DecideStep, EntriesTyped
  <2>2. decideLoc[d].entry \in Entry
    BY <1>7, <2>1 DEF ReadProposalFile, Requests, Entry
  <2> QED
    BY <1>3, <1>4, <1>7, <2>2 DEF ReadProposalFile, DecideStep, EntriesTyped
<1>8. ASSUME NEW d \in Deciders, ReadJournal(d)
      PROVE  JournalTypeOK' /\ EntriesTyped'
  <2>1. decideLoc[d].entry \in Entry /\ journal.entries \in Histories
    BY <1>8 DEF ReadJournal, DecideStep, EntriesTyped, JournalTypeOK
  <2>2. Append(journal.entries, decideLoc[d].entry) \in Histories
    BY <1>8, <2>1, HistoriesAre, JournalAssumption DEF ReadJournal
  <2>3. /\ decideLoc'[d].entry = decideLoc[d].entry
        /\ decideLoc'[d].entries = Append(journal.entries, decideLoc[d].entry)
        /\ decideLoc[d].entry \in Requests
    BY <1>4, <1>8 DEF ReadJournal, DecideStep, Held, EntriesTyped
  <2> QED
    BY <1>3, <1>4, <1>8, <2>1, <2>2, <2>3 DEF ReadJournal, DecideStep
<1>9. ASSUME NEW d \in Deciders, DecisionEnds(d)
      PROVE  JournalTypeOK' /\ EntriesTyped'
  BY <1>3, <1>4, <1>9, HistoriesAre DEF DecisionEnds, NotDeciding
<1>10. ASSUME NEW d \in Deciders, NEW e \in Deciders
       PROVE  /\ Overtaking(d)[e].entries = decideLoc[e].entries
              /\ Overtaking(d)[e].entry = decideLoc[e].entry
  BY <1>4 DEF Overtaking, Held
<1>11. ASSUME NEW d \in Deciders, TruncateJournal(d)
       PROVE  JournalTypeOK' /\ EntriesTyped'
  <2>1. /\ journal'.file = "empty" /\ journal'.entries = <<>> /\ journal'.size = 0
        /\ UNCHANGED <<proposalFile, recorded>> /\ decideLoc' = Overtaking(d)
        /\ decidePc[d] = "truncate" /\ decidePc' = [decidePc EXCEPT ![d] = "write"]
    BY <1>11 DEF TruncateJournal, DecideStep
  <2>2. EntriesTyped'
    BY <1>4, <1>10, <2>1 DEF EntriesTyped
  <2> QED
    BY <1>2, <2>1, <2>2, HistoriesAre, JournalAssumption DEF JournalTypeOK, EntriesTyped
<1>12. ASSUME NEW d \in Deciders, WriteJournal(d)
       PROVE  JournalTypeOK' /\ EntriesTyped'
  <2>1. /\ journal' = Overwritten(decideLoc[d].entries) /\ recorded' = decideLoc[d].entries
        /\ proposalFile' = proposalFile
        /\ decideLoc' = [Overtaking(d) EXCEPT ![d] = NotDeciding]
        /\ decidePc' = [decidePc EXCEPT ![d] = "idle"]
    BY <1>12 DEF WriteJournal, DecideStep
  <2>2. decideLoc[d].entries \in Histories /\ journal.size \in 0 .. MaxEntries
    BY DEF EntriesTyped, JournalTypeOK
  <2>3. /\ journal'.file \in {"mixed", "whole"} /\ journal'.entries \in Histories
        /\ journal'.size \in 0 .. MaxEntries
    BY <2>1, <2>2, HistoriesAre, JournalAssumption DEF Overwritten
  <2>4. Overtaking(d) = [e \in Deciders |-> Overtaking(d)[e]]
    BY DEF Overtaking
  <2>5. \A e \in Deciders : decideLoc'[e] = IF e = d THEN NotDeciding ELSE Overtaking(d)[e]
    BY <2>1, <2>4
  <2>6. EntriesTyped'
    BY <1>4, <1>10, <2>1, <2>5, HistoriesAre DEF EntriesTyped, NotDeciding
  <2> QED
    BY <1>2, <2>1, <2>2, <2>3, <2>6 DEF JournalTypeOK, EntriesTyped
<1> QED
  BY <1>5, <1>6, <1>7, <1>8, <1>9, <1>11, <1>12 DEF JournalNext

\* A mode that can be resolved has a form.
LEMMA FormsTyped ==
    ASSUME NEW env \in Environments, RuntimeResolves(env)
    PROVE  FormOf(env) \in Forms \ {None}
BY DEF RuntimeResolves, FormOf, ResolveKeyProvider, Environments, Forms, Sealed, None, Plain

LEMMA SaysTyped ==
    ASSUME NEW command, NEW ok \in BOOLEAN, NEW read \in SUBSET {"text", "cipher"},
           Says(command, ok, read)
    PROVE  last'.ok \in BOOLEAN /\ last'.read \subseteq {"text", "cipher"}
BY DEF Says

LEMMA PrivacyTyped ==
    /\ PrivacyInit => PrivacyTypeOK
    /\ ModesInv /\ PrivacyTypeOK /\ [PrivacyNext]_privacyVars => PrivacyTypeOK'
<1> DEFINE Counted == {1 .. n : n \in 0 .. MaxRevisions}
           LastTyped == last.ok \in BOOLEAN /\ last.read \subseteq {"text", "cipher"}
<1>1. {} \in Counted /\ 1 .. 1 \in Counted
  <2>1. {} = 1 .. 0 /\ 0 \in 0 .. MaxRevisions /\ 1 \in 0 .. MaxRevisions
    BY RevisionsAssumption
  <2> QED
    BY <2>1
<1>2. ASSUME PrivacyInit PROVE PrivacyTypeOK
  <2>1. DOMAIN contents = {}
    BY <1>2 DEF PrivacyInit
  <2> QED
    BY <1>1, <1>2, <2>1 DEF PrivacyInit, PrivacyTypeOK, NoCommand, Forms
<1> SUFFICES ASSUME ModesInv, PrivacyTypeOK, [PrivacyNext]_privacyVars
             PROVE  PrivacyTypeOK'
  BY <1>2
<1>3. ContentsUpTo(Latest) /\ DOMAIN contents \in Counted
  BY DEF ModesInv, PrivacyTypeOK
<1>4. \A form \in Forms : Taken(form) \in {"text", "cipher"}
  BY DEF Taken
<1>5. ASSUME NEW env \in Environments, ProjectIngest(env) PROVE PrivacyTypeOK'
  <2>1. LastTyped'
    BY <1>5, SaysTyped DEF ProjectIngest
  <2> QED
    BY <1>5, <2>1 DEF ProjectIngest, PrivacyTypeOK, VaultSame, Forms
<1>6. ASSUME NEW env \in Environments, WorkflowIngest(env) PROVE PrivacyTypeOK'
  <2>1. LastTyped'
    BY <1>6, SaysTyped DEF WorkflowIngest
  <2>2. FormOf(env) \in Forms \ {None}
    BY <1>6, FormsTyped DEF WorkflowIngest
  <2>3. contents' = [r \in 1 .. 1 |-> FormOf(env)]
    <3>1. 1 .. 1 = {1}
      OBVIOUS
    <3> QED
      BY <1>6, <3>1, Zenon DEF WorkflowIngest
  <2> QED
    BY <1>1, <1>6, <2>1, <2>2, <2>3 DEF WorkflowIngest, PrivacyTypeOK, VaultSame
<1>7. ASSUME NEW env \in Environments, StateLoads(env)
      PROVE  ReadUnder(env) \subseteq {"text", "cipher"}
  <2>1. Latest > 0 /\ Latest \in DOMAIN contents
    BY <1>3, <1>7 DEF StateLoads, ContentLoads, ContentsUpTo
  <2>2. contents[Latest] \in Forms /\ claims \in Forms /\ spans \in Forms
    BY <2>1 DEF PrivacyTypeOK
  <2> QED
    BY <1>4, <2>2 DEF ReadUnder
<1>8. ASSUME NEW env \in Environments, WorkflowRead(env) \/ WorkflowExport(env)
      PROVE  PrivacyTypeOK'
  <2>1. LastTyped'
    BY <1>7, <1>8, SaysTyped DEF WorkflowRead, WorkflowExport
  <2> QED
    BY <1>8, <2>1 DEF WorkflowRead, WorkflowExport, PrivacyTypeOK, ProjectSame, VaultSame
<1>9. ASSUME NEW env \in Environments, WorkflowApply(env) PROVE PrivacyTypeOK'
  <2>1. LastTyped'
    BY <1>7, <1>9, SaysTyped DEF WorkflowApply
  <2>2. FormOf(env) \in Forms \ {None}
    BY <1>9, FormsTyped DEF WorkflowApply
  <2>3. Latest \in Nat /\ Latest < MaxRevisions /\ DOMAIN contents = 1 .. Latest
    BY <1>3, <1>9 DEF WorkflowApply, ContentsUpTo
  <2>4. DOMAIN contents' = 1 .. Latest + 1
    BY <1>9 DEF WorkflowApply
  <2>5. DOMAIN contents' \in Counted
    <3>1. Latest + 1 \in 0 .. MaxRevisions
      BY <2>3, RevisionsAssumption
    <3> QED
      BY <2>4, <3>1
  <2>6. ASSUME NEW r \in DOMAIN contents' PROVE contents'[r] \in Forms \ {None}
    <3>1. contents'[r] = IF r <= Latest THEN contents[r] ELSE FormOf(env)
      BY <1>9, <2>4 DEF WorkflowApply
    <3>2. r <= Latest => r \in DOMAIN contents
      BY <2>3, <2>4
    <3> QED
      BY <2>2, <3>1, <3>2 DEF PrivacyTypeOK
  <2> QED
    BY <1>9, <2>1, <2>2, <2>5, <2>6 DEF WorkflowApply, PrivacyTypeOK, VaultSame
<1>10. ASSUME NEW env \in Environments, BindStyle(env) PROVE PrivacyTypeOK'
  <2>1. LastTyped' /\ bound' \in BOOLEAN
    BY <1>10, SaysTyped DEF BindStyle, ProfileLoads, VaultDecodes, PrivacyTypeOK
  <2> QED
    BY <1>10, <2>1 DEF BindStyle, PrivacyTypeOK, VaultSame
<1>11. ASSUME NEW env \in Environments, NEW command, NEW form \in Forms,
              LegacyRead(env, command, form)
       PROVE  PrivacyTypeOK'
  <2>1. LastTyped'
    BY <1>4, <1>11, SaysTyped DEF LegacyRead
  <2> QED
    BY <1>11, <2>1 DEF LegacyRead, PrivacyTypeOK, ProjectSame, VaultSame
<1>12. ASSUME NEW env \in Environments, ImportStyle(env) \/ ReviewStyle(env)
       PROVE  PrivacyTypeOK'
  <2>1. LastTyped'
    BY <1>12, SaysTyped DEF ImportStyle, ReviewStyle
  <2> QED
    BY <1>12, <2>1 DEF ImportStyle, ReviewStyle, PrivacyTypeOK, ProjectSame, Forms
<1>13. ASSUME NEW env \in Environments, NEW cacheEnabled \in BOOLEAN, Doctor(env, cacheEnabled)
       PROVE  PrivacyTypeOK'
  <2>1. LastTyped'
    BY <1>13, SaysTyped DEF Doctor
  <2> QED
    BY <1>13, <2>1 DEF Doctor, PrivacyTypeOK, ProjectSame, VaultSame
<1>14. CASE UNCHANGED privacyVars
  BY <1>14 DEF privacyVars, PrivacyTypeOK
<1>15. claims \in Forms /\ spans \in Forms
  BY DEF PrivacyTypeOK
<1> QED
  BY <1>5, <1>6, <1>8, <1>9, <1>10, <1>11, <1>12, <1>13, <1>14, <1>15 DEF PrivacyNext

=============================================================================
