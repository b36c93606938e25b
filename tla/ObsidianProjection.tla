------------------------- MODULE ObsidianProjection -------------------------
(***************************************************************************)
(* project export-obsidian: an overview of a source package and one note   *)
(* for each heading, written into a directory of the user's.  All targets  *)
(* are compared with what is there before the first is written; then each  *)
(* that is absent is written through a temporary file and a rename.  The   *)
(* user edits the directory meanwhile, and several projections may run.    *)
(***************************************************************************)
EXTENDS Integers, Sequences, FiniteSets, SequencesExt

CONSTANTS
    Projectors,     \* processes
    ProjectSlug,    \* slugify of the project's name
    NotePackages        \* source packages that may be projected

\* A slug is the sequence of its words: <<"intro", "1">> is intro-1.  A package
\* has an id, claims, and for each heading its slug and the paragraphs below it.
\* Numbers are written differently.
ASSUME ProjectionAssumption ==
    /\ "user" \notin Projectors
    /\ \A package \in NotePackages :
           /\ package.headings \in Seq([slug : Seq(STRING), body : STRING])
           /\ \A i, j \in DOMAIN package.headings : ToString(i) = ToString(j) => i = j

OverviewName == Append(ProjectSlug, "overview")

VARIABLES
    notes,          \* file name to the note there
    projector,      \* the commands
    raced           \* whether others changed the directory since it began

obsidianVars == <<notes, projector, raced>>

-----------------------------------------------------------------------------
(* What is written *)

Note(kind, links, body) == [kind |-> kind, links |-> links, body |-> body]

NoNote == Note("none", <<>>, "")
UserNote == Note("user", <<>>, "")

\* _unique_slug: the first of base, base-1, base-2, ... that is not taken.
FreeSlug(base, used) ==
    LET Numbered(i) == IF i = 0 THEN base ELSE Append(base, ToString(i))
    IN Numbered(CHOOSE i \in 0 .. Cardinality(used) :
           /\ Numbered(i) \notin used
           /\ \A j \in 0 .. i - 1 : Numbered(j) \in used)

\* Mutant: numbered names are not remembered.
UniqueSlugsOfBases(package) ==
    [k \in DOMAIN package.headings |->
        FreeSlug(package.headings[k].slug,
                 {package.headings[j].slug : j \in 1 .. k - 1})]

\* The names of the sections: each heading avoids those of the headings before.
UniqueSlugs(package) ==
    LET slug[k \in DOMAIN package.headings] ==
            FreeSlug(package.headings[k].slug, {slug[j] : j \in 1 .. k - 1})
    IN slug

\* The canonical projection: ids and evidence references are left out.
PublicFields(package) == package.claims

Overview(package) == Note("overview", UniqueSlugs(package), PublicFields(package))

\* The dictionary of files: a section of the overview's name takes its entry.
Files(package) ==
    LET slugs == UniqueSlugs(package)
        names == {OverviewName} \cup {slugs[k] : k \in DOMAIN slugs}
    IN [name \in names |->
           IF \E k \in DOMAIN slugs : slugs[k] = name
           THEN Note("section", <<>>,
                     package.headings[CHOOSE k \in DOMAIN slugs : slugs[k] = name].body)
           ELSE Overview(package)]

\* Its entries in the order of their insertion: one that is there keeps its place.
InOrder(package) ==
    LET Insert(names, slug) ==
            IF Contains(names, slug) THEN names ELSE Append(names, slug)
    IN FoldLeft(Insert, <<OverviewName>>, UniqueSlugs(package))

NoteNames == UNION {DOMAIN Files(package) : package \in NotePackages}

NoPackage == [id |-> 0, claims |-> "", headings |-> <<>>]

IdleProjector == [pc |-> "idle", package |-> NoPackage, rest |-> <<>>,
                  met |-> NoNote, answer |-> "none"]

ObsidianTypeOK ==
    LET Written == UNION {{Files(package)[name] : name \in DOMAIN Files(package)} :
                             package \in NotePackages}
        Notes == Written \cup {NoNote, UserNote}
    IN /\ notes \in [NoteNames -> Notes]
       /\ raced \in [Projectors -> BOOLEAN]
       /\ \A p \in Projectors :
              /\ projector[p].pc \in {"idle", "check", "exists", "replace"}
              /\ projector[p].package \in NotePackages \cup {NoPackage}
              /\ projector[p].rest \in Seq(NoteNames)
              /\ projector[p].met \in Notes
              /\ projector[p].answer \in {"none", "ok", "conflict", "error"}

ObsidianInit ==
    /\ notes = [name \in NoteNames |-> NoNote]
    /\ projector = [p \in Projectors |-> IdleProjector]
    /\ raced = [p \in Projectors |-> FALSE]

-----------------------------------------------------------------------------
(* A projection *)

Projecting(p, from, new) ==
    projector[p].pc = from /\ projector' = [projector EXCEPT ![p] = new]

Finish(p, answer) ==
    [projector[p] EXCEPT !.pc = "idle", !.rest = <<>>, !.answer = answer]

Fail(answer) == [IdleProjector EXCEPT !.answer = answer]

Target(p) == Head(projector[p].rest)

Planned(p) == Files(projector[p].package)[Target(p)]

Advance(p) == [projector[p] EXCEPT !.rest = Tail(@)]

\* A change of the directory is news to every other projection that runs.
Changes(who, name, note) ==
    /\ notes' = [notes EXCEPT ![name] = note]
    /\ raced' = [p \in Projectors |-> raced[p] \/ p # who]

\* The directory is made, the package has a revision in the project, and its
\* files are laid out; the answer is an error otherwise.
StartProjection(p, package, ingested) ==
    /\ Projecting(p, "idle",
           IF ingested
           THEN [IdleProjector EXCEPT !.pc = "check", !.package = package,
                                      !.rest = InOrder(package)]
           ELSE Fail("error"))
    /\ raced' = [raced EXCEPT ![p] = FALSE]
    /\ UNCHANGED notes

\* _reject_conflicts, one file.
CheckNote(p) ==
    /\ IF projector[p].rest = <<>>
       THEN Projecting(p, "check", [projector[p] EXCEPT
                !.pc = "exists", !.rest = InOrder(projector[p].package)])
       ELSE Projecting(p, "check",
                IF notes[Target(p)] \in {NoNote, Planned(p)}
                THEN Advance(p)
                ELSE [Finish(p, "conflict") EXCEPT !.met = notes[Target(p)]])
    /\ UNCHANGED <<notes, raced>>

\* The loop that writes passes over a file that is there, whatever it holds.
SkipNote(p) ==
    /\ projector[p].rest # <<>>
    /\ Projecting(p, "exists",
           IF notes[Target(p)] # NoNote
           THEN Advance(p)
           ELSE [projector[p] EXCEPT !.pc = "replace"])
    /\ UNCHANGED <<notes, raced>>

\* Mutant: the note is written in place, the first half before the second.
WriteInPlace(p) ==
    \/ /\ Projecting(p, "replace", projector[p])
       /\ Changes(p, Target(p), [Planned(p) EXCEPT !.kind = "none"])
    \/ /\ Projecting(p, "replace", [Advance(p) EXCEPT !.pc = "exists"])
       /\ Changes(p, Target(p), Planned(p))

\* _atomic_write: os.replace asks nothing about the file that it replaces.
WriteNote(p) ==
    /\ Projecting(p, "replace", [Advance(p) EXCEPT !.pc = "exists"])
    /\ Changes(p, Target(p), Planned(p))

FinishProjection(p) ==
    /\ projector[p].rest = <<>>
    /\ Projecting(p, "exists", Finish(p, "ok"))
    /\ UNCHANGED <<notes, raced>>

\* A note vanishes before it is read, a disk is full, a process is killed: the
\* notes written so far stay.
StopProjection(p, answer) ==
    /\ projector[p].pc # "idle"
    /\ projector' = [projector EXCEPT ![p] = Fail(answer)]
    /\ UNCHANGED <<notes, raced>>

\* Saves, and deletes.
UserEdits(name, note) ==
    /\ notes[name] # note
    /\ Changes("user", name, note)
    /\ UNCHANGED projector

ObsidianNext ==
    \/ \E p \in Projectors :
           \/ \E package \in NotePackages, ingested \in BOOLEAN :
                  StartProjection(p, package, ingested)
           \/ CheckNote(p) \/ SkipNote(p) \/ WriteNote(p) \/ FinishProjection(p)
           \/ \E answer \in {"error", "none"} : StopProjection(p, answer)
    \/ \E name \in NoteNames, note \in {NoNote, UserNote} : UserEdits(name, note)

ObsidianSpec == ObsidianInit /\ [][ObsidianNext]_obsidianVars

-----------------------------------------------------------------------------
(* Properties *)

\* A projection that is killed can be repeated: it is refused only over a note
\* of the user's, or a whole one that another package has under that name, and
\* never over half of a note of its own (_atomic_write, _reject_conflicts).
RefusedForCause == \A p \in Projectors :
    projector[p].answer = "conflict" =>
        \/ projector[p].met = UserNote
        \/ \E package \in NotePackages \ {projector[p].package} :
               \E name \in DOMAIN Files(package) :
                   Files(package)[name] = projector[p].met

\* A projection that nobody disturbed and that succeeds leaves every note of the
\* package, each heading's under a name of its own that the overview links - and
\* the overview itself, unless a heading has its name (project_to_obsidian).
OkIsComplete == \A p \in Projectors :
    projector[p].answer = "ok" /\ ~raced[p] =>
        LET package == projector[p].package
            headings == package.headings
            taken == \E k \in DOMAIN headings : UniqueSlugs(package)[k] = OverviewName
        IN /\ \E at \in [DOMAIN headings -> NoteNames] :
                  /\ \A j, k \in DOMAIN headings : at[j] = at[k] => j = k
                  /\ \A k \in DOMAIN headings :
                         notes[at[k]] = Note("section", <<>>, headings[k].body)
                  /\ ~taken => notes[OverviewName] =
                         Note("overview", [k \in DOMAIN headings |-> at[k]],
                              PublicFields(package))

=============================================================================
