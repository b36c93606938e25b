--------------------------- MODULE ReleaseBundle ---------------------------
(***************************************************************************)
(* A release candidate: build-release-bundle.sh builds the working tree,   *)
(* as it lies there, twice into directories of its own, compares, and has  *)
(* create fill the bundle directory, which all of its runs share; verify   *)
(* and gate read that directory.  The tree may be changed and runs may     *)
(* overlap.                                                                *)
(*                                                                         *)
(* A digest stands for the bytes it is taken of.  What a directory holds   *)
(* under a name is a set: empty, or the one content.                       *)
(***************************************************************************)
EXTENDS Integers, Sequences, FiniteSets

CONSTANTS
    Releases,     \* invocations of build-release-bundle.sh
    Checks,       \* invocations of verify and gate
    Checkouts     \* what the working tree holds, one after the other

\* The commit that is HEAD, and what was edited on top and not committed: nothing,
\* files that an archive takes in, or one with a path that no archive may have.
Edits == {"none", "tracked", "forbidden"}

ASSUME ReleaseAssumption == Checkouts \in Seq([commit : STRING, edits : Edits])

Trees == {Checkouts[i] : i \in DOMAIN Checkouts}

Runs == Releases \cup Checks

Candidates == {tree.commit : tree \in Trees}

\* A build takes the working tree as it is, edits included, and gives the same
\* wheel and sdist each time, or not.
Builds == [tree : Trees, noise : {0, 1}]

\* No member of the archive has a forbidden or unsafe path.  Of its content
\* nothing is compared with the commit.
Sound(build) == build.tree.edits # "forbidden"

VARIABLES
    tree,         \* what is checked out
    bundle,       \* file name to its content
    run           \* the commands

releaseVars == <<tree, bundle, run>>

Evidence == {"requirements", "sbom", "reproducibility", "provenance"}
Payloads == {"wheel", "sdist"}
FileNames == Payloads \cup Evidence \cup {"manifest", "sums"}

EmptyBundle == [name \in FileNames |-> {}]

IdleRun == [pc |-> "idle", command |-> "release", candidate |-> {}, first |-> {},
            second |-> {}, evidence |-> {}, records |-> {}, gate |-> {},
            mixed |-> FALSE, answer |-> "none"]

CreateSteps == {"validate", "reset", "wheel", "sdist", "evidence", "inspect",
                "provenance", "manifest", "sums"}

ReleaseTypeOK ==
    /\ tree \in Trees
    /\ DOMAIN bundle = FileNames
    /\ \A name \in FileNames : Cardinality(bundle[name]) <= 1
    /\ bundle["wheel"] \subseteq Builds /\ bundle["sdist"] \subseteq Builds
    /\ \A r \in Runs :
           /\ run[r].pc \in {"idle", "done", "first", "second",
                             "verify", "gate"} \cup CreateSteps
           /\ run[r].command \in {"release", "verify", "gate"}
           /\ run[r].candidate \subseteq Candidates
           /\ run[r].first \subseteq Builds /\ run[r].second \subseteq Builds
           /\ run[r].mixed \in BOOLEAN
           /\ run[r].answer \in {"none", "ok", "error"}

ReleaseInit ==
    /\ tree \in Trees
    /\ bundle = EmptyBundle
    /\ run = [r \in Runs |-> IdleRun]

-----------------------------------------------------------------------------
Goes(r, from, new) == run[r].pc = from /\ run' = [run EXCEPT ![r] = new]

At(r, pc) == [run[r] EXCEPT !.pc = pc]

\* Checks that fail end the command and leave the directory as it is.
Stop(r, answer) == [IdleRun EXCEPT !.pc = "done", !.answer = answer]

Ends(r) == [run[r] EXCEPT !.pc = "done", !.records = {}, !.answer = "ok"]

Unchanged == UNCHANGED <<tree, bundle>>

\* A change under a command that runs, or after it: then its answer is about
\* what was there before, and forgotten.
Overtaken(state) ==
    IF state.pc = "idle" THEN IdleRun
    ELSE IF state.pc = "done" THEN [IdleRun EXCEPT !.pc = "done"]
    ELSE [state EXCEPT !.mixed = TRUE]

\* A release writes into the bundle.
Writes(r, from, new, files) ==
    /\ run[r].pc = from
    /\ run' = [q \in Runs |-> IF q = r THEN new ELSE Overtaken(run[q])]
    /\ bundle' = files
    /\ UNCHANGED tree

-----------------------------------------------------------------------------
(* build-release-bundle.sh *)

\* Mutant: the candidate is taken at its word.
StartUnchecked(r, candidate) ==
    /\ Goes(r, "idle", [IdleRun EXCEPT !.pc = "first", !.candidate = {candidate}])
    /\ UNCHANGED <<tree, bundle>>

\* HEAD is compared with the candidate here, and never again; whether the tree
\* differs from HEAD is not asked.
StartRelease(r, candidate) ==
    /\ Goes(r, "idle",
           IF candidate = tree.commit
           THEN [IdleRun EXCEPT !.pc = "first", !.candidate = {candidate}]
           ELSE Stop(r, "error"))
    /\ UNCHANGED <<tree, bundle>>

BuildFirst(r) ==
    /\ Goes(r, "first", [At(r, "second") EXCEPT
           !.first = {[tree |-> tree, noise |-> 0]}])
    /\ Unchanged

\* The second build, and compare-builds, which writes its report in any case.
CompareBuilds(r, noise) ==
    LET second == [tree |-> tree, noise |-> noise]
    IN /\ Goes(r, "second",
              IF run[r].first = {second}
              THEN [At(r, "validate") EXCEPT !.second = {second}]
              ELSE Stop(r, "error"))
       /\ Unchanged

-----------------------------------------------------------------------------
(* create *)

\* Member paths, metadata, entry point and RECORD.
InspectsWheel(files) == files["wheel"] # {} /\ \A build \in files["wheel"] : Sound(build)

\* Member paths, kinds of members and metadata.
InspectsSdist(files) == files["sdist"] # {} /\ \A build \in files["sdist"] : Sound(build)

Inspects(files) == InspectsWheel(files) /\ InspectsSdist(files)

\* Requirements with hashes and without local references; a CycloneDX SBOM of
\* components other than HumanHand.
Lists(exported) == exported = {"hashed"}

Reproduces(files, report) ==
    /\ report # {}
    /\ \A proof \in report :
           /\ proof.first = proof.second
           /\ files["wheel"] = proof.first /\ files["sdist"] = proof.first

Report(r) == [first |-> run[r].first, second |-> run[r].second]

\* The requirements and the SBOM that uv exports, and everything that was built,
\* are checked where they are before the old bundle goes.
ValidateBuild(r, exported) ==
    LET built == [name \in Payloads |-> run[r].first]
    IN /\ Goes(r, "validate",
              IF /\ Inspects(built)
                 /\ Lists({exported})
                 /\ Reproduces(built, {Report(r)})
              THEN [At(r, "reset") EXCEPT !.evidence = {exported}]
              ELSE Stop(r, "error"))
       /\ Unchanged

ResetBundle(r) == Writes(r, "reset", At(r, "wheel"), EmptyBundle)

CopyPayload(r, name, next) ==
    Writes(r, name, At(r, next), [bundle EXCEPT ![name] = run[r].first])

CopyEvidence(r) ==
    Writes(r, "evidence",
        [At(r, "inspect") EXCEPT !.first = {}, !.second = {}, !.evidence = {}],
        [bundle EXCEPT !["requirements"] = run[r].evidence,
                       !["sbom"] = run[r].evidence,
                       !["reproducibility"] = {Report(r)}])

\* The copies are inspected, and recorded as they are: nothing compares them
\* with what was validated.
InspectCopies(r) ==
    /\ Goes(r, "inspect",
           IF Inspects(bundle)
           THEN [At(r, "provenance") EXCEPT
                    !.records = {[wheel |-> bundle["wheel"], sdist |-> bundle["sdist"]]}]
           ELSE Stop(r, "error"))
    /\ Unchanged

WriteProvenance(r) ==
    Writes(r, "provenance", At(r, "manifest"),
        [bundle EXCEPT !["provenance"] =
            {[candidate |-> run[r].candidate, subjects |-> run[r].records]}])

\* The evidence is hashed as it lies in the directory.
WriteManifest(r) ==
    IF \E name \in Evidence : bundle[name] = {}
    THEN Goes(r, "manifest", Stop(r, "error")) /\ Unchanged
    ELSE Writes(r, "manifest", At(r, "sums"),
             [bundle EXCEPT !["manifest"] =
                 {[candidate |-> run[r].candidate, payloads |-> run[r].records,
                   evidence |-> [name \in Evidence |-> bundle[name]]]}])

\* SHA256SUMS has a line for every other file that is there; create then runs
\* the verification with its own candidate.
WriteSums(r) ==
    Writes(r, "sums", At(r, "verify"),
        [bundle EXCEPT !["sums"] = {[name \in FileNames \ {"sums"} |-> bundle[name]]}])

-----------------------------------------------------------------------------
(* verify and gate *)

StartVerify(r, command, candidate) ==
    /\ Goes(r, "idle", [IdleRun EXCEPT !.pc = "verify", !.command = command,
                                       !.candidate = candidate])
    /\ UNCHANGED <<tree, bundle>>

\* The lines of SHA256SUMS are the files, each with the digest it has now.
ChecksumsMatch == bundle["sums"] = {[name \in FileNames \ {"sums"} |-> bundle[name]]}

\* The manifest's candidate, layout and records.
ManifestHolds(manifest, expected) ==
    /\ expected = {} \/ manifest.candidate = expected
    /\ \A name \in FileNames : bundle[name] # {}
    /\ manifest.payloads = {[wheel |-> bundle["wheel"], sdist |-> bundle["sdist"]]}
    /\ manifest.evidence = [name \in Evidence |-> bundle[name]]

\* Mutant: the inspections and the provenance are thought enough.
HoldsWithoutReport(manifest) ==
    /\ Inspects(bundle)
    /\ Lists(bundle["requirements"]) /\ Lists(bundle["sbom"])
    /\ bundle["provenance"] = {[candidate |-> manifest.candidate,
                                subjects |-> manifest.payloads]}

\* Archives, requirements, SBOM, reproducibility report and provenance.
EvidenceHolds(manifest) ==
    /\ Inspects(bundle)
    /\ Lists(bundle["requirements"]) /\ Lists(bundle["sbom"])
    /\ Reproduces(bundle, bundle["reproducibility"])
    /\ bundle["provenance"] = {[candidate |-> manifest.candidate,
                                subjects |-> manifest.payloads]}

\* One step: of an answer given while others write, nothing is claimed.
VerifyBundle(r) ==
    LET accepted == ChecksumsMatch /\ \E manifest \in bundle["manifest"] :
            ManifestHolds(manifest, run[r].candidate) /\ EvidenceHolds(manifest)
    IN /\ Goes(r, "verify",
              IF ~accepted THEN Stop(r, "error")
              ELSE IF run[r].command = "gate" THEN At(r, "gate")
              ELSE Ends(r))
       /\ Unchanged

\* The manifest is hashed again for the gate.
WriteGate(r) ==
    /\ Goes(r, "gate", [Ends(r) EXCEPT !.gate = bundle["manifest"]])
    /\ Unchanged

KillRelease(r) ==
    /\ run[r].pc \notin {"idle", "done"}
    /\ run' = [run EXCEPT ![r] = Stop(r, "none")]
    /\ Unchanged

\* git checkout, or an edit.
ChangeTree(i) ==
    /\ tree = Checkouts[i]
    /\ tree' = Checkouts[i + 1]
    /\ run' = [r \in Runs |-> Overtaken(run[r])]
    /\ UNCHANGED bundle

ReleaseNext ==
    \/ \E r \in Releases :
           \/ \E candidate \in Candidates : StartRelease(r, candidate)
           \/ BuildFirst(r)
           \/ \E noise \in {0, 1} : CompareBuilds(r, noise)
           \/ \E exported \in {"hashed", "unhashed"} : ValidateBuild(r, exported)
           \/ ResetBundle(r)
           \/ CopyPayload(r, "wheel", "sdist") \/ CopyPayload(r, "sdist", "evidence")
           \/ CopyEvidence(r) \/ InspectCopies(r)
           \/ WriteProvenance(r) \/ WriteManifest(r) \/ WriteSums(r)
    \/ \E r \in Checks :
           \/ \E candidate \in {{c} : c \in Candidates} \cup {{}} :
                  StartVerify(r, "verify", candidate)
           \/ \E c \in Candidates : StartVerify(r, "gate", {c})
    \/ \E r \in Runs :
           VerifyBundle(r) \/ WriteGate(r) \/ KillRelease(r)
    \/ \E i \in 1 .. Len(Checkouts) - 1 : ChangeTree(i)

ReleaseSpec == ReleaseInit /\ [][ReleaseNext]_releaseVars

-----------------------------------------------------------------------------
(* Properties *)

\* Whatever runs have overlapped or died in the bundle directory before: what a
\* command accepts, and nobody has touched since it began, is one build of one
\* tree, made twice alike and without a forbidden path; a gate names the manifest
\* of the candidate it was asked about (verify_bundle, create_gate).
AcceptedIsReproduced == \A r \in Runs :
    run[r].answer = "ok" /\ ~run[r].mixed =>
        /\ \E build \in Builds :
               /\ Sound(build)
               /\ bundle["wheel"] = {build} /\ bundle["sdist"] = {build}
               /\ \A proof \in bundle["reproducibility"] :
                      proof.first = {build} /\ proof.second = {build}
        /\ \A manifest \in run[r].gate :
               manifest \in bundle["manifest"] /\ manifest.candidate = run[r].candidate

\* A release that shares the directory with no other, over a tree that stays as
\* it is, bundles builds of that tree, and names in manifest and provenance the
\* commit that is HEAD there.  That the tree is the commit is not promised: what
\* was edited and not committed is in the bundle (build-release-bundle.sh,
\* create_bundle).
AloneIsOfItsTree == \A r \in Runs :
    run[r].command = "release" /\ run[r].answer = "ok" /\ ~run[r].mixed =>
        /\ \A build \in bundle["wheel"] \cup bundle["sdist"] : build.tree = tree
        /\ tree.commit \in run[r].candidate
        /\ \A record \in bundle["manifest"] : record.candidate = run[r].candidate
        /\ \A record \in bundle["provenance"] : record.candidate = run[r].candidate

=============================================================================
