------------------------- MODULE SharedFilesProofs -------------------------
(***************************************************************************)
(* Three places that commands share without a lock.  The cache of detector *)
(* scores: whoever stored a score and whatever became of the file, verify  *)
(* answers what the local detector says of the text it read.  The release  *)
(* bundle: what is accepted, and what a release that was left alone has    *)
(* made.  The files of the beacon: investigations stay traceable and       *)
(* approvals justified.  For any number of processes, any texts, checkouts *)
(* and proposals, and logs of any length.                                  *)
(***************************************************************************)
EXTENDS DetectorCache, ReleaseBundle, Beacon, FiniteSetTheorems, TLAPS

-----------------------------------------------------------------------------
(* The detector cache *)

\* The detector's answer for a row that only a local detector can have stored.
Earned(provider, text, answer) == provider = "local" /\ answer = Detect(text)

\* No answer yet, or one the detector gives for some text.
PossibleAnswers == {NoAnswer} \cup {Detect(t) : t \in DraftTexts}

VerifierStates ==
    [pc : {"idle", "get", "detect", "put", "answered", "refused", "unavailable", "failed"},
     text : DraftTexts, provider : Providers, path : {"unset", "inside", "here"},
     cached : BOOLEAN, answer : PossibleAnswers]

\* An answer waits to be stored, is stored, and is given, for the same text.
CacheInv ==
    /\ output \in DraftTexts
    /\ verifier \in [Verifiers -> VerifierStates]
    /\ \A key \in DOMAIN rows : Earned(key.provider, key.text, rows[key])
    /\ \A v \in Verifiers : verifier[v].pc \in {"put", "answered"} =>
           Earned(verifier[v].provider, verifier[v].text, verifier[v].answer)

-----------------------------------------------------------------------------
LEMMA QuietState ==
    ASSUME output \in DraftTexts
    PROVE  Quiet \in VerifierStates
BY DEF Quiet, VerifierStates, PossibleAnswers, Providers

-----------------------------------------------------------------------------
LEMMA CacheStarts == CacheInit => CacheInv
BY QuietState DEF CacheInit, CacheInv, Quiet

\* One step per action; the actions of a process change its own state alone.
LEMMA CacheKeeps == CacheInv /\ [CacheNext]_cacheVars => CacheInv'
<1> SUFFICES ASSUME CacheInv, [CacheNext]_cacheVars
             PROVE  CacheInv'
  OBVIOUS
<1> USE DEF CacheInv
<1>1. ASSUME NEW v \in Verifiers, NEW mode \in Modes, NEW enabled \in BOOLEAN,
             NEW provider \in Providers, Verify(v, mode, enabled, provider)
      PROVE  CacheInv'
  <2> DEFINE refused == \/ mode = "strict_local" /\ provider # "local"
                        \/ provider = "unknown"
             cached == CacheAllowed(mode, enabled)
             pc == IF refused THEN "refused" ELSE IF cached THEN "get" ELSE "detect"
             state == [pc |-> pc, text |-> output, provider |-> provider,
                       path |-> ResolveDbPath, cached |-> cached, answer |-> NoAnswer]
  <2>1. verifier' = [verifier EXCEPT ![v] = state] /\ UNCHANGED <<output, rows>>
    BY <1>1 DEF Verify
  <2>2. ResolveDbPath \in {"inside", "here"}
    BY DEF ResolveDbPath
  <2>3. cached \in BOOLEAN
    BY DEF CacheAllowed
  <2>4. pc \in {"refused", "get", "detect"}
    OBVIOUS
  <2> HIDE DEF cached, pc, refused
  <2>5. state \in VerifierStates /\ state.pc \notin {"put", "answered"}
    BY <2>2, <2>3, <2>4 DEF VerifierStates, PossibleAnswers
  <2> HIDE DEF state
  <2> QED
    BY <2>1, <2>5
<1>2. ASSUME NEW v \in Verifiers, Get(v)
      PROVE  CacheInv'
  <2> DEFINE key == Key(verifier[v].text, verifier[v].provider)
  <2>1. CASE key \in DOMAIN rows
    <3>1. Earned(verifier[v].provider, verifier[v].text, rows[key])
      BY <2>1 DEF Key
    <3>2. rows[key] \in PossibleAnswers
      BY <3>1 DEF Earned, VerifierStates, PossibleAnswers
    <3> DEFINE answered == [verifier[v] EXCEPT !.pc = "answered", !.answer = rows[key]]
    <3>3. verifier' = [verifier EXCEPT ![v] = answered] /\ UNCHANGED <<output, rows>>
      BY <1>2, <2>1 DEF Get
    <3>4. /\ answered \in VerifierStates
          /\ Earned(answered.provider, answered.text, answered.answer)
      <4>1. verifier[v] \in VerifierStates
        OBVIOUS
      <4> HIDE DEF key
      <4> QED
        BY <3>1, <3>2, <4>1 DEF VerifierStates
    <3> HIDE DEF answered
    <3> QED
      BY <3>3, <3>4
  <2>2. CASE key \notin DOMAIN rows
    <3>1. verifier' = [verifier EXCEPT ![v].pc = "detect"]
      BY <1>2, <2>2 DEF Get, Become
    <3>2. verifier' \in [Verifiers -> VerifierStates]
      BY <3>1 DEF VerifierStates
    <3> QED
      BY <1>2, <3>1, <3>2 DEF Get, VerifierStates
  <2> QED
    BY <2>1, <2>2
<1>3. ASSUME NEW v \in Verifiers, CacheFails(v)
      PROVE  CacheInv'
  BY <1>3 DEF CacheFails, Become, VerifierStates
<1>4. ASSUME NEW v \in Verifiers, AskDetector(v)
      PROVE  CacheInv'
  <2>1. verifier[v] \in VerifierStates /\ Detect(verifier[v].text) \in PossibleAnswers
    BY DEF VerifierStates, PossibleAnswers
  <2>2. CASE verifier[v].provider = "local"
    BY <1>4, <2>1, <2>2 DEF AskDetector, VerifierStates, Earned
  <2>3. CASE verifier[v].provider # "local"
    <3>1. verifier' = [verifier EXCEPT ![v].pc = "unavailable"]
      BY <1>4, <2>3 DEF AskDetector, Become
    <3>2. verifier' \in [Verifiers -> VerifierStates]
      BY <3>1 DEF VerifierStates, PossibleAnswers
    <3> QED
      BY <1>4, <3>1, <3>2 DEF AskDetector, VerifierStates
  <2> QED
    BY <2>2, <2>3
<1>5. ASSUME NEW v \in Verifiers, Put(v)
      PROVE  CacheInv'
  <2> DEFINE key == Key(verifier[v].text, verifier[v].provider)
  <2>1. Earned(verifier[v].provider, verifier[v].text, verifier[v].answer)
    BY <1>5 DEF Put
  <2>2. \A k \in DOMAIN rows' : Earned(k.provider, k.text, rows'[k])
    BY <1>5, <2>1 DEF Put, Key
  <2>3. verifier' = [verifier EXCEPT ![v].pc = "answered"] /\ output' = output
    BY <1>5 DEF Put, Become
  <2> QED
    BY <2>1, <2>2, <2>3 DEF VerifierStates
<1>6. ASSUME NEW v \in Verifiers, VerifyEnds(v)
      PROVE  CacheInv'
  <2>1. Quiet \in VerifierStates /\ Quiet.pc = "idle"
    BY QuietState DEF Quiet
  <2> QED
    BY <1>6, <2>1 DEF VerifyEnds
<1>7. ASSUME NEW mode \in Modes, NEW enabled \in BOOLEAN, Health(mode, enabled)
      PROVE  CacheInv'
  BY <1>7 DEF Health
<1>8. ASSUME NEW t \in DraftTexts, Rewritten(t)
      PROVE  CacheInv'
  BY <1>8 DEF Rewritten
<1>9. CASE UNCHANGED cacheVars
  BY <1>9 DEF cacheVars
<1> QED
  BY <1>1, <1>2, <1>3, <1>4, <1>5, <1>6, <1>7, <1>8, <1>9 DEF CacheNext

\* An answer is what the detector says of the very text that was read.
THEOREM AnswersAreTheDetectors == CacheSpec => []AnswersAreDetections
<1>1. CacheInv => AnswersAreDetections
  BY DEF CacheInv, AnswersAreDetections, Earned
<1> QED
  BY <1>1, CacheStarts, CacheKeeps, PTL DEF CacheSpec

-----------------------------------------------------------------------------
(* The release bundle: the inductive invariant *)

One(S) == \A a, b \in S : a = b

BundleInv(files) ==
    /\ DOMAIN files = FileNames
    /\ files["wheel"] \subseteq Builds /\ One(files["wheel"])
    /\ One(files["manifest"])

\* Both archives are one sound build that was made twice alike.
Reproduced(files) ==
    \E build \in Builds :
        /\ Sound(build)
        /\ files["wheel"] = {build} /\ files["sdist"] = {build}
        /\ \A proof \in files["reproducibility"] :
               proof.first = {build} /\ proof.second = {build}

\* What is in the bundle is a build of the tree and names the candidate, as far as
\* it is written.
IsOf(files, checkedOut, candidate) ==
    /\ \A build \in files["wheel"] \cup files["sdist"] : build.tree = checkedOut
    /\ \A record \in files["manifest"] : record.candidate = candidate
    /\ \A record \in files["provenance"] : record.candidate = candidate

\* The steps behind the reset of the bundle.
Filling == {"wheel", "sdist", "evidence", "inspect", "provenance", "manifest", "sums", "verify"}

\* A command that nobody has disturbed.
Alone(state, files, checkedOut) ==
    /\ state.pc = "gate" \/ state.answer = "ok" => Reproduced(files)
    /\ state.pc = "gate" =>
           \A manifest \in files["manifest"] : manifest.candidate = state.candidate
    /\ \A manifest \in state.gate :
           manifest \in files["manifest"] /\ manifest.candidate = state.candidate
    /\ state.command = "release" =>
           /\ state.pc \notin {"idle", "done"} \/ state.answer = "ok" =>
                  checkedOut.commit \in state.candidate
           /\ \A build \in state.first : build.tree = checkedOut
           /\ state.pc \in Filling \/ state.answer = "ok" =>
                  IsOf(files, checkedOut, state.candidate)

Stands(state, files, checkedOut) ==
    /\ DOMAIN state = DOMAIN IdleRun
    /\ state.mixed \in BOOLEAN
    /\ state.first \subseteq Builds /\ One(state.first)
    /\ state.command = "gate" => state.candidate # {}
    /\ state.pc = "gate" => state.command = "gate"
    /\ state.pc # "done" => state.answer # "ok" /\ state.gate = {}
    /\ ~state.mixed => Alone(state, files, checkedOut)

BundlesInv ==
    /\ tree \in Trees
    /\ BundleInv(bundle)
    /\ DOMAIN run = Runs
    /\ \A r \in Runs : Stands(run[r], bundle, tree)

-----------------------------------------------------------------------------
LEMMA IdleStands ==
    ASSUME NEW files, NEW checkedOut
    PROVE  Stands(IdleRun, files, checkedOut)
BY DEF Stands, Alone, IdleRun, One, Filling

LEMMA StoppedStands ==
    ASSUME NEW r, NEW answer \in {"none", "error"}, NEW files, NEW checkedOut
    PROVE  Stands(Stop(r, answer), files, checkedOut)
BY DEF Stop, Stands, Alone, IdleRun, One, Filling

\* Of what was disturbed nothing is claimed.
LEMMA OvertakenStands ==
    ASSUME NEW state, NEW files, NEW checkedOut, NEW newFiles, NEW newTree,
           Stands(state, files, checkedOut)
    PROVE  Stands(Overtaken(state), newFiles, newTree)
<1>1. CASE state.pc = "idle"
  BY <1>1, IdleStands DEF Overtaken
<1>2. CASE state.pc = "done"
  BY <1>2 DEF Overtaken, Stands, Alone, IdleRun, One, Filling
<1>3. CASE state.pc \notin {"idle", "done"}
  <2> DEFINE overtaken == [state EXCEPT !.mixed = TRUE]
  <2>1. Overtaken(state) = overtaken
    BY <1>3 DEF Overtaken
  <2>2. /\ DOMAIN overtaken = DOMAIN IdleRun /\ overtaken.mixed = TRUE
        /\ overtaken.first = state.first /\ overtaken.command = state.command
        /\ overtaken.candidate = state.candidate /\ overtaken.pc = state.pc
        /\ overtaken.answer = state.answer /\ overtaken.gate = state.gate
    BY DEF Stands, IdleRun
  <2> HIDE DEF overtaken
  <2> QED
    BY <2>1, <2>2 DEF Stands
<1> QED
  BY <1>1, <1>2, <1>3

LEMMA BundleStarts == ReleaseInit => BundlesInv
<1> SUFFICES ASSUME ReleaseInit
             PROVE  BundlesInv
  OBVIOUS
<1>1. BundleInv(bundle)
  BY DEF ReleaseInit, EmptyBundle, BundleInv, One, FileNames, Payloads, Evidence
<1> QED
  BY <1>1, IdleStands DEF ReleaseInit, BundlesInv

LEMMA GoesKeeps ==
    ASSUME BundlesInv, NEW r \in Runs, NEW new, run' = [run EXCEPT ![r] = new],
           UNCHANGED <<tree, bundle>>, Stands(new, bundle, tree)
    PROVE  BundlesInv'
BY DEF BundlesInv

LEMMA WritesKeeps ==
    ASSUME BundlesInv, NEW r \in Runs, NEW from, NEW new, NEW files,
           Writes(r, from, new, files), BundleInv(files), Stands(new, files, tree)
    PROVE  BundlesInv'
<1>1. \A q \in Runs : Stands(Overtaken(run[q]), files, tree)
  BY OvertakenStands DEF BundlesInv
<1> QED
  BY <1>1 DEF Writes, BundlesInv

\* A step of a release that keeps its command, candidate and first build.
LEMMA GoesOn ==
    ASSUME NEW state, NEW new, NEW files, NEW newFiles, NEW checkedOut,
           Stands(state, files, checkedOut), state.pc \notin {"idle", "done", "gate"},
           DOMAIN new = DOMAIN IdleRun, new.pc \notin {"done", "gate", "first"},
           new.mixed = state.mixed, new.candidate = state.candidate,
           new.command = state.command, new.gate = state.gate,
           new.answer = state.answer,
           new.first = state.first \/ new.first = {},
           ~state.mixed /\ state.command = "release" /\ new.pc \in Filling =>
               IsOf(newFiles, checkedOut, state.candidate)
    PROVE  Stands(new, newFiles, checkedOut)
BY DEF Stands, Alone, One

LEMMA StepFields ==
    ASSUME BundlesInv, NEW r \in Runs, NEW pc
    PROVE  /\ DOMAIN At(r, pc) = DOMAIN IdleRun /\ At(r, pc).pc = pc
           /\ At(r, pc).mixed = run[r].mixed /\ At(r, pc).candidate = run[r].candidate
           /\ At(r, pc).command = run[r].command /\ At(r, pc).gate = run[r].gate
           /\ At(r, pc).answer = run[r].answer /\ At(r, pc).first = run[r].first
BY DEF At, BundlesInv, Stands, IdleRun

LEMMA BuildsKeep ==
    ASSUME BundlesInv, NEW r \in Runs
    PROVE  /\ \A candidate \in Candidates : StartRelease(r, candidate) => BundlesInv'
           /\ BuildFirst(r) => BundlesInv'
           /\ \A noise \in {0, 1} : CompareBuilds(r, noise) => BundlesInv'
           /\ \A exported \in {"hashed", "unhashed"} : ValidateBuild(r, exported) => BundlesInv'
<1>1. ASSUME NEW candidate \in Candidates, StartRelease(r, candidate)
      PROVE  BundlesInv'
  <2> DEFINE new == [IdleRun EXCEPT !.pc = "first", !.candidate = {candidate}]
  <2>1. CASE candidate = tree.commit
    <3>1. Stands(new, bundle, tree)
      BY <2>1 DEF Stands, Alone, IdleRun, One, Filling
    <3> QED
      BY <1>1, <2>1, <3>1, GoesKeeps DEF StartRelease, Goes
  <2>2. CASE candidate # tree.commit
    BY <1>1, <2>2, StoppedStands, GoesKeeps DEF StartRelease, Goes
  <2> QED
    BY <2>1, <2>2
<1>2. ASSUME BuildFirst(r)
      PROVE  BundlesInv'
  <2> DEFINE new == [At(r, "second") EXCEPT !.first = {[tree |-> tree, noise |-> 0]}]
  <2>1. /\ DOMAIN new = DOMAIN IdleRun /\ new.pc = "second"
        /\ new.mixed = run[r].mixed /\ new.candidate = run[r].candidate
        /\ new.command = run[r].command /\ new.gate = run[r].gate
        /\ new.answer = run[r].answer /\ new.first = {[tree |-> tree, noise |-> 0]}
    BY StepFields DEF IdleRun
  <2>2. run[r].pc = "first" /\ Stands(run[r], bundle, tree)
    BY <1>2 DEF BuildFirst, Goes, BundlesInv
  <2>3. [tree |-> tree, noise |-> 0] \in Builds
    BY DEF BundlesInv, Builds
  <2>4. run' = [run EXCEPT ![r] = new] /\ UNCHANGED <<tree, bundle>>
    BY <1>2 DEF BuildFirst, Goes, Unchanged
  <2> HIDE DEF new
  <2>5. Stands(new, bundle, tree)
    BY <2>1, <2>2, <2>3 DEF Stands, Alone, One, Filling
  <2> QED
    BY <2>4, <2>5, GoesKeeps
<1>3. ASSUME NEW noise \in {0, 1}, CompareBuilds(r, noise)
      PROVE  BundlesInv'
  <2> DEFINE second == [tree |-> tree, noise |-> noise]
             new == [At(r, "validate") EXCEPT !.second = {second}]
  <2>1. run[r].pc = "second" /\ Stands(run[r], bundle, tree)
    BY <1>3 DEF CompareBuilds, Goes, BundlesInv
  <2>2. CASE run[r].first = {second}
    <3>1. /\ DOMAIN new = DOMAIN IdleRun /\ new.pc = "validate"
          /\ new.mixed = run[r].mixed /\ new.candidate = run[r].candidate
          /\ new.command = run[r].command /\ new.gate = run[r].gate
          /\ new.answer = run[r].answer /\ new.first = run[r].first
      BY StepFields DEF IdleRun
    <3>2. run' = [run EXCEPT ![r] = new] /\ UNCHANGED <<tree, bundle>>
      BY <1>3, <2>2 DEF CompareBuilds, Goes, Unchanged
    <3> HIDE DEF new
    <3>3. Stands(new, bundle, tree)
      BY <2>1, <3>1, GoesOn DEF Filling
    <3> QED
      BY <3>2, <3>3, GoesKeeps
  <2>3. CASE run[r].first # {second}
    BY <1>3, <2>3, StoppedStands, GoesKeeps DEF CompareBuilds, Goes, Unchanged
  <2> QED
    BY <2>2, <2>3
<1>4. ASSUME NEW exported \in {"hashed", "unhashed"}, ValidateBuild(r, exported)
      PROVE  BundlesInv'
  <2> DEFINE new == [At(r, "reset") EXCEPT !.evidence = {exported}]
  <2>1. run[r].pc = "validate" /\ Stands(run[r], bundle, tree)
        /\ UNCHANGED <<tree, bundle>>
    BY <1>4 DEF ValidateBuild, Goes, BundlesInv, Unchanged
  <2>2. \/ run' = [run EXCEPT ![r] = new]
        \/ run' = [run EXCEPT ![r] = Stop(r, "error")]
    BY <1>4 DEF ValidateBuild, Goes
  <2>3. /\ DOMAIN new = DOMAIN IdleRun /\ new.pc = "reset"
        /\ new.mixed = run[r].mixed /\ new.candidate = run[r].candidate
        /\ new.command = run[r].command /\ new.gate = run[r].gate
        /\ new.answer = run[r].answer /\ new.first = run[r].first
    BY StepFields DEF IdleRun
  <2> HIDE DEF new
  <2>4. Stands(new, bundle, tree)
    BY <2>1, <2>3, GoesOn DEF Filling
  <2> QED
    BY <2>1, <2>2, <2>4, StoppedStands, GoesKeeps
<1> QED
  BY <1>1, <1>2, <1>3, <1>4

\* A write of a release that stays with its candidate.
LEMMA FillsOn ==
    ASSUME BundlesInv, NEW r \in Runs, NEW from \in Filling \cup {"reset"},
           NEW to \in Filling, NEW files,
           Writes(r, from, At(r, to), files), BundleInv(files),
           ~run[r].mixed /\ run[r].command = "release" => IsOf(files, tree, run[r].candidate)
    PROVE  BundlesInv'
<1>1. run[r].pc = from /\ Stands(run[r], bundle, tree)
  BY DEF Writes, BundlesInv
<1>2. from \notin {"idle", "done", "gate"} /\ to \notin {"done", "gate", "first"}
  BY DEF Filling
<1>3. Stands(At(r, to), files, tree)
  BY <1>1, <1>2, StepFields, GoesOn
<1> QED
  BY <1>3, WritesKeeps

\* What a release that nobody disturbed has written is its candidate's.
LEMMA FilledSoFar ==
    ASSUME BundlesInv, NEW r \in Runs, run[r].pc \in Filling, ~run[r].mixed,
           run[r].command = "release"
    PROVE  IsOf(bundle, tree, run[r].candidate)
BY DEF BundlesInv, Stands, Alone

LEMMA CopiesKeep ==
    ASSUME BundlesInv, NEW r \in Runs
    PROVE  /\ ResetBundle(r) => BundlesInv'
           /\ CopyPayload(r, "wheel", "sdist") => BundlesInv'
           /\ CopyPayload(r, "sdist", "evidence") => BundlesInv'
           /\ CopyEvidence(r) => BundlesInv'
<1>1. BundleInv(bundle) /\ Stands(run[r], bundle, tree)
  BY DEF BundlesInv
<1>2. ASSUME ResetBundle(r)
      PROVE  BundlesInv'
  <2>1. BundleInv(EmptyBundle) /\ IsOf(EmptyBundle, tree, run[r].candidate)
    BY DEF EmptyBundle, BundleInv, IsOf, One, FileNames, Payloads, Evidence
  <2> QED
    BY <1>2, <2>1, FillsOn DEF ResetBundle, Filling
<1>3. ASSUME CopyPayload(r, "wheel", "sdist")
      PROVE  BundlesInv'
  <2> DEFINE files == [bundle EXCEPT !["wheel"] = run[r].first]
  <2>1. run[r].pc = "wheel" /\ Writes(r, "wheel", At(r, "sdist"), files)
    BY <1>3 DEF CopyPayload, Writes
  <2>2. /\ BundleInv(files) /\ files["wheel"] = run[r].first
        /\ \A name \in {"sdist", "manifest", "provenance"} : files[name] = bundle[name]
    BY <1>1 DEF BundleInv, FileNames, Payloads, Evidence, Stands
  <2> HIDE DEF files
  <2>3. ~run[r].mixed /\ run[r].command = "release" => IsOf(files, tree, run[r].candidate)
    BY <1>1, <2>1, <2>2, FilledSoFar DEF IsOf, Stands, Alone, Filling
  <2> QED
    BY <2>1, <2>2, <2>3, FillsOn DEF Filling
<1>4. ASSUME CopyPayload(r, "sdist", "evidence")
      PROVE  BundlesInv'
  <2> DEFINE files == [bundle EXCEPT !["sdist"] = run[r].first]
  <2>1. run[r].pc = "sdist" /\ Writes(r, "sdist", At(r, "evidence"), files)
    BY <1>4 DEF CopyPayload, Writes
  <2>2. /\ BundleInv(files) /\ files["sdist"] = run[r].first
        /\ \A name \in {"wheel", "manifest", "provenance"} : files[name] = bundle[name]
    BY <1>1 DEF BundleInv, FileNames, Payloads, Evidence, Stands
  <2> HIDE DEF files
  <2>3. ~run[r].mixed /\ run[r].command = "release" => IsOf(files, tree, run[r].candidate)
    BY <1>1, <2>1, <2>2, FilledSoFar DEF IsOf, Stands, Alone, Filling
  <2> QED
    BY <2>1, <2>2, <2>3, FillsOn DEF Filling
<1>5. ASSUME CopyEvidence(r)
      PROVE  BundlesInv'
  <2> DEFINE new == [At(r, "inspect") EXCEPT !.first = {}, !.second = {}, !.evidence = {}]
             files == [bundle EXCEPT !["requirements"] = run[r].evidence,
                                     !["sbom"] = run[r].evidence,
                                     !["reproducibility"] = {Report(r)}]
  <2>1. run[r].pc = "evidence" /\ Writes(r, "evidence", new, files)
    BY <1>5 DEF CopyEvidence, Writes
  <2>2. BundleInv(files) /\ \A name \in {"wheel", "sdist", "manifest", "provenance"} :
                                files[name] = bundle[name]
    BY <1>1 DEF BundleInv, FileNames, Payloads, Evidence
  <2>3. /\ DOMAIN new = DOMAIN IdleRun /\ new.pc = "inspect"
        /\ new.mixed = run[r].mixed /\ new.candidate = run[r].candidate
        /\ new.command = run[r].command /\ new.gate = run[r].gate
        /\ new.answer = run[r].answer /\ new.first = {}
    BY StepFields DEF IdleRun
  <2> HIDE DEF new, files
  <2>4. ~run[r].mixed /\ run[r].command = "release" => IsOf(files, tree, run[r].candidate)
    BY <2>1, <2>2, FilledSoFar DEF IsOf, Filling
  <2>5. Stands(new, files, tree)
    BY <1>1, <2>1, <2>3, <2>4, GoesOn
  <2> QED
    BY <2>1, <2>2, <2>5, WritesKeeps
<1> QED
  BY <1>2, <1>3, <1>4, <1>5

LEMMA RecordsKeep ==
    ASSUME BundlesInv, NEW r \in Runs
    PROVE  /\ InspectCopies(r) => BundlesInv'
           /\ WriteProvenance(r) => BundlesInv'
           /\ WriteManifest(r) => BundlesInv'
           /\ WriteSums(r) => BundlesInv'
<1>1. BundleInv(bundle) /\ Stands(run[r], bundle, tree)
  BY DEF BundlesInv
<1>2. ASSUME InspectCopies(r)
      PROVE  BundlesInv'
  <2> DEFINE copies == {[wheel |-> bundle["wheel"], sdist |-> bundle["sdist"]]}
             new == [At(r, "provenance") EXCEPT !.records = copies]
  <2>1. run[r].pc = "inspect" /\ UNCHANGED <<tree, bundle>>
    BY <1>2 DEF InspectCopies, Goes, Unchanged
  <2>2. \/ run' = [run EXCEPT ![r] = new]
        \/ run' = [run EXCEPT ![r] = Stop(r, "error")]
    BY <1>2 DEF InspectCopies, Goes
  <2>3. /\ DOMAIN new = DOMAIN IdleRun /\ new.pc = "provenance"
        /\ new.mixed = run[r].mixed /\ new.candidate = run[r].candidate
        /\ new.command = run[r].command /\ new.gate = run[r].gate
        /\ new.answer = run[r].answer /\ new.first = run[r].first
    BY StepFields DEF IdleRun
  <2> HIDE DEF new
  <2>4. Stands(new, bundle, tree)
    BY <1>1, <2>1, <2>3, GoesOn, FilledSoFar DEF Filling
  <2> QED
    BY <2>1, <2>2, <2>4, StoppedStands, GoesKeeps
<1>3. ASSUME WriteProvenance(r)
      PROVE  BundlesInv'
  <2> DEFINE record == [candidate |-> run[r].candidate, subjects |-> run[r].records]
             files == [bundle EXCEPT !["provenance"] = {record}]
  <2>1. run[r].pc = "provenance" /\ Writes(r, "provenance", At(r, "manifest"), files)
    BY <1>3 DEF WriteProvenance, Writes
  <2>2. BundleInv(files) /\ files["provenance"] = {record}
        /\ \A name \in {"wheel", "sdist", "manifest"} : files[name] = bundle[name]
    BY <1>1 DEF BundleInv, FileNames, Payloads, Evidence
  <2> HIDE DEF files
  <2>3. ~run[r].mixed /\ run[r].command = "release" => IsOf(files, tree, run[r].candidate)
    BY <2>1, <2>2, FilledSoFar DEF IsOf, Filling
  <2> QED
    BY <2>1, <2>2, <2>3, FillsOn DEF Filling
<1>4. ASSUME WriteManifest(r)
      PROVE  BundlesInv'
  <2> DEFINE record == [candidate |-> run[r].candidate, payloads |-> run[r].records,
                        evidence |-> [name \in Evidence |-> bundle[name]]]
             files == [bundle EXCEPT !["manifest"] = {record}]
  <2>1. CASE \E name \in Evidence : bundle[name] = {}
    BY <1>4, <2>1, StoppedStands, GoesKeeps DEF WriteManifest, Goes, Unchanged
  <2>2. CASE ~\E name \in Evidence : bundle[name] = {}
    <3>1. run[r].pc = "manifest" /\ Writes(r, "manifest", At(r, "sums"), files)
      BY <1>4, <2>2 DEF WriteManifest, Writes
    <3>2. BundleInv(files) /\ files["manifest"] = {record}
          /\ \A name \in {"wheel", "sdist", "provenance"} : files[name] = bundle[name]
      BY <1>1 DEF BundleInv, One, FileNames, Payloads, Evidence
    <3>3. record.candidate = run[r].candidate
      OBVIOUS
    <3> HIDE DEF files, record
    <3>4. ~run[r].mixed /\ run[r].command = "release" => IsOf(files, tree, run[r].candidate)
      BY <3>1, <3>2, <3>3, FilledSoFar DEF IsOf, Filling
    <3> QED
      BY <3>1, <3>2, <3>4, FillsOn DEF Filling
  <2> QED
    BY <2>1, <2>2
<1>5. ASSUME WriteSums(r)
      PROVE  BundlesInv'
  <2> DEFINE files == [bundle EXCEPT !["sums"] = {[name \in FileNames \ {"sums"} |-> bundle[name]]}]
  <2>1. run[r].pc = "sums" /\ Writes(r, "sums", At(r, "verify"), files)
    BY <1>5 DEF WriteSums, Writes
  <2>2. BundleInv(files) /\ \A name \in {"wheel", "sdist", "manifest", "provenance"} :
                                files[name] = bundle[name]
    BY <1>1 DEF BundleInv, FileNames, Payloads, Evidence
  <2> HIDE DEF files
  <2>3. ~run[r].mixed /\ run[r].command = "release" => IsOf(files, tree, run[r].candidate)
    BY <2>1, <2>2, FilledSoFar DEF IsOf, Filling
  <2> QED
    BY <2>1, <2>2, <2>3, FillsOn DEF Filling
<1> QED
  BY <1>2, <1>3, <1>4, <1>5

-----------------------------------------------------------------------------
\* What verification accepts is one sound build, made twice alike, under the
\* expected candidate.
LEMMA AcceptedBundle ==
    ASSUME BundleInv(bundle), NEW manifest \in bundle["manifest"], NEW expected,
           ManifestHolds(manifest, expected), EvidenceHolds(manifest)
    PROVE  /\ Reproduced(bundle)
           /\ expected # {} => \A m \in bundle["manifest"] : m.candidate = expected
<1>1. PICK build \in bundle["wheel"] : Sound(build)
  BY DEF EvidenceHolds, Inspects, InspectsWheel
<1>2. bundle["wheel"] = {build} /\ build \in Builds
  BY <1>1 DEF BundleInv, One
<1>3. /\ bundle["reproducibility"] # {}
      /\ \A proof \in bundle["reproducibility"] :
             /\ proof.first = proof.second
             /\ bundle["wheel"] = proof.first /\ bundle["sdist"] = proof.first
  BY DEF EvidenceHolds, Reproduces
<1>4. Reproduced(bundle)
  BY <1>1, <1>2, <1>3 DEF Reproduced
<1>5. expected # {} => \A m \in bundle["manifest"] : m.candidate = expected
  BY DEF ManifestHolds, BundleInv, One
<1> QED
  BY <1>4, <1>5

LEMMA VerifyKeeps ==
    ASSUME BundlesInv, NEW r \in Runs
    PROVE  /\ \A command \in {"verify", "gate"} : \A candidate :
                  (command = "gate" => candidate # {}) /\ StartVerify(r, command, candidate)
                  => BundlesInv'
           /\ VerifyBundle(r) => BundlesInv'
           /\ WriteGate(r) => BundlesInv'
           /\ KillRelease(r) => BundlesInv'
<1>1. BundleInv(bundle) /\ Stands(run[r], bundle, tree)
  BY DEF BundlesInv
<1>2. ASSUME NEW command \in {"verify", "gate"}, NEW candidate,
             command = "gate" => candidate # {}, StartVerify(r, command, candidate)
      PROVE  BundlesInv'
  <2> DEFINE new == [IdleRun EXCEPT !.pc = "verify", !.command = command,
                                    !.candidate = candidate]
  <2>1. Stands(new, bundle, tree)
    BY <1>2 DEF Stands, Alone, IdleRun, One, Filling
  <2> QED
    BY <1>2, <2>1, GoesKeeps DEF StartVerify, Goes
<1>3. ASSUME VerifyBundle(r)
      PROVE  BundlesInv'
  <2> DEFINE accepted == ChecksumsMatch /\ \E manifest \in bundle["manifest"] :
                 ManifestHolds(manifest, run[r].candidate) /\ EvidenceHolds(manifest)
  <2>1. run[r].pc = "verify" /\ UNCHANGED <<tree, bundle>>
    BY <1>3 DEF VerifyBundle, Goes, Unchanged
  <2>2. CASE ~accepted
    BY <1>3, <2>2, StoppedStands, GoesKeeps DEF VerifyBundle, Goes, Unchanged
  <2>3. CASE accepted /\ run[r].command = "gate"
    <3>1. run' = [run EXCEPT ![r] = At(r, "gate")]
      BY <1>3, <2>3 DEF VerifyBundle, Goes
    <3>2. /\ Reproduced(bundle) /\ run[r].candidate # {}
          /\ \A m \in bundle["manifest"] : m.candidate = run[r].candidate
      BY <1>1, <2>3, AcceptedBundle DEF Stands
    <3>3. Stands(At(r, "gate"), bundle, tree)
      BY <1>1, <2>1, <2>3, <3>2, StepFields DEF Stands, Alone, Filling
    <3> QED
      BY <2>1, <3>1, <3>3, GoesKeeps
  <2>4. CASE accepted /\ run[r].command # "gate"
    <3>1. run' = [run EXCEPT ![r] = Ends(r)]
      BY <1>3, <2>4 DEF VerifyBundle, Goes
    <3>2. Reproduced(bundle)
      BY <1>1, <2>4, AcceptedBundle
    <3>3. /\ DOMAIN Ends(r) = DOMAIN IdleRun /\ Ends(r).pc = "done" /\ Ends(r).answer = "ok"
          /\ Ends(r).mixed = run[r].mixed /\ Ends(r).candidate = run[r].candidate
          /\ Ends(r).command = run[r].command /\ Ends(r).gate = run[r].gate
          /\ Ends(r).first = run[r].first
      BY <1>1 DEF Ends, Stands, IdleRun
    <3>4. Stands(Ends(r), bundle, tree)
      BY <1>1, <2>1, <2>4, <3>2, <3>3 DEF Stands, Alone, Filling
    <3> QED
      BY <2>1, <3>1, <3>4, GoesKeeps
  <2> QED
    BY <2>2, <2>3, <2>4
<1>4. ASSUME WriteGate(r)
      PROVE  BundlesInv'
  <2> DEFINE new == [Ends(r) EXCEPT !.gate = bundle["manifest"]]
  <2>1. /\ run[r].pc = "gate" /\ run' = [run EXCEPT ![r] = new]
        /\ UNCHANGED <<tree, bundle>>
    BY <1>4 DEF WriteGate, Goes, Unchanged
  <2>2. /\ DOMAIN new = DOMAIN IdleRun /\ new.pc = "done" /\ new.answer = "ok"
        /\ new.mixed = run[r].mixed /\ new.candidate = run[r].candidate
        /\ new.command = run[r].command /\ new.gate = bundle["manifest"]
        /\ new.first = run[r].first
    BY <1>1 DEF Ends, Stands, IdleRun
  <2> HIDE DEF new
  <2>3. Stands(new, bundle, tree)
    BY <1>1, <2>1, <2>2 DEF Stands, Alone
  <2> QED
    BY <2>1, <2>3, GoesKeeps
<1>5. ASSUME KillRelease(r)
      PROVE  BundlesInv'
  BY <1>5, StoppedStands, GoesKeeps DEF KillRelease, Unchanged
<1> QED
  BY <1>2, <1>3, <1>4, <1>5

LEMMA BundlesKeep == BundlesInv /\ [ReleaseNext]_releaseVars => BundlesInv'
<1> SUFFICES ASSUME BundlesInv, [ReleaseNext]_releaseVars
             PROVE  BundlesInv'
  OBVIOUS
<1>1. \A r \in Releases : r \in Runs
  BY DEF Runs
<1>2. \A r \in Checks : r \in Runs
  BY DEF Runs
<1>3. ASSUME NEW r \in Checks,
             \/ \E candidate \in {{c} : c \in Candidates} \cup {{}} :
                    StartVerify(r, "verify", candidate)
             \/ \E c \in Candidates : StartVerify(r, "gate", {c})
      PROVE  BundlesInv'
  <2>1. r \in Runs
    BY <1>2
  <2>2. \A c : {c} # {}
    OBVIOUS
  <2> QED
    BY <1>3, <2>1, <2>2, VerifyKeeps
<1>4. ASSUME NEW i \in 1 .. Len(Checkouts) - 1, ChangeTree(i)
      PROVE  BundlesInv'
  <2>1. tree' \in Trees
    BY <1>4, ReleaseAssumption DEF ChangeTree, Trees
  <2>2. \A r \in Runs : Stands(Overtaken(run[r]), bundle, tree')
    BY OvertakenStands DEF BundlesInv
  <2> QED
    BY <1>4, <2>1, <2>2 DEF ChangeTree, BundlesInv
<1>5. CASE UNCHANGED releaseVars
  BY <1>5 DEF releaseVars, BundlesInv
<1>6. ASSUME NEW r \in Runs, VerifyBundle(r) \/ WriteGate(r) \/ KillRelease(r)
      PROVE  BundlesInv'
  BY <1>6, VerifyKeeps
<1>7. ASSUME NEW r \in Releases,
             \/ \E candidate \in Candidates : StartRelease(r, candidate)
             \/ BuildFirst(r)
             \/ \E noise \in {0, 1} : CompareBuilds(r, noise)
             \/ \E exported \in {"hashed", "unhashed"} : ValidateBuild(r, exported)
             \/ ResetBundle(r)
             \/ CopyPayload(r, "wheel", "sdist") \/ CopyPayload(r, "sdist", "evidence")
             \/ CopyEvidence(r) \/ InspectCopies(r)
             \/ WriteProvenance(r) \/ WriteManifest(r) \/ WriteSums(r)
      PROVE  BundlesInv'
  BY <1>1, <1>7, BuildsKeep, CopiesKeep, RecordsKeep
<1> QED
  BY <1>3, <1>4, <1>5, <1>6, <1>7 DEF ReleaseNext

\* The inductive invariant of the release: what each command has written and
\* checked is still there, unless another one, or the user, disturbed it.
THEOREM BundlesInvHolds == ReleaseSpec => []BundlesInv
BY BundleStarts, BundlesKeep, PTL DEF ReleaseSpec

\* What a command accepts, and nobody has touched since it began, is one build of
\* one tree, without a forbidden path and made twice alike, for any runs over any
\* working trees.
THEOREM AcceptedAreReproduced == ReleaseSpec => []AcceptedIsReproduced
<1>1. BundlesInv => AcceptedIsReproduced
  BY DEF BundlesInv, Stands, Alone, Reproduced, AcceptedIsReproduced
<1> QED
  BY <1>1, BundlesInvHolds, PTL

\* A release left alone bundles the working tree as it is, with what is edited in
\* it, under the commit that is HEAD, for any trees.
THEOREM AloneAreOfTheirTree == ReleaseSpec => []AloneIsOfItsTree
<1>1. BundlesInv => AloneIsOfItsTree
  BY DEF BundlesInv, Stands, Alone, IsOf, AloneIsOfItsTree
<1> QED
  BY <1>1, BundlesInvHolds, PTL

-----------------------------------------------------------------------------
(* The beacon *)

\* What an approval in the log, or about to be appended, stands on. The policy is
\* the one whose allowed half was read.
Justified(d, under) ==
    /\ SufficientEvidence(d)
    /\ proposals[d].stored /\ ~proposals[d].blocked
    /\ \E p \in under : d.category \in p.allowed \ p.blocked

\* An investigation under way: the snapshot first, then the record.
RunStands(c) ==
    /\ clerk[c].pc \in {"record", "ran"} => clerk[c].trigger.summary \in snapshots
    /\ clerk[c].pc = "ran" => clerk[c].trigger \in records

\* A ruling under way.
RulingStands(c) ==
    /\ clerk[c].pc \in {"allowed", "blocked", "append"} =>
           /\ clerk[c].draft \in Drafts
           /\ clerk[c].decision \in {"approve", "deny"}
           /\ clerk[c].under \subseteq Policies
           /\ proposals[clerk[c].draft].stored
    /\ clerk[c].pc = "blocked" => \E p \in Policies : clerk[c].under = {p}
                                                     /\ clerk[c].allowed = p.allowed
    /\ clerk[c].pc = "append" /\ clerk[c].decision = "approve" =>
           Justified(clerk[c].draft, clerk[c].under)

LogLines == [draft : Drafts, decision : {"approve", "deny"}, under : SUBSET Policies]

LogStands ==
    /\ decisions \in Seq(LogLines)
    /\ \A i \in DOMAIN decisions :
           decisions[i].decision = "approve" =>
               Justified(decisions[i].draft, decisions[i].under)

BeaconInv ==
    /\ \A t \in records : t.summary \in snapshots
    /\ proposals \in [Drafts -> [stored : BOOLEAN, blocked : BOOLEAN, allowed : BOOLEAN]]
    /\ \A d \in Drafts : proposals[d].stored => SufficientEvidence(d)
    /\ policy \in Policies
    /\ LogStands
    /\ DOMAIN clerk = Clerks
    /\ \A c \in Clerks : RunStands(c) /\ RulingStands(c)

-----------------------------------------------------------------------------
\* The directory only gains files, and no stored proposal changes.
DirectoryGrows ==
    /\ snapshots \subseteq snapshots'
    /\ records \subseteq records'
    /\ \A d \in Drafts : proposals[d].stored => proposals'[d] = proposals[d]

\* What was justified stays justified.
LEMMA JustifiedStays ==
    ASSUME NEW d \in Drafts, NEW under, DirectoryGrows, Justified(d, under)
    PROVE  Justified(d, under)'
BY DEF DirectoryGrows, Justified

\* A step of one process is no concern of the others.
LEMMA OthersStand ==
    ASSUME NEW c, BeaconInv, DirectoryGrows,
           \A e \in Clerks \ {c} : clerk'[e] = clerk[e]
    PROVE  \A e \in Clerks \ {c} : RunStands(e)' /\ RulingStands(e)'
<1> SUFFICES ASSUME NEW e \in Clerks \ {c} PROVE RunStands(e)' /\ RulingStands(e)'
  OBVIOUS
<1>1. RunStands(e) /\ RulingStands(e) /\ clerk'[e] = clerk[e]
  BY DEF BeaconInv
<1>2. RunStands(e)'
  BY <1>1 DEF RunStands, DirectoryGrows
<1>3. RulingStands(e)'
  BY <1>1, JustifiedStays DEF RulingStands, DirectoryGrows
<1> QED
  BY <1>2, <1>3

LEMMA LogStays ==
    ASSUME BeaconInv, DirectoryGrows, decisions' = decisions
    PROVE  LogStands'
<1>1. LogStands
  BY DEF BeaconInv
<1>2. ASSUME NEW i \in DOMAIN decisions, decisions[i].decision = "approve"
      PROVE  Justified(decisions[i].draft, decisions[i].under)'
  <2>1. decisions[i] \in LogLines /\ Justified(decisions[i].draft, decisions[i].under)
    BY <1>1, <1>2 DEF LogStands
  <2>2. decisions[i].draft \in Drafts
    BY <2>1 DEF LogLines
  <2> QED
    BY <2>1, <2>2 DEF DirectoryGrows, Justified
<1> QED
  BY <1>1, <1>2 DEF LogStands

LEMMA BeaconStarts == BeaconInit => BeaconInv
BY DEF BeaconInit, BeaconInv, NotStored, LogStands, RunStands, RulingStands, IdleClerk

\* What a step of one process leaves alone: the proposals, the policy, the log.
LEMMA ClerkStepKeeps ==
    ASSUME NEW c \in Clerks, BeaconInv, DirectoryGrows, NEW new,
           clerk' = [clerk EXCEPT ![c] = new],
           UNCHANGED <<proposals, policy, decisions>>,
           \A t \in records' : t.summary \in snapshots',
           RunStands(c)', RulingStands(c)'
    PROVE  BeaconInv'
<1>1. \A e \in Clerks \ {c} : RunStands(e)' /\ RulingStands(e)'
  BY OthersStand DEF BeaconInv
<1>2. LogStands'
  BY LogStays
<1> QED
  BY <1>1, <1>2 DEF BeaconInv

-----------------------------------------------------------------------------
(* Investigations *)

LEMMA RunSteps ==
    ASSUME NEW c \in Clerks, BeaconInv,
           \/ \E t \in Triggers : StartRun(c, t)
           \/ WriteSnapshot(c) \/ WriteRecord(c) \/ EndRun(c) \/ KillClerk(c)
    PROVE  BeaconInv'
<1>0. RunStands(c) /\ DOMAIN clerk = Clerks
  BY DEF BeaconInv
<1>1. ASSUME NEW t \in Triggers, StartRun(c, t) PROVE BeaconInv'
  <2>1. RunStands(c)' /\ RulingStands(c)'
    BY <1>0, <1>1 DEF StartRun, Step, RunStands, RulingStands
  <2> QED
    BY <1>1, <2>1, ClerkStepKeeps DEF StartRun, Step, DirectoryGrows, BeaconInv
<1>2. CASE WriteSnapshot(c)
  <2>1. RunStands(c)' /\ RulingStands(c)'
    BY <1>0, <1>2 DEF WriteSnapshot, Step, RunStands, RulingStands
  <2> QED
    BY <1>2, <2>1, ClerkStepKeeps DEF WriteSnapshot, Step, DirectoryGrows, BeaconInv
<1>3. CASE WriteRecord(c)
  <2>1. RunStands(c)' /\ RulingStands(c)'
    BY <1>0, <1>3 DEF WriteRecord, Step, RunStands, RulingStands
  <2>2. \A t \in records' : t.summary \in snapshots'
    BY <1>0, <1>3 DEF WriteRecord, Step, RunStands, BeaconInv
  <2> QED
    BY <1>3, <2>1, <2>2, ClerkStepKeeps DEF WriteRecord, Step, DirectoryGrows
<1>4. CASE EndRun(c) \/ KillClerk(c)
  <2>1. clerk' = [clerk EXCEPT ![c] = IdleClerk]
    BY <1>4 DEF EndRun, KillClerk, Step
  <2>2. RunStands(c)' /\ RulingStands(c)'
    BY <1>0, <2>1 DEF RunStands, RulingStands, IdleClerk
  <2> QED
    BY <1>4, <2>1, <2>2, ClerkStepKeeps DEF EndRun, KillClerk, DirectoryGrows, BeaconInv
<1> QED
  BY <1>1, <1>2, <1>3, <1>4

-----------------------------------------------------------------------------
(* Rulings *)

LEMMA StartRulingKeeps ==
    ASSUME NEW c \in Clerks, NEW d \in Drafts, NEW decision \in {"approve", "deny"},
           BeaconInv, StartRuling(c, d, decision)
    PROVE  BeaconInv'
<1>1. RunStands(c)' /\ RulingStands(c)'
  BY DEF StartRuling, Step, RunStands, RulingStands, BeaconInv
<1> QED
  BY <1>1, ClerkStepKeeps DEF StartRuling, Step, DirectoryGrows, BeaconInv

LEMMA ReadAllowedKeeps ==
    ASSUME NEW c \in Clerks, BeaconInv, ReadAllowed(c)
    PROVE  BeaconInv'
<1>1. RulingStands(c) /\ clerk[c].pc = "allowed" /\ policy \in Policies
  BY DEF BeaconInv, ReadAllowed, Step
<1>2. RunStands(c)' /\ RulingStands(c)'
  BY <1>1 DEF ReadAllowed, Step, RunStands, RulingStands, BeaconInv
<1> QED
  BY <1>2, ClerkStepKeeps DEF ReadAllowed, Step, DirectoryGrows, BeaconInv

\* Both halves of every version are disjoint, so the version whose allowed half
\* was read does not block the category, whatever the other version says.
LEMMA ReadBlockedKeeps ==
    ASSUME NEW c \in Clerks, BeaconInv, ReadBlocked(c)
    PROVE  BeaconInv'
<1> DEFINE d == clerk[c].draft
           passes == /\ LoadableBlocked(policy)
                     /\ ~proposals[d].blocked
                     /\ Decision(d.category, clerk[c].allowed, policy.blocked) = "allow"
<1>1. RulingStands(c) /\ clerk[c].pc = "blocked" /\ policy \in Policies
      /\ UNCHANGED <<snapshots, records, proposals, policy, decisions>>
  BY DEF BeaconInv, ReadBlocked, Step
<1>2. CASE passes
  <2>1. clerk' = [clerk EXCEPT ![c] = [clerk[c] EXCEPT !.pc = "append",
                                                       !.under = @ \cup {policy}]]
    BY <1>2 DEF ReadBlocked, Step
  <2>2. PICK p \in Policies : clerk[c].under = {p} /\ clerk[c].allowed = p.allowed
    BY <1>1 DEF RulingStands
  <2>3. d.category \in p.allowed \ p.blocked
    BY <1>2, <2>2, BeaconAssumption DEF Decision
  <2>4. Justified(d, clerk[c].under \cup {policy})
    BY <1>1, <1>2, <2>2, <2>3 DEF Justified, RulingStands, BeaconInv
  <2>5. RunStands(c)' /\ RulingStands(c)'
    <3>1. /\ clerk'[c] = [clerk[c] EXCEPT !.pc = "append", !.under = @ \cup {policy}]
          /\ Justified(d, clerk[c].under \cup {policy})'
      BY <1>1, <2>1, <2>4 DEF BeaconInv, Justified
    <3> QED
      BY <1>1, <3>1 DEF RunStands, RulingStands
  <2> QED
    BY <1>1, <2>1, <2>5, ClerkStepKeeps DEF DirectoryGrows, BeaconInv
<1>3. CASE ~ passes
  <2>1. clerk' = [clerk EXCEPT ![c] = IdleClerk]
    BY <1>3 DEF ReadBlocked, Step
  <2>2. RunStands(c)' /\ RulingStands(c)'
    BY <2>1 DEF RunStands, RulingStands, IdleClerk, BeaconInv
  <2> QED
    BY <1>1, <2>1, <2>2, ClerkStepKeeps DEF DirectoryGrows, BeaconInv
<1> QED
  BY <1>2, <1>3

LEMMA AppendDecisionKeeps ==
    ASSUME NEW c \in Clerks, BeaconInv, AppendDecision(c)
    PROVE  BeaconInv'
<1> DEFINE line == [draft |-> clerk[c].draft, decision |-> clerk[c].decision,
                    under |-> clerk[c].under]
<1>1. /\ decisions' = Append(decisions, line)
      /\ clerk' = [clerk EXCEPT ![c] = IdleClerk]
      /\ UNCHANGED <<snapshots, records, proposals, policy>>
  BY DEF AppendDecision, Step
<1>2. RulingStands(c) /\ clerk[c].pc = "append"
  BY DEF BeaconInv, AppendDecision, Step
<1>3. line \in LogLines
  BY <1>2 DEF RulingStands, LogLines
<1>4. line.decision = "approve" => Justified(line.draft, line.under)
  BY <1>2 DEF RulingStands
<1> HIDE DEF line
<1>5. \A d, under : Justified(d, under)' <=> Justified(d, under)
  BY <1>1 DEF Justified
<1>6. LogStands'
  <2>1. decisions \in Seq(LogLines)
    BY DEF BeaconInv, LogStands
  <2>2. /\ decisions' \in Seq(LogLines)
        /\ \A i \in DOMAIN decisions' :
              \/ decisions'[i] = line
              \/ i \in DOMAIN decisions /\ decisions'[i] = decisions[i]
    BY <1>1, <1>3, <2>1
  <2> QED
    BY <1>4, <1>5, <2>2 DEF LogStands, BeaconInv
<1>7. \A e \in Clerks \ {c} : RunStands(e)' /\ RulingStands(e)'
  BY <1>1, OthersStand DEF DirectoryGrows, BeaconInv
<1>8. RunStands(c)' /\ RulingStands(c)'
  BY <1>1 DEF RunStands, RulingStands, IdleClerk, BeaconInv
<1> QED
  BY <1>1, <1>6, <1>7, <1>8 DEF BeaconInv

-----------------------------------------------------------------------------
(* Proposals and the policy *)

LEMMA StoreProposalKeeps ==
    ASSUME NEW d \in Drafts, NEW reviewed \in BOOLEAN, BeaconInv, StoreProposal(d, reviewed)
    PROVE  BeaconInv'
<1> DEFINE allows == Decision(d.category, policy.allowed, policy.blocked) = "allow"
           blocks == d.category \in policy.blocked
           new == [stored |-> TRUE, blocked |-> reviewed /\ blocks,
                   allowed |-> reviewed /\ allows]
<1>1. /\ proposals' = [proposals EXCEPT ![d] = IF @.stored THEN @ ELSE new]
      /\ UNCHANGED <<snapshots, records, policy, decisions, clerk>>
      /\ SufficientEvidence(d)
  BY DEF StoreProposal
<1>2. new \in [stored : BOOLEAN, blocked : BOOLEAN, allowed : BOOLEAN] /\ new.stored
  OBVIOUS
<1> HIDE DEF new
<1>3. /\ proposals' \in [Drafts -> [stored : BOOLEAN, blocked : BOOLEAN, allowed : BOOLEAN]]
      /\ \A e \in Drafts : proposals'[e].stored => SufficientEvidence(e)
      /\ DirectoryGrows
  BY <1>1, <1>2 DEF BeaconInv, DirectoryGrows
<1>4. LogStands'
  BY <1>1, <1>3, LogStays
<1>5. \A c \in Clerks : RunStands(c)' /\ RulingStands(c)'
  <2> SUFFICES ASSUME NEW c \in Clerks PROVE RunStands(c)' /\ RulingStands(c)'
    OBVIOUS
  <2>1. RunStands(c) /\ RulingStands(c)
    BY DEF BeaconInv
  <2>2. RunStands(c)'
    BY <1>1, <2>1 DEF RunStands
  <2>3. RulingStands(c)'
    BY <1>1, <1>3, <2>1, JustifiedStays DEF RulingStands, DirectoryGrows
  <2> QED
    BY <2>2, <2>3
<1> QED
  BY <1>1, <1>3, <1>4, <1>5 DEF BeaconInv

LEMMA StayedTheSame ==
    ASSUME BeaconInv, policy' \in Policies,
           UNCHANGED <<snapshots, records, proposals, decisions, clerk>>
    PROVE  BeaconInv'
BY DEF BeaconInv, LogStands, Justified, RunStands, RulingStands

LEMMA BeaconKeeps == BeaconInv /\ [BeaconNext]_beaconVars => BeaconInv'
<1> SUFFICES ASSUME BeaconInv, [BeaconNext]_beaconVars PROVE BeaconInv'
  OBVIOUS
<1>1. CASE UNCHANGED beaconVars
  BY <1>1, StayedTheSame DEF beaconVars, BeaconInv
<1>2. CASE UpgradePolicy
  BY <1>2, StayedTheSame DEF UpgradePolicy
<1> QED
  BY <1>1, <1>2, RunSteps, StartRulingKeeps, ReadAllowedKeeps, ReadBlockedKeeps,
     AppendDecisionKeeps, StoreProposalKeeps DEF BeaconNext

-----------------------------------------------------------------------------
\* The inductive invariant of the beacon: every stored file and every command
\* under way has the snapshot, the evidence and the policy that it needs.
THEOREM BeaconInvHolds == BeaconSpec => []BeaconInv
BY BeaconStarts, BeaconKeeps, PTL DEF BeaconSpec

\* Every record has its snapshot, and what beacon run answered for is reported.
THEOREM RunsAreReported == BeaconSpec => []RanIsReported
<1>1. BeaconInv => RanIsReported
  BY DEF BeaconInv, RanIsReported, Reportable, RunStands
<1> QED
  BY <1>1, BeaconInvHolds, PTL

\* Every approval stands on evidence, on an unblocked proposal that is stored, and
\* on a version of the policy that allows it.
THEOREM ApprovalsAreJustified == BeaconSpec => []ApprovalsJustified
<1>1. BeaconInv => ApprovalsJustified
  BY DEF BeaconInv, LogStands, ApprovalsJustified, Justified
<1> QED
  BY <1>1, BeaconInvHolds, PTL

-----------------------------------------------------------------------------
\* A score lies between 0 and 1.
LEMMA DetectTyped ==
    ASSUME NEW t \in DraftTexts
    PROVE  Detect(t) \in DetectorAnswers
<1>1. t \in Features
  BY DetectorAssumption
<1> DEFINE bigrams == 300 * Least(t.repeated, 15)
           variance == 75 * Above(40 - t.variance)
           pronouns == 420 * Above(5 - t.pronouns)
           phrases == 2250 * Least(t.phrases, 6)
           letters == 100 * Least(Above(60 - t.length), 30)
<1>2. /\ bigrams \in Nat /\ bigrams <= 4500 /\ variance \in Nat /\ variance <= 3000
      /\ pronouns \in Nat /\ pronouns <= 2100 /\ phrases \in Nat /\ phrases <= 13500
      /\ letters \in Nat /\ letters <= 3000
  BY <1>1 DEF Features, Least, Above
<1>3. Combined(t) = bigrams + variance + pronouns + phrases + letters
  BY DEF Combined
<1> HIDE DEF bigrams, variance, pronouns, phrases, letters
<1>4. Combined(t) \in Nat /\ Combined(t) <= 26100
  BY <1>2, <1>3
<1>5. \A score \in -1 .. Unit : \A label \in {"human", "uncertain", "ai", "none"} :
          [score |-> score, label |-> label] \in DetectorAnswers
  BY DEF DetectorAnswers
<1>6. Combined(t) \in -1 .. Unit /\ Unit \div 2 \in -1 .. Unit
  <2>1. Unit \in Int /\ 26100 <= Unit
    BY DEF Unit
  <2>2. Unit \div 2 \in Nat /\ Unit \div 2 <= Unit
    BY DEF Unit
  <2>3. \A n \in Nat : n <= Unit => n \in -1 .. Unit
    BY <2>1
  <2>4. Combined(t) <= Unit
    BY <1>4, <2>1
  <2> QED
    BY <1>4, <2>2, <2>3, <2>4
<1>7. Classify(Combined(t)) \in {"human", "uncertain", "ai"}
  BY DEF Classify
<1> QED
  BY <1>5, <1>6, <1>7 DEF Detect

LEMMA PossibleTyped == PossibleAnswers \subseteq DetectorAnswers
<1>1. NoAnswer \in DetectorAnswers
  BY DEF NoAnswer, DetectorAnswers, Unit
<1> QED
  BY <1>1, DetectTyped DEF PossibleAnswers

\* The cache is asked by the commands that may use it.
Allowed(state) == ~ state.cached => state.pc \notin {"get", "put"}

LEMMA DetectorTyped ==
    /\ CacheInit => DetectorTypeOK
    /\ CacheInv /\ DetectorTypeOK /\ [CacheNext]_cacheVars => DetectorTypeOK'
<1>1. ASSUME CacheInit PROVE DetectorTypeOK
  <2>1. NoAnswer \in DetectorAnswers
    BY PossibleTyped DEF PossibleAnswers
  <2> QED
    BY <1>1, <2>1 DEF CacheInit, DetectorTypeOK, Quiet
<1> SUFFICES ASSUME CacheInv, DetectorTypeOK, [CacheNext]_cacheVars PROVE DetectorTypeOK'
  BY <1>1
<1> DEFINE RowsTyped ==
        /\ DOMAIN rows \subseteq [text : DraftTexts, provider : Providers, model : Models]
        /\ \A key \in DOMAIN rows : rows[key] \in DetectorAnswers
<1>2. verifier' \in [Verifiers -> VerifierStates] /\ output' \in DraftTexts
  BY CacheKeeps DEF CacheInv
<1>3. ASSUME named' \in {"directory", "database"},
             place' \in {"absent", "directory", "database"},
             RowsTyped', \A v \in Verifiers : Allowed(verifier'[v])
      PROVE  DetectorTypeOK'
  BY <1>2, <1>3, PossibleTyped DEF DetectorTypeOK, VerifierStates, Allowed
<1>4. /\ named \in {"directory", "database"} /\ place \in {"absent", "directory", "database"}
      /\ RowsTyped /\ \A v \in Verifiers : Allowed(verifier[v])
      /\ verifier \in [Verifiers -> VerifierStates]
  BY DEF DetectorTypeOK, CacheInv, Allowed
<1>5. \A v \in Verifiers : Made(v) \in {"absent", "directory", "database"}
  BY DEF Made
<1>6. ASSUME NEW v \in Verifiers, NEW new, verifier' = [verifier EXCEPT ![v] = new],
             Allowed(new)
      PROVE  \A w \in Verifiers : Allowed(verifier'[w])
  BY <1>4, <1>6
<1>7. ASSUME NEW v \in Verifiers, NEW pc, Become(v, pc), pc \notin {"get", "put"}
      PROVE  \A w \in Verifiers : Allowed(verifier'[w])
  BY <1>4, <1>7 DEF Become, Allowed, VerifierStates
<1>8. ASSUME NEW v \in Verifiers, NEW mode \in Modes, NEW enabled \in BOOLEAN,
             NEW provider \in Providers, Verify(v, mode, enabled, provider)
      PROVE  DetectorTypeOK'
  BY <1>3, <1>4, <1>6, <1>8 DEF Verify, Allowed
<1>9. ASSUME NEW v \in Verifiers, Get(v)
      PROVE  DetectorTypeOK'
  <2>1. \A w \in Verifiers : Allowed(verifier'[w])
    BY <1>4, <1>7, <1>9 DEF Get, Allowed, VerifierStates
  <2> QED
    BY <1>3, <1>4, <1>5, <1>9, <2>1 DEF Get
<1>10. ASSUME NEW v \in Verifiers, CacheFails(v)
       PROVE  DetectorTypeOK'
  <2>1. place' \in {place, Made(v)}
    BY <1>10 DEF CacheFails
  <2> QED
    BY <1>3, <1>4, <1>5, <1>7, <1>10, <2>1 DEF CacheFails
<1>11. ASSUME NEW v \in Verifiers, AskDetector(v)
       PROVE  DetectorTypeOK'
  <2>1. \A w \in Verifiers : Allowed(verifier'[w])
    BY <1>4, <1>7, <1>11 DEF AskDetector, Allowed, VerifierStates
  <2> QED
    BY <1>3, <1>4, <1>11, <2>1 DEF AskDetector
<1>12. ASSUME NEW v \in Verifiers, Put(v)
       PROVE  DetectorTypeOK'
  <2> DEFINE key == Key(verifier[v].text, verifier[v].provider)
  <2>1. key \in [text : DraftTexts, provider : Providers, model : Models]
    <3>1. verifier[v].text \in DraftTexts /\ verifier[v].provider \in Providers
      BY <1>4 DEF VerifierStates
    <3> QED
      BY <3>1 DEF Key, Model, Models, Providers
  <2>2. verifier[v].answer \in DetectorAnswers
    BY <1>4, PossibleTyped DEF VerifierStates
  <2>3. rows' = [k \in DOMAIN rows \cup {key} |->
                     IF k = key THEN verifier[v].answer ELSE rows[k]]
    BY <1>12 DEF Put
  <2> HIDE DEF key
  <2>4. RowsTyped'
    BY <1>4, <2>1, <2>2, <2>3
  <2> QED
    BY <1>3, <1>4, <1>7, <1>12, <2>4 DEF Put
<1>13. ASSUME NEW v \in Verifiers, VerifyEnds(v)
       PROVE  DetectorTypeOK'
  BY <1>3, <1>4, <1>6, <1>13 DEF VerifyEnds, Allowed, Quiet
<1>14. ASSUME NEW mode \in Modes, NEW enabled \in BOOLEAN, Health(mode, enabled)
       PROVE  DetectorTypeOK'
  BY <1>3, <1>4, <1>14 DEF Health
<1>15. ASSUME NEW t \in DraftTexts, Rewritten(t)
       PROVE  DetectorTypeOK'
  BY <1>3, <1>4, <1>15 DEF Rewritten
<1>16. CASE UNCHANGED cacheVars
  BY <1>3, <1>4, <1>16 DEF cacheVars
<1> QED
  BY <1>8, <1>9, <1>10, <1>11, <1>12, <1>13, <1>14, <1>15, <1>16 DEF CacheNext

-----------------------------------------------------------------------------
(* The beacon: type correctness *)

\* A run has a trigger, and a command is at one of its steps.
ClerksTyped ==
    /\ DOMAIN clerk = Clerks
    /\ \A c \in Clerks :
           /\ clerk[c].pc \in {"idle", "content", "record", "ran", "allowed", "blocked", "append"}
           /\ clerk[c].pc \in {"content", "record", "ran"} => clerk[c].trigger \in Triggers

BeaconTyped == BeaconTypeOK /\ ClerksTyped

LEMMA BeaconTypes ==
    /\ BeaconInit => BeaconTyped
    /\ BeaconInv /\ BeaconTyped /\ [BeaconNext]_beaconVars => BeaconTyped'
<1>1. ASSUME BeaconInit PROVE BeaconTyped
  BY <1>1, BeaconAssumption
     DEF BeaconInit, BeaconTyped, BeaconTypeOK, ClerksTyped, NotStored, IdleClerk
<1> SUFFICES ASSUME BeaconInv, BeaconTyped, [BeaconNext]_beaconVars PROVE BeaconTyped'
  BY <1>1
<1>2. /\ proposals' \in [Drafts -> [stored : BOOLEAN, blocked : BOOLEAN, allowed : BOOLEAN]]
      /\ policy' \in Policies
  BY BeaconKeeps DEF BeaconInv
<1>3. ASSUME snapshots' \subseteq Summaries, records' \subseteq Triggers,
             Len(decisions') <= MaxDecisions, ClerksTyped'
      PROVE  BeaconTyped'
  BY <1>2, <1>3 DEF BeaconTyped, BeaconTypeOK, ClerksTyped
<1>4. snapshots \subseteq Summaries /\ records \subseteq Triggers
      /\ Len(decisions) <= MaxDecisions /\ ClerksTyped
  BY DEF BeaconTyped, BeaconTypeOK
<1>5. ASSUME NEW c \in Clerks, NEW new, clerk' = [clerk EXCEPT ![c] = new],
             new.pc \in {"idle", "content", "record", "ran", "allowed", "blocked", "append"},
             new.pc \in {"content", "record", "ran"} => new.trigger \in Triggers
      PROVE  ClerksTyped'
  BY <1>4, <1>5 DEF ClerksTyped
<1>6. ASSUME NEW c \in Clerks, clerk' = [clerk EXCEPT ![c] = IdleClerk] PROVE ClerksTyped'
  BY <1>5, <1>6 DEF IdleClerk
<1>7. ASSUME NEW c \in Clerks, NEW pc, clerk[c].pc \in {"content", "record"},
             clerk' = [clerk EXCEPT ![c] = [clerk[c] EXCEPT !.pc = pc]],
             pc \in {"record", "ran"}
      PROVE  ClerksTyped'
  BY <1>4, <1>7 DEF ClerksTyped
<1>8. ASSUME NEW c \in Clerks, clerk[c].pc \in {"content", "record"}
      PROVE  clerk[c].trigger \in Triggers /\ clerk[c].trigger.summary \in Summaries
  BY <1>4, <1>8 DEF ClerksTyped, Triggers
<1>9. ASSUME NEW c \in Clerks, NEW t \in Triggers, StartRun(c, t) PROVE BeaconTyped'
  BY <1>3, <1>4, <1>5, <1>9 DEF StartRun, Step
<1>10. ASSUME NEW c \in Clerks, WriteSnapshot(c) PROVE BeaconTyped'
  <2>1. ClerksTyped'
    BY <1>7, <1>10 DEF WriteSnapshot, Step
  <2> QED
    BY <1>3, <1>4, <1>8, <1>10, <2>1 DEF WriteSnapshot, Step
<1>11. ASSUME NEW c \in Clerks, WriteRecord(c) PROVE BeaconTyped'
  <2>1. clerk[c].pc = "record" /\ clerk' = [clerk EXCEPT ![c] = [clerk[c] EXCEPT !.pc = "ran"]]
    BY <1>11 DEF WriteRecord, Step
  <2>2. ClerksTyped'
    BY <1>4, <2>1 DEF ClerksTyped
  <2> QED
    BY <1>3, <1>4, <1>8, <1>11, <2>2 DEF WriteRecord, Step
<1>12. ASSUME NEW c \in Clerks, EndRun(c) \/ KillClerk(c) PROVE BeaconTyped'
  BY <1>3, <1>4, <1>6, <1>12 DEF EndRun, KillClerk, Step
<1>13. ASSUME NEW c \in Clerks, NEW d \in Drafts, NEW decision \in {"approve", "deny"},
              StartRuling(c, d, decision)
       PROVE  BeaconTyped'
  BY <1>3, <1>4, <1>5, <1>13 DEF StartRuling, Step
<1>14. ASSUME NEW c \in Clerks, ReadAllowed(c) PROVE BeaconTyped'
  <2>1. ClerksTyped'
    BY <1>4, <1>14 DEF ReadAllowed, Step, ClerksTyped
  <2> QED
    BY <1>3, <1>4, <1>14, <2>1 DEF ReadAllowed
<1>15. ASSUME NEW c \in Clerks, ReadBlocked(c) PROVE BeaconTyped'
  <2> DEFINE new == [clerk[c] EXCEPT !.pc = "append", !.under = @ \cup {policy}]
  <2>1. clerk' \in {[clerk EXCEPT ![c] = new], [clerk EXCEPT ![c] = IdleClerk]}
    BY <1>15 DEF ReadBlocked, Step
  <2>2. ASSUME clerk' = [clerk EXCEPT ![c] = new] PROVE ClerksTyped'
    BY <1>4, <2>2 DEF ClerksTyped
  <2> QED
    BY <1>3, <1>4, <1>6, <1>15, <2>1, <2>2 DEF ReadBlocked
<1>16. ASSUME NEW c \in Clerks, AppendDecision(c) PROVE BeaconTyped'
  <2>1. decisions \in Seq(LogLines)
    BY DEF BeaconInv, LogStands
  <2>2. Len(decisions') = Len(decisions) + 1 /\ Len(decisions) \in Nat
    BY <1>16, <2>1 DEF AppendDecision
  <2>3. Len(decisions') <= MaxDecisions
    BY <1>16, <2>2, BeaconAssumption DEF AppendDecision
  <2> QED
    BY <1>3, <1>4, <1>6, <1>16, <2>3 DEF AppendDecision, Step
<1>17. ASSUME NEW d \in Drafts, NEW reviewed \in BOOLEAN, StoreProposal(d, reviewed)
       PROVE  BeaconTyped'
  BY <1>3, <1>4, <1>17 DEF StoreProposal, ClerksTyped
<1>18. CASE UpgradePolicy \/ UNCHANGED beaconVars
  BY <1>3, <1>4, <1>18 DEF UpgradePolicy, beaconVars, ClerksTyped
<1> QED
  BY <1>9, <1>10, <1>11, <1>12, <1>13, <1>14, <1>15, <1>16, <1>17, <1>18 DEF BeaconNext

-----------------------------------------------------------------------------
(* The release bundle: type correctness *)

\* A file, or what a command carries of it: nothing, or one content.
Single(S) == S = {} \/ \E content : S = {content}

FilesTyped(files) ==
    /\ DOMAIN files = FileNames
    /\ \A name \in FileNames : Single(files[name])
    /\ files["wheel"] \subseteq Builds /\ files["sdist"] \subseteq Builds

ReleaseSteps == {"idle", "done", "first", "second", "verify", "gate"} \cup CreateSteps

RunTyped(state) ==
    /\ DOMAIN state = DOMAIN IdleRun
    /\ state.pc \in ReleaseSteps
    /\ state.command \in {"release", "verify", "gate"}
    /\ state.candidate \subseteq Candidates
    /\ state.first \subseteq Builds /\ Single(state.first)
    /\ state.second \subseteq Builds
    /\ Single(state.evidence)
    /\ state.mixed \in BOOLEAN
    /\ state.answer \in {"none", "ok", "error"}

ReleaseTyped ==
    /\ FilesTyped(bundle)
    /\ DOMAIN run = Runs
    /\ \A r \in Runs : RunTyped(run[r])

LEMMA NoneIsTyped == RunTyped(IdleRun) /\ FilesTyped(EmptyBundle)
<1>1. RunTyped(IdleRun)
  BY DEF RunTyped, IdleRun, ReleaseSteps, Single
<1>2. FilesTyped(EmptyBundle)
  BY DEF FilesTyped, EmptyBundle, Single, FileNames, Payloads, Evidence
<1> QED
  BY <1>1, <1>2

LEMMA EndIsTyped ==
    ASSUME NEW r, NEW answer \in {"none", "error"}
    PROVE  RunTyped(Stop(r, answer))
BY DEF Stop, RunTyped, IdleRun, ReleaseSteps, Single

LEMMA OvertakenTyped ==
    ASSUME NEW state, RunTyped(state)
    PROVE  RunTyped(Overtaken(state))
<1>1. CASE state.pc \in {"idle", "done"}
  BY <1>1 DEF Overtaken, RunTyped, IdleRun, ReleaseSteps, Single
<1>2. CASE state.pc \notin {"idle", "done"}
  BY <1>2 DEF Overtaken, RunTyped, IdleRun
<1> QED
  BY <1>1, <1>2

\* A command goes on to another step.
LEMMA AtTyped ==
    ASSUME NEW r, RunTyped(run[r]), NEW pc \in ReleaseSteps
    PROVE  RunTyped(At(r, pc)) /\ RunTyped(Ends(r))
<1>1. RunTyped(At(r, pc))
  BY DEF At, RunTyped, IdleRun
<1>2. RunTyped(Ends(r))
  BY DEF Ends, RunTyped, IdleRun, ReleaseSteps
<1> QED
  BY <1>1, <1>2

LEMMA GoesTyped ==
    ASSUME ReleaseTyped, NEW r \in Runs, NEW new, run' = [run EXCEPT ![r] = new],
           bundle' = bundle, RunTyped(new)
    PROVE  ReleaseTyped'
<1>1. \A q \in Runs : run'[q] = IF q = r THEN new ELSE run[q]
  BY DEF ReleaseTyped
<1>2. ASSUME NEW q \in Runs PROVE RunTyped(run'[q])
  <2>1. run'[q] = new \/ run'[q] = run[q]
    BY <1>1
  <2> QED
    BY <2>1 DEF ReleaseTyped
<1>3. FilesTyped(bundle')
  BY DEF ReleaseTyped
<1>4. DOMAIN run' = Runs
  BY DEF ReleaseTyped
<1> QED
  BY <1>2, <1>3, <1>4 DEF ReleaseTyped

LEMMA WritesTyped ==
    ASSUME ReleaseTyped, NEW r \in Runs, NEW from, NEW new, NEW files,
           Writes(r, from, new, files), RunTyped(new), FilesTyped(files)
    PROVE  ReleaseTyped'
<1>1. run' = [q \in Runs |-> IF q = r THEN new ELSE Overtaken(run[q])] /\ bundle' = files
  BY DEF Writes
<1>2. ASSUME NEW q \in Runs PROVE RunTyped(run'[q])
  <2>1. RunTyped(Overtaken(run[q]))
    BY OvertakenTyped DEF ReleaseTyped
  <2>2. run'[q] = new \/ run'[q] = Overtaken(run[q])
    BY <1>1
  <2> QED
    BY <2>1, <2>2
<1>3. FilesTyped(bundle')
  BY <1>1
<1> QED
  BY <1>1, <1>2, <1>3 DEF ReleaseTyped

\* The same file list with one file replaced.
LEMMA FileTyped ==
    ASSUME NEW files, FilesTyped(files), NEW name \in FileNames, NEW S, Single(S),
           name \in Payloads => S \subseteq Builds
    PROVE  FilesTyped([files EXCEPT ![name] = S])
<1> DEFINE new == [files EXCEPT ![name] = S]
<1>1. DOMAIN new = FileNames
      /\ \A other \in FileNames : new[other] = IF other = name THEN S ELSE files[other]
  BY DEF FilesTyped
<1>2. "wheel" \in FileNames /\ "sdist" \in FileNames
  BY DEF FileNames, Payloads
<1>3. \A other \in FileNames : Single(new[other])
  <2> SUFFICES ASSUME NEW other \in FileNames PROVE Single(new[other])
    OBVIOUS
  <2>1. new[other] = S \/ new[other] = files[other]
    BY <1>1
  <2> HIDE DEF new
  <2> QED
    BY <2>1 DEF FilesTyped
<1>4. new["wheel"] \subseteq Builds /\ new["sdist"] \subseteq Builds
  BY <1>1, <1>2 DEF FilesTyped, Payloads
<1> HIDE DEF new
<1>5. FilesTyped(new)
  BY <1>1, <1>3, <1>4 DEF FilesTyped
<1> QED
  BY <1>5 DEF new

LEMMA BuildsTyped ==
    ASSUME BundlesInv, ReleaseTyped, NEW r \in Runs
    PROVE  /\ \A candidate \in Candidates : StartRelease(r, candidate) => ReleaseTyped'
           /\ BuildFirst(r) => ReleaseTyped'
           /\ \A noise \in {0, 1} : CompareBuilds(r, noise) => ReleaseTyped'
           /\ \A exported \in {"hashed", "unhashed"} : ValidateBuild(r, exported) => ReleaseTyped'
<1>1. /\ RunTyped(run[r]) /\ RunTyped(Stop(r, "error"))
      /\ tree \in Trees
  BY EndIsTyped DEF ReleaseTyped, BundlesInv
<1>2. ASSUME NEW candidate \in Candidates, StartRelease(r, candidate)
      PROVE  ReleaseTyped'
  <2> DEFINE new == [IdleRun EXCEPT !.pc = "first", !.candidate = {candidate}]
  <2>1. RunTyped(new)
    BY DEF RunTyped, IdleRun, ReleaseSteps, Single
  <2>2. bundle' = bundle /\ run' \in {[run EXCEPT ![r] = new], [run EXCEPT ![r] = Stop(r, "error")]}
    BY <1>2 DEF StartRelease, Goes
  <2> HIDE DEF new
  <2> QED
    BY <1>1, <2>1, <2>2, GoesTyped
<1>3. ASSUME BuildFirst(r)
      PROVE  ReleaseTyped'
  <2> DEFINE build == [tree |-> tree, noise |-> 0]
             new == [At(r, "second") EXCEPT !.first = {build}]
  <2>1. build \in Builds
    BY <1>1 DEF Builds
  <2>2. RunTyped(At(r, "second"))
    BY <1>1, AtTyped DEF ReleaseSteps
  <2>3. bundle' = bundle /\ run' = [run EXCEPT ![r] = new]
    BY <1>3 DEF BuildFirst, Goes, Unchanged
  <2> HIDE DEF build
  <2>4. RunTyped(new)
    BY <2>1, <2>2 DEF RunTyped, Single, IdleRun
  <2> HIDE DEF new
  <2> QED
    BY <2>3, <2>4, GoesTyped
<1>4. ASSUME NEW noise \in {0, 1}, CompareBuilds(r, noise)
      PROVE  ReleaseTyped'
  <2> DEFINE build == [tree |-> tree, noise |-> noise]
             new == [At(r, "validate") EXCEPT !.second = {build}]
  <2>1. build \in Builds
    BY <1>1 DEF Builds
  <2>2. RunTyped(At(r, "validate"))
    BY <1>1, AtTyped DEF ReleaseSteps, CreateSteps
  <2>3. bundle' = bundle /\ run' \in {[run EXCEPT ![r] = new], [run EXCEPT ![r] = Stop(r, "error")]}
    BY <1>4 DEF CompareBuilds, Goes, Unchanged
  <2> HIDE DEF build
  <2>4. RunTyped(new)
    BY <2>1, <2>2 DEF RunTyped, Single, IdleRun
  <2> HIDE DEF new
  <2> QED
    BY <1>1, <2>3, <2>4, GoesTyped
<1>5. ASSUME NEW exported \in {"hashed", "unhashed"}, ValidateBuild(r, exported)
      PROVE  ReleaseTyped'
  <2> DEFINE new == [At(r, "reset") EXCEPT !.evidence = {exported}]
  <2>1. RunTyped(At(r, "reset"))
    BY <1>1, AtTyped DEF ReleaseSteps, CreateSteps
  <2>2. bundle' = bundle /\ run' \in {[run EXCEPT ![r] = new], [run EXCEPT ![r] = Stop(r, "error")]}
    BY <1>5 DEF ValidateBuild, Goes, Unchanged
  <2>3. RunTyped(new)
    BY <2>1 DEF RunTyped, Single, IdleRun
  <2> HIDE DEF new
  <2> QED
    BY <1>1, <2>2, <2>3, GoesTyped
<1> QED
  BY <1>2, <1>3, <1>4, <1>5

LEMMA CreateTyped ==
    ASSUME BundlesInv, ReleaseTyped, NEW r \in Runs
    PROVE  /\ ResetBundle(r) => ReleaseTyped'
           /\ CopyPayload(r, "wheel", "sdist") => ReleaseTyped'
           /\ CopyPayload(r, "sdist", "evidence") => ReleaseTyped'
           /\ CopyEvidence(r) => ReleaseTyped'
           /\ InspectCopies(r) => ReleaseTyped'
           /\ WriteProvenance(r) => ReleaseTyped'
           /\ WriteManifest(r) => ReleaseTyped'
           /\ WriteSums(r) => ReleaseTyped'
<1>1. RunTyped(run[r]) /\ FilesTyped(bundle) /\ RunTyped(Stop(r, "error"))
  BY EndIsTyped DEF ReleaseTyped
<1>2. \A pc \in CreateSteps \cup {"verify"} : RunTyped(At(r, pc))
  BY <1>1, AtTyped DEF ReleaseSteps
<1>3. CreateSteps = {"validate", "reset", "wheel", "sdist", "evidence", "inspect",
                     "provenance", "manifest", "sums"}
      /\ Payloads = {"wheel", "sdist"}
      /\ FileNames = {"wheel", "sdist", "requirements", "sbom", "reproducibility",
                      "provenance", "manifest", "sums"}
  BY DEF CreateSteps, Payloads, FileNames, Evidence
<1>4. Single(run[r].first) /\ run[r].first \subseteq Builds /\ Single(run[r].evidence)
  BY <1>1 DEF RunTyped
<1>5. \A content : Single({content})
  BY DEF Single
<1>6. ResetBundle(r) => ReleaseTyped'
  BY <1>2, <1>3, NoneIsTyped, WritesTyped DEF ResetBundle
<1>7. ASSUME NEW name \in Payloads, NEW next \in CreateSteps, CopyPayload(r, name, next)
      PROVE  ReleaseTyped'
  <2>1. FilesTyped([bundle EXCEPT ![name] = run[r].first])
    BY <1>1, <1>3, <1>4, FileTyped
  <2> QED
    BY <1>2, <1>7, <2>1, WritesTyped DEF CopyPayload
<1>8. ASSUME CopyEvidence(r)
      PROVE  ReleaseTyped'
  <2> DEFINE new == [At(r, "inspect") EXCEPT !.first = {}, !.second = {}, !.evidence = {}]
             one == [bundle EXCEPT !["requirements"] = run[r].evidence]
             two == [one EXCEPT !["sbom"] = run[r].evidence]
             three == [two EXCEPT !["reproducibility"] = {Report(r)}]
  <2>1. FilesTyped(one)
    BY <1>1, <1>3, <1>4, FileTyped
  <2> HIDE DEF one
  <2>2. FilesTyped(two)
    BY <1>3, <1>4, <2>1, FileTyped
  <2> HIDE DEF two
  <2>3. FilesTyped(three)
    BY <1>3, <1>5, <2>2, FileTyped
  <2>4. RunTyped(new)
    <3>1. RunTyped(At(r, "inspect"))
      BY <1>2, <1>3
    <3> QED
      BY <3>1 DEF RunTyped, IdleRun, Single
  <2> USE DEF one, two
  <2>5. Writes(r, "evidence", new, three)
    BY <1>8 DEF CopyEvidence
  <2> HIDE DEF new, three
  <2> QED
    BY <2>3, <2>4, <2>5, WritesTyped
<1>9. ASSUME InspectCopies(r)
      PROVE  ReleaseTyped'
  <2> DEFINE new == [At(r, "provenance") EXCEPT
                 !.records = {[wheel |-> bundle["wheel"], sdist |-> bundle["sdist"]]}]
  <2>1. RunTyped(new)
    <3>1. RunTyped(At(r, "provenance"))
      BY <1>2, <1>3
    <3> QED
      BY <3>1 DEF RunTyped, IdleRun
  <2>2. bundle' = bundle /\ run' \in {[run EXCEPT ![r] = new], [run EXCEPT ![r] = Stop(r, "error")]}
    BY <1>9 DEF InspectCopies, Goes, Unchanged
  <2> HIDE DEF new
  <2> QED
    BY <1>1, <2>1, <2>2, GoesTyped
<1>10. ASSUME NEW name \in {"provenance", "manifest", "sums"}, NEW content,
              NEW from, NEW next \in CreateSteps \cup {"verify"},
              Writes(r, from, At(r, next), [bundle EXCEPT ![name] = {content}])
       PROVE  ReleaseTyped'
  <2>1. FilesTyped([bundle EXCEPT ![name] = {content}])
    BY <1>1, <1>3, <1>5, FileTyped
  <2> QED
    BY <1>2, <1>10, <2>1, WritesTyped
<1>11. WriteProvenance(r) => ReleaseTyped'
  BY <1>3, <1>10 DEF WriteProvenance
<1>12. WriteManifest(r) => ReleaseTyped'
  <2>1. Goes(r, "manifest", Stop(r, "error")) /\ Unchanged => ReleaseTyped'
    BY <1>1, GoesTyped DEF Goes, Unchanged
  <2> QED
    BY <1>3, <1>10, <2>1 DEF WriteManifest
<1>13. WriteSums(r) => ReleaseTyped'
  BY <1>3, <1>10 DEF WriteSums
<1> QED
  BY <1>3, <1>6, <1>7, <1>8, <1>9, <1>11, <1>12, <1>13

LEMMA CheckedTyped ==
    ASSUME BundlesInv, ReleaseTyped, NEW r \in Runs
    PROVE  /\ \A command \in {"verify", "gate"} : \A candidate \in SUBSET Candidates :
                  StartVerify(r, command, candidate) => ReleaseTyped'
           /\ VerifyBundle(r) \/ WriteGate(r) \/ KillRelease(r) => ReleaseTyped'
<1>1. RunTyped(run[r]) /\ RunTyped(Stop(r, "error")) /\ RunTyped(Stop(r, "none"))
  BY EndIsTyped DEF ReleaseTyped
<1>2. RunTyped(At(r, "gate")) /\ RunTyped(Ends(r))
  BY <1>1, AtTyped DEF ReleaseSteps
<1>3. ASSUME NEW command \in {"verify", "gate"}, NEW candidate \in SUBSET Candidates,
             StartVerify(r, command, candidate)
      PROVE  ReleaseTyped'
  <2>1. RunTyped([IdleRun EXCEPT !.pc = "verify", !.command = command,
                                 !.candidate = candidate])
    BY DEF RunTyped, IdleRun, ReleaseSteps, Single
  <2> QED
    BY <1>3, <2>1, GoesTyped DEF StartVerify, Goes
<1>4. ASSUME VerifyBundle(r)
      PROVE  ReleaseTyped'
  <2>1. bundle' = bundle
        /\ run' \in {[run EXCEPT ![r] = Stop(r, "error")], [run EXCEPT ![r] = At(r, "gate")],
                     [run EXCEPT ![r] = Ends(r)]}
    BY <1>4 DEF VerifyBundle, Goes, Unchanged
  <2> QED
    BY <1>1, <1>2, <2>1, GoesTyped
<1>5. ASSUME WriteGate(r)
      PROVE  ReleaseTyped'
  <2> DEFINE new == [Ends(r) EXCEPT !.gate = bundle["manifest"]]
  <2>1. RunTyped(new)
    BY <1>2 DEF RunTyped, IdleRun
  <2>2. bundle' = bundle /\ run' = [run EXCEPT ![r] = new]
    BY <1>5 DEF WriteGate, Goes, Unchanged
  <2> HIDE DEF new
  <2> QED
    BY <2>1, <2>2, GoesTyped
<1>6. ASSUME KillRelease(r)
      PROVE  ReleaseTyped'
  BY <1>1, <1>6, GoesTyped DEF KillRelease, Unchanged
<1> QED
  BY <1>3, <1>4, <1>5, <1>6

LEMMA ReleaseTypes ==
    /\ ReleaseInit => ReleaseTyped
    /\ BundlesInv /\ ReleaseTyped /\ [ReleaseNext]_releaseVars => ReleaseTyped'
<1>1. ReleaseInit => ReleaseTyped
  BY NoneIsTyped DEF ReleaseInit, ReleaseTyped
<1> SUFFICES ASSUME BundlesInv, ReleaseTyped, [ReleaseNext]_releaseVars PROVE ReleaseTyped'
  BY <1>1
<1>2. ASSUME NEW r \in Releases,
             \/ \E candidate \in Candidates : StartRelease(r, candidate)
             \/ BuildFirst(r)
             \/ \E noise \in {0, 1} : CompareBuilds(r, noise)
             \/ \E exported \in {"hashed", "unhashed"} : ValidateBuild(r, exported)
             \/ ResetBundle(r)
             \/ CopyPayload(r, "wheel", "sdist") \/ CopyPayload(r, "sdist", "evidence")
             \/ CopyEvidence(r) \/ InspectCopies(r)
             \/ WriteProvenance(r) \/ WriteManifest(r) \/ WriteSums(r)
      PROVE  ReleaseTyped'
  <2>1. r \in Runs
    BY DEF Runs
  <2> QED
    BY <1>2, <2>1, BuildsTyped, CreateTyped
<1>3. ASSUME NEW r \in Checks,
             \/ \E candidate \in {{c} : c \in Candidates} \cup {{}} :
                    StartVerify(r, "verify", candidate)
             \/ \E c \in Candidates : StartVerify(r, "gate", {c})
      PROVE  ReleaseTyped'
  <2>1. r \in Runs
    BY DEF Runs
  <2> QED
    BY <1>3, <2>1, CheckedTyped
<1>4. ASSUME NEW r \in Runs, VerifyBundle(r) \/ WriteGate(r) \/ KillRelease(r)
      PROVE  ReleaseTyped'
  BY <1>4, CheckedTyped
<1>5. ASSUME NEW i, ChangeTree(i) PROVE ReleaseTyped'
  <2>1. \A r \in Runs : RunTyped(Overtaken(run[r]))
    BY OvertakenTyped DEF ReleaseTyped
  <2>2. bundle' = bundle /\ run' = [r \in Runs |-> Overtaken(run[r])]
    BY <1>5 DEF ChangeTree
  <2> QED
    BY <2>1, <2>2 DEF ReleaseTyped
<1>6. CASE UNCHANGED releaseVars
  BY <1>6 DEF releaseVars, ReleaseTyped
<1> QED
  BY <1>2, <1>3, <1>4, <1>5, <1>6 DEF ReleaseNext

LEMMA ReleaseIsTyped == BundlesInv /\ ReleaseTyped => ReleaseTypeOK
<1> SUFFICES ASSUME BundlesInv, ReleaseTyped PROVE ReleaseTypeOK
  OBVIOUS
<1>1. ASSUME NEW name \in FileNames PROVE Cardinality(bundle[name]) <= 1
  <2>1. Single(bundle[name])
    BY DEF ReleaseTyped, FilesTyped
  <2>2. CASE bundle[name] = {}
    <3>1. Cardinality(bundle[name]) = 0
      BY <2>2, FS_EmptySet
    <3> QED
      BY <3>1
  <2>3. CASE \E content : bundle[name] = {content}
    <3>1. Cardinality(bundle[name]) = 1
      BY <2>3, FS_Singleton
    <3> QED
      BY <3>1
  <2> QED
    BY <2>1, <2>2, <2>3 DEF Single
<1>2. tree \in Trees /\ FilesTyped(bundle) /\ \A r \in Runs : RunTyped(run[r])
  BY DEF BundlesInv, ReleaseTyped
<1> QED
  BY <1>1, <1>2 DEF ReleaseTypeOK, FilesTyped, RunTyped, ReleaseSteps

=============================================================================
