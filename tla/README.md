# HumanHand: TLA+ models and proofs

HumanHand is a command line program. A user imports documents into a local
*project*, lets deterministic rules propose lexical edits, reviews the edits
one by one, and applies the accepted ones; every accepted text becomes a new
revision. Beside the project there is a *style vault* with writing samples and
a log of review decisions about them. There is no server: whatever runs
concurrently is several invocations of the program over the same directory,
and whatever fails is an invocation that stops between two of its steps.

This directory holds TLA+ models of that program, the TLC configurations that
check them on small instances, and proofs for TLAPS. `PROJECT.json` maps every
definition that models code to the source lines it stands for. Paths below are
relative to the package, `src/humanhand/`.

## 1. Inventory

State is what outlives a command. "Hard" is what a unit test hardly reaches.

| Component | State | Operations | Hard | What makes it correct |
|---|---|---|---|---|
| Project store: `infra/stores/project_store.py`, `integrated_project_store.py`, `project_schema.py` | SQLite `project.db`: projects, documents, revisions, revision contents, claims/entities/relationships, protected spans, approvals | `atomic`, `ensure_project`, `add_document`, `save_*`, `current_revision`, `record_approval`, `bind_style_profile`, ... | rows of one command are written by many statements; checks made on rows read earlier | revisions form one chain; rows of a command are all there or not at all; nothing committed is changed |
| Revisions: `domain/revisions.py` | none (values) | initial, propose, accept, reject | acceptance against an expected state that has moved | a revision names its predecessor |
| Project opening: `infra/stores/project_layout.py`, `migration_runner.py`, `cli/project_commands.py` | `project.toml`, schema version and tables of the database, backup file | make the layout, read the name, migrate on open | two processes open an old database; both make the layout; backup against a migration in progress | version and schema agree; a command works on the schema it asked for |
| Integrated workflow: `application/integrated_workflow.py`, `cli/workflow_commands.py` | the database, `<run>.proposal.json`, `<run>.review.json` | `ingest`, `bind-style`, `context`, `propose`, `decide`, `apply`, `status`, `export` | read, compute, then write under a lock taken late; several queries outside a transaction; files rewritten in place | applies never fork or overwrite; edits are those a human accepted for that text; spans fit the text |
| Project commands: `cli/project_commands.py`, `domain/project.py` | the project directory and its database | `init`, `ingest`, `status`, `revisions`, `export-obsidian` | a second way to ingest, with its own project id | one project per directory |
| Lexical proposal and review: `domain/lexical_normalizer.py`, `lexical_review.py`, `revision_transform.py` | none (values in the files above) | propose, decide, apply review, transform nodes, rebase spans | run identity shared by equal texts; offset arithmetic | accepted edits, and only those, change the text; protected text unchanged |
| Finalize journal: `cli/finalization_commands.py` | proposal file, review history in JSON | `lexical`, `review`, `accept`, `reject` | read, append, rewrite without a lock | only an overlapping command drops a decision |
| Context capsule: `domain/context_capsule.py`, `context_policy.py`, `cli/context_commands.py` | none; the printed capsule is the user's file | preview under limits, validate | five lists cut in one place and bounded in another; a torn read | what was printed validates, what was edited does not |
| Style vault: `infra/stores/style_vault.py`, `application/style_services.py`, `cli/style_commands.py`, `domain/style_authorship.py` | `originals/`, `packages/`, `decisions.jsonl` | store once, append decision, replay, review, build profile | lock-free creation, appends and replays; crash in an append | nothing stored is overwritten; the latest decision wins |
| Style profiles: `domain/style_profiles.py`, `style_coverage.py`, `style_compare.py`, `style_invariants.py`, `style_metrics.py` | none | aggregate, reconcile, compare | numeric edges; a status corrected afterwards | complete only when all is reviewed and suffices; no outliers are listed only where there are none or the mean and deviation speak |
| Import pipeline: `application/import_services.py`, `infra/importers/`, `cli/import_commands.py` | packages of imported sources | inspect, import, ingest | the file changes between the looks at it | what is stored was itself checked |
| Parser sandbox: `infra/sandbox/parser_supervisor.py`, `parser_worker.py` | a worker process | spawn, send, await, kill | timeout against a late answer, oversized or garbled envelope | the caller gets one verdict, and in time |
| Rewrite loop and LLM client: `application/services.py`, `infra/llm.py`, `domain/repair.py`, `domain/facts.py` | none across commands | rewrite, check, repair, retry | nested bounded retries; an answer that never stops coming in | bounded calls; a returned text kept its facts, or the failure is reported |
| Detector cache: `infra/cache.py`, `cli/app.py` (verify, health), `infra/detectors/` | SQLite scores at a configured place | get, detect, put; make the directory | other processes store scores and rewrite the file meanwhile; the place changes its kind | an answer is the detector's for the very text that was read |
| Export and audit: `infra/exporters/`, `infra/auditors/`, `cli/export_commands.py`, `cli/audit_commands.py` | exported files | render, publish, audit | published before audited; two exports of one path | "ok" is said of bytes that hold the document |
| Beacon: `cli/beacon_commands.py`, `domain/beacon_*.py`, `infra/beacon/` | snapshots, records, proposals, decision log, policy files | run, report, sources, propose, review, approve, deny | an investigation in two files; the policy changes between and during commands | what ran is reported; approved only on evidence and by a policy that allows |
| Beacon research client: `infra/beacon/xai_research_client.py` | none | research | retries over any mixture of faults | no request without permission; it ends, unless an answer never does |
| Obsidian projection: `infra/project/obsidian_projection.py` | a directory of the user's | conflict check, write | others edit the directory between check and write; a kill in the middle | refused only for cause; complete when it says so |
| Privacy runtime: `infra/privacy/`, `infra/stores/encrypted_*.py`, `domain/retention.py` | the form, plain or sealed, of every row and artifact | resolve the mode, encode, decode, doctor | commands of different modes over the same files | ciphertext is never taken for text; one form per document |
| Release bundle: `scripts/build-release-bundle.sh`, `scripts/release_bundle.py` | the bundle directory, the checked-out tree | build twice, compare, create, verify, gate | one directory for all runs; a tree that changes | what is accepted is one sound build made twice |
| Text files, scrubbing: `infra/files.py`, `domain/scrub.py` | files | read, scrub, write | scrubbing after the check of the facts | no fact is lost unnoticed |
| Scanner commands; command line, configuration, output, logging | report file | - | - | characters and wording; no control of their own |

How they interact: the commands open the project (layout, name, migration) and
call the workflow, which calls the store inside `store.atomic()`; the proposal
and review files are shared by `propose`, `decide` and `apply` and name the
run, a digest of the text and its proposed changes; `context` and `propose`
read the style label bound to the project, which names a profile in the vault;
`import style` writes the vault that the `style` commands review; `workflow
export` renders, publishes and audits; every workflow command first resolves
the privacy mode, which decides in what form the store and the vault read and
write. All sharing is through the database and files; there are no callbacks or
threads. `BEGIN IMMEDIATE` is the only mutual exclusion. Three commands wait for
another process: a rewrite for the language model, an import for its worker, a
research call for its endpoint.

## 2. Plan

Done, in the order of importance:

1. the revision log and the commands that write it (`RevisionLog`,
   `ProjectStore`, `ProjectWorkflow`), then the other store that several
   processes write (`StyleVault`);
2. the commands that wait for another process (`RewriteLoop`, `ImportPipeline`,
   `ResearchClient`, composed in `MCServices`);
3. the files that commands share without a lock (`ProjectOpening`,
   `FinalizeJournal`, `ExportAudit`, `Beacon`, `DetectorCache`,
   `ObsidianProjection`, `ReleaseBundle`) and the forms they are kept in
   (`PrivacyModes`);
4. the algorithms whose result a later command relies on (`StyleProfile`,
   `ContextCapsules`); 3 and 4 are composed in `MCCommands`;
5. the proofs, in eight modules (section 5): every invariant and action property
   of the passing runs, and the refinement.

Left, each with what it would add:

- the precedence of the lexical rules and the offset arithmetic of the node
  transform, as functions against a reference; `Aligned` and `Rebased` of
  `ProjectWorkflow` would get the arithmetic they abstract from;
- the graded strengths of style tendencies and the metrics no comparison uses;
- encrypted lines of the decision log, and half lines of the beacon's;
- abstract specifications of the vault (a map from packages to decisions) and of
  the bundle directory, and refinements of `StyleVault` and `ReleaseBundle` to
  them, as `RevisionLog` is one of the project store.

## 3. Modules

### `RevisionLog` - the abstract specification

What a reader of accepted revisions may rely on: for each document a log of
texts that grows at its end, one text per step. `Import` starts it,
`Finalize(d, edits)` appends the last text with more edits, and none of them
is an edit of a protected fragment.

### `ProjectStore` - rows and store methods

One record field per table; each store method is an operator from a database
to a database, and `Can...` says when it does not raise. `SaveRevision` and
`CanSaveRevision` are `save_revision` with its head check, the primary key and
the unique `(document_id, token)` index; `SaveContent` is the idempotent
`save_revision_content`; `InitialRevision`, `ProposeNext`, `CanAccept` and
`AcceptRevision` are the values of `domain/revisions.py`.

Abstractions:

- A text is its imported source with the set of edits applied to it. Its
  sha256 is the text itself: the hash is taken to be injective.
- `rev-<n>` is the number `n`; 0 is a NULL parent.
- The protected spans of a document are represented by the length-changing
  edits their stored offsets account for (`Shifting`). They lie on a text
  exactly when these are the length-changing edits of the text (`Aligned`).
  Offsets of an older text therefore differ from those of a newer one, which
  is all the properties need.
- Claims, entities and relationships are written together by both ingests and
  read by nothing modelled, so they are one flag.

### `ProjectWorkflow` - concurrent commands

Each client is an invocation of `workflow ingest | bind-style | context |
propose | decide | apply` or `project ingest`. `pc` is its next step and `loc`
its local variables.

| Code | Actions |
|---|---|
| `ingest_source_package` | `IngestCheck` (the look-up before the transaction), `IngestTx` |
| `project_ingest_cmd` | `ProjectIngestTx` (look-up inside; id of any spelling of the root; no content) |
| `bind_style_cmd` | `BindStyleCmd` (one autocommitted UPDATE) |
| `load_document_state` | `LoadRevision`, `LoadSpans`: two queries with no transaction around them |
| `context_cmd` | `StartContext`, load, `Show` |
| `propose_cmd` | `StartPropose`, load, `BuildProposal` (truncates the file), `WriteProposal` |
| `decide_cmd` | `ReadReview`, `TruncateReview`, `WriteReview` |
| `apply_cmd`, `finalize_reviewed_revision` | `StartApply` (reads both files), load, `ReadProfile`, `Finalize` |
| `store.atomic()` | `Stage` (takes the lock, writes into `staged`), `Commit`, `Abort` |

Atomicity follows the code. A transaction is two steps, so that the others read
the committed database and a crash may strike while it is open. Queries outside
a transaction are separate steps when what they read can change in between;
document rows, revisions and contents never change once written (a theorem
below), so their three reads are one step. `Path.write_text` truncates, then
writes; a writer that finds bytes of another one in its file may leave a mixture
that does not parse. `Abort` is a refusal, an error, a busy database or a
crash, after any step.

A proposal built from a text and the spans of another revision may contain any
edit (`Proposable`): misplaced spans may hide or expose any of them.

`approved` is a history variable: which edits some `decide` accepted. The
opened database is already migrated; what opening does to an older one is in
`ProjectOpening`.

### `StyleVault`

`import style` is `StartImport`, `StoreOriginal`, `CheckPackage`,
`LinkPackage` (`os.link` fails when another import was faster). A review is
`LoadEffective`, then for each span `AppendDecision` (or `CrashInAppend`, which
leaves a cut line, or a whole line without its newline) and `ReplayDecisions`,
which folds the log over the package the review holds. Each is a step; there is
no lock in the code. Package content is one value that names its original; the
authorship classes are `voice`, `other`, `excluded` and `unknown`, which is all
replay and review tell apart. The form of stored evidence is in `PrivacyModes`,
what a profile makes of it in `StyleProfile`.

### `RewriteLoop`

One `rewrite` command against a service and a file system that answer as they
like. `Start` stands for all checks before the first request; `Post`,
`Retryable`, `Refused` and `Answered` are `OpenAiLlmClient.rewrite`; `Decide`
is the loop of `rewrite` with `decide_repair` (`Decision`); `Truncate`, `Write`
and `WriteRefused` are `write_clean_text` with the scrubber (`Scrubbed`);
`Report` is the end of `rewrite_cmd`; `Killed` may strike anywhere. `Trickles` is
a response that keeps coming in, a little at a time: `httpx.Timeout` bounds the
inactivity of each connect, read and write (`http.py:99`) and not the request, so
`post()` may wait for such a response for ever. A returned
text is what the decision and the writer tell apart: how many of the source's
fact anchors it matches, whether a match differs, whether it has one of its
own, and whether a match stands in a passage the scrubber removes. The score is
compared as integers (`100 * matched >= 85 * total`; the rounding to four
digits matters only beyond a thousand anchors, where the omission rule refuses
anyway). `audit_text` always reports zero modifications, so the branch of
`decide_repair` on more than ten of them is dead and not modelled. `posts`
counts requests and is a history variable.

### `ProjectOpening`

`openPc` is how far a command has come: `layout`, `truncate` and `name` are
`init_layout` (look for `project.toml`, truncate it, write it), `gate` reads the
name back, `version` is `apply_migrations` up to the next goal of the command
(2 for `project`, 2 and 3 for `workflow`), `copy` and `copied` the backup, then
`migrate` per version and `open`. A migration is one transaction of SQLite,
hence one step (`Migrate`); its guard `CanMigrate` is that the tables and the
version row are not there yet. The backup is a plain file copy: whole, or torn
when a commit falls into it. `OpeningEnds` is any refusal or crash. It starts
from an empty directory or from any older version.

### `FinalizeJournal`

`accept` and `reject` as `ReadProposalFile`, `ReadJournal`, `TruncateJournal`,
`WriteJournal`; `lexical` truncates and rewrites the proposal of the same run.
A shorter text over a longer one leaves its tail (`Overwritten`), and neither a
cut nor a mixed file is `Readable`. `recorded` (what the last command that
reported success had recorded) and `overtaken` (another one wrote since this
one read) are history variables.

### `ImportPipeline`

The import command (`MeasureFile`, `ReadHead`, `ReadFile`, `Identify`,
`SpawnWorker`, `DecideImport`), its worker (`WorkerParses`, `WorkerFails`,
`WorkerGarbles`, `WorkerExits`, `WorkerDies`) and the supervisor
(`TimeoutWorker`, `CannotSpawn`, `Collect`, together with the command's steps
`Supervised`), while `SaveFile` replaces the file at any moment. The bytes are
known by what the checks ask: larger than the limit or not, and the kind their
magic shows. `PrecheckFindings` and `Status` are the classification, in the
order of its rules. What a parser finds in the text is any set of findings; the
parsers themselves convert data.

### `ResearchClient`

One call: `Research` passes or fails all gates (test mode or live, network
permission, a model, retention); `Request(response)` is one attempt with
whatever the endpoint does; only transient failures are tried again.
`ResponseTrickles` is a response that keeps coming in, as in `RewriteLoop`.

### `DetectorCache`

Several `verify` commands as `Verify` (refusals, the text, the location of the
database as it is then), `Get`, `AskDetector`, `Put`; `Health` makes the
directory; `Rewritten` changes the file. A text is the features the local
heuristic reads and `Detect` is its weighted score, in 30000ths so that it is an
integer. `place` and `named` are what is at the configured location and what its
name looks like: what exists decides first (`ResolveDbPath`).

### `ExportAudit`

`StartExport`, `RenderDocument`, `WriteTemporary`, `ReplaceOutput` and, for the
workflow command, `AuditExport`; `AuditFile` is a plain audit of the same path;
`KillExport` leaves the temporary file. A text, as title or as section, is known
by what the auditors make of it (`Texts`, sixteen kinds: white space only, a
prohibited term, an active construct, the heading "## Claims", a CR, a byte order
mark, a newline at the end, ...). `Shown` is what every exporter renders, which
leaves out a title of white space, and `Renderings` the files that a format may
make of it: one, except that the PDF library may break a `Fragile` text.
`MissingSections` is the ordered search of the content check, with white space
found in any text that holds it (`Within`), `TitleMissing` each auditor's own
search for the title, which looks for a title of white space as well although it
was not rendered, and `TextOf` the second unescaping and the line ends of the DOCX
auditor's text.

### `Beacon`

An investigation is `WriteSnapshot`, then `WriteRecord`; a proposal is one
write-once file (`StoreProposal`), reviewed or not; `approve` is `ReadAllowed`,
`ReadBlocked` and `AppendDecision`, and the bundled policy may be upgraded
between any two of them. `under` (the policies a decision was taken under) is a
history variable.

### `PrivacyModes`

Each action is a whole command under an environment (mode, key, test provider
allowed) chosen anew. What matters of a stored value is its form: `none`,
`plain`, or sealed with the key of a provider. `FormOf` is what the resolved
runtime writes, `Decodes` what its field codec accepts, `VaultDecodes` what the
vault accepts; the older commands (`ProjectIngest`, `LegacyRead`, `ImportStyle`,
`ReviewStyle`) have no key provider in any mode. `last.read` is what a command
took for text (a history variable). Cryptography is external: an envelope opens
with its own key and no other.

### `ObsidianProjection`

`StartProjection` lays the notes out (`Files`, `UniqueSlugs`), `CheckNote` is
the conflict check of one file, `SkipNote` and `WriteNote` the loop that writes;
`UserEdits` saves or deletes any note at any time and `StopProjection` is a
fault or a kill. A slug is the sequence of its words, so that a heading
"intro 1" meets the numbered name of a repeated "intro".

### `ReleaseBundle`

A release is `StartRelease`, `BuildFirst`, `CompareBuilds`, then `create` as
`ValidateBuild`, `ResetBundle`, `CopyPayload` (twice), `CopyEvidence`,
`InspectCopies`, `WriteProvenance`, `WriteManifest`, `WriteSums`, and its own
`VerifyBundle`; a check is `StartVerify`, `VerifyBundle` and, for a gate,
`WriteGate`. `ChangeTree` is a checkout or an edit. A tree is the
commit that is HEAD and what was edited on top without a commit: nothing, files
that an archive takes in, or a path that no archive may have. Only the last is
found by an inspection (`Sound`), and the script compares HEAD alone. A digest is
the bytes it is taken of; what a build depends on is the tree and whether it is
reproducible.
`mixed` is a history variable: another run wrote into the bundle, or the tree
changed, since this command began. `VerifyBundle` reads all files in one step:
of an answer given while others write, no property claims anything.

### `StyleProfile`

`ShowProfile` builds the profile of a label from its packages as they are
reviewed at that time, `CompareDocument` also compares a text with it, `Review`
changes the class of one span. A text is a sequence of words with the mark
behind each and the gap before the next: one space, a blank line, or other white
space (`wrap`: the end of a line, a tab, two spaces), which the search for
preferred terms tells from one space. `AggregateCoverage` and `ReconcileSufficiency` are the two stages
of coverage; metrics are exact ratios, so that zero denominators are visible.

### `ContextCapsules`

`Preview` assembles a capsule (`Payload`) from a package, a block and the
revision of its document, with the five cut lists; `EditFile` is the user's
editor; `Validate` derives the id anew and checks the limits.

### MC modules

`MCProjectWorkflow` and `MCStyleVault` define the symmetry sets and
`SourceOf`/`ArtifactOf`. Symmetry is over clients, packages and contents,
which no definition tells apart; `ProjectIds` and `Changes` are not symmetric
(`Canonical`, `Shifting`, `Guarded`).

`MCServices` and `MCCommands` put components that share no state into one
instance: `about` says which of them a behaviour is about, and the others stay
as they are. A state of the instance is thus a state of one component, the
state space is the sum of the components' and not their product, and a property
of a component is checked over exactly its own behaviours. `MCCommands` also
defines the data of the instance (packages, policies, checkouts, documents, texts).

No run with symmetry checks liveness.

## 4. Runs

| Run | Instance | Checks | Shows |
|---|---|---|---|
| `Workflow` | 2 clients, 1 document, an edit `x` that shifts a span, an edit `g` inside one, 3 revisions, 2 runs | `TypeOK`, `RevisionChain`, `SpansOnHead`, `OneApprovalPerRevision`, `HistoryOnlyGrows`, `ImplementsRevisionLog` | Two applies computed from one state, torn reads, proposals built from them and crashes anywhere do not fork the chain or move the spans |
| `WorkflowSequence` | 1 client, 2 documents of equal text, 2 edits, 3 revisions, 3 runs | `EditsReviewed`, `RunAppliedOnce` | Sequences of whole and interrupted commands: shared run ids never carry an approval to another text |
| `WorkflowIngest` | 2 clients, 2 documents, 2 project ids, 1 label | `IngestAllOrNothing` | Both ingests race; all rows or none |
| `ContextTorn` | as `Workflow`, with `context` | `ContextConsistent` violated | see Findings |
| `DecisionLost` | 2 clients, 2 edits | `DecisionsKept` violated | see Findings |
| `SplitProject` | 2 spellings of the root | `OneProjectPerRoot` violated | see Findings |
| `Vault` | 2 clients, 2 packages, 2 contents, 3 spans (one quoted), 2 log lines | `TypeOK`, `StoredOnce`, `PackageHasOriginal`, `LatestDecisionWins`, `ViewExplained`, `DecisionsOnlyGrow` | Lock-free imports and reviews with crashes |
| `VaultExclusion` | 1 client, 2 spans, 3 lines | `RecordedDecisionReturns` violated | see Findings |
| `Services` | the limits of the code: 3 repairs, 3 attempts, 3 research attempts; 7 anchors; 4 declared kinds, 3 magics | `ServicesTypeOK`, `CallsBounded`, `OutputOnlyForFaithful`, `OnlyCheckedKept`, `Terminates`, `ImportEnds`, `ResearchEnds` | Every mixture of answers leads a rewrite to no more than 12 requests, and only an accepted text touches the file; an import ends although its worker hangs, and stores only what was itself checked; a rewrite and a research call end, or hang in an answer that never stops |
| `Commands` | 2 processes of each kind and one check of the release; data below | `CommandsTypeOK`; `SchemaMatchesVersion`, `OpenedIsMigrated`; `OnlyOverlapDrops`; `OkHasContent`, `FailsForCause`; `RanIsReported`, `ApprovalsJustified`; `AnswersAreDetections`; `WorkflowReadsText`, `OneForm`; `RefusedForCause`, `OkIsComplete`; `AcceptedIsReproduced`, `AloneIsOfItsTree`; `CompleteIsEarned`, `SilenceMeansUsual`; `PrintedValidates` | What commands that nothing waits for promise, whoever else works on the same files, wherever one is killed |
| `RepairDiscarded` | the limits of the code | `DriftIsDrift` violated | see Findings |
| `ScrubLosesFacts` | the limits of the code | `ScrubKeepsFacts` violated | see Findings |

What the properties of `Services` and `Commands` say, beyond their names:

- `SchemaMatchesVersion`, `OpenedIsMigrated`: of two commands that both found an
  old version, the version rows are those of the scripts that ran, each once;
  whoever opens has at least the schema it asked for.
- `OnlyOverlapDrops`: a recorded decision disappears only through a command that
  had read the history before it was recorded.
- `OkHasContent`: a workflow export says "ok" only of bytes that hold its own
  sections in order, also when another export replaced the file; `FailsForCause`:
  the audit of an export's own bytes refuses every document listed in
  `Unexportable`, and another one only if its PDF has a `Fragile` text, which the
  layout may not give back.
- `RanIsReported`: what `beacon run` answered for is found by `beacon report`.
  `ApprovalsJustified`: an approval stands on evidence, on an unblocked stored
  proposal and on a policy that allows it, although the two halves of the policy
  may have been read from different versions.
- `AnswersAreDetections`: an answer of `verify`, cached or not, is what the local
  detector says of the text that was read.
- `WorkflowReadsText`, `OneForm`: over any sequence of modes, ciphertext is never
  taken for text, and a document keeps the form it was ingested in.
- `RefusedForCause`: a projection is refused only over a note of the user's or a
  whole note of another package, so a killed one can be repeated;
  `OkIsComplete`: an undisturbed success leaves every note.
- `AcceptedIsReproduced`: what `verify` or a gate accepts, undisturbed, is one
  build made twice alike, without a forbidden path; `AloneIsOfItsTree`: a release
  left alone bundles builds of the tree it found, uncommitted edits included, and
  names the commit that was HEAD there. That the tree is that commit is not
  claimed, and not true (see Findings). Runs that another run overlaps, or whose
  tree changes meanwhile, are `mixed` and exempt from both: the code does nothing
  for them, and the race of the gate that hashes the manifest again is of this kind.
- `CompleteIsEarned`: a profile is complete exactly when every span is reviewed,
  nothing was lost and the words suffice; `SilenceMeansUsual`: the outlier rule is
  off where the profile has no deviation, and whoever is told of no outlier and of
  no distance in mean and deviation has a document all of whose sentences are
  within two deviations of the mean. Of the paragraphs nothing like it holds: what
  the guard hides of them shows in no metric.
- `PrintedValidates`: a capsule file validates exactly when it is what preview
  printed.
- `OnlyCheckedKept`: whatever version is saved during an import, what is stored
  was itself within the limit and of its kind.

Bounds. `MaxToken` bounds the revisions of a document: 3 lets two finalizations
follow the ingest, so an apply can meet a head that is one finalization ahead
and a run can be applied twice. With
the one applicable edit of `Workflow` one of the two leaves the text as it is
(everything rejected); two finalizations that both change the text happen in
`WorkflowSequence`, and for every number of them in the proofs. `MaxRuns` bounds proposal files: 2 lets a
proposal for an old text lie beside one for the new text; 3 also lets one
document go ahead of another with the same text. `MaxLines` bounds the decision log: 2
gives two decisions on one span by two reviews, a cut line followed by another,
and a batch of two spans. `Invoked` limits the commands of a run to those its
question is about; together the passing runs invoke all of them. Two clients
suffice for the races here because every check-then-act pair in the code
involves one late writer and one that came between. Seven
anchors are the fewest of which one may be missing at a threshold of 0.85; the
limits of `Services` are those of the code. In `Commands`: `MaxEntries` 2 lets a
history be shorter than, as long as and longer than the one it is written over;
`MaxDecisions` 1 lets a ruling of each kind end, and its policy change while it
is under way (the log is only ever appended to); `MaxRevisions` 3 lets two
applies follow an ingest under other modes. `Checkouts` has a commit with
edited files, the same commit with a forbidden path, and the next commit clean.
`Documents` has every kind of text, as a title or a section of some document.
`Labels` has texts that suffice only together, one with a lost feature, one
without spans. With `BlockWindow` and
`MaxListed` 1, and packages that have more, every list is cut. `MinWords` 4 is
reached by two samples and by neither alone. The theorems do not depend on these
numbers for the properties they state.

A client of the project and of the vault starts a new command whenever it is
idle, so no state is a deadlock and these runs leave the deadlock check on. A
rewrite that is not held up, a release, an export and a verification end, so the runs `Services`,
`Commands` and the two about the rewrite turn the check off.

**Fairness.** `Services` assumes weak fairness of the command's own steps:
`Running` of the rewrite, `Supervised` of the import, the request of the
research client. The process is scheduled, and a wait in which nothing happens
ends: the HTTP clients are built with a timeout, which bounds the inactivity of
each operation, and the supervisor waits for its worker by the clock. A response
that keeps coming in is the exception: nothing is assumed of a command in
`trickle`, and `Terminates` and `ResearchEnds` say that it ends or stays there.
Which answer comes, and whether the worker ever does anything, is left
open; being killed is not part of the fair steps. In the other modules every
process is a command that may be interrupted at any step and nobody waits for
it, so nothing has to happen and all properties are safety properties. The busy
timeout of SQLite is a refusal (`Abort`).

Each property of a passing run has a mutant: a named operator in the model
(`Mutant:` in its comment) that changes one definition the way a bug would, and
makes that property fail in that run.

## 5. Proofs

Every invariant and every action property that a passing run checks is stated by
a theorem, for every value of the constants, except `SilenceMeansUsual`; the
liveness properties are not.

| Module | About |
|---|---|
| `ProjectWorkflowProofs` | the store methods, the project and its reviews |
| `StyleVaultProofs` | the vault and the replay of its log |
| `ServicesProofs` | the rewrite, the import, the research call, and `MCServices` |
| `ProjectFilesProofs` | project opening, finalize journal, privacy modes |
| `SharedFilesProofs` | detector cache, release bundle, beacon |
| `ArtifactProofs` | profiles, capsules, exports, vault notes |
| `CommandsProofs` | the composition `MCCommands` of the last three |
| `RecursionLemmas` | induction and recursion over data, for the others |

A theorem is about the component's own specification (`Spec`, `OpeningSpec`,
`ReleaseSpec`, ...) unless it says otherwise; `PartsAsSpecified` carries it to the
composition that the run checks.

### The project

The theorems about the project hold for all sets of clients,
documents, edits, labels and project ids, and every value of the bounds, under
`StoreAssumption` (edits classified within `Changes`, every document has a
source, NULL values are not values), `RunAssumption` and `ClientAssumption`
(the canonical id is an id, `Nobody` is not a client).

| Theorem | States |
|---|---|
| `TypeCorrect` | `Spec => []TypeOK` |
| `RevisionsAreAChain` | `[]RevisionChain` |
| `SpansStayOnHead` | `[]SpansOnHead` |
| `GuardedStayUntouched` | `[]GuardedUntouched`: no accepted text has an edit of a protected fragment |
| `ContentsMatchRevisions` | `[]ContentMatches`: a stored text is the one its revision hashes |
| `ApprovalsNameRevisions` | `[]OneApprovalPerRevision` |
| `IngestIsAtomic` | `[]IngestAllOrNothing` |
| `HistoryGrows` | `HistoryOnlyGrows`, an action property |
| `Refinement` | `ImplementsRevisionLog`: the concurrent system implements `RevisionLog` |
| `OnlyReviewedEdits` | `[]EditsReviewed`: every edit of an accepted text was accepted by a human in the run that wrote it |
| `RunsAreSpent` | `[]RunAppliedOnce`: a run is applied to one text only |

The argument. `RevisionChain` is not inductive: a commit publishes `staged`,
so the invariant must speak of it, and a finalization writes a revision it
computed from a row loaded long before, so it must speak of local variables.

    IInv == TypeOK /\ OneWriter /\ Sound(db) /\ Sound(staged)
            /\ OneTransaction(db, staged) /\ \A p : Working(p)

`Sound` says per document that the tokens are exactly 1 to the number of
revisions and form a chain; contents belong to revisions; every text has the
imported source, no guarded edit, and the spans lie on the last one; the
approvals run parallel to the revisions; the rows of an ingest go together.
`OneTransaction(s, t)` says `t` is `s` with nothing withdrawn and at most one
revision added at the end. `Working(p)` is what a process in the middle of a
command relies on: the row it loaded is still a revision of a document of the
canonical project. It survives the steps of others because the database only
grows. `Finalize` may then write: the check under the lock says that the
loaded row is the head (`HeadIsLast`), so the new token is one more than the
number of revisions (`FinalRowsSound`), and `CanRebase` gives that the spans
it loaded lie on that head. There is one lemma `...Keeps` per action.
`HistoryGrows` and `Refinement` both come from `StepIsOneTransaction`: every
step takes `db` to a database one transaction away, and that is a step of the
log or a stutter (`OneTransactionIsOneLogStep`).

The reviews need a second invariant on top of `IInv`. An application reads the
accepted changes out of a file that other commands may rewrite, and writes them
to the database many steps later, so `EditsReviewed` speaks of two ends of a way
that the invariant has to follow:

    ReviewInv == Reviewed(db, approved) /\ Reviewed(staged, approved)
                 /\ JournalsApproved /\ \A p : HoldsApproved(p)

`JournalsApproved` is about the review file, `HoldsApproved` about the local
variables of an `apply` that has read it, `Reviewed` about the rows: each content
beyond the first names a run that was proposed for the text before it, and each
new edit was approved in that run. `Reviewed` also says that texts only gain
edits along the chain; hence no text comes back once it was left, and a run,
which names its text, is spent.

### The commands that wait

`ServicesProofs` proves `RewriteTypeCorrect`, `RequestsAreBounded`
(`[]CallsBounded`) and `OnlyFaithfulIsWritten` (`[]OutputOnlyForFaithful`) for
every number of anchors and every value of the two limits, under
`RewriteAssumption` (naturals, and at least one attempt). The bound on the
requests is not inductive; `Spent` accounts for them by step: `MaxRetries` for
each repair behind, one for each attempt behind, one for the attempt that is
waited for. `Output` says where the file may have been touched.

`CheckedIsKept` (`[]OnlyCheckedKept`) holds for any kinds under
`ImportAssumption`. `ImportInv` says that an import that waits for its worker,
or has a document from it, holds bytes that `Passed` the size check and the
identification; the file on disk does not occur in it, which is the point.

`ServicesAreTyped` is the type invariant of the three together. Its part about
the research call, that no more requests are sent than the limit allows, needs
that a call waits for another answer only while it has an attempt left
(`ResearchInv`). `ServicesKeepPromises` states the three safety properties for the
composition, in which the parts that rest begin as if they had ended.

### The files that commands share

| Module | Theorems | Inductive invariant |
|---|---|---|
| `ProjectFilesProofs` | `SchemaIsItsVersion`, `OpenedAreMigrated` | `OpeningInv`: the applied versions are 1 to some k and each script ran once (`SchemaInv`); the goals a command has left are the ones above what it reached (`Left`); what it is about to migrate lies in between (`Waiting`) |
| | `OnlyOverlapsDrop` | `JournalInv`: a history that parses is the one recorded last; what a command holds goes on from it, or it is overtaken |
| | `OneFormEver`, `WorkflowTakesText` | `ModesInv`: contents are there for the revisions 1 to n, all in the form of the claims, and so are the spans |
| `StyleVaultProofs` | `VaultIsTyped`, `StoredForEver`, `OriginalsAreThere`, `LogOnlyGrows`, `ReplayIsLatest`, `ViewsAreExplained` | `VaultInv`: what was reported as stored is there, a package has its original, and each command relies on what its earlier steps put down, a review on a view that the log explains span by span (`Relies`, `Explained`). The replay is a fold over the lines; `After` says in closed form what the first n lines make of a view |
| `SharedFilesProofs` | `RunsAreReported`, `ApprovalsAreJustified` | `BeaconInv`: every record has its snapshot; a ruling under way (`RulingStands`) holds the allowed half of one version, and when it may append, a version that allows and does not block (`Justified`, which uses that the two halves of a version are disjoint) |
| | `AnswersAreTheDetectors` | `CacheInv`: every row, and every answer about to be stored, is the local detector's for the text in its key |
| | `AcceptedAreReproduced`, `AloneAreOfTheirTree` | `BundlesInv`: of every command that nobody disturbed (`Alone`), what it has copied, recorded and checked is still in the bundle; of any other nothing is claimed (`OvertakenStands`) |

They hold for any number of processes and any data, under the named assumption
of each module: `OpeningAssumption` (the directory's name is a name),
`JournalAssumption` and `RevisionsAssumption` (the bounds are naturals),
`VaultAssumption`, `DetectorAssumption` (texts have the features that are
counted), `BeaconAssumption` (tiers are 1 to 5, the halves of a policy are
disjoint and not empty), `ReleaseAssumption` (checkouts have a
commit and edits of one of three sorts). Where the model has history variables (`recorded`, `overtaken`,
`under`, `mixed`) no guard reads them.

### What the commands make

`ArtifactProofs` is about four commands whose result a later one, or the user,
relies on.

| Theorems | Inductive invariant and argument |
|---|---|
| `ProfilesAreEarned` | `ProfileInv`: a profile is what `BuildProfile` makes of the samples, a report what `Compare` makes of that profile and some text. `BuiltIsEarned` follows the status through the aggregate of the packages' reports and its correction: a sum of naturals is zero only if each is, so no open span is lost on the way |
| `PrintedIsValid` | `CapsuleInv`: the printed id is the digest of a payload within the limits, and the file has that id. `PayloadWithinPolicy` bounds every list that preview cuts |
| `ExportIsTyped`, `OkIsTheContent`, `FailureHasCause` | `ExportInv`: each exporter's answer fits the file it audited (`Fits`). `SearchFinds` gives the audit's ordered search, a recursive function, its meaning: each text is looked for behind the one found last and found at its first place there. If none is missing, the texts stand in the file in their order (`NoneMissing`): so an audit that passes means the content is there. For `FailureHasCause` the invariant also says that from rendering on a document has something to show; then, format by format, what is found in a file that was rendered from it comes from a text that `Unexportable` or `Fragile` names, and back (`RenderedFails`) |
| `RefusalHasCause`, `SuccessIsComplete` | `ObsidianInv`: every note in the vault is none, the user's, or one of that name of some package (`Explains`); of a projection nobody disturbed, the files behind it are as it writes them (`Undisturbed`). `SlugsDiffer` shows that the numbered slugs are unique: a free one is found within one more tries than there are names taken (`FreeSlugIsFree`) |

The assumptions say what the parsers of these commands return. `ProfileAssumption`:
a label's samples are packages of spans with a class. `CapsuleAssumption`: nodes,
spans and authors have their fields, and the limits are positive, as the
constants in the code are. `ExportAssumption`: a document has a title
and sections that are texts.
`ProjectionAssumption`: headings have a slug and a body; the user is not one of
the projecting processes; two numbers of headings print differently.

### The composition of the commands

`CommandsInv` puts the invariants of the ten parts side by side, with what their
types need beyond them (`EntriesTyped`, `ReleaseTyped`, `BeaconTyped`,
`Directory`). A part that does not move stays as it began, so a step of the
composition is a step or a stutter of each (`EveryPartSteps`). This gives
`CommandsAreTyped` (`[]CommandsTypeOK`), `PartsAsSpecified` (the composition
implements the specification of every part) and from it `CommandsKeepPromises`:
sixteen other invariants of the run `Commands`, all but `SilenceMeansUsual`, of the
specification that the run checks.

### Induction over data

The induction theorems of the library take the property as a parameter, which the
provers cannot fill in. `RecursionLemmas` states the same over a set: a set of
naturals that holds 0 and, with a number, the next one, holds all up to a bound
(`BoundedInduction`, from `LeastElement`). Recursive functions and the folds of
the community modules are treated by giving their step as a function:
`FiniteRecursion` and `SetRecursion` say that the function is there and satisfies
its recursion, `PrefixFold` and `PrefixInduction` that a fold goes through the
prefixes of a sequence, `SumOfNats` that a sum of naturals is zero only if each
of them is.

Two traits of the provers have shaped the model. `SelectSeq` is opaque to them, so
a selection from a sequence is a fold (`Keep`, `Join`, `InOrder`), which TLC
evaluates the same. And that a string literal is in `STRING` cannot be derived,
so types name the strings that occur (`Sampled`, `Models`).

### Only model-checked

- Liveness: `Terminates`, `ImportEnds`, `ResearchEnds`, which need fairness and
  `ENABLED`.
- `SilenceMeansUsual`: the lengths it is about come from a sorted list of a set,
  which the library chooses among the permutations, and the argument is one about
  sums of squares; neither has been proved about.
- The runs that expect a violation: they show a trace, and there is nothing to
  prove.
- What holds of one instance by its constants, such as which of its two texts the
  detector takes for a model's; the theorems are about all texts.

## 6. Findings

- **`ContextTorn`**: `load_document_state` reads the revision and the spans in
  two queries outside a transaction. An `apply` that commits in between gives
  `context` the older text with the newer spans, although it promises to
  "Build context from the accepted revision and bound style profile." The
  writers are safe: they check the head under the lock and the spans on the
  text.
- **`DecisionLost`**: `decide` reads, merges and rewrites the review file
  without a lock; of two overlapping decisions one is lost, though both report
  success.
- **`SplitProject`**: `project ingest` digests `--project` as typed while the
  workflow commands resolve it first; a relative path puts documents into a
  project the workflow commands refuse to open, where `ProjectState.root` is
  documented as absolute.
- **`VaultExclusion`**: `record_review_decision` appends its line, then replays
  the whole log over the effective package it was given, where excluded spans
  have no text. After an exclusion any review of another span appends its
  decision and then fails with "unknown span id".

- **`RepairDiscarded`**: `decide_repair` refuses at `attempt >= max_attempts`
  before it looks at the candidate, and is called with the number of repairs
  already made. The text of the third repair is always requested and always
  thrown away, and a user whose third repair was perfect reads that the facts
  could not be preserved. With a limit of 0 even a perfect first text fails.
- **`ScrubLosesFacts`**: the facts are compared on the text as it was returned
  and the scrubber runs afterwards, in the writer. Of "Generated by Alice
  Smith" it leaves "Smith"; the command reports success with a preservation
  score of 1.

Findings without a run, read while modelling. The model does what the code does,
and the properties say what remains true:

- **Overview lost** (`obsidian_projection.py:248`): the files are a dictionary by
  path, so a heading whose slug is that of the overview takes its place. The
  docstring promises one overview file. `OkIsComplete` exempts the case.
- **Unescaped twice** (`docx_auditor.py:260`): the XML parser has unescaped the
  text already; an accepted text that shows `&amp;` literally is exported
  faithfully and refused by the audit. `Unexportable` names the case.
- **Terms across punctuation** (`style_compare.py:272`): preferred terms are
  pairs of adjacent words whatever stands between them, the search is for the two
  words with one space. A text that has its terms across a comma, a line break, a
  tab or two spaces, even the voice text itself, is reported to lack them. `Shows`
  models the search.
- **Strength clamped** (`style_invariants.py:402`): a value beyond its span is
  weak, where the docstring says strong.
- **Style evidence in plain text** (`import_commands.py:349`): `import style`
  opens the vault without a key provider in every mode; `bind-style` then refuses
  the evidence in the modes that encrypt. Nothing reads one form as the other
  (`WorkflowReadsText`).
- **`project.toml` overwritten** (`project_layout.py:90`): of two commands that
  find none the slower one writes over the faster one's, possibly with another
  name and so another project id.
- **Decision dropped** (`finalization_commands.py:638`): of two overlapping
  `accept` or `reject` one entry is lost although both report success.
  `OnlyOverlapDrops` shows that nothing else drops one.
- **Timeout of inactivity** (`http.py:99`): the client's "request timeout" bounds
  each connect, read and write. A response that keeps coming in is never timed
  out. `Terminates` and `ResearchEnds` except it.
- **CR kept** (`text_importer.py:48`): the text is split at LF alone, so a CRLF file
  keeps its CRs; the TXT exporter, documented with LF line endings, writes them
  back, and the audit refuses the artifact. `Unexportable` names the case.
- **Blank title** (`docx_auditor.py:150`): no exporter renders a title of white
  space, and the auditors of Markdown, DOCX and PDF look for it. Markdown always
  refuses; DOCX looks for that very white space, PDF for one space, so a text that
  holds it saves them. `Unexportable` names the case.
- **Uncommitted edits** (`build-release-bundle.sh:31`): HEAD is compared with the
  candidate, and the working tree is built; SPEC-027 speaks of builds "produced
  from the candidate SHA". `AloneIsOfItsTree` says what remains true.

## 7. Not modelled

Left out for good: format parsers and container writers, character tables,
style statistics that no comparison uses, cryptography, wording, logging,
argument parsing. They convert data and keep no state a second process sees. So
are the resource limits the operating system puts on a worker: they show as a
worker that dies.

Of the modelled components:

- `workflow status`, `project status`, `project revisions`, `finalize review`,
  `beacon sources` and the like only read;
- `reject_revision` and `rollback_from_backup` have no caller in the program;
- `diff-facts` and `scrub` are single passes over a text without a loop;
- the precedence of lexical rules and the offset arithmetic of the node
  transform are abstracted to which edits a text contains;
- the graded strengths of style tendencies, and the encrypted lines of the
  vault's decision log;
- `audit package`, the ZIP and PDF containers and their size limits, the
  installation test of the release scripts; the cap on listed outliers;
- the trigger states of the beacon, which no caller stores;
- the blob store and the retention classes, which no command applies to a
  project.

The scanner commands write one report that nothing else reads, and the command
line shell has no state; both are listed in `PROJECT.json` with the reason.
Three hazards listed there have no property: the batch review whose spans are
fixed from its first view (the later line wins by design), the race of two
first commands for `project.toml` (a finding above), and the gate that hashes the
manifest again, which only an overlapping run can change in between. A crash may
also leave half a line in the beacon's decision log, which no command reads.
